SPECIFICATION Spec
CONSTANTS
    Thread = {t1, t2, t3}
    MaxOpen = 3
SYMMETRY ThreadSymmetry
PROPERTIES ReplacesOnlyStale
