SPECIFICATION FairSpec
CONSTANTS
    Thread = {t1, t2, t3}
    MaxOpen = 3
INVARIANTS NeverCloseLeased
PROPERTIES RetryIsFresh LeaseIsDecided LeasesSpec
