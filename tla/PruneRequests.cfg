SPECIFICATION FairSpec
CONSTANTS
    r1 = r1
    r2 = r2
    a1 = a1
    None = None
    MaxNodes = 2
    Alien <- MCAlien
    Request <- MCRequest
INVARIANTS TypeOK ReportIsTrue AdviceIsRight
PROPERTIES MembersStay PruneEnds
