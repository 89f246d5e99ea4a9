SPECIFICATION FairSpec
CONSTANTS
    Fields = 5
    MaxFaults = 3
    MaxHands = 1
INVARIANTS TypeOK CommitIsWhole DataIsCommitted
PROPERTIES GuestRecovers StagesSpec
CHECK_DEADLOCK FALSE
