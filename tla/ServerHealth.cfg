SPECIFICATION FairSpec
CONSTANTS
    Probe = {p1, p2}
    MaxVersion = 3
    MaxGen = 1
    MaxEdits = 2
    Gone = Gone
    NoEntry = NoEntry
    None = None
CHECK_DEADLOCK FALSE
INVARIANTS TypeOK CheckingIsUnderWay OneProbeCounts StatusIsCurrent
PROPERTY KeepsWatch
