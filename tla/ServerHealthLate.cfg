SPECIFICATION Spec
CONSTANTS
    Probe = {p1, p2}
    MaxVersion = 3
    MaxGen = 3
    MaxEdits = 1
    Gone = Gone
    NoEntry = NoEntry
    None = None
CHECK_DEADLOCK FALSE
INVARIANTS LateResultsDropped
