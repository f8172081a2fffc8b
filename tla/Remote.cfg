SPECIFICATION Spec
CONSTANTS
    MaxLink = 2
    MaxForward = 2
    MaxInstall = 2
    MaxFields = 2
    Health = h
    Req = {h, r1}
    NoEntry = NoEntry
    NoServer = NoServer
    NoEdit = NoEdit
    Id = {m1, m2}
    MaxAsk = 2
    MaxGen = 2
    NoTrial = NoTrial
    MaxPane = 3
    MaxHosted = 2
    Call = {k1}
    Sock = {b1, b2}
    NoSock = NoSock
SYMMETRY Symmetric
CHECK_DEADLOCK FALSE
INVARIANTS RemoteTypeOK NoStrayForward PoolOwnsLinks StreamsOfGeneration AskedOnce OneClientOnPane OwnershipKept TurnNeverStuck NobodyWaitsAlone OneIsActive NobodyHangs NoStrayShell
PROPERTIES InstallsOnOneTarget IsOneTerminal
