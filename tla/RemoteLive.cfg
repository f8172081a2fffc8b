SPECIFICATION LiveSpec
CONSTANTS
    MaxLink = 2
    MaxForward = 2
    MaxInstall = 1
    MaxFields = 2
    Health = h
    Req = {h, r1}
    NoEntry = NoEntry
    NoServer = NoServer
    NoEdit = NoEdit
    Id = {m1, m2}
    MaxAsk = 2
    MaxGen = 1
    NoTrial = NoTrial
    MaxPane = 1
    MaxHosted = 1
    Call = {k1}
    Sock = {b1}
    NoSock = NoSock
CHECK_DEADLOCK FALSE
PROPERTIES EveryRequestEnds DeadTunnelReplaced StartsAndEndsFinish SocketsSettle
