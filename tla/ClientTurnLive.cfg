SPECIFICATION LiveSpec
CONSTANTS
    c1 = c1
    c3 = c3
    s1 = s1
    s2 = s2
    Conn = {c1, c3}
    Term = {t1, t2}
    Session = {s1, s2}
    SessionOf <- Pairing
    NoTerm = NoTerm
    NoConn = NoConn
    Nowhere = Nowhere
    Size = {small, large, wide}
    MaxHeld = 2
    MaxTyped = 3
    MaxClient = 4
    NotHeld = NotHeld
CHECK_DEADLOCK FALSE
PROPERTIES Answered WaitingIsEnded IsOneChannel EverythingArrives SizeReached
