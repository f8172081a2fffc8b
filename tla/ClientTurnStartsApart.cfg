SPECIFICATION Spec
CONSTANTS
    c1 = c1
    c2 = c2
    c3 = c3
    s1 = s1
    s2 = s2
    Conn = {c1, c2, c3}
    Term = {t1, t2, t3}
    Session = {s1, s2}
    SessionOf <- Pairing
    NoTerm = NoTerm
    NoConn = NoConn
    Nowhere = Nowhere
CHECK_DEADLOCK FALSE
PROPERTIES StartsApart
