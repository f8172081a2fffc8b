SPECIFICATION Spec
CONSTANTS
    Call = {k1, k2, k3}
    Server = {s1, s2}
    Value = {v1, v2}
    Absent = Absent
    Nothing = Nothing
CHECK_DEADLOCK FALSE
INVARIANTS NeverDiverges
