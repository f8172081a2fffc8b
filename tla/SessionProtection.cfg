SPECIFICATION Spec
CONSTANTS
    Name = {n1, n2}
    MaxServers = 3
SYMMETRY Symmetric
INVARIANTS TypeOK NothingForgotten RestoresOnce
