SPECIFICATION Spec
CONSTANTS
    Name = {n1, n2}
    MaxServers = 3
PROPERTIES LatestNeverEmptied
