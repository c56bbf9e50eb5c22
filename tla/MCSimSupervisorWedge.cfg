SPECIFICATION FairSpec
CONSTANTS
  Nodes = {n1, n2}
  None = None
  Firsts = {None}
  Commands = 1
  MaxMisses = 3
  MaxFaults = 1
PROPERTY
  NeverGivesUp
