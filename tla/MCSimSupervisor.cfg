SPECIFICATION FairSpec
CONSTANTS
  Nodes = {n1, n2}
  None = None
  Firsts = {None, n1}
  Commands = 2
  MaxMisses = 3
  MaxFaults = 2
INVARIANTS
  ReadyHasProcesses
PROPERTIES
  DeadProcessReplaced
  OldCoreReleased
  Reattaches
