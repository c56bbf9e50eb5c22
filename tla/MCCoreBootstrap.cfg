SPECIFICATION FairSpec
CONSTANTS
  Count = 2
  Networks = 2
  Subscribers = {s1}
  BackoffLimit = 2
  MaxUpgrades = 1
  Provisions = {TRUE, FALSE}
  Reconciles = {TRUE, FALSE}
  Edits = TRUE
INVARIANTS
  SuccessIsComplete
PROPERTIES
  ClusterKept
  OperatorsNetworkKept
  Converges
CHECK_DEADLOCK FALSE
