SPECIFICATION Spec
CONSTANTS
  Count = 1
  Networks = 1
  Subscribers = {s1}
  BackoffLimit = 4
  MaxUpgrades = 0
  Provisions = {TRUE}
  Reconciles = {FALSE}
  Edits = FALSE
INVARIANT
  FreshCoreGetsPools
CHECK_DEADLOCK FALSE
