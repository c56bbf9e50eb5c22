SPECIFICATION Spec
CONSTANTS
  Modes = {FALSE}
  Texts = {x, y}
  MaxSent = 2
  Cap = 2
  MaxAttempts = 2
  MaxSkew = 0
INVARIANT
  DeliveredMeansReceived
