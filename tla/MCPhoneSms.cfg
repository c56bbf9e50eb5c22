SPECIFICATION Spec
CONSTANTS
  Modes = {TRUE, FALSE}
  Texts = {x, y}
  MaxSent = 3
  Cap = 2
  MaxAttempts = 2
  MaxSkew = 1
SYMMETRY TextSymmetry
INVARIANTS
  TypeOK
  DeliveryHasEvidence
  ReceptionsBalance
  OwnedBySubmit
PROPERTIES
  StatusOnlyAdvances
