SPECIFICATION FairSpec
CONSTANTS
  Clients = {k1, k2, k3}
  None = None
INVARIANTS
  TypeOK
  NoStrayConnection
  NeverWedged
PROPERTIES
  HealthySessionKept
  Reconnects
  KeepsPromise
