SPECIFICATION FairSpec
CONSTANTS
  Slots = {s1, s2}
  None = None
  Cap = 1
  MaxFrames = 2
  MaxDeaths = 1
PROPERTIES
  KeepsPromise
  UplinkInOrder
  HealthySessionKept
  GnbEndNoticed
  QueueServed
CHECK_DEADLOCK FALSE
