SPECIFICATION Spec
CONSTANTS
  Calls = {c1, c2}
  Requests = {r1}
  NoCall = NoCall
  NoRequest = NoRequest
INVARIANT
  NoOrphanedCall
