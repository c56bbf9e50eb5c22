SPECIFICATION FairSpec
CONSTANTS
  Calls = {c1, c2}
  Requests = {r1, r2}
  NoCall = NoCall
  NoRequest = NoRequest
INVARIANTS
  DialledCallReachable
  DialledCallKeepsRegistration
  SeenCallOperated
PROPERTIES
  OfferedCallAnswered
  EndOfCallLogged
  RequestAnswered
