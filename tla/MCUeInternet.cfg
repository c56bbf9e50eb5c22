SPECIFICATION FairSpec
CONSTANTS
  Ips = {a, b}
  None = None
  MaxUpsets = 2
  Addresses <- MCAddresses
  Answers <- MCAnswers
  MaxChunks = 2
  MaxVia = 2
  WebUrls <- MCUrls
  MaxMarkup = 5
  MaxText = 3
  MaxLinks = 2
  MaxEvents = 1
  Pages <- MCPages
  MaxRequests = 1
CHECK_DEADLOCK FALSE
INVARIANTS
  TrafficConfined
  LeftoversHarmless
  StreamsComplete
  DialsPublic
  PageSafe
  NavigatesAsPhone
PROPERTIES
  PhoneBecomesReady
  RelayReleased
