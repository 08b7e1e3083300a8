\* Reconnects and callbacks around two calls until the gateway has shut down.
CONSTANTS
  CallId = {k1, k2}
  Conn = {c1, c2, c3}
  DrainPolls = 2
  AllowUnresolved = FALSE
  RedisFails = FALSE
  NoCall = NoCall
SPECIFICATION FairSpec
CHECK_DEADLOCK FALSE
INVARIANTS
  ActiveIsCounted
  HungUpMeansGone
  
PROPERTY
  ShutdownEnds
