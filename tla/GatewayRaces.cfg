CONSTANTS
  PCall = {p1, p2}
  CallId = {c1, c2, c3}
  Slot = {r1, r2}
  StartEvents = {"answered", "connected"}
  EndEvents = {"terminal", "disconnected"}
  OtherEvents = {"dtmf"}
  CallStatuses = {"completed", "busy"}
  Ordered = FALSE
  Scenarios <- RacesOrRedis
  NoCall = NoCall
  NoPCall = NoPCall
CHECK_DEADLOCK FALSE
SPECIFICATION Spec
SYMMETRY Symmetric
INVARIANTS
  TypeOK
  OneCallPerStartEvent
  SessionsHaveCalls
  AckedCallIsFindable
  CleanedIsGone
  CallEndsAsReported
