CONSTANTS
  PCall = {p1}
  CallId = {c1, c2}
  Slot = {r1}
  StartEvents = {"answered"}
  EndEvents = {"terminal"}
  OtherEvents = {}
  CallStatuses = {"completed", "busy"}
  Ordered = TRUE
  Scenarios <- ApiFails
  NoCall = NoCall
  NoPCall = NoPCall
CHECK_DEADLOCK FALSE
SPECIFICATION FairSpec
PROPERTY EndFinalizes
