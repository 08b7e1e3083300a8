CONSTANTS
  Dep = {"db", "disk"}
  Answer <- GoodSlowFailed
  Window = 1
  MaxSamples = 3
  ErrorPct = 50
  MinRequests = 2
  Latency = 1
  P95 = 60
  NoLatency = NoLatency
  MaxTime = 2
  MaxRequests = 4
  MaxFaults = 1
SPECIFICATION FairSpec
INVARIANTS
  TypeOK
  SnapshotIsExact
PROPERTIES
  AlertsAreExact
  OutageIsAlerted
