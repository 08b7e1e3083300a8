CONSTANTS
  Job = {j1, j2}
  Worker = {w1}
  Handler = {h1}
  AttemptLimits = {2}
  PollLimit = 1
  NoJob = NoJob
  NoWorker = NoWorker
SPECIFICATION FairSpec
PROPERTY EveryJobEnds
