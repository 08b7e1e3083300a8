\* One job, every race between two workers, the sweep and late requests.
CONSTANTS
  Job = {j1}
  Worker = {w1, w2}
  Handler = {h1, h2, h3}
  AttemptLimits = {1, 2}
  PollLimit = 10
  NoJob = NoJob
  NoWorker = NoWorker
SPECIFICATION Spec
SYMMETRY Symmetric
INVARIANTS
  TypeOK
  ProcessedIffTerminal
  NoPrematureAck
  OneCallPerAttempt
  RetriesBounded
PROPERTIES
  TerminalIsFinal
  ImplementsDelivery
