SPECIFICATION Spec

CONSTANTS
  w1 = w1
  w2 = w2
  jobA = jobA
  jobB = jobB
  Workers = {w1, w2}
  Jobs = {jobA}
  DryJobs = {}
  QueueCap = 1
  ChannelCap = 1
  MaxRuns = 2
  MaxManual = 1
  MaxStarts = 2
  MaxFaults = 1
  MaxCrashes = 1

SYMMETRY Symmetry

INVARIANTS
  TypeOK
  StoppedIsSettled
  StatusFromHistory
  StatusNeverOvercounts
  StaleOnlyBeside

PROPERTIES
  PromisesKept

CHECK_DEADLOCK FALSE
