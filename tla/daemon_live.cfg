SPECIFICATION FairSpec

CONSTANTS
  w1 = w1
  w2 = w2
  jobA = jobA
  jobB = jobB
  Workers = {w1}
  Jobs = {jobA, jobB}
  DryJobs = {jobB}
  QueueCap = 2
  ChannelCap = 2
  MaxRuns = 4
  MaxManual = 0
  MaxStarts = 1
  MaxFaults = 0
  MaxCrashes = 0

INVARIANTS
  StatusCountsHistory

PROPERTIES
  AcceptedIsRecorded
  ShutdownCompletes

CHECK_DEADLOCK FALSE
