\* Jobs are run and stopped threads end.
SPECIFICATION FairSpec
CONSTANTS
  Clients = {c1}
  h1 = h1
  h2 = h2
  h3 = h3
  Handles = {h1, h2, h3}
  ZThr = ZThr
  NoJob = NoJob
  NumPri = 2
  Calls <- IpcServer
  MaxSend = 2
  SemMax = 1
  Atomics = "interlocked"
  Quiesce = TRUE
PROPERTIES
  AcceptedJobsRun
  StoppedThreadEnds
CHECK_DEADLOCK FALSE
