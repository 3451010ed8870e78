\* Deletions that race with senders, Linux atomics, one priority: execution may
\* become undefined; what holds up to that point.
SPECIFICATION QuietSpec
CONSTANTS
  Clients = {c1, c2}
  h1 = h1
  h2 = h2
  h3 = h3
  Handles = {h1, h2}
  ZThr = ZThr
  NoJob = NoJob
  NumPri = 2
  Calls <- ShareSamePriority
  MaxSend = 2
  SemMax = 1
  Atomics = "stub"
  Quiesce = FALSE
SYMMETRY Sym
INVARIANTS
  NoLostWakeup
  OvershootBound
  JobAccounting
CHECK_DEADLOCK FALSE
