SPECIFICATION FairSpec
CONSTANTS
  NBufs = 3
  Clients = {c1, c2}
  None = None
  Msgs <- MCMsgs
  Encoder = TRUE
  Atomics = "interlocked"
  SchCap = 2
  RespCap = 1
  EvtCap = 1
  HookTwice = FALSE
  Quiesce = TRUE
  MaxReqs <- MCMaxReqs
  MaxFires = 1
INVARIANTS TypeOK ClientOutlivesUses BufsConserved
PROPERTIES RepliesInOrder ClientEnds
CHECK_DEADLOCK FALSE
