SPECIFICATION Spec
CONSTANTS
  NBufs = 3
  Clients = {c1, c2}
  None = None
  Msgs <- MCMsgs
  Encoder = TRUE
  Atomics = "interlocked"
  SchCap = 2
  RespCap = 1
  EvtCap = 1
  HookTwice = FALSE
  Quiesce = TRUE
  MaxReqs <- MCMaxReqs
  MaxFires = 1
INVARIANT SendsHoldClient
CHECK_DEADLOCK FALSE
