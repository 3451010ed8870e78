\* Timers are added at any time and deleted by callbacks.
SPECIFICATION FairSpec
CONSTANTS
  Clients = {c1}
  Nodes = {n1, n2, n3}
  Keys = {k1, k2}
  Periods = {0, 2}
  Cons = {x1}
  ConstId = ConstId
  NoCon = NoCon
  Null = Null
  MaxCalls = 4
  DeleteAnywhere = FALSE
INVARIANTS
  TypeOK
  ListsSound
  NeverLate
  EarlyBound
PROPERTIES
  TimersRun
  ManagerEnds
CHECK_DEADLOCK FALSE
