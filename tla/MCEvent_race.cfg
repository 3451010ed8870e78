\* Two threads register, unregister and send, event 0 among them; callbacks register
\* and send.
SPECIFICATION Spec
CONSTANTS
  Threads = {t1, t2}
  Events = {0, 1}
  Keys = {k1}
  Pris = {0, 1}
  Kinds = {local, remote}
  Nodes = {n1, n2, n3}
  Null = Null
  Ops = {"register", "unregister", "send"}
  CallbackOps = {"register", "send"}
  MaxOps = 5
  MaxNest = 1
SYMMETRY Sym
INVARIANTS
  TypeOK
  ListsSound
  AllDueCalled
  GuardNamesSend
CHECK_DEADLOCK FALSE
