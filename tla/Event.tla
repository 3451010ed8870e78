------------------------------- MODULE Event -------------------------------
(***************************************************************************)
(* The event manager of zcrt (zcrtlib/zevent.c): per event a list of       *)
(* registrations in descending priority, and a list of free nodes.         *)
(*                                                                         *)
(* zcrt_event_send runs the callbacks with the manager's mutex held; the   *)
(* mutex is recursive (RecursiveMutex), so a callback may call back into   *)
(* the manager.  Each thread therefore has a stack of calls in progress:   *)
(* only the top one moves, and a new one starts on an empty stack or on a  *)
(* send that is inside a callback.  A node's next pointer is its successor *)
(* in the one list that holds it.                                          *)
(***************************************************************************)
EXTENDS Integers, Sequences, FiniteSets

CONSTANTS
  Threads,      \* threads of the application
  Events,       \* event ids in use, below ZCRT_MAX_EVT
  Keys,         \* callbacks with their two arguments: what unregister compares
  Pris,         \* priorities in use; a higher number is called earlier
  Kinds,        \* EZCRTEvtType_local and EZCRTEvtType_remote
  Nodes,        \* bound: registration nodes the heap can give
  Null,         \* the NULL pointer
  Ops,          \* what threads do outside callbacks
  CallbackOps,  \* what callbacks do to the manager
  MaxOps,       \* bound: calls started altogether
  MaxNest       \* bound: depth of calls from callbacks

Types == {"all"} \cup Kinds
OpKinds == {"register", "unregister", "send"}

ASSUME EventAssumption ==
  /\ Events \subseteq 0 .. 255
  /\ IsFiniteSet(Nodes) /\ Null \notin Nodes \cup Keys
  /\ Pris \subseteq Nat
  /\ "all" \notin Kinds
  /\ Ops \subseteq OpKinds /\ CallbackOps \subseteq OpKinds
  /\ MaxOps \in Nat /\ MaxNest \in Nat

VARIABLES
  evtlist,      \* per event, its registrations in list order
  freelist, freesize,
  data,         \* the fields of each node; key is Null in a node without fn
  alloc,        \* nodes taken from the heap so far
  lastEvtid,
  stack,        \* per thread, its calls in progress, innermost last
  ops,          \* calls started so far
  fault         \* a failed assertion or access through NULL, or the manager's deletion

vars == <<evtlist, freelist, freesize, data, alloc, lastEvtid, stack, ops, fault>>

NoData == [key |-> Null, pri |-> 0, type |-> "all", no |-> 0]

\* zcrt_event_manage_init
Init ==
  /\ evtlist = [e \in Events |-> <<>>]
  /\ freelist = <<>>
  /\ freesize = 0
  /\ data = [n \in Nodes |-> NoData]
  /\ alloc = {}
  /\ lastEvtid = 0
  /\ stack = [t \in Threads |-> <<>>]
  /\ ops = 0
  /\ fault = "none"

-----------------------------------------------------------------------------
Top(t) == stack[t][Len(stack[t])]
Push(t, f) == [stack EXCEPT ![t] = Append(@, f)]
Pop(t) == [stack EXCEPT ![t] = SubSeq(@, 1, Len(@) - 1)]
SetTop(t, f) == [stack EXCEPT ![t][Len(stack[t])] = f]
Doing(t, op) == stack[t] # <<>> /\ Top(t).op = op
SendAt(t, st) == Doing(t, "send") /\ Top(t).st = st

\* Sends hold the mutex while they walk the list and while a callback runs.
Holds(f) == f.op = "send" /\ f.st \in {"loop", "call"}
MutexFree(t) ==
  \A u \in Threads \ {t} : \A i \in DOMAIN stack[u] : ~Holds(stack[u][i])

\* Thread t calls op: from its own code, or from the callback it is running.
MayCall(t, op) ==
  /\ ops < MaxOps
  /\ \/ stack[t] = <<>> /\ op \in Ops
     \/ SendAt(t, "call") /\ op \in CallbackOps /\ Len(stack[t]) <= MaxNest
Counted == ops' = ops + 1

IsIn(n, s) == \E i \in DOMAIN s : s[i] = n
\* Mutant: the walk stops one node short.
SuccInShort(n, s) ==
  LET i == CHOOSE k \in DOMAIN s : s[k] = n IN IF i < Len(s) - 1 THEN s[i + 1] ELSE Null
SuccIn(n, s) ==
  LET i == CHOOSE k \in DOMAIN s : s[k] = n IN IF i < Len(s) THEN s[i + 1] ELSE Null
\* node->next: a node on no list was just cleared by memset.
NextOf(n) ==
  IF IsIn(n, freelist) THEN SuccIn(n, freelist)
  ELSE IF \E e \in Events : IsIn(n, evtlist[e])
         THEN SuccIn(n, evtlist[CHOOSE e \in Events : IsIn(n, evtlist[e])])
         ELSE Null
HeadOf(s) == IF s = <<>> THEN Null ELSE s[1]

-----------------------------------------------------------------------------
(* zcrt_event_register_ex; zcrt_event_register passes type "all".          *)

\* _zcrt_Event_malloc_cb: a node from the free list, else from the heap, else
\* NULL; the caller does not look which.
RegisterAlloc(t, e, k, p, y) ==
  LET fresh == [key |-> k, pri |-> p, type |-> y, no |-> 0] IN
  /\ MayCall(t, "register")
  /\ MutexFree(t)
  /\ \/ /\ freelist # <<>>
        /\ freelist' = Tail(freelist)
        /\ freesize' = freesize - 1
        /\ data' = [data EXCEPT ![Head(freelist)] = fresh]
        /\ stack' = Push(t, [op |-> "register", e |-> e, node |-> Head(freelist)])
        /\ UNCHANGED alloc
     \/ \E n \in Nodes \ alloc :
          /\ freelist = <<>>
          /\ alloc' = alloc \cup {n}
          /\ data' = [data EXCEPT ![n] = fresh]
          /\ stack' = Push(t, [op |-> "register", e |-> e, node |-> n])
          /\ UNCHANGED <<freelist, freesize>>
     \/ /\ freelist = <<>>
        /\ alloc = Nodes
        /\ stack' = Push(t, [op |-> "register", e |-> e, node |-> Null])
        /\ UNCHANGED <<freelist, freesize, data, alloc>>
  /\ Counted
  /\ UNCHANGED <<evtlist, lastEvtid, fault>>

\* Mutant: a new registration goes before those of its own priority.
InsertPosBefore(s, p) ==
  CHOOSE i \in 0 .. Len(s) :
    /\ \A k \in 1 .. i : data[s[k]].pri > p
    /\ i < Len(s) => data[s[i + 1]].pri <= p
\* The walk stops behind the registrations of the same or a higher priority.
InsertPos(s, p) ==
  CHOOSE i \in 0 .. Len(s) :
    /\ \A k \in 1 .. i : data[s[k]].pri >= p
    /\ i < Len(s) => data[s[i + 1]].pri < p
InsertAfter(s, i, n) == SubSeq(s, 1, i) \o <<n>> \o SubSeq(s, i + 1, Len(s))

\* The ghost no numbers the registrations of an event as they are made.
NewestNo(e) ==
  LET nos == {0} \cup {data[evtlist[e][i]].no : i \in DOMAIN evtlist[e]} IN
  CHOOSE m \in nos : \A k \in nos : k <= m

RegisterInsert(t) ==
  LET e == Top(t).e
      n == Top(t).node IN
  /\ Doing(t, "register")
  /\ MutexFree(t)
  /\ n # Null
  /\ evtlist' = [evtlist EXCEPT ![e] = InsertAfter(@, InsertPos(@, data[n].pri), n)]
  /\ data' = [data EXCEPT ![n].no = NewestNo(e) + 1]
  /\ stack' = Pop(t)
  /\ UNCHANGED <<freelist, freesize, alloc, lastEvtid, ops, fault>>

\* Without a node: an empty list stays empty and 0 is returned; otherwise
\* job->next is an access through NULL.
RegisterNoMem(t) ==
  /\ Doing(t, "register")
  /\ MutexFree(t)
  /\ Top(t).node = Null
  /\ IF evtlist[Top(t).e] = <<>>
       THEN stack' = Pop(t) /\ UNCHANGED fault
       ELSE fault' = "null" /\ UNCHANGED stack
  /\ UNCHANGED <<evtlist, freelist, freesize, data, alloc, lastEvtid, ops>>

-----------------------------------------------------------------------------
(* zcrt_event_unregister                                                   *)

\* The assertion, made before the mutex is taken.
UnregisterAssert(t, e, k) ==
  /\ MayCall(t, "unregister")
  /\ IF lastEvtid # e
       THEN /\ stack' = Push(t, [op |-> "unregister", e |-> e, key |-> k])
            /\ UNCHANGED fault
       ELSE /\ fault' = "assert"
            /\ UNCHANGED stack
  /\ Counted
  /\ UNCHANGED <<evtlist, freelist, freesize, data, alloc, lastEvtid>>

FirstOf(s, k) ==
  CHOOSE i \in DOMAIN s :
    data[s[i]].key = k /\ \A m \in DOMAIN s : m < i => data[s[m]].key # k
RemoveAt(s, i) == SubSeq(s, 1, i - 1) \o SubSeq(s, i + 1, Len(s))

\* Mutant: freesize is not raised.
FreeCbUncounted(n) ==
  /\ freelist' = <<n>> \o freelist
  /\ data' = [data EXCEPT ![n].key = Null]
  /\ UNCHANGED freesize
\* _zcrt_Event_free_cb
FreeCb(n) ==
  /\ freelist' = <<n>> \o freelist
  /\ freesize' = freesize + 1
  /\ data' = [data EXCEPT ![n].key = Null]

\* The first registration with this callback and arguments is unlinked and
\* put on the free list, its fn cleared.
UnregisterRemove(t) ==
  LET e == Top(t).e
      s == evtlist[e]
      i == FirstOf(s, Top(t).key) IN
  /\ Doing(t, "unregister")
  /\ MutexFree(t)
  /\ IF \E m \in DOMAIN s : data[s[m]].key = Top(t).key
       THEN /\ evtlist' = [evtlist EXCEPT ![e] = RemoveAt(@, i)]
            /\ FreeCb(s[i])
       ELSE UNCHANGED <<evtlist, freelist, freesize, data>>
  /\ stack' = Pop(t)
  /\ UNCHANGED <<alloc, lastEvtid, ops, fault>>

-----------------------------------------------------------------------------
(* zcrt_event_send_ex; zcrt_event_send passes type "all".                  *)

Matches(a, b) == a = b \/ a = "all" \/ b = "all"
\* The registrations a send of type y has to call.
Due(e, y) == {n \in Nodes : IsIn(n, evtlist[e]) /\ Matches(data[n].type, y)}

\* lastEvtid is set before the mutex is taken.
SendStart(t, e, y) ==
  /\ MayCall(t, "send")
  /\ lastEvtid' = e
  /\ stack' = Push(t, [op |-> "send", e |-> e, type |-> y, st |-> "enter",
                       cur |-> Null, due |-> {}])
  /\ Counted
  /\ UNCHANGED <<evtlist, freelist, freesize, data, alloc, fault>>

SendLock(t) ==
  LET f == Top(t) IN
  /\ SendAt(t, "enter")
  /\ MutexFree(t)
  /\ stack' = SetTop(t, [f EXCEPT !.st = "loop", !.cur = HeadOf(evtlist[f.e]),
                                  !.due = Due(f.e, f.type)])
  /\ UNCHANGED <<evtlist, freelist, freesize, data, alloc, lastEvtid, ops, fault>>

\* The node under the cursor is called if the types match, else passed over.
SendVisit(t) ==
  LET f == Top(t) IN
  /\ SendAt(t, "loop")
  /\ f.cur # Null
  /\ IF ~Matches(data[f.cur].type, f.type)
       THEN stack' = SetTop(t, [f EXCEPT !.cur = NextOf(f.cur)]) /\ UNCHANGED fault
       ELSE IF data[f.cur].key # Null
         THEN stack' = SetTop(t, [f EXCEPT !.st = "call", !.due = @ \ {f.cur}])
              /\ UNCHANGED fault
         ELSE fault' = "null" /\ UNCHANGED stack
  /\ UNCHANGED <<evtlist, freelist, freesize, data, alloc, lastEvtid, ops>>

\* The callback returns; cur->next is read only now.
SendReturn(t) ==
  LET f == Top(t) IN
  /\ SendAt(t, "call")
  /\ stack' = SetTop(t, [f EXCEPT !.st = "loop", !.cur = NextOf(f.cur)])
  /\ UNCHANGED <<evtlist, freelist, freesize, data, alloc, lastEvtid, ops, fault>>

SendUnlock(t) ==
  LET f == Top(t) IN
  /\ SendAt(t, "loop")
  /\ f.cur = Null
  /\ stack' = SetTop(t, [f EXCEPT !.st = "leave"])
  /\ UNCHANGED <<evtlist, freelist, freesize, data, alloc, lastEvtid, ops, fault>>

\* Mutant: lastEvtid is not cleared.
SendEndKeepsId(t) ==
  /\ SendAt(t, "leave")
  /\ stack' = Pop(t)
  /\ UNCHANGED <<evtlist, freelist, freesize, data, alloc, lastEvtid, ops, fault>>

\* lastEvtid is cleared after the mutex is released.
SendEnd(t) ==
  /\ SendAt(t, "leave")
  /\ lastEvtid' = 0
  /\ stack' = Pop(t)
  /\ UNCHANGED <<evtlist, freelist, freesize, data, alloc, ops, fault>>

-----------------------------------------------------------------------------
Step(t) ==
  \/ RegisterInsert(t)
  \/ RegisterNoMem(t)
  \/ UnregisterRemove(t)
  \/ SendLock(t)
  \/ SendVisit(t)
  \/ SendReturn(t)
  \/ SendUnlock(t)
  \/ SendEnd(t)

\* zcrt_event_manage_delete frees the nodes of every list; what is registered then is
\* only logged.  Nobody may be in a call: the mutex goes first.
ManageDelete ==
  /\ \A t \in Threads : stack[t] = <<>>
  /\ alloc' = {n \in alloc : ~IsIn(n, freelist) /\ \A e \in Events : ~IsIn(n, evtlist[e])}
  /\ evtlist' = [e \in Events |-> <<>>] /\ freelist' = <<>> /\ freesize' = 0
  /\ data' = [n \in Nodes |-> NoData]
  /\ lastEvtid' = 0
  /\ fault' = "deleted"
  /\ UNCHANGED <<stack, ops>>

Next ==
  /\ fault = "none"
  /\ \/ ManageDelete
     \/ \E t \in Threads :
          \/ \E e \in Events, k \in Keys, p \in Pris, y \in Types : RegisterAlloc(t, e, k, p, y)
          \/ \E e \in Events, k \in Keys : UnregisterAssert(t, e, k)
          \/ \E e \in Events, y \in Types : SendStart(t, e, y)
          \/ Step(t)

Spec == Init /\ [][Next]_vars

-----------------------------------------------------------------------------
(* Properties.                                                             *)

Frames ==
  [op : {"register"}, e : Events, node : Nodes \cup {Null}]
  \cup [op : {"unregister"}, e : Events, key : Keys]
  \cup [op : {"send"}, e : Events, type : Types, st : {"enter", "loop", "call", "leave"},
        cur : Nodes \cup {Null}, due : SUBSET Nodes]

\* The type of every variable (structs of zevent.c).
TypeOK ==
  /\ evtlist \in [Events -> Seq(Nodes)]
  /\ freelist \in Seq(Nodes)
  /\ freesize \in Nat
  /\ data \in [Nodes -> [key : Keys \cup {Null}, pri : Pris \cup {0}, type : Types, no : Nat]]
  /\ alloc \subseteq Nodes
  /\ lastEvtid \in Events \cup {0}
  /\ stack \in [Threads -> Seq(Frames)]
  /\ ops \in 0 .. MaxOps
  /\ fault \in {"none", "assert", "null", "deleted"}

\* Registrations are kept in descending priority and, at one priority, in the
\* order they were made, whichever threads and callbacks made them.
ListsOrdered ==
  \A e \in Events : \A i, j \in DOMAIN evtlist[e] : i < j =>
    LET a == data[evtlist[e][i]]
        b == data[evtlist[e][j]]
    IN  a.pri > b.pri \/ (a.pri = b.pri /\ a.no < b.no)

Carried == {n \in Nodes : \E t \in Threads : \E i \in DOMAIN stack[t] :
              stack[t][i].op = "register" /\ stack[t][i].node = n}
Places(n) ==
  Cardinality({i \in DOMAIN freelist : freelist[i] = n})
  + Cardinality({x \in Events \X (1 .. Cardinality(Nodes)) :
                   x[2] \in DOMAIN evtlist[x[1]] /\ evtlist[x[1]][x[2]] = n})
  + (IF n \in Carried THEN 1 ELSE 0)

\* Every node taken from the heap is in exactly one place: the free list, the
\* list of one event, or a registration under way; freesize counts the free list.
\* So the deletion of the manager leaves none behind.
NodesOnce ==
  /\ \A n \in Nodes : Places(n) = IF n \in alloc THEN 1 ELSE 0
  /\ freesize = Len(freelist)

\* The cursor of a send stays on the list it walks, whatever other threads do and
\* whatever callbacks register and send meanwhile: no callback of another event and
\* no cleared node is called.  (A callback that unregisters can take the node away
\* from under the cursor; with "unregister" in CallbackOps this does not hold.)
CursorListed ==
  \A t \in Threads : \A i \in DOMAIN stack[t] :
    LET f == stack[t][i] IN
    Holds(f) /\ f.cur # Null => IsIn(f.cur, evtlist[f.e])

\* What registrations, unregistrations by threads and sends do to each other's lists,
\* and what callbacks register and send, keeps the lists in order, complete and under
\* the cursors that walk them.
ListsSound == ListsOrdered /\ NodesOnce /\ CursorListed

\* A send that has run to its end has called every matching registration that
\* was there when it took the mutex, if no callback unregisters.
AllDueCalled ==
  \A t \in Threads : \A i \in DOMAIN stack[t] :
    stack[t][i].op = "send" /\ stack[t][i].st = "leave" => stack[t][i].due = {}

\* Some thread is in a send of event e.
InSend(e) == \E t \in Threads : \E i \in DOMAIN stack[t] : stack[t][i].op = "send" /\ stack[t][i].e = e

\* Whom the assertion of zcrt_event_unregister stops, which compares the event with
\* lastEvtid, set and cleared by sends outside the mutex (zevent.c:194).  For an
\* event from 1 on it fails only while some send of that event is going on: lastEvtid
\* outlives no send, whatever sends overlap.  Event 0 it takes for one that is being
\* sent: when nothing is sent, it fails for event 0, and for that one only.
GuardNamesSend ==
  /\ \A e \in Events \ {0} : lastEvtid = e => InSend(e)
  /\ (\A e \in Events : ~InSend(e)) => lastEvtid = 0
=============================================================================
