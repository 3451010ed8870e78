------------------------------- MODULE Timer -------------------------------
(***************************************************************************)
(* The timer manager of zcrt (zcrtlib/ztimer.c): a linked list of one-shot *)
(* timers, a list of free nodes, a table of containers, and a thread that  *)
(* sweeps the list every TIMER_TICK milliseconds.                          *)
(*                                                                         *)
(* The sweep reads the list without the mutex and takes it only to unlink  *)
(* an expired node, so nodes are a heap of next pointers and each read of  *)
(* the sweep is a step.  Periods are counted in ticks: left < TIMER_TICK   *)
(* is left = 0.  Clients are the application's threads; a call from a      *)
(* callback is a client's call while the thread is in the callback.        *)
(***************************************************************************)
EXTENDS Integers, FiniteSets

CONSTANTS
  Clients,        \* callers of the timer interface
  Nodes,          \* bound: timer nodes the heap can give
  Keys,           \* callbacks with two arguments: what zcrt_timer_delete compares
  Periods,        \* periods in use, in ticks
  Cons,           \* container ids in use, below ZTIMER_CONTAINER_MAX
  ConstId,        \* ZTIMER_CONTAINER_CONSTID
  NoCon,          \* ZTIMER_INVALID_CONTAINER
  Null,           \* the NULL pointer
  MaxCalls,       \* bound: calls made altogether
  DeleteAnywhere  \* timers are deleted at any time, or only by callbacks

ASSUME TimerAssumption ==
  /\ Null \notin Nodes \cup Keys
  /\ IsFiniteSet(Nodes)
  /\ Periods \subseteq Nat
  /\ ConstId \notin Cons /\ NoCon \notin Cons \cup {ConstId}
  /\ MaxCalls \in Nat
  /\ DeleteAnywhere \in BOOLEAN

VARIABLES
  \* nodes: _zstTimerCB
  next, left, key, timecon,
  \* the manager: _zstTimer
  job, tail, freelist, freesize, container, run,
  alloc,          \* nodes taken from the heap so far
  \* the thread: where it is, and its two cursors
  wpc, cur, prev,
  unlinked,       \* per client, the node zcrt_timer_delete has yet to free
  calls,          \* calls made so far
  due,            \* per node, sweeps that have still to pass it, -1 for the one that runs it (least value)
  expiries,       \* per node, timers that expired while it was on the list;
                  \* due and expiries are ghosts: no action's guard reads them
  fault           \* a failed assertion, a NULL access, or a walk without end

nodeVars == <<next, left, key, timecon, due, expiries>>
listVars == <<job, tail, freelist, freesize, alloc>>
thrVars == <<wpc, cur, prev>>
vars == <<nodeVars, listVars, thrVars, container, run, unlinked, calls, fault>>

\* zcrt_timer_manage_init
Init ==
  /\ next = [n \in Nodes |-> Null]
  /\ left = [n \in Nodes |-> 0]
  /\ key = [n \in Nodes |-> Null]
  /\ timecon = [n \in Nodes |-> NoCon]
  /\ job = Null
  /\ tail = Null
  /\ freelist = Null
  /\ freesize = 0
  /\ container = {}
  /\ run = TRUE
  /\ alloc = {}
  /\ wpc = "sleep"
  /\ cur = Null
  /\ prev = Null
  /\ unlinked = [c \in Clients |-> Null]
  /\ calls = 0
  /\ due = [n \in Nodes |-> 0]
  /\ expiries = [n \in Nodes |-> 0]
  /\ fault = "none"

\* The k-th node from h on, Null behind the end of the list.
Chain(h) ==
  LET at[i \in 0 .. Cardinality(Nodes)] ==
        IF i = 0 THEN h ELSE IF at[i - 1] = Null THEN Null ELSE next[at[i - 1]]
  IN  at
OnChain(h) == {Chain(h)[k] : k \in 0 .. Cardinality(Nodes)} \ {Null}
Ends(h) == Chain(h)[Cardinality(Nodes)] = Null

\* The client is in no other call.  None is begun from outside once the manager was
\* told to stop; callbacks go on calling, as no operation looks at run.
MayCall(c) == (run \/ wpc = "call") /\ unlinked[c] = Null /\ calls < MaxCalls
Called == calls' = calls + 1

-----------------------------------------------------------------------------
(* Containers: zcrt_timer_container_new and _delete.  Which free id new     *)
(* picks is TimerContainer's concern.                                      *)

ContainerNew(c, id) ==
  /\ MayCall(c)
  /\ id \notin container
  /\ container' = container \cup {id}
  /\ Called
  /\ UNCHANGED <<nodeVars, listVars, thrVars, run, unlinked, fault>>

\* The timers of the container stay in the list.
ContainerDelete(c, id) ==
  /\ MayCall(c)
  /\ id \in container
  /\ container' = container \ {id}
  /\ Called
  /\ UNCHANGED <<nodeVars, listVars, thrVars, run, unlinked, fault>>

-----------------------------------------------------------------------------
(* zcrt_timercon_add and zcrt_timercon_add_argn: one critical section.  A  *)
(* container that is not in use, or a heap that is empty, changes nothing. *)

\* The node _zcrt_timer_malloc_cb gives: the first free one, else one of the
\* heap, else NULL.
NewNode ==
  IF freelist # Null THEN freelist
  ELSE IF alloc # Nodes THEN CHOOSE n \in Nodes : n \notin alloc ELSE Null

Malloc(n) ==
  /\ n # Null
  /\ alloc' = alloc \cup {n}
  /\ IF freelist # Null
       THEN freelist' = next[n] /\ freesize' = freesize - 1
       ELSE UNCHANGED <<freelist, freesize>>

\* _zcrt_timer_insert_cb_has_mutex; n has been cleared, so its next is NULL.
Insert(n) ==
  IF (job = Null) # (tail = Null)
    THEN fault' = "assert" /\ UNCHANGED <<next, job, tail>>
    ELSE /\ next' = [m \in Nodes |-> IF m = n THEN Null ELSE IF m = tail THEN n ELSE next[m]]
         /\ job' = IF job = Null THEN n ELSE job
         /\ tail' = n
         /\ UNCHANGED fault

\* The sweep under way has yet to reach the end of the list, or to start over.
StillToVisit == wpc # "sleep" /\ ~(wpc = "walk" /\ cur = Null)

\* A timer of period p in container id; con is what the node remembers of id.
AddNode(c, p, k, id, con) ==
  LET n == NewNode IN
  /\ MayCall(c)
  /\ id = ConstId \/ id \in container
  /\ Malloc(n)
  /\ left' = [left EXCEPT ![n] = p]
  /\ key' = [key EXCEPT ![n] = k]
  /\ timecon' = [timecon EXCEPT ![n] = con]
  /\ due' = [due EXCEPT ![n] = IF StillToVisit THEN p - 1 ELSE p]
  /\ expiries' = [expiries EXCEPT ![n] = 0]
  /\ Insert(n)
  /\ Called
  /\ UNCHANGED <<thrVars, container, run, unlinked>>

Add(c, p, k, id) == AddNode(c, p, k, id, id)

\* add_argn does not store the container: the node keeps 0 from the memset.
AddArgn(c, p, k, id) == AddNode(c, p, k, id, NoCon)

-----------------------------------------------------------------------------
(* zcrt_timer_delete: a critical section that unlinks, one that frees.     *)

MayDelete == DeleteAnywhere \/ wpc = "call"

\* The first node on the list with key k, its predecessor, if there is one.
MatchAt(k) ==
  {i \in DOMAIN Chain(job) : /\ Chain(job)[i] # Null
                             /\ key[Chain(job)[i]] = k
                             /\ \A m \in 0 .. i - 1 : key[Chain(job)[m]] # k}

\* The tail once the i-th node is unlinked.
DeleteTail(i) ==
  LET n == Chain(job)[i] IN
  IF i = 0 THEN (IF next[n] = Null THEN Null ELSE tail)
  ELSE IF tail = n THEN Chain(job)[i - 1] ELSE tail

DeleteUnlink(c, k) ==
  /\ MayCall(c)
  /\ MayDelete
  /\ \E i \in MatchAt(k) :
       LET n == Chain(job)[i] IN
       /\ unlinked' = [unlinked EXCEPT ![c] = n]
       /\ tail' = DeleteTail(i)
       /\ IF i = 0
            THEN job' = next[n] /\ UNCHANGED next
            ELSE next' = [next EXCEPT ![Chain(job)[i - 1]] = next[n]] /\ UNCHANGED job
       /\ fault' = IF i > 0 /\ tail = n /\ next[n] # Null THEN "assert" ELSE fault
  /\ Called
  /\ UNCHANGED <<left, key, timecon, due, expiries, freelist, freesize, alloc, thrVars,
                 container, run>>

\* No such timer; job is NULL where tail is compared with it.
DeleteNone(c, k) ==
  /\ MayCall(c)
  /\ MayDelete
  /\ MatchAt(k) = {}
  /\ fault' = IF ~Ends(job) THEN "hang"
              ELSE IF job # Null /\ tail = Null THEN "null" ELSE fault
  /\ Called
  /\ UNCHANGED <<nodeVars, listVars, thrVars, container, run, unlinked>>

\* Mutant: freesize is not raised.
FreeUncounted(n) ==
  /\ next' = [next EXCEPT ![n] = freelist]
  /\ freelist' = n
  /\ key' = [key EXCEPT ![n] = Null]
  /\ timecon' = [timecon EXCEPT ![n] = NoCon]
  /\ UNCHANGED freesize
\* _zcrt_timer_free_cb
Free(n) ==
  /\ next' = [next EXCEPT ![n] = freelist]
  /\ freelist' = n
  /\ freesize' = freesize + 1
  /\ key' = [key EXCEPT ![n] = Null]
  /\ timecon' = [timecon EXCEPT ![n] = NoCon]

\* The two ghosts of a node that is freed are cleared.
Forget(n) ==
  /\ due' = [due EXCEPT ![n] = 0]
  /\ expiries' = [expiries EXCEPT ![n] = 0]

DeleteFree(c) ==
  /\ unlinked[c] # Null
  /\ Free(unlinked[c])
  /\ Forget(unlinked[c])
  /\ unlinked' = [unlinked EXCEPT ![c] = Null]
  /\ UNCHANGED <<left, job, tail, alloc, thrVars, container, run, calls, fault>>

-----------------------------------------------------------------------------
(* The thread: _zcrt_timer_proc.                                           *)

\* Mutant: mng->run is not tested.
RunningForever == TRUE
\* The loop condition.
Running == run

\* Another turn of the loop: both cursors are set to the first node.
SweepStart ==
  /\ wpc = "sleep"
  /\ Running
  /\ wpc' = "walk"
  /\ cur' = job
  /\ prev' = job
  /\ due' = [n \in Nodes |-> IF n \in OnChain(job) /\ due[n] >= 0 THEN due[n] - 1 ELSE due[n]]
  /\ UNCHANGED <<next, left, key, timecon, expiries, listVars, container, run, unlinked, calls, fault>>

\* Mutant: a tick is not taken off.
AgedNot(v) == v
Aged(v) == v - 1

\* Mutant: the comparison admits a whole tick.
ExpiredTickEarly(v) == v <= 1
\* left < TIMER_TICK
Expired(v) == v = 0

\* The node under the cursor has time left.
SweepPass ==
  /\ wpc = "walk"
  /\ cur # Null
  /\ ~Expired(left[cur])
  /\ prev' = cur
  /\ left' = [left EXCEPT ![cur] = Aged(@)]
  /\ cur' = next[cur]
  /\ UNCHANGED <<next, key, timecon, due, expiries, listVars, wpc, container, run, unlinked, calls, fault>>

\* It has expired: the thread goes for the mutex.
SweepExpired ==
  /\ wpc = "walk"
  /\ cur # Null
  /\ Expired(left[cur])
  /\ wpc' = "lock"
  /\ UNCHANGED <<nodeVars, listVars, cur, prev, container, run, unlinked, calls, fault>>

\* Mutant: prev stays on the node that was unlinked.
PrevOfHeadStays == prev
\* prev after an unlinking: at the head of the list it moves to the new head.
PrevOfHead == IF job = cur THEN next[cur] ELSE prev

\* The critical section that unlinks the node.
FireUnlink ==
  LET p == PrevOfHead
      head == job = cur IN
  /\ wpc = "lock"
  /\ IF ~head /\ prev = Null
       THEN fault' = "null" /\ UNCHANGED <<next, job, tail, prev, wpc>>
       ELSE /\ job' = IF head THEN next[cur] ELSE job
            /\ next' = IF head THEN next ELSE [next EXCEPT ![prev] = next[cur]]
            /\ prev' = p
            /\ tail' = IF tail = cur THEN p ELSE tail
            /\ fault' = IF tail = cur /\ next'[cur] # Null THEN "assert" ELSE fault
            /\ wpc' = "unlinked"
  /\ expiries' = [n \in Nodes |-> IF n \in OnChain(job) \ {cur} THEN expiries[n] + 1 ELSE expiries[n]]
  /\ UNCHANGED <<left, key, timecon, due, freelist, freesize, alloc, cur, container,
                 run, unlinked, calls>>

\* ZCRT_ASSERT(job->fn), then the callback if the container is still there.
FireCall ==
  /\ wpc = "unlinked"
  /\ fault' = IF key[cur] = Null THEN "assert" ELSE fault
  /\ wpc' = IF timecon[cur] = ConstId \/ timecon[cur] \in container THEN "call" ELSE "skip"
  /\ UNCHANGED <<nodeVars, listVars, cur, prev, container, run, unlinked, calls>>

\* Mutant: one timer per sweep.
ResumeNever == Null
\* Where the walk goes on: at the head of the list again.
Resume == job

\* The node is freed and the walk starts over, prev left as it was.
FireFree ==
  /\ wpc \in {"call", "skip"}
  /\ DeleteAnywhere \/ \A c \in Clients : unlinked[c] = Null
  /\ Free(cur)
  /\ Forget(cur)
  /\ cur' = Resume
  /\ wpc' = "walk"
  /\ UNCHANGED <<left, job, tail, alloc, prev, container, run, unlinked, calls, fault>>

\* The end of the list: zcrt_sleep.
SweepEnd ==
  /\ wpc = "walk"
  /\ cur = Null
  /\ wpc' = "sleep"
  /\ UNCHANGED <<nodeVars, listVars, cur, prev, container, run, unlinked, calls, fault>>

\* zcrt_timer_manage_delete, called when nobody but a callback is in a call any more.
ManageDelete ==
  /\ run
  /\ wpc = "call" \/ \A c \in Clients : unlinked[c] = Null
  /\ run' = FALSE
  /\ UNCHANGED <<nodeVars, listVars, thrVars, container, unlinked, calls, fault>>

\* The thread leaves its loop and frees both lists and the manager.
Exit ==
  /\ wpc = "sleep"
  /\ ~Running
  /\ wpc' = "freed"
  /\ alloc' = alloc \ (OnChain(job) \cup OnChain(freelist))
  /\ job' = Null
  /\ tail' = Null
  /\ freelist' = Null
  /\ freesize' = 0
  /\ UNCHANGED <<nodeVars, cur, prev, container, run, unlinked, calls, fault>>

-----------------------------------------------------------------------------
Sweep ==
  \/ SweepStart
  \/ SweepPass
  \/ SweepExpired
  \/ FireUnlink
  \/ FireCall
  \/ FireFree
  \/ SweepEnd
  \/ Exit

Next ==
  /\ fault = "none"
  /\ \/ \E c \in Clients, id \in Cons : ContainerNew(c, id) \/ ContainerDelete(c, id)
     \/ \E c \in Clients, p \in Periods, k \in Keys, id \in Cons \cup {ConstId} :
          Add(c, p, k, id) \/ AddArgn(c, p, k, id)
     \/ \E c \in Clients, k \in Keys : DeleteUnlink(c, k) \/ DeleteNone(c, k)
     \/ \E c \in Clients : DeleteFree(c)
     \/ ManageDelete
     \/ Sweep

Spec == Init /\ [][Next]_vars

\* The timer thread runs, its callbacks return, and calls that were begun go on.
FairSpec ==
  /\ Spec
  /\ WF_vars(fault = "none" /\ Sweep)
  /\ \A c \in Clients : WF_vars(fault = "none" /\ DeleteFree(c))

-----------------------------------------------------------------------------
(* Properties.                                                             *)

\* The type of every variable (structs of ztimer.c).
TypeOK ==
  /\ next \in [Nodes -> Nodes \cup {Null}]
  /\ left \in [Nodes -> Nat]
  /\ key \in [Nodes -> Keys \cup {Null}]
  /\ timecon \in [Nodes -> Cons \cup {ConstId, NoCon}]
  /\ {job, tail, freelist, cur, prev} \subseteq Nodes \cup {Null}
  /\ freesize \in Nat
  /\ container \subseteq Cons
  /\ run \in BOOLEAN
  /\ alloc \subseteq Nodes
  /\ wpc \in {"sleep", "walk", "lock", "unlinked", "call", "skip", "freed"}
  /\ unlinked \in [Clients -> Nodes \cup {Null}]
  /\ calls \in 0 .. MaxCalls
  /\ due \in [Nodes -> Int]
  /\ expiries \in [Nodes -> Nat]
  /\ fault \in {"none", "assert", "null", "hang"}

\* Nodes in the hands of the thread or of a deletion, on neither list.
InHand ==
  {n \in Nodes : \/ wpc \in {"unlinked", "call", "skip"} /\ n = cur
                 \/ \E c \in Clients : unlinked[c] = n}

\* As long as timers are deleted by callbacks only, every node ever allocated
\* is in exactly one place, both lists end, tail is the last node and freesize
\* the length of the free list, whatever adds interleave with the sweep; none is left when
\* the manager has been freed.
NodesOnce ==
  IF wpc = "freed" THEN alloc = {} ELSE
    /\ Ends(job) /\ Ends(freelist)
    /\ OnChain(job) \cup OnChain(freelist) \cup InHand = alloc
    /\ OnChain(job) \cap OnChain(freelist) = {}
    /\ InHand \cap (OnChain(job) \cup OnChain(freelist)) = {}
    /\ freesize = Cardinality(OnChain(freelist))
    /\ IF job = Null THEN tail = Null ELSE tail \in OnChain(job) /\ next[tail] = Null

\* The cursor of the unlocked sweep is on the list, and the node it is about
\* to unlink is the head or the one behind prev.
CursorListed ==
  /\ wpc \in {"walk", "lock"} => cur \in OnChain(job) \cup {Null}
  /\ wpc = "lock" /\ cur # job => prev \in OnChain(job) /\ next[prev] = cur

\* A timer is never late: no timer is left on the list by a sweep that should
\* have run it, whatever was added or deleted while it was going on.
NeverLate == wpc = "sleep" => \A n \in OnChain(job) : due[n] >= 0

\* Each expiry restarts the sweep at the head, and the timers before it lose
\* one more tick.  A timer may therefore run early: by no more ticks than
\* timers have expired while it was waiting, and never when none has.
EarlyBound == wpc = "call" => due[cur] + 1 <= expiries[cur]

\* The assertions of ztimer.c hold.
NoAssertFails == fault # "assert"

\* No assertion fails, no NULL is followed and every walk ends.
NoFault == fault = "none"

\* Adds from anywhere and deletions by callbacks leave the lists, the cursor of the
\* unlocked sweep and the free list sound.
ListsSound == NoFault /\ NodesOnce /\ CursorListed

\* Every timer on the list leaves it, by being run or deleted or with the manager.
TimersRun == \A n \in Nodes : n \in OnChain(job) ~> n \notin OnChain(job)

\* The manager that was told to stop is freed, callbacks that add timers of period 0
\* again and again left out: run is not tested before the sweep has met the end of
\* the list, and MaxCalls bounds how often they put that off.
ManagerEnds == ~run ~> wpc = "freed"
=============================================================================
