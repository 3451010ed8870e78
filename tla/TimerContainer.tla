--------------------------- MODULE TimerContainer ---------------------------
(***************************************************************************)
(* Container ids of the timer manager (zcrtlib/ztimer.c): a table of       *)
(* ZTIMER_CONTAINER_MAX flags, and a 16-bit rotor conlastid where the next *)
(* search starts.  The search runs under the manager's mutex, so nothing   *)
(* else happens to the table meanwhile; its loop is modelled probe by      *)
(* probe because its 16-bit counter may wrap.                              *)
(***************************************************************************)
EXTENDS Naturals

CONSTANTS
  ConMax,       \* ZTIMER_CONTAINER_MAX (1000)
  IdMod         \* 2^16: how far a uint16_t counts

ASSUME ContainerAssumption ==
  /\ ConMax \in Nat \ {0, 1}
  /\ IdMod \in Nat /\ IdMod > ConMax

VARIABLES
  container,    \* ids in use
  conlastid,    \* the rotor
  i,            \* the loop variable of a search
  pc,           \* "idle", "probe" inside the loop, "done" when it has returned
  cid           \* what the last search returned

containerVars == <<container, conlastid, i, pc, cid>>

Invalid == 0    \* ZTIMER_INVALID_CONTAINER
Ids == 0 .. ConMax - 1

ContainerInit ==
  /\ container = {}
  /\ conlastid = 0
  /\ i = 0
  /\ pc = "idle"
  /\ cid = Invalid

\* zcrt_timer_container_new takes the mutex.
NewBegin ==
  /\ pc = "idle"
  /\ pc' = "probe"
  /\ i' = conlastid
  /\ cid' = Invalid
  /\ UNCHANGED <<container, conlastid>>

\* Mutant: the last id is not looked at.
InRangeShort == i < conlastid + ConMax - 1
\* The loop condition, evaluated in int.
InRange == i < conlastid + ConMax

Usable(id) == id # Invalid /\ id \notin container

\* The id under the rotor is free.
NewTake ==
  LET idx == i % ConMax IN
  /\ pc = "probe"
  /\ InRange
  /\ Usable(idx)
  /\ container' = container \cup {idx}
  /\ conlastid' = i
  /\ cid' = idx
  /\ pc' = "done"
  /\ UNCHANGED i

\* Mutant: the counter is not moved on.
AfterSame(v) == v
After(v) == (v + 1) % IdMod

\* It is not: i++ on a uint16_t.
NewSkip ==
  /\ pc = "probe"
  /\ InRange
  /\ ~Usable(i % ConMax)
  /\ i' = After(i)
  /\ UNCHANGED <<container, conlastid, pc, cid>>

\* The loop ends: ZTIMER_INVALID_CONTAINER is returned.
NewFail ==
  /\ pc = "probe"
  /\ ~InRange
  /\ pc' = "done"
  /\ UNCHANGED <<container, conlastid, i, cid>>

\* The caller has the result and the mutex is free again.
NewReturn ==
  /\ pc = "done"
  /\ pc' = "idle"
  /\ i' = 0
  /\ UNCHANGED <<container, conlastid, cid>>

\* zcrt_timer_container_delete
Delete(id) ==
  /\ pc = "idle"
  /\ id \in container
  /\ container' = container \ {id}
  /\ UNCHANGED <<conlastid, i, pc, cid>>

New == NewBegin \/ NewTake \/ NewSkip \/ NewFail \/ NewReturn
ContainerNext == New \/ \E id \in Ids : Delete(id)

\* A search that was begun goes on.
ContainerSpec == /\ ContainerInit /\ [][ContainerNext]_containerVars
                 /\ WF_containerVars(NewTake \/ NewSkip \/ NewFail \/ NewReturn)

-----------------------------------------------------------------------------
\* The type of every variable.
ContainerTypeOK ==
  /\ container \subseteq Ids \ {Invalid}
  /\ conlastid \in 0 .. IdMod - 1
  /\ i \in 0 .. IdMod - 1
  /\ pc \in {"idle", "probe", "done"}
  /\ cid \in Ids

\* ZTIMER_INVALID_CONTAINER is returned only when every id is in use, wherever
\* the rotor stands and also when the counter wraps on the way.
FailsOnlyWhenFull == pc = "done" /\ cid = Invalid => container = Ids \ {Invalid}

AllInUse == container = Ids \ {Invalid}
\* i < conlastid + ConMax holds for every uint16_t i.
BoundBeyondRange == conlastid + ConMax >= IdMod

\* A search returns, unless all ids are in use and the rotor is within ConMax
\* of the end of its range: then the counter wraps below the bound for ever.
NewReturns == pc = "probe" /\ ~(AllInUse /\ BoundBeyondRange) ~> pc = "done"
=============================================================================
