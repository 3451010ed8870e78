------------------------------ MODULE ZipcPool ------------------------------
(***************************************************************************)
(* The message buffers of an ipc server: zipc_buf_malloc and zipc_buf_free *)
(* (zipc/zipc_parse.c), and the jobs that carry them.  A buffer is a       *)
(* number; which of the free ones is handed out makes no difference.       *)
(***************************************************************************)
EXTENDS Naturals, Sequences, FiniteSets

CONSTANTS
  NBufs         \* bound: buffers the heap can provide
ASSUME PoolAssumption == NBufs \in Nat

VARIABLES
  freebuf,      \* ipc->freebuf
  heap,         \* buffers not allocated
  fault         \* "none", or the undefined behaviour that ended the execution

poolVars == <<freebuf, heap, fault>>

Bufs == 1 .. NBufs
NoBuf == 0      \* NULL

PoolInit == freebuf = {} /\ heap = Bufs /\ fault = "none"

\* What zipc_buf_malloc returns: a free buffer, else a new one, else NULL.
Malloc ==
  IF freebuf # {} THEN CHOOSE b \in freebuf : TRUE ELSE IF heap # {} THEN CHOOSE b \in heap : TRUE ELSE NoBuf

\* The pool once Malloc's buffer is taken and the buffers of Back are put back.
PoolStep(taken, Back) ==
  /\ freebuf' = (freebuf \ {taken}) \cup Back
  /\ heap' = heap \ {taken}
  /\ UNCHANGED fault

\* zipc_buf_free(ipc, b); the assertion on NULL ends the program.
Free(b) == PoolStep(NoBuf, {b})

\* _zipc_comp_buf_freeall: what is on the free list goes back to the heap.  The
\* list itself keeps its head: freebuf then names freed memory, and the server is
\* freed after it.
FreeAll == heap' = heap \cup freebuf /\ UNCHANGED <<freebuf, fault>>

Fault(why) == fault' = why /\ UNCHANGED <<freebuf, heap>>

\* A schedule as its callers see it (zcrt_schedule_sendjob_argn): a queue of jobs,
\* whose length is tested first, without the mutex under which the job is put last.
\* Where several threads send to one schedule the two are steps of their own.
\* Mutant: the length is compared with >.
FullLate(q, cap) == Len(q) > cap

Full(q, cap) == Len(q) >= cap

\* Whether the job is accepted; there may be no memory for it.
Accepts(q, cap) == {FALSE, ~Full(q, cap)}

\* Mutant: the job is put first.
SendJobFirst(q, j) == <<j>> \o q

SendJob(q, j) == Append(q, j)

BufsOf(q) == {q[i].buf : i \in DOMAIN q}
=============================================================================
