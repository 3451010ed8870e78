--------------------------- MODULE RecursiveMutex ---------------------------
(***************************************************************************)
(* What zcrt_mutex_lock, unlock and trylock (zcrt/zcrt_os.h) promise their *)
(* callers: one thread at a time is inside, and that thread may lock       *)
(* again.  The Linux port hands this to a recursive pthread mutex, the     *)
(* win32 port to a critical section; the kernel port builds it itself      *)
(* (KernelMutex).                                                          *)
(***************************************************************************)
EXTENDS Naturals

CONSTANT Procs      \* threads

VARIABLE depth      \* how often each thread has locked and not yet unlocked

Init == depth = [p \in Procs |-> 0]

\* A lock or a successful trylock returns.
Acquire(p) ==
  /\ \A q \in Procs \ {p} : depth[q] = 0
  /\ depth' = [depth EXCEPT ![p] = @ + 1]

Release(p) ==
  /\ depth[p] > 0
  /\ depth' = [depth EXCEPT ![p] = @ - 1]

Next == \E p \in Procs : Acquire(p) \/ Release(p)

Spec == Init /\ [][Next]_depth
=============================================================================
