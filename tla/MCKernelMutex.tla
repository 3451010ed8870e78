---------------------------- MODULE MCKernelMutex ---------------------------
(* Instances of KernelMutex for TLC.                                       *)
EXTENDS KernelMutex

\* Threads that lock and unlock only.  (A thread that took the mutex with
\* zcrt_mutex_trylock is never its owner and blocks at its first lock.)
LockOnlySpec == Init /\ [][\E p \in Procs : Lock(p) \/ Unlock(p)]_vars
=============================================================================
