---------------------------- MODULE KernelMutex ----------------------------
(***************************************************************************)
(* The recursive mutex of the kernel port (zcrtlib/zcrt_os_kernal.c): a    *)
(* semaphore, the id of the owner and a recursion count.  owner and        *)
(* recurse_count are plain fields, read and written outside the semaphore; *)
(* each access is a step of its own.                                       *)
(***************************************************************************)
EXTENDS Naturals, FiniteSets

CONSTANTS
  Procs,        \* kernel threads
  None,         \* owner 0
  MaxDepth      \* bound: how deep a thread nests its locks

ASSUME MutexAssumption == None \notin Procs /\ MaxDepth \in Nat \ {0}

VARIABLES
  sem,          \* count of the semaphore, 1 when free
  owner, recurse_count,
  pc,           \* what each thread is doing inside lock or unlock
  depth         \* locks each thread has returned from and not yet unlocked

vars == <<sem, owner, recurse_count, pc, depth>>

\* zcrt_mutex_create
Init ==
  /\ sem = 1
  /\ owner = None
  /\ recurse_count = 0
  /\ pc = [p \in Procs |-> "out"]
  /\ depth = [p \in Procs |-> 0]

Goto(p, from, to) == pc[p] = from /\ pc' = [pc EXCEPT ![p] = to]

\* zcrt_mutex_lock: the owner test.
LockTest(p) ==
  /\ depth[p] < MaxDepth
  /\ Goto(p, "out", IF owner = p THEN "bump" ELSE "claim")
  /\ UNCHANGED <<sem, owner, recurse_count, depth>>

\* recurse_count++ and return.
LockBump(p) ==
  /\ Goto(p, "bump", "out")
  /\ recurse_count' = recurse_count + 1
  /\ depth' = [depth EXCEPT ![p] = @ + 1]
  /\ UNCHANGED <<sem, owner>>

\* owner is set before the semaphore is taken.
LockClaim(p) ==
  /\ Goto(p, "claim", "down")
  /\ owner' = p
  /\ UNCHANGED <<sem, recurse_count, depth>>

\* Mutant: the thread does not wait for the semaphore.
LockDownNoWait(p) ==
  /\ Goto(p, "down", "out")
  /\ sem' = sem - 1
  /\ depth' = [depth EXCEPT ![p] = @ + 1]
  /\ UNCHANGED <<owner, recurse_count>>

\* down(&sem->sem) returns.
LockDown(p) ==
  /\ Goto(p, "down", "out")
  /\ sem > 0
  /\ sem' = sem - 1
  /\ depth' = [depth EXCEPT ![p] = @ + 1]
  /\ UNCHANGED <<owner, recurse_count>>

\* zcrt_mutex_trylock: the owner is neither read nor written.
TryLock(p) ==
  /\ Goto(p, "out", "out")
  /\ depth[p] < MaxDepth
  /\ sem > 0
  /\ sem' = sem - 1
  /\ depth' = [depth EXCEPT ![p] = @ + 1]
  /\ UNCHANGED <<owner, recurse_count>>

\* Mutant: the count is not lowered.
UnlockInnerUncounted(p) ==
  /\ Goto(p, "out", "out")
  /\ depth[p] > 0
  /\ recurse_count > 0
  /\ depth' = [depth EXCEPT ![p] = @ - 1]
  /\ UNCHANGED <<sem, owner, recurse_count>>

\* zcrt_mutex_unlock, called by a thread that locked: the recursive case.
UnlockInner(p) ==
  /\ Goto(p, "out", "out")
  /\ depth[p] > 0
  /\ recurse_count > 0
  /\ recurse_count' = recurse_count - 1
  /\ depth' = [depth EXCEPT ![p] = @ - 1]
  /\ UNCHANGED <<sem, owner>>

\* Mutant: the owner is not cleared.
UnlockClearKeepsOwner(p) ==
  /\ Goto(p, "out", "up")
  /\ depth[p] > 0
  /\ recurse_count = 0
  /\ UNCHANGED <<sem, owner, recurse_count, depth>>

\* The last unlock clears the owner ...
UnlockClear(p) ==
  /\ Goto(p, "out", "up")
  /\ depth[p] > 0
  /\ recurse_count = 0
  /\ owner' = None
  /\ UNCHANGED <<sem, recurse_count, depth>>

\* Mutant: the semaphore is not given back.
UnlockUpKeepsSem(p) ==
  /\ Goto(p, "up", "out")
  /\ depth' = [depth EXCEPT ![p] = @ - 1]
  /\ UNCHANGED <<sem, owner, recurse_count>>

\* ... and gives the semaphore back.
UnlockUp(p) ==
  /\ Goto(p, "up", "out")
  /\ sem' = sem + 1
  /\ depth' = [depth EXCEPT ![p] = @ - 1]
  /\ UNCHANGED <<owner, recurse_count>>

Lock(p) == LockTest(p) \/ LockBump(p) \/ LockClaim(p) \/ LockDown(p)
Unlock(p) == UnlockInner(p) \/ UnlockClear(p) \/ UnlockUp(p)

Next == \E p \in Procs : Lock(p) \/ TryLock(p) \/ Unlock(p)

Spec == Init /\ [][Next]_vars

\* A thread goes on with a lock or unlock it has begun; it leaves each critical
\* section some time, however often it nests others in it; and down() serves
\* its waiters in turn (the kernel's wait list).
FairSpec ==
  /\ Spec
  /\ \A p \in Procs : /\ WF_vars(LockBump(p) \/ LockClaim(p) \/ UnlockUp(p))
                      /\ SF_vars(LockDown(p))
                      /\ \A d \in 1 .. MaxDepth : SF_vars(depth[p] = d /\ (UnlockInner(p) \/ UnlockClear(p)))

-----------------------------------------------------------------------------
\* The type of every variable (struct tagZcrtMutex).
TypeOK ==
  /\ sem \in Nat
  /\ owner \in Procs \cup {None}
  /\ recurse_count \in Nat
  /\ pc \in [Procs -> {"out", "bump", "claim", "down", "up"}]
  /\ depth \in [Procs -> Nat]

\* At most one thread is between a lock and its unlock, although owner and
\* recurse_count are written without protection.
MutualExclusion == \A p, q \in Procs : depth[p] > 0 /\ depth[q] > 0 => p = q

\* The unprotected recursion count always belongs to the thread inside: no
\* thread's unlock eats the count of another.
CountOfHolder == \A p \in Procs : depth[p] > 0 => recurse_count = depth[p] - 1

\* The semaphore is down exactly while a thread is inside, owner names a thread
\* only while that thread is locking or inside, a thread on its way out has depth
\* one, and the shortcut of zcrt_mutex_lock lets no thread in that is not inside
\* already.
Held ==
  /\ sem = IF \E p \in Procs : depth[p] > 0 THEN 0 ELSE 1
  /\ (\A p \in Procs : depth[p] = 0) => recurse_count = 0
  /\ \A p \in Procs : pc[p] = "up" => depth[p] = 1 /\ owner # p
  /\ \A p \in Procs : owner = p /\ pc[p] \in {"out", "bump"} => depth[p] > 0
  /\ \A p \in Procs : pc[p] = "bump" => depth[p] > 0

\* The four above are inductive together: what every step of lock, trylock and
\* unlock preserves.
IInv == TypeOK /\ MutualExclusion /\ CountOfHolder /\ Held

\* "the same thread can lock the same mutex several times": a thread that holds
\* the mutex never waits for it.
RelockNeverBlocks == \A p \in Procs : pc[p] = "down" => depth[p] = 0

\* A thread that holds the mutex and waits for it.
SelfBlocked == \E p \in Procs : pc[p] = "down" /\ depth[p] > 0

\* A thread waiting in zcrt_mutex_lock gets in; only a thread that blocks on
\* itself can keep it out.
WaitersEnter == \A p \in Procs : pc[p] \in {"claim", "down"} ~> depth[p] > 0 \/ SelfBlocked

\* The kernel port implements the mutex its callers are promised.
Abstract == INSTANCE RecursiveMutex WITH Procs <- Procs, depth <- depth
Implements == Abstract!Spec
=============================================================================
