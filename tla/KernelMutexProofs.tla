-------------------------- MODULE KernelMutexProofs -------------------------
(***************************************************************************)
(* Theorems about KernelMutex, for any number of threads and any nesting.  *)
(***************************************************************************)
EXTENDS KernelMutex, TLAPS

\* A mutex fresh from zcrt_mutex_create satisfies the invariant.
LEMMA InitInv == Init => IInv
  BY MutexAssumption DEF Init, IInv, TypeOK, MutualExclusion, CountOfHolder, Held

\* The steps of lock, trylock and unlock keep the types.
LEMMA StepType == TypeOK /\ Held /\ [Next]_vars => TypeOK'
<1> SUFFICES ASSUME TypeOK, Held, [Next]_vars PROVE TypeOK'
  OBVIOUS
<1> USE DEF TypeOK
<1>1. CASE UNCHANGED vars
  BY <1>1 DEF vars
<1>2. ASSUME NEW p \in Procs, Lock(p) PROVE TypeOK'
  BY <1>2 DEF Lock, LockTest, LockBump, LockClaim, LockDown, Goto
<1>3. ASSUME NEW p \in Procs, TryLock(p) PROVE TypeOK'
  BY <1>3 DEF TryLock, Goto
<1>4. ASSUME NEW p \in Procs, Unlock(p) PROVE TypeOK'
  BY <1>4 DEF Unlock, UnlockInner, UnlockClear, UnlockUp, Goto, Held
<1> QED BY <1>1, <1>2, <1>3, <1>4 DEF Next

\* The steps of lock, trylock and unlock keep the invariant.
LEMMA StepInv ==
  ASSUME IInv, TypeOK', [Next]_vars
  PROVE  IInv'
<1> USE MutexAssumption DEF IInv, MutualExclusion, CountOfHolder, Held, TypeOK
<1>1. CASE UNCHANGED vars
  BY <1>1 DEF vars
<1>2. ASSUME NEW p \in Procs, LockTest(p) \/ LockClaim(p) PROVE IInv'
  BY <1>2 DEF LockTest, LockClaim, Goto
<1>3. ASSUME NEW p \in Procs, LockBump(p) PROVE IInv'
  BY <1>3 DEF LockBump, Goto
<1>4. ASSUME NEW p \in Procs, LockDown(p) \/ TryLock(p) PROVE IInv'
  BY <1>4 DEF LockDown, TryLock, Goto
<1>5. ASSUME NEW p \in Procs, UnlockInner(p) PROVE IInv'
  BY <1>5 DEF UnlockInner, Goto
<1>6. ASSUME NEW p \in Procs, UnlockClear(p) PROVE IInv'
  BY <1>6 DEF UnlockClear, Goto
<1>7. ASSUME NEW p \in Procs, UnlockUp(p) PROVE IInv'
  BY <1>7 DEF UnlockUp, Goto
<1> QED BY <1>1, <1>2, <1>3, <1>4, <1>5, <1>6, <1>7 DEF Next, Lock, Unlock

\* The invariant holds in every reachable state.
THEOREM Invariance == Spec => []IInv
<1>1. IInv /\ [Next]_vars => IInv'
  BY StepType, StepInv DEF IInv
<1> QED BY <1>1, InitInv, PTL DEF Spec

\* The kernel mutex keeps threads apart, although owner and recurse_count are
\* written by threads that do not hold it.
THEOREM Exclusion == Spec => []MutualExclusion
<1>1. IInv => MutualExclusion
  BY DEF IInv
<1> QED BY <1>1, Invariance, PTL

\* The recursion count is always that of the thread inside.
THEOREM CountBelongs == Spec => []CountOfHolder
<1>1. IInv => CountOfHolder
  BY DEF IInv
<1> QED BY <1>1, Invariance, PTL

\* Every step of the kernel port is a step of the promised recursive mutex or
\* changes nothing the callers see.
THEOREM Refinement == Spec => Implements
<1>1. Init => Abstract!Init
  BY DEF Init, Abstract!Init
<1>2. IInv /\ [Next]_vars => [Abstract!Next]_depth
  <2> SUFFICES ASSUME IInv, [Next]_vars PROVE [Abstract!Next]_depth
    OBVIOUS
  <2>1. CASE UNCHANGED vars
    BY <2>1 DEF vars
  <2>2. ASSUME NEW p \in Procs, LockTest(p) \/ LockClaim(p) \/ UnlockClear(p)
        PROVE  UNCHANGED depth
    BY <2>2 DEF LockTest, LockClaim, UnlockClear
  <2>3. ASSUME NEW p \in Procs, LockBump(p) \/ LockDown(p) \/ TryLock(p)
        PROVE  Abstract!Acquire(p)
    <3>1. \A q \in Procs \ {p} : depth[q] = 0
      BY <2>3 DEF LockBump, LockDown, TryLock, Goto, IInv, TypeOK, MutualExclusion, Held
    <3>2. depth' = [depth EXCEPT ![p] = depth[p] + 1]
      BY <2>3 DEF LockBump, LockDown, TryLock
    <3> QED BY <3>1, <3>2 DEF Abstract!Acquire
  <2>4. ASSUME NEW p \in Procs, UnlockInner(p) \/ UnlockUp(p)
        PROVE  Abstract!Release(p)
    BY <2>4 DEF UnlockInner, UnlockUp, Goto, IInv, Held, Abstract!Release
  <2> QED BY <2>1, <2>2, <2>3, <2>4 DEF Next, Lock, Unlock, Abstract!Next
<1> QED BY <1>1, <1>2, Invariance, PTL DEF Spec, Implements, Abstract!Spec
=============================================================================
