---------------------------- MODULE EventProofs ----------------------------
(***************************************************************************)
(* Theorems about Event, for any threads, events, registrations and depth  *)
(* of nesting.                                                             *)
(***************************************************************************)
EXTENDS Event, TLAPS, FiniteSetTheorems, WellFoundedInduction

\* Every thread has a stack of frames, records that name an operation and an event.
\* Nothing is said of their other fields, which depend on the lists.
IsFrame(f) == {"op", "e"} \subseteq DOMAIN f
Stacked == \E R : (\A f \in R : IsFrame(f)) /\ stack \in [Threads -> Seq(R)]

\* A call that is begun goes on top of its thread's stack.
LEMMA PushStacked ==
  ASSUME Stacked, NEW t \in Threads, NEW f, IsFrame(f), stack' = Push(t, f)
  PROVE  /\ Stacked'
         /\ \A e : InSend(e) => InSend(e)'
         /\ f.op = "send" => InSend(f.e)'
<1>1. PICK R : (\A g \in R : IsFrame(g)) /\ stack \in [Threads -> Seq(R)]
  BY DEF Stacked
<1> DEFINE S == R \cup {f}
<1>2. stack \in [Threads -> Seq(S)]
  BY <1>1
<1>3. stack' \in [Threads -> Seq(S)]
  BY <1>2 DEF Push
<1>4. /\ \A u \in Threads \ {t} : stack'[u] = stack[u]
      /\ Len(stack'[t]) = Len(stack[t]) + 1
      /\ stack'[t][Len(stack[t]) + 1] = f
      /\ \A i \in 1 .. Len(stack[t]) : stack'[t][i] = stack[t][i]
  BY <1>2 DEF Push
<1>5. \A u \in Threads : DOMAIN stack[u] = 1 .. Len(stack[u]) /\ DOMAIN stack'[u] = 1 .. Len(stack'[u])
  BY <1>2, <1>3
<1>6. \A u \in Threads : Len(stack[u]) \in Nat
  BY <1>2
<1>7. \A u \in Threads : \A i \in DOMAIN stack[u] : i \in DOMAIN stack'[u] /\ stack'[u][i] = stack[u][i]
  BY <1>4, <1>5, <1>6
<1>8. \A e : InSend(e) => InSend(e)'
  BY <1>7 DEF InSend
<1>9. Len(stack[t]) + 1 \in DOMAIN stack'[t]
  BY <1>4, <1>5, <1>6
<1>10. f.op = "send" => InSend(f.e)'
  BY <1>4, <1>9 DEF InSend
<1>11. Stacked'
  BY <1>1, <1>3 DEF Stacked
<1> QED BY <1>8, <1>10, <1>11

\* A call that ends leaves its thread's stack; where it is not a send, no send does.
LEMMA PopStacked ==
  ASSUME Stacked, NEW t \in Threads, stack[t] # <<>>, stack' = Pop(t)
  PROVE  /\ Stacked'
         /\ Top(t).op # "send" => \A e : InSend(e) => InSend(e)'
<1>1. PICK R : (\A g \in R : IsFrame(g)) /\ stack \in [Threads -> Seq(R)]
  BY DEF Stacked
<1>2. stack' \in [Threads -> Seq(R)]
  BY <1>1 DEF Pop
<1>3. stack[t] \in Seq(R) /\ Len(stack[t]) \in Nat \ {0}
  BY <1>1
<1>4. stack'[t] = SubSeq(stack[t], 1, Len(stack[t]) - 1)
  BY <1>1 DEF Pop
<1>5. \A i \in 1 .. Len(stack[t]) - 1 : i \in DOMAIN stack'[t] /\ stack'[t][i] = stack[t][i]
  BY <1>3, <1>4
<1>6. \A u \in Threads \ {t} : stack'[u] = stack[u]
  BY <1>1 DEF Pop
<1>7. ASSUME Top(t).op # "send", NEW e, InSend(e) PROVE InSend(e)'
  <2>0. PICK u \in Threads : \E i \in DOMAIN stack[u] : stack[u][i].op = "send" /\ stack[u][i].e = e
    BY <1>7 DEF InSend
  <2>1. PICK i \in DOMAIN stack[u] : stack[u][i].op = "send" /\ stack[u][i].e = e
    BY <2>0
  <2>2. CASE u # t
    BY <2>1, <2>2, <1>6 DEF InSend
  <2>3. CASE u = t
    <3>1. i \in 1 .. Len(stack[t]) /\ i # Len(stack[t])
      BY <2>1, <2>3, <1>3, <1>7 DEF Top
    <3>2. i \in DOMAIN stack'[t] /\ stack'[t][i] = stack[t][i]
      BY <3>1, <1>3, <1>5
    <3> QED BY <2>1, <2>3, <3>2 DEF InSend
  <2> QED BY <2>2, <2>3
<1> QED BY <1>1, <1>2, <1>7 DEF Stacked

\* A call that goes on keeps its operation and its event.
LEMMA SetTopStacked ==
  ASSUME Stacked, NEW t \in Threads, stack[t] # <<>>, NEW f, IsFrame(f), stack' = SetTop(t, f),
         f.op = Top(t).op, f.e = Top(t).e
  PROVE  Stacked' /\ \A e : InSend(e) => InSend(e)'
<1>1. PICK R : (\A g \in R : IsFrame(g)) /\ stack \in [Threads -> Seq(R)]
  BY DEF Stacked
<1> DEFINE S == R \cup {f}
<1>2. stack \in [Threads -> Seq(S)]
  BY <1>1
<1>3. stack' \in [Threads -> Seq(S)]
  BY <1>2 DEF SetTop
<1>4. /\ \A u \in Threads \ {t} : stack'[u] = stack[u]
      /\ Len(stack'[t]) = Len(stack[t])
      /\ stack'[t][Len(stack[t])] = f
      /\ \A i \in 1 .. Len(stack[t]) - 1 : stack'[t][i] = stack[t][i]
  BY <1>2 DEF SetTop
<1>5. \A u \in Threads : DOMAIN stack[u] = 1 .. Len(stack[u]) /\ DOMAIN stack'[u] = 1 .. Len(stack'[u])
  BY <1>2, <1>3
<1>6. Len(stack[t]) \in Nat \ {0}
  BY <1>2
<1>7. \A i \in DOMAIN stack[t] :
        /\ i \in DOMAIN stack'[t]
        /\ stack'[t][i].op = stack[t][i].op /\ stack'[t][i].e = stack[t][i].e
  BY <1>4, <1>5, <1>6 DEF Top
<1>8. \A u \in Threads : \A i \in DOMAIN stack[u] :
        /\ i \in DOMAIN stack'[u]
        /\ stack'[u][i].op = stack[u][i].op /\ stack'[u][i].e = stack[u][i].e
  BY <1>4, <1>7
<1>9. \A e : InSend(e) => InSend(e)'
  BY <1>8 DEF InSend
<1> QED BY <1>1, <1>3, <1>9 DEF Stacked

-----------------------------------------------------------------------------
\* lastEvtid is 0 or the event of a send that is going on.
Named == lastEvtid # 0 => lastEvtid \in Events /\ InSend(lastEvtid)

\* What sends, registrations and deletions keep.
IInv == Stacked /\ Named

\* A manager fresh from zcrt_event_manage_init has no calls and lastEvtid 0.
LEMMA InitInv == Init => IInv
<1> SUFFICES ASSUME Init PROVE IInv
  OBVIOUS
<1>1. stack \in [Threads -> Seq({})]
  BY DEF Init
<1> QED BY <1>1 DEF Init, IInv, Stacked, Named

\* Begun calls: a registration, an unregistration or a failed assertion leaves
\* lastEvtid alone, a send sets it to its own event.
LEMMA BeginInv ==
  ASSUME IInv, NEW t \in Threads, NEW e \in Events,
         \/ \E k \in Keys, p \in Pris, y \in Types : RegisterAlloc(t, e, k, p, y)
         \/ \E k \in Keys : UnregisterAssert(t, e, k)
         \/ \E y \in Types : SendStart(t, e, y)
  PROVE  IInv'
<1>0. Named
  BY DEF IInv
<1>1. CASE stack' = stack /\ lastEvtid' = lastEvtid
  BY <1>1 DEF IInv, Stacked, Named, InSend
<1>2. ASSUME NEW f, IsFrame(f), stack' = Push(t, f), lastEvtid' = lastEvtid PROVE IInv'
  BY <1>0, <1>2, PushStacked DEF IInv, Named
<1>3. ASSUME NEW y \in Types, SendStart(t, e, y) PROVE IInv'
  <2> DEFINE f == [op |-> "send", e |-> e, type |-> y, st |-> "enter", cur |-> Null, due |-> {}]
  <2>1. stack' = Push(t, f) /\ lastEvtid' = f.e /\ f.op = "send" /\ f.e \in Events /\ IsFrame(f)
    BY <1>3 DEF SendStart, IsFrame
  <2> HIDE DEF f
  <2> QED BY <2>1, PushStacked DEF IInv, Named
<1>4. ASSUME NEW k \in Keys, NEW p \in Pris, NEW y \in Types, RegisterAlloc(t, e, k, p, y) PROVE IInv'
  BY <1>2, <1>4 DEF RegisterAlloc, IsFrame
<1>5. ASSUME NEW k \in Keys, UnregisterAssert(t, e, k) PROVE IInv'
  BY <1>1, <1>2, <1>5 DEF UnregisterAssert, IsFrame
<1> QED BY <1>3, <1>4, <1>5

\* Steps of a call: only the end of a send takes a send off a stack, and it clears
\* lastEvtid.
LEMMA StepInv ==
  ASSUME IInv, NEW t \in Threads, Step(t)
  PROVE  IInv'
<1>0. Named
  BY DEF IInv
<1>1. CASE stack' = stack /\ lastEvtid' = lastEvtid
  BY <1>1 DEF IInv, Stacked, Named, InSend
<1>2. CASE stack[t] # <<>> /\ Top(t).op # "send" /\ stack' = Pop(t) /\ lastEvtid' = lastEvtid
  BY <1>0, <1>2, PopStacked DEF IInv, Named
<1>3. ASSUME NEW f, IsFrame(f), stack[t] # <<>>, f.op = Top(t).op, f.e = Top(t).e, stack' = SetTop(t, f),
             lastEvtid' = lastEvtid
      PROVE  IInv'
  BY <1>0, <1>3, SetTopStacked DEF IInv, Named
<1>4. CASE RegisterInsert(t) \/ RegisterNoMem(t) \/ UnregisterRemove(t)
  BY <1>1, <1>2, <1>4 DEF RegisterInsert, RegisterNoMem, UnregisterRemove, Doing
<1>5. ASSUME stack[t] # <<>> PROVE IsFrame(Top(t))
  BY <1>5 DEF IInv, Stacked, Top
<1>6. CASE SendLock(t) \/ SendReturn(t) \/ SendUnlock(t)
  BY <1>3, <1>5, <1>6 DEF SendLock, SendReturn, SendUnlock, SendAt, Doing, IsFrame
<1>7. CASE SendVisit(t)
  BY <1>1, <1>3, <1>5, <1>7 DEF SendVisit, SendAt, Doing, IsFrame
<1>8. CASE SendEnd(t)
  BY <1>8, PopStacked DEF SendEnd, SendAt, Doing, IInv, Named
<1> QED BY <1>4, <1>6, <1>7, <1>8 DEF Step

\* Whatever sends overlap or nest and whatever their callbacks do, lastEvtid is
\* never left naming an event of which no send is going on: the assertion of
\* zcrt_event_unregister stops no program that is not sending the event, but for
\* event 0, for which it fails whenever nothing is sent.
THEOREM GuardNames == Spec => []GuardNamesSend
<1>1. IInv /\ [Next]_vars => IInv'
  <2> SUFFICES ASSUME IInv, [Next]_vars PROVE IInv'
    OBVIOUS
  <2>1. CASE UNCHANGED vars
    BY <2>1 DEF vars, IInv, Stacked, Named, InSend
  <2>2. CASE ManageDelete
    BY <2>2 DEF ManageDelete, IInv, Stacked, Named
  <2> QED BY <2>1, <2>2, BeginInv, StepInv DEF Next
<1>2. IInv => GuardNamesSend
  BY DEF IInv, Named, GuardNamesSend
<1> QED BY <1>1, <1>2, InitInv, PTL DEF Spec

-----------------------------------------------------------------------------
(* Least and greatest numbers.                                             *)

\* A set of numbers has a least one, because the intervals that end in them are
\* finite.
LEMMA Least ==
  ASSUME NEW K \in SUBSET Nat, K # {}
  PROVE  \E m \in K : \A k \in K : m <= k
<1> DEFINE S == {1 .. k : k \in K}
           R == StrictSubsetOrdering(Nat)
           F == FiniteSubsetsOf(Nat)
<1>1. IsWellFoundedOn(R, F)
  BY FS_StrictSubsetOrderingWellFounded
<1>2. S \subseteq F /\ S # {}
  <2>1. ASSUME NEW k \in K PROVE 1 .. k \in F
    <3>1. IsFiniteSet(1 .. k)
      BY FS_Interval
    <3>2. 1 .. k \in SUBSET Nat
      OBVIOUS
    <3> QED BY <3>1, <3>2 DEF FiniteSubsetsOf
  <2> HIDE DEF F
  <2>2. S \subseteq F
    BY <2>1
  <2> QED BY <2>2
<1>3. \E s \in S : \A r \in S : <<r, s>> \notin R
  <2> HIDE DEF R, F, S
  <2> QED BY <1>1, <1>2, WFMin
<1>4. PICK m \in K : \A k \in K : <<1 .. k, 1 .. m>> \notin R
  BY <1>3
<1>5. ASSUME NEW k \in K, k < m PROVE FALSE
  <2>1. 1 .. k \subseteq 1 .. m /\ m \in 1 .. m /\ m \notin 1 .. k
    BY <1>5
  <2>2. <<1 .. k, 1 .. m>> \in R
    BY <2>1 DEF StrictSubsetOrdering
  <2> QED BY <1>4, <2>2
<1> QED BY <1>5

\* One that has a bound has a greatest one.
LEMMA Greatest ==
  ASSUME NEW K \in SUBSET Nat, K # {}, NEW b \in Nat, \A k \in K : k <= b
  PROVE  \E m \in K : \A k \in K : k <= m
<1> DEFINE D == {b - k : k \in K}
<1>1. D \in SUBSET Nat /\ D # {}
  <2>1. \A k \in K : b - k \in Nat
    OBVIOUS
  <2> QED BY <2>1
<1>2. PICK d \in D : \A x \in D : d <= x
  <2> HIDE DEF D
  <2> QED BY <1>1, Least
<1>3. PICK m \in K : d = b - m
  OBVIOUS
<1>4. \A k \in K : b - m <= b - k
  BY <1>2, <1>3
<1> QED BY <1>4

-----------------------------------------------------------------------------
(* What the lists are after a step.                                        *)

NoTwice(s) == \A i, k \in DOMAIN s : s[i] = s[k] => i = k

\* _zcrt_Event_malloc_cb takes the head of the free list.
LEMMA HeadTaken ==
  ASSUME NEW S, NEW s \in Seq(S), s # <<>>, NoTwice(s)
  PROVE  /\ Tail(s) \in Seq(S) /\ Len(Tail(s)) = Len(s) - 1 /\ Len(s) \in Nat \ {0} /\ Head(s) \in S
         /\ NoTwice(Tail(s)) /\ IsIn(Head(s), s)
         /\ \A n : IsIn(n, Tail(s)) <=> IsIn(n, s) /\ n # Head(s)
<1> DEFINE r == Tail(s)
<1>1. /\ r \in Seq(S) /\ Head(s) = s[1] /\ Len(s) \in Nat \ {0} /\ Len(r) = Len(s) - 1
      /\ DOMAIN s = 1 .. Len(s) /\ DOMAIN r = 1 .. Len(r)
      /\ \A i \in 1 .. Len(r) : r[i] = s[i + 1]
  OBVIOUS
<1>0. Head(s) \in S
  OBVIOUS
<1> HIDE DEF r
<1>2. NoTwice(r)
  <2> SUFFICES ASSUME NEW i \in DOMAIN r, NEW k \in DOMAIN r, r[i] = r[k] PROVE i = k
    BY DEF NoTwice
  <2>1. i + 1 \in DOMAIN s /\ k + 1 \in DOMAIN s /\ s[i + 1] = s[k + 1]
    BY <1>1
  <2>2. i + 1 = k + 1
    BY <2>1 DEF NoTwice
  <2> QED BY <1>1, <2>2
<1>3. ASSUME NEW n, IsIn(n, r) PROVE IsIn(n, s) /\ n # Head(s)
  <2>1. PICK i \in DOMAIN r : r[i] = n
    BY <1>3 DEF IsIn
  <2>2. i + 1 \in DOMAIN s /\ s[i + 1] = n /\ 1 \in DOMAIN s /\ i + 1 # 1
    BY <1>1, <2>1
  <2> QED BY <1>1, <2>2 DEF IsIn, NoTwice
<1>4. ASSUME NEW n, IsIn(n, s), n # Head(s) PROVE IsIn(n, r)
  <2>1. PICK i \in DOMAIN s : s[i] = n
    BY <1>4 DEF IsIn
  <2>2. i - 1 \in DOMAIN r /\ r[i - 1] = n
    BY <1>1, <1>4, <2>1
  <2> QED BY <2>2 DEF IsIn
<1>5. IsIn(Head(s), s)
  BY <1>1 DEF IsIn
<1> QED BY <1>0, <1>1, <1>2, <1>3, <1>4, <1>5 DEF r

\* _zcrt_Event_free_cb puts a node first.
LEMMA PutFirst ==
  ASSUME NEW S, NEW s \in Seq(S), NEW n \in S, NoTwice(s), ~IsIn(n, s)
  PROVE  LET r == <<n>> \o s
         IN /\ r \in Seq(S) /\ Len(r) = Len(s) + 1 /\ NoTwice(r)
            /\ \A x : IsIn(x, r) <=> x = n \/ IsIn(x, s)
<1> DEFINE r == <<n>> \o s
<1>1. /\ r \in Seq(S) /\ Len(s) \in Nat /\ Len(r) = Len(s) + 1
      /\ DOMAIN s = 1 .. Len(s) /\ DOMAIN r = 1 .. Len(r)
      /\ \A i \in DOMAIN r : r[i] = IF i = 1 THEN n ELSE s[i - 1]
  OBVIOUS
<1> HIDE DEF r
<1>2. NoTwice(r)
  <2> SUFFICES ASSUME NEW i \in DOMAIN r, NEW k \in DOMAIN r, r[i] = r[k] PROVE i = k
    BY DEF NoTwice
  <2>1. i # 1 => i - 1 \in DOMAIN s /\ r[i] = s[i - 1]
    BY <1>1
  <2>2. k # 1 => k - 1 \in DOMAIN s /\ r[k] = s[k - 1]
    BY <1>1
  <2>3. i # 1 /\ k # 1 => i - 1 = k - 1
    BY <2>1, <2>2 DEF NoTwice
  <2> QED BY <1>1, <2>1, <2>2, <2>3 DEF IsIn
<1>3. \A i \in DOMAIN s : i + 1 \in DOMAIN r /\ r[i + 1] = s[i]
  BY <1>1
<1>4. 1 \in DOMAIN r /\ r[1] = n /\ \A i \in DOMAIN r : i # 1 => i - 1 \in DOMAIN s /\ r[i] = s[i - 1]
  BY <1>1
<1>5. \A x : IsIn(x, r) <=> x = n \/ IsIn(x, s)
  BY <1>3, <1>4 DEF IsIn
<1> QED BY <1>1, <1>2, <1>5 DEF r

\* A registration is linked in behind the first i nodes.
LEMMA Inserted ==
  ASSUME NEW S, NEW s \in Seq(S), NEW n \in S, NEW i \in 0 .. Len(s), NoTwice(s), ~IsIn(n, s)
  PROVE  LET r == InsertAfter(s, i, n)
         IN /\ r \in Seq(S) /\ Len(r) = Len(s) + 1 /\ NoTwice(r)
            /\ \A x : IsIn(x, r) <=> x = n \/ IsIn(x, s)
            /\ \A k \in DOMAIN r : r[k] = IF k <= i THEN s[k] ELSE IF k = i + 1 THEN n ELSE s[k - 1]
<1> DEFINE r == InsertAfter(s, i, n)
           a == SubSeq(s, 1, i)
           b == SubSeq(s, i + 1, Len(s))
<1>1. /\ Len(s) \in Nat /\ i \in Nat /\ a \in Seq(S) /\ b \in Seq(S) /\ Len(a) = i /\ Len(b) = Len(s) - i
      /\ \A k \in 1 .. i : a[k] = s[k]
      /\ \A k \in 1 .. Len(s) - i : b[k] = s[i + k]
  OBVIOUS
<1>2. r = (a \o <<n>>) \o b
  BY DEF InsertAfter
<1> HIDE DEF r, a, b
<1>3. /\ r \in Seq(S) /\ Len(r) = Len(s) + 1
      /\ \A k \in 1 .. Len(s) + 1 : r[k] = IF k <= i THEN a[k] ELSE IF k = i + 1 THEN n ELSE b[k - i - 1]
  BY <1>1, <1>2
<1>4. \A k \in DOMAIN r : r[k] = IF k <= i THEN s[k] ELSE IF k = i + 1 THEN n ELSE s[k - 1]
  <2> SUFFICES ASSUME NEW k \in 1 .. Len(s) + 1
               PROVE  r[k] = IF k <= i THEN s[k] ELSE IF k = i + 1 THEN n ELSE s[k - 1]
    BY <1>3
  <2>1. k > i + 1 => k - i - 1 \in 1 .. Len(s) - i /\ i + (k - i - 1) = k - 1
    BY <1>1
  <2>2. CASE k <= i
    BY <1>1, <1>3, <2>2
  <2>3. CASE k = i + 1
    BY <1>1, <1>3, <2>3
  <2>4. CASE k > i + 1
    <3>1. r[k] = b[k - i - 1]
      BY <1>1, <1>3, <2>4
    <3>2. b[k - i - 1] = s[k - 1]
      BY <1>1, <2>1, <2>4
    <3> QED BY <1>1, <2>4, <3>1, <3>2
  <2> QED BY <1>1, <2>2, <2>3, <2>4
<1>5. DOMAIN r = 1 .. Len(s) + 1 /\ DOMAIN s = 1 .. Len(s)
  BY <1>3
<1>6. \A k \in DOMAIN r : k # i + 1 => \E m \in DOMAIN s : r[k] = s[m] /\ m = IF k <= i THEN k ELSE k - 1
  BY <1>1, <1>4, <1>5
<1>7. r[i + 1] = n /\ i + 1 \in DOMAIN r
  BY <1>1, <1>4, <1>5
<1>8. \A m \in DOMAIN s : \E k \in DOMAIN r : r[k] = s[m]
  <2> TAKE m \in DOMAIN s
  <2>1. CASE m <= i
    BY <1>1, <1>4, <1>5, <2>1
  <2>2. CASE m > i
    <3>1. m + 1 \in DOMAIN r /\ ~(m + 1 <= i) /\ m + 1 # i + 1 /\ (m + 1) - 1 = m
      BY <1>1, <1>5, <2>2
    <3>2. r[m + 1] = s[m]
      BY <1>4, <3>1
    <3> QED BY <3>1, <3>2
  <2> QED BY <1>1, <1>5, <2>1, <2>2
<1>9. \A x : IsIn(x, r) <=> x = n \/ IsIn(x, s)
  BY <1>6, <1>7, <1>8 DEF IsIn
<1>10. NoTwice(r)
  <2> SUFFICES ASSUME NEW k \in DOMAIN r, NEW m \in DOMAIN r, r[k] = r[m] PROVE k = m
    BY DEF NoTwice
  <2>1. k = i + 1 <=> m = i + 1
    BY <1>6, <1>7 DEF IsIn
  <2>2. CASE k # i + 1 /\ m # i + 1
    <3>1. PICK x \in DOMAIN s : r[k] = s[x] /\ x = IF k <= i THEN k ELSE k - 1
      BY <1>6, <2>2
    <3>2. PICK y \in DOMAIN s : r[m] = s[y] /\ y = IF m <= i THEN m ELSE m - 1
      BY <1>6, <2>2
    <3>3. x = y
      BY <3>1, <3>2 DEF NoTwice
    <3> QED BY <1>1, <1>5, <2>2, <3>1, <3>2, <3>3
  <2> QED BY <2>1, <2>2
<1> QED BY <1>3, <1>4, <1>9, <1>10 DEF r

\* A registration is unlinked.
LEMMA Removed ==
  ASSUME NEW S, NEW s \in Seq(S), NEW i \in DOMAIN s, NoTwice(s)
  PROVE  LET r == RemoveAt(s, i)
         IN /\ r \in Seq(S) /\ Len(r) = Len(s) - 1 /\ NoTwice(r)
            /\ \A x : IsIn(x, r) <=> x # s[i] /\ IsIn(x, s)
            /\ \A k \in DOMAIN r : r[k] = IF k < i THEN s[k] ELSE s[k + 1]
<1> DEFINE r == RemoveAt(s, i)
           a == SubSeq(s, 1, i - 1)
           b == SubSeq(s, i + 1, Len(s))
<1>1. /\ Len(s) \in Nat \ {0} /\ i \in 1 .. Len(s) /\ a \in Seq(S) /\ b \in Seq(S) /\ Len(a) = i - 1 /\ Len(b) = Len(s) - i
      /\ \A k \in 1 .. i - 1 : a[k] = s[k]
      /\ \A k \in 1 .. Len(s) - i : b[k] = s[i + k]
  OBVIOUS
<1>2. r = a \o b
  BY DEF RemoveAt
<1> HIDE DEF r, a, b
<1>3. /\ r \in Seq(S) /\ Len(r) = Len(s) - 1
      /\ \A k \in 1 .. Len(s) - 1 : r[k] = IF k < i THEN a[k] ELSE b[k - i + 1]
  <2>1. r \in Seq(S) /\ Len(r) = Len(s) - 1
    BY <1>1, <1>2
  <2>2. ASSUME NEW k \in 1 .. Len(s) - 1 PROVE r[k] = IF k <= Len(a) THEN a[k] ELSE b[k - Len(a)]
    <3>1. a \in Seq(S) /\ b \in Seq(S) /\ k \in 1 .. Len(a) + Len(b)
      BY <1>1
    <3> QED BY <1>2, <3>1
  <2>3. ASSUME NEW k \in 1 .. Len(s) - 1 PROVE (k <= Len(a) <=> k < i) /\ k - Len(a) = k - i + 1
    BY <1>1
  <2> QED BY <2>1, <2>2, <2>3
<1>4. \A k \in DOMAIN r : r[k] = IF k < i THEN s[k] ELSE s[k + 1]
  <2> SUFFICES ASSUME NEW k \in 1 .. Len(s) - 1 PROVE r[k] = IF k < i THEN s[k] ELSE s[k + 1]
    BY <1>3
  <2>1. k >= i => k - i + 1 \in 1 .. Len(s) - i /\ i + (k - i + 1) = k + 1
    BY <1>1
  <2>2. CASE k < i
    BY <1>1, <1>3, <2>2
  <2>3. CASE k >= i
    <3>1. r[k] = b[k - i + 1]
      BY <1>1, <1>3, <2>3
    <3>2. b[k - i + 1] = s[k + 1]
      <4>1. PICK j \in 1 .. Len(s) - i : j = k - i + 1 /\ i + j = k + 1
        BY <2>1, <2>3
      <4>2. b[j] = s[i + j]
        BY <1>1
      <4> QED BY <4>1, <4>2
    <3> QED BY <1>1, <2>3, <3>1, <3>2
  <2> QED BY <1>1, <2>2, <2>3
<1>5. DOMAIN r = 1 .. Len(s) - 1 /\ DOMAIN s = 1 .. Len(s)
  BY <1>3
<1>6. \A k \in DOMAIN r : \E m \in DOMAIN s : r[k] = s[m] /\ m # i /\ m = IF k < i THEN k ELSE k + 1
  BY <1>1, <1>4, <1>5
<1>8. \A m \in DOMAIN s : m # i => \E k \in DOMAIN r : r[k] = s[m]
  <2> SUFFICES ASSUME NEW m \in DOMAIN s, m # i PROVE \E k \in DOMAIN r : r[k] = s[m]
    OBVIOUS
  <2>1. CASE m < i
    BY <1>1, <1>4, <1>5, <2>1
  <2>2. CASE m > i
    <3>1. m - 1 \in DOMAIN r /\ ~(m - 1 < i) /\ (m - 1) + 1 = m
      BY <1>1, <1>5, <2>2
    <3>2. r[m - 1] = s[m]
      BY <1>4, <3>1
    <3> QED BY <3>1, <3>2
  <2> QED BY <1>1, <1>5, <2>1, <2>2
<1>9. \A x : IsIn(x, r) <=> x # s[i] /\ IsIn(x, s)
  BY <1>6, <1>8 DEF IsIn, NoTwice
<1>10. NoTwice(r)
  <2> SUFFICES ASSUME NEW k \in DOMAIN r, NEW m \in DOMAIN r, r[k] = r[m] PROVE k = m
    BY DEF NoTwice
  <2>1. PICK x \in DOMAIN s : r[k] = s[x] /\ x = IF k < i THEN k ELSE k + 1
    BY <1>6
  <2>2. PICK y \in DOMAIN s : r[m] = s[y] /\ y = IF m < i THEN m ELSE m + 1
    BY <1>6
  <2>3. x = y
    BY <2>1, <2>2 DEF NoTwice
  <2> QED BY <1>1, <1>5, <2>1, <2>2, <2>3
<1> QED BY <1>3, <1>4, <1>9, <1>10 DEF r
-----------------------------------------------------------------------------
(* What the calls in progress are after a step, and types.                 *)

\* A call that begins is on top of the frames that were there.
LEMMA Pushed ==
  ASSUME stack \in [Threads -> Seq(Frames)], NEW t \in Threads, NEW f \in Frames, stack' = Push(t, f)
  PROVE  /\ stack' \in [Threads -> Seq(Frames)]
         /\ \A u \in Threads : \A i \in DOMAIN stack[u] : i \in DOMAIN stack'[u] /\ stack'[u][i] = stack[u][i]
         /\ \A u \in Threads : \A i \in DOMAIN stack'[u] :
              i \in DOMAIN stack[u] \/ (u = t /\ i = Len(stack[t]) + 1 /\ stack'[u][i] = f)
         /\ Len(stack[t]) + 1 \in DOMAIN stack'[t] /\ stack'[t][Len(stack[t]) + 1] = f
<1>1. stack' \in [Threads -> Seq(Frames)] /\ stack'[t] = Append(stack[t], f)
      /\ \A u \in Threads \ {t} : stack'[u] = stack[u]
  BY DEF Push
<1>2. stack[t] \in Seq(Frames)
  OBVIOUS
<1>3. /\ Len(stack[t]) \in Nat /\ DOMAIN stack[t] = 1 .. Len(stack[t])
      /\ DOMAIN stack'[t] = 1 .. Len(stack[t]) + 1
      /\ stack'[t][Len(stack[t]) + 1] = f
      /\ \A i \in 1 .. Len(stack[t]) : stack'[t][i] = stack[t][i]
  BY <1>1, <1>2
<1>4. \A i \in DOMAIN stack[t] : i \in DOMAIN stack'[t] /\ stack'[t][i] = stack[t][i]
  BY <1>3
<1>5. \A i \in DOMAIN stack'[t] : i \in DOMAIN stack[t] \/ i = Len(stack[t]) + 1
  BY <1>3
<1>6. Len(stack[t]) + 1 \in DOMAIN stack'[t]
  BY <1>3
<1> QED BY <1>1, <1>3, <1>4, <1>5, <1>6

\* A call that ends leaves the frames below it.
LEMMA Popped ==
  ASSUME stack \in [Threads -> Seq(Frames)], NEW t \in Threads, stack[t] # <<>>, stack' = Pop(t)
  PROVE  /\ stack' \in [Threads -> Seq(Frames)]
         /\ Len(stack[t]) \in DOMAIN stack[t]
         /\ \A u \in Threads : \A i \in DOMAIN stack'[u] :
              i \in DOMAIN stack[u] /\ stack'[u][i] = stack[u][i] /\ ~(u = t /\ i = Len(stack[t]))
         /\ \A u \in Threads : \A i \in DOMAIN stack[u] :
              (u = t /\ i = Len(stack[t])) \/ i \in DOMAIN stack'[u]
<1>1. stack' \in [Threads -> Seq(Frames)] /\ stack'[t] = SubSeq(stack[t], 1, Len(stack[t]) - 1)
      /\ \A u \in Threads \ {t} : stack'[u] = stack[u]
  BY DEF Pop
<1>2. stack[t] \in Seq(Frames) /\ \A u \in Threads : stack[u] \in Seq(Frames)
  OBVIOUS
<1>3. /\ Len(stack[t]) \in Nat \ {0} /\ DOMAIN stack[t] = 1 .. Len(stack[t])
      /\ DOMAIN stack'[t] = 1 .. Len(stack[t]) - 1
      /\ \A i \in 1 .. Len(stack[t]) - 1 : stack'[t][i] = stack[t][i]
  BY <1>1, <1>2
<1>4. \A i \in DOMAIN stack'[t] : i \in DOMAIN stack[t] /\ stack'[t][i] = stack[t][i] /\ i # Len(stack[t])
  BY <1>3
<1>5. \A i \in DOMAIN stack[t] : i = Len(stack[t]) \/ i \in DOMAIN stack'[t]
  BY <1>3
<1>6. Len(stack[t]) \in DOMAIN stack[t]
  BY <1>3
<1> QED BY <1>1, <1>4, <1>5, <1>6

\* A call that goes on changes its own frame only.
LEMMA TopSet ==
  ASSUME stack \in [Threads -> Seq(Frames)], NEW t \in Threads, stack[t] # <<>>, NEW f \in Frames,
         stack' = SetTop(t, f)
  PROVE  /\ stack' \in [Threads -> Seq(Frames)]
         /\ Len(stack[t]) \in DOMAIN stack[t]
         /\ \A u \in Threads : DOMAIN stack'[u] = DOMAIN stack[u]
         /\ \A u \in Threads : \A i \in DOMAIN stack[u] :
              stack'[u][i] = IF u = t /\ i = Len(stack[t]) THEN f ELSE stack[u][i]
<1>1. stack[t] \in Seq(Frames)
  OBVIOUS
<1>2. Len(stack[t]) \in Nat \ {0} /\ DOMAIN stack[t] = 1 .. Len(stack[t]) /\ Len(stack[t]) \in DOMAIN stack[t]
  BY <1>1
<1>3. stack'[t] = [stack[t] EXCEPT ![Len(stack[t])] = f] /\ \A u \in Threads \ {t} : stack'[u] = stack[u]
  BY DEF SetTop
<1>4. stack'[t] \in Seq(Frames)
  BY <1>1, <1>2, <1>3
<1>5. DOMAIN stack' = Threads /\ stack' = [u \in Threads |-> stack'[u]]
  BY DEF SetTop
<1>6. stack' \in [Threads -> Seq(Frames)]
  BY <1>3, <1>4, <1>5
<1>7. DOMAIN stack'[t] = DOMAIN stack[t] /\ \A i \in DOMAIN stack[t] : stack'[t][i] = IF i = Len(stack[t]) THEN f ELSE stack[t][i]
  BY <1>2, <1>3
<1> QED BY <1>2, <1>3, <1>6, <1>7

\* The top frame is a frame, and what its operation says of its fields.
LEMMA TopFrame ==
  ASSUME stack \in [Threads -> Seq(Frames)], NEW t \in Threads, stack[t] # <<>>
  PROVE  /\ Top(t) \in Frames /\ Len(stack[t]) \in DOMAIN stack[t] /\ Top(t) = stack[t][Len(stack[t])]
         /\ Top(t).e \in Events
         /\ Top(t).op = "register" => Top(t) \in [op : {"register"}, e : Events, node : Nodes \cup {Null}]
         /\ Top(t).op = "unregister" => Top(t) \in [op : {"unregister"}, e : Events, key : Keys]
         /\ Top(t).op = "send" =>
              Top(t) \in [op : {"send"}, e : Events, type : Types, st : {"enter", "loop", "call", "leave"},
                          cur : Nodes \cup {Null}, due : SUBSET Nodes]
<1>1. stack[t] \in Seq(Frames)
  OBVIOUS
<1>2. Top(t) \in Frames /\ Len(stack[t]) \in DOMAIN stack[t]
  BY <1>1 DEF Top
<1> QED BY <1>2 DEF Top, Frames

\* The type of the manager, with what keeps it: freesize counts, and the numbers
\* of the registrations, which are finitely many, have a bound.
Bounded == \E b \in Nat : \A n \in Nodes : data[n].no <= b
EType == TypeOK /\ freesize = Len(freelist) /\ Bounded

\* The fields of a node.
LEMMA DataType ==
  ASSUME TypeOK, NEW n \in Nodes
  PROVE  data[n].key \in Keys \cup {Null} /\ data[n].pri \in Nat /\ data[n].type \in Types /\ data[n].no \in Nat
<1>1. data[n] \in [key : Keys \cup {Null}, pri : Pris \cup {0}, type : Types, no : Nat]
  BY DEF TypeOK
<1>2. data[n].key \in Keys \cup {Null} /\ data[n].pri \in Pris \cup {0} /\ data[n].type \in Types /\ data[n].no \in Nat
  BY <1>1
<1>3. Pris \cup {0} \subseteq Nat
  BY EventAssumption
<1> QED BY <1>2, <1>3

\* The walk of zcrt_event_register_ex stops somewhere.
LEMMA InsertPosIs ==
  ASSUME TypeOK, NEW s \in Seq(Nodes), NEW p \in Nat
  PROVE  /\ InsertPos(s, p) \in 0 .. Len(s)
         /\ \A k \in 1 .. InsertPos(s, p) : data[s[k]].pri >= p
         /\ InsertPos(s, p) < Len(s) => data[s[InsertPos(s, p) + 1]].pri < p
<1> DEFINE P(i) == /\ \A k \in 1 .. i : data[s[k]].pri >= p
                   /\ i < Len(s) => data[s[i + 1]].pri < p
           K == {k \in 1 .. Len(s) : data[s[k]].pri < p}
<1>1. \A k \in 1 .. Len(s) : data[s[k]].pri \in Nat
  BY DataType
<1>2. \E i \in 0 .. Len(s) : P(i)
  <2>1. CASE K = {}
    <3>1. P(Len(s))
      BY <1>1, <2>1
    <3> QED BY <3>1
  <2>2. CASE K # {}
    <3>1. K \in SUBSET Nat
      OBVIOUS
    <3>2. PICK m \in K : \A k \in K : m <= k
      <4> HIDE DEF K
      <4> QED BY <2>2, <3>1, Least
    <3>3. P(m - 1) /\ m - 1 \in 0 .. Len(s)
      <4>1. m \in 1 .. Len(s) /\ data[s[m]].pri < p
        OBVIOUS
      <4>2. \A k \in 1 .. m - 1 : k \in 1 .. Len(s) /\ k \notin K
        BY <3>2, <4>1
      <4>3. \A k \in 1 .. m - 1 : data[s[k]].pri >= p
        BY <1>1, <4>2
      <4>4. (m - 1) + 1 = m
        BY <4>1
      <4> QED BY <4>1, <4>3, <4>4
    <3> QED BY <3>3
  <2> QED BY <2>1, <2>2
<1>3. InsertPos(s, p) = CHOOSE i \in 0 .. Len(s) : P(i)
  BY DEF InsertPos
<1>4. InsertPos(s, p) \in 0 .. Len(s) /\ P(InsertPos(s, p))
  <2> HIDE DEF P
  <2> QED BY <1>2, <1>3
<1> QED BY <1>4

\* zcrt_event_unregister finds the first registration with the callback, if any.
LEMMA FirstOfIs ==
  ASSUME NEW s \in Seq(Nodes), NEW k, \E m \in DOMAIN s : data[s[m]].key = k
  PROVE  FirstOf(s, k) \in DOMAIN s
<1> DEFINE K == {i \in DOMAIN s : data[s[i]].key = k}
<1>1. K \in SUBSET Nat /\ K # {}
  OBVIOUS
<1>2. PICK i \in K : \A m \in K : i <= m
  <2> HIDE DEF K
  <2> QED BY <1>1, Least
<1>3. \A m \in DOMAIN s : m < i => data[s[m]].key # k
  <2> SUFFICES ASSUME NEW m \in DOMAIN s, m < i, m \in K PROVE FALSE
    OBVIOUS
  <2>1. i <= m /\ i \in Nat /\ m \in Nat
    BY <1>1, <1>2
  <2> QED BY <2>1
<1>4. i \in DOMAIN s /\ data[s[i]].key = k
  OBVIOUS
<1> QED BY <1>3, <1>4 DEF FirstOf

\* The number of the youngest registration, and of none.
LEMMA NewestNoIs ==
  ASSUME TypeOK, Bounded, NEW e \in Events
  PROVE  /\ NewestNo(e) \in Nat
         /\ \A i \in DOMAIN evtlist[e] : data[evtlist[e][i]].no <= NewestNo(e)
         /\ \A b \in Nat : (\A n \in Nodes : data[n].no <= b) => NewestNo(e) <= b
<1> DEFINE nos == {0} \cup {data[evtlist[e][i]].no : i \in DOMAIN evtlist[e]}
<1>0. \A i \in DOMAIN evtlist[e] : evtlist[e][i] \in Nodes
  BY DEF TypeOK
<1>1. nos \in SUBSET Nat /\ nos # {}
  BY <1>0, DataType
<1>2. PICK b \in Nat : \A n \in Nodes : data[n].no <= b
  BY DEF Bounded
<1>3. \A k \in nos : k <= b
  BY <1>0, <1>2
<1>4. \E m \in nos : \A k \in nos : k <= m
  <2> HIDE DEF nos
  <2> QED BY <1>1, <1>3, Greatest
<1>5. NewestNo(e) = CHOOSE m \in nos : \A k \in nos : k <= m
  BY DEF NewestNo
<1>6. NewestNo(e) \in nos /\ \A k \in nos : k <= NewestNo(e)
  <2> HIDE DEF nos
  <2> QED BY <1>4, <1>5
<1>7. NewestNo(e) \in Nat
  BY <1>1, <1>6
<1>8. \A i \in DOMAIN evtlist[e] : data[evtlist[e][i]].no \in nos
  OBVIOUS
<1>9. \A c \in Nat : (\A n \in Nodes : data[n].no <= c) => NewestNo(e) <= c
  BY <1>0, <1>6
<1> QED BY <1>6, <1>7, <1>8, <1>9
\* The next pointer of a node names a node of its list, the one behind it, or none.
LEMMA SuccInIs ==
  ASSUME NEW s \in Seq(Nodes), NEW n, IsIn(n, s)
  PROVE  /\ SuccIn(n, s) \in Nodes \cup {Null}
         /\ SuccIn(n, s) # Null => IsIn(SuccIn(n, s), s)
         /\ NoTwice(s) => \A i \in DOMAIN s : s[i] = n => SuccIn(n, s) = IF i < Len(s) THEN s[i + 1] ELSE Null
<1> DEFINE j == CHOOSE k \in DOMAIN s : s[k] = n
<1>1. j \in DOMAIN s /\ s[j] = n
  BY DEF IsIn
<1>2. SuccIn(n, s) = IF j < Len(s) THEN s[j + 1] ELSE Null
  BY DEF SuccIn
<1>3. NoTwice(s) => \A i \in DOMAIN s : s[i] = n => i = j
  BY <1>1 DEF NoTwice
<1> HIDE DEF j
<1>4. j < Len(s) => j + 1 \in DOMAIN s /\ s[j + 1] \in Nodes
  BY <1>1
<1>5. SuccIn(n, s) \in Nodes \cup {Null}
  BY <1>2, <1>4
<1>6. SuccIn(n, s) # Null => IsIn(SuccIn(n, s), s)
  BY <1>2, <1>4 DEF IsIn
<1> QED BY <1>2, <1>3, <1>5, <1>6

\* So does the next pointer of any node, wherever it is.
LEMMA NextOfType ==
  ASSUME TypeOK, NEW n
  PROVE  NextOf(n) \in Nodes \cup {Null}
<1>0. freelist \in Seq(Nodes) /\ \A e \in Events : evtlist[e] \in Seq(Nodes)
  BY DEF TypeOK
<1>1. CASE IsIn(n, freelist)
  BY <1>0, <1>1, SuccInIs DEF NextOf
<1>2. CASE ~IsIn(n, freelist) /\ \E e \in Events : IsIn(n, evtlist[e])
  <2> DEFINE e == CHOOSE e \in Events : IsIn(n, evtlist[e])
  <2>1. e \in Events /\ IsIn(n, evtlist[e])
    BY <1>2
  <2>2. NextOf(n) = SuccIn(n, evtlist[e])
    BY <1>2 DEF NextOf
  <2> HIDE DEF e
  <2> QED BY <1>0, <2>1, <2>2, SuccInIs
<1> QED BY <1>1, <1>2 DEF NextOf

-----------------------------------------------------------------------------
(* Type correctness.                                                       *)

\* A registration takes a node.
LEMMA AllocType ==
  ASSUME EType, NEW t \in Threads, NEW e \in Events, NEW k \in Keys, NEW p \in Pris, NEW y \in Types,
         RegisterAlloc(t, e, k, p, y)
  PROVE  EType'
<1> DEFINE fresh == [key |-> k, pri |-> p, type |-> y, no |-> 0]
           D == [key : Keys \cup {Null}, pri : Pris \cup {0}, type : Types, no : Nat]
<1>0. /\ data \in [Nodes -> D] /\ freelist \in Seq(Nodes) /\ stack \in [Threads -> Seq(Frames)]
      /\ freesize = Len(freelist) /\ alloc \subseteq Nodes /\ fresh \in D
      /\ ops \in 0 .. MaxOps /\ MaxOps \in Nat
  BY EventAssumption DEF EType, TypeOK
<1>1. ops' \in 0 .. MaxOps
  BY <1>0 DEF RegisterAlloc, MayCall, Counted
<1>2. evtlist' = evtlist /\ lastEvtid' = lastEvtid /\ fault' = fault
  BY DEF RegisterAlloc
<1>3. PICK b \in Nat : \A n \in Nodes : data[n].no <= b
  BY DEF EType, Bounded
<1>4. ASSUME NEW n \in Nodes, data' = [data EXCEPT ![n] = fresh] PROVE data' \in [Nodes -> D] /\ Bounded'
  <2>1. data' \in [Nodes -> D] /\ data'[n] = fresh /\ \A m \in Nodes \ {n} : data'[m] = data[m]
    BY <1>0, <1>4
  <2>2. data'[n].no = 0
    BY <2>1
  <2>3. \A m \in Nodes : data'[m].no <= b
    BY <1>3, <2>1, <2>2
  <2> QED BY <2>1, <2>3 DEF Bounded
<1>5. ASSUME NEW n \in Nodes \cup {Null} PROVE [op |-> "register", e |-> e, node |-> n] \in Frames
  BY DEF Frames
<1>6. ASSUME NEW n \in Nodes \cup {Null}, stack' = Push(t, [op |-> "register", e |-> e, node |-> n])
      PROVE  stack' \in [Threads -> Seq(Frames)]
  BY <1>0, <1>5, <1>6, Pushed
<1>7. freelist' \in Seq(Nodes) /\ freesize' = Len(freelist') /\ freesize' \in Nat
  <2>1. CASE freelist # <<>> /\ freelist' = Tail(freelist) /\ freesize' = freesize - 1
    BY <1>0, <2>1
  <2>2. CASE UNCHANGED <<freelist, freesize>>
    BY <1>0, <2>2
  <2> QED BY <2>1, <2>2 DEF RegisterAlloc
<1>8. data' \in [Nodes -> D] /\ Bounded' /\ alloc' \subseteq Nodes /\ stack' \in [Threads -> Seq(Frames)]
  <2>1. CASE freelist # <<>> /\ data' = [data EXCEPT ![Head(freelist)] = fresh] /\ UNCHANGED alloc
             /\ stack' = Push(t, [op |-> "register", e |-> e, node |-> Head(freelist)])
    <3>1. Head(freelist) \in Nodes
      BY <1>0, <2>1
    <3> QED BY <1>0, <1>4, <1>6, <2>1, <3>1
  <2>2. ASSUME NEW n \in Nodes, data' = [data EXCEPT ![n] = fresh], alloc' = alloc \cup {n},
               stack' = Push(t, [op |-> "register", e |-> e, node |-> n])
        PROVE  data' \in [Nodes -> D] /\ Bounded' /\ alloc' \subseteq Nodes /\ stack' \in [Threads -> Seq(Frames)]
    BY <1>0, <1>4, <1>6, <2>2
  <2>3. CASE UNCHANGED <<data, alloc>> /\ stack' = Push(t, [op |-> "register", e |-> e, node |-> Null])
    BY <1>0, <1>3, <1>6, <2>3 DEF Bounded
  <2> QED BY <2>1, <2>2, <2>3 DEF RegisterAlloc
<1> QED BY <1>1, <1>2, <1>7, <1>8 DEF EType, TypeOK

\* The node of a registration is linked in and numbered.
LEMMA InsertType ==
  ASSUME EType, NEW t \in Threads, RegisterInsert(t)
  PROVE  /\ EType'
         /\ Top(t).e \in Events /\ Top(t).node \in Nodes /\ Top(t).op = "register"
         /\ stack \in [Threads -> Seq(Frames)] /\ stack[t] # <<>> /\ stack' = Pop(t)
         /\ InsertPos(evtlist[Top(t).e], data[Top(t).node].pri) \in 0 .. Len(evtlist[Top(t).e])
         /\ evtlist'[Top(t).e] = InsertAfter(evtlist[Top(t).e], InsertPos(evtlist[Top(t).e], data[Top(t).node].pri), Top(t).node)
         /\ \A e \in Events \ {Top(t).e} : evtlist'[e] = evtlist[e]
         /\ data'[Top(t).node] = [data[Top(t).node] EXCEPT !.no = NewestNo(Top(t).e) + 1]
         /\ \A n \in Nodes \ {Top(t).node} : data'[n] = data[n]
<1> DEFINE e == Top(t).e
           n == Top(t).node
           D == [key : Keys \cup {Null}, pri : Pris \cup {0}, type : Types, no : Nat]
           i == InsertPos(evtlist[e], data[n].pri)
<1>0. /\ data \in [Nodes -> D] /\ stack \in [Threads -> Seq(Frames)] /\ evtlist \in [Events -> Seq(Nodes)]
      /\ TypeOK /\ Bounded
  BY DEF EType, TypeOK
<1>1. stack[t] # <<>> /\ Top(t).op = "register" /\ n # Null /\ stack' = Pop(t)
  BY DEF RegisterInsert, Doing
<1>2. Top(t) \in [op : {"register"}, e : Events, node : Nodes \cup {Null}]
  BY <1>0, <1>1, TopFrame
<1>3. e \in Events /\ n \in Nodes
  BY <1>1, <1>2
<1>4. stack' \in [Threads -> Seq(Frames)]
  BY <1>0, <1>1, Popped
<1>5. /\ evtlist' = [evtlist EXCEPT ![e] = InsertAfter(@, InsertPos(@, data[n].pri), n)]
      /\ data' = [data EXCEPT ![n].no = NewestNo(e) + 1]
      /\ UNCHANGED <<freelist, freesize, alloc, lastEvtid, ops, fault>>
  BY DEF RegisterInsert
<1> HIDE DEF e, n
<1>6. data[n].pri \in Nat /\ evtlist[e] \in Seq(Nodes)
  BY <1>0, <1>3, DataType
<1>7. i \in 0 .. Len(evtlist[e])
  BY <1>0, <1>6, InsertPosIs
<1> HIDE DEF i
<1>8. InsertAfter(evtlist[e], i, n) \in Seq(Nodes)
  BY <1>3, <1>6, <1>7 DEF InsertAfter
<1>9. evtlist' = [evtlist EXCEPT ![e] = InsertAfter(evtlist[e], i, n)]
  BY <1>5 DEF i
<1>10. evtlist' \in [Events -> Seq(Nodes)] /\ evtlist'[e] = InsertAfter(evtlist[e], i, n)
       /\ \A x \in Events \ {e} : evtlist'[x] = evtlist[x]
  BY <1>0, <1>3, <1>8, <1>9
<1>11. PICK b \in Nat : \A m \in Nodes : data[m].no <= b
  BY <1>0 DEF Bounded
<1>12. NewestNo(e) \in Nat /\ NewestNo(e) <= b
  <2>1. TypeOK /\ Bounded /\ e \in Events
    BY <1>0, <1>3
  <2> HIDE DEF D
  <2>2. NewestNo(e) \in Nat /\ \A c \in Nat : (\A m \in Nodes : data[m].no <= c) => NewestNo(e) <= c
    BY <2>1, NewestNoIs
  <2> QED BY <1>11, <2>2
<1>13. data[n] \in D /\ [data[n] EXCEPT !.no = NewestNo(e) + 1] \in D
  <2>1. data[n] \in D
    BY <1>0, <1>3
  <2>2. ASSUME NEW m \in Nat PROVE [data[n] EXCEPT !.no = m] \in D
    BY <2>1
  <2>3. NewestNo(e) + 1 \in Nat
    BY <1>12
  <2> HIDE DEF D
  <2> QED BY <2>1, <2>2, <2>3
<1>14. data' = [data EXCEPT ![n] = [data[n] EXCEPT !.no = NewestNo(e) + 1]]
  BY <1>0, <1>3, <1>5
<1>15. data' \in [Nodes -> D] /\ data'[n] = [data[n] EXCEPT !.no = NewestNo(e) + 1]
       /\ \A m \in Nodes \ {n} : data'[m] = data[m]
  BY <1>0, <1>3, <1>13, <1>14
<1>16. data'[n].no = NewestNo(e) + 1
  BY <1>13, <1>15
<1>17. \A m \in Nodes : data'[m].no <= b + 1
  <2> SUFFICES ASSUME NEW m \in Nodes PROVE data'[m].no <= b + 1
    OBVIOUS
  <2>1. CASE m = n
    BY <1>12, <1>16, <2>1
  <2>2. CASE m # n
    <3>1. data'[m].no <= b /\ data'[m].no \in Nat
      BY <1>0, <1>11, <1>15, <2>2, DataType
    <3> QED BY <3>1
  <2> QED BY <2>1, <2>2
<1>18. Bounded'
  <2>1. b + 1 \in Nat
    OBVIOUS
  <2> QED BY <1>17, <2>1 DEF Bounded
<1>19. EType'
  BY <1>4, <1>5, <1>10, <1>15, <1>18 DEF EType, TypeOK
<1> QED BY <1>0, <1>1, <1>3, <1>7, <1>10, <1>15, <1>19 DEF e, n, i

\* A registration is unlinked and put on the free list, or none is found.
LEMMA RemoveType ==
  ASSUME EType, NEW t \in Threads, UnregisterRemove(t)
  PROVE  /\ EType'
         /\ Top(t).e \in Events /\ Top(t).op = "unregister"
         /\ stack \in [Threads -> Seq(Frames)] /\ stack[t] # <<>> /\ stack' = Pop(t)
         /\ \/ UNCHANGED <<evtlist, freelist, data>>
            \/ \E i \in DOMAIN evtlist[Top(t).e] :
                 /\ evtlist[Top(t).e][i] \in Nodes
                 /\ evtlist'[Top(t).e] = RemoveAt(evtlist[Top(t).e], i)
                 /\ \A e \in Events \ {Top(t).e} : evtlist'[e] = evtlist[e]
                 /\ freelist' = <<evtlist[Top(t).e][i]>> \o freelist
                 /\ data'[evtlist[Top(t).e][i]] = [data[evtlist[Top(t).e][i]] EXCEPT !.key = Null]
                 /\ \A n \in Nodes \ {evtlist[Top(t).e][i]} : data'[n] = data[n]
<1> DEFINE e == Top(t).e
           s == evtlist[e]
           i == FirstOf(s, Top(t).key)
           n == s[i]
           D == [key : Keys \cup {Null}, pri : Pris \cup {0}, type : Types, no : Nat]
<1>0. /\ data \in [Nodes -> D] /\ stack \in [Threads -> Seq(Frames)] /\ evtlist \in [Events -> Seq(Nodes)]
      /\ freelist \in Seq(Nodes) /\ freesize = Len(freelist) /\ Bounded
  BY DEF EType, TypeOK
<1>1. stack[t] # <<>> /\ Top(t).op = "unregister" /\ stack' = Pop(t)
  BY DEF UnregisterRemove, Doing
<1>2. e \in Events
  BY <1>0, <1>1, TopFrame
<1>3. stack' \in [Threads -> Seq(Frames)]
  BY <1>0, <1>1, Popped
<1>4. UNCHANGED <<alloc, lastEvtid, ops, fault>>
  BY DEF UnregisterRemove
<1>5. s \in Seq(Nodes)
  BY <1>0, <1>2
<1>6. CASE ~\E m \in DOMAIN s : data[s[m]].key = Top(t).key
  <2>1. UNCHANGED <<evtlist, freelist, freesize, data>>
    BY <1>6 DEF UnregisterRemove
  <2>2. EType'
    BY <1>3, <1>4, <2>1 DEF EType, TypeOK, Bounded
  <2> QED BY <1>0, <1>1, <1>2, <2>1, <2>2
<1>7. CASE \E m \in DOMAIN s : data[s[m]].key = Top(t).key
  <2>1. i \in DOMAIN s
    <3> HIDE DEF e
    <3> QED BY <1>5, <1>7, FirstOfIs
  <2>2. evtlist' = [evtlist EXCEPT ![e] = RemoveAt(@, i)] /\ FreeCb(n)
    BY <1>7 DEF UnregisterRemove
  <2> HIDE DEF e, i
  <2>3. n \in Nodes
    BY <1>5, <2>1
  <2>4. RemoveAt(s, i) \in Seq(Nodes)
    BY <1>5, <2>1 DEF RemoveAt
  <2>5. evtlist' \in [Events -> Seq(Nodes)] /\ evtlist'[e] = RemoveAt(s, i) /\ \A x \in Events \ {e} : evtlist'[x] = evtlist[x]
    BY <1>0, <1>2, <2>2, <2>4
  <2>6. freelist' = <<n>> \o freelist /\ freesize' = freesize + 1 /\ data' = [data EXCEPT ![n].key = Null]
    BY <2>2 DEF FreeCb
  <2> HIDE DEF n
  <2>7. freelist' \in Seq(Nodes) /\ freesize' = Len(freelist') /\ freesize' \in Nat
    BY <1>0, <2>3, <2>6
  <2>8. data[n] \in D /\ [data[n] EXCEPT !.key = Null] \in D
    BY <1>0, <2>3
  <2>9. data' = [data EXCEPT ![n] = [data[n] EXCEPT !.key = Null]]
    BY <1>0, <2>3, <2>6
  <2>10. data' \in [Nodes -> D] /\ data'[n] = [data[n] EXCEPT !.key = Null] /\ \A m \in Nodes \ {n} : data'[m] = data[m]
    BY <1>0, <2>3, <2>8, <2>9
  <2>11. data'[n].no = data[n].no
    BY <2>8, <2>10
  <2>12. \A m \in Nodes : data'[m].no = data[m].no
    BY <2>10, <2>11
  <2>13. Bounded'
    BY <1>0, <2>12 DEF Bounded
  <2>14. EType'
    BY <1>3, <1>4, <2>5, <2>7, <2>10, <2>13 DEF EType, TypeOK
  <2> QED BY <1>0, <1>1, <1>2, <2>1, <2>3, <2>5, <2>6, <2>10, <2>14 DEF e, n
<1> QED BY <1>6, <1>7

\* The steps that move no node change the frames of one thread and its flags only.
LEMMA FrameType ==
  ASSUME EType, UNCHANGED <<evtlist, freelist, freesize, data, alloc>>,
         lastEvtid' \in Events \cup {0}, ops' \in 0 .. MaxOps, fault' \in {"none", "assert", "null", "deleted"},
         stack' \in [Threads -> Seq(Frames)]
  PROVE  EType'
BY DEF EType, TypeOK, Bounded

\* A send goes on to a frame of the same event and type.
LEMMA SendFrame ==
  ASSUME EType, NEW t \in Threads, Doing(t, "send"),
         NEW st \in {"enter", "loop", "call", "leave"}, NEW cur \in Nodes \cup {Null}, NEW due \in SUBSET Nodes
  PROVE  /\ [Top(t) EXCEPT !.st = st, !.cur = cur, !.due = due] \in Frames
         /\ Top(t).cur \in Nodes \cup {Null} /\ Top(t).due \in SUBSET Nodes
         /\ Top(t).st \in {"enter", "loop", "call", "leave"}
         /\ Top(t).type \in Types /\ Top(t).e \in Events /\ stack[t] # <<>>
         /\ [Top(t) EXCEPT !.st = st, !.cur = cur] \in Frames
         /\ [Top(t) EXCEPT !.st = st, !.due = due] \in Frames
         /\ [Top(t) EXCEPT !.st = st] \in Frames
         /\ [Top(t) EXCEPT !.cur = cur] \in Frames
<1>1. stack[t] # <<>> /\ Top(t).op = "send" /\ stack \in [Threads -> Seq(Frames)]
  BY DEF Doing, EType, TypeOK
<1>2. Top(t) \in [op : {"send"}, e : Events, type : Types, st : {"enter", "loop", "call", "leave"},
                  cur : Nodes \cup {Null}, due : SUBSET Nodes]
  BY <1>1, TopFrame
<1> QED BY <1>1, <1>2 DEF Frames

\* Every step keeps the types.
LEMMA StepType ==
  ASSUME EType, [Next]_vars
  PROVE  EType'
<1>0. /\ stack \in [Threads -> Seq(Frames)] /\ TypeOK
      /\ lastEvtid \in Events \cup {0} /\ ops \in 0 .. MaxOps
      /\ fault \in {"none", "assert", "null", "deleted"}
  BY DEF EType, TypeOK
<1>1. ASSUME NEW t \in Threads, NEW op, MayCall(t, op), Counted PROVE ops' \in 0 .. MaxOps
  BY <1>0, <1>1, EventAssumption DEF MayCall, Counted
<1>2. CASE UNCHANGED vars
  BY <1>0, <1>2, FrameType DEF vars
<1>3. CASE ManageDelete
  <2>1. NoData \in [key : Keys \cup {Null}, pri : Pris \cup {0}, type : Types, no : Nat]
    BY DEF NoData, Types
  <2>2. data' = [n \in Nodes |-> NoData]
    BY <1>3 DEF ManageDelete
  <2>3. data' \in [Nodes -> [key : Keys \cup {Null}, pri : Pris \cup {0}, type : Types, no : Nat]]
    BY <2>1, <2>2
  <2>4. \A n \in Nodes : data'[n].no <= 0
    BY <2>2 DEF NoData
  <2>5. 0 \in Nat
    OBVIOUS
  <2>6. Bounded'
    BY <2>4, <2>5 DEF Bounded
  <2>7. evtlist' \in [Events -> Seq(Nodes)] /\ freelist' \in Seq(Nodes) /\ freesize' = Len(freelist')
        /\ freesize' \in Nat /\ lastEvtid' \in Events \cup {0} /\ fault' = "deleted"
        /\ UNCHANGED <<stack, ops>>
    BY <1>3 DEF ManageDelete
  <2>8. alloc' \subseteq Nodes
    <3>1. alloc' \subseteq alloc
      BY <1>3 DEF ManageDelete
    <3> QED BY <1>0, <3>1 DEF TypeOK
  <2> QED BY <1>0, <2>3, <2>6, <2>7, <2>8 DEF EType, TypeOK
<1>4. ASSUME NEW t \in Threads, NEW e \in Events, NEW k \in Keys, NEW p \in Pris, NEW y \in Types,
             RegisterAlloc(t, e, k, p, y)
      PROVE  EType'
  BY <1>4, AllocType
<1>5. ASSUME NEW t \in Threads, NEW e \in Events, NEW k \in Keys, UnregisterAssert(t, e, k) PROVE EType'
  <2>1. ops' \in 0 .. MaxOps
    BY <1>1, <1>5 DEF UnregisterAssert
  <2>2. [op |-> "unregister", e |-> e, key |-> k] \in Frames
    BY DEF Frames
  <2>3. stack' \in [Threads -> Seq(Frames)]
    <3>1. CASE stack' = Push(t, [op |-> "unregister", e |-> e, key |-> k])
      BY <1>0, <2>2, <3>1, Pushed
    <3> QED BY <1>0, <1>5, <3>1 DEF UnregisterAssert
  <2>4. fault' \in {"none", "assert", "null", "deleted"}
    BY <1>0, <1>5 DEF UnregisterAssert
  <2>5. UNCHANGED <<evtlist, freelist, freesize, data, alloc, lastEvtid>>
    BY <1>5 DEF UnregisterAssert
  <2> QED BY <1>0, <2>1, <2>3, <2>4, <2>5, FrameType
<1>6. ASSUME NEW t \in Threads, NEW e \in Events, NEW y \in Types, SendStart(t, e, y) PROVE EType'
  <2>1. ops' \in 0 .. MaxOps
    BY <1>1, <1>6 DEF SendStart
  <2>2. [op |-> "send", e |-> e, type |-> y, st |-> "enter", cur |-> Null, due |-> {}] \in Frames
    BY DEF Frames
  <2>3. stack' \in [Threads -> Seq(Frames)]
    BY <1>0, <1>6, <2>2, Pushed DEF SendStart
  <2>4. lastEvtid' = e /\ UNCHANGED <<evtlist, freelist, freesize, data, alloc, fault>>
    BY <1>6 DEF SendStart
  <2> QED BY <1>0, <2>1, <2>3, <2>4, FrameType
<1>7. ASSUME NEW t \in Threads, Step(t) PROVE EType'
  <2>1. CASE RegisterInsert(t)
    BY <2>1, InsertType
  <2>2. CASE RegisterNoMem(t)
    <3>1. stack[t] # <<>>
      BY <2>2 DEF RegisterNoMem, Doing
    <3>2. UNCHANGED <<evtlist, freelist, freesize, data, alloc, lastEvtid, ops>>
          /\ (stack' = Pop(t) \/ UNCHANGED stack) /\ (fault' = "null" \/ UNCHANGED fault)
      BY <2>2 DEF RegisterNoMem
    <3>3. stack' \in [Threads -> Seq(Frames)]
      BY <1>0, <3>1, <3>2, Popped
    <3> QED BY <1>0, <3>2, <3>3, FrameType
  <2>3. CASE UnregisterRemove(t)
    BY <2>3, RemoveType
  <2>4. ASSUME Doing(t, "send"), UNCHANGED <<evtlist, freelist, freesize, data, alloc>>,
               NEW f \in Frames, stack' = SetTop(t, f), lastEvtid' = lastEvtid, ops' = ops, fault' = fault
        PROVE  EType'
    <3>1. stack' \in [Threads -> Seq(Frames)]
      BY <1>0, <2>4, TopSet DEF Doing
    <3> QED BY <1>0, <2>4, <3>1, FrameType
  <2>5. CASE SendLock(t)
    <3>1. Doing(t, "send")
      BY <2>5 DEF SendLock, SendAt
    <3>2. Top(t).e \in Events
      BY <3>1, SendFrame
    <3>3. HeadOf(evtlist[Top(t).e]) \in Nodes \cup {Null}
      BY <1>0, <3>2 DEF HeadOf, TypeOK
    <3>4. Due(Top(t).e, Top(t).type) \in SUBSET Nodes
      BY DEF Due
    <3>5. [Top(t) EXCEPT !.st = "loop", !.cur = HeadOf(evtlist[Top(t).e]),
                         !.due = Due(Top(t).e, Top(t).type)] \in Frames
      BY <3>1, <3>3, <3>4, SendFrame
    <3> QED BY <2>4, <2>5, <3>1, <3>5 DEF SendLock
  <2>6. CASE SendVisit(t)
    <3>1. Doing(t, "send")
      BY <2>6 DEF SendVisit, SendAt
    <3>2. NextOf(Top(t).cur) \in Nodes \cup {Null}
      BY <1>0, NextOfType
    <3>3. Top(t).due \ {Top(t).cur} \in SUBSET Nodes
      BY <3>1, SendFrame
    <3>4. [Top(t) EXCEPT !.cur = NextOf(Top(t).cur)] \in Frames
      BY <3>1, <3>2, SendFrame
    <3>5. [Top(t) EXCEPT !.st = "call", !.due = Top(t).due \ {Top(t).cur}] \in Frames
      BY <3>1, <3>3, SendFrame
    <3>6. CASE stack' = SetTop(t, [Top(t) EXCEPT !.cur = NextOf(Top(t).cur)]) /\ UNCHANGED fault
      BY <2>4, <2>6, <3>1, <3>4, <3>6 DEF SendVisit
    <3>7. CASE stack' = SetTop(t, [Top(t) EXCEPT !.st = "call", !.due = @ \ {Top(t).cur}]) /\ UNCHANGED fault
      BY <2>4, <2>6, <3>1, <3>5, <3>7 DEF SendVisit
    <3>8. CASE fault' = "null" /\ UNCHANGED stack
      BY <1>0, <2>6, <3>8, FrameType DEF SendVisit
    <3> QED BY <2>6, <3>6, <3>7, <3>8 DEF SendVisit
  <2>7. CASE SendReturn(t)
    <3>1. Doing(t, "send")
      BY <2>7 DEF SendReturn, SendAt
    <3>2. NextOf(Top(t).cur) \in Nodes \cup {Null}
      BY <1>0, NextOfType
    <3>3. [Top(t) EXCEPT !.st = "loop", !.cur = NextOf(Top(t).cur)] \in Frames
      BY <3>1, <3>2, SendFrame
    <3> QED BY <2>4, <2>7, <3>1, <3>3 DEF SendReturn
  <2>8. CASE SendUnlock(t)
    <3>1. Doing(t, "send")
      BY <2>8 DEF SendUnlock, SendAt
    <3>2. [Top(t) EXCEPT !.st = "leave"] \in Frames
      BY <3>1, SendFrame
    <3> QED BY <2>4, <2>8, <3>1, <3>2 DEF SendUnlock
  <2>9. CASE SendEnd(t)
    <3>1. stack[t] # <<>> /\ stack' = Pop(t) /\ lastEvtid' = 0
          /\ UNCHANGED <<evtlist, freelist, freesize, data, alloc, ops, fault>>
      BY <2>9 DEF SendEnd, SendAt, Doing
    <3>2. stack' \in [Threads -> Seq(Frames)]
      BY <1>0, <3>1, Popped
    <3> QED BY <1>0, <3>1, <3>2, FrameType
  <2> QED BY <1>7, <2>1, <2>2, <2>3, <2>5, <2>6, <2>7, <2>8, <2>9 DEF Step
<1> QED BY <1>2, <1>3, <1>4, <1>5, <1>6, <1>7 DEF Next

\* At the start nothing is registered, and nobody has called.
LEMMA InitType == Init => EType
<1> SUFFICES ASSUME Init PROVE EType
  OBVIOUS
<1>1. NoData \in [key : Keys \cup {Null}, pri : Pris \cup {0}, type : Types, no : Nat]
  BY DEF NoData, Types
<1>2. data = [n \in Nodes |-> NoData]
  BY DEF Init
<1>3. data \in [Nodes -> [key : Keys \cup {Null}, pri : Pris \cup {0}, type : Types, no : Nat]]
  BY <1>1, <1>2
<1>4. \A n \in Nodes : data[n].no <= 0
  BY <1>2 DEF NoData
<1>5. 0 \in Nat /\ 0 \in 0 .. MaxOps
  BY EventAssumption
<1>6. Bounded
  BY <1>4, <1>5 DEF Bounded
<1>7. freesize = Len(freelist) /\ freesize \in Nat
  BY DEF Init
<1> QED BY <1>3, <1>5, <1>6, <1>7 DEF Init, EType, TypeOK

\* Every variable of the manager, and every call in progress, keeps its type:
\* in particular a cursor is a node or NULL and freesize never goes below zero.
THEOREM EventTypes == Spec => []TypeOK
<1>1. EType /\ [Next]_vars => EType'
  BY StepType
<1>2. EType => TypeOK
  BY DEF EType
<1> QED BY InitType, <1>1, <1>2, PTL DEF Spec

-----------------------------------------------------------------------------
(* Every node has one place.                                               *)

\* The call at depth i of thread u is a registration that carries node n.
Carries(n, u, i) == i \in DOMAIN stack[u] /\ stack[u][i].op = "register" /\ stack[u][i].node = n

\* Node n is in a place: the free list, the list of event x, or the call at depth
\* i of thread x.
At(n, k, x, i) ==
  \/ k = "free" /\ x = Null /\ i = 0 /\ IsIn(n, freelist)
  \/ k = "list" /\ x \in Events /\ i = 0 /\ IsIn(n, evtlist[x])
  \/ k = "call" /\ x \in Threads /\ Carries(n, x, i)

OnePlace ==
  /\ NoTwice(freelist) /\ \A e \in Events : NoTwice(evtlist[e])
  /\ \A n \in Nodes : \A k, l, x, y, i, j :
       At(n, k, x, i) /\ At(n, l, y, j) => k = l /\ x = y /\ i = j
  /\ \A n \in Nodes : n \in alloc <=> \E k, x, i : At(n, k, x, i)

\* A node that moves is in the place it moves to, and no other node moves.
LEMMA NodeMoved ==
  ASSUME OnePlace, NEW m \in Nodes, NEW k, NEW x, NEW i, At(m, k, x, i)',
         \A l, y, j : At(m, l, y, j)' => l = k /\ y = x /\ j = i,
         \A n \in Nodes \ {m} : \A l, y, j : At(n, l, y, j)' <=> At(n, l, y, j),
         NoTwice(freelist'), \A e \in Events : NoTwice(evtlist'[e]), alloc' = alloc \cup {m}
  PROVE  OnePlace'
<1>1. ASSUME NEW n \in Nodes, NEW l, NEW p, NEW y, NEW z, NEW j, NEW q, At(n, l, y, j)', At(n, p, z, q)'
      PROVE  l = p /\ y = z /\ j = q
  <2>1. CASE n = m
    BY <1>1, <2>1
  <2>2. CASE n # m
    <3>1. At(n, l, y, j) /\ At(n, p, z, q)
      BY <1>1, <2>2
    <3> QED BY <3>1 DEF OnePlace
  <2> QED BY <2>1, <2>2
<1>2. ASSUME NEW n \in Nodes PROVE n \in alloc' <=> \E l, y, j : At(n, l, y, j)'
  <2>1. CASE n = m
    BY <2>1
  <2>2. CASE n # m
    <3>1. n \in alloc <=> \E l, y, j : At(n, l, y, j)
      BY DEF OnePlace
    <3> QED BY <2>2, <3>1
  <2> QED BY <2>1, <2>2
<1>3. (\A n \in Nodes : \A l, p, y, z, j, q : At(n, l, y, j) /\ At(n, p, z, q) => l = p /\ y = z /\ j = q)'
  BY <1>1
<1>4. (\A n \in Nodes : n \in alloc <=> \E l, y, j : At(n, l, y, j))'
  BY <1>2
<1> QED BY <1>3, <1>4 DEF OnePlace

\* A step that changes neither the lists nor what the registrations carry moves none.
LEMMA NoneMoved ==
  ASSUME OnePlace, UNCHANGED <<evtlist, freelist, alloc>>,
         \A n \in Nodes : \A u \in Threads : \A i : Carries(n, u, i)' <=> Carries(n, u, i)
  PROVE  OnePlace'
<1>1. \A n \in Nodes : \A l, y, j : At(n, l, y, j)' <=> At(n, l, y, j)
  BY DEF At
<1>2. (\A n \in Nodes : \A l, p, y, z, j, q : At(n, l, y, j) /\ At(n, p, z, q) => l = p /\ y = z /\ j = q)'
  BY <1>1 DEF OnePlace
<1>3. (\A n \in Nodes : n \in alloc <=> \E l, y, j : At(n, l, y, j))'
  BY <1>1 DEF OnePlace
<1>4. NoTwice(freelist') /\ \A e \in Events : NoTwice(evtlist'[e])
  BY DEF OnePlace
<1> QED BY <1>2, <1>3, <1>4 DEF OnePlace

\* The places of a node exclude each other.
LEMMA Apart ==
  ASSUME OnePlace, NEW n \in Nodes
  PROVE  /\ IsIn(n, freelist) => /\ \A e \in Events : ~IsIn(n, evtlist[e])
                                 /\ \A u \in Threads : \A i : ~Carries(n, u, i)
         /\ \A e \in Events : IsIn(n, evtlist[e]) =>
              /\ \A x \in Events : IsIn(n, evtlist[x]) => x = e
              /\ \A u \in Threads : \A i : ~Carries(n, u, i)
         /\ \A u, v \in Threads : \A i, j : Carries(n, u, i) /\ Carries(n, v, j) => u = v /\ i = j
<1>1. \A k, l, x, y, i, j : At(n, k, x, i) /\ At(n, l, y, j) => k = l /\ x = y /\ i = j
  BY DEF OnePlace
<1>2. IsIn(n, freelist) => At(n, "free", Null, 0)
  BY DEF At
<1>3. \A e \in Events : IsIn(n, evtlist[e]) => At(n, "list", e, 0)
  BY DEF At
<1>4. \A u \in Threads : \A i : Carries(n, u, i) => At(n, "call", u, i)
  BY DEF At
<1>5. ASSUME IsIn(n, freelist)
      PROVE  /\ \A e \in Events : ~IsIn(n, evtlist[e])
             /\ \A u \in Threads : \A i : ~Carries(n, u, i)
  BY <1>1, <1>2, <1>3, <1>4, <1>5
<1>6. ASSUME NEW e \in Events, IsIn(n, evtlist[e])
      PROVE  /\ \A x \in Events : IsIn(n, evtlist[x]) => x = e
             /\ \A u \in Threads : \A i : ~Carries(n, u, i)
  BY <1>1, <1>3, <1>4, <1>6
<1>7. \A u, v \in Threads : \A i, j : Carries(n, u, i) /\ Carries(n, v, j) => u = v /\ i = j
  BY <1>1, <1>4
<1> QED BY <1>5, <1>6, <1>7

\* A registration that begins carries its node, any other call none.
LEMMA PushCarries ==
  ASSUME stack \in [Threads -> Seq(Frames)], NEW t \in Threads, NEW f \in Frames, stack' = Push(t, f)
  PROVE  \A n \in Nodes : \A u \in Threads : \A i :
           Carries(n, u, i)' <=> Carries(n, u, i)
                                 \/ (u = t /\ i = Len(stack[t]) + 1 /\ f.op = "register" /\ f.node = n)
<1>1. Len(stack[t]) + 1 \notin DOMAIN stack[t]
  <2>1. stack[t] \in Seq(Frames)
    OBVIOUS
  <2> QED BY <2>1
<1> QED BY <1>1, Pushed DEF Carries

\* A registration that ends takes its node out of the call, any other call none.
LEMMA PopCarries ==
  ASSUME stack \in [Threads -> Seq(Frames)], NEW t \in Threads, stack[t] # <<>>, stack' = Pop(t)
  PROVE  /\ \A n \in Nodes : \A u \in Threads : \A i :
              Carries(n, u, i)' <=> Carries(n, u, i) /\ ~(u = t /\ i = Len(stack[t]))
         /\ Top(t).op = "register" => Carries(Top(t).node, t, Len(stack[t]))
         /\ \A n \in Nodes : Carries(n, t, Len(stack[t])) => Top(t).op = "register" /\ Top(t).node = n
<1>1. Top(t) = stack[t][Len(stack[t])] /\ Len(stack[t]) \in DOMAIN stack[t]
  BY TopFrame
<1>2. /\ \A u \in Threads : \A i \in DOMAIN stack'[u] :
           i \in DOMAIN stack[u] /\ stack'[u][i] = stack[u][i] /\ ~(u = t /\ i = Len(stack[t]))
      /\ \A u \in Threads : \A i \in DOMAIN stack[u] :
           (u = t /\ i = Len(stack[t])) \/ i \in DOMAIN stack'[u]
  BY Popped
<1>3. ASSUME NEW n \in Nodes, NEW u \in Threads, NEW i
      PROVE  Carries(n, u, i)' <=> Carries(n, u, i) /\ ~(u = t /\ i = Len(stack[t]))
  BY <1>2 DEF Carries
<1> QED BY <1>1, <1>3 DEF Carries

\* A send that goes on carries nothing, before or after.
LEMMA SetCarries ==
  ASSUME stack \in [Threads -> Seq(Frames)], NEW t \in Threads, Doing(t, "send"), NEW f \in Frames,
         stack' = SetTop(t, f), f.op = "send"
  PROVE  \A n \in Nodes : \A u \in Threads : \A i : Carries(n, u, i)' <=> Carries(n, u, i)
<1>1. Top(t) = stack[t][Len(stack[t])] /\ Top(t).op = "send" /\ stack[t] # <<>>
  BY DEF Doing, Top
<1>2. /\ \A u \in Threads : DOMAIN stack'[u] = DOMAIN stack[u]
      /\ \A u \in Threads : \A i \in DOMAIN stack[u] :
           stack'[u][i] = IF u = t /\ i = Len(stack[t]) THEN f ELSE stack[u][i]
  BY <1>1, TopSet
<1>3. ASSUME NEW n \in Nodes, NEW u \in Threads, NEW i \in DOMAIN stack[u]
      PROVE  Carries(n, u, i)' <=> Carries(n, u, i)
  BY <1>1, <1>2 DEF Carries
<1> QED BY <1>2, <1>3 DEF Carries

\* A registration takes a node from the head of the free list, or from the heap,
\* or goes on without one.
LEMMA AllocOnePlace ==
  ASSUME EType, OnePlace, NEW t \in Threads, NEW e \in Events, NEW k \in Keys, NEW p \in Pris, NEW y \in Types,
         RegisterAlloc(t, e, k, p, y)
  PROVE  OnePlace'
<1> DEFINE f(m) == [op |-> "register", e |-> e, node |-> m]
           j == Len(stack[t]) + 1
<1>0. stack \in [Threads -> Seq(Frames)] /\ freelist \in Seq(Nodes) /\ evtlist' = evtlist /\ Null \notin Nodes
  BY EventAssumption DEF EType, TypeOK, RegisterAlloc
<1>1. ASSUME NEW m \in Nodes \cup {Null}, stack' = Push(t, f(m))
      PROVE  \A n \in Nodes : \A u \in Threads : \A i :
               Carries(n, u, i)' <=> Carries(n, u, i) \/ (u = t /\ i = j /\ m = n)
  <2>1. f(m) \in Frames /\ f(m).op = "register" /\ f(m).node = m
    BY DEF Frames
  <2> HIDE DEF f
  <2> QED BY <1>0, <1>1, <2>1, PushCarries
<1> HIDE DEF f
<1>2. \A x \in Events : NoTwice(evtlist'[x])
  BY <1>0 DEF OnePlace
<1>3. CASE freelist # <<>> /\ freelist' = Tail(freelist) /\ UNCHANGED alloc /\ stack' = Push(t, f(Head(freelist)))
  <2> DEFINE m == Head(freelist)
  <2>0. NoTwice(freelist)
    BY DEF OnePlace
  <2>1. /\ m \in Nodes /\ NoTwice(freelist') /\ IsIn(m, freelist)
        /\ \A n : IsIn(n, freelist') <=> IsIn(n, freelist) /\ n # m
    BY <1>0, <1>3, <2>0, HeadTaken
  <2>2. \A n \in Nodes : \A u \in Threads : \A i :
          Carries(n, u, i)' <=> Carries(n, u, i) \/ (u = t /\ i = j /\ m = n)
    BY <1>1, <1>3, <2>1
  <2> HIDE DEF m, j
  <2>3. PICK c \in Nodes : c = m
    BY <2>1
  <2>4. (\A x \in Events : ~IsIn(c, evtlist[x])) /\ \A u \in Threads : \A i : ~Carries(c, u, i)
    BY <2>1, <2>3, Apart
  <2>5. ASSUME NEW n \in Nodes \ {c} PROVE \A l, x, i : At(n, l, x, i)' <=> At(n, l, x, i)
    BY <1>0, <2>1, <2>2, <2>3 DEF At
  <2>6. \A l, x, i : At(c, l, x, i)' <=> l = "call" /\ x = t /\ i = j
    BY <1>0, <2>1, <2>2, <2>3, <2>4 DEF At
  <2>7. At(c, "free", Null, 0)
    BY <2>1, <2>3 DEF At
  <2>8. c \in alloc
    BY <2>7 DEF OnePlace
  <2>9. PICK z : z = j
    OBVIOUS
  <2> QED BY <1>2, <1>3, <2>1, <2>5, <2>6, <2>8, <2>9, NodeMoved
<1>4. ASSUME NEW m \in Nodes \ alloc, alloc' = alloc \cup {m}, stack' = Push(t, f(m)), UNCHANGED freelist
      PROVE  OnePlace'
  <2>1. \A l, x, i : ~At(m, l, x, i)
    BY DEF OnePlace
  <2>2. \A n \in Nodes : \A u \in Threads : \A i :
          Carries(n, u, i)' <=> Carries(n, u, i) \/ (u = t /\ i = j /\ m = n)
    BY <1>1, <1>4
  <2> HIDE DEF j
  <2>3. ASSUME NEW n \in Nodes \ {m} PROVE \A l, x, i : At(n, l, x, i)' <=> At(n, l, x, i)
    BY <1>0, <1>4, <2>2 DEF At
  <2>4. ~IsIn(m, freelist) /\ (\A x \in Events : ~IsIn(m, evtlist[x])) /\ \A u \in Threads : \A i : ~Carries(m, u, i)
    BY <2>1 DEF At
  <2>5. \A l, x, i : At(m, l, x, i)' <=> l = "call" /\ x = t /\ i = j
    BY <1>0, <1>4, <2>2, <2>4 DEF At
  <2>6. NoTwice(freelist')
    BY <1>4 DEF OnePlace
  <2>7. PICK z : z = j
    OBVIOUS
  <2> QED BY <1>2, <1>4, <2>3, <2>5, <2>6, <2>7, NodeMoved
<1>5. CASE UNCHANGED <<freelist, alloc>> /\ stack' = Push(t, f(Null))
  <2>1. \A n \in Nodes : \A u \in Threads : \A i : Carries(n, u, i)' <=> Carries(n, u, i)
    BY <1>0, <1>1, <1>5
  <2> QED BY <1>0, <1>5, <2>1, NoneMoved
<1> QED BY <1>3, <1>4, <1>5 DEF RegisterAlloc, f

\* It links its node into the list of its event.
LEMMA InsertOnePlace ==
  ASSUME EType, OnePlace, NEW t \in Threads, RegisterInsert(t)
  PROVE  OnePlace'
<1>0. evtlist \in [Events -> Seq(Nodes)] /\ UNCHANGED <<freelist, alloc>>
  BY DEF EType, TypeOK, RegisterInsert
<1>b. PICK e \in Events, m \in Nodes : e = Top(t).e /\ m = Top(t).node
  BY InsertType
<1>a. PICK j, i : e = Top(t).e /\ m = Top(t).node /\ j = Len(stack[t]) /\ i = InsertPos(evtlist[e], data[m].pri)
  BY <1>b
<1>1. /\ Top(t).op = "register" /\ Top(t).node = m /\ i \in 0 .. Len(evtlist[e])
      /\ stack \in [Threads -> Seq(Frames)] /\ stack[t] # <<>> /\ stack' = Pop(t) /\ j = Len(stack[t])
      /\ evtlist'[e] = InsertAfter(evtlist[e], i, m) /\ \A x \in Events \ {e} : evtlist'[x] = evtlist[x]
  BY <1>a, InsertType
<1>2. Carries(m, t, j) /\ \A n \in Nodes : Carries(n, t, j) => n = m
  BY <1>1, PopCarries
<1>3. \A n \in Nodes : \A u \in Threads : \A d : Carries(n, u, d)' <=> Carries(n, u, d) /\ ~(u = t /\ d = j)
  BY <1>1, PopCarries
<1>4. ~IsIn(m, freelist) /\ (\A x \in Events : ~IsIn(m, evtlist[x]))
      /\ \A u \in Threads : \A d : Carries(m, u, d) => u = t /\ d = j
  BY <1>2, Apart
<1>5. NoTwice(evtlist'[e]) /\ \A n : IsIn(n, evtlist'[e]) <=> n = m \/ IsIn(n, evtlist[e])
  <2>1. evtlist[e] \in Seq(Nodes) /\ NoTwice(evtlist[e]) /\ ~IsIn(m, evtlist[e])
    BY <1>0, <1>4 DEF OnePlace
  <2> QED BY <1>1, <2>1, Inserted
<1>6. \A x \in Events : NoTwice(evtlist'[x])
  BY <1>1, <1>5 DEF OnePlace
<1>7. ASSUME NEW n \in Nodes \ {m}, NEW l, NEW x, NEW d PROVE At(n, l, x, d)' <=> At(n, l, x, d)
  <2>1. \A z \in Events : IsIn(n, evtlist'[z]) <=> IsIn(n, evtlist[z])
    BY <1>1, <1>5
  <2>2. \A u \in Threads : Carries(n, u, d)' <=> Carries(n, u, d)
    BY <1>2, <1>3
  <2> QED BY <1>0, <2>1, <2>2 DEF At
<1>8. \A l, x, d : At(m, l, x, d)' <=> l = "list" /\ x = e /\ d = 0
  <2>1. \A z \in Events : IsIn(m, evtlist'[z]) <=> z = e
    BY <1>1, <1>4, <1>5
  <2>2. \A u \in Threads : \A d : ~Carries(m, u, d)'
    BY <1>3, <1>4
  <2> QED BY <1>0, <1>4, <2>1, <2>2 DEF At
<1>9. m \in alloc
  <2>1. At(m, "call", t, j)
    BY <1>2 DEF At
  <2> QED BY <2>1 DEF OnePlace
<1>10. NoTwice(freelist') /\ alloc' = alloc \cup {m}
  BY <1>0, <1>9 DEF OnePlace
<1> QED BY <1>6, <1>7, <1>8, <1>10, NodeMoved

\* A node that is unlinked goes to the free list.
LEMMA RemoveOnePlace ==
  ASSUME EType, OnePlace, NEW t \in Threads, UnregisterRemove(t)
  PROVE  OnePlace'
<1>0. evtlist \in [Events -> Seq(Nodes)] /\ freelist \in Seq(Nodes) /\ UNCHANGED alloc
  BY DEF EType, TypeOK, UnregisterRemove
<1>1. stack \in [Threads -> Seq(Frames)] /\ stack[t] # <<>> /\ stack' = Pop(t) /\ Top(t).op = "unregister"
  BY RemoveType
<1>2. \A n \in Nodes : \A u \in Threads : \A d : Carries(n, u, d)' <=> Carries(n, u, d)
  BY <1>1, PopCarries
<1>3. CASE UNCHANGED <<evtlist, freelist, data>>
  BY <1>0, <1>2, <1>3, NoneMoved
<1>4. ASSUME NEW e \in Events, NEW i \in DOMAIN evtlist[e], evtlist[e][i] \in Nodes,
             evtlist'[e] = RemoveAt(evtlist[e], i), \A x \in Events \ {e} : evtlist'[x] = evtlist[x],
             freelist' = <<evtlist[e][i]>> \o freelist
      PROVE  OnePlace'
  <2>1. PICK m \in Nodes : m = evtlist[e][i]
    BY <1>4
  <2>2. IsIn(m, evtlist[e])
    BY <2>1 DEF IsIn
  <2>3. /\ ~IsIn(m, freelist) /\ \A x \in Events : IsIn(m, evtlist[x]) => x = e
        /\ \A u \in Threads : \A d : ~Carries(m, u, d)
    BY <2>2, Apart
  <2>4. NoTwice(evtlist'[e]) /\ \A n : IsIn(n, evtlist'[e]) <=> n # m /\ IsIn(n, evtlist[e])
    <3>1. evtlist[e] \in Seq(Nodes) /\ NoTwice(evtlist[e])
      BY <1>0 DEF OnePlace
    <3> QED BY <1>4, <2>1, <3>1, Removed
  <2>5. NoTwice(freelist') /\ \A n : IsIn(n, freelist') <=> n = m \/ IsIn(n, freelist)
    <3>1. NoTwice(freelist) /\ freelist' = <<m>> \o freelist
      BY <1>4, <2>1 DEF OnePlace
    <3> QED BY <1>0, <2>3, <3>1, PutFirst
  <2>6. \A x \in Events : NoTwice(evtlist'[x])
    BY <1>4, <2>4 DEF OnePlace
  <2>7. ASSUME NEW n \in Nodes \ {m}, NEW l, NEW x, NEW d PROVE At(n, l, x, d)' <=> At(n, l, x, d)
    <3>1. \A z \in Events : IsIn(n, evtlist'[z]) <=> IsIn(n, evtlist[z])
      BY <1>4, <2>4
    <3> QED BY <1>2, <2>5, <3>1 DEF At
  <2>8. \A l, x, d : At(m, l, x, d)' <=> l = "free" /\ x = Null /\ d = 0
    <3>1. \A z \in Events : ~IsIn(m, evtlist'[z])
      BY <1>4, <2>3, <2>4
    <3> QED BY <1>2, <2>3, <2>5, <3>1 DEF At
  <2>9. m \in alloc
    <3>1. At(m, "list", e, 0)
      BY <2>2 DEF At
    <3> QED BY <3>1 DEF OnePlace
  <2>10. alloc' = alloc \cup {m} /\ NoTwice(freelist')
    BY <1>0, <2>5, <2>9
  <2>11. At(m, "free", Null, 0)'
    BY <2>8
  <2> QED BY <2>6, <2>7, <2>8, <2>10, <2>11, NodeMoved
<1>5. PICK e \in Events : e = Top(t).e
  BY RemoveType
<1> QED BY <1>3, <1>4, <1>5, RemoveType

\* Every step leaves every node one place.
LEMMA StepOnePlace ==
  ASSUME EType, OnePlace, [Next]_vars
  PROVE  OnePlace'
<1>0. stack \in [Threads -> Seq(Frames)] /\ TypeOK
  BY DEF EType, TypeOK
<1>1. ASSUME UNCHANGED <<evtlist, freelist, alloc, stack>> PROVE OnePlace'
  BY <1>1, NoneMoved DEF Carries
<1>2. CASE UNCHANGED vars
  BY <1>1, <1>2 DEF vars
<1>3. CASE ManageDelete
  <2>1. alloc' = {n \in alloc : ~IsIn(n, freelist) /\ \A e \in Events : ~IsIn(n, evtlist[e])}
        /\ evtlist' = [e \in Events |-> <<>>] /\ freelist' = <<>> /\ stack' = stack
        /\ \A t \in Threads : stack[t] = <<>>
    BY <1>3 DEF ManageDelete
  <2>2. \A n : ~IsIn(n, freelist') /\ \A e \in Events : ~IsIn(n, evtlist'[e])
    BY <2>1 DEF IsIn
  <2>3. \A n : \A u \in Threads : \A i : ~Carries(n, u, i) /\ ~Carries(n, u, i)'
    BY <2>1 DEF Carries
  <2>4. \A n, k, x, i : ~At(n, k, x, i)'
    BY <2>2, <2>3 DEF At
  <2>5. ASSUME NEW n \in Nodes PROVE n \notin alloc'
    <3> SUFFICES ASSUME n \in alloc PROVE IsIn(n, freelist) \/ \E e \in Events : IsIn(n, evtlist[e])
      BY <2>1
    <3>1. PICK k, x, i : At(n, k, x, i)
      BY DEF OnePlace
    <3> QED BY <2>3, <3>1 DEF At
  <2>6. NoTwice(freelist') /\ \A e \in Events : NoTwice(evtlist'[e])
    BY <2>1 DEF NoTwice
  <2>7. (\A n \in Nodes : \A k, l, x, y, i, j : At(n, k, x, i) /\ At(n, l, y, j) => k = l /\ x = y /\ i = j)'
    BY <2>4
  <2>8. (\A n \in Nodes : n \in alloc <=> \E k, x, i : At(n, k, x, i))'
    BY <2>4, <2>5
  <2> QED BY <2>6, <2>7, <2>8 DEF OnePlace
<1>4. ASSUME NEW t \in Threads, NEW e \in Events, NEW k \in Keys, NEW p \in Pris, NEW y \in Types,
             RegisterAlloc(t, e, k, p, y)
      PROVE  OnePlace'
  BY <1>4, AllocOnePlace
<1>5. ASSUME NEW t \in Threads, NEW f \in Frames, f.op # "register", stack' = Push(t, f), UNCHANGED <<evtlist, freelist, alloc>>
      PROVE  OnePlace'
  BY <1>0, <1>5, PushCarries, NoneMoved
<1>6. ASSUME NEW t \in Threads, NEW e \in Events, NEW k \in Keys, UnregisterAssert(t, e, k) PROVE OnePlace'
  <2>1. [op |-> "unregister", e |-> e, key |-> k] \in Frames
    BY DEF Frames
  <2>2. UNCHANGED <<evtlist, freelist, alloc>>
    BY <1>6 DEF UnregisterAssert
  <2>3. CASE stack' = Push(t, [op |-> "unregister", e |-> e, key |-> k])
    BY <1>5, <2>1, <2>2, <2>3
  <2> QED BY <1>1, <1>6, <2>2, <2>3 DEF UnregisterAssert
<1>7. ASSUME NEW t \in Threads, NEW e \in Events, NEW y \in Types, SendStart(t, e, y) PROVE OnePlace'
  <2>1. [op |-> "send", e |-> e, type |-> y, st |-> "enter", cur |-> Null, due |-> {}] \in Frames
    BY DEF Frames
  <2> QED BY <1>5, <1>7, <2>1 DEF SendStart
<1>8. ASSUME NEW t \in Threads, Step(t) PROVE OnePlace'
  <2>1. ASSUME stack[t] # <<>>, stack' = Pop(t), Top(t).op # "register" \/ Top(t).node \notin Nodes,
               UNCHANGED <<evtlist, freelist, alloc>>
        PROVE  OnePlace'
    BY <1>0, <2>1, PopCarries, NoneMoved
  <2>2. CASE RegisterInsert(t)
    BY <2>2, InsertOnePlace
  <2>3. CASE RegisterNoMem(t)
    <3>1. stack[t] # <<>> /\ Top(t).node \notin Nodes
      BY <2>3, EventAssumption DEF RegisterNoMem, Doing
    <3> QED BY <1>1, <2>1, <2>3, <3>1 DEF RegisterNoMem
  <2>4. CASE UnregisterRemove(t)
    BY <2>4, RemoveOnePlace
  <2>5. ASSUME Doing(t, "send"), UNCHANGED <<evtlist, freelist, alloc>>, NEW f,
               stack' = SetTop(t, f), stack' \in [Threads -> Seq(Frames)], f.op = "send"
        PROVE  OnePlace'
    <3>1. f \in Frames
      <4>1. stack[t] # <<>> /\ stack[t] \in Seq(Frames) /\ stack'[t] \in Seq(Frames)
        BY <1>0, <2>5 DEF Doing
      <4>2. Len(stack[t]) \in DOMAIN stack[t] /\ stack'[t] = [stack[t] EXCEPT ![Len(stack[t])] = f]
        BY <1>0, <2>5, <4>1 DEF SetTop
      <4>3. stack'[t][Len(stack[t])] = f /\ DOMAIN stack'[t] = DOMAIN stack[t]
        BY <4>2
      <4> QED BY <4>1, <4>2, <4>3
    <3> QED BY <1>0, <2>5, <3>1, SetCarries, NoneMoved
  <2>6. stack' \in [Threads -> Seq(Frames)]
    <3>1. EType'
      BY StepType
    <3> QED BY <3>1 DEF EType, TypeOK
  <2>7. ASSUME Doing(t, "send")
        PROVE
          /\ Top(t).op = "send"
          /\ \A a, b : [Top(t) EXCEPT !.st = a, !.cur = b].op = "send"
          /\ \A a, b, c : [Top(t) EXCEPT !.st = a, !.cur = b, !.due = c].op = "send"
          /\ \A a, b : [Top(t) EXCEPT !.st = a, !.due = b].op = "send"
          /\ \A a : [Top(t) EXCEPT !.st = a].op = "send"
          /\ \A a : [Top(t) EXCEPT !.cur = a].op = "send"
    BY <2>7 DEF Doing
  <2>8. CASE SendLock(t)
    <3>1. Doing(t, "send") /\ UNCHANGED <<evtlist, freelist, alloc>>
      BY <2>8 DEF SendLock, SendAt
    <3>2. PICK g : g = [Top(t) EXCEPT !.st = "loop", !.cur = HeadOf(evtlist[Top(t).e]),
                                      !.due = Due(Top(t).e, Top(t).type)]
      OBVIOUS
    <3>3. stack' = SetTop(t, g)
      BY <2>8, <3>2 DEF SendLock
    <3>4. g.op = "send"
      BY <2>7, <3>1, <3>2
    <3> QED BY <2>5, <2>6, <3>1, <3>3, <3>4
  <2>9. CASE SendVisit(t)
    <3>1. CASE UNCHANGED stack
      BY <1>1, <2>9, <3>1 DEF SendVisit
    <3>2. CASE stack' = SetTop(t, [Top(t) EXCEPT !.cur = NextOf(Top(t).cur)])
      BY <2>5, <2>6, <2>7, <2>9, <3>2 DEF SendVisit, SendAt
    <3>3. CASE stack' = SetTop(t, [Top(t) EXCEPT !.st = "call", !.due = @ \ {Top(t).cur}])
      BY <2>5, <2>6, <2>7, <2>9, <3>3 DEF SendVisit, SendAt
    <3> QED BY <2>9, <3>1, <3>2, <3>3 DEF SendVisit
  <2>10. CASE SendReturn(t)
    BY <2>5, <2>6, <2>7, <2>10 DEF SendReturn, SendAt
  <2>11. CASE SendUnlock(t)
    BY <2>5, <2>6, <2>7, <2>11 DEF SendUnlock, SendAt
  <2>12. CASE SendEnd(t)
    BY <2>1, <2>12 DEF SendEnd, SendAt, Doing
  <2> QED BY <1>8, <2>2, <2>3, <2>4, <2>8, <2>9, <2>10, <2>11, <2>12 DEF Step
<1> QED BY <1>2, <1>3, <1>4, <1>6, <1>7, <1>8 DEF Next

-----------------------------------------------------------------------------
(* Every node is counted once.                                             *)

\* A set in which any two members are the same has one member or none.
LEMMA OneOrNone ==
  ASSUME NEW S, \A x, y \in S : x = y
  PROVE  Cardinality(S) = IF S = {} THEN 0 ELSE 1
<1>1. CASE S = {}
  BY <1>1, FS_EmptySet
<1>2. CASE S # {}
  <2>1. PICK x \in S : S = {x}
    BY <1>2
  <2> QED BY <2>1, FS_Singleton
<1> QED BY <1>1, <1>2

\* A list that names no node twice is not longer than there are nodes.
LEMMA NoLonger ==
  ASSUME NEW s \in Seq(Nodes), NoTwice(s)
  PROVE  Len(s) <= Cardinality(Nodes) /\ Cardinality(Nodes) \in Nat
<1>1. Len(s) \in Nat /\ DOMAIN s = 1 .. Len(s) /\ s \in [1 .. Len(s) -> Nodes]
  OBVIOUS
<1>2. IsFiniteSet(Nodes)
  BY EventAssumption
<1>3. IsInjective(s)
  BY <1>1 DEF NoTwice, IsInjective
<1>4. s \in Injection(1 .. Len(s), Nodes)
  BY <1>1, <1>3 DEF Injection
<1>5. Cardinality(1 .. Len(s)) <= Cardinality(Nodes)
  BY <1>2, <1>4, FS_Injection DEF ExistsInjection
<1>6. Cardinality(1 .. Len(s)) = Len(s)
  BY <1>1, FS_Interval
<1>7. Cardinality(Nodes) \in Nat
  BY <1>2, FS_CardinalityType
<1> QED BY <1>5, <1>6, <1>7

\* One place is one place counted.
LEMMA Counts ==
  ASSUME EType, OnePlace
  PROVE  NodesOnce
<1>0. freelist \in Seq(Nodes) /\ (\A e \in Events : evtlist[e] \in Seq(Nodes)) /\ freesize = Len(freelist)
  BY DEF EType, TypeOK
<1>1. ASSUME NEW n \in Nodes PROVE Places(n) = IF n \in alloc THEN 1 ELSE 0
  <2> DEFINE A == {i \in DOMAIN freelist : freelist[i] = n}
             B == {x \in Events \X (1 .. Cardinality(Nodes)) :
                     x[2] \in DOMAIN evtlist[x[1]] /\ evtlist[x[1]][x[2]] = n}
  <2>1. Cardinality(A) = IF IsIn(n, freelist) THEN 1 ELSE 0
    <3>1. \A i, j \in A : i = j
      BY DEF OnePlace, NoTwice
    <3>2. A = {} <=> ~IsIn(n, freelist)
      BY DEF IsIn
    <3> HIDE DEF A
    <3> QED BY <3>1, <3>2, OneOrNone
  <2>2. Cardinality(B) = IF \E e \in Events : IsIn(n, evtlist[e]) THEN 1 ELSE 0
    <3>1. ASSUME NEW x \in B, NEW y \in B PROVE x = y
      <4>1. /\ x = <<x[1], x[2]>> /\ x[1] \in Events /\ x[2] \in DOMAIN evtlist[x[1]] /\ evtlist[x[1]][x[2]] = n
            /\ y = <<y[1], y[2]>> /\ y[1] \in Events /\ y[2] \in DOMAIN evtlist[y[1]] /\ evtlist[y[1]][y[2]] = n
        OBVIOUS
      <4>2. IsIn(n, evtlist[x[1]]) /\ IsIn(n, evtlist[y[1]])
        BY <4>1 DEF IsIn
      <4>3. x[1] = y[1]
        BY <4>1, <4>2, Apart
      <4>4. x[2] = y[2]
        BY <4>1, <4>3 DEF OnePlace, NoTwice
      <4> QED BY <4>1, <4>3, <4>4
    <3>2. ASSUME NEW e \in Events, IsIn(n, evtlist[e]) PROVE B # {}
      <4>1. PICK i \in DOMAIN evtlist[e] : evtlist[e][i] = n
        BY <3>2 DEF IsIn
      <4>2. i \in 1 .. Cardinality(Nodes)
        <5>1. Len(evtlist[e]) <= Cardinality(Nodes) /\ Cardinality(Nodes) \in Nat
          BY <1>0, NoLonger DEF OnePlace
        <5>2. i \in 1 .. Len(evtlist[e]) /\ Len(evtlist[e]) \in Nat
          BY <1>0, <4>1
        <5> QED BY <5>1, <5>2
      <4>3. <<e, i>> \in B
        BY <4>1, <4>2
      <4> QED BY <4>3
    <3>3. ASSUME NEW x \in B PROVE \E e \in Events : IsIn(n, evtlist[e])
      BY DEF IsIn
    <3> HIDE DEF B
    <3> QED BY <3>1, <3>2, <3>3, OneOrNone
  <2>3. n \in Carried <=> \E u \in Threads : \E i : Carries(n, u, i)
    BY DEF Carried, Carries
  <2>4. n \in alloc <=> IsIn(n, freelist) \/ (\E e \in Events : IsIn(n, evtlist[e])) \/ n \in Carried
    <3>1. (\E k, x, i : At(n, k, x, i))
            <=> IsIn(n, freelist) \/ (\E e \in Events : IsIn(n, evtlist[e])) \/ n \in Carried
      BY <2>3 DEF At
    <3> QED BY <3>1 DEF OnePlace
  <2>5. /\ IsIn(n, freelist) => ~(\E e \in Events : IsIn(n, evtlist[e])) /\ n \notin Carried
        /\ (\E e \in Events : IsIn(n, evtlist[e])) => n \notin Carried
    BY <2>3, Apart
  <2>6. Places(n) = Cardinality(A) + Cardinality(B) + (IF n \in Carried THEN 1 ELSE 0)
    BY DEF Places
  <2> HIDE DEF A, B
  <2> QED BY <2>1, <2>2, <2>4, <2>5, <2>6
<1> QED BY <1>0, <1>1 DEF NodesOnce

-----------------------------------------------------------------------------
(* The lists stay in order.                                                *)

\* A list without its i-th node is in the order it was.
LEMMA RemovedOrdered ==
  ASSUME EType, OnePlace, ListsOrdered, NEW e \in Events, NEW i \in DOMAIN evtlist[e], evtlist'[e] = RemoveAt(evtlist[e], i),
         \A n \in Nodes : data'[n].pri = data[n].pri /\ data'[n].no = data[n].no,
         NEW p \in DOMAIN evtlist'[e], NEW q \in DOMAIN evtlist'[e], p < q
  PROVE  LET a == data'[evtlist'[e][p]]
             b == data'[evtlist'[e][q]]
         IN  a.pri > b.pri \/ (a.pri = b.pri /\ a.no < b.no)
<1> DEFINE s == evtlist[e]
           r == evtlist'[e]
           u == IF p < i THEN p ELSE p + 1
           v == IF q < i THEN q ELSE q + 1
<1>0. s \in Seq(Nodes) /\ NoTwice(s)
  BY DEF EType, TypeOK, OnePlace
<1>a. r = RemoveAt(s, i) /\ i \in DOMAIN s /\ p \in DOMAIN r /\ q \in DOMAIN r
  OBVIOUS
<1>1. r \in Seq(Nodes) /\ Len(r) = Len(s) - 1 /\ \A k \in DOMAIN r : r[k] = IF k < i THEN s[k] ELSE s[k + 1]
  <2> HIDE DEF s, r
  <2> QED BY <1>0, <1>a, Removed
<1>2. DOMAIN r = 1 .. Len(s) - 1 /\ DOMAIN s = 1 .. Len(s) /\ Len(s) \in Nat
  BY <1>0, <1>1
<1>3. u \in DOMAIN s /\ v \in DOMAIN s /\ u < v
  <2> HIDE DEF s, r
  <2>1. p \in 1 .. Len(s) - 1 /\ q \in 1 .. Len(s) - 1 /\ i \in 1 .. Len(s)
    BY <1>2, <1>a
  <2> QED BY <1>2, <2>1
<1>4. r[p] = s[u] /\ r[q] = s[v]
  BY <1>1
<1>5. s[u] \in Nodes /\ s[v] \in Nodes
  BY <1>0, <1>3
<1>6. LET a == data[s[u]]
          b == data[s[v]]
      IN  a.pri > b.pri \/ (a.pri = b.pri /\ a.no < b.no)
  BY <1>3 DEF ListsOrdered
<1> QED BY <1>4, <1>5, <1>6

\* A registration that is put where InsertPos says, with a higher number than
\* those in the list, keeps the order.
LEMMA InsertedOrdered ==
  ASSUME EType, OnePlace, ListsOrdered, NEW e \in Events, NEW n \in Nodes, ~IsIn(n, evtlist[e]),
         NEW i, i = InsertPos(evtlist[e], data[n].pri), evtlist'[e] = InsertAfter(evtlist[e], i, n),
         data'[n].pri = data[n].pri, data'[n].no = NewestNo(e) + 1,
         \A m \in Nodes \ {n} : data'[m] = data[m],
         NEW p \in DOMAIN evtlist'[e], NEW q \in DOMAIN evtlist'[e], p < q
  PROVE  LET a == data'[evtlist'[e][p]]
             b == data'[evtlist'[e][q]]
         IN  a.pri > b.pri \/ (a.pri = b.pri /\ a.no < b.no)
<1> DEFINE s == evtlist[e]
           r == evtlist'[e]
           u == IF p <= i THEN p ELSE p - 1
           v == IF q <= i THEN q ELSE q - 1
<1>0. s \in Seq(Nodes) /\ NoTwice(s) /\ TypeOK /\ Bounded
  BY DEF EType, TypeOK, OnePlace
<1>1. data[n].pri \in Nat /\ \A k \in DOMAIN s : s[k] \in Nodes /\ data[s[k]].pri \in Nat /\ data[s[k]].no \in Nat
  BY <1>0, DataType
<1>2. /\ i \in 0 .. Len(s)
      /\ \A k \in 1 .. i : data[s[k]].pri >= data[n].pri
      /\ i < Len(s) => data[s[i + 1]].pri < data[n].pri
  BY <1>0, <1>1, InsertPosIs
<1>3. r \in Seq(Nodes) /\ Len(r) = Len(s) + 1
      /\ \A k \in DOMAIN r : r[k] = IF k <= i THEN s[k] ELSE IF k = i + 1 THEN n ELSE s[k - 1]
  <2>1. r = InsertAfter(s, i, n) /\ i \in 0 .. Len(s) /\ ~IsIn(n, s)
    BY <1>2
  <2> HIDE DEF r, s
  <2> QED BY <1>0, <2>1, Inserted
<1>4. DOMAIN r = 1 .. Len(s) + 1 /\ DOMAIN s = 1 .. Len(s) /\ Len(s) \in Nat
  BY <1>0, <1>3
<1>5. NewestNo(e) \in Nat /\ \A k \in DOMAIN s : data[s[k]].no <= NewestNo(e)
  BY <1>0, NewestNoIs
<1>6. \A k \in DOMAIN s : s[k] # n /\ data'[s[k]] = data[s[k]]
  BY <1>1 DEF IsIn
<1>7. \A k, m \in DOMAIN s : k < m =>
        LET a == data[s[k]]
            b == data[s[m]]
        IN  a.pri > b.pri \/ (a.pri = b.pri /\ a.no < b.no)
  BY DEF ListsOrdered
<1>8. \A k \in DOMAIN s : k > i => data[s[k]].pri < data[n].pri
  <2> SUFFICES ASSUME NEW k \in DOMAIN s, k > i PROVE data[s[k]].pri < data[n].pri
    OBVIOUS
  <2>1. i + 1 \in DOMAIN s /\ i < Len(s)
    BY <1>2, <1>4
  <2>2. data[s[i + 1]].pri < data[n].pri /\ data[s[i + 1]].pri \in Nat
    BY <1>1, <1>2, <2>1
  <2>3. k = i + 1 \/ i + 1 < k
    BY <1>2, <1>4
  <2>4. data[s[k]].pri <= data[s[i + 1]].pri
    <3>1. data[s[k]].pri \in Nat
      BY <1>1
    <3>2. CASE k = i + 1
      BY <3>1, <3>2
    <3>3. CASE i + 1 < k
      <4>1. data[s[i + 1]].pri > data[s[k]].pri \/ data[s[i + 1]].pri = data[s[k]].pri
        BY <1>7, <2>1, <3>3
      <4> QED BY <2>2, <3>1, <4>1
    <3> QED BY <2>3, <3>2, <3>3
  <2>5. data[s[k]].pri \in Nat
    BY <1>1
  <2> QED BY <1>1, <2>2, <2>4, <2>5
<1>a. p \in DOMAIN r /\ q \in DOMAIN r
  OBVIOUS
<1> HIDE DEF s, r
<1>b. p \in 1 .. Len(s) + 1 /\ q \in 1 .. Len(s) + 1 /\ i \in 0 .. Len(s) /\ Len(s) \in Nat
  BY <1>2, <1>4, <1>a
<1>9. p # i + 1 => u \in DOMAIN s /\ r[p] = s[u] /\ (u <= i <=> p <= i)
  BY <1>a, <1>b, <1>3, <1>4
<1>10. q # i + 1 => v \in DOMAIN s /\ r[q] = s[v] /\ (v <= i <=> q <= i)
  BY <1>a, <1>b, <1>3, <1>4
<1>11. CASE p # i + 1 /\ q # i + 1
  <2>1. u < v
    BY <1>b, <1>11
  <2> HIDE DEF u, v
  <2> QED BY <1>6, <1>7, <1>9, <1>10, <1>11, <2>1 DEF r
<1>12. CASE q = i + 1
  <2>1. p <= i /\ p # i + 1 /\ p \in 1 .. i
    BY <1>b, <1>12
  <2>2. r[q] = n /\ r[p] = s[p] /\ p \in DOMAIN s
    BY <1>a, <1>b, <1>3, <1>4, <1>12, <2>1
  <2>3. data[s[p]].pri >= data[n].pri /\ data[s[p]].no <= NewestNo(e)
    BY <1>2, <1>5, <2>1, <2>2
  <2>4. data[s[p]].pri \in Nat /\ data[s[p]].no \in Nat /\ data'[r[p]] = data[s[p]]
    BY <1>1, <1>6, <2>2 DEF s
  <2>5. data'[r[q]].pri = data[n].pri /\ data'[r[q]].no = NewestNo(e) + 1
    BY <2>2
  <2>6. data'[r[p]].pri > data'[r[q]].pri \/ (data'[r[p]].pri = data'[r[q]].pri /\ data'[r[p]].no < data'[r[q]].no)
    BY <1>1, <1>5, <2>3, <2>4, <2>5
  <2> QED BY <2>6 DEF r
<1>13. CASE p = i + 1
  <2>1. q # i + 1 /\ ~(q <= i)
    BY <1>b, <1>13
  <2>2. r[p] = n /\ v \in DOMAIN s /\ r[q] = s[v] /\ ~(v <= i) /\ v \in Nat
    BY <1>a, <1>b, <1>3, <1>4, <1>10, <1>13, <2>1
  <2> HIDE DEF v
  <2>3. data[s[v]].pri < data[n].pri
    BY <1>2, <1>8, <2>2
  <2>4. data'[r[q]] = data[s[v]] /\ data'[r[p]].pri = data[n].pri
    BY <1>6, <2>2
  <2>5. data'[r[p]].pri > data'[r[q]].pri
    BY <1>1, <2>2, <2>3, <2>4
  <2> QED BY <2>5 DEF r
<1> QED BY <1>11, <1>12, <1>13

\* The node a registration takes is on no list, so what it writes to it disturbs none.
LEMMA AllocData ==
  ASSUME EType, OnePlace, NEW t \in Threads, NEW e \in Events, NEW k \in Keys, NEW p \in Pris, NEW y \in Types,
         RegisterAlloc(t, e, k, p, y)
  PROVE  \A x \in Events : \A n \in Nodes : IsIn(n, evtlist[x]) => data'[n] = data[n]
<1> SUFFICES ASSUME NEW x \in Events, NEW n \in Nodes, IsIn(n, evtlist[x]) PROVE data'[n] = data[n]
  OBVIOUS
<1> DEFINE fresh == [key |-> k, pri |-> p, type |-> y, no |-> 0]
<1>0. freelist \in Seq(Nodes) /\ DOMAIN data = Nodes
  BY DEF EType, TypeOK
<1>1. ~IsIn(n, freelist) /\ n \in alloc
  <2>1. At(n, "list", x, 0)
    BY DEF At
  <2>2. n \in alloc
    BY <2>1 DEF OnePlace
  <2> QED BY <2>2, Apart
<1>2. CASE freelist # <<>> /\ data' = [data EXCEPT ![Head(freelist)] = fresh]
  <2>1. n # Head(freelist)
    BY <1>0, <1>1, <1>2, HeadTaken DEF OnePlace
  <2> QED BY <1>0, <1>2, <2>1
<1>3. ASSUME NEW m \in Nodes \ alloc, data' = [data EXCEPT ![m] = fresh] PROVE data'[n] = data[n]
  BY <1>0, <1>1, <1>3
<1> QED BY <1>2, <1>3 DEF RegisterAlloc

\* Every step keeps the lists in order.
LEMMA StepOrdered ==
  ASSUME EType, OnePlace, ListsOrdered, [Next]_vars
  PROVE  ListsOrdered'
<1>0. evtlist \in [Events -> Seq(Nodes)]
  BY DEF EType, TypeOK
<1>1. ASSUME evtlist' = evtlist, \A x \in Events : \A n \in Nodes : IsIn(n, evtlist[x]) => data'[n] = data[n]
      PROVE  ListsOrdered'
  <2>1. \A x \in Events : \A i \in DOMAIN evtlist[x] : data'[evtlist[x][i]] = data[evtlist[x][i]]
    BY <1>0, <1>1 DEF IsIn
  <2> QED BY <1>1, <2>1 DEF ListsOrdered
<1>2. CASE UNCHANGED <<evtlist, data>>
  BY <1>1, <1>2
<1>3. CASE ManageDelete
  BY <1>3 DEF ManageDelete, ListsOrdered
<1>4. ASSUME NEW t \in Threads, NEW e \in Events, NEW k \in Keys, NEW p \in Pris, NEW y \in Types,
             RegisterAlloc(t, e, k, p, y)
      PROVE  ListsOrdered'
  <2>1. evtlist' = evtlist
    BY <1>4 DEF RegisterAlloc
  <2> QED BY <1>1, <1>4, <2>1, AllocData
<1>5. ASSUME NEW t \in Threads, RegisterInsert(t) PROVE ListsOrdered'
  <2>0. PICK e \in Events, n \in Nodes : e = Top(t).e /\ n = Top(t).node
    BY <1>5, InsertType
  <2>1. PICK i : e = Top(t).e /\ n = Top(t).node /\ i = InsertPos(evtlist[e], data[n].pri)
    BY <2>0
  <2>2. /\ evtlist'[e] = InsertAfter(evtlist[e], i, n) /\ \A x \in Events \ {e} : evtlist'[x] = evtlist[x]
        /\ data'[n] = [data[n] EXCEPT !.no = NewestNo(e) + 1] /\ \A m \in Nodes \ {n} : data'[m] = data[m]
        /\ Top(t).op = "register" /\ stack \in [Threads -> Seq(Frames)] /\ stack[t] # <<>>
    BY <1>5, <2>1, InsertType
  <2>3. \A x \in Events : ~IsIn(n, evtlist[x])
    <3>1. PICK j : j = Len(stack[t])
      OBVIOUS
    <3>2. Carries(n, t, j)
      BY <2>1, <2>2, <3>1, TopFrame DEF Carries
    <3> QED BY <3>2, Apart
  <2>4. data'[n].pri = data[n].pri /\ data'[n].no = NewestNo(e) + 1
    <3>1. data[n] \in [key : Keys \cup {Null}, pri : Pris \cup {0}, type : Types, no : Nat]
      BY DEF EType, TypeOK
    <3> QED BY <2>2, <3>1
  <2> SUFFICES ASSUME NEW x \in Events, NEW p \in DOMAIN evtlist'[x], NEW q \in DOMAIN evtlist'[x], p < q
               PROVE  LET a == data'[evtlist'[x][p]]
                          b == data'[evtlist'[x][q]]
                      IN  a.pri > b.pri \/ (a.pri = b.pri /\ a.no < b.no)
    BY DEF ListsOrdered
  <2>5. CASE x = e
    <3>1. p \in DOMAIN evtlist'[e] /\ q \in DOMAIN evtlist'[e] /\ ~IsIn(n, evtlist[e])
      BY <2>3, <2>5
    <3>2. i = InsertPos(evtlist[e], data[n].pri) /\ evtlist'[e] = InsertAfter(evtlist[e], i, n)
          /\ \A m \in Nodes \ {n} : data'[m] = data[m]
      BY <2>1, <2>2
    <3>3. \A u \in DOMAIN evtlist'[e], v \in DOMAIN evtlist'[e] : u < v =>
            LET a == data'[evtlist'[e][u]]
                b == data'[evtlist'[e][v]]
            IN  a.pri > b.pri \/ (a.pri = b.pri /\ a.no < b.no)
      <4> SUFFICES ASSUME NEW u \in DOMAIN evtlist'[e], NEW v \in DOMAIN evtlist'[e], u < v
                   PROVE  LET a == data'[evtlist'[e][u]]
                              b == data'[evtlist'[e][v]]
                          IN  a.pri > b.pri \/ (a.pri = b.pri /\ a.no < b.no)
        OBVIOUS
      <4> QED BY <2>4, <3>1, <3>2, InsertedOrdered
    <3> QED BY <2>5, <3>3
  <2>6. CASE x # e
    <3>1. evtlist'[x] = evtlist[x] /\ evtlist[x][p] \in Nodes \ {n} /\ evtlist[x][q] \in Nodes \ {n}
      BY <1>0, <2>2, <2>3, <2>6 DEF IsIn
    <3> QED BY <2>2, <3>1 DEF ListsOrdered
  <2> QED BY <2>5, <2>6
<1>6. ASSUME NEW t \in Threads, UnregisterRemove(t) PROVE ListsOrdered'
  <2>1. CASE UNCHANGED <<evtlist, freelist, data>>
    BY <1>2, <2>1
  <2>2. ASSUME NEW e \in Events, NEW i \in DOMAIN evtlist[e], NEW n \in Nodes, n = evtlist[e][i],
               evtlist'[e] = RemoveAt(evtlist[e], i), \A x \in Events \ {e} : evtlist'[x] = evtlist[x],
               data'[n] = [data[n] EXCEPT !.key = Null],
               \A m \in Nodes \ {n} : data'[m] = data[m]
        PROVE  ListsOrdered'
    <3>1. \A m \in Nodes : data'[m].pri = data[m].pri /\ data'[m].no = data[m].no
      <4>1. data[n] \in [key : Keys \cup {Null}, pri : Pris \cup {0}, type : Types, no : Nat]
        BY DEF EType, TypeOK
      <4>2. data'[n].pri = data[n].pri /\ data'[n].no = data[n].no
        BY <2>2, <4>1
      <4> QED BY <2>2, <4>2
    <3> SUFFICES ASSUME NEW x \in Events, NEW p \in DOMAIN evtlist'[x], NEW q \in DOMAIN evtlist'[x], p < q
                 PROVE  LET a == data'[evtlist'[x][p]]
                            b == data'[evtlist'[x][q]]
                        IN  a.pri > b.pri \/ (a.pri = b.pri /\ a.no < b.no)
      BY DEF ListsOrdered
    <3>2. CASE x = e
      BY <2>2, <3>1, <3>2, RemovedOrdered
    <3>3. CASE x # e
      <4>1. evtlist'[x] = evtlist[x] /\ evtlist[x][p] \in Nodes /\ evtlist[x][q] \in Nodes
        BY <1>0, <2>2, <3>3
      <4>2. LET a == data[evtlist[x][p]]
                b == data[evtlist[x][q]]
            IN  a.pri > b.pri \/ (a.pri = b.pri /\ a.no < b.no)
        BY <4>1 DEF ListsOrdered
      <4> QED BY <3>1, <4>1, <4>2
    <3> QED BY <3>2, <3>3
  <2>3. PICK e \in Events : e = Top(t).e
    BY <1>6, RemoveType
  <2>4. CASE ~UNCHANGED <<evtlist, freelist, data>>
    <3>1. PICK i \in DOMAIN evtlist[e] :
            /\ evtlist[e][i] \in Nodes
            /\ evtlist'[e] = RemoveAt(evtlist[e], i)
            /\ \A x \in Events \ {e} : evtlist'[x] = evtlist[x]
            /\ data'[evtlist[e][i]] = [data[evtlist[e][i]] EXCEPT !.key = Null]
            /\ \A n \in Nodes \ {evtlist[e][i]} : data'[n] = data[n]
      <4>1. \E i \in DOMAIN evtlist[Top(t).e] :
              /\ evtlist[Top(t).e][i] \in Nodes
              /\ evtlist'[Top(t).e] = RemoveAt(evtlist[Top(t).e], i)
              /\ \A x \in Events \ {Top(t).e} : evtlist'[x] = evtlist[x]
              /\ data'[evtlist[Top(t).e][i]] = [data[evtlist[Top(t).e][i]] EXCEPT !.key = Null]
              /\ \A n \in Nodes \ {evtlist[Top(t).e][i]} : data'[n] = data[n]
        BY <1>6, <2>4, RemoveType
      <4> QED BY <2>3, <4>1
    <3>2. PICK n \in Nodes : n = evtlist[e][i]
      BY <3>1
    <3>3. data'[n] = [data[n] EXCEPT !.key = Null] /\ \A m \in Nodes \ {n} : data'[m] = data[m]
      BY <3>1, <3>2
    <3> QED BY <2>2, <3>1, <3>2, <3>3
  <2> QED BY <2>1, <2>4
<1>7. ASSUME NEW t \in Threads, Step(t), ~RegisterInsert(t), ~UnregisterRemove(t) PROVE UNCHANGED <<evtlist, data>>
  BY <1>7 DEF Step, RegisterNoMem, SendLock, SendVisit, SendReturn, SendUnlock, SendEnd
<1>8. CASE UNCHANGED vars
  BY <1>2, <1>8 DEF vars
<1>9. ASSUME NEW t \in Threads, NEW e \in Events, NEW k \in Keys, UnregisterAssert(t, e, k) PROVE ListsOrdered'
  BY <1>2, <1>9 DEF UnregisterAssert
<1>10. ASSUME NEW t \in Threads, NEW e \in Events, NEW y \in Types, SendStart(t, e, y) PROVE ListsOrdered'
  BY <1>2, <1>10 DEF SendStart
<1> QED BY <1>2, <1>3, <1>4, <1>5, <1>6, <1>7, <1>8, <1>9, <1>10 DEF Next

-----------------------------------------------------------------------------
(* A send walks its list to the end.                                       *)

\* No callback unregisters.  The assertion of zcrt_event_unregister is meant to see
\* to it, and stops only a callback of the event that was sent last.
Polite == "unregister" \notin CallbackOps

\* In list s, a comes before b, or is b where o allows it.
Before(s, a, b, o) == \E p, q \in DOMAIN s : s[p] = a /\ s[q] = b /\ (p < q \/ (o /\ p = q))

\* The cursor of a send that holds the mutex is on its list, and what the send has
\* still to call is of its type and at or behind the cursor: behind it where the
\* cursor's callback is running.  A send that has run to its end has no more to call.
Walks(f) ==
  /\ Holds(f) =>
       /\ f.cur # Null => IsIn(f.cur, evtlist[f.e])
       /\ f.st = "call" => f.cur # Null
       /\ \A n \in f.due : Matches(data[n].type, f.type) /\ Before(evtlist[f.e], f.cur, n, f.st = "loop")
  /\ f.op = "send" /\ f.st = "leave" => f.due = {}
AllWalk == \A t \in Threads : \A i \in DOMAIN stack[t] : Walks(stack[t][i])

\* A call to unregister comes from no callback and calls nobody.
Alone == \A t \in Threads : \A i \in DOMAIN stack[t] :
           stack[t][i].op = "unregister" => i = 1 /\ Len(stack[t]) = 1

\* A step keeps the nodes of the lists, in their order and of their types.
Kept ==
  /\ \A e \in Events : \A p, q \in DOMAIN evtlist[e] : \E u, v \in DOMAIN evtlist'[e] :
       /\ evtlist'[e][u] = evtlist[e][p] /\ evtlist'[e][v] = evtlist[e][q]
       /\ p < q => u < v
       /\ p = q => u = v
  /\ \A e \in Events : \A n \in Nodes : IsIn(n, evtlist[e]) => data'[n].type = data[n].type

\* Such a step disturbs no walk.
LEMMA WalkKept ==
  ASSUME TypeOK, Kept, NEW f \in Frames, Walks(f)
  PROVE  Walks(f)'
<1>1. CASE ~Holds(f)
  BY <1>1 DEF Walks, Holds
<1>2. CASE Holds(f)
  <2>1. f \in [op : {"send"}, e : Events, type : Types, st : {"enter", "loop", "call", "leave"},
               cur : Nodes \cup {Null}, due : SUBSET Nodes]
    BY <1>2 DEF Frames, Holds
  <2>2. PICK e : e = f.e
    OBVIOUS
  <2>3. e \in Events /\ f.due \in SUBSET Nodes
    BY <2>1, <2>2
  <2>4. ASSUME f.cur # Null PROVE IsIn(f.cur, evtlist'[e])
    <3>1. PICK p \in DOMAIN evtlist[e] : evtlist[e][p] = f.cur
      BY <1>2, <2>2, <2>4 DEF Walks, IsIn
    <3> QED BY <2>3, <3>1 DEF Kept, IsIn
  <2>5. ASSUME NEW n \in f.due
        PROVE  Matches(data'[n].type, f.type) /\ Before(evtlist'[e], f.cur, n, f.st = "loop")
    <3>1. Matches(data[n].type, f.type) /\ Before(evtlist[e], f.cur, n, f.st = "loop")
      BY <1>2, <2>2 DEF Walks
    <3>2. PICK p, q \in DOMAIN evtlist[e] :
            evtlist[e][p] = f.cur /\ evtlist[e][q] = n /\ (p < q \/ (f.st = "loop" /\ p = q))
      BY <3>1 DEF Before
    <3>3. PICK u, v \in DOMAIN evtlist'[e] :
            evtlist'[e][u] = f.cur /\ evtlist'[e][v] = n /\ (p < q => u < v) /\ (p = q => u = v)
      BY <2>3, <3>2 DEF Kept
    <3>4. Before(evtlist'[e], f.cur, n, f.st = "loop")
      BY <3>2, <3>3 DEF Before
    <3>5. n \in Nodes /\ IsIn(n, evtlist[e])
      BY <2>3, <3>2 DEF IsIn
    <3>6. data'[n].type = data[n].type
      BY <2>3, <3>5 DEF Kept
    <3> QED BY <3>1, <3>4, <3>6
  <2>6. f.st = "call" => f.cur # Null
    BY <1>2 DEF Walks
  <2>7. f.st # "leave"
    BY <1>2 DEF Holds
  <2> QED BY <2>2, <2>4, <2>5, <2>6, <2>7 DEF Walks
<1> QED BY <1>1, <1>2

\* Lists that stay as they are are kept.
LEMMA SameKept ==
  ASSUME evtlist' = evtlist, \A e \in Events : \A n \in Nodes : IsIn(n, evtlist[e]) => data'[n] = data[n]
  PROVE  Kept
BY DEF Kept

\* So are they when a node is linked in.
LEMMA InsertKept ==
  ASSUME EType, OnePlace, NEW t \in Threads, RegisterInsert(t)
  PROVE  Kept
<1>0. evtlist \in [Events -> Seq(Nodes)]
  BY DEF EType, TypeOK
<1>a. PICK e \in Events, n \in Nodes : e = Top(t).e /\ n = Top(t).node
  BY InsertType
<1>1. PICK i : e = Top(t).e /\ n = Top(t).node /\ i = InsertPos(evtlist[e], data[n].pri)
  BY <1>a
<1>2. /\ i \in 0 .. Len(evtlist[e])
      /\ evtlist'[e] = InsertAfter(evtlist[e], i, n) /\ \A x \in Events \ {e} : evtlist'[x] = evtlist[x]
      /\ data'[n] = [data[n] EXCEPT !.no = NewestNo(e) + 1] /\ \A m \in Nodes \ {n} : data'[m] = data[m]
      /\ Top(t).op = "register" /\ stack \in [Threads -> Seq(Frames)] /\ stack[t] # <<>>
  BY <1>1, InsertType
<1>3. ~IsIn(n, evtlist[e])
  <2>1. PICK j : j = Len(stack[t])
    OBVIOUS
  <2>2. Carries(n, t, j)
    BY <1>1, <1>2, <2>1, TopFrame DEF Carries
  <2> QED BY <2>2, Apart
<1>4. \A m \in Nodes : data'[m].type = data[m].type
  <2>1. data[n] \in [key : Keys \cup {Null}, pri : Pris \cup {0}, type : Types, no : Nat]
    BY DEF EType, TypeOK
  <2>2. data'[n].type = data[n].type
    BY <1>2, <2>1
  <2> QED BY <1>2, <2>2
<1>5. ASSUME NEW p \in DOMAIN evtlist[e], NEW q \in DOMAIN evtlist[e]
      PROVE  \E u, v \in DOMAIN evtlist'[e] :
               /\ evtlist'[e][u] = evtlist[e][p] /\ evtlist'[e][v] = evtlist[e][q]
               /\ p < q => u < v
               /\ p = q => u = v
  <2> DEFINE s == evtlist[e]
             r == evtlist'[e]
             u == IF p <= i THEN p ELSE p + 1
             v == IF q <= i THEN q ELSE q + 1
  <2>1. s \in Seq(Nodes) /\ NoTwice(s) /\ r = InsertAfter(s, i, n) /\ ~IsIn(n, s) /\ p \in DOMAIN s /\ q \in DOMAIN s
    BY <1>0, <1>2, <1>3 DEF OnePlace
  <2> HIDE DEF s, r
  <2>2. r \in Seq(Nodes) /\ Len(r) = Len(s) + 1
        /\ \A k \in DOMAIN r : r[k] = IF k <= i THEN s[k] ELSE IF k = i + 1 THEN n ELSE s[k - 1]
    <3>1. i \in 0 .. Len(s)
      BY <1>2 DEF s
    <3> QED BY <2>1, <3>1, Inserted
  <2>3. DOMAIN r = 1 .. Len(s) + 1 /\ p \in 1 .. Len(s) /\ q \in 1 .. Len(s) /\ Len(s) \in Nat /\ i \in Nat
    BY <1>2, <2>1, <2>2
  <2>4. u \in DOMAIN r /\ v \in DOMAIN r /\ (p < q => u < v) /\ (p = q => u = v)
    BY <2>3
  <2>5. r[u] = s[p]
    <3>1. CASE p <= i
      BY <2>2, <2>3, <2>4, <3>1
    <3>2. CASE p > i
      <4>1. u = p + 1 /\ ~(u <= i) /\ u # i + 1 /\ u - 1 = p
        BY <2>3, <3>2
      <4> QED BY <2>2, <2>4, <4>1
    <3> QED BY <2>3, <3>1, <3>2
  <2>6. r[v] = s[q]
    <3>1. CASE q <= i
      BY <2>2, <2>3, <2>4, <3>1
    <3>2. CASE q > i
      <4>1. v = q + 1 /\ ~(v <= i) /\ v # i + 1 /\ v - 1 = q
        BY <2>3, <3>2
      <4> QED BY <2>2, <2>4, <4>1
    <3> QED BY <2>3, <3>1, <3>2
  <2> HIDE DEF u, v
  <2> QED BY <2>4, <2>5, <2>6 DEF r, s
<1>6. ASSUME NEW x \in Events, x # e, NEW p \in DOMAIN evtlist[x], NEW q \in DOMAIN evtlist[x]
      PROVE  \E u, v \in DOMAIN evtlist'[x] :
               /\ evtlist'[x][u] = evtlist[x][p] /\ evtlist'[x][v] = evtlist[x][q]
               /\ p < q => u < v
               /\ p = q => u = v
  BY <1>2, <1>6
<1> QED BY <1>4, <1>5, <1>6 DEF Kept

\* What comes behind a node of a list is the node there, if any.
LEMMA NextIs ==
  ASSUME EType, OnePlace, NEW e \in Events, NEW p \in DOMAIN evtlist[e]
  PROVE  NextOf(evtlist[e][p]) = IF p < Len(evtlist[e]) THEN evtlist[e][p + 1] ELSE Null
<1>0. evtlist[e] \in Seq(Nodes) /\ NoTwice(evtlist[e])
  BY DEF EType, TypeOK, OnePlace
<1>1. PICK n \in Nodes : n = evtlist[e][p]
  BY <1>0
<1>2. IsIn(n, evtlist[e])
  BY <1>1 DEF IsIn
<1>3. ~IsIn(n, freelist) /\ \A x \in Events : IsIn(n, evtlist[x]) => x = e
  BY <1>2, Apart
<1>4. (CHOOSE x \in Events : IsIn(n, evtlist[x])) = e
  BY <1>2, <1>3
<1>5. NextOf(n) = SuccIn(n, evtlist[e])
  BY <1>2, <1>3, <1>4 DEF NextOf
<1>6. SuccIn(n, evtlist[e]) = IF p < Len(evtlist[e]) THEN evtlist[e][p + 1] ELSE Null
  BY <1>0, <1>1, <1>2, SuccInIs
<1> QED BY <1>1, <1>5, <1>6

\* A send that takes the mutex stands at the head of the list, and has to call
\* nodes of the list only.
LEMMA LockWalks ==
  ASSUME EType, NEW t \in Threads, Doing(t, "send"), NEW g,
         g = [Top(t) EXCEPT !.st = "loop", !.cur = HeadOf(evtlist[Top(t).e]), !.due = Due(Top(t).e, Top(t).type)]
  PROVE  Walks(g)
<1>1. stack \in [Threads -> Seq(Frames)] /\ stack[t] # <<>> /\ Top(t).op = "send"
  BY DEF EType, TypeOK, Doing
<1>2. Top(t) \in [op : {"send"}, e : Events, type : Types, st : {"enter", "loop", "call", "leave"},
                  cur : Nodes \cup {Null}, due : SUBSET Nodes]
  BY <1>1, TopFrame
<1>3. g.op = "send" /\ g.st = "loop" /\ g.e = Top(t).e /\ g.type = Top(t).type /\ g.e \in Events
      /\ g.cur = HeadOf(evtlist[g.e]) /\ g.due = Due(g.e, g.type)
  BY <1>2
<1>4. PICK e \in Events : e = g.e
  BY <1>3
<1>5. evtlist[e] \in Seq(Nodes)
  BY DEF EType, TypeOK
<1>6. g.cur = HeadOf(evtlist[e]) /\ g.due = Due(e, g.type)
  BY <1>3, <1>4
<1>7. ASSUME g.cur # Null PROVE IsIn(g.cur, evtlist[e])
  BY <1>5, <1>6, <1>7 DEF HeadOf, IsIn
<1>8. ASSUME NEW n \in g.due
      PROVE  Matches(data[n].type, g.type) /\ Before(evtlist[e], g.cur, n, g.st = "loop")
  <2>1. IsIn(n, evtlist[e]) /\ Matches(data[n].type, g.type)
    BY <1>6 DEF Due
  <2>2. PICK q \in DOMAIN evtlist[e] : evtlist[e][q] = n
    BY <2>1 DEF IsIn
  <2>3. 1 \in DOMAIN evtlist[e] /\ (1 < q \/ 1 = q) /\ evtlist[e] # <<>>
    BY <1>5, <2>2
  <2>4. g.cur = evtlist[e][1]
    BY <1>6, <2>3 DEF HeadOf
  <2> QED BY <1>3, <2>1, <2>2, <2>3, <2>4 DEF Before
<1> QED BY <1>3, <1>4, <1>7, <1>8 DEF Walks

\* The frame of a send that holds the mutex, with its fields.
LEMMA HoldFrame ==
  ASSUME EType, AllWalk, NEW t \in Threads, Doing(t, "send"), NEW f, f = Top(t), f.st \in {"loop", "call"}
  PROVE  /\ Walks(f)
         /\ f \in [op : {"send"}, e : Events, type : Types, st : {"enter", "loop", "call", "leave"},
                   cur : Nodes \cup {Null}, due : SUBSET Nodes]
         /\ f.cur # Null => IsIn(f.cur, evtlist[f.e])
         /\ f.st = "call" => f.cur # Null
         /\ \A n \in f.due : Matches(data[n].type, f.type) /\ Before(evtlist[f.e], f.cur, n, f.st = "loop")
<1>1. stack \in [Threads -> Seq(Frames)] /\ stack[t] # <<>> /\ Top(t).op = "send"
  BY DEF EType, TypeOK, Doing
<1>2. f \in [op : {"send"}, e : Events, type : Types, st : {"enter", "loop", "call", "leave"},
             cur : Nodes \cup {Null}, due : SUBSET Nodes]
  BY <1>1, TopFrame
<1>3. f = stack[t][Len(stack[t])] /\ Len(stack[t]) \in DOMAIN stack[t]
  BY <1>1, TopFrame
<1>4. Walks(f)
  BY <1>3 DEF AllWalk
<1> QED BY <1>1, <1>2, <1>4 DEF Walks, Holds

\* It steps past a node that it need not call, or whose callback has returned.
LEMMA NextWalks ==
  ASSUME EType, OnePlace, AllWalk, NEW t \in Threads, Doing(t, "send"), NEW f, f = Top(t), f.cur # Null,
         (f.st = "loop" /\ ~Matches(data[f.cur].type, f.type)) \/ f.st = "call",
         NEW g, g = [f EXCEPT !.st = "loop", !.cur = NextOf(f.cur)]
  PROVE  Walks(g)
<1>1. /\ f \in [op : {"send"}, e : Events, type : Types, st : {"enter", "loop", "call", "leave"},
               cur : Nodes \cup {Null}, due : SUBSET Nodes]
      /\ IsIn(f.cur, evtlist[f.e])
      /\ \A n \in f.due : Matches(data[n].type, f.type) /\ Before(evtlist[f.e], f.cur, n, f.st = "loop")
  BY HoldFrame
<1>2. g.op = "send" /\ g.st = "loop" /\ g.e = f.e /\ g.type = f.type /\ g.cur = NextOf(f.cur) /\ g.due = f.due
  BY <1>1
<1>3. PICK e \in Events : e = f.e
  BY <1>1
<1>4. PICK p \in DOMAIN evtlist[e] : evtlist[e][p] = f.cur
  BY <1>1, <1>3 DEF IsIn
<1>5. g.cur = IF p < Len(evtlist[e]) THEN evtlist[e][p + 1] ELSE Null
  BY <1>2, <1>4, NextIs
<1>6. evtlist[e] \in Seq(Nodes) /\ NoTwice(evtlist[e]) /\ p \in 1 .. Len(evtlist[e]) /\ Len(evtlist[e]) \in Nat
  BY <1>4 DEF EType, TypeOK, OnePlace
<1>7. ASSUME g.cur # Null PROVE IsIn(g.cur, evtlist[e])
  <2>1. p < Len(evtlist[e]) /\ g.cur = evtlist[e][p + 1]
    BY <1>5, <1>7
  <2>2. p + 1 \in DOMAIN evtlist[e]
    BY <1>6, <2>1
  <2> QED BY <2>1, <2>2 DEF IsIn
<1>8. ASSUME NEW n \in g.due PROVE Matches(data[n].type, g.type) /\ Before(evtlist[e], g.cur, n, g.st = "loop")
  <2>1. Matches(data[n].type, f.type) /\ Before(evtlist[e], f.cur, n, f.st = "loop")
    BY <1>1, <1>2, <1>3
  <2>2. PICK r, q \in DOMAIN evtlist[e] :
          evtlist[e][r] = f.cur /\ evtlist[e][q] = n /\ (r < q \/ (f.st = "loop" /\ r = q))
    BY <2>1 DEF Before
  <2>3. r = p
    BY <1>4, <1>6, <2>2 DEF NoTwice
  <2>4. r # q
    <3>1. CASE f.st = "loop"
      BY <2>1, <2>2, <3>1
    <3>2. CASE f.st = "call"
      <4>1. r < q /\ r \in 1 .. Len(evtlist[e]) /\ q \in 1 .. Len(evtlist[e])
        BY <1>6, <2>2, <3>2
      <4> QED BY <1>6, <4>1
    <3> QED BY <3>1, <3>2
  <2>5. p < q /\ q \in 1 .. Len(evtlist[e])
    BY <1>6, <2>2, <2>3, <2>4
  <2>6. p < Len(evtlist[e]) /\ p + 1 \in DOMAIN evtlist[e] /\ (p + 1 < q \/ p + 1 = q)
    BY <1>6, <2>5
  <2>7. g.cur = evtlist[e][p + 1]
    BY <1>5, <2>6
  <2> QED BY <1>2, <2>1, <2>2, <2>6, <2>7 DEF Before
<1> QED BY <1>2, <1>3, <1>7, <1>8 DEF Walks

\* It calls the node under the cursor, and has then to call what is behind it.
LEMMA CallWalks ==
  ASSUME EType, AllWalk, NEW t \in Threads, Doing(t, "send"), NEW f, f = Top(t), f.cur # Null, f.st = "loop",
         NEW g, g = [f EXCEPT !.st = "call", !.due = f.due \ {f.cur}]
  PROVE  Walks(g)
<1>1. /\ f \in [op : {"send"}, e : Events, type : Types, st : {"enter", "loop", "call", "leave"},
               cur : Nodes \cup {Null}, due : SUBSET Nodes]
      /\ IsIn(f.cur, evtlist[f.e])
      /\ \A n \in f.due : Matches(data[n].type, f.type) /\ Before(evtlist[f.e], f.cur, n, f.st = "loop")
  BY HoldFrame
<1>2. g.op = "send" /\ g.st = "call" /\ g.e = f.e /\ g.type = f.type /\ g.cur = f.cur /\ g.due = f.due \ {f.cur}
  BY <1>1
<1>3. ASSUME NEW n \in g.due PROVE Matches(data[n].type, g.type) /\ Before(evtlist[g.e], g.cur, n, g.st = "loop")
  <2>1. n # f.cur /\ Matches(data[n].type, f.type) /\ Before(evtlist[f.e], f.cur, n, f.st = "loop")
    BY <1>1, <1>2
  <2>2. PICK p, q \in DOMAIN evtlist[f.e] :
          evtlist[f.e][p] = f.cur /\ evtlist[f.e][q] = n /\ (p < q \/ (f.st = "loop" /\ p = q))
    BY <2>1 DEF Before
  <2>3. p < q
    BY <2>1, <2>2
  <2> QED BY <1>2, <2>1, <2>2, <2>3 DEF Before
<1> QED BY <1>1, <1>2, <1>3 DEF Walks

\* At the end of the list nothing is left to call.
LEMMA EndWalks ==
  ASSUME EType, AllWalk, NEW t \in Threads, Doing(t, "send"), NEW f, f = Top(t), f.cur = Null, f.st = "loop",
         NEW g, g = [f EXCEPT !.st = "leave"]
  PROVE  Walks(g)
<1>1. /\ f \in [op : {"send"}, e : Events, type : Types, st : {"enter", "loop", "call", "leave"},
               cur : Nodes \cup {Null}, due : SUBSET Nodes]
      /\ \A n \in f.due : Before(evtlist[f.e], f.cur, n, f.st = "loop")
  BY HoldFrame
<1>2. g.op = "send" /\ g.st = "leave" /\ g.due = f.due
  BY <1>1
<1>3. ASSUME NEW n \in f.due PROVE FALSE
  <2>1. PICK e \in Events : e = f.e
    BY <1>1
  <2>2. PICK p \in DOMAIN evtlist[e] : evtlist[e][p] = Null
    BY <1>1, <2>1 DEF Before
  <2>3. evtlist[e] \in Seq(Nodes)
    BY DEF EType, TypeOK
  <2> QED BY <2>2, <2>3, EventAssumption
<1> QED BY <1>2, <1>3 DEF Walks, Holds

\* A call is begun outside callbacks, or by a callback.
LEMMA AlonePush ==
  ASSUME stack \in [Threads -> Seq(Frames)], Alone, NEW t \in Threads, NEW f \in Frames, stack' = Push(t, f),
         f.op = "unregister" => stack[t] = <<>>, stack[t] # <<>> => Top(t).op = "send"
  PROVE  Alone'
<1>1. /\ stack'[t] = Append(stack[t], f) /\ \A u \in Threads \ {t} : stack'[u] = stack[u]
      /\ stack[t] \in Seq(Frames)
  BY DEF Push
<1>2. ASSUME NEW i \in DOMAIN stack'[t], stack'[t][i].op = "unregister" PROVE i = 1 /\ Len(stack'[t]) = 1
  <2>1. CASE stack[t] = <<>>
    BY <1>1, <2>1
  <2>2. CASE stack[t] # <<>>
    <3>1. i \in 1 .. Len(stack[t]) + 1 /\ Len(stack[t]) \in Nat \ {0} /\ DOMAIN stack[t] = 1 .. Len(stack[t])
      BY <1>1, <2>2
    <3>2. stack'[t][Len(stack[t]) + 1] = f /\ \A k \in DOMAIN stack[t] : stack'[t][k] = stack[t][k]
      BY <1>1
    <3>3. i \in DOMAIN stack[t] /\ stack[t][i].op = "unregister"
      BY <1>2, <2>2, <3>1, <3>2
    <3>4. i = Len(stack[t])
      BY <3>3 DEF Alone
    <3> QED BY <2>2, <3>3, <3>4 DEF Top
  <2> QED BY <2>1, <2>2
<1>3. ASSUME NEW u \in Threads, u # t, NEW i \in DOMAIN stack'[u], stack'[u][i].op = "unregister"
      PROVE  i = 1 /\ Len(stack'[u]) = 1
  BY <1>1, <1>3 DEF Alone
<1> QED BY <1>2, <1>3 DEF Alone

\* A call that ends leaves the others as they were.
LEMMA AlonePop ==
  ASSUME stack \in [Threads -> Seq(Frames)], Alone, NEW t \in Threads, stack[t] # <<>>, stack' = Pop(t)
  PROVE  Alone'
<1>1. /\ \A u \in Threads \ {t} : stack'[u] = stack[u]
      /\ \A u \in Threads : \A i \in DOMAIN stack'[u] :
           i \in DOMAIN stack[u] /\ stack'[u][i] = stack[u][i] /\ ~(u = t /\ i = Len(stack[t]))
  BY Popped DEF Pop
<1>2. ASSUME NEW u \in Threads, NEW i \in DOMAIN stack'[u], stack'[u][i].op = "unregister"
      PROVE  i = 1 /\ Len(stack'[u]) = 1
  <2>1. i \in DOMAIN stack[u] /\ stack[u][i].op = "unregister"
    BY <1>1, <1>2
  <2>2. i = 1 /\ Len(stack[u]) = 1
    BY <2>1 DEF Alone
  <2>3. u # t
    BY <1>1, <2>2
  <2> QED BY <1>1, <2>2, <2>3
<1> QED BY <1>2 DEF Alone

\* A send that goes on is no call to unregister.
LEMMA AloneSet ==
  ASSUME stack \in [Threads -> Seq(Frames)], Alone, NEW t \in Threads, Doing(t, "send"), NEW f \in Frames,
         f.op = "send", stack' = SetTop(t, f)
  PROVE  Alone'
<1>1. stack[t] # <<>>
  BY DEF Doing
<1>2. /\ stack' \in [Threads -> Seq(Frames)]
      /\ \A u \in Threads : DOMAIN stack'[u] = DOMAIN stack[u]
      /\ \A u \in Threads : \A i \in DOMAIN stack[u] :
           stack'[u][i] = IF u = t /\ i = Len(stack[t]) THEN f ELSE stack[u][i]
  BY <1>1, TopSet
<1>3. ASSUME NEW u \in Threads PROVE Len(stack'[u]) = Len(stack[u])
  <2>1. stack'[u] \in Seq(Frames) /\ stack[u] \in Seq(Frames) /\ DOMAIN stack'[u] = DOMAIN stack[u]
    BY <1>2
  <2>2. Len(stack'[u]) \in Nat /\ Len(stack[u]) \in Nat /\ 1 .. Len(stack'[u]) = 1 .. Len(stack[u])
    BY <2>1
  <2> QED BY <2>2
<1>4. ASSUME NEW u \in Threads, NEW i \in DOMAIN stack'[u], stack'[u][i].op = "unregister"
      PROVE  i = 1 /\ Len(stack'[u]) = 1
  <2>1. i \in DOMAIN stack[u] /\ stack[u][i].op = "unregister"
    BY <1>2, <1>4
  <2> QED BY <1>3, <2>1 DEF Alone
<1> QED BY <1>4 DEF Alone

\* A step that changes one frame to one that walks, and keeps the lists.
LEMMA WalkOn ==
  ASSUME TypeOK, AllWalk, Kept, NEW g, Walks(g)',
         \A t \in Threads : \A i \in DOMAIN stack'[t] :
           stack'[t][i] = g \/ (i \in DOMAIN stack[t] /\ stack'[t][i] = stack[t][i])
  PROVE  AllWalk'
<1>1. ASSUME NEW t \in Threads, NEW i, NEW f, i \in DOMAIN stack'[t], f = stack'[t][i] PROVE Walks(f)'
  <2>1. CASE f = g
    BY <2>1
  <2>2. CASE i \in DOMAIN stack[t] /\ stack'[t][i] = stack[t][i]
    <3>1. f \in Frames
      BY <1>1, <2>2 DEF TypeOK
    <3>2. Walks(f)
      BY <1>1, <2>2 DEF AllWalk
    <3> QED BY <3>1, <3>2, WalkKept
  <2> QED BY <1>1, <2>1, <2>2
<1> QED BY <1>1 DEF AllWalk

\* Where no callback unregisters, every step leaves every send on its way.
LEMMA StepWalks ==
  ASSUME Polite, EType, OnePlace, AllWalk, Alone, [Next]_vars
  PROVE  AllWalk' /\ Alone'
<1>0. stack \in [Threads -> Seq(Frames)] /\ TypeOK
  BY DEF EType, TypeOK
<1>1. PICK nobody : nobody = [op |-> "none"]
  OBVIOUS
<1>2. Walks(nobody)'
  BY <1>1 DEF Walks, Holds
<1>3. ASSUME Kept, UNCHANGED stack PROVE AllWalk' /\ Alone'
  <2>1. AllWalk'
    BY <1>0, <1>2, <1>3, WalkOn
  <2> QED BY <1>3, <2>1 DEF Alone
<1>4. ASSUME Kept, NEW t \in Threads, stack[t] # <<>>, stack' = Pop(t) PROVE AllWalk' /\ Alone'
  <2>1. \A u \in Threads : \A i \in DOMAIN stack'[u] : i \in DOMAIN stack[u] /\ stack'[u][i] = stack[u][i]
    BY <1>0, <1>4, Popped
  <2>2. AllWalk'
    BY <1>0, <1>2, <1>4, <2>1, WalkOn
  <2> QED BY <1>0, <1>4, <2>2, AlonePop
<1>5. ASSUME Kept, NEW t \in Threads, NEW op, MayCall(t, op), NEW f \in Frames, f.op = op, stack' = Push(t, f),
             f.op = "send" => f.st = "enter"
      PROVE  AllWalk' /\ Alone'
  <2>1. Walks(f)'
    BY <1>5 DEF Walks, Holds
  <2>2. \A u \in Threads : \A i \in DOMAIN stack'[u] :
          stack'[u][i] = f \/ (i \in DOMAIN stack[u] /\ stack'[u][i] = stack[u][i])
    BY <1>0, <1>5, Pushed
  <2>3. AllWalk'
    BY <1>0, <1>5, <2>1, <2>2, WalkOn
  <2>4. /\ f.op = "unregister" => stack[t] = <<>>
        /\ stack[t] # <<>> => Top(t).op = "send"
    BY <1>5 DEF MayCall, Polite, SendAt, Doing
  <2> QED BY <1>0, <1>5, <2>3, <2>4, AlonePush
<1>6. ASSUME UNCHANGED <<evtlist, data>> PROVE Kept
  BY <1>6, SameKept
<1>7. ASSUME UNCHANGED <<evtlist, data>>, NEW t \in Threads, Doing(t, "send"), NEW g, Walks(g), g.op = "send",
             g \in Frames, stack' = SetTop(t, g)
      PROVE  AllWalk' /\ Alone'
  <2>1. Walks(g)'
    BY <1>7 DEF Walks, Before
  <2>2. \A u \in Threads : \A i \in DOMAIN stack'[u] :
          stack'[u][i] = g \/ (i \in DOMAIN stack[u] /\ stack'[u][i] = stack[u][i])
    BY <1>0, <1>7, TopSet DEF Doing
  <2>3. AllWalk'
    BY <1>0, <1>6, <1>7, <2>1, <2>2, WalkOn
  <2> QED BY <1>0, <1>7, <2>3, AloneSet
<1>8. CASE UNCHANGED vars
  BY <1>3, <1>6, <1>8 DEF vars
<1>9. CASE ManageDelete
  <2>1. \A t \in Threads : stack'[t] = <<>>
    BY <1>9 DEF ManageDelete
  <2> QED BY <2>1 DEF AllWalk, Alone
<1>10. ASSUME NEW t \in Threads, NEW e \in Events, NEW k \in Keys, NEW p \in Pris, NEW y \in Types,
              RegisterAlloc(t, e, k, p, y)
       PROVE  AllWalk' /\ Alone'
  <2>1. evtlist' = evtlist /\ MayCall(t, "register")
    BY <1>10 DEF RegisterAlloc
  <2>2. Kept
    BY <1>10, <2>1, AllocData, SameKept
  <2>3. PICK n \in Nodes \cup {Null} : stack' = Push(t, [op |-> "register", e |-> e, node |-> n])
    <3>1. freelist # <<>> => Head(freelist) \in Nodes
      BY <1>0 DEF TypeOK
    <3> QED BY <1>10, <3>1 DEF RegisterAlloc
  <2>4. PICK f : f = [op |-> "register", e |-> e, node |-> n]
    OBVIOUS
  <2>5. f \in Frames /\ f.op = "register"
    BY <2>4 DEF Frames
  <2> QED BY <1>5, <2>1, <2>2, <2>3, <2>4, <2>5
<1>11. ASSUME NEW t \in Threads, NEW e \in Events, NEW k \in Keys, UnregisterAssert(t, e, k) PROVE AllWalk' /\ Alone'
  <2>1. PICK f : f = [op |-> "unregister", e |-> e, key |-> k]
    OBVIOUS
  <2>2. f \in Frames /\ f.op = "unregister"
    BY <2>1 DEF Frames
  <2>3. MayCall(t, "unregister") /\ UNCHANGED <<evtlist, data>> /\ (stack' = Push(t, f) \/ UNCHANGED stack)
    BY <1>11, <2>1 DEF UnregisterAssert
  <2> QED BY <1>3, <1>5, <1>6, <2>2, <2>3
<1>12. ASSUME NEW t \in Threads, NEW e \in Events, NEW y \in Types, SendStart(t, e, y) PROVE AllWalk' /\ Alone'
  <2>1. PICK f : f = [op |-> "send", e |-> e, type |-> y, st |-> "enter", cur |-> Null, due |-> {}]
    OBVIOUS
  <2>2. f \in Frames /\ f.op = "send" /\ f.st = "enter"
    BY <2>1 DEF Frames
  <2>3. MayCall(t, "send") /\ UNCHANGED <<evtlist, data>> /\ stack' = Push(t, f)
    BY <1>12, <2>1 DEF SendStart
  <2> QED BY <1>5, <1>6, <2>2, <2>3
<1>13. ASSUME NEW t \in Threads, RegisterInsert(t) PROVE AllWalk' /\ Alone'
  BY <1>4, <1>13, InsertType, InsertKept
<1>14. ASSUME NEW t \in Threads, RegisterNoMem(t) PROVE AllWalk' /\ Alone'
  <2>1. stack[t] # <<>> /\ UNCHANGED <<evtlist, data>> /\ (stack' = Pop(t) \/ UNCHANGED stack)
    BY <1>14 DEF RegisterNoMem, Doing
  <2> QED BY <1>3, <1>4, <1>6, <2>1
<1>15. ASSUME NEW t \in Threads, UnregisterRemove(t) PROVE AllWalk' /\ Alone'
  <2>1. stack[t] # <<>> /\ stack' = Pop(t) /\ Top(t).op = "unregister" /\ MutexFree(t)
    BY <1>15, RemoveType DEF UnregisterRemove
  <2>2. Len(stack[t]) = 1
    BY <1>0, <2>1, TopFrame DEF Alone
  <2>3. /\ \A u \in Threads : \A i \in DOMAIN stack'[u] :
             i \in DOMAIN stack[u] /\ stack'[u][i] = stack[u][i] /\ ~(u = t /\ i = Len(stack[t]))
    BY <1>0, <2>1, Popped
  <2>4. ASSUME NEW u \in Threads, NEW i, NEW f, i \in DOMAIN stack'[u], f = stack'[u][i] PROVE Walks(f)'
    <3>1. i \in DOMAIN stack[u] /\ f = stack[u][i] /\ ~(u = t /\ i = 1)
      BY <2>2, <2>3, <2>4
    <3>2. u # t
      <4>1. DOMAIN stack[t] = {1}
        <5>1. stack[t] \in Seq(Frames)
          BY <1>0
        <5> QED BY <2>2, <5>1
      <4> QED BY <3>1, <4>1
    <3>3. ~Holds(f)
      BY <2>1, <3>1, <3>2 DEF MutexFree
    <3>4. Walks(f)
      BY <3>1 DEF AllWalk
    <3> QED BY <3>3, <3>4 DEF Walks, Holds
  <2>5. AllWalk'
    BY <2>4 DEF AllWalk
  <2> QED BY <1>0, <2>1, <2>5, AlonePop
<1>16. ASSUME NEW t \in Threads, SendLock(t) PROVE AllWalk' /\ Alone'
  <2>1. PICK g : g = [Top(t) EXCEPT !.st = "loop", !.cur = HeadOf(evtlist[Top(t).e]), !.due = Due(Top(t).e, Top(t).type)]
    OBVIOUS
  <2>2. Doing(t, "send") /\ UNCHANGED <<evtlist, data>> /\ stack' = SetTop(t, g)
    BY <1>16, <2>1 DEF SendLock, SendAt
  <2>3. Walks(g)
    BY <2>1, <2>2, LockWalks
  <2>4. g \in Frames /\ g.op = "send"
    <3>1. Top(t).e \in Events /\ Top(t).op = "send" /\ Top(t) \in Frames
      BY <1>0, <2>2, TopFrame DEF Doing
    <3>2. HeadOf(evtlist[Top(t).e]) \in Nodes \cup {Null} /\ Due(Top(t).e, Top(t).type) \in SUBSET Nodes
      BY <1>0, <3>1 DEF HeadOf, TypeOK, Due
    <3>3. g \in Frames
      BY <2>1, <2>2, <3>2, SendFrame
    <3> QED BY <2>1, <3>1, <3>3
  <2> QED BY <1>7, <2>2, <2>3, <2>4
<1>17. ASSUME NEW t \in Threads, NEW f, f = Top(t), Doing(t, "send"), UNCHANGED <<evtlist, data>>, f.cur # Null,
              (f.st = "loop" /\ ~Matches(data[f.cur].type, f.type)) \/ f.st = "call",
              NEW g, g = [f EXCEPT !.st = "loop", !.cur = NextOf(f.cur)], stack' = SetTop(t, g)
       PROVE  AllWalk' /\ Alone'
  <2>1. Walks(g)
    BY <1>17, NextWalks
  <2>2. g \in Frames
    BY <1>0, <1>17, NextOfType, SendFrame
  <2>3. g.op = "send"
    BY <1>17 DEF Doing
  <2> QED BY <1>7, <1>17, <2>1, <2>2, <2>3
<1>18. ASSUME NEW t \in Threads, SendVisit(t) PROVE AllWalk' /\ Alone'
  <2>1. PICK f : f = Top(t)
    OBVIOUS
  <2>2. Doing(t, "send") /\ f.st = "loop" /\ f.cur # Null /\ UNCHANGED <<evtlist, data>>
    BY <1>18, <2>1 DEF SendVisit, SendAt
  <2>3. f \in [op : {"send"}, e : Events, type : Types, st : {"enter", "loop", "call", "leave"},
               cur : Nodes \cup {Null}, due : SUBSET Nodes]
    BY <1>0, <2>1, <2>2, TopFrame DEF Doing
  <2>4. CASE ~Matches(data[f.cur].type, f.type) /\ stack' = SetTop(t, [f EXCEPT !.cur = NextOf(f.cur)])
    <3>1. PICK g : g = [f EXCEPT !.st = "loop", !.cur = NextOf(f.cur)]
      OBVIOUS
    <3>2. [f EXCEPT !.cur = NextOf(f.cur)] = g
      BY <2>2, <2>3, <3>1
    <3> QED BY <1>17, <2>1, <2>2, <2>4, <3>1, <3>2
  <2>5. CASE stack' = SetTop(t, [f EXCEPT !.st = "call", !.due = @ \ {f.cur}])
    <3>1. PICK g : g = [f EXCEPT !.st = "call", !.due = f.due \ {f.cur}]
      OBVIOUS
    <3>2. stack' = SetTop(t, g)
      BY <2>5, <3>1
    <3>3. Walks(g)
      BY <2>1, <2>2, <3>1, CallWalks
    <3>4. g \in Frames /\ g.op = "send"
      <4>1. f.due \ {f.cur} \in SUBSET Nodes
        BY <2>3
      <4>2. g \in Frames
        BY <2>1, <2>2, <3>1, <4>1, SendFrame
      <4> QED BY <2>3, <3>1, <4>2
    <3> QED BY <1>7, <2>2, <3>2, <3>3, <3>4
  <2>6. CASE UNCHANGED stack
    BY <1>3, <1>6, <2>2, <2>6
  <2> QED BY <1>18, <2>1, <2>4, <2>5, <2>6 DEF SendVisit
<1>19. ASSUME NEW t \in Threads, SendReturn(t) PROVE AllWalk' /\ Alone'
  <2>1. PICK f : f = Top(t)
    OBVIOUS
  <2>2. PICK g : g = [f EXCEPT !.st = "loop", !.cur = NextOf(f.cur)]
    OBVIOUS
  <2>3. Doing(t, "send") /\ f.st = "call" /\ UNCHANGED <<evtlist, data>> /\ stack' = SetTop(t, g)
    BY <1>19, <2>1, <2>2 DEF SendReturn, SendAt
  <2>4. f.cur # Null
    BY <2>1, <2>3, HoldFrame
  <2> QED BY <1>17, <2>1, <2>2, <2>3, <2>4
<1>20. ASSUME NEW t \in Threads, SendUnlock(t) PROVE AllWalk' /\ Alone'
  <2>1. PICK f : f = Top(t)
    OBVIOUS
  <2>2. PICK g : g = [f EXCEPT !.st = "leave"]
    BY Zenon
  <2>3. Doing(t, "send") /\ f.st = "loop" /\ f.cur = Null /\ UNCHANGED <<evtlist, data>> /\ stack' = SetTop(t, g)
    BY <1>20, <2>1, <2>2 DEF SendUnlock, SendAt
  <2>4. Walks(g)
    BY <2>1, <2>2, <2>3, EndWalks
  <2>5. g \in Frames
    BY <2>1, <2>2, <2>3, SendFrame
  <2>6. g.op = "send"
    BY <2>1, <2>2, <2>3 DEF Doing
  <2> QED BY <1>7, <2>3, <2>4, <2>5, <2>6
<1>21. ASSUME NEW t \in Threads, SendEnd(t) PROVE AllWalk' /\ Alone'
  <2>1. stack[t] # <<>> /\ UNCHANGED <<evtlist, data>> /\ stack' = Pop(t)
    BY <1>21 DEF SendEnd, SendAt, Doing
  <2> QED BY <1>4, <1>6, <2>1
<1> QED BY <1>8, <1>9, <1>10, <1>11, <1>12, <1>13, <1>14, <1>15, <1>16, <1>18, <1>19, <1>20, <1>21 DEF Next, Step

-----------------------------------------------------------------------------
(* The theorems.                                                           *)

\* The inductive invariant.
LInv == EType /\ OnePlace /\ ListsOrdered /\ (Polite => AllWalk /\ Alone)

\* It holds at the start.
LEMMA InitLists == Init => LInv
<1> SUFFICES ASSUME Init PROVE LInv
  OBVIOUS
<1>1. freelist = <<>> /\ alloc = {} /\ (\A e \in Events : evtlist[e] = <<>>) /\ \A t \in Threads : stack[t] = <<>>
  BY DEF Init
<1>2. \A n, k, x, i : ~At(n, k, x, i)
  BY <1>1 DEF At, IsIn, Carries
<1>3. OnePlace
  BY <1>1, <1>2 DEF OnePlace, NoTwice
<1>4. ListsOrdered /\ AllWalk /\ Alone
  BY <1>1 DEF ListsOrdered, AllWalk, Alone
<1> QED BY <1>3, <1>4, InitType DEF LInv

\* Every step keeps it.
LEMMA StepLists == LInv /\ [Next]_vars => LInv'
<1> SUFFICES ASSUME LInv, [Next]_vars PROVE LInv'
  OBVIOUS
<1>1. EType' /\ OnePlace' /\ ListsOrdered'
  BY StepType, StepOnePlace, StepOrdered DEF LInv
<1>2. ASSUME Polite PROVE AllWalk' /\ Alone'
  BY <1>2, StepWalks DEF LInv
<1> QED BY <1>1, <1>2 DEF LInv, Polite

\* Whatever threads and callbacks do, even unregister, the lists stay in order and
\* every node is in one place: none is lost, and none is on two lists.
THEOREM ListsInOrder == Spec => [](ListsOrdered /\ NodesOnce)
<1>1. LInv => ListsOrdered /\ NodesOnce
  BY Counts DEF LInv
<1> QED BY InitLists, StepLists, <1>1, PTL DEF Spec

\* Where no callback unregisters, the cursor of a send stays on the list it walks.
THEOREM ListsKept ==
  ASSUME "unregister" \notin CallbackOps
  PROVE  Spec => []ListsSound
<1>1. LInv => ListsSound
  <2> SUFFICES ASSUME LInv PROVE ListsSound
    OBVIOUS
  <2>1. AllWalk /\ ListsOrdered /\ NodesOnce
    BY Counts DEF LInv, Polite
  <2>2. CursorListed
    BY <2>1 DEF AllWalk, Walks, CursorListed
  <2> QED BY <2>1, <2>2 DEF ListsSound
<1> QED BY InitLists, StepLists, <1>1, PTL DEF Spec

\* There, a send that has run to its end has called every matching registration
\* that was there when it took the mutex.
THEOREM AllCalled ==
  ASSUME "unregister" \notin CallbackOps
  PROVE  Spec => []AllDueCalled
<1>1. LInv => AllDueCalled
  BY DEF LInv, Polite, AllWalk, Walks, AllDueCalled
<1> QED BY InitLists, StepLists, <1>1, PTL DEF Spec
=============================================================================
