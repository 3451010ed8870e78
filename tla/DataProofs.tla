------------------------------ MODULE DataProofs ------------------------------
(***************************************************************************)
(* Theorems about the data structures, each for any values of its          *)
(* constants: the table of timer containers; the kernel's list of memory   *)
(* blocks; the growing array; the registry, which implements a map; the    *)
(* message buffer, which implements a stream; the deletion of a module.    *)
(***************************************************************************)
EXTENDS DataParts, Integers, SequenceTheorems, FiniteSetTheorems, WellFoundedInduction, TLAPS

-----------------------------------------------------------------------------
(* The table of timer containers.                                          *)

\* A multiple of n is at least n, unless it is none.
LEMMA Multiple ==
  ASSUME NEW n \in Nat \ {0}, NEW m \in Int, m >= 1
  PROVE  n * m >= n
<1>1. n * (m - 1) >= 0
  OBVIOUS
<1>2. n * m = n * (m - 1) + n
  OBVIOUS
<1> QED BY <1>1, <1>2

\* The remainder is the only one.
LEMMA Remainder ==
  ASSUME NEW n \in Nat \ {0}, NEW q \in Int, NEW r \in 0 .. n - 1
  PROVE  (n * q + r) % n = r
<1> DEFINE a == n * q + r
           p == a \div n
           s == a % n
<1>1. a \in Int
  OBVIOUS
<1>2. a = n * p + s /\ s \in 0 .. n - 1 /\ p \in Int
  <2> HIDE DEF a
  <2> QED BY <1>1
<1>3. (a % n) = s
  OBVIOUS
<1> HIDE DEF p, s
<1>4. n * (p - q) = r - s /\ n * (q - p) = s - r
  BY <1>2
<1>5. ~(p - q >= 1) /\ ~(q - p >= 1)
  BY <1>2, <1>4, Multiple
<1>6. s = r
  BY <1>2, <1>5
<1> QED BY <1>3, <1>6

\* n numbers in a row leave every remainder: the search looks at every id once
\* before it gives up.
LEMMA Round ==
  ASSUME NEW n \in Nat \ {0}, NEW a \in Nat, NEW id \in 0 .. n - 1
  PROVE  \E k \in a .. a + n - 1 : k % n = id
<1> DEFINE q == a \div n
           r == a % n
<1>1. a = n * q + r /\ r \in 0 .. n - 1 /\ q \in Int
  OBVIOUS
<1> HIDE DEF q, r
<1>2. n * (q + 1) = n * q + n
  BY <1>1
<1>3. CASE id >= r
  <2>1. n * q + id \in a .. a + n - 1
    BY <1>1, <1>3
  <2> QED BY <1>1, <2>1, Remainder
<1>4. CASE id < r
  <2> DEFINE p == q + 1
             m == n * p
  <2>0. m = a - r + n /\ p \in Int
    BY <1>1, <1>2
  <2> HIDE DEF p
  <2>1. (m + id) % n = id
    BY <2>0, Remainder
  <2> HIDE DEF m
  <2>2. m + id \in a .. a + n - 1
    BY <1>1, <1>4, <2>0
  <2> QED BY <2>1, <2>2
<1> QED BY <1>1, <1>3, <1>4

\* What the loop has passed is not usable.  Behind a wrap of the counter nothing is
\* said, until it comes to the rotor again.
Passed ==
  pc = "probe" =>
    /\ cid = Invalid
    /\ \A k \in conlastid .. i - 1 : ~Usable(k % ConMax)

IInv == ContainerTypeOK /\ Passed /\ FailsOnlyWhenFull

\* The loop bound is reached only when every id was looked at.
LEMMA LoopEnds ==
  ASSUME IInv, NewFail
  PROVE  AllInUse
<1>1. /\ pc = "probe" /\ ~(i < conlastid + ConMax)
      /\ conlastid \in Nat /\ i \in Nat /\ ConMax \in Nat \ {0}
  BY ContainerAssumption DEF NewFail, InRange, IInv, ContainerTypeOK
<1>2. ASSUME NEW id \in Ids PROVE ~Usable(id)
  <2>1. PICK k \in conlastid .. conlastid + ConMax - 1 : k % ConMax = id
    BY <1>1, Round DEF Ids
  <2>2. k \in conlastid .. i - 1
    BY <1>1, <2>1
  <2> QED BY <1>1, <2>1, <2>2 DEF IInv, Passed
<1> QED BY <1>2 DEF AllInUse, Usable, IInv, ContainerTypeOK

\* Every step of a search, and every deletion, keeps the invariant.
LEMMA StepInv ==
  ASSUME IInv, [ContainerNext]_containerVars
  PROVE  IInv'
<1> USE ContainerAssumption DEF ContainerTypeOK
<1>1. CASE UNCHANGED containerVars
  BY <1>1 DEF containerVars, IInv, Passed, FailsOnlyWhenFull, Usable
<1>2. CASE NewBegin
  <2>1. conlastid' = conlastid /\ i' = conlastid /\ conlastid \in Nat
    BY <1>2 DEF NewBegin, IInv
  <2>2. conlastid' .. i' - 1 = {}
    BY <2>1
  <2>3. Passed'
    BY <1>2, <2>2 DEF NewBegin, Passed
  <2>4. ContainerTypeOK' /\ FailsOnlyWhenFull'
    BY <1>2 DEF NewBegin, IInv, FailsOnlyWhenFull, Ids, Invalid
  <2> QED BY <2>3, <2>4 DEF IInv
<1>3. CASE NewTake
  <2>1. i % ConMax \in Ids
    BY DEF IInv, Ids
  <2> QED BY <1>3, <2>1 DEF NewTake, IInv, Passed, FailsOnlyWhenFull, Usable, Ids
<1>4. CASE NewSkip
  <2>1. pc' = pc /\ pc = "probe" /\ ~Usable(i % ConMax) /\ UNCHANGED <<container, conlastid, cid>>
    BY <1>4 DEF NewSkip
  <2>2. i' \in 0 .. IdMod - 1 /\ (i' = i + 1 \/ i' = 0)
    <3>1. i' = (i + 1) % IdMod /\ i + 1 \in 0 .. IdMod /\ IdMod \in Nat \ {0}
      BY <1>4 DEF NewSkip, After, IInv
    <3>2. CASE i + 1 = IdMod
      <4>1. IdMod * 1 + 0 = IdMod /\ 0 \in 0 .. IdMod - 1
        BY <3>1
      <4>2. (IdMod * 1 + 0) % IdMod = 0
        BY <3>1, <4>1, Remainder
      <4> QED BY <3>1, <3>2, <4>1, <4>2
    <3>3. CASE i + 1 # IdMod
      <4>1. i + 1 \in 0 .. IdMod - 1 /\ IdMod * 0 + (i + 1) = i + 1
        BY <3>1, <3>3
      <4>2. (IdMod * 0 + (i + 1)) % IdMod = i + 1
        BY <3>1, <4>1, Remainder
      <4> QED BY <3>1, <4>1, <4>2
    <3> QED BY <3>2, <3>3
  <2>3. Passed'
    <3>0. conlastid \in Nat /\ i \in Nat
      BY DEF IInv
    <3>1. \A k \in conlastid .. i' - 1 : k \in conlastid .. i - 1 \/ k = i
      <4>1. CASE i' = i + 1
        BY <3>0, <4>1
      <4>2. CASE i' = 0
        BY <3>0, <4>2
      <4> QED BY <2>2, <4>1, <4>2
    <3> QED BY <2>1, <3>1 DEF IInv, Passed, Usable
  <2> QED BY <2>1, <2>2, <2>3 DEF IInv, FailsOnlyWhenFull
<1>5. CASE NewFail
  BY <1>5, LoopEnds DEF NewFail, IInv, Passed, FailsOnlyWhenFull, AllInUse
<1>6. CASE NewReturn
  BY <1>6 DEF NewReturn, IInv, Passed, FailsOnlyWhenFull
<1>7. ASSUME NEW id \in Ids, Delete(id) PROVE IInv'
  BY <1>7 DEF Delete, IInv, Passed, FailsOnlyWhenFull
<1> QED BY <1>1, <1>2, <1>3, <1>4, <1>5, <1>6, <1>7 DEF ContainerNext, New

\* The invariant holds in every reachable state.
LEMMA Invariance == ContainerSpec => []IInv
<1>1. ContainerInit => IInv
  BY ContainerAssumption DEF ContainerInit, IInv, ContainerTypeOK, Passed, FailsOnlyWhenFull, Ids, Invalid
<1> QED BY <1>1, StepInv, PTL DEF ContainerSpec

\* The table, the rotor and the counter of a search stay within their widths.
THEOREM ContainerTypes == ContainerSpec => []ContainerTypeOK
<1>1. IInv => ContainerTypeOK
  BY DEF IInv
<1> QED BY <1>1, Invariance, PTL

\* zcrt_timer_container_new says that there is no id only when all are in use, for
\* any size of the table and any width of its counter, wherever the rotor stands
\* and also when the counter wraps before the loop bound.
THEOREM RefusesOnlyWhenFull == ContainerSpec => []FailsOnlyWhenFull
<1>1. IInv => FailsOnlyWhenFull
  BY DEF IInv
<1> QED BY <1>1, Invariance, PTL

-----------------------------------------------------------------------------
(* Sequences.                                                              *)

\* RemoveAt, and what it leaves of s: r.
Without(s, k) == SubSeq(s, 1, k - 1) \o SubSeq(s, k + 1, Len(s))
Removed(r, s, k) ==
  /\ \A n \in DOMAIN r : \/ n \in DOMAIN s /\ n < k /\ r[n] = s[n]
                         \/ n + 1 \in DOMAIN s /\ n >= k /\ r[n] = s[n + 1]
  /\ \A n \in DOMAIN s : n # k => \E l \in DOMAIN r : r[l] = s[n]
  /\ DOMAIN r = 1 .. Len(s) - 1

\* What removing an element of a sequence leaves.
LEMMA RemoveOne ==
  ASSUME NEW S, NEW s \in Seq(S), NEW k \in 1 .. Len(s), NEW r, r = Without(s, k)
  PROVE  r \in Seq(S) /\ Len(r) = Len(s) - 1 /\ Removed(r, s, k)
<1>1. DOMAIN s = 1 .. Len(s) /\ Len(s) \in Nat
  OBVIOUS
<1>2. PICK a, c : a = SubSeq(s, 1, k - 1) /\ c = SubSeq(s, k + 1, Len(s))
  OBVIOUS
<1>3. /\ a \in Seq(S) /\ Len(a) = k - 1 /\ \A n \in 1 .. k - 1 : a[n] = s[n]
  BY <1>1, <1>2
<1>4. c \in Seq(S) /\ Len(c) = Len(s) - k /\ \A n \in 1 .. Len(s) - k : c[n] = s[n + k]
  <2>1. k + 1 \in Int /\ Len(s) \in Int /\ \A n \in k + 1 .. Len(s) : s[n] \in S
    BY <1>1
  <2>2. /\ c \in Seq(S) /\ Len(c) = IF k + 1 <= Len(s) THEN Len(s) - (k + 1) + 1 ELSE 0
        /\ \A n \in 1 .. Len(s) - (k + 1) + 1 : c[n] = s[(k + 1) + n - 1]
    BY <1>2, <2>1, SubSeqProperties
  <2>3. Len(s) - (k + 1) + 1 = Len(s) - k /\ (~(k + 1 <= Len(s)) => Len(s) - k = 0)
    <3>1. PICK l \in Nat : l = Len(s)
      BY <1>1
    <3>2. k \in Int /\ k <= l
      BY <3>1
    <3> QED BY <3>1, <3>2
  <2>4. \A n \in 1 .. Len(s) - k : (k + 1) + n - 1 = n + k
    BY <1>1
  <2> QED BY <2>2, <2>3, <2>4
<1>5. /\ r \in Seq(S) /\ Len(r) = Len(s) - 1
      /\ \A n \in 1 .. Len(s) - 1 : r[n] = IF n <= k - 1 THEN a[n] ELSE c[n - (k - 1)]
  <2>1. /\ a \o c \in Seq(S) /\ Len(a \o c) = Len(a) + Len(c)
        /\ \A n \in 1 .. Len(a) + Len(c) : (a \o c)[n] = IF n <= Len(a) THEN a[n] ELSE c[n - Len(a)]
    BY <1>3, <1>4, ConcatProperties
  <2>2. Len(a) + Len(c) = Len(s) - 1
    BY <1>1, <1>3, <1>4
  <2>3. r = a \o c
    BY <1>2 DEF Without
  <2> QED BY <1>3, <2>1, <2>2, <2>3
<1>6. DOMAIN r = 1 .. Len(s) - 1
  BY <1>5
<1>7. ASSUME NEW n \in DOMAIN r
      PROVE  \/ n \in DOMAIN s /\ n < k /\ r[n] = s[n]
             \/ n + 1 \in DOMAIN s /\ n >= k /\ r[n] = s[n + 1]
  <2>1. n \in 1 .. Len(s) - 1 /\ k \in Int /\ Len(s) \in Int
    BY <1>1, <1>6
  <2>2. CASE n <= k - 1
    <3>1. n \in 1 .. k - 1 /\ n \in DOMAIN s /\ n < k
      BY <1>1, <2>1, <2>2
    <3> QED BY <1>3, <1>5, <2>1, <2>2, <3>1
  <2>3. CASE ~(n <= k - 1)
    <3>1. PICK l : l = n - (k - 1)
      OBVIOUS
    <3>2. l \in 1 .. Len(s) - k /\ l + k = n + 1 /\ n + 1 \in DOMAIN s /\ n >= k
      BY <1>1, <2>1, <2>3, <3>1
    <3>3. r[n] = c[l] /\ c[l] = s[l + k]
      BY <1>4, <1>5, <2>1, <2>3, <3>1, <3>2
    <3> QED BY <3>2, <3>3
  <2> QED BY <2>2, <2>3
<1>8. ASSUME NEW n \in DOMAIN s, n # k PROVE \E l \in DOMAIN r : r[l] = s[n]
  <2>0. n \in 1 .. Len(s) /\ Len(s) \in Nat
    BY <1>1
  <2>1. CASE n < k
    <3>1. n \in DOMAIN r /\ ~(n >= k)
      BY <1>6, <2>0, <2>1
    <3> QED BY <1>7, <3>1
  <2>2. CASE n > k
    <3>1. n - 1 \in DOMAIN r /\ ~(n - 1 < k) /\ (n - 1) + 1 = n
      BY <1>6, <2>0, <2>2
    <3>2. r[n - 1] = s[(n - 1) + 1]
      BY <1>7, <3>1
    <3> QED BY <3>1, <3>2
  <2> QED BY <1>8, <2>0, <2>1, <2>2
<1> QED BY <1>5, <1>6, <1>7, <1>8 DEF Removed

-----------------------------------------------------------------------------
(* The kernel's list of memory blocks.                                     *)

Blocks == [ptr : Ptrs, size : Nat \ {0}]
Acts == [op : {"rest"}] \cup [op : {"add"}, new : Ptrs, old : SUBSET Ptrs]
        \cup [op : {"del", "free"}, ptr : Ptrs]
MemTypes ==
  /\ kmem \in [Ptrs -> Nat] /\ blocks \in Seq(Blocks)
  /\ owned \in [Threads -> SUBSET Ptrs] /\ at \in [Threads -> Acts]

\* The memory that a thread has and no list names: new, or about to be freed.
Flies(t) == CASE at[t].op = "add" -> {at[t].new} [] at[t].op = "free" -> {at[t].ptr} [] OTHER -> {}

\* Memory belongs to one thread, which it was given to or which is in the middle of
\* a call about it; a block that is about to be deleted is its thread's.
Belongs ==
  /\ \A t, u \in Threads : t # u => /\ owned[t] \cap owned[u] = {}
                                    /\ Flies(t) \cap Flies(u) = {}
  /\ \A t, u \in Threads : Flies(t) \cap owned[u] = {}
  /\ \A t \in Threads : at[t].op = "del" => at[t].ptr \in owned[t]
  /\ \A t \in Threads : at[t].op = "add" =>
       at[t].old \subseteq owned[t] /\ (at[t].old = {} \/ \E p \in Ptrs : at[t].old = {p})

\* The list and the memory, said pointer by pointer.
Unique == \A k, n \in DOMAIN blocks : blocks[k].ptr = blocks[n].ptr => k = n
Listed ==
  /\ \A k \in DOMAIN blocks : \E t \in Threads : blocks[k].ptr \in owned[t]
  /\ \A t \in Threads : \A p \in owned[t] : \E k \in DOMAIN blocks : blocks[k].ptr = p
  /\ Unique
  /\ \A k \in DOMAIN blocks : blocks[k].size = kmem[blocks[k].ptr]
  /\ \A p \in Ptrs : kmem[p] # 0 <=> \E t \in Threads : p \in owned[t] \/ p \in Flies(t)
  /\ ~Shrink => memfault = "none"

MInv == MemTypes /\ Belongs /\ Listed

\* memblock_get finds the block of a pointer that is in use, which is the only one.
LEMMA BlockIs ==
  ASSUME MemTypes, Unique, NEW k \in DOMAIN blocks
  PROVE  M!BlockOf(blocks[k].ptr) = k
<1> DEFINE I == {n \in 1 .. Len(blocks) : blocks[n].ptr = blocks[k].ptr}
<1>1. DOMAIN blocks = 1 .. Len(blocks) /\ Len(blocks) \in Nat
  BY DEF MemTypes
<1>2. I = {k}
  BY <1>1 DEF Unique
<1>3. M!BlockOf(blocks[k].ptr) = M!Min(I)
  BY <1>2 DEF M!BlockOf, M!SelectInSeq
<1>4. k \in Int
  BY <1>1
<1> HIDE DEF I
<1> QED BY <1>2, <1>3, <1>4 DEF M!Min

\* memblock_add puts a block at the head.
LEMMA BlockAdded ==
  ASSUME MemTypes, NEW b \in Blocks, blocks' = <<b>> \o blocks
  PROVE  /\ blocks' \in Seq(Blocks) /\ DOMAIN blocks' = 1 .. Len(blocks) + 1
         /\ DOMAIN blocks = 1 .. Len(blocks) /\ Len(blocks) \in Nat
         /\ blocks'[1] = b /\ \A k \in DOMAIN blocks : blocks'[k + 1] = blocks[k]
         /\ \A k \in DOMAIN blocks' : k = 1 \/ (k - 1 \in DOMAIN blocks /\ blocks'[k] = blocks[k - 1])
<1>1. blocks \in Seq(Blocks) /\ DOMAIN blocks = 1 .. Len(blocks) /\ Len(blocks) \in Nat
  BY DEF MemTypes
<1>2. PICK h : h = <<b>>
  OBVIOUS
<1>3. h \in Seq(Blocks) /\ Len(h) = 1 /\ h[1] = b
  BY <1>2
<1>4. /\ blocks' \in Seq(Blocks) /\ Len(blocks') = Len(blocks) + 1
      /\ \A k \in 1 .. Len(blocks) + 1 : blocks'[k] = IF k <= 1 THEN h[k] ELSE blocks[k - 1]
  BY <1>1, <1>2, <1>3
<1> QED BY <1>1, <1>3, <1>4

\* memblock_del takes one block out.
LEMMA BlockGone ==
  ASSUME MemTypes, NEW k \in DOMAIN blocks, blocks' = M!RemoveAt(blocks, k)
  PROVE  blocks' \in Seq(Blocks) /\ Removed(blocks', blocks, k)
<1>1. blocks \in Seq(Blocks) /\ k \in 1 .. Len(blocks)
  BY DEF MemTypes
<1>2. blocks' = Without(blocks, k)
  BY DEF M!RemoveAt, Without
<1> QED BY <1>1, <1>2, RemoveOne

\* What the steps of a call make of the memory that flies.
LEMMA Flight ==
  ASSUME MemTypes, NEW t \in Threads, NEW a \in Acts, at' = [at EXCEPT ![t] = a]
  PROVE  /\ at' \in [Threads -> Acts] /\ at'[t] = a
         /\ \A u \in Threads \ {t} : at'[u] = at[u] /\ Flies(u)' = Flies(u)
         /\ Flies(t)' = (CASE a.op = "add" -> {a.new} [] a.op = "free" -> {a.ptr} [] OTHER -> {})
<1>1. at' \in [Threads -> Acts] /\ at'[t] = a /\ \A u \in Threads \ {t} : at'[u] = at[u]
  BY DEF MemTypes
<1>2. \A u \in Threads \ {t} : Flies(u)' = Flies(u)
  BY <1>1 DEF Flies
<1>3. Flies(t)' = (CASE a.op = "add" -> {a.new} [] a.op = "free" -> {a.ptr} [] OTHER -> {})
  BY <1>1 DEF Flies
<1> QED BY <1>1, <1>2, <1>3

\* Every step of every thread keeps the list exact.
LEMMA MemStep ==
  ASSUME MaxSize \in Nat, MInv, [M!Next]_(M!vars)
  PROVE  MInv'
<1>0. MemTypes /\ Belongs /\ Listed
  BY DEF MInv
<1>t. /\ kmem \in [Ptrs -> Nat] /\ blocks \in Seq(Blocks)
      /\ owned \in [Threads -> SUBSET Ptrs] /\ at \in [Threads -> Acts]
  BY <1>0 DEF MemTypes
<1>a. \A k \in DOMAIN blocks : \E t \in Threads : blocks[k].ptr \in owned[t]
  BY <1>0 DEF Listed
<1>b. \A t \in Threads : \A p \in owned[t] : \E k \in DOMAIN blocks : blocks[k].ptr = p
  BY <1>0 DEF Listed
<1>c. \A k \in DOMAIN blocks : blocks[k] \in Blocks /\ blocks[k].ptr \in Ptrs /\ blocks[k].size = kmem[blocks[k].ptr]
  <2>1. \A k \in DOMAIN blocks : blocks[k] \in Blocks
    BY <1>t
  <2> QED BY <1>0, <2>1 DEF Listed, Blocks
<1>d. \A p \in Ptrs : kmem[p] # 0 <=> \E t \in Threads : p \in owned[t] \/ p \in Flies(t)
  BY <1>0 DEF Listed
<1>u. \A p \in M!Free : p \in Ptrs /\ kmem[p] = 0 /\ \A t \in Threads : p \notin owned[t] /\ p \notin Flies(t)
  BY <1>0 DEF M!Free, Listed
<1>1. CASE UNCHANGED (M!vars)
  <2>1. UNCHANGED <<kmem, blocks, owned, at, memfault>>
    BY <1>1 DEF M!vars
  <2>2. \A t \in Threads : Flies(t)' = Flies(t)
    BY <2>1 DEF Flies
  <2> QED BY <1>0, <2>1, <2>2 DEF MInv, MemTypes, Belongs, Listed, Unique
<1>2. ASSUME NEW t \in Threads, NEW q \in M!Free, NEW z \in Nat \ {0}, NEW old \in SUBSET owned[t],
             old = {} \/ \E p \in Ptrs : old = {p},
             kmem' = [kmem EXCEPT ![q] = z], at' = [at EXCEPT ![t] = [op |-> "add", new |-> q, old |-> old]],
             UNCHANGED <<blocks, owned>>, ~Shrink => memfault' = "none", at[t].op = "rest"
      PROVE  MInv'
  <2>1. PICK a : a = [op |-> "add", new |-> q, old |-> old]
    OBVIOUS
  <2>2. a \in Acts /\ a.op = "add" /\ a.new = q /\ a.old = old
    BY <1>t, <1>u, <2>1 DEF Acts
  <2>3. /\ at' \in [Threads -> Acts] /\ at'[t] = a
        /\ \A u \in Threads \ {t} : at'[u] = at[u] /\ Flies(u)' = Flies(u)
        /\ Flies(t)' = {q}
    BY <1>0, <1>2, <2>1, <2>2, Flight
  <2>4. Flies(t) = {}
    BY <1>2 DEF Flies
  <2>5. MemTypes'
    BY <1>t, <1>2, <2>3 DEF MemTypes
  <2>6. Belongs'
    BY <1>0, <1>2, <1>u, <2>2, <2>3 DEF Belongs
  <2>7. /\ Unique' /\ \A k \in DOMAIN blocks' : blocks'[k].ptr \in Ptrs \ {q}
    BY <1>0, <1>2, <1>t, <1>u DEF Listed, Unique
  <2>8. \A p \in Ptrs : kmem'[p] # 0 <=> \E u \in Threads : p \in owned'[u] \/ p \in Flies(u)'
    <3>1. \A p \in Ptrs : kmem'[p] = IF p = q THEN z ELSE kmem[p]
      BY <1>2, <1>t
    <3>2. \A p \in Ptrs \ {q} : \A u \in Threads : p \in Flies(u)' <=> p \in Flies(u)
      BY <2>3, <2>4
    <3>3. q \in Flies(t)' /\ owned' = owned
      BY <1>2, <2>3
    <3> QED BY <1>d, <3>1, <3>2, <3>3
  <2>9. \A k \in DOMAIN blocks' : blocks'[k].size = kmem'[blocks'[k].ptr]
    BY <1>2, <1>c, <1>t, <2>7
  <2>10. Listed'
    BY <1>2, <1>a, <1>b, <2>7, <2>8, <2>9 DEF Listed
  <2> QED BY <2>5, <2>6, <2>10 DEF MInv
<1>3. ASSUME NEW t \in Threads, NEW z \in M!Sizes, M!MallocTake(t, z) PROVE MInv'
  <2>1. z \in Nat \ {0}
    BY DEF M!Sizes
  <2>2. PICK q \in M!Free : kmem' = [kmem EXCEPT ![q] = z] /\ at' = [at EXCEPT ![t] = [op |-> "add", new |-> q, old |-> {}]]
    BY <1>3 DEF M!MallocTake, M!Goes
  <2>3. UNCHANGED <<blocks, owned>> /\ at[t].op = "rest" /\ memfault' = memfault
    BY <1>3 DEF M!MallocTake, M!Resting
  <2>4. ~Shrink => memfault' = "none"
    BY <1>0, <2>3 DEF Listed
  <2>5. {} \in SUBSET owned[t]
    OBVIOUS
  <2> QED BY <1>2, <2>1, <2>2, <2>3, <2>4, <2>5
<1>4. ASSUME NEW t \in Threads, NEW z \in M!Sizes, NEW p \in Ptrs, M!ReallocTake(t, p, z) PROVE MInv'
  <2>1. z \in Nat \ {0} /\ p \in owned[t] /\ at[t].op = "rest"
    BY <1>4 DEF M!Sizes, M!ReallocTake, M!Resting
  <2>2. PICK k \in DOMAIN blocks : blocks[k].ptr = p
    BY <1>0, <2>1 DEF Listed
  <2>3. M!BlockOf(p) = k
    BY <1>0, <2>2, BlockIs DEF Listed
  <2>4. PICK w \in Nat : w = blocks[k].size
    BY <1>c DEF Blocks
  <2>5. ~Shrink => memfault' = "none"
    BY <1>0, <1>4, <2>1, <2>3, <2>4 DEF M!ReallocTake, Listed
  <2>6. PICK q \in M!Free : kmem' = [kmem EXCEPT ![q] = z] /\ at' = [at EXCEPT ![t] = [op |-> "add", new |-> q, old |-> {p}]]
    BY <1>4 DEF M!ReallocTake, M!Goes
  <2>7. UNCHANGED <<blocks, owned>> /\ {p} \in SUBSET owned[t]
    BY <1>4, <2>1 DEF M!ReallocTake
  <2> QED BY <1>2, <2>1, <2>5, <2>6, <2>7
<1>5. ASSUME NEW t \in Threads, M!Add(t) PROVE MInv'
  <2>1. PICK q, old : q = at[t].new /\ old = at[t].old
    OBVIOUS
  <2>2. /\ q \in Ptrs /\ old \subseteq owned[t] /\ Flies(t) = {q} /\ kmem[q] # 0 /\ q \notin owned[t]
        /\ \A u \in Threads : q \notin owned[u] /\ (u # t => q \notin Flies(u))
    <3>1. at[t] \in Acts /\ at[t].op = "add"
      BY <1>5, <1>t DEF M!Add
    <3>2. q \in Ptrs /\ old \subseteq owned[t]
      BY <1>0, <2>1, <3>1 DEF Acts, Belongs
    <3>3. Flies(t) = {q}
      BY <2>1, <3>1 DEF Flies
    <3>4. \A u \in Threads : q \notin owned[u] /\ (u # t => q \notin Flies(u))
      BY <1>0, <3>3 DEF Belongs
    <3> QED BY <1>d, <3>2, <3>3, <3>4
  <2>3. CASE M!AddFails(t)
    <3>1. PICK a : a = M!Rest
      OBVIOUS
    <3>2. a \in Acts /\ a.op = "rest"
      BY <3>1 DEF M!Rest, Acts
    <3>3. /\ at' \in [Threads -> Acts] /\ at'[t] = a
          /\ \A u \in Threads \ {t} : at'[u] = at[u] /\ Flies(u)' = Flies(u)
          /\ Flies(t)' = {}
      BY <1>0, <2>3, <3>1, <3>2, Flight DEF M!AddFails, M!Goes
    <3>4. kmem' = [kmem EXCEPT ![q] = 0] /\ blocks' = blocks /\ owned' = owned /\ memfault' = memfault
      BY <1>5, <2>1, <2>3 DEF M!AddFails, M!Add
    <3>5. MemTypes'
      BY <1>t, <3>3, <3>4 DEF MemTypes
    <3>6. Belongs'
      BY <1>0, <3>2, <3>3, <3>4 DEF Belongs
    <3>7. Unique' /\ \A k \in DOMAIN blocks' : blocks'[k].ptr \in Ptrs \ {q}
      BY <1>0, <1>a, <1>c, <2>2, <3>4 DEF Listed, Unique
    <3>8. \A k \in DOMAIN blocks' : blocks'[k].size = kmem'[blocks'[k].ptr]
      BY <1>c, <1>t, <3>4, <3>7
    <3>9. \A p \in Ptrs : kmem'[p] # 0 <=> \E u \in Threads : p \in owned'[u] \/ p \in Flies(u)'
      <4>1. \A p \in Ptrs : kmem'[p] = IF p = q THEN 0 ELSE kmem[p]
        BY <1>t, <3>4
      <4>2. \A p \in Ptrs \ {q} : \A u \in Threads : p \in Flies(u)' <=> p \in Flies(u)
        BY <2>2, <3>3
      <4>3. \A u \in Threads : q \notin Flies(u)' /\ q \notin owned'[u]
        BY <2>2, <3>3, <3>4
      <4> QED BY <1>d, <3>4, <4>1, <4>2, <4>3
    <3>10. Listed'
      BY <1>0, <1>a, <1>b, <3>4, <3>7, <3>8, <3>9 DEF Listed
    <3> QED BY <3>5, <3>6, <3>10 DEF MInv
  <2>4. CASE /\ blocks' = <<[ptr |-> at[t].new, size |-> kmem[at[t].new]]>> \o blocks
             /\ owned' = [owned EXCEPT ![t] = @ \cup {at[t].new}]
             /\ IF at[t].old = {} THEN M!Goes(t, M!Rest)
                ELSE \E p \in at[t].old : M!Goes(t, [op |-> "del", ptr |-> p])
             /\ UNCHANGED kmem
    <3>1. PICK b \in Blocks : b = [ptr |-> q, size |-> kmem[q]]
      BY <1>t, <2>2 DEF Blocks
    <3>2. b.ptr = q /\ b.size = kmem[q]
      BY <3>1
    <3>3. /\ blocks' \in Seq(Blocks) /\ DOMAIN blocks' = 1 .. Len(blocks) + 1
          /\ DOMAIN blocks = 1 .. Len(blocks) /\ Len(blocks) \in Nat
          /\ blocks'[1] = b /\ \A k \in DOMAIN blocks : blocks'[k + 1] = blocks[k]
          /\ \A k \in DOMAIN blocks' : k = 1 \/ (k - 1 \in DOMAIN blocks /\ blocks'[k] = blocks[k - 1])
      BY <1>0, <2>1, <2>4, <3>1, BlockAdded
    <3>4. PICK a \in Acts : /\ at' = [at EXCEPT ![t] = a]
                            /\ a.op = "rest" \/ (a.op = "del" /\ a.ptr \in owned[t])
      <4>1. M!Rest \in Acts /\ (M!Rest).op = "rest"
        BY DEF M!Rest, Acts
      <4>2. \A p \in old : /\ [op |-> "del", ptr |-> p] \in Acts /\ p \in owned[t]
                           /\ [op |-> "del", ptr |-> p].op = "del" /\ [op |-> "del", ptr |-> p].ptr = p
        BY <1>t, <2>2 DEF Acts
      <4> QED BY <2>1, <2>4, <4>1, <4>2 DEF M!Goes
    <3>5. /\ at' \in [Threads -> Acts] /\ at'[t] = a
          /\ \A u \in Threads \ {t} : at'[u] = at[u] /\ Flies(u)' = Flies(u)
          /\ Flies(t)' = {}
      BY <1>0, <3>4, Flight
    <3>6. /\ owned' \in [Threads -> SUBSET Ptrs] /\ owned'[t] = owned[t] \cup {q}
          /\ \A u \in Threads \ {t} : owned'[u] = owned[u]
          /\ kmem' = kmem /\ memfault' = memfault
      BY <1>5, <1>t, <2>1, <2>2, <2>4 DEF M!Add
    <3>7. MemTypes'
      BY <1>t, <3>3, <3>5, <3>6 DEF MemTypes
    <3>8. Belongs'
      BY <1>0, <2>2, <3>4, <3>5, <3>6 DEF Belongs
    <3>9. \A k \in DOMAIN blocks : blocks[k].ptr # q
      BY <1>0, <2>2 DEF Listed
    <3>10. Unique'
      <4>1. ASSUME NEW k \in DOMAIN blocks', NEW n \in DOMAIN blocks', blocks'[k].ptr = blocks'[n].ptr PROVE k = n
        <5>1. CASE k = 1
          BY <3>2, <3>3, <3>9, <4>1, <5>1
        <5>2. CASE n = 1
          BY <3>2, <3>3, <3>9, <4>1, <5>2
        <5>3. CASE k # 1 /\ n # 1
          <6>1. k - 1 \in DOMAIN blocks /\ n - 1 \in DOMAIN blocks /\ blocks[k - 1].ptr = blocks[n - 1].ptr
            BY <3>3, <4>1, <5>3
          <6>2. k - 1 = n - 1
            BY <1>0, <6>1 DEF Listed, Unique
          <6> QED BY <3>3, <6>2
        <5> QED BY <5>1, <5>2, <5>3
      <4> QED BY <4>1 DEF Unique
    <3>11. \A k \in DOMAIN blocks' : /\ blocks'[k].size = kmem'[blocks'[k].ptr]
                                     /\ \E u \in Threads : blocks'[k].ptr \in owned'[u]
      <4>1. blocks'[1].size = kmem'[blocks'[1].ptr] /\ blocks'[1].ptr \in owned'[t]
        BY <3>2, <3>3, <3>6
      <4>2. \A k \in DOMAIN blocks : /\ blocks[k].size = kmem'[blocks[k].ptr]
                                     /\ \E u \in Threads : blocks[k].ptr \in owned'[u]
        BY <1>a, <1>c, <3>6
      <4>3. ASSUME NEW k \in DOMAIN blocks'
            PROVE  blocks'[k].size = kmem'[blocks'[k].ptr] /\ \E u \in Threads : blocks'[k].ptr \in owned'[u]
        BY <3>3, <4>1, <4>2
      <4> QED BY <4>3
    <3>12. \A u \in Threads : \A p \in owned'[u] : \E k \in DOMAIN blocks' : blocks'[k].ptr = p
      <4>1. 1 \in DOMAIN blocks' /\ blocks'[1].ptr = q
        BY <3>2, <3>3
      <4>2. \A k \in DOMAIN blocks : k + 1 \in DOMAIN blocks' /\ blocks'[k + 1].ptr = blocks[k].ptr
        BY <3>3
      <4>3. \A u \in Threads : \A p \in owned[u] : \E k \in DOMAIN blocks : blocks[k].ptr = p
        BY <1>0 DEF Listed
      <4> QED BY <3>6, <4>1, <4>2, <4>3
    <3>13. \A p \in Ptrs : kmem'[p] # 0 <=> \E u \in Threads : p \in owned'[u] \/ p \in Flies(u)'
      BY <1>0, <2>2, <3>5, <3>6 DEF Listed
    <3>14. Listed'
      BY <1>0, <3>6, <3>10, <3>11, <3>12, <3>13 DEF Listed
    <3> QED BY <3>7, <3>8, <3>14 DEF MInv
  <2> QED BY <1>5, <2>3, <2>4 DEF M!Add
<1>6. ASSUME NEW t \in Threads, NEW p \in Ptrs, M!FreeGet(t, p) PROVE MInv'
  <2>1. PICK a : a = [op |-> "del", ptr |-> p]
    OBVIOUS
  <2>2. a \in Acts /\ a.op = "del" /\ a.ptr = p /\ p \in owned[t] /\ at[t].op = "rest"
    BY <1>6, <2>1 DEF Acts, M!FreeGet, M!Resting
  <2>3. /\ at' \in [Threads -> Acts] /\ at'[t] = a
        /\ \A u \in Threads \ {t} : at'[u] = at[u] /\ Flies(u)' = Flies(u)
        /\ Flies(t)' = {} /\ Flies(t) = {}
    BY <1>0, <1>6, <2>1, <2>2, Flight DEF M!FreeGet, M!Goes, Flies
  <2>4. UNCHANGED <<kmem, blocks, owned, memfault>>
    BY <1>6 DEF M!FreeGet
  <2>5. MemTypes'
    BY <1>t, <2>3, <2>4 DEF MemTypes
  <2>6. Belongs'
    BY <1>0, <2>2, <2>3, <2>4 DEF Belongs
  <2>7. Listed'
    <3>1. \A u \in Threads : Flies(u)' = Flies(u)
      BY <2>3
    <3> QED BY <1>0, <2>4, <3>1 DEF Listed, Unique
  <2> QED BY <2>5, <2>6, <2>7 DEF MInv
<1>7. ASSUME NEW t \in Threads, M!Del(t) PROVE MInv'
  <2>0. PICK p : p = at[t].ptr
    OBVIOUS
  <2>1. p \in Ptrs /\ p \in owned[t] /\ Flies(t) = {} /\ at[t].op = "del"
    BY <1>0, <1>7, <1>t, <2>0 DEF M!Del, Belongs, Flies
  <2>2. PICK a : a = [op |-> "free", ptr |-> p]
    OBVIOUS
  <2>3. a \in Acts /\ a.op = "free" /\ a.ptr = p
    BY <2>1, <2>2 DEF Acts
  <2>4. /\ at' \in [Threads -> Acts] /\ at'[t] = a
        /\ \A u \in Threads \ {t} : at'[u] = at[u] /\ Flies(u)' = Flies(u)
        /\ Flies(t)' = {p}
    BY <1>0, <1>7, <2>0, <2>2, <2>3, Flight DEF M!Del, M!Goes
  <2>5. PICK k \in DOMAIN blocks : blocks[k].ptr = p
    BY <1>0, <2>1 DEF Listed
  <2>6. M!BlockOf(p) = k
    BY <1>0, <2>5, BlockIs DEF Listed
  <2>7. blocks' \in Seq(Blocks) /\ Removed(blocks', blocks, k)
    BY <1>0, <1>7, <2>0, <2>6, BlockGone DEF M!Del
  <2>8. /\ owned' \in [Threads -> SUBSET Ptrs] /\ owned'[t] = owned[t] \ {p}
        /\ \A u \in Threads \ {t} : owned'[u] = owned[u]
        /\ kmem' = kmem /\ memfault' = memfault
    BY <1>7, <1>t, <2>0 DEF M!Del
  <2>9. MemTypes'
    BY <1>t, <2>4, <2>7, <2>8 DEF MemTypes
  <2>o. \A u \in Threads \ {t} : p \notin owned[u]
    BY <1>0, <2>1 DEF Belongs
  <2>g. \A u \in Threads : p \notin Flies(u)
    BY <1>0, <2>1 DEF Belongs
  <2>10. Belongs'
    <3>1. \A u \in Threads \ {t} : owned'[u] = owned[u] /\ Flies(u)' = Flies(u) /\ at'[u] = at[u]
      BY <2>4, <2>8
    <3>2. owned'[t] \subseteq owned[t] /\ p \notin owned'[t] /\ Flies(t)' = {p} /\ at'[t].op = "free"
      BY <2>3, <2>4, <2>8
    <3> QED BY <1>0, <2>o, <2>g, <3>1, <3>2 DEF Belongs
  <2>11. PICK B0, B1 : B0 = DOMAIN blocks /\ B1 = DOMAIN blocks'
    OBVIOUS
  <2>12. \A n \in DOMAIN blocks' : \E l \in DOMAIN blocks : /\ l # k /\ blocks'[n] = blocks[l]
                                                        /\ ((n < k /\ l = n) \/ (n >= k /\ l = n + 1))
    <3>1. k \in Nat /\ \A n \in DOMAIN blocks' : n \in Nat
      BY <1>t, <2>7
    <3> QED BY <2>7, <3>1 DEF Removed
  <2>13. \A n \in DOMAIN blocks' : blocks'[n].ptr # p
    BY <1>0, <2>5, <2>12 DEF Listed, Unique
  <2>14. Unique'
    <3>1. ASSUME NEW x \in DOMAIN blocks', NEW y \in DOMAIN blocks', blocks'[x].ptr = blocks'[y].ptr PROVE x = y
      <4>1. PICK l \in DOMAIN blocks : /\ l # k /\ blocks'[x] = blocks[l]
                                       /\ ((x < k /\ l = x) \/ (x >= k /\ l = x + 1))
        BY <2>12
      <4>2. PICK m \in DOMAIN blocks : /\ m # k /\ blocks'[y] = blocks[m]
                                       /\ ((y < k /\ m = y) \/ (y >= k /\ m = y + 1))
        BY <2>12
      <4>3. l = m
        BY <1>0, <3>1, <4>1, <4>2 DEF Listed, Unique
      <4>4. k \in Nat /\ x \in Nat /\ y \in Nat
        BY <1>t, <2>7
      <4> QED BY <4>1, <4>2, <4>3, <4>4
    <3> QED BY <3>1 DEF Unique
  <2>15. \A n \in DOMAIN blocks' : /\ blocks'[n].size = kmem'[blocks'[n].ptr]
                                   /\ \E u \in Threads : blocks'[n].ptr \in owned'[u]
    <3>1. ASSUME NEW n \in DOMAIN blocks'
          PROVE  /\ blocks'[n].size = kmem'[blocks'[n].ptr]
                 /\ \E u \in Threads : blocks'[n].ptr \in owned'[u]
      <4>1. PICK l \in DOMAIN blocks : l # k /\ blocks'[n] = blocks[l]
        BY <2>12
      <4>2. blocks[l].ptr # p /\ blocks[l].size = kmem[blocks[l].ptr]
        BY <1>0, <2>5, <4>1 DEF Listed, Unique
      <4>3. PICK u \in Threads : blocks[l].ptr \in owned[u]
        BY <1>0 DEF Listed
      <4> QED BY <2>8, <4>1, <4>2, <4>3
    <3> QED BY <3>1
  <2>16. \A u \in Threads : \A r \in owned'[u] : \E n \in DOMAIN blocks' : blocks'[n].ptr = r
    <3>1. ASSUME NEW u \in Threads, NEW r \in owned'[u] PROVE \E n \in DOMAIN blocks' : blocks'[n].ptr = r
      <4>1. r # p /\ r \in owned[u]
        BY <2>8, <2>o
      <4>2. PICK l \in DOMAIN blocks : blocks[l].ptr = r
        BY <1>0, <4>1 DEF Listed
      <4>3. l # k
        BY <2>5, <4>1, <4>2
      <4> QED BY <2>7, <4>2, <4>3 DEF Removed
    <3> QED BY <3>1
  <2>17. \A r \in Ptrs : kmem'[r] # 0 <=> \E u \in Threads : r \in owned'[u] \/ r \in Flies(u)'
    BY <1>0, <2>1, <2>4, <2>8 DEF Listed
  <2>18. Listed'
    BY <1>0, <2>8, <2>14, <2>15, <2>16, <2>17 DEF Listed
  <2> QED BY <2>9, <2>10, <2>18 DEF MInv
<1>8. ASSUME NEW t \in Threads, M!KFree(t) PROVE MInv'
  <2>0. PICK p : p = at[t].ptr
    OBVIOUS
  <2>1. /\ p \in Ptrs /\ Flies(t) = {p} /\ at[t].op = "free"
        /\ \A u \in Threads : p \notin owned[u] /\ (u # t => p \notin Flies(u))
    BY <1>0, <1>8, <1>t, <2>0 DEF M!KFree, Belongs, Flies, Acts
  <2>2. PICK a : a = M!Rest
    OBVIOUS
  <2>3. a \in Acts /\ a.op = "rest"
    BY <2>2 DEF M!Rest, Acts
  <2>4. /\ at' \in [Threads -> Acts] /\ at'[t] = a
        /\ \A u \in Threads \ {t} : at'[u] = at[u] /\ Flies(u)' = Flies(u)
        /\ Flies(t)' = {}
    BY <1>0, <1>8, <2>2, <2>3, Flight DEF M!KFree, M!Goes
  <2>5. kmem' = [kmem EXCEPT ![p] = 0] /\ blocks' = blocks /\ owned' = owned /\ memfault' = memfault
    BY <1>8, <2>0 DEF M!KFree
  <2>6. MemTypes'
    BY <1>t, <2>4, <2>5 DEF MemTypes
  <2>7. Belongs'
    BY <1>0, <2>3, <2>4, <2>5 DEF Belongs
  <2>8. Unique' /\ \A k \in DOMAIN blocks' : blocks'[k].ptr \in Ptrs \ {p}
    BY <1>0, <1>t, <2>1, <2>5 DEF Listed, Unique
  <2>9. Listed'
    BY SMTT(20), <1>0, <1>t, <2>1, <2>4, <2>5, <2>8 DEF Listed
  <2> QED BY <2>6, <2>7, <2>9 DEF MInv
<1> QED
  BY <1>1, <1>3, <1>4, <1>5, <1>6, <1>7, <1>8 DEF M!Next

\* Every state the kernel port's memory functions reach has the invariant.
LEMMA MemInvariant == ASSUME MaxSize \in Nat PROVE M!Spec => []MInv
<1>1. M!Init => MInv
  <2> SUFFICES ASSUME M!Init PROVE MInv
    OBVIOUS
  <2>1. /\ kmem = [p \in Ptrs |-> 0] /\ blocks = <<>> /\ owned = [t \in Threads |-> {}]
        /\ at = [t \in Threads |-> M!Rest] /\ memfault = "none"
    BY DEF M!Init
  <2>2. M!Rest \in Acts /\ (M!Rest).op = "rest"
    BY DEF M!Rest, Acts
  <2>3. \A t \in Threads : Flies(t) = {} /\ at[t].op = "rest"
    BY <2>1, <2>2 DEF Flies
  <2>4. MemTypes
    BY <2>1, <2>2 DEF MemTypes
  <2>5. Belongs
    BY <2>1, <2>3 DEF Belongs
  <2>6. DOMAIN blocks = {}
    BY <2>1
  <2>7. Listed
    BY <2>1, <2>3, <2>6 DEF Listed, Unique
  <2> QED BY <2>4, <2>5, <2>7 DEF MInv
<1>2. MInv /\ [M!Next]_(M!vars) => MInv'
  BY MemStep
<1> QED BY <1>1, <1>2, PTL DEF M!Spec

\* The list of the kernel port's memory functions holds one block for each pointer
\* in use, with its size, and no other, for any number of threads that allocate,
\* reallocate and free, and whatever allocations fail; and no reallocation copies
\* beyond its memory as long as nobody shrinks a block.
THEOREM MemListExact == ASSUME MaxSize \in Nat PROVE M!Spec => []M!MemExact
<1>1. MInv => M!MemExact
  <2> SUFFICES ASSUME MInv PROVE M!MemExact
    OBVIOUS
  <2>1. MemTypes /\ Listed
    BY DEF MInv
  <2>2. {blocks[k].ptr : k \in DOMAIN blocks} = UNION {owned[t] : t \in Threads}
    BY <2>1 DEF Listed
  <2>3. M!InFlight = UNION {Flies(t) : t \in Threads}
    BY DEF M!InFlight, Flies
  <2>4. Ptrs \ M!Free = (UNION {owned[t] : t \in Threads}) \cup M!InFlight
    <3>1. \A p \in Ptrs : p \in M!Free <=> kmem[p] = 0
      BY DEF M!Free
    <3>2. \A t \in Threads : owned[t] \subseteq Ptrs /\ Flies(t) \subseteq Ptrs
      <4>1. \A t \in Threads : owned[t] \subseteq Ptrs /\ at[t] \in Acts
        BY <2>1 DEF MemTypes
      <4> QED BY <4>1 DEF Flies, Acts
    <3>3. \A p \in Ptrs : p \notin M!Free <=> \E t \in Threads : p \in owned[t] \/ p \in Flies(t)
      BY <2>1, <3>1 DEF Listed
    <3>4. PICK f : f = M!Free
      OBVIOUS
    <3>5. PICK o : o = UNION {owned[t] : t \in Threads}
      OBVIOUS
    <3>6. PICK w : w = UNION {Flies(t) : t \in Threads}
      OBVIOUS
    <3>7. \A p : p \in o <=> \E t \in Threads : p \in owned[t]
      BY <3>5
    <3>8. \A p : p \in w <=> \E t \in Threads : p \in Flies(t)
      BY <3>6
    <3>9. \A p : p \in Ptrs \ f <=> p \in o \cup w
      BY <3>2, <3>3, <3>4, <3>7, <3>8
    <3>10. Ptrs \ f = o \cup w
      BY <3>9
    <3> QED BY <2>3, <3>4, <3>5, <3>6, <3>10
  <2> QED BY <2>1, <2>2, <2>4 DEF M!MemExact, Listed, Unique
<1> QED BY <1>1, MemInvariant, PTL

-----------------------------------------------------------------------------
(* The growing array.                                                      *)

\* Nothing is stored behind the cells there are: it would be lost when the array grows.
AInv ==
  /\ alloced \in Nat /\ len \in 0 .. MaxLen /\ step \in Nat
  /\ stored \in [A!Idx -> Vals \cup {Junk, 0}]
  /\ \A k \in A!Idx : k > alloced => stored[k] = 0
  /\ A!ArrayKeeps

\* zarray_setlength makes the array as long as it is asked to, and loses no cell.
LEMMA Lengthens ==
  ASSUME AInv, arrayfault = "none", MaxLen \in Nat, NEW n \in 0 .. MaxLen, NEW d, d = A!Cells(n),
         NEW c, A!SetLength(n, c), arrayfault' = "none"
  PROVE  /\ alloced' \in Nat /\ len' = n /\ step' = step /\ n <= alloced' /\ alloced <= alloced'
         /\ data' = c /\ DOMAIN d = 1 .. alloced'
         /\ \A k \in 1 .. alloced : d[k] = data[k]
         /\ \A k \in 1 .. alloced' : k > alloced => d[k] = 0
<1>1. alloced \in Nat /\ step \in Nat /\ n \in Nat /\ DOMAIN data = 1 .. alloced
  BY DEF AInv, A!ArrayKeeps
<1>3. PICK g : g = A!Grown(n)
  OBVIOUS
<1>4. alloced <= n => g \in Nat /\ g >= n /\ g >= alloced
  BY <1>1, <1>3 DEF A!Grown
<1>5. /\ alloced' = (IF alloced > n THEN alloced ELSE g) /\ len' = n /\ step' = step /\ data' = c
      /\ d = IF alloced > n THEN data ELSE [k \in 1 .. g |-> IF k <= alloced THEN data[k] ELSE 0]
  BY <1>3 DEF A!SetLength, A!Cells
<1>6. CASE alloced > n
  BY <1>1, <1>5, <1>6
<1>7. CASE ~(alloced > n)
  <2>1. alloced' = g /\ d = [k \in 1 .. g |-> IF k <= alloced THEN data[k] ELSE 0] /\ alloced <= n
    BY <1>1, <1>5, <1>7
  <2> QED BY <1>1, <1>4, <1>5, <2>1
<1> QED BY <1>6, <1>7

\* Every call keeps what was stored.
LEMMA ArrayStep ==
  ASSUME Steps \subseteq Nat, MaxLen \in Nat, AInv, [A!Next]_(A!vars)
  PROVE  arrayfault' # "none" \/ AInv'
<1> SUFFICES ASSUME arrayfault' = "none" PROVE AInv'
  OBVIOUS
<1>0. /\ alloced \in Nat /\ len \in 0 .. MaxLen /\ step \in Nat
      /\ stored \in [A!Idx -> Vals \cup {Junk, 0}]
      /\ \A k \in A!Idx : k > alloced => stored[k] = 0
      /\ A!Idx = 1 .. MaxLen
  BY DEF AInv, A!Idx
<1>1. CASE UNCHANGED (A!vars)
  BY <1>1 DEF A!vars, AInv, A!ArrayKeeps, A!Idx
<1>2. CASE A!Next
  <2>0. arrayfault = "none"
    BY <1>2 DEF A!Next
  <2>1. /\ len <= alloced /\ DOMAIN data = 1 .. alloced
        /\ \A k \in A!Idx : k <= alloced => data[k] = stored[k]
    BY <2>0 DEF AInv, A!ArrayKeeps
  <2>2. ASSUME NEW n \in 0 .. MaxLen, A!SetLength(n, A!Cells(n)), stored' = stored PROVE AInv'
    <3>1. PICK d : d = A!Cells(n)
      OBVIOUS
    <3>2. /\ alloced' \in Nat /\ len' = n /\ step' = step /\ n <= alloced' /\ alloced <= alloced'
          /\ data' = d /\ DOMAIN d = 1 .. alloced'
          /\ \A k \in 1 .. alloced : d[k] = data[k]
          /\ \A k \in 1 .. alloced' : k > alloced => d[k] = 0
      BY <2>0, <2>2, <3>1, Lengthens
    <3>3. ASSUME NEW k \in A!Idx, k <= alloced'
          PROVE  data'[k] = stored[k]
      BY <1>0, <2>1, <3>2, <3>3
    <3>4. A!ArrayKeeps'
      BY <2>2, <3>2, <3>3 DEF A!ArrayKeeps, A!Idx
    <3> QED BY <1>0, <2>2, <3>2, <3>4 DEF AInv, A!Idx
  <2>3. ASSUME NEW v \in Vals, A!Increase(v) PROVE AInv'
    <3>1. PICK d : d = A!Cells(len + 1)
      OBVIOUS
    <3>2. PICK c : c = [d EXCEPT ![len + 1] = v]
      OBVIOUS
    <3>3. len + 1 \in 1 .. MaxLen /\ A!SetLength(len + 1, c) /\ stored' = [stored EXCEPT ![len + 1] = v]
      BY <1>0, <2>3, <3>1, <3>2 DEF A!Increase
    <3>4. /\ alloced' \in Nat /\ len' = len + 1 /\ step' = step /\ len + 1 <= alloced' /\ alloced <= alloced'
          /\ data' = c /\ DOMAIN d = 1 .. alloced'
          /\ \A k \in 1 .. alloced : d[k] = data[k]
          /\ \A k \in 1 .. alloced' : k > alloced => d[k] = 0
      BY <1>0, <2>0, <3>1, <3>3, Lengthens
    <3>5. /\ DOMAIN c = 1 .. alloced' /\ c[len + 1] = v
          /\ \A k \in 1 .. alloced' : k # len + 1 => c[k] = d[k]
      BY <1>0, <3>2, <3>3, <3>4
    <3>6. /\ stored' \in [A!Idx -> Vals \cup {Junk, 0}] /\ stored'[len + 1] = v
          /\ \A k \in A!Idx : k # len + 1 => stored'[k] = stored[k]
      BY <1>0, <3>3
    <3>7. ASSUME NEW k \in A!Idx, k <= alloced'
          PROVE  data'[k] = stored'[k]
      <4>1. CASE k = len + 1
        BY <3>4, <3>5, <3>6, <4>1
      <4>2. CASE k # len + 1
        BY <1>0, <2>1, <3>4, <3>5, <3>6, <3>7, <4>2
      <4> QED BY <4>1, <4>2
    <3>8. A!ArrayKeeps'
      BY <3>4, <3>5, <3>7 DEF A!ArrayKeeps, A!Idx
    <3>9. \A k \in A!Idx : k > alloced' => stored'[k] = 0
      BY <1>0, <3>4, <3>6
    <3> QED BY <1>0, <3>3, <3>4, <3>6, <3>8, <3>9 DEF AInv, A!Idx
  <2>4. ASSUME NEW k0 \in A!Idx, NEW v \in Vals, A!Store(k0, v) PROVE AInv'
    <3>1. /\ k0 \in 1 .. alloced /\ data' = [data EXCEPT ![k0] = v] /\ stored' = [stored EXCEPT ![k0] = v]
          /\ UNCHANGED <<alloced, len, step>>
      BY <1>0, <2>1, <2>4 DEF A!Store
    <3>2. /\ stored' \in [A!Idx -> Vals \cup {Junk, 0}] /\ stored'[k0] = v /\ data'[k0] = v
          /\ DOMAIN data' = 1 .. alloced
          /\ \A k \in A!Idx \ {k0} : stored'[k] = stored[k] /\ (k <= alloced => data'[k] = data[k])
      BY <1>0, <2>1, <3>1
    <3>3. ASSUME NEW k \in A!Idx, k <= alloced
          PROVE  data'[k] = stored'[k]
      <4>1. CASE k = k0
        BY <3>2, <4>1
      <4>2. CASE k # k0
        BY <2>1, <3>2, <3>3, <4>2
      <4> QED BY <4>1, <4>2
    <3>4. A!ArrayKeeps'
      BY <2>1, <3>1, <3>2, <3>3 DEF A!ArrayKeeps, A!Idx
    <3>5. \A k \in A!Idx : k > alloced => stored'[k] = 0
      BY <1>0, <3>1, <3>2
    <3> QED BY <1>0, <3>1, <3>2, <3>4, <3>5 DEF AInv, A!Idx
  <2>5. CASE A!Decrease
    <3>1. len # 0 /\ A!SetLength(len - 1, A!Cells(len - 1)) /\ stored' = stored
      BY <2>5 DEF A!Decrease
    <3>2. len - 1 \in 0 .. MaxLen
      BY <1>0, <3>1
    <3> QED BY <2>2, <3>1, <3>2
  <2> QED BY <1>2, <2>2, <2>3, <2>4, <2>5 DEF A!Next, A!Resize
<1> QED BY <1>1, <1>2
\* Once the array has hit a fault it takes no step.
AKeep == arrayfault = "none" => AInv

\* Every state the growing array reaches keeps what was stored.
LEMMA ArrayInvariant ==
  ASSUME FirstSizes \subseteq Nat, Steps \subseteq Nat, MaxLen \in Nat
  PROVE  A!Spec => []AKeep
<1>1. A!Init => AKeep
  <2> SUFFICES ASSUME A!Init PROVE AInv
    BY DEF AKeep
  <2>1. PICK size \in FirstSizes :
          /\ alloced = (IF size = 0 THEN 1 ELSE size)
          /\ data = [k \in 1 .. alloced |-> Junk]
          /\ len = 0 /\ step \in Steps
          /\ stored = [k \in A!Idx |-> IF k <= alloced THEN Junk ELSE 0]
    BY DEF A!Init
  <2>2. alloced \in Nat /\ len \in 0 .. MaxLen /\ step \in Nat /\ len <= alloced
    BY <2>1
  <2>3. DOMAIN data = 1 .. alloced /\ \A k \in 1 .. alloced : data[k] = Junk
    BY <2>1
  <2>4. stored \in [A!Idx -> Vals \cup {Junk, 0}] /\ \A k \in A!Idx : stored[k] = IF k <= alloced THEN Junk ELSE 0
    BY <2>1
  <2>5. \A k \in A!Idx : k <= alloced => k \in 1 .. alloced
    BY <2>2 DEF A!Idx
  <2>6. A!ArrayKeeps
    BY <2>2, <2>3, <2>4, <2>5 DEF A!ArrayKeeps
  <2>7. \A k \in A!Idx : k > alloced => stored[k] = 0
    BY <2>2, <2>4 DEF A!Idx
  <2> QED BY <2>2, <2>4, <2>6, <2>7 DEF AInv
<1>2. AKeep /\ [A!Next]_(A!vars) => AKeep'
  <2> SUFFICES ASSUME AKeep, [A!Next]_(A!vars) PROVE AKeep'
    OBVIOUS
  <2>1. CASE arrayfault = "none"
    BY <2>1, ArrayStep DEF AKeep
  <2>2. CASE arrayfault # "none"
    BY <2>2 DEF AKeep, A!Next, A!vars
  <2> QED BY <2>1, <2>2
<1> QED BY <1>1, <1>2, PTL DEF A!Spec

\* However the array grows and shrinks and whatever is stored in it, for any length
\* and any sizes and steps it is made with: its cells are there, each holds what was
\* last stored in it, and those that growth made and nobody has stored in are clear;
\* until memory runs out or an assertion stops the program.
THEOREM ArrayCellsKept ==
  ASSUME FirstSizes \subseteq Nat, Steps \subseteq Nat, MaxLen \in Nat
  PROVE  A!Spec => []A!ArrayKeeps
<1>1. AKeep => A!ArrayKeeps
  BY DEF AKeep, AInv, A!ArrayKeeps
<1> QED BY <1>1, ArrayInvariant, PTL

\* An array and the list of memory blocks, whatever their users do: no cell loses
\* what was stored in it, and no block its place in the list.
THEOREM HeapIsSound ==
  ASSUME FirstSizes \subseteq Nat, Steps \subseteq Nat, MaxLen \in Nat, MaxSize \in Nat
  PROVE  M!Spec /\ A!Spec => []HeapSound
<1>1. A!ArrayKeeps /\ M!MemExact => HeapSound
  BY DEF HeapSound
<1> QED BY <1>1, MemListExact, ArrayCellsKept, PTL

-----------------------------------------------------------------------------
(* The registry.                                                           *)

\* What NULL, a freed node and a lookup are, and that each component has a name.
Named ==
  /\ NameOf \in [Comps -> Names]
  /\ None \notin Comps /\ None # "freed" /\ "freed" \notin Comps
  /\ None \notin [name : Names, node : Comps \cup {None, "freed"}]

\* In a sequence of components with different names, the position of one.
Different(s) == \A k, n \in DOMAIN s : NameOf[s[k]] = NameOf[s[n]] => k = n

\* zcrt_hash_lookup finds the one node of the name, or none.
LEMMA NodeIs ==
  ASSUME NEW s \in Seq(Comps), Different(s), NEW n
  PROVE  \/ /\ R!NodeOf(s, n) = 0 /\ \A k \in DOMAIN s : NameOf[s[k]] # n
            /\ R!Holder(s, n) = None
         \/ \E k \in DOMAIN s : /\ k # 0 /\ R!NodeOf(s, n) = k /\ NameOf[s[k]] = n
                                /\ R!Holder(s, n) = s[k]
<1> DEFINE I == {l \in 1 .. Len(s) : NameOf[s[l]] = n}
<1>1. DOMAIN s = 1 .. Len(s) /\ Len(s) \in Nat
  OBVIOUS
<1>2. R!NodeOf(s, n) = IF I # {} THEN R!Min(I) ELSE 0
  BY DEF R!NodeOf, R!SelectInSeq
<1>3. CASE I = {}
  <2>1. R!NodeOf(s, n) = 0
    BY <1>2, <1>3
  <2> QED BY <1>1, <1>3, <2>1 DEF R!Holder
<1>4. ASSUME NEW k \in I PROVE k \in DOMAIN s /\ k # 0 /\ R!NodeOf(s, n) = k /\ NameOf[s[k]] = n
  <2>1. I = {k} /\ k \in Int
    BY <1>1, <1>4 DEF Different
  <2>2. R!NodeOf(s, n) = R!Min(I)
    BY <1>2, <2>1
  <2>3. k \in DOMAIN s /\ k # 0 /\ NameOf[s[k]] = n
    BY <1>1, <1>4
  <2> HIDE DEF I
  <2>4. R!Min(I) = k
    BY <2>1 DEF R!Min
  <2> QED BY <2>2, <2>3, <2>4
<1>5. CASE I # {}
  <2>1. PICK k : k \in I
    BY <1>5
  <2> HIDE DEF I
  <2>2. k \in DOMAIN s /\ k # 0 /\ R!NodeOf(s, n) = k /\ NameOf[s[k]] = n
    BY <1>4, <2>1
  <2>3. R!Holder(s, n) = s[k]
    BY <2>2 DEF R!Holder
  <2> QED BY <2>2, <2>3
<1> HIDE DEF I
<1> QED BY <1>3, <1>5

\* Taking one element out leaves the others in their order.
SameOrder(r, s, k) ==
  \A m, n \in DOMAIN s : m # k /\ n # k /\ m <= n =>
    \E a, b \in DOMAIN r : a <= b /\ r[a] = s[m] /\ r[b] = s[n]

\* Removed says so.
LEMMA OrderKept ==
  ASSUME NEW S, NEW s \in Seq(S), NEW k \in 1 .. Len(s), NEW r, Removed(r, s, k)
  PROVE  SameOrder(r, s, k)
<1> SUFFICES ASSUME NEW m \in DOMAIN s, NEW n \in DOMAIN s, m # k, n # k, m <= n
             PROVE  \E a, b \in DOMAIN r : a <= b /\ r[a] = s[m] /\ r[b] = s[n]
  BY DEF SameOrder
<1>1. PICK l \in Nat : l = Len(s)
  OBVIOUS
<1>2. DOMAIN s = 1 .. l /\ DOMAIN r = 1 .. l - 1
  BY <1>1 DEF Removed
<1>3. \A j \in DOMAIN s : j < k => j \in DOMAIN r /\ r[j] = s[j]
  <2> SUFFICES ASSUME NEW j \in DOMAIN s, j < k PROVE j \in DOMAIN r /\ r[j] = s[j]
    OBVIOUS
  <2>1. j \in DOMAIN r /\ ~(j >= k)
    BY <1>2
  <2> QED BY <2>1 DEF Removed
<1>4. \A j \in DOMAIN s : j > k => j - 1 \in DOMAIN r /\ r[j - 1] = s[j]
  <2> SUFFICES ASSUME NEW j \in DOMAIN s, j > k PROVE j - 1 \in DOMAIN r /\ r[j - 1] = s[j]
    OBVIOUS
  <2>1. j - 1 \in DOMAIN r /\ ~(j - 1 < k) /\ (j - 1) + 1 = j
    BY <1>2
  <2>2. r[j - 1] = s[(j - 1) + 1]
    BY <2>1 DEF Removed
  <2> QED BY <2>1, <2>2
<1>5. CASE m < k /\ n < k
  BY <1>3, <1>5
<1>6. CASE m < k /\ n > k
  <2>1. m <= n - 1
    BY <1>2, <1>6
  <2> QED BY <1>3, <1>4, <1>6, <2>1
<1>7. CASE m > k
  <2>1. n > k /\ m - 1 <= n - 1
    BY <1>2, <1>7
  <2> QED BY <1>4, <1>7, <2>1
<1> QED BY <1>2, <1>5, <1>6, <1>7

\* A node in front of a sequence.
LEMMA PutInFront ==
  ASSUME NEW S, NEW s \in Seq(S), NEW c \in S, NEW r, r = <<c>> \o s
  PROVE  /\ r \in Seq(S) /\ r[1] = c /\ 1 \in DOMAIN r
         /\ \A k \in DOMAIN s : k + 1 \in DOMAIN r /\ r[k + 1] = s[k]
         /\ \A k \in DOMAIN r : k # 1 => k - 1 \in DOMAIN s /\ r[k] = s[k - 1]
<1>1. PICK h : h = <<c>>
  OBVIOUS
<1>2. h \in Seq(S) /\ Len(h) = 1 /\ h[1] = c /\ Len(s) \in Nat /\ DOMAIN s = 1 .. Len(s)
  BY <1>1
<1>3. /\ r \in Seq(S) /\ Len(r) = 1 + Len(s)
      /\ \A k \in 1 .. 1 + Len(s) : r[k] = IF k <= 1 THEN h[k] ELSE s[k - 1]
  BY <1>1, <1>2
<1>4. DOMAIN r = 1 .. 1 + Len(s)
  BY <1>3
<1> QED BY <1>2, <1>3, <1>4

RegTypes ==
  /\ index \in [R!Keys -> Seq(Comps)] /\ count \in Nat /\ IsFiniteSet(R!Listed)
  /\ look \in {None} \cup [name : Names, node : Comps \cup {None, "freed"}]
  /\ found \in {None} \cup [name : Names, node : Comps \cup {None, "freed"}]
  /\ since \subseteq R!Listed

\* Each node is in the chain of its key, each name at most once in it.
Chained ==
  /\ \A k \in R!Keys : \A n \in DOMAIN index[k] : KeyOf[NameOf[index[k][n]]] = k
  /\ \A k \in R!Keys : Different(index[k])
  /\ count = Cardinality(R!Listed)

\* A lookup under way stands in the chain of its name, at or before each component
\* of that name that was there when it began and still is.
Ahead ==
  look # None =>
    LET s == index[KeyOf[look.name]]
    IN /\ look.node \in Comps => \E m \in DOMAIN s : s[m] = look.node
       /\ look.node # "freed" =>
            \A c \in since : NameOf[c] = look.name =>
              look.node # None /\ \E m, n \in DOMAIN s : m <= n /\ s[m] = look.node /\ s[n] = c

RInv == RegTypes /\ Chained /\ Ahead /\ R!LookupFinds

\* What is in the table, chain by chain.
LEMMA ListedIs ==
  ASSUME RegTypes, Chained, Named, NEW c
  PROVE  /\ c \in R!Listed <=> \E k \in R!Keys : \E n \in DOMAIN index[k] : index[k][n] = c
         /\ c \in R!Listed => /\ c \in Comps /\ NameOf[c] \in Names /\ KeyOf[NameOf[c]] \in R!Keys
                              /\ \E n \in DOMAIN index[KeyOf[NameOf[c]]] : index[KeyOf[NameOf[c]]][n] = c
<1>1. c \in R!Listed <=> \E k \in R!Keys : \E n \in DOMAIN index[k] : index[k][n] = c
  BY DEF R!Listed, R!Range
<1>2. \A k \in R!Keys : \A n \in DOMAIN index[k] : index[k][n] \in Comps
  BY DEF RegTypes
<1> QED BY <1>1, <1>2 DEF Chained, Named, R!Keys

\* zcrt_hash_add of a name that is not there.
LEMMA RegisterStep ==
  ASSUME Named, RInv, NEW c \in Comps, R!Register(c)
  PROVE  /\ RInv'
         /\ \A n \in Names : R!Holder(index[KeyOf[n]], n)' =
              IF n = NameOf[c] THEN c ELSE R!Holder(index[KeyOf[n]], n)
         /\ R!Holder(index[KeyOf[NameOf[c]]], NameOf[c]) = None
<1>0. RegTypes /\ Chained /\ Ahead /\ R!LookupFinds
  BY DEF RInv
<1>1. PICK q : q = NameOf[c]
  OBVIOUS
<1>2. PICK k : k = KeyOf[q]
  OBVIOUS
<1>3. q \in Names /\ k \in R!Keys
  BY <1>1, <1>2 DEF Named, R!Keys
<1>4. PICK s : s = index[k]
  OBVIOUS
<1>5. s \in Seq(Comps) /\ Different(s) /\ \A n \in DOMAIN s : KeyOf[NameOf[s[n]]] = k
  BY <1>0, <1>3, <1>4 DEF RegTypes, Chained
<1>6. R!NodeOf(s, q) = 0
  BY <1>1, <1>2, <1>4 DEF R!Register, R!Registered
<1>7. R!Holder(s, q) = None /\ \A n \in DOMAIN s : NameOf[s[n]] # q
  BY <1>5, <1>6, NodeIs
<1>8. PICK r : r = <<c>> \o s
  OBVIOUS
<1>9. /\ r \in Seq(Comps) /\ r[1] = c /\ 1 \in DOMAIN r
      /\ \A n \in DOMAIN s : n + 1 \in DOMAIN r /\ r[n + 1] = s[n]
      /\ \A n \in DOMAIN r : n # 1 => n - 1 \in DOMAIN s /\ r[n] = s[n - 1]
  BY <1>5, <1>8, PutInFront
<1>10. /\ index' = [index EXCEPT ![k] = r] /\ count' = count + 1
       /\ UNCHANGED <<look, found, since, regfault>>
  BY <1>1, <1>2, <1>4, <1>8 DEF R!Register, R!HashAdd
<1>11. /\ index' \in [R!Keys -> Seq(Comps)] /\ index'[k] = r
       /\ \A l \in R!Keys \ {k} : index'[l] = index[l]
  BY <1>0, <1>3, <1>9, <1>10 DEF RegTypes
<1>12. c \notin R!Listed
  <2>1. \A n \in DOMAIN s : s[n] # c
    BY <1>1, <1>7
  <2> QED BY <1>0, <1>1, <1>2, <1>4, <2>1, ListedIs
<1>13. R!Listed' = R!Listed \cup {c}
  <2>1. \A x : x \in R!Listed <=> \E l \in R!Keys : \E n \in DOMAIN index[l] : index[l][n] = x
    BY DEF R!Listed, R!Range
  <2>2. \A x : x \in R!Listed' <=> \E l \in R!Keys : \E n \in DOMAIN index'[l] : index'[l][n] = x
    BY DEF R!Listed, R!Range
  <2>3. ASSUME NEW x, x \in R!Listed PROVE x \in R!Listed'
    <3>0. PICK l \in R!Keys : \E n \in DOMAIN index[l] : index[l][n] = x
      BY <2>1, <2>3
    <3>1. PICK n \in DOMAIN index[l] : index[l][n] = x
      BY <3>0
    <3>2. CASE l = k
      <4>1. n \in DOMAIN s /\ s[n] = x
        BY <1>4, <3>1, <3>2
      <4>2. n + 1 \in DOMAIN r /\ r[n + 1] = x
        BY <1>9, <4>1
      <4> QED BY <1>3, <1>11, <2>2, <4>2
    <3>3. CASE l # k
      BY <1>11, <2>2, <3>1, <3>3
    <3> QED BY <3>2, <3>3
  <2>4. c \in R!Listed'
    BY <1>3, <1>9, <1>11, <2>2
  <2>5. ASSUME NEW x, x \in R!Listed' PROVE x \in R!Listed \/ x = c
    <3>0. PICK l \in R!Keys : \E n \in DOMAIN index'[l] : index'[l][n] = x
      BY <2>2, <2>5
    <3>1. PICK n \in DOMAIN index'[l] : index'[l][n] = x
      BY <3>0
    <3>2. CASE l = k
      <4>1. n \in DOMAIN r /\ r[n] = x
        BY <1>11, <3>1, <3>2
      <4>2. CASE n = 1
        BY <1>9, <4>1, <4>2
      <4>3. CASE n # 1
        <5>1. n - 1 \in DOMAIN s /\ s[n - 1] = x
          BY <1>9, <4>1, <4>3
        <5> QED BY <1>3, <1>4, <2>1, <5>1
      <4> QED BY <4>2, <4>3
    <3>3. CASE l # k
      BY <1>11, <2>1, <3>1, <3>3
    <3> QED BY <3>2, <3>3
  <2> QED BY <2>3, <2>4, <2>5
<1>14. RegTypes' /\ count' = Cardinality(R!Listed')
  <2>1. PICK L : L = R!Listed
    OBVIOUS
  <2>2. IsFiniteSet(L) /\ c \notin L /\ count = Cardinality(L)
    BY <1>0, <1>12, <2>1 DEF RegTypes, Chained
  <2>3. IsFiniteSet(L \cup {c}) /\ Cardinality(L \cup {c}) = Cardinality(L) + 1
    BY <2>2, FS_AddElement
  <2>4. R!Listed' = L \cup {c}
    BY <1>13, <2>1
  <2> QED BY <1>0, <1>10, <1>11, <2>1, <2>2, <2>3, <2>4 DEF RegTypes
<1>15. Different(r)
  <2> SUFFICES ASSUME NEW m \in DOMAIN r, NEW n \in DOMAIN r, NameOf[r[m]] = NameOf[r[n]] PROVE m = n
    BY DEF Different
  <2>0. m \in Int /\ n \in Int
    BY <1>9
  <2>1. CASE m = 1 \/ n = 1
    BY <1>1, <1>7, <1>9, <2>1
  <2>2. CASE m # 1 /\ n # 1
    <3>1. m - 1 \in DOMAIN s /\ n - 1 \in DOMAIN s /\ NameOf[s[m - 1]] = NameOf[s[n - 1]]
      BY <1>9, <2>2
    <3>2. m - 1 = n - 1
      BY <1>5, <3>1 DEF Different
    <3> QED BY <2>0, <3>2
  <2> QED BY <2>1, <2>2
<1>16. Chained'
  <2>1. ASSUME NEW n \in DOMAIN r PROVE KeyOf[NameOf[r[n]]] = k
    BY <1>1, <1>2, <1>5, <1>9
  <2>2. ASSUME NEW l \in R!Keys, NEW n \in DOMAIN index'[l] PROVE KeyOf[NameOf[index'[l][n]]] = l
    <3>1. CASE l = k
      BY <1>11, <2>1, <2>2, <3>1
    <3>2. CASE l # k
      BY <1>0, <1>11, <2>2, <3>2 DEF Chained
    <3> QED BY <3>1, <3>2
  <2>3. ASSUME NEW l \in R!Keys PROVE Different(index'[l])
    <3>1. CASE l = k
      BY <1>11, <1>15, <3>1
    <3>2. CASE l # k
      BY <1>0, <1>11, <3>2 DEF Chained
    <3> QED BY <3>1, <3>2
  <2> QED BY <1>14, <2>2, <2>3 DEF Chained, Different
<1>17. Ahead'
  <2> SUFFICES ASSUME look # None PROVE Ahead'
    BY <1>10 DEF Ahead
  <2>1. PICK l : l = KeyOf[look.name]
    OBVIOUS
  <2>2. l \in R!Keys /\ look' = look /\ since' = since
    BY <1>0, <1>10, <2>1 DEF RegTypes, R!Keys
  <2>3. ASSUME NEW m \in DOMAIN index[l], NEW n \in DOMAIN index[l], m <= n
        PROVE  \E a, b \in DOMAIN index'[l] : a <= b /\ index'[l][a] = index[l][m] /\ index'[l][b] = index[l][n]
    <3>1. CASE l = k
      <4>1. m \in DOMAIN s /\ n \in DOMAIN s /\ m + 1 <= n + 1
        BY <1>4, <1>5, <2>3, <3>1
      <4> QED BY <1>4, <1>9, <1>11, <3>1, <4>1
    <3>2. CASE l # k
      BY <1>11, <2>2, <2>3, <3>2
    <3> QED BY <3>1, <3>2
  <2>4. \A m \in DOMAIN index[l] : m <= m
    BY <1>0, <2>2 DEF RegTypes
  <2>5. look.node \in Comps => \E a \in DOMAIN index'[l] : index'[l][a] = look.node
    BY <1>0, <2>1, <2>3, <2>4 DEF Ahead
  <2>6. look.node # "freed" =>
          \A x \in since : NameOf[x] = look.name =>
            look.node # None /\ \E a, b \in DOMAIN index'[l] : a <= b /\ index'[l][a] = look.node /\ index'[l][b] = x
    BY <1>0, <2>1, <2>3 DEF Ahead
  <2> QED BY <2>1, <2>2, <2>5, <2>6 DEF Ahead
<1>18. R!LookupFinds'
  BY <1>0, <1>10 DEF R!LookupFinds
<1>19. ASSUME NEW n \in Names
       PROVE  R!Holder(index[KeyOf[n]], n)' = IF n = NameOf[c] THEN c ELSE R!Holder(index[KeyOf[n]], n)
  <2>1. PICK l : l = KeyOf[n]
    OBVIOUS
  <2>2. l \in R!Keys /\ R!Holder(index[KeyOf[n]], n)' = R!Holder(index'[l], n)
    BY <2>1 DEF R!Keys, R!Holder
  <2>3. CASE l # k
    BY <1>1, <1>2, <1>11, <2>1, <2>2, <2>3
  <2>4. CASE l = k
    <3>1. R!Holder(index[KeyOf[n]], n)' = R!Holder(r, n) /\ R!Holder(index[KeyOf[n]], n) = R!Holder(s, n)
      BY <1>4, <1>11, <2>1, <2>2, <2>4
    <3>2. CASE n = q
      <4>1. PICK m \in DOMAIN r : NameOf[r[m]] = n /\ R!Holder(r, n) = r[m]
        BY <1>1, <1>9, <1>15, <3>2, NodeIs
      <4>2. m = 1
        BY <1>1, <1>9, <1>15, <3>2, <4>1 DEF Different
      <4> QED BY <1>1, <1>9, <3>1, <3>2, <4>1, <4>2
    <3>3. CASE n # q
      <4>1. CASE R!Holder(s, n) = None /\ \A m \in DOMAIN s : NameOf[s[m]] # n
        <5>1. \A m \in DOMAIN r : NameOf[r[m]] # n
          BY <1>1, <1>9, <3>3, <4>1
        <5> QED BY <1>1, <1>9, <1>15, <3>1, <3>3, <4>1, <5>1, NodeIs
      <4>2. ASSUME NEW m \in DOMAIN s, NameOf[s[m]] = n, R!Holder(s, n) = s[m] PROVE R!Holder(r, n) = s[m]
        <5>1. m + 1 \in DOMAIN r /\ NameOf[r[m + 1]] = n /\ r[m + 1] = s[m]
          BY <1>9, <4>2
        <5>2. PICK j \in DOMAIN r : NameOf[r[j]] = n /\ R!Holder(r, n) = r[j]
          BY <1>9, <1>15, <5>1, NodeIs
        <5>3. j = m + 1
          BY <1>15, <5>1, <5>2 DEF Different
        <5> QED BY <5>1, <5>2, <5>3
      <4>3. \/ R!Holder(s, n) = None /\ \A m \in DOMAIN s : NameOf[s[m]] # n
            \/ \E m \in DOMAIN s : NameOf[s[m]] = n /\ R!Holder(s, n) = s[m]
        BY <1>5, NodeIs
      <4> QED BY <1>1, <3>1, <3>3, <4>1, <4>2, <4>3
    <3> QED BY <3>2, <3>3
  <2> QED BY <2>3, <2>4
<1> QED BY <1>1, <1>2, <1>4, <1>7, <1>14, <1>16, <1>17, <1>18, <1>19 DEF RInv

\* zcrt_hash_remove takes out the holder of the name, or nothing.
LEMMA UnregisterStep ==
  ASSUME Named, RInv, NEW c \in Comps, R!Unregister(c)
  PROVE  /\ RInv'
         /\ \A n \in Names : R!Holder(index[KeyOf[n]], n)' =
              IF n = NameOf[c] THEN None ELSE R!Holder(index[KeyOf[n]], n)
<1>0. RegTypes /\ Chained /\ Ahead /\ R!LookupFinds
  BY DEF RInv
<1>1. PICK q : q = NameOf[c]
  OBVIOUS
<1>2. PICK k : k = KeyOf[q]
  OBVIOUS
<1>3. q \in Names /\ k \in R!Keys
  BY <1>1, <1>2 DEF Named, R!Keys
<1>4. PICK s : s = index[k]
  OBVIOUS
<1>5. s \in Seq(Comps) /\ Different(s) /\ \A n \in DOMAIN s : KeyOf[NameOf[s[n]]] = k
  BY <1>0, <1>3, <1>4 DEF RegTypes, Chained
<1>6. PICK r : r = R!HashRemove(s, q)
  OBVIOUS
<1>7. PICK gone : gone = R!Range(s) \ R!Range(r)
  OBVIOUS
<1>8. /\ index' = [index EXCEPT ![k] = r] /\ count' = count - (Len(s) - Len(r))
      /\ since' = since \ gone
      /\ look' = IF look # None /\ look.node \in gone THEN [look EXCEPT !.node = "freed"] ELSE look
      /\ UNCHANGED <<found, regfault>>
  BY <1>1, <1>2, <1>4, <1>6, <1>7 DEF R!Unregister
<1>9. CASE R!NodeOf(s, q) = 0
  <2>1. r = s /\ gone = {} /\ R!Holder(s, q) = None
    BY <1>6, <1>7, <1>9 DEF R!HashRemove, R!Holder
  <2>2. Len(s) \in Nat /\ count \in Nat
    BY <1>0, <1>5 DEF RegTypes
  <2>3. index' = index /\ count' = count /\ UNCHANGED <<look, found, since>>
    BY <1>0, <1>4, <1>8, <2>1, <2>2 DEF RegTypes
  <2>4. RInv'
    BY <1>0, <2>3 DEF RInv, RegTypes, Chained, Ahead, R!LookupFinds, R!Listed, R!Range, Different
  <2>5. \A n \in Names : R!Holder(index[KeyOf[n]], n)' = R!Holder(index[KeyOf[n]], n)
    BY <2>3 DEF R!Holder
  <2>6. R!Holder(index[KeyOf[q]], q) = None
    BY <1>2, <1>4, <2>1
  <2> QED BY <1>1, <2>4, <2>5, <2>6
<1>10. CASE R!NodeOf(s, q) # 0
  <2>1. PICK p \in DOMAIN s : p # 0 /\ R!NodeOf(s, q) = p /\ NameOf[s[p]] = q
    BY <1>5, <1>10, NodeIs
  <2>2. r = Without(s, p)
    BY <1>6, <1>10, <2>1 DEF R!HashRemove, R!RemoveAt, Without
  <2>3. r \in Seq(Comps) /\ Len(r) = Len(s) - 1 /\ Removed(r, s, p)
    <3>1. p \in 1 .. Len(s)
      BY <1>5, <2>1
    <3> QED BY <1>5, <2>2, <3>1, RemoveOne
  <2>19. SameOrder(r, s, p)
    <3>1. p \in 1 .. Len(s)
      BY <1>5, <2>1
    <3> QED BY <1>5, <2>3, <3>1, OrderKept
  <2>4. PICK d : d = s[p]
    OBVIOUS
  <2>5. d \in Comps /\ NameOf[d] = q
    BY <1>5, <2>1, <2>4
  <2>6. \A n \in DOMAIN r : \E m \in DOMAIN s : m # p /\ r[n] = s[m] /\ (m = n \/ m = n + 1)
    <3> SUFFICES ASSUME NEW n \in DOMAIN r
                 PROVE  \E m \in DOMAIN s : m # p /\ r[n] = s[m] /\ (m = n \/ m = n + 1)
      OBVIOUS
    <3>1. n \in Int /\ p \in Int
      BY <1>5, <2>1, <2>3
    <3>2. CASE n \in DOMAIN s /\ n < p /\ r[n] = s[n]
      BY <3>1, <3>2
    <3>3. CASE n + 1 \in DOMAIN s /\ n >= p /\ r[n] = s[n + 1]
      <4>1. n + 1 # p
        BY <3>1, <3>3
      <4> QED BY <3>3, <4>1
    <3> QED BY <2>3, <3>2, <3>3 DEF Removed
  <2>7. /\ \A n \in DOMAIN r : NameOf[r[n]] # q /\ KeyOf[NameOf[r[n]]] = k
        /\ \A n \in DOMAIN s : n # p => NameOf[s[n]] # q
    <3>1. \A n \in DOMAIN s : n # p => NameOf[s[n]] # q
      BY <1>5, <2>1 DEF Different
    <3> QED BY <1>5, <2>6, <3>1
  <2>8. gone = {d}
    <3>1. \A x : x \in R!Range(s) <=> \E n \in DOMAIN s : s[n] = x
      BY DEF R!Range
    <3>2. \A x : x \in R!Range(r) <=> \E n \in DOMAIN r : r[n] = x
      BY DEF R!Range
    <3>3. d \in R!Range(s) /\ d \notin R!Range(r)
      BY <2>1, <2>4, <2>5, <2>7, <3>1, <3>2
    <3>4. ASSUME NEW x, x \in R!Range(s), x # d PROVE x \in R!Range(r)
      <4>1. PICK n \in DOMAIN s : s[n] = x
        BY <3>1, <3>4
      <4>2. n # p
        BY <2>4, <3>4, <4>1
      <4>3. \E l \in DOMAIN r : r[l] = s[n]
        BY <2>3, <4>2 DEF Removed
      <4> QED BY <3>2, <4>1, <4>3
    <3> QED BY <1>7, <3>3, <3>4
  <2>9. Different(r)
    <3> SUFFICES ASSUME NEW a \in DOMAIN r, NEW b \in DOMAIN r, NameOf[r[a]] = NameOf[r[b]], a < b PROVE FALSE
      <4>1. \A a \in DOMAIN r : a \in Int
        BY <2>3
      <4>2. \A a, b \in DOMAIN r : a < b \/ b < a \/ a = b
        BY <4>1
      <4> QED BY <4>2 DEF Different
    <3>0. a \in Int /\ b \in Int /\ p \in Int
      BY <1>5, <2>1, <2>3
    <3>1. \/ a \in DOMAIN s /\ a < p /\ r[a] = s[a]
          \/ a + 1 \in DOMAIN s /\ a >= p /\ r[a] = s[a + 1]
      BY <2>3 DEF Removed
    <3>2. \/ b \in DOMAIN s /\ b < p /\ r[b] = s[b]
          \/ b + 1 \in DOMAIN s /\ b >= p /\ r[b] = s[b + 1]
      BY <2>3 DEF Removed
    <3>3. \A m, n \in DOMAIN s : NameOf[s[m]] = NameOf[s[n]] => m = n
      BY <1>5 DEF Different
    <3>4. CASE a < p /\ b < p
      BY <3>0, <3>1, <3>2, <3>3, <3>4
    <3>5. CASE a < p /\ b >= p
      <4>1. a = b + 1
        BY <3>0, <3>1, <3>2, <3>3, <3>5
      <4> QED BY <3>0, <4>1
    <3>6. CASE a >= p /\ b >= p
      <4>1. a + 1 = b + 1
        BY <3>0, <3>1, <3>2, <3>3, <3>6
      <4> QED BY <3>0, <4>1
    <3> QED BY <3>0, <3>4, <3>5, <3>6
  <2>10. /\ index' \in [R!Keys -> Seq(Comps)] /\ index'[k] = r
         /\ \A l \in R!Keys \ {k} : index'[l] = index[l]
    BY <1>0, <1>3, <1>8, <2>3 DEF RegTypes
  <2>11. R!Listed' = R!Listed \ {d} /\ d \in R!Listed
    <3>1. \A x : x \in R!Listed <=> \E l \in R!Keys : \E n \in DOMAIN index[l] : index[l][n] = x
      BY DEF R!Listed, R!Range
    <3>2. \A x : x \in R!Listed' <=> \E l \in R!Keys : \E n \in DOMAIN index'[l] : index'[l][n] = x
      BY DEF R!Listed, R!Range
    <3>3. d \in R!Listed
      BY <1>3, <1>4, <2>1, <2>4, <3>1
    <3>4. ASSUME NEW x, x \in R!Listed, x # d PROVE x \in R!Listed'
      <4>1. PICK l \in R!Keys : \E n \in DOMAIN index[l] : index[l][n] = x
        BY <3>1, <3>4
      <4>2. PICK n \in DOMAIN index[l] : index[l][n] = x
        BY <4>1
      <4>3. CASE l = k
        <5>1. n \in DOMAIN s /\ s[n] = x /\ n # p
          BY <1>4, <2>4, <3>4, <4>2, <4>3
        <5>2. \E m \in DOMAIN r : r[m] = x
          BY <2>3, <5>1 DEF Removed
        <5> QED BY <1>3, <2>10, <3>2, <5>2
      <4>4. CASE l # k
        BY <2>10, <3>2, <4>2, <4>4
      <4> QED BY <4>3, <4>4
    <3>5. ASSUME NEW x, x \in R!Listed' PROVE x \in R!Listed /\ x # d
      <4>1. PICK l \in R!Keys : \E n \in DOMAIN index'[l] : index'[l][n] = x
        BY <3>2, <3>5
      <4>2. PICK n \in DOMAIN index'[l] : index'[l][n] = x
        BY <4>1
      <4>3. CASE l = k
        <5>1. n \in DOMAIN r /\ r[n] = x
          BY <2>10, <4>2, <4>3
        <5>2. PICK m \in DOMAIN s : r[n] = s[m]
          BY <2>6, <5>1
        <5>3. NameOf[x] # q
          BY <2>7, <5>1
        <5> QED BY <1>3, <1>4, <2>5, <3>1, <5>1, <5>2, <5>3
      <4>4. CASE l # k
        <5>1. index[l][n] = x /\ n \in DOMAIN index[l]
          BY <2>10, <4>2, <4>4
        <5>2. KeyOf[NameOf[x]] = l
          BY <1>0, <5>1 DEF Chained
        <5> QED BY <1>2, <2>5, <3>1, <4>4, <5>1, <5>2
      <4> QED BY <4>3, <4>4
    <3> QED BY <3>3, <3>4, <3>5
  <2>12. count' \in Nat /\ count' = Cardinality(R!Listed') /\ IsFiniteSet(R!Listed')
    <3>1. PICK L : L = R!Listed
      OBVIOUS
    <3>2. IsFiniteSet(L) /\ d \in L /\ count = Cardinality(L) /\ R!Listed' = L \ {d}
      BY <1>0, <2>11, <3>1 DEF RegTypes, Chained
    <3>3. IsFiniteSet(L \ {d}) /\ Cardinality(L \ {d}) = Cardinality(L) - 1
      BY <3>2, FS_RemoveElement
    <3>4. Cardinality(L \ {d}) \in Nat
      BY <3>3, FS_CardinalityType
    <3>5. count' = count - 1
      <4>1. PICK a \in Nat : a = Len(s)
        BY <1>5
      <4>2. Len(r) = a - 1 /\ count \in Nat
        BY <1>0, <2>3, <4>1 DEF RegTypes
      <4> QED BY <1>8, <4>1, <4>2
    <3> QED BY <3>2, <3>3, <3>4, <3>5
  <2>13. look' \in {None} \cup [name : Names, node : Comps \cup {None, "freed"}]
    <3>1. CASE look # None /\ look.node \in gone
      BY <1>0, <1>8, <3>1 DEF RegTypes
    <3>2. CASE ~(look # None /\ look.node \in gone)
      BY <1>0, <1>8, <3>2 DEF RegTypes
    <3> QED BY <3>1, <3>2
  <2>14. RegTypes'
    <3>1. since' \subseteq R!Listed'
      BY <1>0, <1>8, <2>8, <2>11 DEF RegTypes
    <3> QED BY <1>0, <1>8, <2>10, <2>12, <2>13, <3>1 DEF RegTypes
  <2>15. Chained'
    <3>1. ASSUME NEW l \in R!Keys, NEW n \in DOMAIN index'[l] PROVE KeyOf[NameOf[index'[l][n]]] = l
      <4>1. CASE l = k
        BY <2>7, <2>10, <3>1, <4>1
      <4>2. CASE l # k
        BY <1>0, <2>10, <3>1, <4>2 DEF Chained
      <4> QED BY <4>1, <4>2
    <3>2. ASSUME NEW l \in R!Keys PROVE Different(index'[l])
      <4>1. CASE l = k
        BY <2>9, <2>10, <4>1
      <4>2. CASE l # k
        BY <1>0, <2>10, <4>2 DEF Chained
      <4> QED BY <4>1, <4>2
    <3> QED BY <2>12, <3>1, <3>2 DEF Chained, Different
  <2>16. Ahead'
    <3>1. CASE look = None
      <4>1. look' = None
        BY <1>8, <3>1
      <4> QED BY <4>1 DEF Ahead
    <3>2. CASE look # None /\ look.node = d
      <4>1. look' = [look EXCEPT !.node = "freed"]
        BY <1>8, <2>8, <3>2
      <4>2. look \in [name : Names, node : Comps \cup {None, "freed"}]
        BY <1>0, <3>2 DEF RegTypes
      <4>3. look'.node = "freed"
        BY <4>1, <4>2
      <4> QED BY <4>3 DEF Ahead, Named
    <3>3. CASE look # None /\ look.node # d
      <4>1. look' = look
        BY <1>8, <2>8, <3>3
      <4>2. PICK l : l = KeyOf[look.name]
        OBVIOUS
      <4>3. l \in R!Keys
        BY <1>0, <3>3, <4>2 DEF RegTypes, R!Keys
      <4>4. ASSUME NEW m \in DOMAIN index[l], NEW n \in DOMAIN index[l], m <= n,
                   index[l][m] # d, index[l][n] # d
            PROVE  \E a, b \in DOMAIN index'[l] : a <= b /\ index'[l][a] = index[l][m] /\ index'[l][b] = index[l][n]
        <5>1. CASE l = k
          <6>1. m \in DOMAIN s /\ n \in DOMAIN s /\ m # p /\ n # p
            BY <1>4, <2>4, <4>4, <5>1
          <6>2. \E a, b \in DOMAIN r : a <= b /\ r[a] = s[m] /\ r[b] = s[n]
            BY <2>19, <4>4, <6>1 DEF SameOrder
          <6> QED BY <1>4, <2>10, <5>1, <6>2
        <5>2. CASE l # k
          BY <2>10, <4>3, <4>4, <5>2
        <5> QED BY <5>1, <5>2
      <4>5. \A m \in DOMAIN index[l] : m <= m
        BY <1>0, <4>3 DEF RegTypes
      <4>6. look.node \in Comps => \E a \in DOMAIN index'[l] : index'[l][a] = look.node
        BY <1>0, <3>3, <4>2, <4>4, <4>5 DEF Ahead
      <4>7. look.node # "freed" =>
              \A x \in since' : NameOf[x] = look.name =>
                look.node # None /\ \E a, b \in DOMAIN index'[l] : a <= b /\ index'[l][a] = look.node /\ index'[l][b] = x
        <5>1. \A x \in since' : x \in since /\ x # d
          BY <1>8, <2>8
        <5> QED BY <1>0, <3>3, <4>2, <4>4, <5>1 DEF Ahead
      <4> QED BY <4>1, <4>2, <4>6, <4>7 DEF Ahead
    <3> QED BY <3>1, <3>2, <3>3
  <2>17. R!LookupFinds'
    <3>1. found' = found /\ since' \subseteq since
      BY <1>8
    <3>2. look' = None => look = None
      <4>1. look # None => look \in [name : Names, node : Comps \cup {None, "freed"}]
        BY <1>0 DEF RegTypes
      <4>2. look # None => [look EXCEPT !.node = "freed"] \in [name : Names, node : Comps \cup {None, "freed"}]
        BY <4>1
      <4> QED BY <1>8, <4>2 DEF Named
    <3> QED BY <1>0, <3>1, <3>2 DEF R!LookupFinds
  <2>18. ASSUME NEW n \in Names
         PROVE  R!Holder(index[KeyOf[n]], n)' = IF n = NameOf[c] THEN None ELSE R!Holder(index[KeyOf[n]], n)
    <3>1. PICK l : l = KeyOf[n]
      OBVIOUS
    <3>2. l \in R!Keys /\ R!Holder(index[KeyOf[n]], n)' = R!Holder(index'[l], n)
      BY <3>1 DEF R!Keys, R!Holder
    <3>3. CASE l # k
      BY <1>1, <1>2, <2>10, <3>1, <3>2, <3>3
    <3>4. CASE l = k
      <4>1. R!Holder(index[KeyOf[n]], n)' = R!Holder(r, n) /\ R!Holder(index[KeyOf[n]], n) = R!Holder(s, n)
        BY <1>4, <2>10, <3>1, <3>2, <3>4
      <4>2. CASE n = q
        <5>1. \A j \in DOMAIN r : NameOf[r[j]] # n
          BY <2>7, <4>2
        <5>2. R!Holder(r, n) = None
          BY <2>3, <2>9, <5>1, NodeIs
        <5> QED BY <1>1, <4>1, <4>2, <5>2
      <4>3. CASE n # q
        <5>1. CASE R!Holder(s, n) = None /\ \A m \in DOMAIN s : NameOf[s[m]] # n
          <6>1. \A m \in DOMAIN r : NameOf[r[m]] # n
            BY <2>6, <5>1
          <6> QED BY <1>1, <2>3, <2>9, <4>1, <4>3, <5>1, <6>1, NodeIs
        <5>2. ASSUME NEW m \in DOMAIN s, NameOf[s[m]] = n, R!Holder(s, n) = s[m] PROVE R!Holder(r, n) = s[m]
          <6>1. m # p
            BY <2>1, <4>3, <5>2
          <6>2. PICK j \in DOMAIN r : r[j] = s[m]
            BY <2>3, <6>1 DEF Removed
          <6>3. PICK i2 \in DOMAIN r : NameOf[r[i2]] = n /\ R!Holder(r, n) = r[i2]
            BY <2>3, <2>9, <5>2, <6>2, NodeIs
          <6>4. i2 = j
            BY <2>9, <5>2, <6>2, <6>3 DEF Different
          <6> QED BY <6>2, <6>3, <6>4
        <5>3. \/ R!Holder(s, n) = None /\ \A m \in DOMAIN s : NameOf[s[m]] # n
              \/ \E m \in DOMAIN s : NameOf[s[m]] = n /\ R!Holder(s, n) = s[m]
          BY <1>5, NodeIs
        <5> QED BY <1>1, <4>1, <4>3, <5>1, <5>2, <5>3
      <4> QED BY <4>2, <4>3
    <3> QED BY <3>3, <3>4
  <2> QED BY <2>14, <2>15, <2>16, <2>17, <2>18 DEF RInv
<1> QED BY <1>9, <1>10

\* A lookup that begins stands at the head of its chain.
LEMMA LookStartStep ==
  ASSUME Named, RInv, NEW q \in Names, R!LookStart(q)
  PROVE  RInv'
<1>0. RegTypes /\ Chained /\ Ahead /\ R!LookupFinds
  BY DEF RInv
<1>1. PICK k : k = KeyOf[q]
  OBVIOUS
<1>2. k \in R!Keys
  BY <1>1 DEF R!Keys
<1>3. PICK s : s = index[k]
  OBVIOUS
<1>4. s \in Seq(Comps) /\ DOMAIN s = 1 .. Len(s) /\ Len(s) \in Nat
  BY <1>0, <1>2, <1>3 DEF RegTypes
<1>5. PICK x : x = IF s = <<>> THEN None ELSE Head(s)
  OBVIOUS
<1>6. /\ look' = [name |-> q, node |-> x] /\ since' = R!Listed
      /\ UNCHANGED <<index, count, found, regfault>>
  BY <1>1, <1>3, <1>5 DEF R!LookStart
<1>7. R!Listed' = R!Listed
  BY <1>6 DEF R!Listed
<1>8. IF s = <<>> THEN x = None ELSE 1 \in DOMAIN s /\ x = s[1] /\ x \in Comps
  BY <1>4, <1>5
<1>9. look' \in [name : Names, node : Comps \cup {None, "freed"}] /\ look' # None
  <2>1. x \in Comps \cup {None, "freed"}
    BY <1>8
  <2>2. look' \in [name : Names, node : Comps \cup {None, "freed"}]
    BY <1>6, <2>1
  <2> QED BY <2>2 DEF Named
<1>10. RegTypes' /\ Chained'
  BY <1>0, <1>6, <1>7, <1>9 DEF RegTypes, Chained, Different
<1>11. Ahead'
  <2>1. look'.name = q /\ look'.node = x /\ index'[k] = s
    BY <1>3, <1>6
  <2>2. x \in Comps => \E m \in DOMAIN s : s[m] = x
    BY <1>8 DEF Named
  <2>3. ASSUME NEW c \in R!Listed, NameOf[c] = q
        PROVE  x # None /\ \E m, n \in DOMAIN s : m <= n /\ s[m] = x /\ s[n] = c
    <3>1. PICK n \in DOMAIN s : s[n] = c
      BY <1>0, <1>1, <1>3, <2>3, ListedIs
    <3>2. s # <<>> /\ 1 <= n
      BY <1>4, <3>1
    <3> QED BY <1>8, <3>1, <3>2 DEF Named
  <2> QED BY <1>1, <1>6, <2>1, <2>2, <2>3 DEF Ahead
<1>12. R!LookupFinds'
  BY <1>9 DEF R!LookupFinds
<1> QED BY <1>10, <1>11, <1>12 DEF RInv

\* A lookup that visits a node: it ends there, or goes on to the next.
LEMMA LookVisitStep ==
  ASSUME Named, RInv, R!LookVisit
  PROVE  RInv'
<1>0. RegTypes /\ Chained /\ Ahead /\ R!LookupFinds
  BY DEF RInv
<1>1. look # None /\ UNCHANGED <<index, count, since>>
  BY DEF R!LookVisit
<1>2. look \in [name : Names, node : Comps \cup {None, "freed"}]
  BY <1>0, <1>1 DEF RegTypes
<1>3. R!Listed' = R!Listed
  BY <1>1 DEF R!Listed
<1>4. CASE look.node = "freed"
  <2>1. UNCHANGED <<look, found>>
    BY <1>4 DEF R!LookVisit
  <2> QED BY <1>0, <1>1, <1>3, <2>1 DEF RInv, RegTypes, Chained, Ahead, R!LookupFinds, Different
<1>5. CASE look.node # "freed" /\ (look.node = None \/ NameOf[look.node] = look.name)
  <2>1. found' = look /\ look' = None
    BY <1>5 DEF R!LookVisit
  <2>2. RegTypes' /\ Chained' /\ Ahead'
    BY <1>0, <1>1, <1>2, <1>3, <2>1 DEF RegTypes, Chained, Ahead, Different
  <2>3. R!LookupFinds'
    BY <1>0, <1>1, <1>5, <2>1 DEF R!LookupFinds, Ahead
  <2> QED BY <2>2, <2>3 DEF RInv
<1>6. CASE look.node # "freed" /\ look.node # None /\ NameOf[look.node] # look.name
  <2>1. PICK x : x = look.node
    OBVIOUS
  <2>2. PICK k : k = KeyOf[look.name]
    OBVIOUS
  <2>3. PICK s : s = index[k]
    OBVIOUS
  <2>4. x \in Comps /\ k \in R!Keys
    BY <1>2, <1>6, <2>1, <2>2 DEF R!Keys
  <2>5. s \in Seq(Comps) /\ DOMAIN s = 1 .. Len(s) /\ Len(s) \in Nat /\ Different(s)
    BY <1>0, <2>3, <2>4 DEF RegTypes, Chained
  <2>6. PICK m \in DOMAIN s : s[m] = x
    BY <1>0, <1>1, <2>1, <2>2, <2>3, <2>4 DEF Ahead
  <2>7. R!Chain(x) = s
    BY <1>0, <2>3, <2>4, <2>6 DEF Chained, R!Chain
  <2>8. PICK y : y = R!Past(s, x)
    OBVIOUS
  <2>9. y = IF m = Len(s) THEN None ELSE s[m + 1]
    <3>1. \A l \in DOMAIN s : s[l] = x => l = m
      BY <2>5, <2>6 DEF Different
    <3>2. (CHOOSE l \in DOMAIN s : s[l] = x) = m
      BY <2>6, <3>1
    <3>3. PICK j : j = CHOOSE l \in DOMAIN s : s[l] = x
      OBVIOUS
    <3>4. R!Past(s, x) = IF j = Len(s) THEN None ELSE s[j + 1]
      BY <3>3 DEF R!Past
    <3> QED BY <2>8, <3>2, <3>3, <3>4
  <2>10. look' = [look EXCEPT !.node = y] /\ found' = found
    BY <1>1, <1>6, <2>1, <2>7, <2>8 DEF R!LookVisit
  <2>11. IF m = Len(s) THEN y = None ELSE m + 1 \in DOMAIN s /\ y = s[m + 1] /\ y \in Comps
    BY <2>5, <2>6, <2>9
  <2>12. look' \in [name : Names, node : Comps \cup {None, "freed"}] /\ look'.name = look.name /\ look'.node = y
    BY <1>2, <2>10, <2>11
  <2>13. RegTypes' /\ Chained'
    BY <1>0, <1>1, <1>3, <2>10, <2>12 DEF RegTypes, Chained, Different
  <2>14. Ahead'
    <3>1. y \in Comps => \E a \in DOMAIN s : s[a] = y
      BY <2>11 DEF Named
    <3>2. ASSUME NEW c \in since, NameOf[c] = look.name
          PROVE  y # None /\ \E a, b \in DOMAIN s : a <= b /\ s[a] = y /\ s[b] = c
      <4>1. PICK a, b \in DOMAIN s : a <= b /\ s[a] = x /\ s[b] = c
        BY <1>0, <1>1, <1>6, <2>1, <2>2, <2>3, <3>2 DEF Ahead
      <4>2. a = m /\ b # m
        BY <1>6, <2>1, <2>5, <2>6, <3>2, <4>1 DEF Different
      <4>3. m + 1 <= b /\ m # Len(s)
        BY <2>5, <4>1, <4>2
      <4> QED BY <2>11, <4>1, <4>3 DEF Named
    <3> QED BY <1>1, <2>2, <2>3, <2>12, <3>1, <3>2 DEF Ahead
  <2>15. R!LookupFinds'
    BY <2>12 DEF R!LookupFinds, Named
  <2> QED BY <2>13, <2>14, <2>15 DEF RInv
<1> QED BY <1>4, <1>5, <1>6

\* The holder of each name, and what a call makes of the holders.
Holders == [n \in Names |-> R!Holder(index[KeyOf[n]], n)]

\* Every step of the one that registers and of the one that looks up.
LEMMA RegStep ==
  ASSUME Named, RInv, [R!Next]_(R!vars)
  PROVE  RInv' /\ [R!Map!Next]_(R!Map!vars)
<1>0. R!Map!vars = <<Holders>>
  BY DEF R!Map!vars, Holders
<1>1. CASE UNCHANGED (R!vars)
  <2>1. UNCHANGED <<index, count, look, found, since, regfault>>
    BY <1>1 DEF R!vars
  <2>2. RInv'
    BY <2>1 DEF RInv, RegTypes, Chained, Ahead, R!LookupFinds, R!Listed, R!Range, Different
  <2>3. Holders' = Holders
    BY <2>1 DEF Holders, R!Holder
  <2> QED BY <1>0, <2>2, <2>3 DEF R!Map!vars, Holders
<1>2. ASSUME NEW c \in Comps, R!Register(c) PROVE RInv' /\ [R!Map!Next]_(R!Map!vars)
  <2>1. RInv' /\ \A n \in Names : R!Holder(index[KeyOf[n]], n)' =
                   IF n = NameOf[c] THEN c ELSE R!Holder(index[KeyOf[n]], n)
    BY <1>2, RegisterStep
  <2>2. NameOf[c] \in Names /\ R!Holder(index[KeyOf[NameOf[c]]], NameOf[c]) = None
    BY <1>2, RegisterStep DEF Named
  <2>3. Holders[NameOf[c]] = None /\ Holders' = [Holders EXCEPT ![NameOf[c]] = c]
    BY <2>1, <2>2 DEF Holders
  <2>4. R!Map!Register(c)
    BY <2>3 DEF R!Map!Register, Holders
  <2> QED BY <2>1, <2>4 DEF R!Map!Next
<1>3. ASSUME NEW c \in Comps, R!Unregister(c) PROVE RInv' /\ [R!Map!Next]_(R!Map!vars)
  <2>1. RInv' /\ \A n \in Names : R!Holder(index[KeyOf[n]], n)' =
                   IF n = NameOf[c] THEN None ELSE R!Holder(index[KeyOf[n]], n)
    BY <1>3, UnregisterStep
  <2>2. PICK q \in Names : q = NameOf[c]
    BY DEF Named
  <2>3. Holders' = [Holders EXCEPT ![q] = None]
    BY <2>1, <2>2 DEF Holders
  <2>4. CASE Holders[q] = None
    <3>1. Holders' = Holders
      BY <2>3, <2>4 DEF Holders
    <3> QED BY <1>0, <2>1, <3>1 DEF R!Map!vars, Holders
  <2>5. CASE Holders[q] # None
    <3>1. R!Map!Unregister(q)
      BY <2>3, <2>5 DEF R!Map!Unregister, Holders
    <3> QED BY <2>1, <3>1 DEF R!Map!Next
  <2> QED BY <2>4, <2>5
<1>4. ASSUME UNCHANGED index, RInv' PROVE RInv' /\ [R!Map!Next]_(R!Map!vars)
  <2>1. Holders' = Holders
    BY <1>4 DEF Holders, R!Holder
  <2> QED BY <1>0, <1>4, <2>1 DEF R!Map!vars, Holders
<1>5. ASSUME NEW q \in Names, R!LookStart(q) PROVE RInv' /\ [R!Map!Next]_(R!Map!vars)
  BY <1>4, <1>5, LookStartStep DEF R!LookStart
<1>6. CASE R!LookVisit
  BY <1>4, <1>6, LookVisitStep DEF R!LookVisit
<1> QED BY <1>1, <1>2, <1>3, <1>5, <1>6 DEF R!Next

\* The empty table.
LEMMA RegInit ==
  ASSUME Named, R!Init
  PROVE  RInv /\ R!Map!Init
<1>1. /\ index = [k \in R!Keys |-> <<>>] /\ count = 0
      /\ look = None /\ found = None /\ since = {}
  BY DEF R!Init
<1>2. \A k \in R!Keys : index[k] = <<>> /\ index[k] \in Seq(Comps) /\ DOMAIN index[k] = {}
  BY <1>1
<1>3. R!Listed = {}
  BY <1>2 DEF R!Listed, R!Range
<1>4. IsFiniteSet({}) /\ Cardinality({}) = 0
  BY FS_EmptySet
<1>5. RegTypes
  BY <1>1, <1>2, <1>3, <1>4 DEF RegTypes
<1>6. Chained /\ Ahead /\ R!LookupFinds
  BY <1>1, <1>2, <1>3, <1>4 DEF Chained, Different, Ahead, R!LookupFinds
<1>7. \A n \in Names : R!Holder(index[KeyOf[n]], n) = None
  <2> SUFFICES ASSUME NEW n \in Names PROVE R!Holder(index[KeyOf[n]], n) = None
    OBVIOUS
  <2>1. index[KeyOf[n]] \in Seq(Comps) /\ DOMAIN index[KeyOf[n]] = {} /\ Different(index[KeyOf[n]])
    BY <1>2 DEF R!Keys, Different
  <2> QED BY <2>1, NodeIs
<1>8. R!Map!Init
  BY <1>7 DEF R!Map!Init
<1> QED BY <1>5, <1>6, <1>8 DEF RInv

\* The chains of zhash.c implement the map, for any names, any components and any hash
\* of a name, and a lookup beside the changes misses nothing that stays.
THEOREM RegistryImplementsMap == ASSUME Named PROVE R!Spec => RegistryIsMap
<1>1. R!Init => RInv /\ R!Map!Init
  BY RegInit
<1>2. RInv /\ [R!Next]_(R!vars) => RInv' /\ [R!Map!Next]_(R!Map!vars)
  BY RegStep
<1>3. RInv => R!LookupFinds /\ R!CountExact
  <2> SUFFICES ASSUME RInv PROVE R!CountExact
    BY DEF RInv
  <2>1. Chained
    BY DEF RInv
  <2>2. PICK L : L = R!Listed
    OBVIOUS
  <2>3. R!Cardinality(L) = Cardinality(L)
    BY DEF R!Cardinality, Cardinality
  <2> QED BY <2>1, <2>2, <2>3 DEF Chained, Different, R!CountExact, R!IsInjective
<1> QED BY <1>1, <1>2, <1>3, PTL DEF R!Spec, R!Map!Spec, RegistryIsMap

-----------------------------------------------------------------------------
(* The message buffer.                                                     *)

\* What is put in are bytes, and a power of two of W bits holds as much as is put in.
BufAssumed ==
  /\ Chunks \subseteq Seq(Byte) /\ Asked \subseteq Nat /\ InitLen \in Nat /\ MaxBytes \in Nat
  /\ \E c \in B!Powers : c > MaxBytes + 1

Mem == Seq(Byte \cup {Junk})

\* The lengths nest, and what is in use holds bytes.
BufGood ==
  /\ buf \in Mem /\ maxlen \in Nat /\ buflen \in Nat /\ offset \in Nat
  /\ offset <= buflen /\ buflen <= maxlen /\ maxlen <= Len(buf)
  /\ \A n \in 1 .. buflen : buf[n] \in Byte

\* A fault ends the execution.
BufInv == buffault # "overrun" /\ (buffault = "none" => BufGood)

\* A set of numbers has a least one.
LEMMA Least == ASSUME NEW T, T \subseteq Nat, T # {} PROVE \E x \in T : \A y \in T : x <= y
<1>1. PICK r : r = OpToRel(<, Nat)
  OBVIOUS
<1>2. IsWellFoundedOn(r, Nat)
  BY <1>1, NatLessThanWellFounded
<1>3. PICK x \in T : \A y \in T : ~ (<<y, x>> \in r)
  BY <1>2, WFMin
<1>4. ASSUME NEW y \in T PROVE x <= y
  <2>1. x \in Nat /\ y \in Nat
    OBVIOUS
  <2>2. y < x => <<y, x>> \in r
    BY <1>1, <2>1 DEF OpToRel
  <2> QED BY <1>3, <2>1, <2>2
<1> QED BY <1>3, <1>4

\* The loop of zcrt_buf_realloc ends beyond what is asked for.
LEMMA Capacity ==
  ASSUME BufAssumed, NEW n \in Nat, n <= MaxBytes
  PROVE  B!Cap(n) \in Nat /\ B!Cap(n) > n + 1
<1> DEFINE T == {c \in B!Powers : c > n + 1}
<1>1. \A c \in B!Powers : c \in Nat
  BY DEF B!Powers
<1>2. T \subseteq Nat
  BY <1>1
<1>3. PICK b \in B!Powers : b > MaxBytes + 1
  BY DEF BufAssumed
<1>4. b \in T
  BY <1>1, <1>3 DEF BufAssumed
<1>5. PICK x \in T : \A y \in T : x <= y
  <2> HIDE DEF T
  <2> QED BY <1>2, <1>4, Least
<1>6. x \in B!Powers /\ x > n + 1 /\ \A d \in B!Powers : d > n + 1 => x <= d
  BY <1>5
<1>7. PICK c : c = B!Cap(n)
  OBVIOUS
<1>8. c \in B!Powers /\ c > n + 1
  BY <1>6, <1>7 DEF B!Cap
<1> QED BY <1>1, <1>7, <1>8

\* The start of a sequence.
LEMMA Prefix ==
  ASSUME NEW S, NEW m \in Seq(S), NEW n \in Nat, n <= Len(m), NEW p, p = SubSeq(m, 1, n)
  PROVE  p \in Seq(S) /\ Len(p) = n /\ DOMAIN p = 1 .. n /\ \A k \in 1 .. n : p[k] = m[k]
<1>1. /\ p \in Seq(S) /\ Len(p) = IF 1 <= n THEN n - 1 + 1 ELSE 0
      /\ \A k \in 1 .. n - 1 + 1 : p[k] = m[1 + k - 1]
  <2>1. \A k \in 1 .. n : m[k] \in S
    OBVIOUS
  <2> QED BY <2>1, SubSeqProperties
<1>2. Len(p) = n /\ n - 1 + 1 = n /\ \A k \in 1 .. n : 1 + k - 1 = k
  BY <1>1
<1>3. DOMAIN p = 1 .. Len(p)
  BY <1>1
<1> QED BY <1>1, <1>2, <1>3

\* Reallocating to n: there is room for n, and nothing in use is lost.
LEMMA Reallocated ==
  ASSUME BufAssumed, BufGood, NEW n \in Nat, n <= MaxBytes \/ n <= maxlen,
         NEW m, m = B!Realloc(n)
  PROVE  /\ m \in Mem /\ n <= Len(m) /\ buflen <= Len(m)
         /\ maxlen < n => n < Len(m)
         /\ maxlen >= n => m = buf
         /\ \A k \in 1 .. buflen : m[k] = buf[k]
<1>0. /\ buf \in Mem /\ maxlen \in Nat /\ buflen \in Nat
      /\ buflen <= maxlen /\ maxlen <= Len(buf) /\ Len(buf) \in Nat /\ DOMAIN buf = 1 .. Len(buf)
  BY DEF BufGood, Mem
<1>1. CASE maxlen >= n
  <2>1. m = buf
    BY <1>1 DEF B!Realloc
  <2> QED BY <1>0, <1>1, <2>1
<1>2. CASE ~(maxlen >= n)
  <2>1. PICK c : c = B!Cap(n)
    OBVIOUS
  <2>2. c \in Nat /\ c > n + 1
    BY <1>2, <2>1, Capacity
  <2>3. m = [k \in 1 .. c |-> IF k <= Len(buf) THEN buf[k] ELSE Junk]
    BY <1>0, <1>2, <2>1 DEF B!Realloc
  <2>4. \A k \in 1 .. c : m[k] \in Byte \cup {Junk}
    <3>1. \A k \in 1 .. Len(buf) : buf[k] \in Byte \cup {Junk}
      BY <1>0 DEF Mem
    <3> QED BY <2>2, <2>3, <3>1
  <2>5. m \in Mem /\ Len(m) = c
    <3>1. m \in [1 .. c -> Byte \cup {Junk}]
      BY <2>3, <2>4
    <3> HIDE <2>3
    <3> QED BY <2>2, <3>1 DEF Mem
  <2>6. \A k \in 1 .. buflen : m[k] = buf[k]
    BY <1>0, <1>2, <2>2, <2>3
  <2> QED BY <1>0, <1>2, <2>2, <2>5, <2>6
<1> QED BY <1>1, <1>2

\* Bytes written into memory.
LEMMA Written ==
  ASSUME NEW m \in Mem, NEW p \in Nat, NEW s \in Seq(Byte), p + Len(s) <= Len(m),
         NEW w, w = B!Write(m, p, s)
  PROVE  /\ w \in Mem /\ Len(w) = Len(m)
         /\ \A k \in 1 .. p : w[k] = m[k]
         /\ \A k \in p + 1 .. p + Len(s) : w[k] \in Byte /\ w[k] = s[k - p]
<1>0. m \in Seq(Byte \cup {Junk}) /\ DOMAIN m = 1 .. Len(m) /\ Len(m) \in Nat /\ Len(s) \in Nat
  BY DEF Mem
<1>1. w = [k \in 1 .. Len(m) |-> IF k \in p + 1 .. p + Len(s) THEN s[k - p] ELSE m[k]]
  BY <1>0 DEF B!Write
<1>2. \A k \in p + 1 .. p + Len(s) : s[k - p] \in Byte
  <2>1. \A k \in p + 1 .. p + Len(s) : k - p \in 1 .. Len(s)
    BY <1>0
  <2> QED BY <2>1
<1>3. \A k \in 1 .. Len(m) : w[k] \in Byte \cup {Junk}
  <2>1. \A k \in 1 .. Len(m) : m[k] \in Byte \cup {Junk}
    BY <1>0
  <2> QED BY <1>1, <1>2, <2>1
<1>4. w \in [1 .. Len(m) -> Byte \cup {Junk}]
  BY <1>1, <1>3
<1>5. \A k \in 1 .. p : w[k] = m[k]
  BY <1>0, <1>1
<1>6. \A k \in p + 1 .. p + Len(s) : w[k] \in Byte /\ w[k] = s[k - p]
  BY <1>0, <1>1, <1>2
<1>7. w \in Mem /\ Len(w) = Len(m)
  <2> HIDE <1>1
  <2> QED BY <1>0, <1>4 DEF Mem
<1> QED BY <1>5, <1>6, <1>7

\* What a call stores is in the buffer, behind what it leaves, when memory does not
\* run out.
LEMMA Stored ==
  ASSUME BufAssumed, BufGood, buffault = "none", NEW p \in Nat, p <= buflen, NEW s \in Seq(Byte),
         NEW n, n = p + Len(s), n <= MaxBytes \/ n <= maxlen, NEW c, B!Store(c, n, p, s)
  PROVE  \/ buffault' = "null" /\ UNCHANGED <<buf, buflen, offset, call>>
         \/ /\ buffault' = "none" /\ buf' \in Mem /\ buflen' = n /\ n <= maxlen' /\ maxlen' \in Nat
            /\ maxlen' <= Len(buf') /\ n \in Nat
            /\ \A k \in 1 .. p : buf'[k] = buf[k]
            /\ \A k \in 1 .. n : buf'[k] \in Byte
            /\ \A k \in p + 1 .. n : buf'[k] = s[k - p]
            /\ call' = <<c, s>>
<1>0. maxlen \in Nat /\ buflen \in Nat /\ n \in Nat /\ Len(s) \in Nat /\ maxlen <= Len(buf)
  BY DEF BufGood
<1>1. PICK m : m = B!Realloc(n)
  OBVIOUS
<1>2. /\ m \in Mem /\ n <= Len(m) /\ buflen <= Len(m) /\ Len(m) \in Nat
      /\ maxlen < n => n < Len(m)
      /\ maxlen >= n => m = buf
      /\ \A k \in 1 .. buflen : m[k] = buf[k]
  <2>1. Len(m) \in Nat
    BY <1>0, <1>1, Reallocated DEF Mem
  <2> QED BY <1>0, <1>1, <2>1, Reallocated
<1>3. PICK w : w = B!Write(m, p, s)
  OBVIOUS
<1>4. /\ w \in Mem /\ Len(w) = Len(m)
      /\ \A k \in 1 .. p : w[k] = m[k]
      /\ \A k \in p + 1 .. n : w[k] \in Byte /\ w[k] = s[k - p]
  BY <1>0, <1>2, <1>3, Written
<1>5. maxlen' = IF maxlen < n THEN n ELSE maxlen
  BY DEF B!Store, B!NewMax
<1>6. PICK noMem \in BOOLEAN :
        IF noMem \/ Len(m) < n
        THEN buffault' = (IF noMem THEN "null" ELSE "overrun") /\ UNCHANGED <<buf, buflen, offset, call>>
        ELSE buf' = w /\ buflen' = n /\ call' = <<c, s>> /\ UNCHANGED buffault
  BY <1>0, <1>1, <1>3 DEF B!Store
<1>7. CASE noMem
  BY <1>6, <1>7
<1>8. CASE ~noMem
  <2>1. ~(Len(m) < n)
    BY <1>0, <1>2
  <2>2. buf' = w /\ buflen' = n /\ call' = <<c, s>> /\ buffault' = buffault
    BY <1>6, <1>8, <2>1
  <2>3. n <= maxlen' /\ maxlen' <= Len(w) /\ maxlen' \in Nat
    BY <1>0, <1>2, <1>4, <1>5
  <2>4. \A k \in 1 .. p : w[k] = buf[k] /\ w[k] \in Byte
    BY <1>0, <1>2, <1>4 DEF BufGood
  <2>5. \A k \in 1 .. n : k \in 1 .. p \/ k \in p + 1 .. n
    BY <1>0
  <2> QED BY <1>0, <1>4, <2>2, <2>3, <2>4, <2>5
<1> QED BY <1>7, <1>8

\* What is in use of the buffer.
Bytes == SubSeq(buf, 1, buflen)

\* A sequence is another behind the first of its elements when the rest are the other's.
LEMMA Behind ==
  ASSUME NEW S, NEW x \in Seq(S), NEW y \in Seq(S), NEW s \in Seq(S),
         Len(y) = Len(x) + Len(s), \A k \in 1 .. Len(x) : y[k] = x[k],
         \A k \in Len(x) + 1 .. Len(y) : y[k] = s[k - Len(x)]
  PROVE  y = x \o s
<1>1. PICK z : z = x \o s
  OBVIOUS
<1>2. z \in Seq(S) /\ Len(z) = Len(x) + Len(s)
  BY <1>1
<1>3. \A k \in 1 .. Len(y) : z[k] = y[k]
  BY <1>1
<1> QED BY <1>1, <1>2, <1>3, SeqEqual

\* What is stored from the start, as a message that replaces all, or behind all there
\* is, is one of the stream's steps.
LEMMA StreamStored ==
  ASSUME BufAssumed, BufGood, buffault = "none", NEW p \in {0, buflen}, NEW s \in Chunks,
         NEW n, n = p + Len(s), n <= MaxBytes \/ n <= maxlen,
         NEW c, B!Store(c, n, p, s), out' = out,
         (c = "append" /\ p = buflen /\ offset' = offset) \/ (c = "load" /\ p = 0 /\ offset' = 0)
  PROVE  BufInv' /\ [B!Stream!Next]_(B!Stream!vars)
<1>s. s \in Seq(Byte) /\ Len(s) \in Nat
  BY DEF BufAssumed
<1>0. /\ p \in Nat /\ p <= buflen /\ buflen \in Nat /\ buf \in Mem /\ Len(buf) \in Nat
      /\ buflen <= Len(buf) /\ offset \in Nat /\ offset <= buflen
  BY DEF BufGood, Mem
<1>1. CASE buffault' = "null" /\ UNCHANGED <<buf, buflen, offset, call>>
  <2>1. Bytes' = Bytes
    BY <1>1 DEF Bytes
  <2> QED BY <1>1, <2>1 DEF BufInv, B!Stream!vars, Bytes
<1>2. CASE /\ buffault' = "none" /\ buf' \in Mem /\ buflen' = n /\ n <= maxlen' /\ maxlen' \in Nat
           /\ maxlen' <= Len(buf') /\ n \in Nat
           /\ \A k \in 1 .. p : buf'[k] = buf[k]
           /\ \A k \in 1 .. n : buf'[k] \in Byte
           /\ \A k \in p + 1 .. n : buf'[k] = s[k - p]
           /\ call' = <<c, s>>
  <2>1. Len(buf') \in Nat /\ n <= Len(buf')
    BY <1>2 DEF Mem
  <2>2. BufInv'
    BY <1>0, <1>2, <1>s DEF BufInv, BufGood
  <2>3. PICK a : a = Bytes
    OBVIOUS
  <2>4. PICK b : b = Bytes'
    OBVIOUS
  <2>5. a \in Seq(Byte \cup {Junk}) /\ Len(a) = buflen /\ \A k \in 1 .. buflen : a[k] = buf[k]
    <3>1. a = SubSeq(buf, 1, buflen)
      BY <2>3 DEF Bytes
    <3> QED BY <1>0, <3>1, Prefix DEF Mem
  <2>6. b \in Seq(Byte \cup {Junk}) /\ Len(b) = n /\ \A k \in 1 .. n : b[k] = buf'[k]
    <3>1. b = SubSeq(buf', 1, n)
      BY <1>2, <2>4 DEF Bytes
    <3> QED BY <1>2, <2>1, <3>1, Prefix DEF Mem
  <2>7. s \in Seq(Byte \cup {Junk}) /\ s \in Chunks \cup {<<>>}
    BY <1>s
  <2>8. CASE c = "load" /\ p = 0 /\ offset' = 0
    <3>1. Len(s) = n /\ \A k \in 1 .. n : b[k] = s[k]
      BY <1>2, <1>s, <2>6, <2>8
    <3>2. b = s
      BY <2>6, <2>7, <3>1, SeqEqual
    <3>3. B!Stream!Load(s)
      BY <1>2, <2>4, <2>8, <3>2 DEF B!Stream!Load, Bytes
    <3> QED BY <2>2, <2>7, <3>3 DEF B!Stream!Next
  <2>9. CASE c = "append" /\ p = buflen /\ offset' = offset
    <3>1. Len(b) = Len(a) + Len(s)
      BY <2>5, <2>6, <2>9
    <3>2. \A k \in 1 .. Len(a) : b[k] = a[k]
      <4>1. \A k \in 1 .. buflen : k \in 1 .. n /\ k \in 1 .. p
        BY <1>0, <1>s, <2>9
      <4> QED BY <1>2, <2>5, <2>6, <4>1
    <3>3. \A k \in Len(a) + 1 .. Len(b) : b[k] = s[k - Len(a)]
      <4>1. Len(a) = p /\ Len(b) = n
        BY <2>5, <2>6, <2>9
      <4>2. \A k \in p + 1 .. n : k \in 1 .. n
        BY <1>0, <1>2
      <4> QED BY <1>2, <2>6, <4>1, <4>2
    <3>4. b = a \o s
      BY <2>5, <2>6, <2>7, <3>1, <3>2, <3>3, Behind
    <3>5. B!Stream!Extend(s)
      BY <1>2, <2>3, <2>4, <2>9, <3>4 DEF B!Stream!Extend, Bytes
    <3> QED BY <2>2, <2>7, <3>5 DEF B!Stream!Next
  <2> QED BY <2>8, <2>9
<1> QED BY <1>0, <1>1, <1>2, <1>s, Stored

\* Bytes read from the buffer are read from the stream.
LEMMA StreamRead ==
  ASSUME BufAssumed, BufGood, NEW n \in Asked, call' = <<"read", n>>, offset + n <= buflen,
         out' = SubSeq(buf, offset + 1, offset + n), offset' = offset + n, UNCHANGED <<buf, buflen>>
  PROVE  B!Stream!Next
<1>0. /\ buf \in Seq(Byte \cup {Junk}) /\ Len(buf) \in Nat /\ buflen \in Nat /\ buflen <= Len(buf)
      /\ offset \in Nat /\ n \in Nat
  BY DEF BufAssumed, BufGood, Mem
<1>1. PICK a : a = Bytes
  OBVIOUS
<1>2. PICK k \in Nat : k = offset
  BY <1>0
<1>3. /\ a \in Seq(Byte \cup {Junk}) /\ Len(a) = buflen /\ \A j \in 1 .. buflen : a[j] = buf[j]
  <2>1. a = SubSeq(buf, 1, buflen)
    BY <1>1 DEF Bytes
  <2> QED BY <1>0, <2>1, Prefix
<1>4. PICK x : x = SubSeq(buf, k + 1, k + n)
  OBVIOUS
<1>5. PICK y : y = SubSeq(a, k + 1, k + n)
  OBVIOUS
<1>6. /\ x \in Seq(Byte \cup {Junk})
      /\ Len(x) = (IF k + 1 <= k + n THEN (k + n) - (k + 1) + 1 ELSE 0)
      /\ \A j \in 1 .. (k + n) - (k + 1) + 1 : x[j] = buf[(k + 1) + j - 1]
  <2>1. \A j \in k + 1 .. k + n : buf[j] \in Byte \cup {Junk}
    BY <1>0, <1>2
  <2> QED BY <1>2, <1>4, <2>1, SubSeqProperties
<1>7. /\ y \in Seq(Byte \cup {Junk})
      /\ Len(y) = (IF k + 1 <= k + n THEN (k + n) - (k + 1) + 1 ELSE 0)
      /\ \A j \in 1 .. (k + n) - (k + 1) + 1 : y[j] = a[(k + 1) + j - 1]
  <2>1. \A j \in k + 1 .. k + n : a[j] \in Byte \cup {Junk}
    BY <1>0, <1>2, <1>3
  <2> QED BY <1>2, <1>5, <2>1, SubSeqProperties
<1>8. Len(x) = n /\ Len(y) = n /\ (k + n) - (k + 1) + 1 = n
  BY <1>0, <1>6, <1>7
<1>9. \A j \in 1 .. n : x[j] = y[j]
  <2>1. \A j \in 1 .. n : (k + 1) + j - 1 \in 1 .. buflen
    BY <1>0, <1>2
  <2> QED BY <1>3, <1>6, <1>7, <1>8, <2>1
<1>10. x = y
  BY <1>6, <1>7, <1>8, <1>9, SeqEqual
<1>11. k + n <= Len(a)
  BY <1>0, <1>2, <1>3
<1>12. Bytes' = Bytes
  BY DEF Bytes
<1>13. out' = SubSeq(a, k + 1, k + n) /\ offset' = k + n
  BY <1>2, <1>4, <1>5, <1>10
<1>14. B!Stream!Read(n)
  BY <1>1, <1>2, <1>11, <1>12, <1>13 DEF B!Stream!Read, Bytes
<1> QED BY <1>14 DEF B!Stream!Next

\* A read that is refused.
LEMMA StreamRefuse ==
  ASSUME BufGood, NEW n \in Asked, call' = <<"read", n>>, n = 0 \/ offset + n > buflen,
         out' = Wrong, offset' \in {offset, buflen}, UNCHANGED <<buf, buflen>>
  PROVE  B!Stream!Next
<1>1. Len(Bytes) = buflen
  BY Prefix DEF BufGood, Mem, Bytes
<1>2. Bytes' = Bytes
  BY DEF Bytes
<1>3. B!Stream!Refuse(n)
  BY <1>1, <1>2 DEF B!Stream!Refuse, Bytes
<1> QED BY <1>3 DEF B!Stream!Next

\* Every call on a buffer is one on a stream, or changes nothing of it.
LEMMA BufStep ==
  ASSUME BufAssumed, BufInv, [B!Next]_(B!vars)
  PROVE  BufInv' /\ [B!Stream!Next]_(B!Stream!vars)
<1>1. ASSUME UNCHANGED <<buf, buflen, offset, call, out>>, BufInv' PROVE BufInv' /\ [B!Stream!Next]_(B!Stream!vars)
  <2>1. Bytes' = Bytes
    BY <1>1 DEF Bytes
  <2> QED BY <1>1, <2>1 DEF B!Stream!vars, Bytes
<1>2. CASE UNCHANGED (B!vars)
  <2>1. UNCHANGED <<buf, maxlen, buflen, offset, out, call, buffault>>
    BY <1>2 DEF B!vars
  <2>2. BufInv'
    BY <2>1 DEF BufInv, BufGood
  <2> QED BY <1>1, <2>1, <2>2
<1>3. CASE B!Next
  <2>0. buffault = "none" /\ BufGood
    BY <1>3 DEF B!Next, BufInv
  <2>t. /\ buf \in Mem /\ maxlen \in Nat /\ buflen \in Nat /\ offset \in Nat
        /\ offset <= buflen /\ buflen <= maxlen /\ maxlen <= Len(buf) /\ MaxBytes \in Nat
    BY <2>0 DEF BufGood, BufAssumed
  <2>1. ASSUME NEW s \in Chunks, B!BufAppend(s) PROVE BufInv' /\ [B!Stream!Next]_(B!Stream!vars)
    <3>1. s \in Seq(Byte) /\ buflen + Len(s) = buflen + Len(s)
      BY DEF BufAssumed
    <3>2. buflen + Len(s) <= MaxBytes /\ B!Store("append", buflen + Len(s), buflen, s) /\ out' = out /\ offset' = offset
      BY <2>1 DEF B!BufAppend
    <3> QED BY <2>0, <3>1, <3>2, StreamStored
  <2>2. ASSUME NEW s \in Chunks, B!Receive(s) PROVE BufInv' /\ [B!Stream!Next]_(B!Stream!vars)
    <3>1. s \in Seq(Byte) /\ InitLen \in Nat /\ Len(s) \in Nat
      BY DEF BufAssumed
    <3>2. Len(s) < InitLen /\ InitLen <= maxlen /\ B!Store("load", Len(s), 0, s) /\ offset' = 0 /\ out' = out
      BY <2>2 DEF B!Receive
    <3>3. Len(s) <= maxlen /\ Len(s) = 0 + Len(s)
      BY <2>t, <3>1, <3>2
    <3> QED BY <2>0, <3>1, <3>2, <3>3, StreamStored
  <2>3. ASSUME NEW n \in Asked, B!Get(n) PROVE BufInv' /\ [B!Stream!Next]_(B!Stream!vars)
    <3>0. n \in Nat /\ UNCHANGED <<buf, maxlen, buflen>>
      BY <2>3 DEF BufAssumed, B!Get
    <3>1. CASE buffault' = "outside" /\ UNCHANGED <<out, offset, call>>
      <4>1. BufInv'
        BY <3>1 DEF BufInv
      <4> QED BY <1>1, <3>0, <3>1, <4>1
    <3>2. CASE B!GetBytes(n) /\ call' = <<"read", n>> /\ buffault' = buffault
      <4>1. CASE (n = 0 \/ offset + n > buflen) /\ out' = Wrong /\ offset' = offset
        <5>1. BufInv'
          BY <2>0, <3>0, <3>2, <4>1 DEF BufInv, BufGood
        <5>2. B!Stream!Next
          BY <2>0, <3>0, <3>2, <4>1, StreamRefuse
        <5> QED BY <5>1, <5>2
      <4>2. CASE offset + n <= buflen /\ out' = SubSeq(buf, offset + 1, offset + n) /\ offset' = offset + n
        <5>1. BufInv'
          BY <2>0, <3>0, <3>2, <4>2 DEF BufInv, BufGood
        <5>2. B!Stream!Next
          BY <2>0, <3>0, <3>2, <4>2, StreamRead
        <5> QED BY <5>1, <5>2
      <4>3. offset + n > buflen \/ offset + n <= buflen
        BY <2>t, <3>0
      <4> QED BY <3>2, <4>1, <4>2, <4>3 DEF B!GetBytes
    <3> QED BY <2>3, <3>1, <3>2 DEF B!Get
  <2>4. ASSUME NEW n \in Asked, B!GetStr(n) PROVE BufInv' /\ [B!Stream!Next]_(B!Stream!vars)
    <3>0. n \in Nat /\ UNCHANGED <<buf, maxlen, buflen>>
      BY <2>4 DEF BufAssumed, B!GetStr
    <3>1. CASE buffault' = "outside" /\ UNCHANGED <<out, offset, call>>
      <4>1. BufInv'
        BY <3>1 DEF BufInv
      <4> QED BY <1>1, <3>0, <3>1, <4>1
    <3>2. CASE /\ offset + n > buflen /\ out' = Wrong /\ offset' = buflen
               /\ call' = <<"read", n>> /\ buffault' = buffault
      <4>1. BufInv'
        BY <2>0, <2>t, <3>0, <3>2 DEF BufInv, BufGood
      <4>2. B!Stream!Next
        BY <2>0, <3>0, <3>2, StreamRefuse
      <4> QED BY <4>1, <4>2
    <3>3. CASE /\ offset + n <= buflen /\ out' = SubSeq(buf, offset + 1, offset + n) /\ offset' = offset + n
               /\ call' = <<"read", n>> /\ buffault' = buffault
      <4>1. BufInv'
        BY <2>0, <3>0, <3>3 DEF BufInv, BufGood
      <4>2. B!Stream!Next
        BY <2>0, <3>0, <3>3, StreamRead
      <4> QED BY <4>1, <4>2
    <3>4. offset + n > buflen \/ offset + n <= buflen
      BY <2>t, <3>0
    <3>5. ~(offset + n > buflen) => offset + n <= buflen
      BY <2>t, <3>0
    <3> QED BY <2>4, <3>1, <3>2, <3>3, <3>5 DEF B!GetStr
  <2>5. ASSUME buflen' = 0, offset' = 0, call' = <<"load", <<>>>>, out' = out, BufInv'
        PROVE  BufInv' /\ [B!Stream!Next]_(B!Stream!vars)
    <3>1. SubSeq(buf', 1, buflen') = <<>>
      BY <2>5
    <3>2. B!Stream!Load(<<>>)
      BY <2>5, <3>1 DEF B!Stream!Load
    <3> QED BY <2>5, <3>2 DEF B!Stream!Next
  <2>6. CASE B!Clear
    <3>1. BufInv'
      BY <2>0, <2>t, <2>6 DEF B!Clear, BufInv, BufGood
    <3> QED BY <2>5, <2>6, <3>1 DEF B!Clear
  <2>7. CASE B!Destory
    <3>1. buf' = <<>> /\ maxlen' = 0 /\ buflen' = 0 /\ offset' = 0 /\ buffault' = buffault
      BY <2>7 DEF B!Destory
    <3>2. <<>> \in Mem /\ Len(<<>>) = 0
      BY DEF Mem
    <3>3. BufInv'
      BY <2>0, <3>1, <3>2 DEF BufInv, BufGood
    <3> QED BY <2>5, <2>7, <3>3 DEF B!Destory
  <2> QED BY <1>3, <2>1, <2>2, <2>3, <2>4, <2>6, <2>7 DEF B!Next
<1> QED BY <1>2, <1>3

\* The memory, lengths and capacities of zbuf.c implement a stream of bytes, for any
\* bytes, pieces of them and widths of a length.
THEOREM BufImplementsStream == ASSUME BufAssumed PROVE B!Spec => BufIsStream
<1>1. B!Init => BufInv /\ B!Stream!Init
  <2> SUFFICES ASSUME B!Init PROVE BufInv /\ B!Stream!Init
    OBVIOUS
  <2>1. /\ buf = [n \in 1 .. InitLen |-> Junk] /\ maxlen = InitLen
        /\ buflen = 0 /\ offset = 0 /\ out = Wrong /\ call = <<"load", <<>>>>
        /\ buffault = "none" /\ InitLen \in Nat
    BY DEF B!Init, B!Fresh, BufAssumed
  <2>2. buf \in Mem /\ Len(buf) = InitLen
    <3>1. buf \in [1 .. InitLen -> Byte \cup {Junk}]
      BY <2>1
    <3>2. InitLen \in Nat
      BY <2>1
    <3> QED BY <3>1, <3>2 DEF Mem
  <2>3. SubSeq(buf, 1, buflen) = <<>>
    BY <2>1
  <2> QED BY <2>1, <2>2, <2>3 DEF BufInv, BufGood, B!Stream!Init
<1>2. BufInv /\ [B!Next]_(B!vars) => BufInv' /\ [B!Stream!Next]_(B!Stream!vars)
  BY BufStep
<1>3. BufInv => B!LengthsNest /\ B!NoOverrun
  BY DEF BufInv, BufGood, B!LengthsNest, B!NoOverrun
<1> QED BY <1>1, <1>2, <1>3, PTL DEF B!Spec, B!Stream!Spec, BufIsStream

-----------------------------------------------------------------------------
(* The deletion of the module beside threads that leave its list.          *)

\* Where the thread behind s, or the first for 0, is linked.
Slot(s) == IF s = 0 THEN head ELSE next[s]

SdTypes ==
  /\ head \in 0 .. NThrs /\ next \in [Shut!Thrs -> 0 .. NThrs] /\ run \in [Shut!Thrs -> BOOLEAN]
  /\ thrat \in [Shut!Thrs -> {"serve", "link", "free", "gone"}] /\ prev \in [Shut!Thrs -> 0 .. NThrs]
  /\ del \in [at : {"stop", "tell", "next", "freed", "fault"}, thr : 0 .. NThrs]

\* A thread leaves when it was told to, and what it has found to be its predecessor
\* is that until it has linked: two that leave never write one link.
Leaves ==
  /\ \A t \in Shut!Thrs : thrat[t] # "serve" => ~run[t]
  /\ \A t \in Shut!Thrs : thrat[t] = "link" => Slot(prev[t]) = t

\* No link, not even of a thread that is out of the list, skips one not told yet.
NoneSkipped == \A s \in 0 .. NThrs : \A t \in Shut!Thrs : run[t] /\ s < t => Slot(s) # 0 /\ Slot(s) <= t

\* Behind the walk all are told.
Told ==
  /\ del.at = "tell" => \A t \in Shut!Thrs : run[t] => del.thr # 0 /\ del.thr <= t
  /\ del.at = "next" => del.thr # 0 /\ \A t \in Shut!Thrs : run[t] => del.thr < t
  /\ del.at = "freed" => \A t \in Shut!Thrs : ~run[t]

SdInv == SdTypes /\ Leaves /\ NoneSkipped /\ Told

\* Every step of the deletion and of a thread that leaves keeps the invariant.
LEMMA SdStep == ASSUME NThrs \in Nat \ {0}, SdInv, [Shut!Next]_(Shut!vars) PROVE SdInv'
<1>t. Shut!Thrs = 1 .. NThrs
  BY DEF Shut!Thrs
<1>0. SdTypes /\ Leaves /\ NoneSkipped /\ Told
  BY DEF SdInv
<1>1. CASE UNCHANGED (Shut!vars)
  BY <1>0, <1>1 DEF Shut!vars, SdInv, SdTypes, Leaves, NoneSkipped, Told, Slot
<1>f. ASSUME Shut!Fault, UNCHANGED <<head, next, run, thrat, prev>> PROVE SdInv'
  BY <1>0, <1>f DEF Shut!Fault, SdInv, SdTypes, Leaves, NoneSkipped, Told, Slot
<1>2. ASSUME NEW t \in Shut!Thrs, Shut!Leave(t) PROVE SdInv'
  <2>1. CASE Shut!Fault /\ UNCHANGED <<thrat, prev>>
    BY <1>2, <1>f, <2>1 DEF Shut!Leave
  <2>2. CASE ~(Shut!Fault /\ UNCHANGED <<thrat, prev>>)
    <3>1. PICK q : q = {x \in Shut!List : next[x] = t}
      OBVIOUS
    <3>2. PICK p : p = IF head = t \/ q = {} THEN 0 ELSE CHOOSE x \in q : TRUE
      OBVIOUS
    <3>3. /\ ~run[t] /\ UNCHANGED <<head, next, run, del>>
          /\ prev' = [prev EXCEPT ![t] = p]
          /\ thrat' = [thrat EXCEPT ![t] = IF head = t \/ q # {} THEN "link" ELSE "free"]
      BY <1>2, <2>2, <3>1, <3>2 DEF Shut!Leave
    <3>4. p \in 0 .. NThrs /\ (thrat'[t] = "link" => Slot(p) = t)
      <4>1. q # {} => (CHOOSE x \in q : TRUE) \in q
        OBVIOUS
      <4>2. \A x \in q : x \in 1 .. NThrs /\ next[x] = t
        BY <1>t, <3>1 DEF Shut!List
      <4>3. (head = t \/ q # {}) => Slot(p) = t
        BY <3>2, <4>1, <4>2 DEF Slot
      <4>4. thrat'[t] = "link" => head = t \/ q # {}
        BY <1>0, <3>3 DEF SdTypes
      <4>5. p \in 0 .. NThrs
        BY <3>2, <4>1, <4>2
      <4> QED BY <4>3, <4>4, <4>5
    <3>5. SdTypes'
      BY <1>0, <3>3, <3>4 DEF SdTypes
    <3>6. Leaves'
      BY <1>0, <3>3, <3>4 DEF SdTypes, Leaves, Slot
    <3> QED BY <1>0, <3>3, <3>5, <3>6 DEF SdInv, NoneSkipped, Told, Slot
  <2> QED BY <2>1, <2>2
<1>3. ASSUME NEW x \in Shut!Thrs, Shut!Unlink(x) PROVE SdInv'
  <2>1. CASE Shut!Fault /\ UNCHANGED <<head, next, thrat>>
    BY <1>3, <1>f, <2>1 DEF Shut!Unlink
  <2>2. CASE ~(Shut!Fault /\ UNCHANGED <<head, next, thrat>>)
    <3>1. PICK p : p = prev[x]
      OBVIOUS
    <3>2. /\ thrat[x] = "link" /\ thrat' = [thrat EXCEPT ![x] = "free"] /\ UNCHANGED <<run, prev, del>>
          /\ IF p = 0 THEN head' = next[x] /\ UNCHANGED next
             ELSE next' = [next EXCEPT ![p] = next[x]] /\ UNCHANGED head
      BY <1>3, <2>2, <3>1 DEF Shut!Unlink, Shut!After
    <3>3. /\ p \in 0 .. NThrs /\ Slot(p) = x /\ ~run[x] /\ next[x] = Slot(x) /\ x # 0
          /\ next[x] \in 0 .. NThrs
      BY <1>0, <1>t, <3>1, <3>2 DEF SdTypes, Leaves, Slot
    <3>4. Slot(p)' = Slot(x) /\ \A s \in 0 .. NThrs : s # p => Slot(s)' = Slot(s)
      BY SMTT(20), <1>0, <1>t, <3>2, <3>3 DEF SdTypes, Slot
    <3>5. SdTypes'
      BY <1>0, <1>t, <3>2, <3>3 DEF SdTypes
    <3>6. Leaves'
      <4>1. ASSUME NEW t \in Shut!Thrs, thrat'[t] = "link" PROVE Slot(prev[t])' = t
        <5>1. t # x /\ thrat[t] = "link" /\ Slot(prev[t]) = t /\ prev[t] # p /\ prev'[t] = prev[t]
          BY <1>0, <3>2, <3>3, <4>1 DEF SdTypes, Leaves
        <5>2. prev[t] \in 0 .. NThrs
          BY <1>0 DEF SdTypes
        <5>3. PICK y : y = prev[t]
          OBVIOUS
        <5>4. Slot(y)' = t
          BY <3>4, <5>1, <5>2, <5>3
        <5> QED BY <3>2, <5>3, <5>4
      <4>2. ASSUME NEW t \in Shut!Thrs, thrat'[t] # "serve" PROVE ~run'[t]
        BY <1>0, <3>2, <3>3, <4>2 DEF SdTypes, Leaves
      <4> QED BY <3>2, <4>1, <4>2 DEF Leaves, Slot
    <3>7. NoneSkipped'
      <4> SUFFICES ASSUME NEW s \in 0 .. NThrs, NEW t \in Shut!Thrs, run[t], s < t
                   PROVE  Slot(s)' # 0 /\ Slot(s)' <= t
        BY <3>2 DEF NoneSkipped, Slot
      <4>1. CASE s # p
        BY <1>0, <3>4, <4>1 DEF NoneSkipped
      <4>2. CASE s = p
        <5>1. x <= t /\ x # t
          BY <1>0, <3>3, <4>2 DEF NoneSkipped
        <5>2. x < t /\ x \in 0 .. NThrs
          BY <1>t, <5>1
        <5> QED BY <1>0, <3>4, <4>2, <5>2 DEF NoneSkipped
      <4> QED BY <4>1, <4>2
    <3> QED BY <1>0, <3>2, <3>5, <3>6, <3>7 DEF SdInv, Told
  <2> QED BY <2>1, <2>2
<1>4. ASSUME NEW t \in Shut!Thrs, Shut!Free(t) PROVE SdInv'
  <2>1. /\ thrat[t] = "free" /\ thrat' = [thrat EXCEPT ![t] = "gone"] /\ UNCHANGED <<head, next, run, prev, del>>
    BY <1>4 DEF Shut!Free
  <2>2. SdTypes' /\ Leaves'
    BY <1>0, <2>1 DEF SdTypes, Leaves, Slot
  <2> QED BY <1>0, <2>1, <2>2 DEF SdInv, NoneSkipped, Told, Slot
<1>5. CASE Shut!WalkStart
  <2>1. del' = [at |-> "tell", thr |-> head] /\ UNCHANGED <<head, next, run, thrat, prev>> /\ head = Slot(0)
    BY <1>5 DEF Shut!WalkStart, Slot
  <2>2. Told'
    BY <1>0, <1>t, <2>1 DEF NoneSkipped, Told, SdTypes
  <2> QED BY <1>0, <2>1, <2>2 DEF SdInv, SdTypes, Leaves, NoneSkipped, Slot
<1>6. CASE Shut!WalkTell
  <2>1. CASE Shut!Fault /\ UNCHANGED run
    BY <1>6, <1>f, <2>1 DEF Shut!WalkTell
  <2>2. CASE ~(Shut!Fault /\ UNCHANGED run)
    <3>1. PICK c : c = del.thr
      OBVIOUS
    <3>2. /\ del.at = "tell" /\ c # 0 /\ run' = [run EXCEPT ![c] = FALSE]
          /\ del' = [del EXCEPT !.at = "next"] /\ UNCHANGED <<head, next, thrat, prev>>
      BY <1>6, <2>2, <3>1 DEF Shut!WalkTell
    <3>3. c \in Shut!Thrs /\ del'.at = "next" /\ del'.thr = c /\ SdTypes'
      BY <1>0, <1>t, <3>1, <3>2 DEF SdTypes
    <3>4. \A t \in Shut!Thrs : run'[t] => run[t] /\ t # c
      BY <1>0, <3>2, <3>3 DEF SdTypes
    <3>5. Told'
      BY <1>0, <1>t, <3>1, <3>2, <3>3, <3>4 DEF Told
    <3>6. Leaves' /\ NoneSkipped'
      BY <1>0, <3>2, <3>4 DEF Leaves, NoneSkipped, Slot
    <3> QED BY <3>3, <3>5, <3>6 DEF SdInv
  <2> QED BY <2>1, <2>2
<1>7. CASE Shut!WalkNext
  <2>1. CASE Shut!Fault
    BY <1>7, <1>f, <2>1 DEF Shut!WalkNext
  <2>2. CASE ~Shut!Fault
    <3>1. PICK c : c = del.thr
      OBVIOUS
    <3>2. /\ del.at = "next" /\ del' = [at |-> "tell", thr |-> next[c]]
          /\ UNCHANGED <<head, next, run, thrat, prev>>
      BY <1>7, <2>2, <3>1 DEF Shut!WalkNext
    <3>3. c \in 0 .. NThrs /\ c # 0 /\ next[c] = Slot(c) /\ next[c] \in 0 .. NThrs
      BY <1>0, <1>t, <3>1, <3>2 DEF SdTypes, Told, Slot
    <3>4. Told'
      BY <1>0, <3>1, <3>2, <3>3 DEF Told, NoneSkipped
    <3> QED BY <1>0, <3>2, <3>3, <3>4 DEF SdInv, SdTypes, Leaves, NoneSkipped, Slot
  <2> QED BY <2>1, <2>2
<1>8. CASE Shut!ModuleFree
  <2>1. /\ del.at = "tell" /\ del.thr = 0 /\ del' = [at |-> "freed", thr |-> 0]
        /\ UNCHANGED <<head, next, run, thrat, prev>>
    BY <1>8 DEF Shut!ModuleFree
  <2> QED BY <1>0, <2>1 DEF SdInv, SdTypes, Leaves, NoneSkipped, Told, Slot
<1> QED BY <1>1, <1>2, <1>3, <1>4, <1>5, <1>6, <1>7, <1>8 DEF Shut!Next

\* When zcrt_module_delete has walked the list, every schedule thread of the module
\* was told to stop, for any number of threads and whichever leave the list, and
\* free themselves, around the walk; unless memory that is freed was touched.
THEOREM AllThreadsTold == ASSUME NThrs \in Nat \ {0} PROVE Shut!Spec => []ShutdownTellsAll
<1>1. Shut!Init => SdInv
  <2> SUFFICES ASSUME Shut!Init PROVE SdInv
    OBVIOUS
  <2>1. /\ head = 1 /\ next = [t \in Shut!Thrs |-> IF t = NThrs THEN 0 ELSE t + 1]
        /\ run \in [Shut!Thrs -> BOOLEAN]
        /\ thrat = [t \in Shut!Thrs |-> "serve"] /\ prev = [t \in Shut!Thrs |-> 0]
        /\ del = [at |-> "stop", thr |-> 0]
    BY DEF Shut!Init
  <2>2. SdTypes
    BY <2>1 DEF SdTypes, Shut!Thrs
  <2>3. NoneSkipped
    BY <2>1 DEF NoneSkipped, Slot, Shut!Thrs
  <2> QED BY <2>1, <2>2, <2>3 DEF SdInv, Leaves, Told
<1>2. SdInv /\ [Shut!Next]_(Shut!vars) => SdInv'
  BY SdStep
<1>3. SdInv => ShutdownTellsAll
  BY DEF SdInv, Told, Shut!AllTold, ShutdownTellsAll
<1> QED BY <1>1, <1>2, <1>3, PTL DEF Shut!Spec
=============================================================================
