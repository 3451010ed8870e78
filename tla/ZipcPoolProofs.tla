--------------------------- MODULE ZipcPoolProofs ---------------------------
(***************************************************************************)
(* Lemmas about ZipcPool that the proofs of both ipc servers rest on: what *)
(* Malloc returns, what a schedule's queue looks like after a job was sent *)
(* or taken, and how many buffers the jobs of a queue carry.               *)
(***************************************************************************)
EXTENDS ZipcPool, FiniteSetTheorems, TLAPS

\* zipc_buf_malloc returns a buffer of the free list, one of the heap, or NULL.
LEMMA MallocType ==
  ASSUME freebuf \subseteq Bufs, heap \subseteq Bufs
  PROVE  Malloc \in Bufs \cup {NoBuf} /\ NoBuf \notin Bufs
<1>1. Malloc \in freebuf \cup heap \cup {NoBuf}
  BY DEF Malloc
<1>2. NoBuf \notin Bufs
  BY PoolAssumption DEF NoBuf, Bufs
<1> QED BY <1>1, <1>2

\* A job that is put last, as _zipc_client_thread and its kin put them.
LEMMA SendJobType ==
  ASSUME NEW S, NEW q \in Seq(S), NEW j \in S
  PROVE  /\ SendJob(q, j) \in Seq(S)
         /\ Len(SendJob(q, j)) = Len(q) + 1
         /\ Len(q) \in Nat /\ DOMAIN q = 1 .. Len(q) /\ DOMAIN SendJob(q, j) = 1 .. Len(q) + 1
         /\ \A i \in 1 .. Len(q) : SendJob(q, j)[i] = q[i]
         /\ SendJob(q, j)[Len(q) + 1] = j
  BY DEF SendJob

\* r is the queue q with the job j behind it.
Behind(r, q, j) ==
  /\ Len(q) \in Nat /\ DOMAIN q = 1 .. Len(q) /\ DOMAIN r = 1 .. Len(q) + 1
  /\ \A i \in DOMAIN r : (i \in DOMAIN q /\ r[i] = q[i]) \/ (i = Len(q) + 1 /\ r[i] = j)

\* The same of SendJob, as one fact.
LEMMA SentBehind ==
  ASSUME NEW S, NEW q \in Seq(S), NEW j \in S
  PROVE  Behind(SendJob(q, j), q, j)
  BY DEF SendJob, Behind

\* The job a schedule runs next, and those that stay.
LEMMA TailType ==
  ASSUME NEW S, NEW q \in Seq(S), q # <<>>
  PROVE  /\ Head(q) \in S /\ Head(q) = q[1]
         /\ Tail(q) \in Seq(S)
         /\ Len(Tail(q)) = Len(q) - 1 /\ Len(q) \in Nat \ {0}
         /\ \A i \in 1 .. Len(Tail(q)) : Tail(q)[i] = q[i + 1]
  OBVIOUS

-----------------------------------------------------------------------------
(* Buffers.                                                                *)

\* No two jobs of a queue carry the same buffer.
Distinct(q) == \A i, k \in DOMAIN q : q[i].buf = q[k].buf => i = k

\* A job that is sent brings its buffer, one that is taken takes its own along.
LEMMA BufSent ==
  ASSUME NEW S, NEW q \in Seq(S), NEW j \in S, Distinct(q), j.buf \notin BufsOf(q)
  PROVE  Distinct(SendJob(q, j)) /\ BufsOf(SendJob(q, j)) = BufsOf(q) \cup {j.buf}
<1> DEFINE r == SendJob(q, j)
<1>1. /\ DOMAIN q = 1 .. Len(q) /\ Len(q) \in Nat /\ DOMAIN r = 1 .. Len(q) + 1
      /\ \A i \in 1 .. Len(q) : r[i] = q[i]
      /\ r[Len(q) + 1] = j
  BY DEF SendJob
<1> HIDE DEF r
<1>2. \A i \in 1 .. Len(q) : q[i].buf # j.buf
  BY <1>1 DEF BufsOf
<1>3. Distinct(r)
  BY <1>1, <1>2 DEF Distinct
<1>4. BufsOf(r) = BufsOf(q) \cup {j.buf}
  BY <1>1 DEF BufsOf
<1> QED BY <1>3, <1>4 DEF r

\* Taking a job off a queue takes its buffer, and no other.
LEMMA BufTaken ==
  ASSUME NEW S, NEW q \in Seq(S), q # <<>>, Distinct(q)
  PROVE  /\ Distinct(Tail(q))
         /\ BufsOf(Tail(q)) = BufsOf(q) \ {Head(q).buf}
         /\ Head(q).buf \in BufsOf(q)
<1> DEFINE r == Tail(q)
<1>1. /\ r \in Seq(S) /\ Head(q) = q[1] /\ Len(q) \in Nat \ {0} /\ Len(r) = Len(q) - 1
      /\ DOMAIN q = 1 .. Len(q) /\ DOMAIN r = 1 .. Len(r)
      /\ \A i \in 1 .. Len(r) : r[i] = q[i + 1]
  BY TailType
<1> HIDE DEF r
<1>2. ASSUME NEW i \in 1 .. Len(r), NEW k \in 1 .. Len(r), r[i].buf = r[k].buf PROVE i = k
  <2>1. i + 1 \in DOMAIN q /\ k + 1 \in DOMAIN q /\ q[i + 1].buf = q[k + 1].buf
    BY <1>1, <1>2
  <2>2. i + 1 = k + 1
    BY <2>1 DEF Distinct
  <2> QED BY <2>2
<1>3. BufsOf(r) = BufsOf(q) \ {Head(q).buf}
  <2>1. ASSUME NEW b \in BufsOf(r) PROVE b \in BufsOf(q) \ {Head(q).buf}
    <3>1. PICK i \in 1 .. Len(r) : b = r[i].buf
      BY <1>1, <2>1 DEF BufsOf
    <3>2. i + 1 \in DOMAIN q /\ 1 \in DOMAIN q /\ i + 1 # 1 /\ b = q[i + 1].buf
      BY <1>1, <3>1
    <3>3. b # q[1].buf
      BY <3>2 DEF Distinct
    <3> QED BY <1>1, <3>2, <3>3 DEF BufsOf
  <2>2. ASSUME NEW b \in BufsOf(q), b # Head(q).buf PROVE b \in BufsOf(r)
    <3>1. PICK k \in 1 .. Len(q) : b = q[k].buf
      BY <1>1, <2>2 DEF BufsOf
    <3>2. k - 1 \in DOMAIN r /\ r[k - 1] = q[k]
      BY <1>1, <2>2, <3>1
    <3> QED BY <3>1, <3>2 DEF BufsOf
  <2> QED BY <2>1, <2>2
<1>4. Head(q).buf \in BufsOf(q)
  BY <1>1 DEF BufsOf
<1> QED BY <1>1, <1>2, <1>3, <1>4 DEF r, Distinct

\* The sizes of two sets without a common element add up.
LEMMA Adds ==
  ASSUME NEW S, NEW T, IsFiniteSet(S), IsFiniteSet(T), S \cap T = {}
  PROVE  /\ IsFiniteSet(S \cup T)
         /\ Cardinality(S \cup T) = Cardinality(S) + Cardinality(T)
         /\ Cardinality(S) \in Nat /\ Cardinality(T) \in Nat
<1>1. Cardinality(S) \in Nat /\ Cardinality(T) \in Nat
  BY FS_CardinalityType
<1>2. Cardinality(S \cap T) = 0
  BY FS_EmptySet
<1>3. IsFiniteSet(S \cup T) /\ Cardinality(S \cup T) = Cardinality(S) + Cardinality(T) - Cardinality(S \cap T)
  BY FS_Union
<1> QED BY <1>1, <1>2, <1>3

\* A queue is as long as it has buffers.
LEMMA BufsOfQueue ==
  ASSUME NEW S, NEW q \in Seq(S), Distinct(q)
  PROVE  IsFiniteSet(BufsOf(q)) /\ Cardinality(BufsOf(q)) = Len(q)
<1> DEFINE D == 1 .. Len(q)
           f == [i \in D |-> q[i].buf]
<1>1. DOMAIN q = D /\ Len(q) \in Nat
  OBVIOUS
<1>2. IsFiniteSet(D) /\ Cardinality(D) = Len(q)
  BY <1>1, FS_Interval
<1>3. f \in Bijection(D, BufsOf(q))
  <2>1. f \in [D -> BufsOf(q)] /\ \A i \in D : f[i] = q[i].buf
    BY <1>1 DEF BufsOf
  <2>2. \A t \in BufsOf(q) : \E i \in D : f[i] = t
    BY <1>1 DEF BufsOf
  <2>3. \A i, k \in D : f[i] = f[k] => i = k
    BY <1>1 DEF Distinct
  <2> HIDE DEF D, f
  <2> QED BY <2>1, <2>2, <2>3 DEF Bijection, Injection, IsInjective, Surjection
<1> HIDE DEF D, f
<1>4. ExistsBijection(D, BufsOf(q))
  BY <1>3 DEF ExistsBijection
<1> QED BY <1>2, <1>4, FS_Bijection
=============================================================================
