------------------------------ MODULE KernelMem ------------------------------
(***************************************************************************)
(* The kernel port's memory functions (zcrtlib/zcrt_mem_kernal.c), which   *)
(* keep a list of the blocks they have handed out.  The lock of that list  *)
(* covers one look or one change; the allocation itself, the look and the  *)
(* change are steps of their own, between which other threads run and the  *)
(* kernel may hand out an address again that was just freed.               *)
(***************************************************************************)
EXTENDS Naturals, SequencesExt

CONSTANTS
  Threads,
  Ptrs,         \* bound: the addresses kmalloc can return
  MaxSize,      \* bound: the sizes asked for
  Shrink        \* somebody reallocates to less; no caller of the library does

VARIABLES
  kmem,         \* per address, the size kmalloc gave out, 0 when it is free
  blocks,       \* memblock_list, from its head
  owned,        \* what each thread was given and has not given back
  at,           \* the step each thread is at
  fault
vars == <<kmem, blocks, owned, at, fault>>

Free == {p \in Ptrs : kmem[p] = 0}
Sizes == 1 .. MaxSize
Rest == [op |-> "rest"]

Init == /\ kmem = [p \in Ptrs |-> 0] /\ blocks = <<>>
        /\ owned = [t \in Threads |-> {}] /\ at = [t \in Threads |-> Rest] /\ fault = "none"

Goes(t, a) == at' = [at EXCEPT ![t] = a]
Resting(t) == at[t].op = "rest"

\* memblock_get: the first block with the address.
BlockOf(p) == SelectInSeq(blocks, LAMBDA b : b.ptr = p)

\* zcrt_malloc, or zcrt_realloc of NULL: kmalloc; without memory NULL is returned.
MallocTake(t, s) ==
  /\ Resting(t)
  /\ \E p \in Free : kmem' = [kmem EXCEPT ![p] = s] /\ Goes(t, [op |-> "add", new |-> p, old |-> {}])
  /\ UNCHANGED <<blocks, owned, fault>>

\* zcrt_realloc: the block is looked up; at the same size the pointer is returned,
\* else new memory is taken and the old size of bytes copied into it.
ReallocTake(t, p, s) ==
  /\ Resting(t) /\ p \in owned[t] /\ s # blocks[BlockOf(p)].size
  /\ Shrink \/ s > blocks[BlockOf(p)].size
  /\ \E n \in Free : /\ kmem' = [kmem EXCEPT ![n] = s]
                     /\ Goes(t, [op |-> "add", new |-> n, old |-> {p}])
  /\ fault' = IF blocks[BlockOf(p)].size > s THEN "overrun" ELSE fault
  /\ UNCHANGED <<blocks, owned>>

\* memblock_add; without memory for the block the new memory is freed again.
AddFails(t) ==
  /\ kmem' = [kmem EXCEPT ![at[t].new] = 0]
  /\ Goes(t, Rest)
  /\ UNCHANGED <<blocks, owned>>

Add(t) ==
  /\ at[t].op = "add"
  /\ \/ AddFails(t)
     \/ /\ blocks' = <<[ptr |-> at[t].new, size |-> kmem[at[t].new]]>> \o blocks
        /\ owned' = [owned EXCEPT ![t] = @ \cup {at[t].new}]
        /\ IF at[t].old = {} THEN Goes(t, Rest)
           ELSE \E p \in at[t].old : Goes(t, [op |-> "del", ptr |-> p])
        /\ UNCHANGED kmem
  /\ UNCHANGED fault

\* zcrt_free, and zcrt_realloc to nothing: the block is looked up ...
FreeGet(t, p) ==
  /\ Resting(t) /\ p \in owned[t]
  /\ Goes(t, [op |-> "del", ptr |-> p])
  /\ UNCHANGED <<kmem, blocks, owned, fault>>

\* ... and deleted (memblock_del) ...
Del(t) ==
  /\ at[t].op = "del"
  /\ blocks' = RemoveAt(blocks, BlockOf(at[t].ptr))
  /\ owned' = [owned EXCEPT ![t] = @ \ {at[t].ptr}]
  /\ Goes(t, [op |-> "free", ptr |-> at[t].ptr])
  /\ UNCHANGED <<kmem, fault>>

\* ... and only then is the memory freed, and may be handed out again.
KFree(t) ==
  /\ at[t].op = "free"
  /\ kmem' = [kmem EXCEPT ![at[t].ptr] = 0]
  /\ Goes(t, Rest)
  /\ UNCHANGED <<blocks, owned, fault>>

Next ==
  /\ fault = "none"
  /\ \E t \in Threads :
       \/ \E s \in Sizes : MallocTake(t, s) \/ \E p \in Ptrs : ReallocTake(t, p, s)
       \/ \E p \in Ptrs : FreeGet(t, p)
       \/ Add(t) \/ Del(t) \/ KFree(t)

Spec == Init /\ [][Next]_vars

-----------------------------------------------------------------------------
InFlight == UNION {CASE at[t].op = "add" -> {at[t].new} [] at[t].op = "free" -> {at[t].ptr} [] OTHER -> {} : t \in Threads}

\* Whatever the threads do to the list, it holds one block for each pointer that is
\* in use, with its size, and no other; memory is in use, on its way, or free; and
\* no copy leaves its memory.
MemExact ==
  /\ {blocks[i].ptr : i \in DOMAIN blocks} = UNION {owned[t] : t \in Threads}
  /\ \A i, j \in DOMAIN blocks : blocks[i].ptr = blocks[j].ptr => i = j
  /\ \A i \in DOMAIN blocks : blocks[i].size = kmem[blocks[i].ptr]
  /\ Ptrs \ Free = (UNION {owned[t] : t \in Threads}) \cup InFlight
  /\ ~Shrink => fault = "none"
=============================================================================
