----------------------------- MODULE ArrayList -----------------------------
(***************************************************************************)
(* The growing array (zcrtlib/zarraylist.c): len of its alloced cells are  *)
(* in use.  A cell holds a value, 0 when memset cleared it, or Junk.       *)
(***************************************************************************)
EXTENDS Naturals, Sequences

CONSTANTS
  Vals,         \* what users store in a cell
  Junk,         \* what a cell holds that nobody has written
  Sizes, Steps, \* arguments of zarray_new
  MaxLen        \* bound: the length

VARIABLES
  data,         \* the cells at v->data, alloced of them
  alloced, len, step,
  stored,       \* what each cell has to hold: what was last stored in it, before that
                \* 0 in a cell that growth makes and Junk in one of zarray_new's
  fault
vars == <<data, alloced, len, step, stored, fault>>

Idx == 1 .. MaxLen

\* zarray_new: at least one cell; the cells are not cleared.
Init ==
  \E size \in Sizes :
    /\ alloced = (IF size = 0 THEN 1 ELSE size)
    /\ data = [i \in 1 .. alloced |-> Junk]
    /\ len = 0
    /\ step \in Steps
    /\ stored = [i \in Idx |-> IF i <= alloced THEN Junk ELSE 0]
    /\ fault = "none"

\* How far zarray_setlength(v, n) grows the array, when n reaches alloced.
Grown(n) == IF n - alloced < step THEN alloced + step ELSE n

\* Mutant: the new cells are not cleared.
CellsUncleared(n) == IF alloced > n THEN data ELSE [i \in 1 .. Grown(n) |-> IF i <= alloced THEN data[i] ELSE Junk]
\* The cells after zarray_setlength(v, n): a shorter array keeps all of its own, a
\* longer one keeps them too, and memset clears the new ones.
Cells(n) == IF alloced > n THEN data ELSE [i \in 1 .. Grown(n) |-> IF i <= alloced THEN data[i] ELSE 0]

\* zarray_setlength, and then cells; without memory the new cells are cleared
\* through NULL.
SetLength(n, cells) ==
  /\ len' = n
  /\ alloced' = IF alloced > n THEN alloced ELSE Grown(n)
  /\ \/ data' = cells /\ UNCHANGED fault
     \/ alloced <= n /\ data' = <<>> /\ fault' = "null"
  /\ UNCHANGED step

Resize == \E n \in 0 .. MaxLen : SetLength(n, Cells(n)) /\ UNCHANGED stored

\* zarray_decrease; of an empty array the length wraps and an assertion fails.
Decrease ==
  /\ IF len = 0 THEN fault' = "assert" /\ UNCHANGED <<data, alloced, len, step>>
     ELSE SetLength(len - 1, Cells(len - 1))
  /\ UNCHANGED stored

\* zarray_get, and a store through it; an index from len on gives NULL.
Store(i, v) ==
  /\ i <= len
  /\ data' = [data EXCEPT ![i] = v]
  /\ stored' = [stored EXCEPT ![i] = v]
  /\ UNCHANGED <<alloced, len, step, fault>>

\* zarray_increase, ZARRAY_APPEND: one longer, and a store into the last cell.
Increase(v) ==
  /\ len < MaxLen
  /\ SetLength(len + 1, [Cells(len + 1) EXCEPT ![len + 1] = v])
  /\ stored' = [stored EXCEPT ![len + 1] = v]

Next == fault = "none" /\ (Resize \/ Decrease \/ \E v \in Vals : (\E i \in Idx : Store(i, v)) \/ Increase(v))

Spec == Init /\ [][Next]_vars

-----------------------------------------------------------------------------
\* However the array grows and shrinks, its cells are there, each holds what was last
\* stored in it, and one that growth has made and nobody has stored in is clear; only
\* those of zarray_new are not.  Nothing is said once memory ran out (fault "null").
ArrayKeeps ==
  fault = "none" =>
    /\ len <= alloced /\ DOMAIN data = 1 .. alloced
    /\ \A i \in Idx : i <= alloced => data[i] = stored[i]
=============================================================================
