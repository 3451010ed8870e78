----------------------------- MODULE ByteStream -----------------------------
(***************************************************************************)
(* What a ZBuf promises those who append to it and read from it: a         *)
(* sequence of bytes that grows at its end and a position in it.  call     *)
(* names the last call and what it was given, so that a step says which    *)
(* bytes went in and how many were asked for.                              *)
(***************************************************************************)
EXTENDS Naturals, Sequences

CONSTANTS
  Pieces,       \* what is put in at a time
  Lengths,      \* how many bytes are asked for at a time
  Wrong         \* the result of a read that is refused

VARIABLES data, pos, call, out    \* out: the bytes the last read returned
vars == <<data, pos, call, out>>

Init == data = <<>> /\ pos = 0 /\ call = <<"load", <<>>>> /\ out = Wrong

\* s goes behind the bytes there are.
Extend(s) == call' = <<"append", s>> /\ data' = data \o s /\ UNCHANGED <<pos, out>>

\* s is a message that replaces them; an empty one clears the stream.
Load(s) == call' = <<"load", s>> /\ data' = s /\ pos' = 0 /\ UNCHANGED out

\* n bytes are read, or fewer are left, or none are asked for: then the position
\* stays or goes to the end.
Read(n) == /\ call' = <<"read", n>>
           /\ pos + n <= Len(data)
           /\ out' = SubSeq(data, pos + 1, pos + n)
           /\ pos' = pos + n
           /\ UNCHANGED data
Refuse(n) == /\ call' = <<"read", n>>
             /\ n = 0 \/ pos + n > Len(data)
             /\ out' = Wrong
             /\ pos' \in {pos, Len(data)}
             /\ UNCHANGED data

Next == \/ \E s \in Pieces \cup {<<>>} : Extend(s) \/ Load(s)
        \/ \E n \in Lengths : Read(n) \/ Refuse(n)

Spec == Init /\ [][Next]_vars
=============================================================================
