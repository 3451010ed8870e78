-------------------------------- MODULE Buf --------------------------------
(***************************************************************************)
(* A message buffer (zcrtlib/zbuf.c).  Its lengths are of W bits, its      *)
(* bytes are abstract.  fault is set where the code writes or returns      *)
(* memory that is not the buffer's, and ends the execution.                *)
(***************************************************************************)
EXTENDS Naturals, Sequences

CONSTANTS
  Byte,         \* what a byte can be
  Junk,         \* what is in memory nobody has written
  Wrong,        \* NULL, or false
  W,            \* bits of a uint32_t
  Chunks,       \* what is appended or received at a time
  Asked,        \* how many bytes are asked for at a time
  InitLen,      \* len of zcrt_buf_init
  MaxLen        \* bound: bytes in the buffer

VARIABLES
  buf,          \* the memory at v->buf, <<>> for NULL
  maxlen, len, offset,
  out,          \* what the last read returned
  call,         \* ghost: what the last call was given, for the stream to compare with
  fault
vars == <<buf, maxlen, len, offset, out, call, fault>>

Fresh(n) == [i \in 1 .. n |-> Junk]

\* zcrt_buf_init.
Init == /\ buf = Fresh(InitLen) /\ maxlen = InitLen
        /\ len = 0 /\ offset = 0 /\ out = Wrong /\ call = <<"load", <<>>>> /\ fault = "none"

\* The loop of zcrt_buf_realloc: the least power of two beyond n + 1.
Powers == {c \in 1 .. 2 ^ W - 1 : \E k \in 0 .. W - 1 : c = 2 ^ k}
Cap(n) == CHOOSE c \in Powers : c > n + 1 /\ \A d \in Powers : d > n + 1 => c <= d

\* zcrt_buf_realloc(v, n): the memory afterwards; n is asked for, more is taken.
Realloc(n) ==
  IF n = 0 \/ maxlen >= n THEN buf
  ELSE [i \in 1 .. Cap(n) |-> IF i <= Len(buf) THEN buf[i] ELSE Junk]
NewMax(n) == IF maxlen < n THEN n ELSE maxlen

\* Mutant: memcpy to v->buf instead of v->buf + v->len.
WriteAtStart(m, at, s) == [i \in DOMAIN m |-> IF i \in 1 .. Len(s) THEN s[i] ELSE m[i]]
\* m with s written from position at on.
Write(m, at, s) == [i \in DOMAIN m |-> IF i \in at + 1 .. at + Len(s) THEN s[i - at] ELSE m[i]]

\* Call c writes s at position at of memory reallocated to n; without memory v->buf
\* is NULL (noMem), and the old memory is lost.
Store(c, n, at, s) ==
  \E noMem \in BOOLEAN :
    /\ noMem => n > maxlen
    /\ maxlen' = NewMax(n)
    /\ IF noMem \/ Len(Realloc(n)) < at + Len(s)
       THEN fault' = (IF noMem THEN "null" ELSE "overrun") /\ UNCHANGED <<buf, len, offset, call>>
       ELSE /\ buf' = Write(Realloc(n), at, s)
            /\ len' = n
            /\ call' = <<c, s>>
            /\ UNCHANGED fault

\* zcrt_buf_append.
BufAppend(s) ==
  /\ s # <<>> /\ len + Len(s) <= MaxLen
  /\ Store("append", len + Len(s), len, s)
  /\ UNCHANGED <<offset, out>>

\* How a client thread receives a payload, shorter than the buffer was made: from
\* the start (zipc_server_os.c:208-214).
Receive(s) ==
  /\ Len(s) < InitLen /\ InitLen <= maxlen
  /\ Store("load", Len(s), 0, s)
  /\ offset' = 0
  /\ UNCHANGED out

\* zcrt_buf_get.
GetBytes(n) ==
  IF n = 0 \/ offset + n > len THEN out' = Wrong /\ UNCHANGED offset
  ELSE out' = SubSeq(buf, offset + 1, offset + n) /\ offset' = offset + n

Get(n) ==
  /\ IF offset + n >= 2 ^ W THEN fault' = "outside" /\ UNCHANGED <<out, offset, call>>
     ELSE GetBytes(n) /\ call' = <<"read", n>> /\ UNCHANGED fault
  /\ UNCHANGED <<buf, maxlen, len>>

\* zcrt_buf_getstr.  The string it returns lies outside the buffer when offset + n
\* wraps.
GetStr(n) ==
  /\ IF offset + n >= 2 ^ W THEN fault' = "outside" /\ UNCHANGED <<out, offset, call>>
     ELSE /\ call' = <<"read", n>> /\ UNCHANGED fault
          /\ IF offset + n > len THEN out' = Wrong /\ offset' = len
             ELSE out' = SubSeq(buf, offset + 1, offset + n) /\ offset' = offset + n
  /\ UNCHANGED <<buf, maxlen, len>>

\* zcrt_buf_clear.
Clear == len' = 0 /\ offset' = 0 /\ call' = <<"load", <<>>>> /\ UNCHANGED <<buf, maxlen, out, fault>>

\* zcrt_buf_destory: the memory is freed and every field cleared.
Destory == /\ buf # <<>>
           /\ buf' = <<>> /\ maxlen' = 0 /\ len' = 0 /\ offset' = 0
           /\ call' = <<"load", <<>>>>
           /\ UNCHANGED <<out, fault>>

Next ==
  /\ fault = "none"
  /\ \/ \E s \in Chunks : BufAppend(s) \/ Receive(s)
     \/ \E n \in Asked : Get(n) \/ GetStr(n)
     \/ Clear \/ Destory

Spec == Init /\ [][Next]_vars

-----------------------------------------------------------------------------
\* Every length is within the one above it, the memory holds them all, and what is in
\* use of it has been written, however often it was grown, received into, cleared or
\* destroyed ...
LengthsNest ==
  fault = "none" =>
    /\ offset <= len /\ len <= maxlen /\ maxlen <= Len(buf)
    /\ \A i \in 1 .. len : buf[i] \in Byte

\* ... so that no call writes past it.
NoOverrun == fault # "overrun"

\* What each call was given is in the buffer, behind what was there or instead of it,
\* and is read in order, once, and nothing of what the memory held before.
Stream == INSTANCE ByteStream WITH Pieces <- Chunks, Lengths <- Asked, data <- SubSeq(buf, 1, len), pos <- offset
=============================================================================
