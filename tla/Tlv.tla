-------------------------------- MODULE Tlv --------------------------------
(***************************************************************************)
(* The coding of values in ipc messages (zipc/zipc_tlv.c) and the common   *)
(* header built from it (zipc/zipc_parse.c).  Numbers are written in       *)
(* groups of G bits, each in a byte of G + 1, at most five to an unsigned  *)
(* int and ten to a 64-bit one; in the code G is 7, W 32 and W64 64.       *)
(*                                                                         *)
(* A message is a record: its bytes b, and past, how many of the bytes     *)
(* behind them are marked, before one that is not: a buffer that is used   *)
(* again still holds some.  What reads a message at position p returns     *)
(* whether it succeeds, a value and a position.                            *)
(***************************************************************************)
EXTENDS Integers, SequencesExt, FiniteSetsExt

CONSTANTS G, W, W64

\* enum ETlvType, each a byte of its own.
NIL == 1
FALS == 2
TRU == 3
INT == 4
INT64 == 6
STR == 5
TABLE == 7

More == 2 ^ G                        \* 0x80
Signed(u, w) == IF u % 2 ^ w >= 2 ^ (w - 1) THEN (u % 2 ^ w) - 2 ^ w ELSE u % 2 ^ w

At(m, i) == IF i <= Len(m.b) THEN m.b[i] ELSE IF i <= Len(m.b) + m.past THEN More ELSE 1
Left(m, p) == Len(m.b) - p
Yes(v, p) == [ok |-> TRUE, v |-> v, pos |-> p]
No(p) == [ok |-> FALSE, v |-> 0, pos |-> p]

\* _zcrt_ZigZagEncode32, zcdr_Encode64 and their inverses.
ZigZag(n) == IF n >= 0 THEN 2 * n ELSE -2 * n - 1
ZagZig(u) == IF u % 2 = 0 THEN u \div 2 ELSE -((u + 1) \div 2)

\* _zcrt_tlv_write_len and zcdr_WriteLEN64: the least number of groups that hold u,
\* the low ones first, all but the last marked.
Groups(u) == CHOOSE k \in 1 .. 10 : u < 2 ^ (G * k) /\ (k = 1 \/ u >= 2 ^ (G * (k - 1)))
WriteLen(u) ==
  [i \in 1 .. Groups(u) |-> ((u \div 2 ^ (G * (i - 1))) % More) + (IF i < Groups(u) THEN More ELSE 0)]

\* The number in the groups from p on, of w bits, when the groups looked at are the
\* ones up to the first that is not marked, as long as they are in the set within.
ReadGroups(m, p, w, within) ==
  LET ends == {k \in within : /\ At(m, p + k) < More
                              /\ 1 .. k \subseteq within
                              /\ \A i \in 1 .. k - 1 : At(m, p + i) >= More}
      Part(i) == (At(m, p + i) % More) * 2 ^ (G * (i - 1))
  IN IF ends = {} THEN No(p)
     ELSE LET k == CHOOSE k \in ends : TRUE IN Yes(MapThenSumSet(Part, 1 .. k) % 2 ^ w, p + k)

\* _zcrt_tlv_read_len: 0 > limit-- lets it look at one byte behind the message.
\* Mutant: it looks at five bytes whatever the limit.
ReadLenFar(m, p) == ReadGroups(m, p, W, 1 .. 5)

ReadLen(m, p) == ReadGroups(m, p, W, {i \in 1 .. 5 : i - 1 <= Left(m, p)})

\* zcdr_ReadLEN64, which does not test the limit before the ninth byte.
ReadLen64(m, p) ==
  ReadGroups(m, p, W64, {i \in 1 .. 10 : IF i = 10 THEN 8 <= Left(m, p) ELSE i = 9 \/ i - 1 <= Left(m, p)})

-----------------------------------------------------------------------------
PutBool(b) == <<IF b THEN TRU ELSE FALS>>
PutInt(n) == <<INT>> \o WriteLen(ZigZag(n))

\* ztlv_put_int64, and ztlv_put_uint32 on an unsigned number.
\* _ZTLV_VAL_IS_INT32: the least int is not one of them.
IsInt32(n) == n <= 2 ^ (W - 1) - 1 /\ n >= -(2 ^ (W - 1) - 1)

PutInt64(n) == IF IsInt32(n) THEN PutInt(n) ELSE <<INT64>> \o WriteLen(ZigZag(n))

\* ztlv_put_lstring, ztlv_put_table_cnt, ztlv_put_array of ints.
PutString(s) == <<STR>> \o WriteLen(Len(s)) \o s
PutTable(n) == <<TABLE>> \o WriteLen(n)
PutArray(a) == PutTable(Len(a)) \o FlattenSeq([i \in DOMAIN a |-> PutInt(i) \o PutInt(a[i])])

GetType(m, p) == IF p + 1 > Len(m.b) THEN Yes(0, p) ELSE Yes(m.b[p + 1], p + 1)

GetBool(m, p) == LET t == GetType(m, p) IN IF t.v \in {TRU, FALS} THEN Yes(t.v = TRU, t.pos) ELSE No(t.pos)

\* ztlv_get_int, and ztlv_get_uint32 modulo 2^W; a wide number is cut.
GetInt(m, p) ==
  LET t == GetType(m, p)
      r == IF t.v = INT THEN ReadLen(m, t.pos) ELSE IF t.v = INT64 THEN ReadLen64(m, t.pos) ELSE No(t.pos)
  IN IF r.ok THEN Yes(Signed(ZagZig(r.v), W), r.pos) ELSE No(r.pos)

GetInt64(m, p) ==
  LET t == GetType(m, p)
      r == IF t.v = INT THEN ReadLen(m, t.pos) ELSE IF t.v = INT64 THEN ReadLen64(m, t.pos) ELSE No(t.pos)
  IN IF r.ok THEN Yes(ZagZig(r.v), r.pos) ELSE No(r.pos)

\* ztlv_get_string: a length that cannot be read is 0; zcrt_buf_getstr moves to the
\* end when the string is not all there, and backwards when the sum wraps.
GetString(m, p) ==
  LET t == GetType(m, p)
      n == ReadLen(m, t.pos)
      e == (n.pos + n.v) % 2 ^ W
  IN IF t.v # STR THEN No(t.pos)
     ELSE IF e > Len(m.b) THEN No(Len(m.b)) ELSE Yes(SubSeq(m.b, n.pos + 1, e), e)

GetTable(m, p) == LET t == GetType(m, p) IN IF t.v = TABLE THEN ReadLen(m, t.pos) ELSE No(t.pos)

\* The entries a loop over n of them comes to: each takes a byte, or ends it.
Entries(m, n) == [i \in 1 .. Min({n, Len(m.b) + 3}) |-> i]

\* ztlv_get_array of ints: each index is read and not looked at.
GetArray(m, p) ==
  LET n == GetTable(m, p)
      Item(r, i) == LET x == GetInt(m, r.pos)
                        v == GetInt(m, x.pos)
                    IN IF ~r.ok \/ ~x.ok \/ ~v.ok THEN No(r.pos) ELSE Yes(Append(r.v, v.v), v.pos)
  IN IF ~n.ok THEN n ELSE FoldLeft(Item, Yes(<<>>, n.pos), Entries(m, n.v))

\* ztlv_get_ignore: the type is taken, and ztlv_get_bool, _int or _string takes the
\* next byte for another.
GetIgnore(m, p) ==
  LET t == GetType(m, p)
  IN CASE t.v \in {TRU, FALS} -> GetBool(m, t.pos)
       [] t.v = INT           -> GetInt(m, t.pos)
       [] t.v = STR           -> GetString(m, t.pos)
       [] OTHER               -> No(t.pos)

-----------------------------------------------------------------------------
\* The keys of the common header, any others being an extension.
Sn == <<1>>
Req == <<2>>
Noti == <<3>>

\* zipc_encode_common_hdr, and the reply's, zipc_parse_put_reply_commonhdr.
EncodeHdr(h) == WriteLen(3) \o PutString(Sn) \o PutInt64(h.sn) \o PutString(Req) \o PutBool(h.req)
                \o PutString(Noti) \o PutBool(h.noti)
ReplyHdr(h) == WriteLen(2) \o PutString(Sn) \o PutInt64(h.sn) \o PutString(Req) \o PutBool(h.req)

\* zipc_parse_common_hdr.
NoHdr == [sn |-> 0, req |-> FALSE, noti |-> FALSE]

ParseHdr(m, p) ==
  LET n == ReadLen(m, p)
      Take(r, key, got) == IF got.ok THEN Yes([r.v EXCEPT ![key] = got.v], got.pos) ELSE No(got.pos)
      Entry(r, i) ==
        LET k == GetString(m, r.pos)
        IN CASE ~r.ok     -> r
             [] r.ok /\ ~k.ok -> No(k.pos)
             [] r.ok /\ k.ok /\ k.v = Sn   -> Take(r, "sn", GetInt(m, k.pos))
             [] r.ok /\ k.ok /\ k.v = Req  -> Take(r, "req", GetBool(m, k.pos))
             [] r.ok /\ k.ok /\ k.v = Noti -> Take(r, "noti", GetBool(m, k.pos))
             [] OTHER     -> Yes(r.v, GetIgnore(m, k.pos).pos)
  IN IF ~n.ok THEN n ELSE FoldLeft(Entry, Yes(NoHdr, n.pos), Entries(m, n.v))

-----------------------------------------------------------------------------
\* How a value x of each kind is written, and read at p.
Put(kind, x) ==
  CASE kind = "int"    -> PutInt(x)
    [] kind = "wide"   -> PutInt64(x)
    [] kind = "cut"    -> PutInt64(x)
    [] kind = "bool"   -> PutBool(x)
    [] kind = "string" -> PutString(x)
    [] kind = "array"  -> PutArray(x)
    [] kind = "header" -> EncodeHdr(x)
    [] kind = "reply"  -> ReplyHdr(x)
Get(kind, m, p) ==
  CASE kind \in {"int", "cut"} -> GetInt(m, p)
    [] kind = "wide"   -> GetInt64(m, p)
    [] kind = "bool"   -> GetBool(m, p)
    [] kind = "string" -> GetString(m, p)
    [] kind = "array"  -> GetArray(m, p)
    [] kind \in {"header", "reply"} -> ParseHdr(m, p)

\* What the reader ends up with: an unsigned number in the bits of an int, and a
\* header whose sn is one.
Expect(kind, x) ==
  CASE kind = "cut" -> Signed(x, W)
    [] kind = "header" -> [x EXCEPT !.sn = Signed(x.sn, W)]
    [] kind = "reply"  -> [x EXCEPT !.sn = Signed(x.sn, W), !.noti = FALSE]
    [] OTHER -> x

\* A value that is read where it was written is the one that was written, and the
\* reader stands right behind it, whatever is written there.
RoundTrip(kind, x, before, after) ==
  LET m == [b |-> before \o Put(kind, x) \o after, past |-> 1]
  IN Get(kind, m, Len(before)) = Yes(Expect(kind, x), Len(before) + Len(Put(kind, x)))

\* No reader looks at more than one byte behind a message, two for a wide number,
\* wherever the message ends.  (It does look at those: a number that is cut off is
\* completed with what an earlier message has left in the buffer.)
StaysNear(kind, b) ==
  \A past \in 0 .. 3 : Get(kind, [b |-> b, past |-> past], 0).pos <= Len(b) + 2
=============================================================================
