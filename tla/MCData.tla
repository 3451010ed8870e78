------------------------------- MODULE MCData -------------------------------
(***************************************************************************)
(* The parts of DataParts, the coding of values and the parser, each on a  *)
(* small instance.  An execution is about one of them, chosen at the       *)
(* start: part says which, and the others stay as they were created.       *)
(***************************************************************************)
EXTENDS DataParts, Integers

CONSTANTS Parts    \* the parts that are checked

VARIABLES
  part,
  value            \* of the coding and the parser, what is coded or parsed
memVars == <<kmem, blocks, owned, at, memfault>>
arrayVars == <<data, alloced, len, step, stored, arrayfault>>
registryVars == <<index, count, look, found, since, regfault>>
bufVars == <<buf, maxlen, buflen, offset, out, call, buffault>>
shutdownVars == <<head, next, run, thrat, prev, del>>
servers == <<containerVars, vars>>
heaps == <<memVars, arrayVars>>
others == <<registryVars, bufVars, shutdownVars>>
all == <<part, value, servers, heaps, others>>

\* Five components of which two have one name, and three names in one bucket.
MCNameOf == [c1 |-> "n1", c2 |-> "n1", c3 |-> "n2", c4 |-> "n3", c5 |-> "n4"]
MCKeyOf == [n1 |-> 0, n2 |-> 0, n3 |-> 0, n4 |-> 1]
MCChunks == {<<>>, <<1>>, <<2>>, <<1, 2>>}
MCSends == [p1 |-> {"short", "bad", "ask", "noti", "hook", "unhook"}, p2 |-> {"ask"}]
MCMaxMsgs == [p1 |-> 2, p2 |-> 1]

T == INSTANCE Tlv WITH G <- 2, W <- 9, W64 <- 19
P == INSTANCE ZipcParse

\* Every int and unsigned int; wide numbers around every power of two; strings of
\* one and two length bytes; headers.
Around == UNION {{x, x - 1, -x, -x - 1} : x \in {2 ^ k : k \in 0 .. 17}}
Hdrs == [sn : {0, 1, 255, 256, 511}, req : BOOLEAN, noti : BOOLEAN]
Samples ==
  ({"int"} \X (-256 .. 255)) \cup ({"cut"} \X (0 .. 511)) \cup ({"wide"} \X Around)
  \cup ({"bool"} \X BOOLEAN) \cup ({"string"} \X {<<>>, <<5>>, <<7, 0>>, <<4, 4, 4, 4, 4>>})
  \cup ({"array"} \X {<<>>, <<3>>, <<-256, 255>>, <<1, 2, 3, 4, 5>>}) \cup ({"header", "reply"} \X Hdrs)

\* A sample with as many of its bytes as are in a message that is cut off; a request
\* and whether memory lasts for its reply.
ValueInit ==
  CASE part = "tlv"   -> \E s \in Samples : \E n \in 0 .. Len(T!Put(s[1], s[2])) : value = <<s, n>>
    [] part = "parse" -> value \in P!Requests \X BOOLEAN
    [] OTHER          -> value = None

\* An array and a module that the execution is not about are created in one way.
Unused ==
  /\ part # "array" => alloced = 1 /\ step = 0
  /\ part # "shutdown" => \A t \in Shut!Thrs : run[t]

MCInit == /\ part \in Parts /\ ValueInit
          /\ ContainerInit /\ Init /\ M!Init /\ A!Init /\ R!Init /\ B!Init /\ Shut!Init
          /\ Unused

MCNext ==
  /\ UNCHANGED <<part, value>>
  /\ \/ part = "container" /\ ContainerNext /\ UNCHANGED <<vars, heaps, others>>
     \/ part = "netlink" /\ Next /\ UNCHANGED <<containerVars, heaps, others>>
     \/ part = "mem" /\ M!Next /\ UNCHANGED <<servers, arrayVars, others>>
     \/ part = "array" /\ A!Next /\ UNCHANGED <<servers, memVars, others>>
     \/ part = "registry" /\ R!Next /\ UNCHANGED <<servers, heaps, bufVars, shutdownVars>>
     \/ part = "buf" /\ B!Next /\ UNCHANGED <<servers, heaps, registryVars, shutdownVars>>
     \/ part = "shutdown" /\ Shut!Next /\ UNCHANGED <<servers, heaps, registryVars, bufVars>>

\* A search for a container id that was begun goes on.
MCSpec == MCInit /\ [][MCNext]_all /\ WF_all(part = "container" /\ (NewTake \/ NewSkip \/ NewFail)
                                             /\ UNCHANGED <<part, value, vars, heaps, others>>)
-----------------------------------------------------------------------------
\* A value is read as it was written, and wherever a message is cut off a reader
\* goes at most two bytes behind it (zipc_tlv.c).
TlvRoundTrip ==
  part = "tlv" =>
    LET kind == value[1][1]
        v == value[1][2]
        n == value[2]
    IN /\ n = 0 => \A before, after \in {<<>>, <<T!TRU>>, <<7, 7>>} : T!RoundTrip(kind, v, before, after)
       /\ \A as \in {"int", "wide", "string", "array", "header"} :
            T!StaysNear(as, SubSeq(T!Put(kind, v), 1, n))

\* Who asks can tell from the reply, whatever part of the request cannot be read,
\* whether it was carried out, unless it was a link message whose body cannot be read
\* (zipc_parse.c).
ParseVerdict ==
  part = "parse" =>
    LET req == value[1]
        mem == value[2]
    IN P!OneVerdict(req, mem) /\ P!EffectAnswered(req, mem) /\ P!Framed(req, mem)
=============================================================================
