-------------------------- MODULE ZipcServerProofs --------------------------
(***************************************************************************)
(* Theorems about ZipcServer, for any number of clients, requests, buffers *)
(* and events, and any sizes of the three schedules.                       *)
(***************************************************************************)
EXTENDS ZipcServer, ZipcPoolProofs

Replies == [c : Clients, buf : Bufs, sn : Nat]
Events == [c : Clients, buf : Bufs]
USE DEF Posting

\* A thread that sends its request to sch passes the test of its length, ...
Passed(c) ==
  /\ Running /\ ~Freed /\ pc[c] = "post" /\ ~Full(schQ, SchCap) /\ pc' = Set(pc, c, "insert")
  /\ UNCHANGED <<poolVars, thrVars, jobcnt, hooked, buf, sent, queVars, work, evtVars, last, starved>>

\* ... and is done with it: the server was freed, the request is refused or queued.
Given(c) ==
  /\ Running /\ pc[c] \in Posting /\ pc' = Set(pc, c, "next") /\ buf' = Set(buf, c, NoBuf)
  /\ \/ Freed /\ Fault("ipc") /\ UNCHANGED <<schQ, jobcnt>>
     \/ Refused(c)
     \/ \E m \in Msgs[c] :
          /\ pc[c] = "insert"
          /\ m.name = "_hookevt" => HookTwice \/ Hooks(c) = 0
          /\ schQ' = SendJob(schQ, [c |-> c, buf |-> buf[c], sn |-> sent[c], msg |-> m])
          /\ UNCHANGED <<poolVars, jobcnt>>
  /\ UNCHANGED <<thrVars, hooked, sent, respQ, evtQ, work, evtVars, last, starved>>

LEMMA Posts ==
  ASSUME NEW c \in Clients, Post(c) \/ Insert(c)
  PROVE  Passed(c) \/ Given(c)
<1>1. CASE Post(c)
  BY <1>1 DEF Post, Accepts, Passed, Given, queVars
<1>2. CASE Insert(c)
  BY <1>2 DEF Insert, Given
<1> QED BY <1>1, <1>2

-----------------------------------------------------------------------------
(* Serial numbers.                                                         *)

\* The last request of c that was sent to sch, or refused by it.
Upto == [c \in Clients |-> IF pc[c] \in Posting THEN sent[c] - 1 ELSE sent[c]]

\* Per client, serial numbers rise from the last reply over the replies that wait
\* and the request that is carried out to the requests that wait.
Ordered ==
  /\ \A c \in Clients : last[c] <= Upto[c]
  /\ \A i \in DOMAIN respQ : last[respQ[i].c] < respQ[i].sn /\ respQ[i].sn <= Upto[respQ[i].c]
  /\ work # None => last[work.c] < work.sn /\ work.sn <= Upto[work.c]
  /\ \A i \in DOMAIN schQ : last[schQ[i].c] < schQ[i].sn /\ schQ[i].sn <= Upto[schQ[i].c]
  /\ \A i, k \in DOMAIN respQ : i < k /\ respQ[i].c = respQ[k].c => respQ[i].sn < respQ[k].sn
  /\ \A i, k \in DOMAIN schQ : i < k /\ schQ[i].c = schQ[k].c => schQ[i].sn < schQ[k].sn
  /\ work # None => \A i \in DOMAIN respQ : respQ[i].c = work.c => respQ[i].sn < work.sn
  /\ work # None => \A i \in DOMAIN schQ : schQ[i].c = work.c => work.sn < schQ[i].sn
  /\ \A i \in DOMAIN respQ, k \in DOMAIN schQ : respQ[i].c = schQ[k].c => respQ[i].sn < schQ[k].sn

\* The types of all variables but those of the queues, group by group.
PCs == {"none", "start", "recv", "post", "insert", "next", "drain", "unhook", "close", "gone"}
PoolT == freebuf \subseteq Bufs /\ heap \subseteq Bufs /\ fault \in {"none", "ipc", "client", "null", "assert"}
ThrT == server \in [at : {"accept", "assign", "done"}, client : Clients \cup {None}] /\ run \in {"yes", "no", "freeing", "freed"}
CliT == /\ pc \in [Clients -> PCs] /\ jobcnt \in [Clients -> Int] /\ hooked \in [Clients -> BOOLEAN]
        /\ buf \in [Clients -> Bufs \cup {NoBuf}]
        /\ \A c \in Clients : Running /\ pc[c] \in Posting => buf[c] \in Bufs
        /\ sent \in [Clients -> Nat] /\ \A c \in Clients : sent[c] <= MaxReqs[c]
QueT == /\ schQ \in Seq(Jobs) /\ respQ \in Seq(Replies) /\ Len(respQ) <= RespCap
        /\ evtQ \in Seq(Events) /\ Len(evtQ) <= EvtCap /\ work \in Works \cup {None}
EvtT == regs \in [Clients -> Nat] /\ firing \in [busy : BOOLEAN, todo : [Clients -> Nat]]
LastT == last \in [Clients -> Nat] /\ (\A c \in Clients : last[c] <= sent[c]) /\ starved \subseteq Clients
IType == PoolT /\ ThrT /\ CliT /\ QueT /\ EvtT /\ LastT

\* Steps that put buffers back or take one keep the pool's type.
LEMMA PoolType ==
  ASSUME PoolT
  PROVE  /\ Malloc \in Bufs \cup {NoBuf} /\ NoBuf \notin Bufs
         /\ \A taken, Back : Back \subseteq Bufs /\ PoolStep(taken, Back) => PoolT'
         /\ \A b \in Bufs : Free(b) => PoolT'
         /\ \A why \in {"ipc", "client", "null", "assert"} : Fault(why) => PoolT'
         /\ FreeAll => PoolT'
         /\ UNCHANGED poolVars => PoolT'
<1>1. Malloc \in Bufs \cup {NoBuf} /\ NoBuf \notin Bufs
  BY MallocType DEF PoolT
<1>2. ASSUME NEW taken, NEW Back, Back \subseteq Bufs, PoolStep(taken, Back) PROVE PoolT'
  BY <1>2 DEF PoolT, PoolStep
<1>3. \A b \in Bufs : Free(b) => PoolT'
  BY DEF PoolT, PoolStep, Free
<1>4. \A why \in {"ipc", "client", "null", "assert"} : Fault(why) => PoolT'
  BY DEF PoolT, Fault
<1>5. (FreeAll => PoolT') /\ (UNCHANGED poolVars => PoolT')
  BY DEF PoolT, FreeAll, poolVars
<1> QED BY <1>1, <1>2, <1>3, <1>4, <1>5

\* Groups of variables that a step leaves alone keep their type.
LEMMA Untouched ==
  /\ ThrT /\ UNCHANGED thrVars => ThrT'
  /\ CliT /\ UNCHANGED cliVars /\ (Running' => Running) => CliT'
  /\ QueT /\ UNCHANGED queVars /\ UNCHANGED work => QueT'
  /\ EvtT /\ UNCHANGED evtVars => EvtT'
  /\ LastT /\ UNCHANGED sent /\ UNCHANGED last /\ UNCHANGED starved => LastT'
  BY DEF ThrT, CliT, QueT, EvtT, LastT, thrVars, cliVars, queVars, evtVars
\* Every step keeps the types; that a reply answers a request needs the order.
LEMMA StepType ==
  ASSUME IType, Ordered, [Next]_vars
  PROVE  IType'
<1> USE DEF IType
<1>0. Malloc \in Bufs \cup {NoBuf} /\ NoBuf \notin Bufs
  BY PoolType
<1>1. CASE UNCHANGED vars
  BY <1>1, Untouched, PoolType DEF vars, cliVars, poolVars, Running
<1> SUFFICES ASSUME Next PROVE IType'
  BY <1>1
<1>2. ASSUME NEW c \in Clients, Accept(c) PROVE IType'
  <2>1. ThrT' /\ CliT'
    BY <1>2 DEF Accept, ThrT, CliT, Set, PCs
  <2> QED BY <1>2, <2>1, Untouched, PoolType DEF Accept
<1>3. CASE SetupFails \/ AcceptAssign \/ AcceptFails
  <2>1. ThrT'
    BY <1>3 DEF SetupFails, AcceptAssign, AcceptFails, ThrT
  <2>2. PoolT'
    BY <1>3, PoolType DEF SetupFails, AcceptAssign, AcceptFails
  <2> QED BY <1>3, <2>1, <2>2, Untouched DEF SetupFails, AcceptAssign, AcceptFails, cliVars
<1>4. ASSUME NEW c \in Clients, Start(c) \/ NextBuf(c) PROVE IType'
  <2>1. PoolT'
    BY <1>4, PoolType DEF Start, NextBuf
  <2>2. CliT'
    BY <1>4, <1>0 DEF Start, NextBuf, AfterBuf, Set, CliT, PCs
  <2> QED BY <1>4, <2>1, <2>2, Untouched DEF Start, NextBuf
<1>5. ASSUME NEW c \in Clients, Recv(c) PROVE IType'
  <2>1. PoolT'
    BY <1>5, PoolType DEF Recv
  <2>2. \A x \in Clients : Running' /\ pc'[x] \in Posting => buf'[x] \in Bufs
    <3>1. CASE buf[c] = NoBuf
      BY <1>5, <3>1 DEF Recv, Running, Fault
    <3>2. CASE buf[c] # NoBuf
      BY <1>5, <3>2 DEF Recv, Set, CliT
    <3> QED BY <3>1, <3>2
  <2>3. CliT'
    <3>1. pc' \in [Clients -> PCs] /\ jobcnt' \in [Clients -> Int]
      BY <1>5 DEF Recv, Counted, Set, CliT, PCs
    <3>2. sent' \in [Clients -> Nat] /\ \A x \in Clients : sent'[x] <= MaxReqs[x]
      <4>1. sent' = [sent EXCEPT ![c] = sent[c] + 1] /\ sent[c] < MaxReqs[c]
        BY <1>5 DEF Recv, Set
      <4>2. sent \in [Clients -> Nat] /\ \A x \in Clients : sent[x] <= MaxReqs[x]
        BY DEF CliT
      <4>3. sent[c] + 1 \in Nat /\ MaxReqs[c] \in Nat
        BY <4>2, ServerAssumption
      <4> QED BY <4>1, <4>2, <4>3
    <3> QED BY <1>5, <2>2, <3>1, <3>2 DEF Recv, CliT
  <2>4. LastT'
    BY <1>5 DEF Recv, Set, LastT, CliT
  <2> QED BY <1>5, <2>1, <2>3, <2>4, Untouched DEF Recv
<1>6. ASSUME NEW c \in Clients, Leave(c) \/ Drained(c) \/ Unhook(c) \/ UnhookAsserts(c) PROVE IType'
  <2>1. PoolT' /\ EvtT'
    BY <1>6, PoolType, Untouched DEF Leave, Drained, Unhook, UnhookAsserts, EvtT, Set, evtVars
  <2>2. CliT'
    BY <1>6 DEF Leave, Drained, Unhook, UnhookAsserts, Set, CliT, PCs, Running, cliVars
  <2> QED BY <1>6, <2>1, <2>2, Untouched DEF Leave, Drained, Unhook, UnhookAsserts, cliVars
<1>7. ASSUME NEW c \in Clients, Given(c) PROVE IType'
  <2>0. buf[c] \in Bufs
    BY <1>7 DEF Given, CliT
  <2>1. PoolT'
    BY <1>7, <2>0, PoolType DEF Given, Refused
  <2>2. CliT'
    <3>1. jobcnt' \in [Clients -> Int]
      <4>1. Counted(c, -1) \in [Clients -> Int] /\ jobcnt \in [Clients -> Int]
        BY DEF Counted, CliT
      <4>2. jobcnt' = jobcnt \/ jobcnt' = Counted(c, -1)
        BY <1>7 DEF Given, Refused
      <4> QED BY <4>1, <4>2
    <3>2. pc' \in [Clients -> PCs] /\ buf' \in [Clients -> Bufs \cup {NoBuf}]
      <4>1. pc' = [pc EXCEPT ![c] = "next"] /\ buf' = [buf EXCEPT ![c] = NoBuf]
        BY <1>7 DEF Given, Set
      <4>2. pc \in [Clients -> PCs] /\ buf \in [Clients -> Bufs \cup {NoBuf}] /\ "next" \in PCs
        BY DEF CliT, PCs
      <4> QED BY <4>1, <4>2
    <3>3. \A x \in Clients : pc'[x] \in Posting => x # c /\ Running /\ pc[x] \in Posting /\ buf'[x] = buf[x]
      BY <1>7 DEF Given, Set, CliT
    <3> QED BY <1>7, <3>1, <3>2, <3>3 DEF Given, CliT
  <2>3. \A m \in Msgs[c] : [c |-> c, buf |-> buf[c], sn |-> sent[c], msg |-> m] \in Jobs
    BY <2>0, ServerAssumption DEF CliT, Jobs
  <2>4. schQ' \in Seq(Jobs)
    <3>1. CASE UNCHANGED schQ
      BY <3>1 DEF QueT
    <3>2. CASE \E m \in Msgs[c] : schQ' = SendJob(schQ, [c |-> c, buf |-> buf[c], sn |-> sent[c], msg |-> m])
      BY <2>3, <3>2, SendJobType DEF QueT
    <3> QED BY <1>7, <3>1, <3>2 DEF Given, Refused
  <2>5. QueT'
    BY <1>7, <2>4 DEF Given, QueT
  <2> QED BY <1>7, <2>1, <2>2, <2>5, Untouched DEF Given
<1>p. ASSUME NEW c \in Clients, Passed(c) PROVE IType'
  <2>1. CliT'
    BY <1>p DEF Passed, Set, CliT, PCs
  <2> QED BY <1>p, <2>1, Untouched, PoolType DEF Passed
<1>8. ASSUME NEW c \in Clients, Close(c) PROVE IType'
  <2>1. PoolT'
    BY <1>8, <1>0, PoolType DEF Close, CliT
  <2>2. CliT'
    BY <1>8 DEF Close, Set, CliT, PCs
  <2> QED BY <1>8, <2>1, <2>2, Untouched DEF Close
<1>9. CASE ProcStart
  <2>1. PICK j \in Jobs : j = Head(schQ)
    BY <1>9, TailType DEF ProcStart, QueT
  <2>2. PoolT'
    BY <1>9, <2>1, PoolType DEF ProcStart, NoReplyBuf, Jobs
  <2>3. schQ' \in Seq(Jobs)
    BY <1>9, TailType DEF ProcStart, QueT
  <2>4. Malloc # NoBuf => [c |-> j.c, buf |-> j.buf, sn |-> j.sn, msg |-> j.msg, obuf |-> Malloc, at |-> "parse"] \in Works
    BY <1>0, <2>1 DEF Jobs, Works
  <2>5. QueT'
    BY <1>9, <2>1, <2>3, <2>4 DEF ProcStart, NoReplyBuf, QueT
  <2>6. starved' \subseteq Clients
    BY <1>9, <2>1 DEF ProcStart, NoReplyBuf, LastT, Jobs
  <2>7. LastT'
    BY <1>9, <2>6 DEF ProcStart, LastT, cliVars
  <2> QED BY <1>9, <2>2, <2>5, <2>7, Untouched DEF ProcStart, Running
<1>10. CASE ProcParse
  <2>0. work \in Works
    BY <1>10 DEF ProcParse, QueT
  <2>1. PoolT'
    BY <1>10, PoolType DEF ProcParse
  <2>2. CliT'
    BY <1>10 DEF ProcParse, CliT, Set
  <2>3. work' \in Works
    BY <1>10, <2>0 DEF ProcParse, Works
  <2>4. QueT'
    BY <1>10, <2>3 DEF ProcParse, QueT, queVars
  <2>5. EvtT'
    BY <1>10, <2>0 DEF ProcParse, EvtT, Set, Works
  <2> QED BY <1>10, <2>1, <2>2, <2>4, <2>5, Untouched DEF ProcParse
<1>11. CASE ProcAsserts
  BY <1>11, PoolType, Untouched DEF ProcAsserts, cliVars
<1>12. CASE ProcDone
  <2>0. work \in Works
    BY <1>12 DEF ProcDone, QueT
  <2>1. PoolT'
    BY <1>12, <2>0, PoolType DEF ProcDone, Works
  <2>2. CliT'
    BY <1>12, <2>0 DEF ProcDone, CliT, Counted, Works
  <2>3. [c |-> work.c, buf |-> work.obuf, sn |-> work.sn] \in Replies
    BY <2>0 DEF Works, Replies
  <2>4. respQ' \in Seq(Replies) /\ Len(respQ') <= RespCap
    <3>1. CASE respQ' = respQ
      BY <3>1 DEF QueT
    <3>2. CASE ~Full(respQ, RespCap) /\ respQ' = SendJob(respQ, [c |-> work.c, buf |-> work.obuf, sn |-> work.sn])
      BY <2>3, <3>2, SendJobType, ServerAssumption DEF QueT, Full
    <3> QED BY <1>12, <3>1, <3>2 DEF ProcDone, Accepts
  <2>5. QueT'
    BY <1>12, <2>4 DEF ProcDone, QueT
  <2> QED BY <1>12, <2>1, <2>2, <2>5, Untouched DEF ProcDone
<1>13. CASE SendReply
  <2>1. PICK j \in Replies : j = Head(respQ) /\ j = respQ[1] /\ 1 \in DOMAIN respQ
    BY <1>13, TailType DEF SendReply, QueT
  <2>2. PoolT'
    BY <1>13, <2>1, PoolType DEF SendReply, Replies
  <2>3. respQ' \in Seq(Replies) /\ Len(respQ') <= RespCap
    BY <1>13, TailType, ServerAssumption DEF SendReply, QueT
  <2>4. QueT'
    BY <1>13, <2>3 DEF SendReply, QueT
  <2>5. j.sn <= sent[j.c]
    BY <2>1 DEF Ordered, Upto, CliT, Replies
  <2>6. LastT'
    BY <1>13, <2>1, <2>5 DEF SendReply, LastT, Set, Replies, cliVars
  <2> QED BY <1>13, <2>2, <2>4, <2>6, Untouched DEF SendReply
<1>14. CASE SendEvent
  <2>1. PICK j \in Events : j = Head(evtQ)
    BY <1>14, TailType DEF SendEvent, QueT
  <2>2. PoolT'
    BY <1>14, <2>1, PoolType DEF SendEvent, Events
  <2>3. evtQ' \in Seq(Events) /\ Len(evtQ') <= EvtCap
    BY <1>14, TailType, ServerAssumption DEF SendEvent, QueT
  <2>4. QueT'
    BY <1>14, <2>3 DEF SendEvent, QueT
  <2> QED BY <1>14, <2>2, <2>4, Untouched DEF SendEvent, cliVars
<1>15. CASE Fire \/ FireEnd
  <2>1. EvtT'
    <3>1. CASE Fire
      BY <3>1 DEF Fire, EvtT
    <3>2. CASE FireEnd
      BY <3>2 DEF FireEnd, Idle, EvtT
    <3> QED BY <1>15, <3>1, <3>2
  <2> QED BY <1>15, <2>1, PoolType, Untouched DEF Fire, FireEnd, cliVars
<1>16. ASSUME NEW c \in Clients, FireCall(c) PROVE IType'
  <2>1. PoolT'
    BY <1>16, <1>0, PoolType DEF FireCall
  <2>2. Malloc # NoBuf => [c |-> c, buf |-> Malloc] \in Events
    BY <1>0 DEF Events
  <2>3. evtQ' \in Seq(Events) /\ Len(evtQ') <= EvtCap
    BY <1>16, <2>2, SendJobType, ServerAssumption DEF FireCall, QueT, Full
  <2>4. QueT'
    BY <1>16, <2>3 DEF FireCall, QueT
  <2>5. EvtT'
    BY <1>16 DEF FireCall, EvtT
  <2> QED BY <1>16, <2>1, <2>4, <2>5, Untouched DEF FireCall, cliVars
<1>17. CASE DeleteStart \/ DeleteBufs \/ DeleteFree
  <2>1. PoolT'
    BY <1>17, PoolType DEF DeleteStart, DeleteBufs, DeleteFree
  <2>2. ThrT'
    BY <1>17 DEF DeleteStart, DeleteBufs, DeleteFree, ThrT
  <2>3. QueT'
    <3>1. CASE UNCHANGED queVars /\ UNCHANGED work
      BY <3>1, Untouched
    <3>2. CASE DeleteFree
      BY <3>2, ServerAssumption DEF DeleteFree, QueT
    <3> QED BY <1>17, <3>1, <3>2 DEF DeleteStart, DeleteBufs
  <2> QED BY <1>17, <2>1, <2>2, <2>3, Untouched DEF DeleteStart, DeleteBufs, DeleteFree, cliVars
<1> QED
  BY <1>2, <1>3, <1>4, <1>5, <1>6, <1>7, <1>8, <1>9, <1>10, <1>11, <1>12, <1>13, <1>14, <1>15, <1>16, <1>17, <1>p, Posts
  DEF Next, Client, Proc, Sender, Firing

\* The fields of what the queues hold.
LEMMA JobTypes ==
  ASSUME IType
  PROVE  /\ \A i \in DOMAIN schQ : schQ[i].c \in Clients /\ schQ[i].sn \in Nat
         /\ \A i \in DOMAIN respQ : respQ[i].c \in Clients /\ respQ[i].sn \in Nat
         /\ work # None => work.c \in Clients /\ work.sn \in Nat
         /\ last \in [Clients -> Nat] /\ sent \in [Clients -> Nat] /\ pc \in [Clients -> PCs]
<1>1. /\ \A i \in DOMAIN schQ : schQ[i] \in Jobs
      /\ \A i \in DOMAIN respQ : respQ[i] \in Replies
      /\ work # None => work \in Works
  BY DEF IType, QueT
<1>2. last \in [Clients -> Nat] /\ sent \in [Clients -> Nat] /\ pc \in [Clients -> PCs]
  BY DEF IType, LastT, CliT
<1> QED BY <1>1, <1>2 DEF Jobs, Replies, Works

\* Where no job moves and nothing is answered the order stays, whatever is received.
LEMMA OrderKept ==
  ASSUME IType, Ordered, UNCHANGED <<schQ, respQ, work, last>>,
         \A c \in Clients : Upto[c] \in Int /\ Upto'[c] \in Int /\ Upto[c] <= Upto'[c]
  PROVE  Ordered'
<1> QED BY JobTypes DEF Ordered

\* What a client's serial numbers have reached is a number.
LEMMA UptoType ==
  ASSUME CliT
  PROVE  \A c \in Clients : Upto[c] \in Int
  BY DEF CliT, Upto

\* Every step keeps the order of the serial numbers.
LEMMA StepOrder ==
  ASSUME IType, IType', Ordered, [Next]_vars
  PROVE  Ordered'
<1>0. \A c \in Clients : Upto[c] \in Int /\ Upto'[c] \in Int
  BY UptoType DEF IType, CliT, Upto
<1>a. /\ \A i \in DOMAIN schQ : schQ[i].c \in Clients /\ schQ[i].sn \in Nat
      /\ \A i \in DOMAIN respQ : respQ[i].c \in Clients /\ respQ[i].sn \in Nat
      /\ work # None => work.c \in Clients /\ work.sn \in Nat
      /\ last \in [Clients -> Nat] /\ sent \in [Clients -> Nat]
  BY JobTypes
<1>1. CASE UNCHANGED <<schQ, respQ, work, last>> /\ UNCHANGED <<pc, sent>>
  BY <1>0, <1>1, OrderKept DEF Upto
<1>2. ASSUME NEW c \in Clients, UNCHANGED <<schQ, respQ, work, last, sent>>,
             \E x \in PCs \ Posting : pc' = [pc EXCEPT ![c] = x]
      PROVE  Ordered'
  <2>1. \A x \in Clients : Upto[x] <= Upto'[x]
    <3>1. \A x \in Clients : pc'[x] = pc[x] \/ pc'[x] \notin Posting
      BY <1>2, JobTypes
    <3> QED BY <3>1, <1>2, <1>a DEF Upto
  <2> QED BY <1>0, <1>2, <2>1, OrderKept
<1>3. ASSUME NEW c \in Clients, Recv(c) PROVE Ordered'
  <2>1. \A x \in Clients : Upto[x] <= Upto'[x]
    BY <1>3 DEF Recv, Set, Upto, IType, CliT, PCs
  <2> QED BY <1>0, <1>3, <2>1, OrderKept DEF Recv, queVars
<1>4. ASSUME NEW c \in Clients, Given(c) PROVE Ordered'
  <2> DEFINE J(m) == [c |-> c, buf |-> buf[c], sn |-> sent[c], msg |-> m]
  <2>1. UNCHANGED <<respQ, work, last, sent>> /\ pc[c] \in Posting /\ pc' = [pc EXCEPT ![c] = "next"]
    BY <1>4 DEF Given, Set
  <2>2. CASE UNCHANGED schQ
    BY <1>2, <2>1, <2>2, <1>a DEF PCs
  <2>3. ASSUME NEW m \in Msgs[c], schQ' = SendJob(schQ, J(m)) PROVE Ordered'
    <3>1. /\ \A x \in Clients : Upto[x] <= Upto'[x]
          /\ Upto[c] < sent[c] /\ Upto'[c] = sent[c]
      BY <2>1, <1>a DEF Upto, IType, CliT, PCs
    <3>2. J(m).c = c /\ J(m).sn = sent[c]
      OBVIOUS
    <3> HIDE DEF J
    <3> DEFINE S == Jobs \cup {J(m)}
    <3>s. schQ \in Seq(S) /\ J(m) \in S
      BY DEF IType, QueT
    <3> HIDE DEF S
    <3>3. Len(schQ) \in Nat /\ DOMAIN schQ = 1 .. Len(schQ)
      BY <3>s, SendJobType
    <3>t. /\ DOMAIN SendJob(schQ, J(m)) = 1 .. Len(schQ) + 1
          /\ \A i \in 1 .. Len(schQ) : SendJob(schQ, J(m))[i] = schQ[i]
          /\ SendJob(schQ, J(m))[Len(schQ) + 1] = J(m)
      BY <3>s, SendJobType
    <3>4. /\ DOMAIN schQ' = 1 .. Len(schQ) + 1
          /\ \A i \in 1 .. Len(schQ) : schQ'[i] = schQ[i]
          /\ schQ'[Len(schQ) + 1] = J(m)
      BY <2>3, <3>t
    <3>5. \A i \in DOMAIN schQ' : (i \in DOMAIN schQ /\ schQ'[i] = schQ[i]) \/ (i = Len(schQ) + 1 /\ schQ'[i] = J(m))
      BY <3>3, <3>4
    <3>x. /\ \A i \in DOMAIN schQ : schQ[i].c = c => schQ[i].sn < sent[c]
          /\ \A i \in DOMAIN respQ : respQ[i].c = c => respQ[i].sn < sent[c]
          /\ work # None /\ work.c = c => work.sn < sent[c]
          /\ last[c] < sent[c]
      BY <1>0, <1>a, <3>1 DEF Ordered
    <3>y. /\ \A i \in DOMAIN schQ : last[schQ[i].c] < schQ[i].sn /\ schQ[i].sn <= Upto'[schQ[i].c]
          /\ \A i \in DOMAIN respQ : last[respQ[i].c] < respQ[i].sn /\ respQ[i].sn <= Upto'[respQ[i].c]
          /\ work # None => last[work.c] < work.sn /\ work.sn <= Upto'[work.c]
          /\ \A x \in Clients : last[x] <= Upto'[x]
      BY <1>0, <1>a, <3>1 DEF Ordered
    <3>7. \A i \in DOMAIN schQ' : last[schQ'[i].c] < schQ'[i].sn /\ schQ'[i].sn <= Upto'[schQ'[i].c]
      BY <1>a, <3>1, <3>2, <3>5, <3>x, <3>y
    <3>8. \A i, k \in DOMAIN schQ' : i < k /\ schQ'[i].c = schQ'[k].c => schQ'[i].sn < schQ'[k].sn
      <4>1. \A i, k \in DOMAIN schQ : i < k /\ schQ[i].c = schQ[k].c => schQ[i].sn < schQ[k].sn
        BY DEF Ordered
      <4>2. \A i \in DOMAIN schQ : i <= Len(schQ) /\ i \in Nat
        BY <3>3
      <4> QED BY <3>2, <3>3, <3>5, <3>x, <4>1, <4>2
    <3>9. work # None => \A i \in DOMAIN schQ' : schQ'[i].c = work.c => work.sn < schQ'[i].sn
      BY <3>2, <3>5, <3>x DEF Ordered
    <3>10. \A i \in DOMAIN respQ, k \in DOMAIN schQ' : respQ[i].c = schQ'[k].c => respQ[i].sn < schQ'[k].sn
      BY <3>2, <3>5, <3>x DEF Ordered
    <3>11. /\ \A i, k \in DOMAIN respQ : i < k /\ respQ[i].c = respQ[k].c => respQ[i].sn < respQ[k].sn
           /\ work # None => \A i \in DOMAIN respQ : respQ[i].c = work.c => respQ[i].sn < work.sn
      BY DEF Ordered
    <3> QED BY <2>1, <3>y, <3>7, <3>8, <3>9, <3>10, <3>11 DEF Ordered
  <2> QED BY <1>4, <2>2, <2>3 DEF Given, Refused
<1>p. ASSUME NEW c \in Clients, Passed(c) PROVE Ordered'
  <2>1. pc[c] = "post" /\ pc' = [pc EXCEPT ![c] = "insert"] /\ UNCHANGED <<schQ, respQ, work, last, sent>>
    BY <1>p DEF Passed, Set, queVars
  <2>2. \A x \in Clients : Upto'[x] = Upto[x]
    BY <2>1, <1>a, JobTypes DEF Upto
  <2> QED BY <1>0, <2>1, <2>2, OrderKept
<1>5. CASE ProcStart
  <2>1. PICK j \in Jobs : j = Head(schQ) /\ j = schQ[1] /\ 1 \in DOMAIN schQ
    BY <1>5, TailType DEF ProcStart, IType, QueT
  <2>2. /\ \A i \in DOMAIN schQ' : i \in Nat \ {0} /\ i + 1 \in DOMAIN schQ /\ schQ'[i] = schQ[i + 1]
        /\ \A i \in DOMAIN schQ : i \in Nat
    BY <1>5, TailType DEF ProcStart, IType, QueT
  <2>3. UNCHANGED <<respQ, last, sent, pc>> /\ work = None
    BY <1>5 DEF ProcStart, cliVars
  <2>4. work' # None => work'.c = j.c /\ work'.sn = j.sn
    BY <1>5, <2>1, <2>3 DEF ProcStart, NoReplyBuf
  <2>5. \A x \in Clients : Upto'[x] = Upto[x]
    BY <2>3 DEF Upto
  <2>6. j.c \in Clients /\ j.sn \in Nat
    BY DEF Jobs
  <2>7. \A i \in DOMAIN schQ' : schQ'[i].c = j.c => j.sn < schQ'[i].sn
    BY <2>1, <2>2 DEF Ordered
  <2>8. \A i, k \in DOMAIN schQ' : i < k /\ schQ'[i].c = schQ'[k].c => schQ'[i].sn < schQ'[k].sn
    BY <2>2 DEF Ordered
  <2>9. /\ \A i \in DOMAIN schQ' : last[schQ'[i].c] < schQ'[i].sn /\ schQ'[i].sn <= Upto[schQ'[i].c]
        /\ \A i \in DOMAIN respQ, k \in DOMAIN schQ' : respQ[i].c = schQ'[k].c => respQ[i].sn < schQ'[k].sn
        /\ \A i \in DOMAIN schQ' : schQ'[i].c \in Clients
    BY <1>a, <2>2 DEF Ordered
  <2>10. /\ last[j.c] < j.sn /\ j.sn <= Upto[j.c]
         /\ \A i \in DOMAIN respQ : respQ[i].c = j.c => respQ[i].sn < j.sn
    BY <2>1 DEF Ordered
  <2> QED BY <1>a, <2>3, <2>4, <2>5, <2>6, <2>7, <2>8, <2>9, <2>10 DEF Ordered
<1>6. CASE ProcParse
  <2>1. UNCHANGED <<schQ, respQ, last, sent, pc>> /\ work # None
    BY <1>6 DEF ProcParse, queVars
  <2>2. work' # None /\ work'.c = work.c /\ work'.sn = work.sn
    BY <1>6, <2>1, ServerAssumption DEF ProcParse, IType, QueT, Works
  <2> QED BY <1>a, <2>1, <2>2 DEF Ordered, Upto
<1>7. CASE ProcDone
  <2> DEFINE R == [c |-> work.c, buf |-> work.obuf, sn |-> work.sn]
  <2>1. UNCHANGED <<schQ, last, sent, pc>> /\ work # None /\ work' = None
    BY <1>7 DEF ProcDone
  <2>2. CASE UNCHANGED respQ
    BY <1>a, <2>1, <2>2 DEF Ordered, Upto
  <2>3. CASE respQ' = SendJob(respQ, R)
    <3>2. R.c = work.c /\ R.sn = work.sn
      OBVIOUS
    <3>s. respQ \in Seq(Replies) /\ R \in Replies
      BY <2>1 DEF IType, QueT, Works, Replies
    <3> HIDE DEF R
    <3>3. Len(respQ) \in Nat /\ DOMAIN respQ = 1 .. Len(respQ)
      BY <3>s, SendJobType
    <3>t. /\ DOMAIN SendJob(respQ, R) = 1 .. Len(respQ) + 1
          /\ \A i \in 1 .. Len(respQ) : SendJob(respQ, R)[i] = respQ[i]
          /\ SendJob(respQ, R)[Len(respQ) + 1] = R
      BY <3>s, SendJobType
    <3>4. /\ DOMAIN respQ' = 1 .. Len(respQ) + 1
          /\ \A i \in 1 .. Len(respQ) : respQ'[i] = respQ[i]
          /\ respQ'[Len(respQ) + 1] = R
      BY <2>3, <3>t
    <3>5. \A i \in DOMAIN respQ' : (i \in DOMAIN respQ /\ respQ'[i] = respQ[i]) \/ (i = Len(respQ) + 1 /\ respQ'[i] = R)
      BY <3>3, <3>4
    <3>6. \A i, k \in DOMAIN respQ' : i < k /\ respQ'[i].c = respQ'[k].c => respQ'[i].sn < respQ'[k].sn
      BY <2>1, <3>2, <3>3, <3>4, <3>5 DEF Ordered
    <3>7. \A i \in DOMAIN respQ' : last[respQ'[i].c] < respQ'[i].sn /\ respQ'[i].sn <= Upto[respQ'[i].c]
      BY <2>1, <3>2, <3>3, <3>4, <3>5 DEF Ordered
    <3>8. \A i \in DOMAIN respQ', k \in DOMAIN schQ : respQ'[i].c = schQ[k].c => respQ'[i].sn < schQ[k].sn
      BY <2>1, <3>2, <3>3, <3>4, <3>5 DEF Ordered
    <3> QED BY <2>1, <3>6, <3>7, <3>8 DEF Ordered, Upto
  <2> QED BY <1>7, <2>2, <2>3 DEF ProcDone
<1>8. CASE SendReply
  <2>1. PICK j \in Replies : j = Head(respQ) /\ j = respQ[1] /\ 1 \in DOMAIN respQ
    BY <1>8, TailType DEF SendReply, IType, QueT
  <2>2. /\ \A i \in DOMAIN respQ' : i \in Nat \ {0} /\ i + 1 \in DOMAIN respQ /\ respQ'[i] = respQ[i + 1]
        /\ \A i \in DOMAIN respQ : i \in Nat
    BY <1>8, TailType DEF SendReply, IType, QueT
  <2>3. UNCHANGED <<schQ, work, sent, pc>> /\ (last' = last \/ last' = [last EXCEPT ![j.c] = j.sn])
    BY <1>8, <2>1 DEF SendReply, cliVars, Set
  <2>4. j.c \in Clients /\ j.sn \in Nat
    BY DEF Replies
  <2>5. \A x \in Clients : last'[x] = last[x] \/ (x = j.c /\ last'[x] = j.sn)
    BY JobTypes, <2>3, <2>4
  <2>6. \A x \in Clients : last'[x] <= Upto'[x]
    BY <2>1, <2>3, <2>5 DEF Ordered, Upto
  <2>7. \A i \in DOMAIN respQ' : last'[respQ'[i].c] < respQ'[i].sn /\ respQ'[i].sn <= Upto[respQ'[i].c]
    BY <1>a, <2>1, <2>2, <2>5 DEF Ordered
  <2>8. /\ work # None => last'[work.c] < work.sn
        /\ \A i \in DOMAIN schQ : last'[schQ[i].c] < schQ[i].sn
    BY <1>a, <2>1, <2>5 DEF Ordered
  <2>9. /\ \A i, k \in DOMAIN respQ' : i < k /\ respQ'[i].c = respQ'[k].c => respQ'[i].sn < respQ'[k].sn
        /\ work # None => \A i \in DOMAIN respQ' : respQ'[i].c = work.c => respQ'[i].sn < work.sn
        /\ \A i \in DOMAIN respQ', k \in DOMAIN schQ : respQ'[i].c = schQ[k].c => respQ'[i].sn < schQ[k].sn
    BY <2>2 DEF Ordered
  <2> QED BY <2>3, <2>6, <2>7, <2>8, <2>9 DEF Ordered, Upto
<1>9. CASE DeleteFree
  <2>1. UNCHANGED <<work, last, sent, pc>> /\ DOMAIN schQ' = {} /\ DOMAIN respQ' = {}
    BY <1>9 DEF DeleteFree, cliVars
  <2> QED BY <2>1 DEF Ordered, Upto
<1>10. ASSUME NEW c \in Clients, Accept(c) \/ Start(c) \/ NextBuf(c) \/ Leave(c) \/ Drained(c) \/ Unhook(c) \/ Close(c)
       PROVE  Ordered'
  <2>1. UNCHANGED <<schQ, respQ, work, last, sent>>
    BY <1>10 DEF Accept, Start, NextBuf, Leave, Drained, Unhook, Close, queVars
  <2>2. \E x \in PCs \ Posting : pc' = [pc EXCEPT ![c] = x]
    BY <1>10 DEF Accept, Start, NextBuf, AfterBuf, Leave, Drained, Unhook, Close, Set, PCs
  <2> QED BY <1>a, <1>2, <2>1, <2>2
<1>11. ASSUME NEW c \in Clients, UnhookAsserts(c) \/ FireCall(c) PROVE Ordered'
  BY <1>1, <1>11 DEF UnhookAsserts, FireCall, cliVars, queVars
<1>12. CASE \/ UNCHANGED vars \/ SetupFails \/ AcceptAssign \/ AcceptFails \/ ProcAsserts \/ SendEvent \/ Fire \/ FireEnd
            \/ DeleteStart \/ DeleteBufs
  BY <1>1, <1>12 DEF vars, SetupFails, AcceptAssign, AcceptFails, ProcAsserts, SendEvent, Fire, FireEnd, DeleteStart, DeleteBufs,
     cliVars, queVars
<1> QED
  BY <1>3, <1>4, <1>5, <1>6, <1>7, <1>8, <1>9, <1>10, <1>11, <1>12, <1>p, Posts DEF Next, Client, Proc, Sender, Firing

\* A server fresh from zipc_server_create has nothing in its queues.
LEMMA InitType == Init => IType /\ Ordered
<1> SUFFICES ASSUME Init PROVE IType /\ Ordered
  OBVIOUS
<1>1. PoolT /\ ThrT /\ CliT /\ EvtT /\ LastT
  BY ServerAssumption DEF Init, PoolInit, PoolT, ThrT, CliT, PCs, EvtT, LastT, Idle
<1>2. QueT
  BY ServerAssumption DEF Init, QueT
<1>3. Ordered
  BY DEF Init, Ordered, Upto
<1> QED BY <1>1, <1>2, <1>3 DEF IType

\* The types of the server's variables, and the order of the serial numbers.
LEMMA TypeInvariant == Spec => [](IType /\ Ordered)
<1>1. IType /\ Ordered /\ [Next]_vars => (IType /\ Ordered)'
  BY StepType, StepOrder
<1> QED BY <1>1, InitType, PTL DEF Spec

\* The threads that have found room in sch and not yet put their job there, with the
\* jobs that are there.
Late == {c \in Clients : pc[c] = "insert"}
Overshoot == Len(schQ) + Cardinality(Late) < SchCap + Cardinality(Clients)

\* They are finitely many, now and later.
LEMMA LateType ==
  /\ IsFiniteSet(Late) /\ Cardinality(Late) \in Nat /\ Cardinality(Late) <= Cardinality(Clients)
  /\ IsFiniteSet(Late') /\ Cardinality(Late') \in Nat /\ Cardinality(Late') <= Cardinality(Clients)
  /\ Cardinality(Clients) \in Nat /\ Cardinality(Clients) > 0
<1>1. \A S : S \subseteq Clients =>
        IsFiniteSet(S) /\ Cardinality(S) \in Nat /\ Cardinality(S) <= Cardinality(Clients)
  BY ServerAssumption, FS_Subset, FS_CardinalityType
<1>2. Late \subseteq Clients /\ Late' \subseteq Clients
  BY DEF Late
<1>3. Cardinality(Clients) \in Nat /\ Cardinality(Clients) > 0
  <2>1. Cardinality(Clients) # 0
    BY ServerAssumption, FS_EmptySet
  <2> QED BY <2>1, ServerAssumption, FS_CardinalityType
<1> QED BY <1>1, <1>2, <1>3

\* A thread that enters Late found less than SchCap jobs, and one that leaves it adds
\* one job at most.
LEMMA StepOvershoot ==
  ASSUME IType, IType', Overshoot, [Next]_vars
  PROVE  Overshoot'
<1>0. Len(schQ) \in Nat /\ Len(schQ') \in Nat /\ SchCap \in Nat
  BY ServerAssumption DEF IType, QueT
<1>1. ASSUME Late' \subseteq Late, Len(schQ') <= Len(schQ) PROVE Overshoot'
  <2>1. Cardinality(Late') <= Cardinality(Late)
    BY <1>1, LateType, FS_Subset
  <2> QED BY <1>0, <1>1, <2>1, LateType DEF Overshoot
<1>2. ASSUME NEW c \in Clients, Passed(c) PROVE Overshoot'
  <2>1. Len(schQ) < SchCap /\ schQ' = schQ
    BY <1>0, <1>2 DEF Passed, Full, queVars
  <2> QED BY <1>0, <2>1, LateType DEF Overshoot
<1>3. ASSUME NEW c \in Clients, Given(c) PROVE Overshoot'
  <2>1. Late' = Late \ {c}
    BY <1>3 DEF Given, Set, Late, IType, CliT
  <2>2. CASE UNCHANGED schQ
    BY <1>0, <1>1, <2>1, <2>2
  <2>3. ASSUME NEW m \in Msgs[c], pc[c] = "insert",
               schQ' = SendJob(schQ, [c |-> c, buf |-> buf[c], sn |-> sent[c], msg |-> m])
        PROVE  Overshoot'
    <3>1. c \in Late
      BY <2>3 DEF Late
    <3>2. Cardinality(Late') = Cardinality(Late) - 1
      BY <2>1, <3>1, LateType, FS_RemoveElement
    <3>3. Len(schQ') = Len(schQ) + 1
      <4>1. [c |-> c, buf |-> buf[c], sn |-> sent[c], msg |-> m] \in Jobs
        BY <1>3, ServerAssumption DEF Given, IType, CliT, Jobs
      <4> QED BY <2>3, <4>1, SendJobType DEF IType, QueT
    <3> QED BY <1>0, <3>2, <3>3, LateType DEF Overshoot
  <2> QED BY <1>3, <2>2, <2>3 DEF Given, Refused
<1>4. CASE ProcStart
  <2>1. Late' = Late
    BY <1>4 DEF ProcStart, cliVars, Late
  <2>2. Len(schQ') <= Len(schQ)
    BY <1>4 DEF ProcStart, IType, QueT
  <2> QED BY <1>1, <2>1, <2>2
<1>5. CASE DeleteFree
  <2>1. Late' = Late /\ Len(schQ') = 0
    BY <1>5 DEF DeleteFree, cliVars, Late
  <2> QED BY <1>0, <1>1, <2>1
<1>6. ASSUME UNCHANGED schQ, Late' \subseteq Late PROVE Overshoot'
  BY <1>0, <1>1, <1>6
<1>7. ASSUME NEW c \in Clients, Accept(c) \/ Start(c) \/ Recv(c) \/ Leave(c) \/ NextBuf(c)
                               \/ Drained(c) \/ Unhook(c) \/ UnhookAsserts(c) \/ Close(c)
      PROVE  Overshoot'
  <2>1. Late' \subseteq Late
    BY <1>7 DEF Accept, Start, Recv, Leave, NextBuf, AfterBuf, Drained, Unhook, UnhookAsserts, Close, Set,
       cliVars, Late, IType, CliT
  <2> QED BY <1>6, <1>7, <2>1 DEF Accept, Start, Recv, Leave, NextBuf, Drained, Unhook, UnhookAsserts, Close, queVars
<1>8. ASSUME UNCHANGED <<schQ, pc>> PROVE Overshoot'
  BY <1>6, <1>8 DEF Late
<1>9. ASSUME NEW c \in Clients, FireCall(c) PROVE Overshoot'
  BY <1>8, <1>9 DEF FireCall, cliVars
<1>10. CASE \/ UNCHANGED vars \/ SetupFails \/ AcceptAssign \/ AcceptFails \/ ProcParse \/ ProcAsserts \/ ProcDone
            \/ Sender \/ Fire \/ FireEnd \/ DeleteStart \/ DeleteBufs
  BY <1>8, <1>10 DEF vars, SetupFails, AcceptAssign, AcceptFails, ProcParse, ProcAsserts, ProcDone, Sender, SendReply,
     SendEvent, Fire, FireEnd, DeleteStart, DeleteBufs, cliVars, queVars
<1> QED
  BY <1>2, <1>3, <1>4, <1>5, <1>7, <1>9, <1>10, Posts DEF Next, Client, Proc, Firing

\* Every variable of the server keeps its type: no buffer is put back that is not
\* one, no reply answers what was not received, the queues that one thread fills keep
\* their size, and sch outgrows its own by fewer jobs than there are clients, which
\* test its length before they take the mutex under which it grows.
THEOREM ServerTypes == Spec => []TypeOK
<1>1. IType /\ Overshoot => TypeOK
  <2> SUFFICES ASSUME IType, Overshoot PROVE TypeOK
    OBVIOUS
  <2>1. \A c \in Clients : sent[c] \in 0 .. MaxReqs[c] /\ last[c] \in 0 .. sent[c]
    BY ServerAssumption DEF IType, CliT, LastT
  <2>2. Len(schQ) < SchCap + Cardinality(Clients)
    BY LateType, ServerAssumption DEF Overshoot, IType, QueT
  <2> QED BY <2>1, <2>2 DEF IType, TypeOK, PoolT, ThrT, CliT, PCs, QueT, EvtT, LastT
<1>2. Init => Overshoot
  <2> SUFFICES ASSUME Init PROVE Overshoot
    OBVIOUS
  <2>1. Late = {} /\ Len(schQ) = 0
    BY DEF Init, Late
  <2>2. Cardinality(Late) = 0
    BY <2>1, FS_EmptySet
  <2> QED BY <2>1, <2>2, LateType, ServerAssumption DEF Overshoot
<1>3. IType /\ IType' /\ Overshoot /\ [Next]_vars => Overshoot'
  BY StepOvershoot
<1>4. Spec => []IType
  BY TypeInvariant, PTL
<1> QED BY <1>1, <1>2, <1>3, <1>4, PTL DEF Spec

\* Only a reply that is sent changes the number of the last one, and it raises it.
LEMMA LastRises ==
  ASSUME IType, Ordered, [Next]_vars, NEW c \in Clients, last'[c] # last[c]
  PROVE  last'[c] > last[c]
<1>1. UNCHANGED last \/ SendReply
  <2>1. CASE UNCHANGED vars
    BY <2>1 DEF vars
  <2>2. ASSUME NEW x \in Clients, Accept(x) \/ Client(x) PROVE UNCHANGED last
    BY <2>2 DEF Client, Accept, Start, Recv, Leave, Post, Insert, NextBuf, Drained, Unhook, UnhookAsserts, Close
  <2>3. CASE SetupFails \/ AcceptAssign \/ AcceptFails \/ Proc \/ SendEvent
    BY <2>3 DEF SetupFails, AcceptAssign, AcceptFails, Proc, ProcStart, ProcParse, ProcAsserts, ProcDone, SendEvent
  <2>4. CASE Fire \/ Firing \/ DeleteStart \/ DeleteBufs \/ DeleteFree
    BY <2>4 DEF Fire, Firing, FireEnd, FireCall, DeleteStart, DeleteBufs, DeleteFree
  <2> QED BY <2>1, <2>2, <2>3, <2>4 DEF Next, Sender
<1>2. CASE SendReply
  <2>1. respQ # <<>> /\ respQ \in Seq(Replies)
    BY <1>2 DEF SendReply, IType, QueT
  <2>2. PICK j \in Replies : j = Head(respQ) /\ j = respQ[1] /\ 1 \in DOMAIN respQ
    BY <2>1, TailType
  <2>3. last[j.c] < j.sn /\ j.sn \in Nat /\ last \in [Clients -> Nat]
    BY <2>2, JobTypes DEF Ordered
  <2>4. last' = last \/ last' = [last EXCEPT ![j.c] = j.sn]
    BY <1>2, <2>2 DEF SendReply, Set
  <2> QED BY <2>3, <2>4
<1> QED BY <1>1, <1>2

\* Replies leave in the order of their requests, for any number of clients and any
\* sizes of the queues, with requests refused, replies dropped and starved and
\* connections lost in between.
THEOREM AnswersInOrder == Spec => RepliesInOrder
<1>1. IType /\ Ordered /\ [Next]_vars => [\A c \in Clients : last[c]' # last[c] => last[c]' > last[c]]_vars
  BY LastRises
<1> QED BY <1>1, TypeInvariant, PTL DEF Spec, RepliesInOrder

-----------------------------------------------------------------------------
(* What is counted of the jobs that wait.                                  *)

\* The jobs of a queue that are in T are finitely many.
LEMMA CountNat ==
  ASSUME NEW S, NEW q \in Seq(S), NEW T
  PROVE  /\ IsFiniteSet({i \in DOMAIN q : q[i] \in T})
         /\ Cardinality({i \in DOMAIN q : q[i] \in T}) \in Nat
<1>1. IsFiniteSet(1 .. Len(q)) /\ DOMAIN q = 1 .. Len(q)
  BY FS_Interval
<1>2. IsFiniteSet({i \in DOMAIN q : q[i] \in T})
  BY <1>1, FS_Subset
<1> QED BY <1>2, FS_CardinalityType

\* A job that is sent is one more of those in T when it is one of them.
LEMMA CountSent ==
  ASSUME NEW S, NEW q \in Seq(S), NEW j \in S, NEW T
  PROVE  LET r == SendJob(q, j)
         IN Cardinality({i \in DOMAIN r : r[i] \in T}) =
              Cardinality({i \in DOMAIN q : q[i] \in T}) + (IF j \in T THEN 1 ELSE 0)
<1> DEFINE r == SendJob(q, j)
           A == {i \in DOMAIN q : q[i] \in T}
           n == Len(q) + 1
<1>1. /\ DOMAIN q = 1 .. Len(q) /\ Len(q) \in Nat /\ DOMAIN r = 1 .. n
      /\ \A i \in 1 .. Len(q) : r[i] = q[i]
      /\ r[n] = j
  BY SendJobType
<1>2. IsFiniteSet(A)
  BY CountNat
<1>7. n \notin A
  BY <1>1
<1>3. {i \in DOMAIN r : r[i] \in T} = IF j \in T THEN A \cup {n} ELSE A
  <2> HIDE DEF r
  <2> QED BY <1>1
<1>4. Cardinality(A \cup {n}) = Cardinality(A) + 1
  <2> HIDE DEF A, n
  <2> QED BY <1>2, <1>7, FS_AddElement
<1>5. Cardinality(A) \in Nat
  BY CountNat
<1> HIDE DEF r, A, n
<1>6. Cardinality({i \in DOMAIN r : r[i] \in T}) = Cardinality(A) + (IF j \in T THEN 1 ELSE 0)
  <2>1. CASE j \in T
    BY <1>3, <1>4, <2>1
  <2>2. CASE j \notin T
    <3>1. {i \in DOMAIN r : r[i] \in T} = A
      BY <1>3, <2>2
    <3>2. Cardinality({i \in DOMAIN r : r[i] \in T}) = Cardinality(A)
      BY <3>1
    <3> QED BY <1>5, <2>2, <3>2
  <2> QED BY <2>1, <2>2
<1> QED BY <1>6 DEF r, A

\* A job that is taken is one less of those in T when it is one of them.
LEMMA CountTaken ==
  ASSUME NEW S, NEW q \in Seq(S), q # <<>>, NEW r, r = Tail(q), NEW T
  PROVE  Cardinality({i \in DOMAIN q : q[i] \in T}) =
           Cardinality({i \in DOMAIN r : r[i] \in T}) + (IF Head(q) \in T THEN 1 ELSE 0)
<1> DEFINE A == {i \in DOMAIN q : q[i] \in T}
           B == {i \in DOMAIN r : r[i] \in T}
           f == [i \in B |-> i + 1]
<1>1. /\ r \in Seq(S) /\ Head(q) = q[1] /\ Len(q) \in Nat \ {0} /\ Len(r) = Len(q) - 1
      /\ DOMAIN q = 1 .. Len(q) /\ DOMAIN r = 1 .. Len(r)
      /\ \A i \in 1 .. Len(r) : r[i] = q[i + 1]
  BY TailType
<1>2. IsFiniteSet(A) /\ IsFiniteSet(B) /\ Cardinality(A) \in Nat /\ Cardinality(B) \in Nat
  <2>1. IsFiniteSet(A) /\ Cardinality(A) \in Nat
    BY CountNat
  <2>2. r \in Seq(S)
    BY <1>1
  <2>3. IsFiniteSet(B) /\ Cardinality(B) \in Nat
    BY <2>2, CountNat
  <2> QED BY <2>1, <2>3
<1>3. f \in Bijection(B, A \ {1})
  <2>1. \A i \in B : i \in Nat \ {0} /\ i + 1 \in A \ {1}
    BY <1>1
  <2>2. \A k \in A \ {1} : k - 1 \in B /\ f[k - 1] = k
    BY <1>1
  <2>3. \A i, k \in B : f[i] = f[k] => i = k
    BY <2>1
  <2>4. f \in [B -> A \ {1}]
    BY <2>1
  <2> HIDE DEF A, B, f
  <2>5. f \in Injection(B, A \ {1})
    BY <2>3, <2>4 DEF Injection, IsInjective
  <2>6. f \in Surjection(B, A \ {1})
    BY <2>2, <2>4 DEF Surjection
  <2> QED BY <2>5, <2>6 DEF Bijection
<1>4. Cardinality(A \ {1}) = Cardinality(B)
  <2>1. ExistsBijection(B, A \ {1})
    BY <1>3 DEF ExistsBijection
  <2> HIDE DEF A, B
  <2> QED BY <1>2, <2>1, FS_Bijection
<1>5. Cardinality(A) = Cardinality(A \ {1}) + (IF 1 \in A THEN 1 ELSE 0)
  <2> HIDE DEF A
  <2>1. Cardinality(A \ {1}) = IF 1 \in A THEN Cardinality(A) - 1 ELSE Cardinality(A)
    BY <1>2, FS_RemoveElement
  <2>2. CASE 1 \in A
    BY <1>2, <2>1, <2>2
  <2>3. CASE 1 \notin A
    BY <1>2, <2>1, <2>3
  <2> QED BY <2>2, <2>3
<1>6. 1 \in A <=> Head(q) \in T
  BY <1>1
<1> HIDE DEF A, B
<1>7. Cardinality(A) = Cardinality(B) + (IF Head(q) \in T THEN 1 ELSE 0)
  BY <1>4, <1>5, <1>6
<1> QED BY <1>7 DEF A, B

\* The requests of c that wait, and those that ask for a registration.
Queued == [c \in Clients |-> Cardinality({i \in DOMAIN schQ : schQ[i].c = c})]
Asked == [c \in Clients |-> Cardinality({i \in DOMAIN schQ : Asks(schQ[i], c)})]

\* What the sets of jobs counted by Pending and Hooks are.
LEMMA CountedAs ==
  ASSUME NEW q \in Seq(Jobs), NEW c
  PROVE  /\ {i \in DOMAIN q : q[i].c = c} = {i \in DOMAIN q : q[i] \in {j \in Jobs : j.c = c}}
         /\ {i \in DOMAIN q : Asks(q[i], c)} = {i \in DOMAIN q : q[i] \in {j \in Jobs : Asks(j, c)}}
<1>1. \A i \in DOMAIN q : q[i] \in Jobs
  OBVIOUS
<1> QED BY <1>1

\* What is counted of sch, and how sending and taking a job changes it.
LEMMA SchCounts ==
  ASSUME QueT
  PROVE  \A c \in Clients :
           /\ Queued[c] \in Nat /\ Asked[c] \in Nat
           /\ \A j \in Jobs : schQ' = SendJob(schQ, j) =>
                /\ Queued'[c] = Queued[c] + (IF j.c = c THEN 1 ELSE 0)
                /\ Asked'[c] = Asked[c] + (IF Asks(j, c) THEN 1 ELSE 0)
           /\ schQ # <<>> /\ schQ' = Tail(schQ) =>
                /\ Queued[c] = Queued'[c] + (IF Head(schQ).c = c THEN 1 ELSE 0)
                /\ Asked[c] = Asked'[c] + (IF Asks(Head(schQ), c) THEN 1 ELSE 0)
                /\ Queued'[c] \in Nat /\ Asked'[c] \in Nat
           /\ schQ' = <<>> => Queued'[c] = 0 /\ Asked'[c] = 0
<1> SUFFICES ASSUME NEW c \in Clients
    PROVE  /\ Queued[c] \in Nat /\ Asked[c] \in Nat
           /\ \A j \in Jobs : schQ' = SendJob(schQ, j) =>
                /\ Queued'[c] = Queued[c] + (IF j.c = c THEN 1 ELSE 0)
                /\ Asked'[c] = Asked[c] + (IF Asks(j, c) THEN 1 ELSE 0)
           /\ schQ # <<>> /\ schQ' = Tail(schQ) =>
                /\ Queued[c] = Queued'[c] + (IF Head(schQ).c = c THEN 1 ELSE 0)
                /\ Asked[c] = Asked'[c] + (IF Asks(Head(schQ), c) THEN 1 ELSE 0)
                /\ Queued'[c] \in Nat /\ Asked'[c] \in Nat
           /\ schQ' = <<>> => Queued'[c] = 0 /\ Asked'[c] = 0
  OBVIOUS
<1> DEFINE Of == {j \in Jobs : j.c = c}
           Ask == {j \in Jobs : Asks(j, c)}
           N(q, T) == Cardinality({i \in DOMAIN q : q[i] \in T})
<1>1. schQ \in Seq(Jobs)
  BY DEF QueT
<1>2. Queued[c] = N(schQ, Of) /\ Asked[c] = N(schQ, Ask)
  BY <1>1, CountedAs DEF Queued, Asked
<1>3. schQ' \in Seq(Jobs) => Queued'[c] = N(schQ', Of) /\ Asked'[c] = N(schQ', Ask)
  <2> SUFFICES ASSUME schQ' \in Seq(Jobs) PROVE Queued'[c] = N(schQ', Of) /\ Asked'[c] = N(schQ', Ask)
    OBVIOUS
  <2>1. /\ Queued'[c] = Cardinality({i \in DOMAIN schQ' : schQ'[i].c = c})
        /\ Asked'[c] = Cardinality({i \in DOMAIN schQ' : Asks(schQ'[i], c)})
    BY DEF Queued, Asked, Asks
  <2> QED BY <2>1, CountedAs
<1>4. N(schQ, Of) \in Nat /\ N(schQ, Ask) \in Nat
  BY <1>1, CountNat
<1>5. ASSUME NEW j \in Jobs, schQ' = SendJob(schQ, j)
      PROVE  /\ Queued'[c] = Queued[c] + (IF j.c = c THEN 1 ELSE 0)
             /\ Asked'[c] = Asked[c] + (IF Asks(j, c) THEN 1 ELSE 0)
  <2>1. schQ' \in Seq(Jobs)
    BY <1>1, <1>5, SendJobType
  <2>2. (j \in Of <=> j.c = c) /\ (j \in Ask <=> Asks(j, c))
    OBVIOUS
  <2> HIDE DEF Of, Ask
  <2>3. /\ N(schQ', Of) = N(schQ, Of) + (IF j \in Of THEN 1 ELSE 0)
        /\ N(schQ', Ask) = N(schQ, Ask) + (IF j \in Ask THEN 1 ELSE 0)
    BY <1>1, <1>5, CountSent
  <2> HIDE DEF N
  <2> QED BY <1>2, <1>3, <2>1, <2>2, <2>3
<1>6. ASSUME schQ # <<>>, schQ' = Tail(schQ)
      PROVE  /\ Queued[c] = Queued'[c] + (IF Head(schQ).c = c THEN 1 ELSE 0)
             /\ Asked[c] = Asked'[c] + (IF Asks(Head(schQ), c) THEN 1 ELSE 0)
             /\ Queued'[c] \in Nat /\ Asked'[c] \in Nat
  <2>1. schQ' \in Seq(Jobs) /\ Head(schQ) \in Jobs
    BY <1>1, <1>6, TailType
  <2>2. (Head(schQ) \in Of <=> Head(schQ).c = c) /\ (Head(schQ) \in Ask <=> Asks(Head(schQ), c))
    BY <2>1
  <2> HIDE DEF Of, Ask
  <2>3. /\ N(schQ, Of) = N(schQ', Of) + (IF Head(schQ) \in Of THEN 1 ELSE 0)
        /\ N(schQ, Ask) = N(schQ', Ask) + (IF Head(schQ) \in Ask THEN 1 ELSE 0)
    BY <1>1, <1>6, CountTaken
  <2>4. N(schQ', Of) \in Nat /\ N(schQ', Ask) \in Nat
    BY <2>1, CountNat
  <2> HIDE DEF N
  <2> QED BY <1>2, <1>3, <2>1, <2>2, <2>3, <2>4
<1>7. ASSUME schQ' = <<>> PROVE Queued'[c] = 0 /\ Asked'[c] = 0
  <2>1. schQ' \in Seq(Jobs) /\ DOMAIN schQ' = {}
    BY <1>7
  <2>2. N(schQ', Of) = Cardinality({}) /\ N(schQ', Ask) = Cardinality({})
    BY <2>1
  <2> HIDE DEF N, Of, Ask
  <2> QED BY <1>3, <2>1, <2>2, FS_EmptySet
<1> HIDE DEF N, Of, Ask
<1> QED BY <1>2, <1>4, <1>5, <1>6, <1>7

-----------------------------------------------------------------------------
(* What holds a client.                                                    *)

\* The requests of each client that were sent to sch and not yet counted off.
Carried == [c \in Clients |-> IF work # None /\ work.c = c THEN 1 ELSE 0]
Posted == [c \in Clients |-> IF pc[c] \in Posting THEN 1 ELSE 0]
Pends == [c \in Clients |-> Queued[c] + Carried[c] + Posted[c]]

\* A thread past its loop has seen jobcnt 0, and its client gets no more requests.
Ended == {"unhook", "close", "gone"}
Held ==
  Running => \A c \in Clients :
    /\ Pends[c] <= jobcnt[c]
    /\ pc[c] \in Ended => Pends[c] = 0
    /\ run # "freed" /\ c \notin starved => Pends[c] = jobcnt[c]

\* The counts are numbers, and Pending is their sum.
LEMMA PendsType ==
  ASSUME QueT
  PROVE  /\ Pends \in [Clients -> Nat]
         /\ \A c \in Clients : Pends[c] = Queued[c] + Carried[c] + Posted[c] /\ Pending(c) = Pends[c]
         /\ \A c \in Clients : Queued[c] \in Nat /\ Carried[c] \in 0 .. 1 /\ Posted[c] \in 0 .. 1
<1>1. \A c \in Clients : Queued[c] \in Nat
  BY SchCounts
<1>2. \A c \in Clients : Carried[c] \in 0 .. 1 /\ Posted[c] \in 0 .. 1
  BY DEF Carried, Posted
<1>3. \A c \in Clients : Pends[c] = Queued[c] + Carried[c] + Posted[c]
  BY DEF Pends
<1>4. Pends \in [Clients -> Nat]
  BY <1>1, <1>2 DEF Pends
<1>5. \A c \in Clients : Pending(c) = Queued[c] + Carried[c] + Posted[c]
  BY DEF Pending, Queued, Carried, Posted
<1> QED BY <1>1, <1>2, <1>3, <1>4, <1>5

\* A step that neither moves a request nor counts one, of a thread that has not
\* passed its loop, or passes it with no request pending.
LEMMA HeldKept ==
  ASSUME IType, Held, Running, UNCHANGED <<schQ, jobcnt, starved>>, Carried' = Carried,
         run' # "freed" => run # "freed",
         \A c \in Clients : /\ pc'[c] \in Posting <=> pc[c] \in Posting
                            /\ pc'[c] \in Ended => pc[c] \in Ended \/ Pends[c] = 0
  PROVE  Held'
<1>1. Queued' = Queued /\ Posted' = Posted
  BY DEF Queued, Posted
<1>2. Pends' = Pends
  BY <1>1 DEF Pends
<1> QED BY <1>2 DEF Held

\* The same of the values the step leads to.
LEMMA PendsNext ==
  ASSUME QueT'
  PROVE  /\ Pends' \in [Clients -> Nat]
         /\ \A c \in Clients : Pends'[c] = Queued'[c] + Carried'[c] + Posted'[c]
         /\ \A c \in Clients : Queued'[c] \in Nat /\ Carried'[c] \in 0 .. 1 /\ Posted'[c] \in 0 .. 1
<1>1. ASSUME NEW c \in Clients PROVE Queued'[c] \in Nat
  <2>1. schQ' \in Seq(Jobs)
    BY DEF QueT
  <2>2. Cardinality({i \in DOMAIN schQ' : schQ'[i] \in {j \in Jobs : j.c = c}}) \in Nat
    BY <2>1, CountNat
  <2>3. Queued'[c] = Cardinality({i \in DOMAIN schQ' : schQ'[i].c = c})
    BY DEF Queued
  <2> QED BY <2>1, <2>2, <2>3, CountedAs
<1>2. \A c \in Clients : Carried'[c] \in 0 .. 1 /\ Posted'[c] \in 0 .. 1
  BY DEF Carried, Posted
<1>3. \A c \in Clients : Pends'[c] = Queued'[c] + Carried'[c] + Posted'[c]
  BY DEF Pends
<1>4. Pends' \in [Clients -> Nat]
  BY <1>1, <1>2 DEF Pends
<1> QED BY <1>1, <1>2, <1>3, <1>4

\* Requests are counted as they come and go, and come to no client that has ended.
LEMMA HeldMoves ==
  ASSUME IType, IType', Held, Running, UNCHANGED <<starved, run>>,
         \A x \in Clients : /\ Pends'[x] - Pends[x] = jobcnt'[x] - jobcnt[x]
                            /\ pc'[x] \in Ended => pc[x] \in Ended /\ Pends'[x] <= Pends[x]
  PROVE  Held'
<1>1. Pends \in [Clients -> Nat] /\ Pends' \in [Clients -> Nat]
  BY PendsType, PendsNext DEF IType
<1>2. jobcnt \in [Clients -> Int] /\ jobcnt' \in [Clients -> Int]
  BY DEF IType, CliT
<1> SUFFICES ASSUME Running', NEW x \in Clients
             PROVE  /\ Pends'[x] <= jobcnt'[x]
                    /\ pc'[x] \in Ended => Pends'[x] = 0
                    /\ run' # "freed" /\ x \notin starved' => Pends'[x] = jobcnt'[x]
  BY DEF Held
<1>4. /\ Pends[x] <= jobcnt[x]
      /\ pc[x] \in Ended => Pends[x] = 0
      /\ run # "freed" /\ x \notin starved => Pends[x] = jobcnt[x]
  BY DEF Held
<1>5. /\ Pends[x] \in Nat /\ Pends'[x] \in Nat /\ jobcnt[x] \in Int /\ jobcnt'[x] \in Int
      /\ Pends'[x] - Pends[x] = jobcnt'[x] - jobcnt[x]
      /\ pc'[x] \in Ended => pc[x] \in Ended /\ Pends'[x] <= Pends[x]
      /\ run' = run /\ starved' = starved
  BY <1>1, <1>2
<1>6. Pends'[x] <= jobcnt'[x]
  BY <1>4, <1>5
<1>7. pc'[x] \in Ended => Pends'[x] = 0
  BY <1>4, <1>5
<1>8. run' # "freed" /\ x \notin starved' => Pends'[x] = jobcnt'[x]
  BY <1>4, <1>5
<1> QED BY <1>6, <1>7, <1>8

\* A request is counted from before it is sent to after its last use of the client,
\* on each of the paths that drop it.
LEMMA StepHeld ==
  ASSUME IType, IType', Held, [Next]_vars, Atomics # "stub"
  PROVE  Held'
<1>a. QueT /\ CliT /\ QueT' /\ CliT'
  BY DEF IType
<1>b. /\ Pends \in [Clients -> Nat] /\ Pends' \in [Clients -> Nat]
      /\ \A c \in Clients : Pends[c] = Queued[c] + Carried[c] + Posted[c]
      /\ \A c \in Clients : Pends'[c] = Queued'[c] + Carried'[c] + Posted'[c]
      /\ \A c \in Clients : Queued[c] \in Nat /\ Carried[c] \in 0 .. 1 /\ Posted[c] \in 0 .. 1
      /\ \A c \in Clients : Queued'[c] \in Nat /\ Carried'[c] \in 0 .. 1 /\ Posted'[c] \in 0 .. 1
  BY <1>a, PendsType, PendsNext
<1>1. CASE UNCHANGED vars
  <2>1. UNCHANGED <<schQ, jobcnt, starved, work, run, pc, fault>>
    BY <1>1 DEF vars, cliVars, queVars, thrVars, poolVars
  <2>2. Queued' = Queued /\ Posted' = Posted /\ Carried' = Carried
    BY <2>1 DEF Queued, Posted, Carried
  <2>3. Pends' = Pends
    BY <2>2 DEF Pends
  <2> QED BY <2>1, <2>3 DEF Held, Running
<1> SUFFICES ASSUME Next, Running, Running' PROVE Held'
  <2>1. Next => Running
    BY DEF Next, Client, Proc, Sender, Firing, Accept, Start, Recv, Leave, Post, Insert, NextBuf, Drained, Unhook, UnhookAsserts,
       Close, SetupFails, AcceptAssign, AcceptFails, ProcStart, ProcParse, ProcAsserts, ProcDone, SendReply, SendEvent,
       Fire, FireEnd, FireCall, DeleteStart, DeleteBufs, DeleteFree
  <2> QED BY <1>1, <2>1 DEF Held
<1>2. ASSUME NEW c \in Clients, Accept(c) \/ Start(c) \/ Leave(c) \/ NextBuf(c) \/ Unhook(c) \/ Close(c) PROVE Held'
  <2>1. UNCHANGED <<schQ, jobcnt, starved, work, run>>
    BY <1>2 DEF Accept, Start, Leave, NextBuf, Unhook, Close, queVars, thrVars
  <2>2. \A x \in Clients : /\ pc'[x] \in Posting <=> pc[x] \in Posting
                           /\ pc'[x] \in Ended => pc[x] \in Ended
    BY <1>2, <1>a DEF Accept, Start, Leave, NextBuf, Unhook, Close, AfterBuf, Set, Ended, CliT
  <2> QED BY <2>1, <2>2, HeldKept DEF Carried
<1>3. ASSUME NEW c \in Clients, UnhookAsserts(c) PROVE Held'
  BY <1>3 DEF UnhookAsserts, Fault, Running
<1>4. ASSUME NEW c \in Clients, Drained(c) PROVE Held'
  <2>1. UNCHANGED <<schQ, jobcnt, starved, work, run>>
    BY <1>4 DEF Drained, queVars, thrVars
  <2>2. Pends[c] = 0
    BY <1>4, <1>b DEF Drained, Held
  <2>3. \A x \in Clients : /\ pc'[x] \in Posting <=> pc[x] \in Posting
                           /\ pc'[x] \in Ended => pc[x] \in Ended \/ Pends[x] = 0
    BY <1>4, <1>a, <2>2 DEF Drained, Set, Ended, CliT
  <2> QED BY <2>1, <2>3, HeldKept DEF Carried
<1>5. ASSUME NEW c \in Clients, Recv(c) PROVE Held'
  <2>1. UNCHANGED <<schQ, work, starved, run>> /\ jobcnt' = [jobcnt EXCEPT ![c] = jobcnt[c] + 1]
    BY <1>5 DEF Recv, Counted, queVars, thrVars
  <2>j. \A x \in Clients : jobcnt'[x] = jobcnt[x] + (IF x = c THEN 1 ELSE 0) /\ jobcnt[x] \in Int
    BY <1>a, <2>1 DEF CliT
  <2>2. pc[c] = "recv" /\ pc' = [pc EXCEPT ![c] = "post"]
    BY <1>5 DEF Recv, Set
  <2>3. Queued' = Queued /\ Carried' = Carried
    BY <2>1 DEF Queued, Carried
  <2>4. \A x \in Clients : Posted'[x] = Posted[x] + (IF x = c THEN 1 ELSE 0)
    BY <1>a, <2>2 DEF Posted, CliT
  <2>5. \A x \in Clients : Pends'[x] = Pends[x] + (IF x = c THEN 1 ELSE 0)
    BY <1>b, <2>3, <2>4
  <2>6. \A x \in Clients : pc'[x] \in Ended => x # c /\ pc[x] \in Ended
    BY <1>a, <2>2 DEF CliT, Ended
  <2> QED BY <1>b, <2>1, <2>j, <2>5, <2>6, HeldMoves
<1>6. ASSUME NEW c \in Clients, Given(c) PROVE Held'
  <2>1. UNCHANGED <<work, starved, run>> /\ pc[c] \in Posting /\ pc' = [pc EXCEPT ![c] = "next"]
    BY <1>6 DEF Given, Set, thrVars
  <2>2. Carried' = Carried
    BY <2>1 DEF Carried
  <2>3. \A x \in Clients : Posted'[x] = Posted[x] - (IF x = c THEN 1 ELSE 0)
    BY <1>a, <2>1 DEF Posted, CliT
  <2>4. \A x \in Clients : pc'[x] \in Ended => pc[x] \in Ended
    BY <1>a, <2>1 DEF CliT, Ended
  <2>5. CASE Refused(c)
    <3>1. UNCHANGED schQ /\ jobcnt' = [jobcnt EXCEPT ![c] = jobcnt[c] + (-1)]
      BY <2>5 DEF Refused, Counted
    <3>2. Queued' = Queued
      BY <3>1 DEF Queued
    <3>3. \A x \in Clients : Pends'[x] = Pends[x] + (IF x = c THEN -1 ELSE 0)
      BY <1>b, <2>2, <2>3, <3>2
    <3>4. \A x \in Clients : jobcnt'[x] = jobcnt[x] + (IF x = c THEN -1 ELSE 0) /\ jobcnt[x] \in Int
      BY <1>a, <3>1 DEF CliT
    <3> QED BY <1>b, <2>1, <2>4, <3>3, <3>4, HeldMoves
  <2>6. ASSUME NEW m \in Msgs[c], UNCHANGED jobcnt,
               schQ' = SendJob(schQ, [c |-> c, buf |-> buf[c], sn |-> sent[c], msg |-> m])
        PROVE  Held'
    <3> DEFINE J == [c |-> c, buf |-> buf[c], sn |-> sent[c], msg |-> m]
    <3>1. J \in Jobs /\ J.c = c
      BY <1>6, <1>a, ServerAssumption DEF Given, CliT, Jobs
    <3> HIDE DEF J
    <3>2. \A x \in Clients : Queued'[x] = Queued[x] + (IF x = c THEN 1 ELSE 0)
      BY <1>a, <2>6, <3>1, SchCounts DEF J
    <3>3. \A x \in Clients : Pends'[x] = Pends[x]
      BY <1>b, <2>2, <2>3, <3>2
    <3>4. \A x \in Clients : jobcnt'[x] = jobcnt[x] /\ jobcnt[x] \in Int
      BY <1>a, <2>6 DEF CliT
    <3> QED BY <1>b, <2>1, <2>4, <3>3, <3>4, HeldMoves
  <2>7. ~Fault("ipc")
    BY DEF Fault, Running
  <2> QED BY <1>6, <2>5, <2>6, <2>7 DEF Given
<1>p. ASSUME NEW c \in Clients, Passed(c) PROVE Held'
  <2>1. UNCHANGED <<schQ, jobcnt, starved, work, run>>
    BY <1>p DEF Passed, queVars, thrVars
  <2>2. \A x \in Clients : /\ pc'[x] \in Posting <=> pc[x] \in Posting
                           /\ pc'[x] \in Ended => pc[x] \in Ended
    BY <1>p, <1>a DEF Passed, Set, Ended, CliT
  <2> QED BY <2>1, <2>2, HeldKept DEF Carried
<1>7. CASE ProcStart
  <2>1. PICK j \in Jobs : j = Head(schQ)
    BY <1>7, <1>a, TailType DEF ProcStart, QueT
  <2>2. /\ work = None /\ schQ # <<>> /\ schQ' = Tail(schQ) /\ UNCHANGED <<pc, jobcnt, run>>
        /\ \/ Malloc = NoBuf /\ work' = work /\ starved' = starved \cup {j.c}
           \/ /\ work' = [c |-> j.c, buf |-> j.buf, sn |-> j.sn, msg |-> j.msg, obuf |-> Malloc, at |-> "parse"]
              /\ UNCHANGED starved /\ Malloc # NoBuf
    BY <1>7, <2>1 DEF ProcStart, NoReplyBuf, Fault, Running, cliVars, thrVars
  <2>3. \A x \in Clients : Queued[x] = Queued'[x] + (IF j.c = x THEN 1 ELSE 0)
    BY <1>a, <2>1, <2>2, SchCounts
  <2>4. Posted' = Posted /\ \A x \in Clients : Carried[x] = 0
    BY <2>2 DEF Posted, Carried
  <2>5. CASE work' = work /\ starved' = starved \cup {j.c}
    <3>1. Carried' = Carried
      BY <2>5 DEF Carried
    <3>2. \A x \in Clients : Pends[x] = Pends'[x] + (IF j.c = x THEN 1 ELSE 0)
      BY <1>b, <2>3, <2>4, <3>1
    <3>3. jobcnt \in [Clients -> Int]
      BY <1>a DEF CliT
    <3> QED BY <1>b, <2>2, <2>5, <3>2, <3>3 DEF Held
  <2>6. CASE /\ work' = [c |-> j.c, buf |-> j.buf, sn |-> j.sn, msg |-> j.msg, obuf |-> Malloc, at |-> "parse"]
             /\ UNCHANGED starved /\ Malloc # NoBuf
    <3>t. Malloc \in Bufs
      BY <2>6, PoolType DEF IType
    <3>w. work' \in Works
      BY <2>1, <2>6, <3>t DEF Works, Jobs
    <3>1. work'.c = j.c /\ work' # None
      BY <2>6, <3>w, ServerAssumption
    <3>2. \A x \in Clients : Carried'[x] = IF j.c = x THEN 1 ELSE 0
      BY <3>1 DEF Carried
    <3>3. \A x \in Clients : Pends'[x] = Pends[x]
      BY <1>b, <2>3, <2>4, <3>2
    <3> QED BY <2>2, <2>6, <3>3 DEF Held
  <2> QED BY <2>2, <2>5, <2>6
<1>8. CASE ProcParse
  <2>1. UNCHANGED <<schQ, jobcnt, starved, run, pc>> /\ work # None
    BY <1>8 DEF ProcParse, queVars, thrVars
  <2>2. work' # None /\ work'.c = work.c
    BY <1>a, <1>8, <2>1, ServerAssumption DEF ProcParse, QueT, Works
  <2>3. Carried' = Carried
    BY <2>1, <2>2 DEF Carried
  <2> QED BY <2>1, <2>3, HeldKept
<1>9. CASE ProcDone
  <2>1. /\ UNCHANGED <<schQ, pc, starved, run>> /\ work \in Works /\ work # None /\ work' = None
        /\ jobcnt' = [jobcnt EXCEPT ![work.c] = jobcnt[work.c] + (-1)]
    BY <1>9, <1>a DEF ProcDone, Counted, thrVars, QueT
  <2>2. Queued' = Queued /\ Posted' = Posted
    BY <2>1 DEF Queued, Posted
  <2>3. \A x \in Clients : Carried'[x] = Carried[x] + (IF x = work.c THEN -1 ELSE 0)
    BY <2>1 DEF Carried
  <2>4. \A x \in Clients : Pends'[x] = Pends[x] + (IF x = work.c THEN -1 ELSE 0)
    BY <1>b, <2>2, <2>3
  <2>5. \A x \in Clients : jobcnt'[x] = jobcnt[x] + (IF x = work.c THEN -1 ELSE 0) /\ jobcnt[x] \in Int
    BY <1>a, <2>1 DEF CliT
  <2> QED BY <1>b, <2>1, <2>4, <2>5, HeldMoves
<1>10. CASE DeleteFree
  <2>1. UNCHANGED <<work, pc, jobcnt, starved>> /\ schQ' = <<>> /\ run' = "freed"
    BY <1>10 DEF DeleteFree, cliVars
  <2>2. Carried' = Carried /\ Posted' = Posted /\ \A x \in Clients : Queued'[x] = 0
    BY <1>a, <2>1, SchCounts DEF Carried, Posted
  <2>3. \A x \in Clients : Pends'[x] <= Pends[x]
    BY <1>b, <2>2
  <2>4. jobcnt \in [Clients -> Int]
    BY <1>a DEF CliT
  <2> QED BY <1>b, <2>1, <2>3, <2>4 DEF Held
<1>11. CASE \/ SetupFails \/ AcceptAssign \/ AcceptFails \/ SendReply \/ SendEvent \/ Fire \/ FireEnd
            \/ DeleteStart \/ DeleteBufs \/ \E c \in Clients : FireCall(c)
  <2>1. UNCHANGED <<schQ, jobcnt, starved, work, pc>> /\ (run' # "freed" => run # "freed")
    BY <1>11 DEF SetupFails, AcceptAssign, AcceptFails, SendReply, SendEvent, Fire, FireEnd, DeleteStart, DeleteBufs,
       FireCall, cliVars, queVars, thrVars
  <2>2. Carried' = Carried
    BY <2>1 DEF Carried
  <2> QED BY <2>1, <2>2, HeldKept
<1>12. CASE ProcAsserts
  BY <1>12 DEF ProcAsserts, Fault, Running
<1> QED
  BY <1>2, <1>3, <1>4, <1>5, <1>6, <1>7, <1>8, <1>9, <1>10, <1>11, <1>12, <1>p, Posts DEF Next, Client, Proc, Sender, Firing

-----------------------------------------------------------------------------
(* What is registered for a client.                                        *)

\* Only a link message that asks for it registers the callback.
LEMMA ParseEffect ==
  ASSUME NEW r \in Requests, Parse(r, Encoder).effect = "_hookevt"
  PROVE  r.app = "link" /\ r.name = "_hookevt"
<1>1. CASE r.app = "default"
  <2>1. Parse(r, Encoder) = AppDefault(r)
    BY <1>1 DEF Parse
  <2>2. AppDefault(r).effect = "none"
    BY DEF AppDefault, NoReply
  <2> QED BY <2>1, <2>2
<1>2. CASE r.app = "link"
  <2>1. Parse(r, Encoder) = AppLink(r, Encoder)
    BY <1>2 DEF Parse
  <2>2. AppLink(r, Encoder).effect \in {"none", LinkBody(r, Encoder).effect}
    BY DEF AppLink, NoReply
  <2>3. LinkBody(r, Encoder).effect \in {"none", r.name}
    BY DEF LinkBody
  <2> QED BY <1>2, <2>1, <2>2, <2>3
<1>3. CASE r.app = "other"
  <2>1. Parse(r, Encoder) = NoReply("ipcNotSupport")
    BY <1>3 DEF Parse
  <2> QED BY <2>1 DEF NoReply
<1> QED BY <1>1, <1>2, <1>3 DEF Requests, AppTypes

\* The registrations of each client, made and asked for.
Asking == [c \in Clients |-> IF work # None /\ work.at = "parse" /\ Asks(work, c) THEN 1 ELSE 0]
Hookers == [c \in Clients |-> regs[c] + Asked[c] + Asking[c]]

\* One registration at most, that the thread of the client knows of when it ends.
Hooked ==
  Running => \A c \in Clients :
    /\ Hookers[c] <= 1
    /\ regs[c] > 0 => hooked[c]
    /\ pc[c] \in {"close", "gone"} => regs[c] = 0

\* The counts are numbers, and Hooks is their sum.
LEMMA HookersType ==
  ASSUME IType
  PROVE  /\ \A c \in Clients : regs[c] \in Nat /\ Asked[c] \in Nat /\ Asking[c] \in 0 .. 1
         /\ \A c \in Clients : Hookers[c] = regs[c] + Asked[c] + Asking[c] /\ Hooks(c) = Hookers[c]
<1>1. \A c \in Clients : regs[c] \in Nat /\ Asked[c] \in Nat /\ Asking[c] \in 0 .. 1
  BY SchCounts DEF IType, EvtT, Asking
<1>2. \A c \in Clients : Hookers[c] = regs[c] + Asked[c] + Asking[c]
  BY DEF Hookers
<1>3. \A c \in Clients : Hooks(c) = regs[c] + Asked[c] + Asking[c]
  BY DEF Hooks, Asked, Asking
<1> QED BY <1>1, <1>2, <1>3

\* A step that touches no registration, of a thread that does not pass its end.
LEMMA HookedKept ==
  ASSUME IType, Hooked, Running, UNCHANGED regs, \A c \in Clients : Hookers'[c] <= Hookers[c],
         \A c \in Clients : /\ Hookers'[c] \in Nat /\ (hooked[c] => hooked'[c])
                            /\ pc'[c] \in {"close", "gone"} => pc[c] \in {"close", "gone"} \/ regs[c] = 0
  PROVE  Hooked'
<1>1. \A c \in Clients : Hookers[c] \in Nat
  BY HookersType
<1> QED BY <1>1 DEF Hooked

\* A registration is asked for only when there is none, the request that asks keeps
\* the client's thread from its end, and the thread then takes back what was made.
LEMMA StepHooked ==
  ASSUME IType, IType', Held, Hooked, [Next]_vars, HookTwice = FALSE
  PROVE  Hooked'
<1>a. QueT /\ CliT /\ EvtT /\ regs \in [Clients -> Nat]
  BY DEF IType, EvtT
<1>b. /\ \A c \in Clients : regs[c] \in Nat /\ Asked[c] \in Nat /\ Asking[c] \in 0 .. 1
      /\ \A c \in Clients : Hookers[c] = regs[c] + Asked[c] + Asking[c] /\ Hooks(c) = Hookers[c]
  BY HookersType
<1>c. \A c \in Clients : /\ Hookers'[c] = regs'[c] + Asked'[c] + Asking'[c]
                         /\ regs'[c] \in Nat /\ Asking'[c] \in 0 .. 1
  BY DEF Hookers, Asking, IType, EvtT
<1>1. ASSUME UNCHANGED <<schQ, work, regs>>, Running,
             \A c \in Clients : /\ hooked[c] => hooked'[c]
                                /\ pc'[c] \in {"close", "gone"} => pc[c] \in {"close", "gone"} \/ regs[c] = 0
      PROVE  Hooked'
  <2>1. Asked' = Asked /\ Asking' = Asking
    BY <1>1 DEF Asked, Asking, Asks
  <2>2. \A c \in Clients : Hookers'[c] = Hookers[c] /\ Hookers[c] \in Nat
    BY <1>b, <1>c, <1>1, <2>1
  <2> QED BY <1>1, <2>2, HookedKept
<1>2. CASE UNCHANGED vars
  <2>1. CASE Running
    BY <1>1, <1>2, <2>1 DEF vars, cliVars, queVars, evtVars
  <2>2. CASE ~Running
    BY <1>2, <2>2 DEF vars, poolVars, Running, Hooked
  <2> QED BY <2>1, <2>2
<1> SUFFICES ASSUME Next, Running, Running' PROVE Hooked'
  <2>1. Next => Running
    BY DEF Next, Client, Proc, Sender, Firing, Accept, Start, Recv, Leave, Post, Insert, NextBuf, Drained, Unhook, UnhookAsserts,
       Close, SetupFails, AcceptAssign, AcceptFails, ProcStart, ProcParse, ProcAsserts, ProcDone, SendReply, SendEvent,
       Fire, FireEnd, FireCall, DeleteStart, DeleteBufs, DeleteFree
  <2> QED BY <1>2, <2>1 DEF Hooked
<1>3. ASSUME NEW c \in Clients, Accept(c) \/ Start(c) \/ Recv(c) \/ Leave(c) \/ NextBuf(c) \/ Close(c) PROVE Hooked'
  <2>1. UNCHANGED <<schQ, work, regs, hooked>>
    BY <1>3 DEF Accept, Start, Recv, Leave, NextBuf, Close, queVars, evtVars
  <2>2. \A x \in Clients : pc'[x] \in {"close", "gone"} => pc[x] \in {"close", "gone"}
    BY <1>3, <1>a DEF Accept, Start, Recv, Leave, NextBuf, Close, AfterBuf, Set, CliT
  <2> QED BY <1>1, <2>1, <2>2
<1>4. ASSUME NEW c \in Clients, Drained(c) PROVE Hooked'
  <2>1. UNCHANGED <<schQ, work, regs, hooked>> /\ pc' = [pc EXCEPT ![c] = IF hooked[c] THEN "unhook" ELSE "close"]
    BY <1>4 DEF Drained, queVars, evtVars, Set
  <2>2. hooked[c] \/ regs[c] = 0
    BY <1>b DEF Hooked
  <2>3. \A x \in Clients : pc'[x] \in {"close", "gone"} => pc[x] \in {"close", "gone"} \/ regs[x] = 0
    BY <1>a, <2>1, <2>2 DEF CliT
  <2> QED BY <1>1, <2>1, <2>3
<1>5. ASSUME NEW c \in Clients, Unhook(c) PROVE Hooked'
  <2>1. /\ UNCHANGED <<schQ, work, hooked>> /\ pc' = [pc EXCEPT ![c] = "close"]
        /\ regs' = [regs EXCEPT ![c] = IF regs[c] = 0 THEN 0 ELSE regs[c] - 1]
    BY <1>5 DEF Unhook, queVars, Set
  <2>2. Asked' = Asked /\ Asking' = Asking
    BY <2>1 DEF Asked, Asking, Asks
  <2>3. \A x \in Clients : regs'[x] = IF x = c THEN (IF regs[c] = 0 THEN 0 ELSE regs[c] - 1) ELSE regs[x]
    BY <1>a, <2>1
  <2>4. \A x \in Clients : Hookers'[x] <= 1
    BY <1>b, <1>c, <2>2, <2>3 DEF Hooked
  <2>5. regs[c] <= 1
    BY <1>b DEF Hooked
  <2>6. regs'[c] = 0
    BY <1>b, <2>3, <2>5
  <2>7. \A x \in Clients : (regs'[x] > 0 => hooked'[x]) /\ (pc'[x] \in {"close", "gone"} => regs'[x] = 0)
    BY <1>a, <1>b, <2>1, <2>3, <2>6 DEF Hooked, CliT
  <2> QED BY <2>4, <2>7 DEF Hooked
<1>6. ASSUME NEW c \in Clients, UnhookAsserts(c) PROVE Hooked'
  BY <1>6 DEF UnhookAsserts, Fault, Running
<1>7. ASSUME NEW c \in Clients, Given(c) PROVE Hooked'
  <2>1. UNCHANGED <<work, regs, hooked>> /\ pc' = [pc EXCEPT ![c] = "next"]
    BY <1>7 DEF Given, Set, evtVars
  <2>2. \A x \in Clients : pc'[x] \in {"close", "gone"} => pc[x] \in {"close", "gone"}
    BY <1>a, <2>1 DEF CliT
  <2>3. CASE UNCHANGED schQ
    BY <1>1, <2>1, <2>2, <2>3
  <2>4. ASSUME NEW m \in Msgs[c], m.name = "_hookevt" => Hooks(c) = 0,
               schQ' = SendJob(schQ, [c |-> c, buf |-> buf[c], sn |-> sent[c], msg |-> m])
        PROVE  Hooked'
    <3> DEFINE J == [c |-> c, buf |-> buf[c], sn |-> sent[c], msg |-> m]
    <3>1. J \in Jobs /\ J.c = c /\ J.msg = m
      BY <1>7, <1>a, ServerAssumption DEF Given, CliT, Jobs
    <3>2. schQ' = SendJob(schQ, J)
      BY <2>4
    <3> HIDE DEF J
    <3>3. \A x \in Clients : Asked'[x] = Asked[x] + (IF Asks(J, x) THEN 1 ELSE 0)
      BY <1>a, <3>1, <3>2, SchCounts
    <3>4. \A x \in Clients : Asks(J, x) => x = c /\ Hookers[x] = 0
      BY <1>b, <2>4, <3>1 DEF Asks
    <3>5. Asking' = Asking
      BY <2>1 DEF Asking, Asks
    <3>6. \A x \in Clients : Hookers'[x] = Hookers[x] + (IF Asks(J, x) THEN 1 ELSE 0)
      BY <1>b, <1>c, <2>1, <3>3, <3>5
    <3>7. \A x \in Clients : Hookers'[x] <= 1
      BY <1>b, <3>4, <3>6 DEF Hooked
    <3> QED BY <1>b, <2>1, <2>2, <3>7 DEF Hooked
  <2> QED BY <1>7, <2>3, <2>4 DEF Given, Refused
<1>p. ASSUME NEW c \in Clients, Passed(c) PROVE Hooked'
  <2>1. UNCHANGED <<schQ, work, regs, hooked>>
    BY <1>p DEF Passed, queVars, evtVars
  <2>2. \A x \in Clients : pc'[x] \in {"close", "gone"} => pc[x] \in {"close", "gone"}
    BY <1>p, <1>a DEF Passed, Set, CliT
  <2> QED BY <1>1, <2>1, <2>2
<1>8. CASE ProcStart
  <2>1. PICK j \in Jobs : j = Head(schQ)
    BY <1>8, <1>a, TailType DEF ProcStart, QueT
  <2>2. /\ work = None /\ schQ # <<>> /\ schQ' = Tail(schQ) /\ UNCHANGED <<pc, hooked, regs>>
        /\ \/ work' = work
           \/ work' = [c |-> j.c, buf |-> j.buf, sn |-> j.sn, msg |-> j.msg, obuf |-> Malloc, at |-> "parse"]
    BY <1>8, <2>1 DEF ProcStart, NoReplyBuf, Fault, Running, cliVars, evtVars
  <2>3. \A x \in Clients : Asked[x] = Asked'[x] + (IF Asks(j, x) THEN 1 ELSE 0) /\ Asked'[x] \in Nat
    BY <1>a, <2>1, <2>2, SchCounts
  <2>4. \A x \in Clients : Asking[x] = 0
    BY <2>2 DEF Asking
  <2>5. \A x \in Clients : Asking'[x] = 0 \/ (Asking'[x] = 1 /\ Asks(j, x))
    <3>1. CASE work' = work
      BY <2>2, <3>1 DEF Asking
    <3>2. CASE work' = [c |-> j.c, buf |-> j.buf, sn |-> j.sn, msg |-> j.msg, obuf |-> Malloc, at |-> "parse"]
      <4>1. work'.c = j.c /\ work'.msg = j.msg
        BY <3>2
      <4> QED BY <4>1 DEF Asking, Asks
    <3> QED BY <2>2, <3>1, <3>2
  <2>6. \A x \in Clients : Hookers'[x] <= Hookers[x] /\ Hookers'[x] \in Nat
    BY <1>b, <1>c, <2>2, <2>3, <2>4, <2>5
  <2> QED BY <2>2, <2>6, HookedKept
<1>9. CASE ProcParse
  <2> DEFINE e == Parse(work.msg, Encoder).effect
             w == work.c
  <2>1. work \in Works /\ work.at = "parse" /\ work # None /\ w \in Clients /\ work.msg \in Requests
    BY <1>9, <1>a DEF ProcParse, QueT, Works
  <2>2. /\ UNCHANGED <<schQ, pc>>
        /\ hooked' = [hooked EXCEPT ![w] = hooked[w] \/ work.msg.app = "link"]
        /\ regs' = [regs EXCEPT ![w] = CASE e = "_hookevt" -> regs[w] + 1
                                         [] e = "_unhookevt" /\ regs[w] > 0 -> regs[w] - 1
                                         [] OTHER -> regs[w]]
    BY <1>9 DEF ProcParse, queVars, Set
  <2>3. work' # None /\ work'.at # "parse"
    <3>1. work' = [work EXCEPT !.at = IF Parse(work.msg, Encoder).out = <<>> THEN "noreply" ELSE "reply"]
      BY <1>9 DEF ProcParse
    <3>2. work' \in Works /\ work'.at \in {"noreply", "reply"}
      BY <2>1, <3>1 DEF Works
    <3> QED BY <3>2, ServerAssumption
  <2>4. e = "_hookevt" => work.msg.app = "link" /\ work.msg.name = "_hookevt"
    BY <2>1, ParseEffect
  <2> HIDE DEF e
  <2>5. e = "_hookevt" => Asking[w] = 1
    BY <2>1, <2>4 DEF Asking, Asks
  <2>6. Asked' = Asked /\ \A x \in Clients : Asking'[x] = 0
    BY <2>2, <2>3 DEF Asked, Asking, Asks
  <2>7. pc[w] \notin Ended
    <3>1. Carried[w] = 1
      BY <2>1 DEF Carried
    <3>2. Pends[w] >= 1
      BY <1>a, <2>1, <3>1, PendsType
    <3> QED BY <2>1, <3>2 DEF Held
  <2>8. /\ e = "_hookevt" => regs'[w] = regs[w] + 1 /\ hooked'[w]
        /\ e # "_hookevt" => regs'[w] <= regs[w] /\ (hooked[w] => hooked'[w])
        /\ \A x \in Clients : x # w => regs'[x] = regs[x] /\ hooked'[x] = hooked[x]
    <3> HIDE DEF w
    <3>1. \A x \in Clients : regs'[x] = IF x = w THEN (CASE e = "_hookevt" -> regs[w] + 1
                                                        [] e = "_unhookevt" /\ regs[w] > 0 -> regs[w] - 1
                                                        [] OTHER -> regs[w])
                                          ELSE regs[x]
      BY <1>a, <2>2
    <3>2. hooked \in [Clients -> BOOLEAN]
      BY <1>a DEF CliT
    <3>3. \A x \in Clients : x # w => hooked'[x] = hooked[x]
      BY <2>2, <3>2
    <3>4. hooked'[w] = (hooked[w] \/ work.msg.app = "link")
      BY <2>1, <2>2, <3>2
    <3>5. (e = "_hookevt" => hooked'[w]) /\ (hooked[w] => hooked'[w])
      BY <2>4, <3>4, Zenon
    <3>6. e = "_hookevt" => regs'[w] = regs[w] + 1
      BY <2>1, <3>1
    <3>7. e # "_hookevt" => regs'[w] <= regs[w]
      BY <1>b, <2>1, <3>1
    <3>8. \A x \in Clients : x # w => regs'[x] = regs[x]
      BY <3>1
    <3> QED BY <3>3, <3>5, <3>6, <3>7, <3>8
  <2>9. \A x \in Clients : Hookers'[x] <= Hookers[x] /\ Hookers[x] \in Nat
    <3> HIDE DEF w
    <3> QED BY <1>b, <1>c, <2>1, <2>5, <2>6, <2>8
  <2>10. \A x \in Clients : regs'[x] > 0 => hooked'[x]
    <3> HIDE DEF w
    <3> QED BY <1>b, <1>c, <2>1, <2>8 DEF Hooked
  <2>11. \A x \in Clients : pc'[x] \in {"close", "gone"} => regs'[x] = 0
    <3> HIDE DEF w
    <3> QED BY <1>b, <2>1, <2>2, <2>7, <2>8 DEF Hooked, Ended
  <2>12. \A x \in Clients : Hookers[x] <= 1
    BY DEF Hooked
  <2>13. \A x \in Clients : Hookers'[x] \in Nat
    BY <1>b, <1>c, <2>6
  <2>14. \A x \in Clients : Hookers'[x] <= 1
    BY <2>9, <2>12, <2>13
  <2> QED BY <2>10, <2>11, <2>14 DEF Hooked
<1>10. CASE ProcDone
  <2>1. /\ UNCHANGED <<schQ, pc, regs, hooked>> /\ work' = None /\ work.at # "parse"
    BY <1>10 DEF ProcDone, evtVars
  <2>2. Asked' = Asked /\ Asking' = Asking
    BY <2>1 DEF Asked, Asking, Asks
  <2>3. \A x \in Clients : Hookers'[x] = Hookers[x] /\ Hookers[x] \in Nat
    BY <1>b, <1>c, <2>1, <2>2
  <2> QED BY <2>1, <2>3, HookedKept
<1>11. CASE DeleteFree
  <2>1. UNCHANGED <<work, pc, regs, hooked>> /\ schQ' = <<>>
    BY <1>11 DEF DeleteFree, cliVars, evtVars
  <2>2. Asking' = Asking /\ \A x \in Clients : Asked'[x] = 0
    BY <1>a, <2>1, SchCounts DEF Asking, Asks
  <2>3. \A x \in Clients : Hookers'[x] <= Hookers[x] /\ Hookers'[x] \in Nat
    BY <1>b, <1>c, <2>1, <2>2
  <2> QED BY <2>1, <2>3, HookedKept
<1>12. CASE \/ SetupFails \/ AcceptAssign \/ AcceptFails \/ SendReply \/ SendEvent \/ Fire \/ FireEnd
            \/ DeleteStart \/ DeleteBufs \/ \E c \in Clients : FireCall(c)
  <2>1. UNCHANGED <<schQ, work, regs, pc, hooked>>
    BY <1>12 DEF SetupFails, AcceptAssign, AcceptFails, SendReply, SendEvent, Fire, FireEnd, DeleteStart, DeleteBufs,
       FireCall, cliVars, queVars, evtVars
  <2> QED BY <1>1, <2>1
<1>13. CASE ProcAsserts
  BY <1>13 DEF ProcAsserts, Fault, Running
<1> QED
  BY <1>3, <1>4, <1>5, <1>6, <1>7, <1>8, <1>9, <1>10, <1>11, <1>12, <1>13, <1>p, Posts DEF Next, Client, Proc, Sender, Firing

\* Nothing is counted or registered at first.
LEMMA InitHeld == Init => Held /\ Hooked
<1> SUFFICES ASSUME Init PROVE Held /\ Hooked
  OBVIOUS
<1>1. IType
  BY InitType
<1>2. \A c \in Clients : Queued[c] = 0 /\ Asked[c] = 0
  <2>1. schQ = <<>> /\ DOMAIN schQ = {}
    BY DEF Init
  <2>2. \A c \in Clients : Queued[c] = Cardinality({}) /\ Asked[c] = Cardinality({})
    BY <2>1 DEF Queued, Asked
  <2> QED BY <2>2, FS_EmptySet
<1>3. \A c \in Clients : Carried[c] = 0 /\ Posted[c] = 0 /\ Asking[c] = 0
  BY DEF Init, Carried, Posted, Asking
<1>4. \A c \in Clients : Pends[c] = 0 /\ Hookers[c] = 0
  BY <1>2, <1>3 DEF Pends, Hookers, Init
<1> QED BY <1>4 DEF Held, Hooked, Init, Ended

\* What the two invariants say of a client that is freed.
LEMMA Outlives ==
  ASSUME IType, Held, Hooked
  PROVE  ClientOutlivesUses
<1>1. \A c \in Clients : Pending(c) = Pends[c]
  BY PendsType DEF IType
<1>2. RequestsHoldClient
  BY <1>1 DEF RequestsHoldClient, Held, Ended, Gone
<1>3. UnhookedWhenGone
  BY DEF UnhookedWhenGone, Hooked, Gone
<1> QED BY <1>2, <1>3 DEF ClientOutlivesUses

\* With atomic operations that are atomic, and clients that hook an event once, no
\* request and no callback ever meets a freed client: whatever is sent, dropped,
\* refused or starved of memory, and whenever connections are lost or the server is
\* deleted.
THEOREM ClientsOutlive ==
  ASSUME Atomics # "stub", HookTwice = FALSE
  PROVE  Spec => []ClientOutlivesUses
<1> DEFINE Inv == Held /\ Hooked
<1>1. Init => Inv
  BY InitHeld
<1>2. IType /\ IType' /\ Inv /\ [Next]_vars => Inv'
  BY StepHeld, StepHooked
<1>3. IType /\ Inv => ClientOutlivesUses
  BY Outlives
<1>4. Spec => []IType
  BY TypeInvariant, PTL
<1> QED BY <1>1, <1>2, <1>3, <1>4, PTL DEF Spec
-----------------------------------------------------------------------------
(* Where the buffers are.                                                  *)

\* The buffers that client threads hold, and those of the request being carried out.
ClientBufs == {buf[c] : c \in Clients} \ {NoBuf}
Carries == IF work = None THEN {} ELSE {work.buf, work.obuf}

\* w says where each buffer is.
Found(w) ==
  /\ w \in [Bufs -> {"client", "sch", "resp", "evt", "work", "free", "heap"}]
  /\ \A b \in Bufs : /\ b \in ClientBufs <=> w[b] = "client"
                     /\ b \in BufsOf(schQ) <=> w[b] = "sch"
                     /\ b \in BufsOf(respQ) <=> w[b] = "resp"
                     /\ b \in BufsOf(evtQ) <=> w[b] = "evt"
                     /\ b \in Carries <=> w[b] = "work"
                     /\ b \in freebuf <=> w[b] = "free"
                     /\ b \in heap <=> w[b] = "heap"

\* No place names a buffer twice, and a thread that has passed its buffer on, or
\* not got one yet, does not name one.
Single ==
  /\ Distinct(schQ) /\ Distinct(respQ) /\ Distinct(evtQ)
  /\ \A c, d \in Clients : buf[c] = buf[d] /\ buf[c] # NoBuf => c = d
  /\ work # None => work.buf # work.obuf
  /\ \A c \in Clients : pc[c] \in {"none", "start", "next", "gone"} => buf[c] = NoBuf

\* Each buffer is somewhere, once: until the free list is freed or a fault ends the
\* execution.
Conserved == Running /\ run \in {"yes", "no"} => Single /\ \E w : Found(w)

\* The buffers named are buffers.
LEMMA PlaceTypes ==
  ASSUME IType
  PROVE  /\ ClientBufs \subseteq Bufs /\ BufsOf(schQ) \subseteq Bufs /\ BufsOf(respQ) \subseteq Bufs
         /\ BufsOf(evtQ) \subseteq Bufs /\ Carries \subseteq Bufs
         /\ freebuf \subseteq Bufs /\ heap \subseteq Bufs
         /\ \A c \in Clients : buf[c] # NoBuf => buf[c] \in Bufs /\ buf[c] \in ClientBufs
<1>1. ClientBufs \subseteq Bufs /\ \A c \in Clients : buf[c] # NoBuf => buf[c] \in Bufs /\ buf[c] \in ClientBufs
  BY DEF ClientBufs, IType, CliT
<1>2. BufsOf(schQ) \subseteq Bufs
  <2>1. \A i \in DOMAIN schQ : schQ[i] \in Jobs
    BY DEF IType, QueT
  <2> QED BY <2>1 DEF BufsOf, Jobs
<1>3. BufsOf(respQ) \subseteq Bufs
  <2>1. \A i \in DOMAIN respQ : respQ[i] \in Replies
    BY DEF IType, QueT
  <2> QED BY <2>1 DEF BufsOf, Replies
<1>4. BufsOf(evtQ) \subseteq Bufs
  <2>1. \A i \in DOMAIN evtQ : evtQ[i] \in Events
    BY DEF IType, QueT
  <2> QED BY <2>1 DEF BufsOf, Events
<1>5. Carries \subseteq Bufs
  BY DEF Carries, IType, QueT, Works
<1> QED BY <1>1, <1>2, <1>3, <1>4, <1>5 DEF IType, PoolT

\* Malloc gives a buffer that nobody has.
LEMMA MallocWhere ==
  ASSUME IType, NEW w, Found(w)
  PROVE  /\ Malloc \in Bufs \cup {NoBuf} /\ NoBuf \notin Bufs
         /\ Malloc # NoBuf => w[Malloc] \in {"free", "heap"}
<1>1. Malloc \in freebuf \cup heap \cup {NoBuf}
  BY DEF Malloc
<1> QED BY <1>1, MallocType DEF IType, PoolT, Found

\* What a client thread that changes its buffer does to those that threads hold.
LEMMA ClientBufsNext ==
  ASSUME IType, Single, NEW c \in Clients, NEW v \in Bufs \cup {NoBuf}, buf' = Set(buf, c, v),
         v = NoBuf \/ v \notin ClientBufs
  PROVE  /\ ClientBufs' = (ClientBufs \ {buf[c]}) \cup ({v} \ {NoBuf})
         /\ \A x, y \in Clients : buf'[x] = buf'[y] /\ buf'[x] # NoBuf => x = y
         /\ buf'[c] = v /\ \A x \in Clients \ {c} : buf'[x] = buf[x]
<1>1. \A x \in Clients : buf'[x] = IF x = c THEN v ELSE buf[x]
  BY DEF Set, IType, CliT
<1>2. ClientBufs' = {buf'[x] : x \in Clients} \ {NoBuf}
  BY DEF ClientBufs
<1>3. \A x, y \in Clients : buf'[x] = buf'[y] /\ buf'[x] # NoBuf => x = y
  <2>1. \A x \in Clients : buf[x] # NoBuf => buf[x] \in ClientBufs
    BY DEF ClientBufs
  <2> QED BY <1>1, <2>1 DEF Single
<1>4. (ClientBufs \ {buf[c]}) = {buf[x] : x \in Clients \ {c}} \ {NoBuf}
  <2>1. \A x \in Clients \ {c} : buf[x] # NoBuf => buf[x] # buf[c]
    BY DEF Single
  <2> QED BY <2>1 DEF ClientBufs
<1>5. {buf'[x] : x \in Clients} = {buf[x] : x \in Clients \ {c}} \cup {v}
  BY <1>1
<1> QED BY <1>1, <1>2, <1>3, <1>4, <1>5

\* Where the buffers are after a step, said place by place.
LEMMA FoundNext ==
  ASSUME NEW u \in [Bufs -> {"client", "sch", "resp", "evt", "work", "free", "heap"}],
         \A b \in Bufs : /\ b \in ClientBufs' <=> u[b] = "client"
                         /\ b \in BufsOf(schQ)' <=> u[b] = "sch"
                         /\ b \in BufsOf(respQ)' <=> u[b] = "resp"
                         /\ b \in BufsOf(evtQ)' <=> u[b] = "evt"
                         /\ b \in Carries' <=> u[b] = "work"
                         /\ b \in freebuf' <=> u[b] = "free"
                         /\ b \in heap' <=> u[b] = "heap"
  PROVE  \E v : Found(v)'
  BY DEF Found

\* Steps that move no buffer.
LEMMA BufsStay ==
  ASSUME IType, Single, NEW w, Found(w), UNCHANGED <<buf, queVars, freebuf, heap>>,
         Carries' = Carries, work' # None => work # None /\ work'.buf = work.buf /\ work'.obuf = work.obuf,
         \A c \in Clients : pc'[c] \in {"none", "start", "next", "gone"} => pc[c] \in {"none", "start", "next", "gone"}
  PROVE  Single' /\ Found(w)'
<1>1. Single'
  BY DEF Single, queVars, Distinct
<1>2. ClientBufs' = ClientBufs /\ BufsOf(schQ)' = BufsOf(schQ) /\ BufsOf(respQ)' = BufsOf(respQ)
      /\ BufsOf(evtQ)' = BufsOf(evtQ)
  BY DEF ClientBufs, BufsOf, queVars
<1>3. Found(w)'
  BY <1>2 DEF Found
<1> QED BY <1>1, <1>3

\* Every step keeps each buffer at one place.
LEMMA StepConserved ==
  ASSUME IType, IType', Conserved, [Next]_vars
  PROVE  Conserved'
<1> SUFFICES ASSUME Running', run' \in {"yes", "no"} PROVE Single' /\ \E w : Found(w)'
  BY DEF Conserved
<1>0. Running /\ run \in {"yes", "no"} /\ ~Freed /\ ~BadPool
  <2>1. Running
    BY DEF Next, vars, poolVars, Client, Proc, Sender, Firing, Running, Accept, SetupFails, AcceptAssign,
       AcceptFails, Start, Recv, Leave, Post, Insert, NextBuf, Drained, Unhook, UnhookAsserts, Close, ProcStart,
       ProcParse, ProcAsserts, ProcDone, SendReply, SendEvent, Fire, FireCall, FireEnd, DeleteStart,
       DeleteBufs, DeleteFree
  <2>2. run \in {"yes", "no"}
    BY DEF Next, vars, thrVars, Client, Proc, Sender, Firing, Accept, SetupFails, AcceptAssign,
       AcceptFails, Start, Recv, Leave, Post, Insert, NextBuf, Drained, Unhook, UnhookAsserts, Close, ProcStart,
       ProcParse, ProcAsserts, ProcDone, SendReply, SendEvent, Fire, FireCall, FireEnd, DeleteStart,
       DeleteBufs, DeleteFree
  <2> QED BY <2>1, <2>2 DEF Freed, BadPool
<1>1. Single
  BY <1>0 DEF Conserved
<1>2. PICK w : Found(w)
  BY <1>0 DEF Conserved
<1>w. /\ w \in [Bufs -> {"client", "sch", "resp", "evt", "work", "free", "heap"}]
      /\ \A b \in Bufs : /\ b \in ClientBufs <=> w[b] = "client"
                         /\ b \in BufsOf(schQ) <=> w[b] = "sch"
                         /\ b \in BufsOf(respQ) <=> w[b] = "resp"
                         /\ b \in BufsOf(evtQ) <=> w[b] = "evt"
                         /\ b \in Carries <=> w[b] = "work"
                         /\ b \in freebuf <=> w[b] = "free"
                         /\ b \in heap <=> w[b] = "heap"
  BY <1>2 DEF Found
<1>m. /\ Malloc \in Bufs \cup {NoBuf} /\ NoBuf \notin Bufs
      /\ Malloc # NoBuf => w[Malloc] \in {"free", "heap"}
  BY <1>2, MallocWhere
<1>p. PICK m : m = Malloc
  OBVIOUS
<1>n. \A why \in {"ipc", "client", "null", "assert"} : ~Fault(why)
  BY DEF Fault, Running
<1> DEFINE Moved(b, p) == [x \in Bufs |-> IF x = b THEN p ELSE w[x]]
<1>3. CASE UNCHANGED vars
  <2>1. UNCHANGED <<buf, queVars, freebuf, heap>> /\ UNCHANGED <<work, pc>>
    BY <1>3 DEF vars, cliVars, poolVars
  <2>2. Carries' = Carries
    BY <2>1 DEF Carries
  <2> QED BY <1>1, <1>2, <2>1, <2>2, BufsStay
<1>4. ASSUME NEW c \in Clients,
             Accept(c) \/ Recv(c) \/ Leave(c) \/ Drained(c) \/ Unhook(c) \/ UnhookAsserts(c)
      PROVE  Single' /\ \E u : Found(u)'
  <2>1. UNCHANGED <<buf, queVars, freebuf, heap>> /\ UNCHANGED work
    BY <1>4, <1>n DEF Accept, Recv, Leave, Drained, Unhook, UnhookAsserts, cliVars, poolVars
  <2>2. Carries' = Carries
    BY <2>1 DEF Carries
  <2>3. \A x \in Clients : pc'[x] \in {"none", "start", "next", "gone"} => pc[x] \in {"none", "start", "next", "gone"}
    BY <1>4, <1>n DEF Accept, Recv, Leave, Drained, Unhook, UnhookAsserts, Set, IType, CliT
  <2> QED BY <1>1, <1>2, <2>1, <2>2, <2>3, BufsStay
<1>q. ASSUME NEW c \in Clients, Passed(c) PROVE Single' /\ \E u : Found(u)'
  <2>1. UNCHANGED <<buf, queVars, freebuf, heap>> /\ UNCHANGED work
    BY <1>q DEF Passed, poolVars
  <2>2. Carries' = Carries
    BY <2>1 DEF Carries
  <2>3. \A x \in Clients : pc'[x] \in {"none", "start", "next", "gone"} => pc[x] \in {"none", "start", "next", "gone"}
    BY <1>q DEF Passed, Set, IType, CliT
  <2> QED BY <1>1, <1>2, <2>1, <2>2, <2>3, BufsStay
<1>5. CASE \/ SetupFails \/ AcceptAssign \/ AcceptFails \/ ProcAsserts \/ Fire \/ FireEnd
           \/ DeleteStart \/ ProcParse
  <2>1. UNCHANGED <<buf, queVars, freebuf, heap, pc>>
    BY <1>5, <1>n, <1>0 DEF SetupFails, AcceptAssign, AcceptFails, ProcAsserts, Fire, FireEnd, DeleteStart,
       ProcParse, cliVars, poolVars
  <2>2. Carries' = Carries /\ (work' # None => work # None /\ work'.buf = work.buf /\ work'.obuf = work.obuf)
    <3>1. CASE UNCHANGED work
      BY <3>1 DEF Carries
    <3>2. CASE ProcParse
      <4>1. work \in Works /\ work # None
        BY <3>2 DEF ProcParse, IType, QueT
      <4>2. work' = [work EXCEPT !.at = work'.at]
        BY <3>2, <4>1 DEF ProcParse, Works
      <4>3. work'.buf = work.buf /\ work'.obuf = work.obuf
        BY <4>1, <4>2 DEF Works
      <4>4. work' # None
        <5>1. work' \in Works
          BY <3>2, <4>1 DEF ProcParse, Works
        <5> QED BY <5>1, ServerAssumption
      <4> QED BY <4>1, <4>3, <4>4 DEF Carries
    <3> QED BY <1>5, <3>1, <3>2 DEF SetupFails, AcceptAssign, AcceptFails, ProcAsserts, Fire, FireEnd, DeleteStart
  <2> QED BY <1>1, <1>2, <2>1, <2>2, BufsStay
<1>6. ASSUME NEW c \in Clients, Start(c) \/ NextBuf(c) PROVE Single' /\ \E u : Found(u)'
  <2>1. /\ buf' = Set(buf, c, m) /\ PoolStep(m, {}) /\ UNCHANGED queVars /\ UNCHANGED work
        /\ buf[c] = NoBuf
    BY <1>6, <1>0, <1>1, <1>p DEF Start, NextBuf, Single
  <2>2. m = NoBuf \/ m \notin ClientBufs
    BY <1>m, <1>w, <1>p
  <2>3. /\ ClientBufs' = (ClientBufs \ {buf[c]}) \cup ({m} \ {NoBuf})
        /\ \A x, y \in Clients : buf'[x] = buf'[y] /\ buf'[x] # NoBuf => x = y
        /\ buf'[c] = m /\ \A x \in Clients \ {c} : buf'[x] = buf[x]
    BY <1>1, <1>m, <1>p, <2>1, <2>2, ClientBufsNext
  <2>4. Carries' = Carries /\ BufsOf(schQ)' = BufsOf(schQ) /\ BufsOf(respQ)' = BufsOf(respQ) /\ BufsOf(evtQ)' = BufsOf(evtQ)
    BY <2>1 DEF Carries, BufsOf, queVars
  <2>5. Single'
    <3>1. \A x \in Clients : pc'[x] \in {"none", "start", "next", "gone"} => x # c /\ pc'[x] = pc[x]
      BY <1>6 DEF Start, NextBuf, Set, AfterBuf, IType, CliT
    <3> QED BY <1>1, <2>1, <2>3, <3>1 DEF Single, Distinct, queVars
  <2>6. \E u : Found(u)'
    <3> DEFINE u == Moved(m, "client")
    <3>1. freebuf' = freebuf \ {m} /\ heap' = heap \ {m} /\ ClientBufs' = ClientBufs \cup ({m} \ {NoBuf})
      BY <2>1, <2>3 DEF PoolStep, ClientBufs
    <3>2. u \in [Bufs -> {"client", "sch", "resp", "evt", "work", "free", "heap"}]
      BY <1>w
    <3>3. \A b \in Bufs : u[b] = IF b = m THEN "client" ELSE w[b]
      OBVIOUS
    <3> HIDE DEF u
    <3>4. ASSUME NEW b \in Bufs
          PROVE  /\ b \in ClientBufs' <=> u[b] = "client"
                 /\ b \in freebuf' <=> u[b] = "free"
                 /\ b \in heap' <=> u[b] = "heap"
      BY <1>w, <1>m, <1>p, <3>1, <3>3
    <3>5. \A b \in Bufs : w[b] \in {"sch", "resp", "evt", "work"} \/ u[b] \in {"sch", "resp", "evt", "work"} => u[b] = w[b]
      BY <1>w, <1>m, <1>p, <3>3
    <3> QED BY <1>w, <2>4, <3>2, <3>4, <3>5, FoundNext
  <2> QED BY <2>5, <2>6
<1>7. ASSUME NEW c \in Clients, Given(c) PROVE Single' /\ \E u : Found(u)'
  <2>0. PICK b : b = buf[c]
    OBVIOUS
  <2>1. b \in Bufs /\ w[b] = "client"
    <3>1. buf[c] \in Bufs
      BY <1>7, <1>0 DEF Given, IType, CliT
    <3> QED BY <1>w, <1>m, <2>0, <3>1 DEF ClientBufs
  <2>2. /\ buf' = Set(buf, c, NoBuf) /\ UNCHANGED <<respQ, evtQ, work>>
        /\ \A x \in Clients : pc'[x] \in {"none", "start", "next", "gone"} => x = c \/ pc'[x] = pc[x]
    BY <1>7 DEF Given, Set, IType, CliT
  <2>3. /\ ClientBufs' = ClientBufs \ {b}
        /\ \A x, y \in Clients : buf'[x] = buf'[y] /\ buf'[x] # NoBuf => x = y
        /\ buf'[c] = NoBuf /\ \A x \in Clients \ {c} : buf'[x] = buf[x]
    BY <1>1, <1>m, <2>0, <2>2, ClientBufsNext
  <2>4. Carries' = Carries /\ BufsOf(respQ)' = BufsOf(respQ) /\ BufsOf(evtQ)' = BufsOf(evtQ)
    BY <2>2 DEF Carries, BufsOf
  <2>5. Distinct(schQ)' => Single'
    BY <1>1, <2>2, <2>3 DEF Single, Distinct
  <2>6. CASE Free(b) /\ UNCHANGED schQ
    <3> DEFINE u == Moved(b, "free")
    <3>1. /\ freebuf' = freebuf \cup {b} /\ heap' = heap
          /\ BufsOf(schQ)' = BufsOf(schQ) /\ Distinct(schQ)'
      BY <1>1, <1>m, <2>6, PlaceTypes DEF Free, PoolStep, BufsOf, Single, Distinct
    <3>2. /\ u \in [Bufs -> {"client", "sch", "resp", "evt", "work", "free", "heap"}]
          /\ \A x \in Bufs : u[x] = IF x = b THEN "free" ELSE w[x]
      BY <1>w
    <3> HIDE DEF u
    <3>3. \E v : Found(v)'
      BY <1>w, <2>1, <2>3, <2>4, <3>1, <3>2, FoundNext
    <3> QED BY <2>5, <3>1, <3>3
  <2>7. ASSUME NEW j \in Jobs, j.buf = b, schQ' = SendJob(schQ, j), UNCHANGED poolVars
        PROVE  Single' /\ \E u : Found(u)'
    <3> DEFINE u == Moved(b, "sch")
    <3>1. schQ \in Seq(Jobs) /\ Distinct(schQ) /\ j.buf \notin BufsOf(schQ)
      BY <1>1, <1>w, <2>1, <2>7 DEF IType, QueT, Single
    <3>2. Distinct(schQ') /\ BufsOf(schQ') = BufsOf(schQ) \cup {b}
      BY <2>7, <3>1, BufSent
    <3>3. freebuf' = freebuf /\ heap' = heap /\ BufsOf(schQ)' = BufsOf(schQ) \cup {b} /\ Distinct(schQ)'
      BY <2>7, <3>2 DEF poolVars, BufsOf, Distinct
    <3>4. /\ u \in [Bufs -> {"client", "sch", "resp", "evt", "work", "free", "heap"}]
          /\ \A x \in Bufs : u[x] = IF x = b THEN "sch" ELSE w[x]
      BY <1>w
    <3> HIDE DEF u
    <3>5. \E v : Found(v)'
      BY <1>w, <2>1, <2>3, <2>4, <3>3, <3>4, FoundNext
    <3> QED BY <2>5, <3>3, <3>5
  <2>8. CASE Refused(c)
    BY <2>0, <2>6, <2>8 DEF Refused
  <2>9. CASE \E m0 \in Msgs[c] :
               /\ schQ' = SendJob(schQ, [c |-> c, buf |-> buf[c], sn |-> sent[c], msg |-> m0])
               /\ UNCHANGED poolVars
    <3>1. PICK m0 \in Msgs[c] : schQ' = SendJob(schQ, [c |-> c, buf |-> buf[c], sn |-> sent[c], msg |-> m0])
      BY <2>9
    <3>2. PICK j : j = [c |-> c, buf |-> buf[c], sn |-> sent[c], msg |-> m0]
      OBVIOUS
    <3>3. j \in Jobs /\ j.buf = b
      BY <2>0, <2>1, <3>2, ServerAssumption DEF Jobs, IType, CliT
    <3> QED BY <2>7, <2>9, <3>1, <3>2, <3>3
  <2> QED BY <1>7, <1>0, <2>8, <2>9 DEF Given
<1>8. ASSUME NEW c \in Clients, Close(c) PROVE Single' /\ \E u : Found(u)'
  <2>0. PICK b : b = buf[c]
    OBVIOUS
  <2>2. /\ buf' = Set(buf, c, NoBuf) /\ UNCHANGED queVars /\ UNCHANGED work
        /\ \A x \in Clients : pc'[x] \in {"none", "start", "next", "gone"} => x = c \/ pc'[x] = pc[x]
        /\ IF b = NoBuf THEN UNCHANGED <<freebuf, heap>> ELSE Free(b)
    BY <1>8, <1>0, <2>0 DEF Close, Set, IType, CliT, poolVars
  <2>3. /\ ClientBufs' = ClientBufs \ {b}
        /\ \A x, y \in Clients : buf'[x] = buf'[y] /\ buf'[x] # NoBuf => x = y
        /\ buf'[c] = NoBuf /\ \A x \in Clients \ {c} : buf'[x] = buf[x]
    BY <1>1, <1>m, <2>0, <2>2, ClientBufsNext
  <2>4. /\ Carries' = Carries /\ BufsOf(schQ)' = BufsOf(schQ)
        /\ BufsOf(respQ)' = BufsOf(respQ) /\ BufsOf(evtQ)' = BufsOf(evtQ)
    BY <2>2 DEF Carries, BufsOf, queVars
  <2>5. Single'
    BY <1>1, <2>2, <2>3 DEF Single, Distinct, queVars
  <2>6. CASE b = NoBuf
    BY <1>w, <1>m, <2>2, <2>3, <2>4, <2>5, <2>6, FoundNext
  <2>7. CASE b # NoBuf
    <3> DEFINE u == Moved(b, "free")
    <3>1. freebuf' = freebuf \cup {b} /\ heap' = heap /\ b \in Bufs /\ w[b] = "client"
      BY SMTT(20), <1>w, <1>m, <2>0, <2>2, <2>7, PlaceTypes DEF Free, PoolStep
    <3>2. /\ u \in [Bufs -> {"client", "sch", "resp", "evt", "work", "free", "heap"}]
          /\ \A x \in Bufs : u[x] = IF x = b THEN "free" ELSE w[x]
      BY <1>w
    <3> HIDE DEF u
    <3>3. \E v : Found(v)'
      BY <1>w, <2>3, <2>4, <3>1, <3>2, FoundNext
    <3> QED BY <2>5, <3>3
  <2> QED BY <2>6, <2>7
<1>9. CASE ProcStart
  <2>1. PICK j \in Jobs : j = Head(schQ)
    BY <1>9, TailType DEF ProcStart, IType, QueT
  <2>2. PICK b : b = j.buf
    OBVIOUS
  <2>3. b \in Bufs /\ w[b] = "sch" /\ Distinct(Tail(schQ)) /\ BufsOf(Tail(schQ)) = BufsOf(schQ) \ {b}
    BY <1>9, <1>1, <1>w, <2>1, <2>2, BufTaken DEF ProcStart, IType, QueT, Single, Jobs
  <2>4. /\ schQ' = Tail(schQ) /\ work = None /\ UNCHANGED <<buf, pc, respQ, evtQ>>
        /\ IF m = NoBuf THEN Free(b) /\ UNCHANGED work
           ELSE /\ work' = [c |-> j.c, buf |-> b, sn |-> j.sn, msg |-> j.msg, obuf |-> m, at |-> "parse"]
                /\ PoolStep(m, {})
    BY <1>9, <1>0, <1>n, <1>p, <2>1, <2>2 DEF ProcStart, NoReplyBuf, cliVars
  <2>5. /\ Distinct(schQ)' /\ BufsOf(schQ)' = BufsOf(schQ) \ {b}
        /\ ClientBufs' = ClientBufs /\ BufsOf(respQ)' = BufsOf(respQ) /\ BufsOf(evtQ)' = BufsOf(evtQ)
    BY <2>3, <2>4 DEF BufsOf, Distinct, ClientBufs
  <2>6. (work' # None => work'.buf # work'.obuf) => Single'
    BY <1>1, <2>4, <2>5 DEF Single, Distinct
  <2>7. CASE m = NoBuf
    <3> DEFINE u == Moved(b, "free")
    <3>1. freebuf' = freebuf \cup {b} /\ heap' = heap /\ Carries' = Carries /\ work' = None
      <4>1. Free(b) /\ work' = work /\ work = None
        BY <2>4, <2>7
      <4>2. freebuf' = freebuf \cup {b} /\ heap' = heap
        BY <1>m, <4>1, PlaceTypes DEF Free, PoolStep
      <4> QED BY <4>1, <4>2 DEF Carries
    <3>2. /\ u \in [Bufs -> {"client", "sch", "resp", "evt", "work", "free", "heap"}]
          /\ \A x \in Bufs : u[x] = IF x = b THEN "free" ELSE w[x]
      BY <1>w
    <3> HIDE DEF u
    <3>3. \E v : Found(v)'
      BY <1>w, <2>3, <2>5, <3>1, <3>2, FoundNext
    <3> QED BY <2>6, <3>1, <3>3
  <2>8. CASE m # NoBuf
    <3> DEFINE u == [x \in Bufs |-> IF x = b \/ x = m THEN "work" ELSE w[x]]
    <3>1. m \in Bufs /\ w[m] \in {"free", "heap"} /\ m # b
      BY <1>m, <1>p, <2>3, <2>8
    <3>2. work'.buf = b /\ work'.obuf = m /\ work' # None /\ Carries = {}
      <4>1. work' \in Works
        BY <2>1, <2>2, <2>3, <2>4, <2>8, <3>1 DEF Jobs, Works
      <4> QED BY <2>4, <2>8, <4>1, ServerAssumption DEF Carries
    <3>3. freebuf' = freebuf \ {m} /\ heap' = heap \ {m} /\ Carries' = {b, m}
      BY <2>4, <2>8, <3>2 DEF PoolStep, Carries
    <3>4. /\ u \in [Bufs -> {"client", "sch", "resp", "evt", "work", "free", "heap"}]
          /\ \A x \in Bufs : u[x] = IF x = b \/ x = m THEN "work" ELSE w[x]
      BY <1>w
    <3> HIDE DEF u
    <3>5. \E v : Found(v)'
      BY <1>w, <2>3, <2>5, <3>1, <3>2, <3>3, <3>4, FoundNext
    <3> QED BY <2>6, <3>1, <3>2, <3>5
  <2> QED BY <2>7, <2>8
<1>10. CASE ProcDone
  <2>1. PICK a, o : a = work.buf /\ o = work.obuf
    OBVIOUS
  <2>2. /\ work \in Works /\ a \in Bufs /\ o \in Bufs /\ a # o /\ w[a] = "work" /\ w[o] = "work"
        /\ Carries = {a, o}
    <3>1. work \in Works /\ work # None
      BY <1>10 DEF ProcDone, IType, QueT
    <3> QED BY <1>1, <1>w, <2>1, <3>1 DEF Works, Carries, Single
  <2>3. /\ UNCHANGED <<buf, pc, schQ, evtQ>> /\ work' = None /\ Carries' = {}
        /\ ClientBufs' = ClientBufs /\ BufsOf(schQ)' = BufsOf(schQ) /\ BufsOf(evtQ)' = BufsOf(evtQ)
    BY <1>10 DEF ProcDone, Carries, ClientBufs, BufsOf
  <2>4. \/ respQ' = SendJob(respQ, [c |-> work.c, buf |-> o, sn |-> work.sn]) /\ PoolStep(NoBuf, {a})
        \/ respQ' = respQ /\ PoolStep(NoBuf, {a, o})
    BY <1>10, <1>n, <2>1 DEF ProcDone
  <2>5. Distinct(respQ)' => Single'
    BY <1>1, <2>3 DEF Single, Distinct
  <2>6. CASE respQ' = SendJob(respQ, [c |-> work.c, buf |-> o, sn |-> work.sn]) /\ PoolStep(NoBuf, {a})
    <3> DEFINE u == [x \in Bufs |-> IF x = a THEN "free" ELSE IF x = o THEN "resp" ELSE w[x]]
    <3>1. PICK j : j = [c |-> work.c, buf |-> o, sn |-> work.sn]
      OBVIOUS
    <3>2. j \in Replies /\ j.buf = o /\ respQ \in Seq(Replies) /\ Distinct(respQ) /\ j.buf \notin BufsOf(respQ)
      BY <1>1, <1>w, <2>2, <3>1 DEF IType, QueT, Single, Works, Replies
    <3>3. Distinct(respQ') /\ BufsOf(respQ') = BufsOf(respQ) \cup {o}
      BY <2>6, <3>1, <3>2, BufSent
    <3>4. /\ freebuf' = freebuf \cup {a} /\ heap' = heap
          /\ BufsOf(respQ)' = BufsOf(respQ) \cup {o} /\ Distinct(respQ)'
      BY <1>m, <2>6, <3>3, PlaceTypes DEF PoolStep, BufsOf, Distinct
    <3>5. /\ u \in [Bufs -> {"client", "sch", "resp", "evt", "work", "free", "heap"}]
          /\ \A x \in Bufs : u[x] = IF x = a THEN "free" ELSE IF x = o THEN "resp" ELSE w[x]
      BY <1>w
    <3> HIDE DEF u
    <3>6. \E v : Found(v)'
      BY <1>w, <2>2, <2>3, <3>4, <3>5, FoundNext
    <3> QED BY <2>5, <3>4, <3>6
  <2>7. CASE respQ' = respQ /\ PoolStep(NoBuf, {a, o})
    <3> DEFINE u == [x \in Bufs |-> IF x = a \/ x = o THEN "free" ELSE w[x]]
    <3>1. /\ freebuf' = freebuf \cup {a, o} /\ heap' = heap
          /\ BufsOf(respQ)' = BufsOf(respQ) /\ Distinct(respQ)'
      BY <1>1, <1>m, <2>7, PlaceTypes DEF PoolStep, BufsOf, Distinct, Single
    <3>2. /\ u \in [Bufs -> {"client", "sch", "resp", "evt", "work", "free", "heap"}]
          /\ \A x \in Bufs : u[x] = IF x = a \/ x = o THEN "free" ELSE w[x]
      BY <1>w
    <3> HIDE DEF u
    <3>3. \E v : Found(v)'
      BY <1>w, <2>2, <2>3, <3>1, <3>2, FoundNext
    <3> QED BY <2>5, <3>1, <3>3
  <2> QED BY <2>4, <2>6, <2>7
<1>11. CASE SendReply
  <2>1. PICK b : b = Head(respQ).buf
    OBVIOUS
  <2>2. b \in Bufs /\ w[b] = "resp" /\ Distinct(Tail(respQ)) /\ BufsOf(Tail(respQ)) = BufsOf(respQ) \ {b}
    <3>1. respQ \in Seq(Replies) /\ respQ # <<>> /\ Distinct(respQ)
      BY <1>11, <1>1 DEF SendReply, IType, QueT, Single
    <3>2. b \in BufsOf(respQ)
      BY <2>1, <3>1, BufTaken
    <3> QED BY <1>w, <2>1, <3>1, <3>2, BufTaken, PlaceTypes
  <2>3. respQ' = Tail(respQ) /\ Free(b) /\ UNCHANGED <<buf, pc, schQ, evtQ, work>>
    BY <1>11, <1>n, <2>1 DEF SendReply, cliVars
  <2>4. /\ Distinct(respQ)' /\ BufsOf(respQ)' = BufsOf(respQ) \ {b} /\ Carries' = Carries
        /\ ClientBufs' = ClientBufs /\ BufsOf(schQ)' = BufsOf(schQ) /\ BufsOf(evtQ)' = BufsOf(evtQ)
    BY <2>2, <2>3 DEF BufsOf, Distinct, ClientBufs, Carries
  <2>5. Single'
    BY <1>1, <2>3, <2>4 DEF Single, Distinct
  <2> DEFINE u == Moved(b, "free")
  <2>6. freebuf' = freebuf \cup {b} /\ heap' = heap
    BY <1>m, <2>3, PlaceTypes DEF Free, PoolStep
  <2>7. /\ u \in [Bufs -> {"client", "sch", "resp", "evt", "work", "free", "heap"}]
        /\ \A x \in Bufs : u[x] = IF x = b THEN "free" ELSE w[x]
    BY <1>w
  <2> HIDE DEF u
  <2>8. \E v : Found(v)'
    BY <1>w, <2>2, <2>4, <2>6, <2>7, FoundNext
  <2> QED BY <2>5, <2>8
<1>12. CASE SendEvent
  <2>1. PICK b : b = Head(evtQ).buf
    OBVIOUS
  <2>2. b \in Bufs /\ w[b] = "evt" /\ Distinct(Tail(evtQ)) /\ BufsOf(Tail(evtQ)) = BufsOf(evtQ) \ {b}
    <3>1. evtQ \in Seq(Events) /\ evtQ # <<>> /\ Distinct(evtQ)
      BY <1>12, <1>1 DEF SendEvent, IType, QueT, Single
    <3>2. b \in BufsOf(evtQ)
      BY <2>1, <3>1, BufTaken
    <3> QED BY <1>w, <2>1, <3>1, <3>2, BufTaken, PlaceTypes
  <2>3. evtQ' = Tail(evtQ) /\ Free(b) /\ UNCHANGED <<buf, pc, schQ, respQ, work>>
    BY <1>12, <1>n, <2>1 DEF SendEvent, cliVars
  <2>4. /\ Distinct(evtQ)' /\ BufsOf(evtQ)' = BufsOf(evtQ) \ {b} /\ Carries' = Carries
        /\ ClientBufs' = ClientBufs /\ BufsOf(schQ)' = BufsOf(schQ) /\ BufsOf(respQ)' = BufsOf(respQ)
    BY <2>2, <2>3 DEF BufsOf, Distinct, ClientBufs, Carries
  <2>5. Single'
    BY <1>1, <2>3, <2>4 DEF Single, Distinct
  <2> DEFINE u == Moved(b, "free")
  <2>6. freebuf' = freebuf \cup {b} /\ heap' = heap
    BY <1>m, <2>3, PlaceTypes DEF Free, PoolStep
  <2>7. /\ u \in [Bufs -> {"client", "sch", "resp", "evt", "work", "free", "heap"}]
        /\ \A x \in Bufs : u[x] = IF x = b THEN "free" ELSE w[x]
    BY <1>w
  <2> HIDE DEF u
  <2>8. \E v : Found(v)'
    BY <1>w, <2>2, <2>4, <2>6, <2>7, FoundNext
  <2> QED BY <2>5, <2>8
<1>13. ASSUME NEW c \in Clients, FireCall(c) PROVE Single' /\ \E u : Found(u)'
  <2>1. /\ UNCHANGED <<buf, pc, schQ, respQ, work>>
        /\ ClientBufs' = ClientBufs /\ BufsOf(schQ)' = BufsOf(schQ) /\ BufsOf(respQ)' = BufsOf(respQ)
        /\ Carries' = Carries
    BY <1>13 DEF FireCall, cliVars, ClientBufs, BufsOf, Carries
  <2>2. \/ m # NoBuf /\ evtQ' = SendJob(evtQ, [c |-> c, buf |-> m]) /\ PoolStep(m, {})
        \/ evtQ' = evtQ /\ PoolStep(m, {m} \ {NoBuf})
    BY <1>13, <1>n, <1>p DEF FireCall
  <2>3. Distinct(evtQ)' => Single'
    BY <1>1, <2>1 DEF Single, Distinct
  <2>4. CASE m # NoBuf /\ evtQ' = SendJob(evtQ, [c |-> c, buf |-> m]) /\ PoolStep(m, {})
    <3> DEFINE u == Moved(m, "evt")
    <3>1. PICK j : j = [c |-> c, buf |-> m]
      OBVIOUS
    <3>2. /\ j \in Events /\ j.buf = m /\ evtQ \in Seq(Events) /\ Distinct(evtQ) /\ j.buf \notin BufsOf(evtQ)
          /\ m \in Bufs /\ w[m] \in {"free", "heap"}
      BY <1>1, <1>w, <1>m, <1>p, <2>4, <3>1 DEF IType, QueT, Single, Events
    <3>3. Distinct(evtQ') /\ BufsOf(evtQ') = BufsOf(evtQ) \cup {m}
      BY <2>4, <3>1, <3>2, BufSent
    <3>4. /\ freebuf' = freebuf \ {m} /\ heap' = heap \ {m}
          /\ BufsOf(evtQ)' = BufsOf(evtQ) \cup {m} /\ Distinct(evtQ)'
      BY <2>4, <3>3 DEF PoolStep, BufsOf, Distinct
    <3>5. /\ u \in [Bufs -> {"client", "sch", "resp", "evt", "work", "free", "heap"}]
          /\ \A x \in Bufs : u[x] = IF x = m THEN "evt" ELSE w[x]
      BY <1>w
    <3> HIDE DEF u
    <3>6. \E v : Found(v)'
      BY <1>w, <2>1, <3>2, <3>4, <3>5, FoundNext
    <3> QED BY <2>3, <3>4, <3>6
  <2>5. CASE evtQ' = evtQ /\ PoolStep(m, {m} \ {NoBuf})
    <3> DEFINE u == IF m = NoBuf THEN w ELSE Moved(m, "free")
    <3>1. /\ freebuf' = (freebuf \ {m}) \cup ({m} \ {NoBuf}) /\ heap' = heap \ {m}
          /\ BufsOf(evtQ)' = BufsOf(evtQ) /\ Distinct(evtQ)'
      BY <1>1, <2>5 DEF PoolStep, BufsOf, Distinct, Single
    <3>2. /\ u \in [Bufs -> {"client", "sch", "resp", "evt", "work", "free", "heap"}]
          /\ \A x \in Bufs : u[x] = IF x = m THEN "free" ELSE w[x]
      BY <1>w, <1>m, <1>p
    <3>3. m # NoBuf => w[m] \in {"free", "heap"}
      BY <1>m, <1>p
    <3> HIDE DEF u
    <3>4. \E v : Found(v)'
      BY <1>w, <1>m, <2>1, <3>1, <3>2, <3>3, FoundNext
    <3> QED BY <2>3, <3>1, <3>4
  <2> QED BY <2>2, <2>4, <2>5
<1>14. ~DeleteBufs /\ ~DeleteFree
  BY <1>0 DEF DeleteBufs, DeleteFree
<1> QED
  BY <1>3, <1>4, <1>5, <1>6, <1>7, <1>8, <1>9, <1>10, <1>11, <1>12, <1>13, <1>14, <1>q, Posts
  DEF Next, Client, Proc, Sender, Firing

\* At first all buffers are in the heap.
LEMMA InitConserved == Init => Conserved
<1> SUFFICES ASSUME Init PROVE Single /\ \E w : Found(w)
  BY DEF Conserved
<1>1. /\ freebuf = {} /\ heap = Bufs /\ buf = [c \in Clients |-> NoBuf] /\ work = None
      /\ DOMAIN schQ = {} /\ DOMAIN respQ = {} /\ DOMAIN evtQ = {}
  BY DEF Init, PoolInit
<1>2. Single
  BY <1>1 DEF Single, Distinct
<1> DEFINE u == [b \in Bufs |-> "heap"]
<1>3. ClientBufs = {} /\ Carries = {} /\ BufsOf(schQ) = {} /\ BufsOf(respQ) = {} /\ BufsOf(evtQ) = {}
  BY <1>1 DEF ClientBufs, Carries, BufsOf
<1>4. Found(u)
  BY <1>1, <1>3 DEF Found
<1> QED BY <1>2, <1>4

\* As many threads hold a buffer as there are buffers held.
LEMMA BufsOfClients ==
  ASSUME Single, IsFiniteSet(ClientBufs)
  PROVE  Cardinality({c \in Clients : buf[c] # NoBuf}) = Cardinality(ClientBufs)
<1> DEFINE A == {c \in Clients : buf[c] # NoBuf}
           f == [b \in ClientBufs |-> CHOOSE c \in Clients : buf[c] = b]
<1>1. \A b \in ClientBufs : f[b] \in A /\ buf[f[b]] = b
  BY DEF ClientBufs
<1>2. \A c \in A : buf[c] \in ClientBufs /\ f[buf[c]] = c
  <2>1. ASSUME NEW c \in A PROVE buf[c] \in ClientBufs /\ f[buf[c]] = c
    <3>1. buf[c] \in ClientBufs
      BY DEF ClientBufs
    <3>2. f[buf[c]] \in A /\ buf[f[buf[c]]] = buf[c]
      BY <1>1, <3>1
    <3> HIDE DEF f
    <3> QED BY <3>1, <3>2 DEF Single
  <2> QED BY <2>1
<1>3. f \in Bijection(ClientBufs, A)
  <2>1. f \in [ClientBufs -> A]
    BY <1>1
  <2> HIDE DEF f
  <2> QED BY <1>1, <1>2, <2>1 DEF Bijection, Injection, IsInjective, Surjection
<1> HIDE DEF A, f
<1>4. ExistsBijection(ClientBufs, A)
  BY <1>3 DEF ExistsBijection
<1>5. Cardinality(A) = Cardinality(ClientBufs)
  BY <1>4, FS_Bijection
<1> QED BY <1>5 DEF A

\* Buffers that are each at one place are all there.
LEMMA AllThere ==
  ASSUME IType, Conserved
  PROVE  BufsConserved
<1> SUFFICES ASSUME Running, run \in {"yes", "no"}
             PROVE  /\ (InUse \ {NoBuf}) \cup freebuf \cup heap = Bufs
                    /\ Uses + Cardinality(freebuf) + Cardinality(heap) = NBufs
  BY DEF BufsConserved
<1>1. Single
  BY DEF Conserved
<1>2. PICK w : Found(w)
  BY DEF Conserved
<1>3. NoBuf \notin Bufs
  BY <1>2, MallocWhere
<1> DEFINE S2 == ClientBufs \cup BufsOf(schQ)
           S3 == S2 \cup BufsOf(respQ)
           S4 == S3 \cup BufsOf(evtQ)
           S5 == S4 \cup Carries
           S6 == S5 \cup freebuf
           S7 == S6 \cup heap
<1>4. S7 = Bufs
  <2>1. \A b \in Bufs : b \in S7
    BY <1>2 DEF Found
  <2> QED BY <2>1, PlaceTypes
<1>5. (InUse \ {NoBuf}) \cup freebuf \cup heap = Bufs
  <2>1. InUse \ {NoBuf} = S5
    BY <1>3, PlaceTypes DEF InUse, ClientBufs, Carries
  <2> QED BY <1>4, <2>1
<1>6. /\ ClientBufs \cap BufsOf(schQ) = {} /\ S2 \cap BufsOf(respQ) = {} /\ S3 \cap BufsOf(evtQ) = {}
      /\ S4 \cap Carries = {} /\ S5 \cap freebuf = {} /\ S6 \cap heap = {}
  BY <1>2, PlaceTypes DEF Found
<1>7. IsFiniteSet(Bufs) /\ Cardinality(Bufs) = NBufs
  BY FS_Interval, PoolAssumption DEF Bufs
<1>8. /\ IsFiniteSet(ClientBufs) /\ IsFiniteSet(freebuf) /\ IsFiniteSet(heap) /\ IsFiniteSet(Carries)
  BY <1>7, PlaceTypes, FS_Subset
<1>9. /\ IsFiniteSet(BufsOf(schQ)) /\ Cardinality(BufsOf(schQ)) = Len(schQ)
      /\ IsFiniteSet(BufsOf(respQ)) /\ Cardinality(BufsOf(respQ)) = Len(respQ)
      /\ IsFiniteSet(BufsOf(evtQ)) /\ Cardinality(BufsOf(evtQ)) = Len(evtQ)
  BY <1>1, BufsOfQueue DEF Single, IType, QueT
<1>10. Cardinality({c \in Clients : buf[c] # NoBuf}) = Cardinality(ClientBufs)
  BY <1>1, <1>8, BufsOfClients
<1>11. Cardinality(Carries) = IF work = None THEN 0 ELSE 2
  <2>1. CASE work = None
    BY <2>1, FS_EmptySet DEF Carries
  <2>2. CASE work # None
    <3>1. Carries = {work.buf} \cup {work.obuf} /\ work.buf # work.obuf
      BY <1>1, <2>2 DEF Carries, Single
    <3>2. \A x : IsFiniteSet({x}) /\ Cardinality({x}) = 1
      BY FS_Singleton
    <3>3. Cardinality(Carries) = Cardinality({work.buf}) + Cardinality({work.obuf})
      BY <3>1, <3>2, Adds
    <3>4. Cardinality({work.buf}) = 1 /\ Cardinality({work.obuf}) = 1
      BY <3>2
    <3>5. Cardinality(Carries) = 2
      BY <3>3, <3>4
    <3> QED BY <2>2, <3>5
  <2> QED BY <2>1, <2>2
<1>12. IsFiniteSet(S2) /\ Cardinality(S2) = Cardinality(ClientBufs) + Len(schQ) /\ Cardinality(ClientBufs) \in Nat
  BY <1>6, <1>8, <1>9, Adds
<1> HIDE DEF S2
<1>13. IsFiniteSet(S3) /\ Cardinality(S3) = Cardinality(S2) + Len(respQ)
  <2>1. IsFiniteSet(S3) /\ Cardinality(S3) = Cardinality(S2) + Cardinality(BufsOf(respQ))
    BY <1>6, <1>9, <1>12, Adds
  <2> QED BY <1>9, <2>1
<1> HIDE DEF S3
<1>14. IsFiniteSet(S4) /\ Cardinality(S4) = Cardinality(S3) + Len(evtQ)
  <2>1. IsFiniteSet(S4) /\ Cardinality(S4) = Cardinality(S3) + Cardinality(BufsOf(evtQ))
    BY <1>6, <1>9, <1>13, Adds
  <2> QED BY <1>9, <2>1
<1> HIDE DEF S4
<1>15. IsFiniteSet(S5) /\ Cardinality(S5) = Cardinality(S4) + Cardinality(Carries)
  BY <1>6, <1>8, <1>14, Adds
<1> HIDE DEF S5
<1>16. IsFiniteSet(S6) /\ Cardinality(S6) = Cardinality(S5) + Cardinality(freebuf)
  BY <1>6, <1>8, <1>15, Adds
<1> HIDE DEF S6
<1>17. Cardinality(S7) = Cardinality(S6) + Cardinality(heap)
  BY <1>6, <1>8, <1>16, Adds
<1>18. Uses = Cardinality(ClientBufs) + Len(schQ) + Len(respQ) + Len(evtQ) + Cardinality(Carries)
  BY <1>10, <1>11 DEF Uses
<1>19. /\ Len(schQ) \in Nat /\ Len(respQ) \in Nat /\ Len(evtQ) \in Nat /\ Cardinality(Carries) \in Nat
       /\ Cardinality(freebuf) \in Nat /\ Cardinality(heap) \in Nat
  BY <1>8, FS_CardinalityType DEF IType, QueT
<1>20. Cardinality(S7) = NBufs
  BY <1>4, <1>7
<1> HIDE DEF S7
<1>21. Uses + Cardinality(freebuf) + Cardinality(heap) = NBufs
  BY <1>12, <1>13, <1>14, <1>15, <1>16, <1>17, <1>18, <1>19, <1>20
<1> QED BY <1>5, <1>21

\* No buffer is lost on an error path, put back while a job still carries it, or
\* handed out twice: zipc_buf_malloc and zipc_buf_free balance for any number of
\* clients and buffers, whatever the heap refuses and the schedules drop, until the
\* server is deleted.
THEOREM BuffersKept == Spec => []BufsConserved
<1>1. Init => Conserved
  BY InitConserved
<1>2. IType /\ IType' /\ Conserved /\ [Next]_vars => Conserved'
  BY StepConserved
<1>3. IType /\ Conserved => BufsConserved
  BY AllThere
<1>4. Spec => []IType
  BY TypeInvariant, PTL
<1> QED BY <1>1, <1>2, <1>3, <1>4, PTL DEF Spec
=============================================================================
