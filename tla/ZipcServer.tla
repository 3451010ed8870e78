----------------------------- MODULE ZipcServer -----------------------------
(***************************************************************************)
(* The ipc server of user space (zipc/zipc_server_os.c): a server thread   *)
(* that accepts connections, a thread per client that receives requests,   *)
(* the common schedule thread that carries them out, the respond thread    *)
(* that sends replies and events, and whoever sends events or deletes the  *)
(* server.  A step is what a thread does between two accesses that others  *)
(* can see.  The schedules and the event manager are taken at what they    *)
(* promise (Schedule, Event).                                              *)
(***************************************************************************)
EXTENDS Integers, ZipcPool, ZipcParse

CONSTANTS
  Clients,      \* connections, each made at most once
  None,         \* no client, no job
  Msgs,         \* the requests each client may send, a subset of Requests
  Encoder,      \* zipc_server_set_event_encode was called
  Atomics,      \* "interlocked" (win32, kernel) or "stub" (Linux: nothing happens)
  SchCap, RespCap, EvtCap,  \* sizes of sch, respondSch and evtSch
  HookTwice,    \* clients hook an event they have hooked already
  Quiesce,      \* the server is deleted only when it has no clients and no jobs
  MaxReqs,      \* bound: requests of each client
  MaxFires      \* bound: events sent

\* A request that is queued, and one that is being carried out.
Jobs == [c : Clients, buf : Bufs, sn : Nat, msg : Requests]
Works == [c : Clients, buf : Bufs, sn : Nat, msg : Requests, obuf : Bufs, at : {"parse", "reply", "noreply"}]

ASSUME ServerAssumption ==
  /\ IsFiniteSet(Clients) /\ Clients # {}
  /\ None \notin Clients \cup Works
  /\ Msgs \in [Clients -> SUBSET Requests]
  /\ SchCap \in Nat /\ RespCap \in Nat /\ EvtCap \in Nat
  /\ MaxReqs \in [Clients -> Nat] /\ MaxFires \in Nat

VARIABLES
  server,       \* of the server thread: where it is, and the client it has just made
  run,          \* ipc->run ("yes", "no"), then how far the server's deletion is: "freeing", "freed"
  pc, jobcnt, hooked, buf,    \* per client: its thread, and struct tagZIPCClient
  sent,         \* requests received from each client, their serial numbers
  schQ, respQ, evtQ,  \* the jobs of the three schedules
  work,         \* the request being carried out on the common thread
  regs,         \* registrations of _zipc_hookevent_cb per client, in all
  firing,       \* what zcrt_event_send has still to call, and whether it holds the mutex
  fires,        \* events sent
  last,         \* serial number of the last reply sent to each client
  starved       \* clients of which a request found no memory for its reply

thrVars == <<server, run>>
cliVars == <<pc, jobcnt, hooked, buf, sent>>
queVars == <<schQ, respQ, evtQ>>
evtVars == <<regs, firing, fires>>
vars == <<poolVars, thrVars, cliVars, queVars, work, evtVars, last, starved>>

Idle == [busy |-> FALSE, todo |-> [c \in Clients |-> 0]]

Init ==
  /\ PoolInit
  /\ server = [at |-> "accept", client |-> None]
  /\ run = "yes"
  /\ pc = [c \in Clients |-> "none"]
  /\ jobcnt = [c \in Clients |-> 0]
  /\ hooked = [c \in Clients |-> FALSE]
  /\ buf = [c \in Clients |-> NoBuf]
  /\ sent = [c \in Clients |-> 0]
  /\ schQ = <<>> /\ respQ = <<>> /\ evtQ = <<>>
  /\ work = None
  /\ regs = [c \in Clients |-> 0]
  /\ firing = Idle
  /\ fires = 0
  /\ last = [c \in Clients |-> 0]
  /\ starved = {}

Running == fault = "none"
Gone(c) == pc[c] = "gone"      \* its struct is freed
Freed == run = "freed"         \* the struct of the server is freed
BadPool == Freed \/ (run = "freeing" /\ freebuf # {})    \* ... or its free list is
Set(f, c, v) == [f EXCEPT ![c] = v]

\* zcrt_atom_inc and zcrt_atom_dec on jobcnt.
Counted(c, d) == IF Atomics = "stub" THEN jobcnt ELSE [jobcnt EXCEPT ![c] = @ + d]

-----------------------------------------------------------------------------
\* _zipc_server_thread cannot make, bind or listen on its socket, and ends.
SetupFails ==
  /\ Running /\ server.at = "accept" /\ run = "yes"
  /\ \A c \in Clients : pc[c] = "none"
  /\ server' = [server EXCEPT !.at = "done"]
  /\ UNCHANGED <<poolVars, run, cliVars, queVars, work, evtVars, last, starved>>

\* accept returns, the client is made and its thread started.
Accept(c) ==
  /\ Running /\ server.at = "accept" /\ run = "yes"
  /\ pc[c] = "none"
  /\ server' = [at |-> "assign", client |-> c]
  /\ pc' = Set(pc, c, "start")
  /\ UNCHANGED <<poolVars, run, jobcnt, hooked, buf, sent, queVars, work, evtVars, last, starved>>

\* client->thr = the thread, which may have ended; then ipc->run is tested.
AcceptAssign ==
  /\ Running /\ server.at = "assign"
  /\ IF Gone(server.client) THEN Fault("client") ELSE IF Freed THEN Fault("ipc") ELSE UNCHANGED poolVars
  /\ server' = [at |-> IF run = "yes" THEN "accept" ELSE "done", client |-> None]
  /\ UNCHANGED <<run, cliVars, queVars, work, evtVars, last, starved>>

\* accept fails on the closed socket.
AcceptFails ==
  /\ Running /\ server.at = "accept" /\ run # "yes"
  /\ server' = [server EXCEPT !.at = "done"]
  /\ UNCHANGED <<poolVars, run, cliVars, queVars, work, evtVars, last, starved>>

-----------------------------------------------------------------------------
\* What follows a buffer: the test of ipc->run, then the thread blocks in recv.
AfterBuf == IF run = "yes" THEN "recv" ELSE "drain"

\* _zipc_client_thread, its first buffer; the loop does not test it.
Start(c) ==
  /\ Running /\ pc[c] = "start"
  /\ IF BadPool THEN Fault("ipc") /\ UNCHANGED buf
     ELSE buf' = Set(buf, c, Malloc) /\ PoolStep(Malloc, {})
  /\ pc' = Set(pc, c, AfterBuf)
  /\ UNCHANGED <<thrVars, jobcnt, hooked, sent, queVars, work, evtVars, last, starved>>

\* A header and a payload arrive whole, and the request is counted.
Recv(c) ==
  /\ Running /\ pc[c] = "recv"
  /\ sent[c] < MaxReqs[c]
  /\ IF buf[c] = NoBuf THEN Fault("null") ELSE UNCHANGED poolVars
  /\ pc' = Set(pc, c, "post")
  /\ jobcnt' = Counted(c, 1)
  /\ sent' = Set(sent, c, sent[c] + 1)
  /\ UNCHANGED <<thrVars, hooked, buf, queVars, work, evtVars, last, starved>>

\* _zipc_client_recv_hdr or _payload fails: the connection is lost, or the header
\* or the payload comes short or is refused.
Leave(c) ==
  /\ Running /\ pc[c] = "recv"
  /\ pc' = Set(pc, c, "drain")
  /\ UNCHANGED <<poolVars, thrVars, jobcnt, hooked, buf, sent, queVars, work, evtVars, last, starved>>

\* Registrations of c, made and asked for.
Asks(j, c) == j.c = c /\ j.msg.name = "_hookevt"
Hooks(c) == regs[c] + Cardinality({i \in DOMAIN schQ : Asks(schQ[i], c)})
            + (IF work # None /\ work.at = "parse" /\ Asks(work, c) THEN 1 ELSE 0)

\* Where a thread is with a request that it has counted and not yet sent to sch.
Posting == {"post", "insert"}

\* sch refuses the request: it is counted off again and its buffer put back.
\* Mutant: it stays counted.
RefusedCounted(c) == Free(buf[c]) /\ UNCHANGED <<schQ, jobcnt>>

Refused(c) == Free(buf[c]) /\ jobcnt' = Counted(c, -1) /\ UNCHANGED schQ

\* The request is sent to sch, or dropped when it is not accepted.
Post(c) ==
  /\ Running /\ pc[c] = "post"
  /\ \E ok \in Accepts(schQ, SchCap) :
       IF ok /\ ~Freed THEN pc' = Set(pc, c, "insert") /\ UNCHANGED <<poolVars, jobcnt, buf, schQ>>
       ELSE /\ pc' = Set(pc, c, "next")
            /\ buf' = Set(buf, c, NoBuf)
            /\ IF Freed THEN Fault("ipc") /\ UNCHANGED <<schQ, jobcnt>> ELSE Refused(c)
  /\ UNCHANGED <<thrVars, hooked, sent, respQ, evtQ, work, evtVars, last, starved>>

\* The job is put into sch, which others may have filled meanwhile.
Insert(c) ==
  /\ Running /\ pc[c] = "insert"
  /\ pc' = Set(pc, c, "next")
  /\ buf' = Set(buf, c, NoBuf)
  /\ IF Freed THEN Fault("ipc") /\ UNCHANGED schQ
     ELSE \E m \in Msgs[c] :
            /\ m.name = "_hookevt" => HookTwice \/ Hooks(c) = 0
            /\ schQ' = SendJob(schQ, [c |-> c, buf |-> buf[c], sn |-> sent[c], msg |-> m])
            /\ UNCHANGED poolVars
  /\ UNCHANGED <<thrVars, jobcnt, hooked, sent, respQ, evtQ, work, evtVars, last, starved>>

\* The buffer for the next request; without one the client is given up.
NextBuf(c) ==
  /\ Running /\ pc[c] = "next"
  /\ IF BadPool THEN Fault("ipc") /\ UNCHANGED buf
     ELSE buf' = Set(buf, c, Malloc) /\ PoolStep(Malloc, {})
  /\ pc' = Set(pc, c, IF Malloc = NoBuf THEN "drain" ELSE AfterBuf)
  /\ UNCHANGED <<thrVars, jobcnt, hooked, sent, queVars, work, evtVars, last, starved>>

\* while (client->jobcnt != 0) zcrt_sleep(10).
Drained(c) ==
  /\ Running /\ pc[c] = "drain"
  /\ jobcnt[c] = 0
  /\ pc' = Set(pc, c, IF hooked[c] THEN "unhook" ELSE "close")
  /\ UNCHANGED <<poolVars, thrVars, jobcnt, hooked, buf, sent, queVars, work, evtVars, last, starved>>

\* Mutant: a thread whose client has hooked an event unregisters nothing.
UnhookNone(c) ==
  /\ Running /\ pc[c] = "unhook" /\ ~firing.busy
  /\ pc' = Set(pc, c, "close")
  /\ UNCHANGED <<poolVars, thrVars, jobcnt, hooked, buf, sent, queVars, work, evtVars, last, starved>>

\* One zcrt_event_unregister per event: it removes one registration.  The mutex
\* keeps it out while the event is sent.
Unhook(c) ==
  /\ Running /\ pc[c] = "unhook" /\ ~firing.busy
  /\ regs' = Set(regs, c, IF regs[c] = 0 THEN 0 ELSE regs[c] - 1)
  /\ pc' = Set(pc, c, "close")
  /\ UNCHANGED <<poolVars, thrVars, jobcnt, hooked, buf, sent, queVars, work, firing, fires, last, starved>>

\* zcrt_event_unregister asserts that the event is not being sent; a build with
\* assertions ends here, on another thread's event.
UnhookAsserts(c) ==
  /\ Running /\ pc[c] = "unhook" /\ firing.busy
  /\ Fault("assert")
  /\ UNCHANGED <<thrVars, cliVars, queVars, work, evtVars, last, starved>>

\* The buffer is put back, the socket closed and the client freed.
Close(c) ==
  /\ Running /\ pc[c] = "close"
  /\ IF buf[c] = NoBuf THEN UNCHANGED poolVars ELSE IF Freed THEN Fault("ipc") ELSE Free(buf[c])
  /\ pc' = Set(pc, c, "gone")
  /\ buf' = Set(buf, c, NoBuf)
  /\ UNCHANGED <<thrVars, jobcnt, hooked, sent, queVars, work, evtVars, last, starved>>

-----------------------------------------------------------------------------
\* _zipc_msg_proc_job on the common thread reads the client and the server: freed,
\* they end the execution.
Stale(c) == Gone(c) \/ Freed

\* Without memory for the reply the request is dropped, and stays counted.
\* Mutant: its buffer is not put back either.
NoReplyBufLeaks(j) == UNCHANGED poolVars /\ starved' = starved \cup {j.c} /\ UNCHANGED work

NoReplyBuf(j) == Free(j.buf) /\ starved' = starved \cup {j.c} /\ UNCHANGED work

\* The job is taken and a buffer for the reply allocated.
ProcStart ==
  /\ Running /\ work = None /\ schQ # <<>>
  /\ schQ' = Tail(schQ)
  /\ LET j == Head(schQ)
     IN IF Gone(j.c) \/ BadPool THEN Fault("client") /\ UNCHANGED <<work, starved>>
        ELSE IF Malloc = NoBuf THEN NoReplyBuf(j)
        ELSE /\ work' = [c |-> j.c, buf |-> j.buf, sn |-> j.sn, msg |-> j.msg, obuf |-> Malloc, at |-> "parse"]
             /\ PoolStep(Malloc, {}) /\ UNCHANGED starved
  /\ UNCHANGED <<thrVars, cliVars, respQ, evtQ, evtVars, last>>

\* The payload is parsed; a link message may register or unregister the callback,
\* for which the event manager's mutex has to be free.
ProcParse ==
  /\ Running /\ work # None /\ work.at = "parse"
  /\ LET c == work.c
         p == Parse(work.msg, Encoder)
     IN /\ p.effect # "none" => ~firing.busy
        /\ hooked' = Set(hooked, c, hooked[c] \/ work.msg.app = "link")
        /\ regs' = Set(regs, c, CASE p.effect = "_hookevt" -> regs[c] + 1
                                  [] p.effect = "_unhookevt" /\ regs[c] > 0 -> regs[c] - 1
                                  [] OTHER -> regs[c])
        /\ work' = [work EXCEPT !.at = IF p.out = <<>> THEN "noreply" ELSE "reply"]
  /\ IF Stale(work.c) THEN Fault("client") ELSE UNCHANGED poolVars
  /\ UNCHANGED <<thrVars, pc, jobcnt, buf, sent, queVars, firing, fires, last, starved>>

\* zcrt_event_unregister, called for "_unhookevt", asserts as well.
ProcAsserts ==
  /\ Running /\ work # None /\ work.at = "parse"
  /\ Parse(work.msg, Encoder).effect = "_unhookevt" /\ firing.busy
  /\ Fault("assert")
  /\ UNCHANGED <<thrVars, cliVars, queVars, work, evtVars, last, starved>>

\* The reply is sent to respondSch, to which no other thread sends, or dropped; the
\* request's buffer is put back and the request counted off.  No other thread can tell these apart: what is put
\* back is free a little earlier, and the count is only tested for zero.
ProcDone ==
  /\ Running /\ work # None /\ work.at \in {"reply", "noreply"}
  /\ \E ok \in Accepts(respQ, RespCap) :
     LET sends == work.at = "reply" /\ ok
     IN /\ respQ' = IF sends THEN SendJob(respQ, [c |-> work.c, buf |-> work.obuf, sn |-> work.sn]) ELSE respQ
        /\ IF Stale(work.c) THEN Fault("client")
           ELSE PoolStep(NoBuf, {work.buf} \cup (IF sends THEN {} ELSE {work.obuf}))
  /\ jobcnt' = Counted(work.c, -1)
  /\ work' = None
  /\ UNCHANGED <<thrVars, pc, hooked, buf, sent, schQ, evtQ, evtVars, last, starved>>

-----------------------------------------------------------------------------
\* _zipc_buf_send_job on the respond thread, replies before events.
SendReply ==
  /\ Running /\ respQ # <<>>
  /\ respQ' = Tail(respQ)
  /\ LET j == Head(respQ)
     IN IF Gone(j.c) \/ Freed THEN Fault("client") /\ UNCHANGED last
        ELSE Free(j.buf) /\ last' = Set(last, j.c, j.sn)
  /\ UNCHANGED <<thrVars, cliVars, schQ, evtQ, work, evtVars, starved>>

SendEvent ==
  /\ Running /\ respQ = <<>> /\ evtQ # <<>>
  /\ evtQ' = Tail(evtQ)
  /\ IF Gone(Head(evtQ).c) \/ Freed THEN Fault("client") ELSE Free(Head(evtQ).buf)
  /\ UNCHANGED <<thrVars, cliVars, schQ, respQ, work, evtVars, last, starved>>

\* zcrt_event_send of a hooked event, on any thread.
Fire ==
  /\ Running /\ ~firing.busy /\ fires < MaxFires
  /\ \E c \in Clients : regs[c] > 0
  /\ firing' = [busy |-> TRUE, todo |-> regs]
  /\ fires' = fires + 1
  /\ UNCHANGED <<poolVars, thrVars, cliVars, queVars, work, regs, last, starved>>

\* One call of _zipc_hookevent_cb, under the event manager's mutex: the event is encoded (ok: the application's
\* encoder succeeds, and there is memory for the job) into a buffer and sent to evtSch, or dropped.
FireCall(c) ==
  /\ Running /\ firing.todo[c] > 0
  /\ firing' = [firing EXCEPT !.todo[c] = @ - 1]
  /\ IF Gone(c) \/ BadPool THEN Fault("client") /\ UNCHANGED evtQ
     ELSE \E ok \in BOOLEAN :
            IF ok /\ Malloc # NoBuf /\ ~Full(evtQ, EvtCap)
            THEN evtQ' = SendJob(evtQ, [c |-> c, buf |-> Malloc]) /\ PoolStep(Malloc, {})
            ELSE PoolStep(Malloc, {Malloc} \ {NoBuf}) /\ UNCHANGED evtQ
  /\ UNCHANGED <<thrVars, cliVars, schQ, respQ, work, regs, fires, last, starved>>

FireEnd ==
  /\ Running /\ firing.busy /\ \A c \in Clients : firing.todo[c] = 0
  /\ firing' = Idle
  /\ UNCHANGED <<poolVars, thrVars, cliVars, queVars, work, regs, fires, last, starved>>

-----------------------------------------------------------------------------
Quiet ==
  /\ \A c \in Clients : pc[c] \in {"none", "gone"}
  /\ schQ = <<>> /\ respQ = <<>> /\ evtQ = <<>> /\ work = None /\ ~firing.busy
  /\ server.at # "assign"

\* zipc_server_delete: run is cleared and the socket closed.
DeleteStart ==
  /\ Running /\ run = "yes"
  /\ Quiesce => Quiet
  /\ run' = "no"
  /\ UNCHANGED <<poolVars, server, cliVars, queVars, work, evtVars, last, starved>>

\* _zipc_comp_buf_freeall.
DeleteBufs ==
  /\ Running /\ run = "no"
  /\ run' = "freeing"
  /\ FreeAll
  /\ UNCHANGED <<server, cliVars, queVars, work, evtVars, last, starved>>

\* The three schedules are deleted with the jobs they still hold, and the server
\* is freed.
DeleteFree ==
  /\ Running /\ run = "freeing"
  /\ run' = "freed"
  /\ schQ' = <<>> /\ respQ' = <<>> /\ evtQ' = <<>>
  /\ UNCHANGED <<poolVars, server, cliVars, work, evtVars, last, starved>>

-----------------------------------------------------------------------------
Client(c) == \/ Start(c) \/ Recv(c) \/ Leave(c) \/ Post(c) \/ Insert(c) \/ NextBuf(c)
             \/ Drained(c) \/ Unhook(c) \/ UnhookAsserts(c) \/ Close(c)
Proc == ProcStart \/ ProcParse \/ ProcAsserts \/ ProcDone
Sender == SendReply \/ SendEvent
Firing == FireEnd \/ \E c \in Clients : FireCall(c)

Next ==
  \/ \E c \in Clients : Accept(c) \/ Client(c)
  \/ SetupFails \/ AcceptAssign \/ AcceptFails
  \/ Proc \/ Sender
  \/ Fire \/ Firing
  \/ DeleteStart \/ DeleteBufs \/ DeleteFree

Spec == Init /\ [][Next]_vars

\* The common thread is run, a send of an event comes to its end, and a client
\* thread whose loop has ended is run and gets the event manager's mutex when that
\* is free again and again.  Nothing is assumed of the respond thread, of what
\* clients send, of who fires events or deletes the server.
FairSpec ==
  /\ Spec
  /\ WF_vars(Proc) /\ WF_vars(Firing)
  /\ \A c \in Clients : SF_vars(Drained(c) \/ Unhook(c) \/ Close(c))
-----------------------------------------------------------------------------
\* The type of every variable.  Threads that have passed the test of its length may
\* fill sch beyond its size, by all clients but one; the others keep theirs.
TypeOK ==
  /\ freebuf \subseteq Bufs /\ heap \subseteq Bufs
  /\ fault \in {"none", "ipc", "client", "null", "assert"}
  /\ server \in [at : {"accept", "assign", "done"}, client : Clients \cup {None}]
  /\ run \in {"yes", "no", "freeing", "freed"}
  /\ pc \in [Clients -> {"none", "start", "recv", "post", "insert", "next", "drain", "unhook", "close", "gone"}]
  /\ jobcnt \in [Clients -> Int] /\ hooked \in [Clients -> BOOLEAN]
  /\ buf \in [Clients -> Bufs \cup {NoBuf}] /\ \A c \in Clients : sent[c] \in 0 .. MaxReqs[c] /\ last[c] \in 0 .. sent[c]
  /\ Len(schQ) < SchCap + Cardinality(Clients) /\ Len(respQ) <= RespCap /\ Len(evtQ) <= EvtCap
  /\ regs \in [Clients -> Nat]
  /\ starved \subseteq Clients

\* Requests of c that were sent to sch and not yet counted off.
Pending(c) == Cardinality({i \in DOMAIN schQ : schQ[i].c = c})
              + (IF work # None /\ work.c = c THEN 1 ELSE 0) + (IF pc[c] \in Posting THEN 1 ELSE 0)

\* jobcnt counts the requests that are queued or being carried out, and more only
\* when one found no memory for its reply; so a request never meets a freed
\* client.  (The counter is raised before the job is sent and lowered after the
\* job's last use of the client.)
RequestsHoldClient ==
  Running /\ run = "yes" =>
    \A c \in Clients : /\ Pending(c) <= jobcnt[c]
                       /\ c \notin starved => Pending(c) = jobcnt[c]
                       /\ Gone(c) => Pending(c) = 0

\* The places a buffer can be at, other than the free list and the heap.
InUse == {buf[c] : c \in Clients} \cup BufsOf(schQ) \cup BufsOf(respQ) \cup BufsOf(evtQ)
         \cup (IF work = None THEN {} ELSE {work.buf, work.obuf})
Uses == Cardinality({c \in Clients : buf[c] # NoBuf}) + Len(schQ) + Len(respQ) + Len(evtQ)
        + (IF work = None THEN 0 ELSE 2)

\* Every buffer is at exactly one place: none is lost on any of the error paths,
\* none is put back while a job still carries it, none is handed out twice.
BufsConserved ==
  Running /\ run \in {"yes", "no"} =>
    /\ (InUse \ {NoBuf}) \cup freebuf \cup heap = Bufs
    /\ Uses + Cardinality(freebuf) + Cardinality(heap) = NBufs

\* The registrations of a client end with it, whatever messages are queued when
\* its connection is lost: its callback is never called on freed memory.
UnhookedWhenGone == Running => \A c \in Clients : Gone(c) => regs[c] = 0

\* A client lives as long as anything but a send job names it: requests and
\* registrations (the end of _zipc_client_thread).
ClientOutlivesUses == RequestsHoldClient /\ UnhookedWhenGone

\* "jobs sent to the queue and not yet executed" (zipc_server_os.c:57, of jobcnt):
\* a client is not freed while a job holds it, the jobs that send to it included.
SendsHoldClient ==
  Running => \A q \in {respQ, evtQ} : \A i \in DOMAIN q : ~Gone(q[i].c)

\* The replies to a client's requests are sent in the order of its requests.
RepliesInOrder == [][\A c \in Clients : last[c]' # last[c] => last[c]' > last[c]]_vars

\* A client whose connection is lost ends, unless a request of it found no memory
\* for its reply: that one is never counted off.
ClientEnds ==
  \A c \in Clients : pc[c] = "drain" ~> Gone(c) \/ c \in starved \/ ~Running \/ run # "yes"
=============================================================================
