----------------------------- MODULE ZipcKernel -----------------------------
(***************************************************************************)
(* The ipc server of the kernel (zipc/zipc_server_kernal.c).  Processes    *)
(* send netlink messages, for each of which nl_data_recv runs in the       *)
(* sender's context; the common thread carries requests out, the respond   *)
(* thread sends replies and events.  There is no connection and no client  *)
(* struct: a job holds the pid, and the server is found through s_kipc.    *)
(***************************************************************************)
EXTENDS ZipcPool

CONSTANTS
  Pids, Nobody,
  SchCap, RespCap, EvtCap,    \* sizes of sch, respondSch and evtSch
  Sends,        \* the kinds of messages each process may send
  MaxMsgs, MaxFires           \* bounds: messages of each process (a function), events sent

VARIABLES
  recv,         \* nl_data_recv per process: its step, its buffer, what it received
  queue,        \* the jobs of the three schedules
  work,         \* the request being carried out on the common thread
  evt,          \* registrations of _zipc_hookevent_cb per pid, and the event being sent
  ipc,          \* s_kipc # NULL, s_pid, and how far the server's deletion is
  log           \* per process: messages taken in, the last reply; and in all: buffers forgotten

vars == <<poolVars, recv, queue, work, evt, ipc, log>>

\* What a message is: cut short, with a header that is refused, a request that is
\* answered, a notification, a hook, an unhook.
Kinds == {"short", "bad", "ask", "noti", "hook", "unhook"}

Waiting == [at |-> "idle", buf |-> NoBuf, kind |-> "none"]

\* zipc_server_create.
Init ==
  /\ PoolInit
  /\ recv = [p \in Pids |-> Waiting]
  /\ queue = [sch |-> <<>>, resp |-> <<>>, evt |-> <<>>]
  /\ work = <<>>
  /\ evt = [regs |-> [p \in Pids |-> 0], todo |-> [p \in Pids |-> 0], busy |-> FALSE, fires |-> 0]
  /\ ipc = [kipc |-> TRUE, pid |-> Nobody, at |-> "up"]
  /\ log = [sent |-> [p \in Pids |-> 0], last |-> [p \in Pids |-> 0], odd |-> 0]

Forget == log' = [log EXCEPT !.odd = @ + 1]
BadPool == ipc.at = "freed" \/ (ipc.at = "bufs" /\ freebuf # {})

-----------------------------------------------------------------------------
\* nl_data_recv takes a buffer; without one, or without a server, the message is
\* dropped and nothing changes.
Alloc(p) ==
  /\ recv[p].at = "idle" /\ log.sent[p] < MaxMsgs[p]
  /\ ipc.kipc /\ Malloc # NoBuf
  /\ \E k \in Sends[p] : recv' = [recv EXCEPT ![p] = [at |-> "check", buf |-> Malloc, kind |-> k]]
  /\ PoolStep(Malloc, {})
  /\ log' = [log EXCEPT !.sent[p] = @ + 1]
  /\ UNCHANGED <<queue, work, evt, ipc>>

\* The length, s_kipc and the header (_zipc_client_recv_hdr) are checked.  Where
\* the message is refused nobody puts the buffer back.
Check(p) ==
  /\ recv[p].at = "check"
  /\ LET short == recv[p].kind = "short" \/ ~ipc.kipc
     IN /\ ipc' = IF short THEN ipc ELSE [ipc EXCEPT !.pid = p]
        /\ IF short \/ recv[p].kind = "bad"
           THEN recv' = [recv EXCEPT ![p] = Waiting] /\ Forget
           ELSE recv' = [recv EXCEPT ![p].at = "post"] /\ UNCHANGED log
  /\ UNCHANGED <<poolVars, queue, work, evt>>

\* The request is sent to s_kipc->sch.  s_kipc is read again, and may be NULL by
\* now.  A request that is not accepted is dropped.
Post(p) ==
  /\ recv[p].at = "post"
  /\ IF ~ipc.kipc THEN Fault("null") /\ recv' = [recv EXCEPT ![p] = Waiting]
     ELSE \E ok \in Accepts(queue.sch, SchCap) :
            IF ok THEN recv' = [recv EXCEPT ![p].at = "insert"] /\ UNCHANGED poolVars
            ELSE recv' = [recv EXCEPT ![p] = Waiting] /\ Free(recv[p].buf)
  /\ UNCHANGED <<queue, work, evt, ipc, log>>

\* The job is put into the queue, which others may have filled, or a deletion freed.
Insert(p) ==
  /\ recv[p].at = "insert"
  /\ recv' = [recv EXCEPT ![p] = Waiting]
  /\ IF ipc.at = "freed" THEN Fault("ipc") /\ UNCHANGED queue
     ELSE /\ queue' = [queue EXCEPT !.sch =
               SendJob(@, [pid |-> p, buf |-> recv[p].buf, sn |-> log.sent[p], kind |-> recv[p].kind])]
          /\ UNCHANGED poolVars
  /\ UNCHANGED <<work, evt, ipc, log>>

-----------------------------------------------------------------------------
\* _zipc_msg_proc_job: a buffer for the reply, or the request is dropped.
ProcStart ==
  /\ work = <<>> /\ queue.sch # <<>>
  /\ queue' = [queue EXCEPT !.sch = Tail(@)]
  /\ LET j == Head(queue.sch)
     IN IF BadPool THEN Fault("ipc") /\ UNCHANGED work
        ELSE IF Malloc = NoBuf THEN Free(j.buf) /\ UNCHANGED work
        ELSE PoolStep(Malloc, {}) /\ work' = <<[job |-> j, obuf |-> Malloc, at |-> "parse"]>>
  /\ UNCHANGED <<recv, evt, ipc, log>>

\* The payload is parsed; a hook or an unhook waits for the event manager's mutex.
\* The assertion of zcrt_event_unregister only prints in the kernel (zmacro.h:65).
ProcParse ==
  /\ work # <<>> /\ work[1].at = "parse"
  /\ LET j == work[1].job
     IN /\ j.kind \in {"hook", "unhook"} => ~evt.busy
        /\ evt' = CASE j.kind = "hook" -> [evt EXCEPT !.regs[j.pid] = @ + 1]
                    [] j.kind = "unhook" /\ evt.regs[j.pid] > 0 -> [evt EXCEPT !.regs[j.pid] = @ - 1]
                    [] OTHER -> evt
  /\ work' = <<[work[1] EXCEPT !.at = "done"]>>
  /\ IF ipc.at = "freed" THEN Fault("ipc") ELSE UNCHANGED poolVars
  /\ UNCHANGED <<recv, queue, ipc, log>>

\* The reply is sent to respondSch, to which no other thread sends, or dropped; the
\* buffer of an empty reply is forgotten.  The request's buffer is put back.
ProcDone ==
  /\ work # <<>> /\ work[1].at = "done"
  /\ LET j == work[1].job
         reply == [pid |-> j.pid, buf |-> work[1].obuf, sn |-> j.sn]
     IN IF ipc.at = "freed" THEN Fault("ipc") /\ UNCHANGED <<queue, log>>
        ELSE IF j.kind = "noti" THEN Free(j.buf) /\ Forget /\ UNCHANGED queue
        ELSE /\ \E ok \in Accepts(queue.resp, RespCap) :
                  /\ queue' = IF ok THEN [queue EXCEPT !.resp = SendJob(@, reply)] ELSE queue
                  /\ PoolStep(NoBuf, {j.buf} \cup (IF ok THEN {} ELSE {work[1].obuf}))
             /\ UNCHANGED log
  /\ work' = <<>>
  /\ UNCHANGED <<recv, evt, ipc>>

-----------------------------------------------------------------------------
\* _zipc_netlink_send on the respond thread, replies before events.  Without
\* memory for the packet nothing is sent; either way the buffer is put back.
Closed == ipc.at \in {"closed", "bufs", "freed"}
SendReply ==
  /\ queue.resp # <<>>
  /\ queue' = [queue EXCEPT !.resp = Tail(@)]
  /\ LET j == Head(queue.resp)
     IN IF Closed THEN Fault("socket") /\ UNCHANGED log
        ELSE Free(j.buf) /\ log' \in {log, [log EXCEPT !.last[j.pid] = j.sn]}
  /\ UNCHANGED <<recv, work, evt, ipc>>

SendEvent ==
  /\ queue.resp = <<>> /\ queue.evt # <<>>
  /\ queue' = [queue EXCEPT !.evt = Tail(@)]
  /\ IF Closed THEN Fault("socket") ELSE Free(Head(queue.evt).buf)
  /\ UNCHANGED <<recv, work, evt, ipc, log>>

\* zcrt_event_send of a hooked event, on any thread.
Fire ==
  /\ ~evt.busy /\ evt.fires < MaxFires /\ \E p \in Pids : evt.regs[p] > 0
  /\ evt' = [evt EXCEPT !.busy = TRUE, !.todo = evt.regs, !.fires = @ + 1]
  /\ UNCHANGED <<poolVars, recv, queue, work, ipc, log>>

\* _zipc_hookevent_cb, under the event manager's mutex: an event that cannot be
\* encoded takes its buffer with it; the buffer of one that evtSch does not accept is
\* put back.
FireCall(p) ==
  /\ evt.todo[p] > 0
  /\ evt' = [evt EXCEPT !.todo[p] = @ - 1]
  /\ \/ BadPool /\ Fault("ipc") /\ UNCHANGED <<queue, log>>
     \/ ~BadPool /\ Malloc = NoBuf /\ UNCHANGED <<poolVars, queue, log>>
     \/ ~BadPool /\ Malloc # NoBuf /\ PoolStep(Malloc, {}) /\ Forget /\ UNCHANGED queue
     \/ ~BadPool /\ Malloc # NoBuf /\ PoolStep(Malloc, {Malloc}) /\ UNCHANGED <<queue, log>>
     \/ /\ ~BadPool /\ Malloc # NoBuf /\ ~Full(queue.evt, EvtCap)
        /\ queue' = [queue EXCEPT !.evt = SendJob(@, [pid |-> p, buf |-> Malloc])]
        /\ PoolStep(Malloc, {}) /\ UNCHANGED log
  /\ UNCHANGED <<recv, work, ipc>>

FireEnd ==
  /\ evt.busy /\ \A p \in Pids : evt.todo[p] = 0
  /\ evt' = [evt EXCEPT !.busy = FALSE]
  /\ UNCHANGED <<poolVars, recv, queue, work, ipc, log>>

-----------------------------------------------------------------------------
\* zipc_server_delete: s_kipc is cleared, ...
DeleteStart ==
  /\ ipc.at = "up" /\ ipc' = [ipc EXCEPT !.kipc = FALSE, !.at = "kipc"]
  /\ UNCHANGED <<poolVars, recv, queue, work, evt, log>>

\* ... one registration is removed of the process that sent last, no other's, ...
DeleteUnhook ==
  /\ ipc.at = "kipc" /\ ~evt.busy
  /\ ipc' = [ipc EXCEPT !.at = "unhooked"]
  /\ evt' = [evt EXCEPT !.regs = [p \in Pids |-> IF p = ipc.pid /\ @[p] > 0 THEN @[p] - 1 ELSE @[p]]]
  /\ UNCHANGED <<poolVars, recv, queue, work, log>>

\* ... the socket is released, ...
DeleteClose ==
  /\ ipc.at = "unhooked" /\ ipc' = [ipc EXCEPT !.at = "closed"]
  /\ UNCHANGED <<poolVars, recv, queue, work, evt, log>>

\* ... the free list is freed, ...
DeleteBufs ==
  /\ ipc.at = "closed" /\ ipc' = [ipc EXCEPT !.at = "bufs"] /\ FreeAll
  /\ UNCHANGED <<recv, queue, work, evt, log>>

\* ... the schedules are deleted with their jobs, and the server is freed.
DeleteFree ==
  /\ ipc.at = "bufs" /\ ipc' = [ipc EXCEPT !.at = "freed"]
  /\ queue' = [sch |-> <<>>, resp |-> <<>>, evt |-> <<>>]
  /\ UNCHANGED <<poolVars, recv, work, evt, log>>

Next ==
  /\ fault = "none"
  /\ \/ \E p \in Pids : Alloc(p) \/ Check(p) \/ Post(p) \/ Insert(p) \/ FireCall(p)
     \/ ProcStart \/ ProcParse \/ ProcDone
     \/ SendReply \/ SendEvent \/ Fire \/ FireEnd
     \/ DeleteStart \/ DeleteUnhook \/ DeleteClose \/ DeleteBufs \/ DeleteFree

Spec == Init /\ [][Next]_vars

-----------------------------------------------------------------------------
\* Until its free list is freed every buffer is at one place, except one for each
\* refused message, each empty reply and each event that could not be encoded.
Places == BufsOf(queue.sch) \cup BufsOf(queue.resp) \cup BufsOf(queue.evt)
          \cup ({recv[p].buf : p \in Pids} \ {NoBuf})
          \cup UNION {{work[i].job.buf, work[i].obuf} : i \in DOMAIN work}
Held == Len(queue.sch) + Len(queue.resp) + Len(queue.evt) + 2 * Len(work)
        + Cardinality({p \in Pids : recv[p].buf # NoBuf})
BufsExact ==
  fault = "none" /\ ipc.at \notin {"bufs", "freed"} =>
    /\ Places \cap (freebuf \cup heap) = {} /\ freebuf \cap heap = {}
    /\ Cardinality(Places) = Held
    /\ Held + Cardinality(freebuf) + Cardinality(heap) + log.odd = NBufs

\* The requests of a process are carried out and answered in the order it sent
\* them: its serial numbers rise from the last reply to the last request.
Line == queue.resp \o [i \in DOMAIN work |-> work[i].job] \o queue.sch
InOrder ==
  /\ \A i \in DOMAIN Line : log.last[Line[i].pid] < Line[i].sn
  /\ \A i, j \in DOMAIN Line : i < j /\ Line[i].pid = Line[j].pid => Line[i].sn < Line[j].sn

KernelSound == BufsExact /\ InOrder
=============================================================================
