-------------------------- MODULE ZipcKernelProofs --------------------------
(***************************************************************************)
(* Theorems about ZipcKernel, for any number of processes, messages and    *)
(* buffers, any sizes of the three schedules, and the deletion of the      *)
(* server at any time.                                                     *)
(***************************************************************************)
EXTENDS ZipcKernel, ZipcPoolProofs

AnyKind == {"none"} \cup UNION {Sends[p] : p \in Pids}
Jobs == [pid : Pids, buf : Bufs, sn : Nat, kind : AnyKind]
Replies == [pid : Pids, buf : Bufs, sn : Nat]
Events == [pid : Pids, buf : Bufs]
Works == [job : Jobs, obuf : Bufs, at : {"parse", "done"}]
Receivers == [at : {"idle", "check", "post", "insert"}, buf : Bufs \cup {NoBuf}, kind : AnyKind]

\* The types of the variables; who receives a message has a buffer for it.
PoolT == freebuf \subseteq Bufs /\ heap \subseteq Bufs
RecvT == recv \in [Pids -> Receivers] /\ \A p \in Pids : recv[p].at = "idle" <=> recv[p].buf = NoBuf
QueT == queue \in [sch : Seq(Jobs), resp : Seq(Replies), evt : Seq(Events)]
WorkT == work = <<>> \/ \E w \in Works : work = <<w>>
IpcT == ipc \in [kipc : BOOLEAN, pid : Pids \cup {Nobody},
                 at : {"up", "kipc", "unhooked", "closed", "bufs", "freed"}]
LogT == log \in [sent : [Pids -> Nat], last : [Pids -> Nat], odd : Nat]
KType == PoolT /\ RecvT /\ QueT /\ WorkT /\ IpcT /\ LogT

\* A process that sends its request to sch passes the test of its length, ...
Passed(p) ==
  /\ recv[p].at = "post" /\ recv' = [recv EXCEPT ![p].at = "insert"]
  /\ UNCHANGED <<poolVars, queue, work, evt, ipc, log>>

\* ... and is done with it: the server has gone, the request is refused or queued.
Given(p) ==
  /\ recv[p].at \in {"post", "insert"} /\ recv' = [recv EXCEPT ![p] = Waiting]
  /\ \/ (Fault("null") \/ Fault("ipc")) /\ UNCHANGED queue
     \/ Free(recv[p].buf) /\ UNCHANGED queue
     \/ /\ queue' = [queue EXCEPT !.sch =
               SendJob(@, [pid |-> p, buf |-> recv[p].buf, sn |-> log.sent[p], kind |-> recv[p].kind])]
        /\ recv[p].at = "insert" /\ UNCHANGED poolVars
  /\ UNCHANGED <<work, evt, ipc, log>>

LEMMA Posts ==
  ASSUME NEW p \in Pids, Post(p) \/ Insert(p)
  PROVE  Passed(p) \/ Given(p)
<1>1. CASE Post(p)
  BY <1>1 DEF Post, Passed, Given
<1>2. CASE Insert(p)
  BY <1>2 DEF Insert, Given
<1> QED BY <1>1, <1>2

\* What zipc_buf_malloc and zipc_buf_free make of the pool.
LEMMA PoolType ==
  ASSUME PoolT
  PROVE  /\ Malloc \in Bufs \cup {NoBuf} /\ NoBuf \notin Bufs
         /\ \A taken, Back : Back \subseteq Bufs /\ PoolStep(taken, Back) => PoolT'
         /\ \A b \in Bufs : Free(b) => PoolT'
         /\ \A why : Fault(why) => PoolT'
         /\ FreeAll => PoolT'
         /\ UNCHANGED poolVars => PoolT'
<1>1. Malloc \in Bufs \cup {NoBuf} /\ NoBuf \notin Bufs
  BY MallocType DEF PoolT
<1>2. ASSUME NEW taken, NEW Back, Back \subseteq Bufs, PoolStep(taken, Back) PROVE PoolT'
  BY <1>2 DEF PoolT, PoolStep
<1>3. \A b \in Bufs : Free(b) => PoolT'
  BY DEF PoolT, PoolStep, Free
<1>4. \A why : Fault(why) => PoolT'
  BY DEF PoolT, Fault
<1>5. (FreeAll => PoolT') /\ (UNCHANGED poolVars => PoolT')
  BY DEF PoolT, FreeAll, poolVars
<1> QED BY <1>1, <1>2, <1>3, <1>4, <1>5

\* Variables that a step leaves alone keep their type.
LEMMA Untouched ==
  /\ RecvT /\ UNCHANGED recv => RecvT'
  /\ QueT /\ UNCHANGED queue => QueT'
  /\ WorkT /\ UNCHANGED work => WorkT'
  /\ IpcT /\ UNCHANGED ipc => IpcT'
  /\ LogT /\ UNCHANGED log => LogT'
  BY DEF RecvT, QueT, WorkT, IpcT, LogT

\* A process is done with its message.
LEMMA RecvDone ==
  ASSUME RecvT, NEW p \in Pids, recv' = [recv EXCEPT ![p] = Waiting]
  PROVE  /\ RecvT' /\ recv'[p].at = "idle" /\ recv'[p].buf = NoBuf
         /\ \A x \in Pids \ {p} : recv'[x] = recv[x]
<1>1. Waiting \in Receivers /\ Waiting.at = "idle" /\ Waiting.buf = NoBuf
  BY DEF Waiting, Receivers, AnyKind
<1> HIDE DEF Waiting
<1> QED BY <1>1 DEF RecvT

\* The queues after a job was put into one of them, or taken out.
LEMMA QueNext ==
  ASSUME QueT
  PROVE  /\ \A q \in Seq(Jobs) : queue' = [queue EXCEPT !.sch = q] =>
              QueT' /\ queue'.sch = q /\ queue'.resp = queue.resp /\ queue'.evt = queue.evt
         /\ \A q \in Seq(Replies) : queue' = [queue EXCEPT !.resp = q] =>
              QueT' /\ queue'.sch = queue.sch /\ queue'.resp = q /\ queue'.evt = queue.evt
         /\ \A q \in Seq(Events) : queue' = [queue EXCEPT !.evt = q] =>
              QueT' /\ queue'.sch = queue.sch /\ queue'.resp = queue.resp /\ queue'.evt = q
  BY DEF QueT

\* What the server remembers of a process, and what it forgets.
LEMMA LogNext ==
  ASSUME LogT
  PROVE  /\ Forget => LogT' /\ log'.sent = log.sent /\ log'.last = log.last /\ log'.odd = log.odd + 1
         /\ \A p \in Pids : log' = [log EXCEPT !.sent[p] = @ + 1] =>
              /\ LogT' /\ log'.last = log.last /\ log'.odd = log.odd
              /\ log'.sent = [log.sent EXCEPT ![p] = @ + 1]
         /\ \A p \in Pids, n \in Nat : log' = [log EXCEPT !.last[p] = n] =>
              /\ LogT' /\ log'.sent = log.sent /\ log'.odd = log.odd
              /\ log'.last = [log.last EXCEPT ![p] = n]
<1>1. Forget => LogT' /\ log'.sent = log.sent /\ log'.last = log.last /\ log'.odd = log.odd + 1
  BY DEF LogT, Forget
<1>2. ASSUME NEW p \in Pids, log' = [log EXCEPT !.sent[p] = @ + 1]
      PROVE  /\ LogT' /\ log'.last = log.last /\ log'.odd = log.odd
             /\ log'.sent = [log.sent EXCEPT ![p] = @ + 1]
  BY <1>2 DEF LogT
<1>3. ASSUME NEW p \in Pids, NEW n \in Nat, log' = [log EXCEPT !.last[p] = n]
      PROVE  /\ LogT' /\ log'.sent = log.sent /\ log'.odd = log.odd
             /\ log'.last = [log.last EXCEPT ![p] = n]
  BY <1>3 DEF LogT
<1> QED BY <1>1, <1>2, <1>3

\* Every step keeps the types.
LEMMA StepType ==
  ASSUME KType, [Next]_vars
  PROVE  KType'
<1> USE DEF KType
<1>0. Malloc \in Bufs \cup {NoBuf} /\ NoBuf \notin Bufs
  BY PoolType
<1>1. CASE UNCHANGED vars
  BY <1>1, Untouched, PoolType DEF vars
<1>2. ASSUME NEW p \in Pids, Alloc(p) PROVE KType'
  <2>1. PICK k \in Sends[p] : recv' = [recv EXCEPT ![p] = [at |-> "check", buf |-> Malloc, kind |-> k]]
    BY <1>2 DEF Alloc
  <2>2. [at |-> "check", buf |-> Malloc, kind |-> k] \in Receivers /\ Malloc # NoBuf
    BY <1>0, <1>2 DEF Receivers, AnyKind, Alloc
  <2>3. RecvT'
    BY <2>1, <2>2 DEF RecvT
  <2>4. PoolT' /\ LogT'
    BY <1>2, PoolType, LogNext DEF Alloc
  <2> QED BY <1>2, <2>3, <2>4, Untouched DEF Alloc
<1>3. ASSUME NEW p \in Pids, Check(p) PROVE KType'
  <2>1. IpcT'
    BY <1>3 DEF Check, IpcT
  <2>2. RecvT' /\ LogT'
    <3>1. CASE recv' = [recv EXCEPT ![p] = Waiting] /\ Forget
      BY <3>1, RecvDone, LogNext
    <3>2. CASE recv' = [recv EXCEPT ![p].at = "post"] /\ UNCHANGED log
      BY <1>3, <3>2, Untouched DEF Check, RecvT, Receivers
    <3> QED BY <1>3, <3>1, <3>2 DEF Check
  <2> QED BY <1>3, <2>1, <2>2, Untouched, PoolType DEF Check
<1>p. ASSUME NEW p \in Pids, Passed(p) PROVE KType'
  <2>1. RecvT'
    BY <1>p DEF Passed, RecvT, Receivers
  <2> QED BY <1>p, <2>1, Untouched, PoolType DEF Passed
<1>4. ASSUME NEW p \in Pids, Given(p) PROVE KType'
  <2>1. RecvT'
    BY <1>4, RecvDone DEF Given
  <2>2. recv[p].buf \in Bufs /\ recv[p].kind \in AnyKind /\ log.sent[p] \in Nat
    BY <1>4 DEF Given, RecvT, Receivers, LogT
  <2>3. PoolT' /\ QueT'
    <3>1. CASE (Fault("null") \/ Fault("ipc") \/ Free(recv[p].buf)) /\ UNCHANGED queue
      BY <2>2, <3>1, PoolType, Untouched
    <3>2. CASE /\ UNCHANGED poolVars
               /\ queue' = [queue EXCEPT !.sch =
                    SendJob(@, [pid |-> p, buf |-> recv[p].buf, sn |-> log.sent[p], kind |-> recv[p].kind])]
      <4>1. PICK j : j = [pid |-> p, buf |-> recv[p].buf, sn |-> log.sent[p], kind |-> recv[p].kind]
        OBVIOUS
      <4>2. j \in Jobs /\ queue.sch \in Seq(Jobs)
        BY <2>2, <4>1 DEF Jobs, QueT
      <4>3. PICK q : q = SendJob(queue.sch, j)
        OBVIOUS
      <4>4. q \in Seq(Jobs) /\ queue' = [queue EXCEPT !.sch = q]
        BY <3>2, <4>1, <4>2, <4>3, SendJobType
      <4> QED BY <3>2, <4>4, QueNext, PoolType
    <3> QED BY <1>4, <3>1, <3>2 DEF Given
  <2> QED BY <1>4, <2>1, <2>3, Untouched DEF Given
<1>5. CASE ProcStart
  <2>1. PICK j : j = Head(queue.sch)
    OBVIOUS
  <2>2. j \in Jobs /\ Tail(queue.sch) \in Seq(Jobs)
    BY <1>5, <2>1, TailType DEF ProcStart, QueT
  <2>3. QueT'
    BY <1>5, <2>2, QueNext DEF ProcStart
  <2>4. PoolT' /\ WorkT'
    <3>1. CASE Fault("ipc") /\ UNCHANGED work
      BY <3>1, PoolType, Untouched
    <3>2. CASE Free(j.buf) /\ UNCHANGED work
      BY <2>2, <3>2, PoolType, Untouched DEF Jobs
    <3>3. CASE PoolStep(Malloc, {}) /\ Malloc # NoBuf /\ work' = <<[job |-> j, obuf |-> Malloc, at |-> "parse"]>>
      <4>1. [job |-> j, obuf |-> Malloc, at |-> "parse"] \in Works
        BY <1>0, <2>2, <3>3 DEF Works
      <4> QED BY <3>3, <4>1, PoolType DEF WorkT
    <3> QED BY <1>5, <2>1, <3>1, <3>2, <3>3 DEF ProcStart
  <2> QED BY <1>5, <2>3, <2>4, Untouched DEF ProcStart
<1>6. CASE ProcParse
  <2>1. WorkT'
    <3>1. PICK w \in Works : work = <<w>> /\ work[1] = w
      BY <1>6 DEF ProcParse, WorkT
    <3>2. work' = <<[w EXCEPT !.at = "done"]>> /\ [w EXCEPT !.at = "done"] \in Works
      BY <1>6, <3>1 DEF ProcParse, Works
    <3> QED BY <3>2 DEF WorkT
  <2> QED BY <1>6, <2>1, Untouched, PoolType DEF ProcParse
<1>8. CASE ProcDone
  <2>1. PICK w \in Works : work = <<w>> /\ work[1] = w
    BY <1>8 DEF ProcDone, WorkT
  <2>2. PICK j : j = w.job
    OBVIOUS
  <2>3. j \in Jobs /\ w.obuf \in Bufs
    BY <2>2 DEF Works
  <2>4. PICK r : r = [pid |-> j.pid, buf |-> w.obuf, sn |-> j.sn]
    OBVIOUS
  <2>5. r \in Replies /\ j.buf \in Bufs
    BY <2>3, <2>4 DEF Jobs, Replies
  <2>6. \/ Fault("ipc") /\ UNCHANGED <<queue, log>>
        \/ Free(j.buf) /\ Forget /\ UNCHANGED queue
        \/ /\ queue' = queue \/ queue' = [queue EXCEPT !.resp = SendJob(queue.resp, r)]
           /\ \E Back : Back \subseteq Bufs /\ PoolStep(NoBuf, Back)
           /\ UNCHANGED log
    BY <1>8, <2>1, <2>2, <2>3, <2>4, <2>5 DEF ProcDone
  <2>7. QueT'
    <3>1. PICK q : q = SendJob(queue.resp, r)
      OBVIOUS
    <3>2. q \in Seq(Replies)
      BY <2>5, <3>1, SendJobType DEF QueT
    <3>3. UNCHANGED queue \/ queue' = [queue EXCEPT !.resp = q]
      BY <2>6, <3>1
    <3> QED BY <3>2, <3>3, QueNext, Untouched
  <2>8. PoolT' /\ LogT'
    BY <2>5, <2>6, PoolType, LogNext, Untouched
  <2>9. WorkT'
    BY <1>8 DEF ProcDone, WorkT
  <2> QED BY <1>8, <2>7, <2>8, <2>9, Untouched DEF ProcDone
<1>9. CASE SendReply
  <2>1. PICK j : j = Head(queue.resp)
    OBVIOUS
  <2>2. j \in Replies /\ Tail(queue.resp) \in Seq(Replies)
    BY <1>9, <2>1, TailType DEF SendReply, QueT
  <2>3. QueT'
    BY <1>9, <2>2, QueNext DEF SendReply
  <2>4. j.pid \in Pids /\ j.buf \in Bufs /\ j.sn \in Nat
    BY <2>2 DEF Replies
  <2>5. PoolT' /\ LogT'
    BY <1>9, <2>1, <2>4, PoolType, LogNext, Untouched DEF SendReply
  <2> QED BY <1>9, <2>3, <2>5, Untouched DEF SendReply
<1>10. CASE SendEvent
  <2>1. PICK j : j = Head(queue.evt)
    OBVIOUS
  <2>2. j \in Events /\ Tail(queue.evt) \in Seq(Events)
    BY <1>10, <2>1, TailType DEF SendEvent, QueT
  <2>3. QueT'
    BY <1>10, <2>2, QueNext DEF SendEvent
  <2>4. PoolT'
    BY <1>10, <2>1, <2>2, PoolType DEF SendEvent, Events
  <2> QED BY <1>10, <2>3, <2>4, Untouched DEF SendEvent
<1>11. ASSUME NEW p \in Pids, FireCall(p) PROVE KType'
  <2>1. PICK j : j = [pid |-> p, buf |-> Malloc]
    OBVIOUS
  <2>2. PICK q : q = SendJob(queue.evt, j)
    OBVIOUS
  <2>3. \/ (UNCHANGED poolVars \/ Fault("ipc")) /\ UNCHANGED <<queue, log>>
        \/ Malloc # NoBuf /\ PoolStep(Malloc, {}) /\ Forget /\ UNCHANGED queue
        \/ Malloc # NoBuf /\ PoolStep(Malloc, {Malloc}) /\ UNCHANGED <<queue, log>>
        \/ Malloc # NoBuf /\ PoolStep(Malloc, {}) /\ queue' = [queue EXCEPT !.evt = q] /\ UNCHANGED log
    BY <1>11, <2>1, <2>2 DEF FireCall
  <2>4. Malloc # NoBuf => q \in Seq(Events)
    <3>1. Malloc # NoBuf => j \in Events
      BY <1>0, <2>1 DEF Events
    <3> QED BY <2>2, <3>1, SendJobType DEF QueT
  <2>5. QueT'
    BY <2>3, <2>4, QueNext, Untouched
  <2>6. PoolT' /\ LogT'
    BY <1>0, <2>3, PoolType, LogNext, Untouched
  <2> QED BY <1>11, <2>5, <2>6, Untouched DEF FireCall
<1>12. CASE Fire \/ FireEnd
  BY <1>12, Untouched, PoolType DEF Fire, FireEnd
<1>13. CASE DeleteStart \/ DeleteUnhook \/ DeleteClose \/ DeleteBufs \/ DeleteFree
  <2>1. IpcT'
    BY <1>13 DEF DeleteStart, DeleteUnhook, DeleteClose, DeleteBufs, DeleteFree, IpcT
  <2>2. PoolT'
    BY <1>13, PoolType DEF DeleteStart, DeleteUnhook, DeleteClose, DeleteBufs, DeleteFree
  <2>3. QueT'
    <3>1. UNCHANGED queue \/ queue' = [sch |-> <<>>, resp |-> <<>>, evt |-> <<>>]
      BY <1>13 DEF DeleteStart, DeleteUnhook, DeleteClose, DeleteBufs, DeleteFree
    <3>2. [sch |-> <<>>, resp |-> <<>>, evt |-> <<>>] \in [sch : Seq(Jobs), resp : Seq(Replies), evt : Seq(Events)]
      OBVIOUS
    <3> QED BY <3>1, <3>2, Untouched DEF QueT
  <2> QED BY <1>13, <2>1, <2>2, <2>3, Untouched DEF DeleteStart, DeleteUnhook, DeleteClose, DeleteBufs, DeleteFree
<1> QED
  BY <1>1, <1>2, <1>3, <1>4, <1>5, <1>6, <1>8, <1>9, <1>10, <1>11, <1>12, <1>13, <1>p, Posts DEF Next

-----------------------------------------------------------------------------
(* Serial numbers.                                                         *)

\* The last message of p that is sent to sch, or will not be any more.
Upto == [p \in Pids |-> IF recv[p].at = "idle" THEN log.sent[p] ELSE log.sent[p] - 1]

\* The request being carried out, if there is one.
Job == work[1].job

\* Per process, serial numbers rise from the last reply over the replies that wait
\* and the request that is carried out to the requests that wait.
Ordered ==
  /\ \A p \in Pids : log.last[p] <= Upto[p]
  /\ \A i \in DOMAIN queue.resp : /\ log.last[queue.resp[i].pid] < queue.resp[i].sn
                                  /\ queue.resp[i].sn <= Upto[queue.resp[i].pid]
  /\ work # <<>> => log.last[Job.pid] < Job.sn /\ Job.sn <= Upto[Job.pid]
  /\ \A i \in DOMAIN queue.sch : /\ log.last[queue.sch[i].pid] < queue.sch[i].sn
                                 /\ queue.sch[i].sn <= Upto[queue.sch[i].pid]
  /\ \A i, k \in DOMAIN queue.resp :
       i < k /\ queue.resp[i].pid = queue.resp[k].pid => queue.resp[i].sn < queue.resp[k].sn
  /\ \A i, k \in DOMAIN queue.sch :
       i < k /\ queue.sch[i].pid = queue.sch[k].pid => queue.sch[i].sn < queue.sch[k].sn
  /\ work # <<>> => \A i \in DOMAIN queue.resp : queue.resp[i].pid = Job.pid => queue.resp[i].sn < Job.sn
  /\ work # <<>> => \A i \in DOMAIN queue.sch : queue.sch[i].pid = Job.pid => Job.sn < queue.sch[i].sn
  /\ \A i \in DOMAIN queue.resp, k \in DOMAIN queue.sch :
       queue.resp[i].pid = queue.sch[k].pid => queue.resp[i].sn < queue.sch[k].sn

\* The fields of what the queues hold.
LEMMA JobTypes ==
  ASSUME KType
  PROVE  /\ \A i \in DOMAIN queue.sch : queue.sch[i].pid \in Pids /\ queue.sch[i].sn \in Nat
         /\ \A i \in DOMAIN queue.resp : queue.resp[i].pid \in Pids /\ queue.resp[i].sn \in Nat
         /\ work # <<>> => Job.pid \in Pids /\ Job.sn \in Nat
         /\ log.last \in [Pids -> Nat] /\ log.sent \in [Pids -> Nat]
         /\ \A p \in Pids : Upto[p] \in Int /\ Upto[p] <= log.sent[p]
<1>1. /\ \A i \in DOMAIN queue.sch : queue.sch[i] \in Jobs
      /\ \A i \in DOMAIN queue.resp : queue.resp[i] \in Replies
  BY DEF KType, QueT
<1>2. work # <<>> => Job \in Jobs
  BY DEF KType, WorkT, Works, Job
<1>3. log.last \in [Pids -> Nat] /\ log.sent \in [Pids -> Nat]
  BY DEF KType, LogT
<1>4. \A p \in Pids : Upto[p] \in Int /\ Upto[p] <= log.sent[p]
  BY <1>3 DEF Upto
<1> QED BY <1>1, <1>2, <1>3, <1>4 DEF Jobs, Replies

\* Where no job moves and nothing is answered the order stays, whatever is received.
LEMMA OrderKept ==
  ASSUME KType, KType', Ordered, queue'.sch = queue.sch, queue'.resp = queue.resp,
         work' # <<>> => work # <<>> /\ Job' = Job, log'.last = log.last,
         \A p \in Pids : Upto[p] <= Upto'[p]
  PROVE  Ordered'
<1>1. \A p \in Pids : Upto[p] \in Int /\ Upto'[p] \in Int
  BY JobTypes DEF Upto, KType, LogT
<1>2. PICK u : u = Upto' /\ \A p \in Pids : u[p] \in Int /\ Upto[p] <= u[p]
  BY <1>1
<1>3. PICK j : j = Job'
  OBVIOUS
<1>a. /\ \A i \in DOMAIN queue.sch : queue.sch[i].pid \in Pids /\ queue.sch[i].sn \in Nat
      /\ \A i \in DOMAIN queue.resp : queue.resp[i].pid \in Pids /\ queue.resp[i].sn \in Nat
      /\ work # <<>> => Job.pid \in Pids /\ Job.sn \in Nat
      /\ log.last \in [Pids -> Nat]
  BY JobTypes
<1>4. /\ \A p \in Pids : log.last[p] <= u[p]
      /\ \A i \in DOMAIN queue.resp : queue.resp[i].sn <= u[queue.resp[i].pid]
      /\ work # <<>> => Job.sn <= u[Job.pid]
      /\ \A i \in DOMAIN queue.sch : queue.sch[i].sn <= u[queue.sch[i].pid]
  BY SMTT(20), <1>1, <1>2, <1>a DEF Ordered
<1>5. work' # <<>> => work # <<>> /\ j = Job
  BY <1>3
<1> QED BY <1>2, <1>3, <1>4, <1>5 DEF Ordered

\* A process that receives nothing in a step, or is done with its message.
LEMMA UptoKept ==
  ASSUME KType, KType', log'.sent = log.sent, \A p \in Pids : recv'[p].at # "idle" => recv[p].at # "idle"
  PROVE  \A p \in Pids : Upto[p] <= Upto'[p]
<1>1. \A p \in Pids : log.sent[p] \in Nat
  BY JobTypes
<1> QED BY <1>1 DEF Upto

\* The order of a request that goes to the end of sch, behind all of its process.
LEMMA OrderPosted ==
  ASSUME KType, KType', Ordered, NEW p \in Pids, NEW j \in Jobs, j.pid = p, j.sn = log.sent[p],
         recv[p].at = "insert", recv' = [recv EXCEPT ![p] = Waiting],
         queue'.sch = SendJob(queue.sch, j), queue'.resp = queue.resp, UNCHANGED <<work, log>>
  PROVE  Ordered'
<1>a. /\ \A i \in DOMAIN queue.sch : queue.sch[i].pid \in Pids /\ queue.sch[i].sn \in Nat
      /\ \A i \in DOMAIN queue.resp : queue.resp[i].pid \in Pids /\ queue.resp[i].sn \in Nat
      /\ work # <<>> => Job.pid \in Pids /\ Job.sn \in Nat
      /\ log.last \in [Pids -> Nat] /\ log.sent \in [Pids -> Nat]
  BY JobTypes
<1>1. recv'[p].at = "idle" /\ \A x \in Pids \ {p} : recv'[x] = recv[x]
  BY RecvDone DEF KType
<1>b. /\ \A x \in Pids : Upto[x] = IF recv[x].at = "idle" THEN log.sent[x] ELSE log.sent[x] - 1
      /\ \A x \in Pids : Upto'[x] = IF recv'[x].at = "idle" THEN log.sent[x] ELSE log.sent[x] - 1
  BY DEF Upto
<1>c. \A x \in Pids : Upto'[x] \in Int /\ Upto[x] \in Int /\ Upto[x] <= Upto'[x]
  BY <1>1, <1>a, <1>b
<1>2. PICK u : u = Upto' /\ \A x \in Pids : u[x] \in Int /\ Upto[x] \in Int /\ Upto[x] <= u[x]
  BY <1>c
<1>3. Upto[p] < j.sn /\ u[p] = j.sn /\ j.sn \in Nat
  BY <1>1, <1>2, <1>a, <1>b
<1>4. PICK s : s = queue.sch
  OBVIOUS
<1>5. PICK t : t = queue'.sch
  OBVIOUS
<1>6. s \in Seq(Jobs) /\ t = SendJob(s, j)
  BY <1>4, <1>5 DEF KType, QueT
<1>7. Behind(t, s, j)
  BY <1>6, SentBehind
<1>8. Len(s) \in Nat /\ DOMAIN s = 1 .. Len(s) /\ DOMAIN t = 1 .. Len(s) + 1
  BY <1>7 DEF Behind
<1>9. \A i \in DOMAIN t : (i \in DOMAIN s /\ t[i] = s[i]) \/ (i = Len(s) + 1 /\ t[i] = j)
  BY <1>7 DEF Behind
<1>10. /\ \A i \in DOMAIN s : s[i].pid = p => s[i].sn < j.sn
       /\ \A i \in DOMAIN queue.resp : queue.resp[i].pid = p => queue.resp[i].sn < j.sn
       /\ work # <<>> /\ Job.pid = p => Job.sn < j.sn
       /\ log.last[p] < j.sn
  BY <1>2, <1>3, <1>4, <1>a DEF Ordered
<1>11. /\ \A i \in DOMAIN s : log.last[s[i].pid] < s[i].sn /\ s[i].sn <= u[s[i].pid]
       /\ \A i \in DOMAIN queue.resp : /\ log.last[queue.resp[i].pid] < queue.resp[i].sn
                                       /\ queue.resp[i].sn <= u[queue.resp[i].pid]
       /\ work # <<>> => log.last[Job.pid] < Job.sn /\ Job.sn <= u[Job.pid]
       /\ \A x \in Pids : log.last[x] <= u[x]
  <2>1. /\ \A i \in DOMAIN s : s[i].pid \in Pids /\ s[i].sn \in Nat
        /\ \A i \in DOMAIN s : log.last[s[i].pid] < s[i].sn /\ s[i].sn <= Upto[s[i].pid]
    BY <1>4, <1>a DEF Ordered
  <2>2. \A i \in DOMAIN s : s[i].sn <= u[s[i].pid]
    BY <1>2, <2>1
  <2>3. \A i \in DOMAIN queue.resp : /\ log.last[queue.resp[i].pid] < queue.resp[i].sn
                                      /\ queue.resp[i].sn <= u[queue.resp[i].pid]
    BY <1>2, <1>a DEF Ordered
  <2>4. work # <<>> => log.last[Job.pid] < Job.sn /\ Job.sn <= u[Job.pid]
    BY <1>2, <1>a DEF Ordered
  <2>5. \A x \in Pids : log.last[x] <= u[x]
    BY <1>2, <1>a DEF Ordered
  <2> QED BY <2>1, <2>2, <2>3, <2>4, <2>5
<1>12. \A i \in DOMAIN t : log.last[t[i].pid] < t[i].sn /\ t[i].sn <= u[t[i].pid]
  BY <1>3, <1>9, <1>10, <1>11
<1>13. \A i, k \in DOMAIN t : i < k /\ t[i].pid = t[k].pid => t[i].sn < t[k].sn
  <2>1. \A i, k \in DOMAIN s : i < k /\ s[i].pid = s[k].pid => s[i].sn < s[k].sn
    BY <1>4 DEF Ordered
  <2>2. \A i \in DOMAIN s : i <= Len(s) /\ i \in Nat
    BY <1>8
  <2> QED BY <1>8, <1>9, <1>10, <2>1, <2>2
<1>14. work # <<>> => \A i \in DOMAIN t : t[i].pid = Job.pid => Job.sn < t[i].sn
  <2>1. work # <<>> => \A i \in DOMAIN s : s[i].pid = Job.pid => Job.sn < s[i].sn
    BY <1>4 DEF Ordered
  <2> QED BY <1>9, <1>10, <2>1
<1>15. \A i \in DOMAIN queue.resp, k \in DOMAIN t : queue.resp[i].pid = t[k].pid => queue.resp[i].sn < t[k].sn
  <2>1. \A i \in DOMAIN queue.resp, k \in DOMAIN s : queue.resp[i].pid = s[k].pid => queue.resp[i].sn < s[k].sn
    BY <1>4 DEF Ordered
  <2> QED BY <1>9, <1>10, <2>1
<1>16. /\ \A i, k \in DOMAIN queue.resp :
            i < k /\ queue.resp[i].pid = queue.resp[k].pid => queue.resp[i].sn < queue.resp[k].sn
       /\ work # <<>> => \A i \in DOMAIN queue.resp : queue.resp[i].pid = Job.pid => queue.resp[i].sn < Job.sn
  BY DEF Ordered
<1>17. Job' = Job
  BY DEF Job
<1> QED BY <1>2, <1>5, <1>11, <1>12, <1>13, <1>14, <1>15, <1>16, <1>17 DEF Ordered

\* The order of a request that _zipc_msg_proc_job takes from sch, or drops.
LEMMA OrderStarted ==
  ASSUME KType, KType', Ordered, ProcStart
  PROVE  Ordered'
<1>a. /\ \A i \in DOMAIN queue.resp : queue.resp[i].pid \in Pids /\ queue.resp[i].sn \in Nat
      /\ log.last \in [Pids -> Nat]
  BY JobTypes
<1>1. PICK s : s = queue.sch
  OBVIOUS
<1>2. PICK t : t = Tail(s)
  OBVIOUS
<1>3. PICK j : j = Head(s)
  OBVIOUS
<1>4. s \in Seq(Jobs) /\ s # <<>> /\ work = <<>>
  BY <1>1 DEF ProcStart, KType, QueT
<1>5. /\ j \in Jobs /\ j = s[1] /\ 1 \in DOMAIN s
      /\ \A i \in DOMAIN t : i \in Nat \ {0} /\ i + 1 \in DOMAIN s /\ t[i] = s[i + 1]
  BY <1>2, <1>3, <1>4, TailType
<1>6. t \in Seq(Jobs)
  BY <1>2, <1>4, TailType
<1>7. queue'.sch = t /\ queue'.resp = queue.resp
  BY <1>1, <1>2, <1>6, QueNext DEF ProcStart, KType
<1>8. work' # <<>> => Job' = j
  BY <1>1, <1>3, <1>4 DEF ProcStart, Job
<1>9. Upto' = Upto /\ log' = log
  BY DEF ProcStart, Upto
<1>10. /\ \A i \in DOMAIN t : log.last[t[i].pid] < t[i].sn /\ t[i].sn <= Upto[t[i].pid]
       /\ \A i \in DOMAIN t : t[i].pid = j.pid => j.sn < t[i].sn
       /\ \A i \in DOMAIN queue.resp, k \in DOMAIN t : queue.resp[i].pid = t[k].pid => queue.resp[i].sn < t[k].sn
       /\ log.last[j.pid] < j.sn /\ j.sn <= Upto[j.pid]
       /\ \A i \in DOMAIN queue.resp : queue.resp[i].pid = j.pid => queue.resp[i].sn < j.sn
  BY <1>1, <1>5 DEF Ordered
<1>11. \A i, k \in DOMAIN t : i < k /\ t[i].pid = t[k].pid => t[i].sn < t[k].sn
  BY <1>1, <1>5 DEF Ordered
<1> QED BY <1>7, <1>8, <1>9, <1>10, <1>11 DEF Ordered

\* The order of a reply that is sent to respondSch, behind all of its process.
LEMMA OrderReplied ==
  ASSUME KType, KType', Ordered, NEW r \in Replies, work # <<>>, work' = <<>>, r.pid = Job.pid, r.sn = Job.sn,
         queue'.resp = SendJob(queue.resp, r), queue'.sch = queue.sch, UNCHANGED <<recv, log>>
  PROVE  Ordered'
<1>a. /\ \A i \in DOMAIN queue.resp : queue.resp[i].pid \in Pids /\ queue.resp[i].sn \in Nat
      /\ \A i \in DOMAIN queue.sch : queue.sch[i].pid \in Pids /\ queue.sch[i].sn \in Nat
      /\ r.pid \in Pids /\ r.sn \in Nat /\ log.last \in [Pids -> Nat]
  BY JobTypes DEF Replies
<1>1. Upto' = Upto
  BY DEF Upto
<1>2. PICK s : s = queue.resp
  OBVIOUS
<1>3. PICK t : t = queue'.resp
  OBVIOUS
<1>4. s \in Seq(Replies) /\ t = SendJob(s, r)
  BY <1>2, <1>3 DEF KType, QueT
<1>5. Behind(t, s, r)
  BY <1>4, SentBehind
<1>6. Len(s) \in Nat /\ DOMAIN s = 1 .. Len(s) /\ DOMAIN t = 1 .. Len(s) + 1
  BY <1>5 DEF Behind
<1>7. \A i \in DOMAIN t : (i \in DOMAIN s /\ t[i] = s[i]) \/ (i = Len(s) + 1 /\ t[i] = r)
  BY <1>5 DEF Behind
<1>8. /\ \A i \in DOMAIN s : s[i].pid = r.pid => s[i].sn < r.sn
      /\ \A i \in DOMAIN queue.sch : queue.sch[i].pid = r.pid => r.sn < queue.sch[i].sn
      /\ log.last[r.pid] < r.sn /\ r.sn <= Upto[r.pid]
  BY <1>2, <1>a DEF Ordered
<1>9. \A i \in DOMAIN t : log.last[t[i].pid] < t[i].sn /\ t[i].sn <= Upto[t[i].pid]
  BY <1>2, <1>7, <1>8 DEF Ordered
<1>10. \A i, k \in DOMAIN t : i < k /\ t[i].pid = t[k].pid => t[i].sn < t[k].sn
  <2>1. \A i, k \in DOMAIN s : i < k /\ s[i].pid = s[k].pid => s[i].sn < s[k].sn
    BY <1>2 DEF Ordered
  <2>2. \A i \in DOMAIN s : i <= Len(s) /\ i \in Nat
    BY <1>6
  <2> QED BY <1>6, <1>7, <1>8, <2>1, <2>2
<1>11. \A i \in DOMAIN t, k \in DOMAIN queue.sch : t[i].pid = queue.sch[k].pid => t[i].sn < queue.sch[k].sn
  BY <1>2, <1>7, <1>8 DEF Ordered
<1>12. /\ \A p \in Pids : log.last[p] <= Upto[p]
       /\ \A i \in DOMAIN queue.sch : /\ log.last[queue.sch[i].pid] < queue.sch[i].sn
                                      /\ queue.sch[i].sn <= Upto[queue.sch[i].pid]
       /\ \A i, k \in DOMAIN queue.sch :
            i < k /\ queue.sch[i].pid = queue.sch[k].pid => queue.sch[i].sn < queue.sch[k].sn
  BY DEF Ordered
<1> QED BY <1>1, <1>3, <1>9, <1>10, <1>11, <1>12 DEF Ordered

\* The order once the first reply has been sent to its process, or lost on the way.
LEMMA OrderSent ==
  ASSUME KType, KType', Ordered, SendReply
  PROVE  Ordered'
<1>a. /\ \A i \in DOMAIN queue.resp : queue.resp[i].pid \in Pids /\ queue.resp[i].sn \in Nat
      /\ \A i \in DOMAIN queue.sch : queue.sch[i].pid \in Pids /\ queue.sch[i].sn \in Nat
      /\ work # <<>> => Job.pid \in Pids /\ Job.sn \in Nat
      /\ log.last \in [Pids -> Nat] /\ log.sent \in [Pids -> Nat]
      /\ \A p \in Pids : Upto[p] \in Int
  BY JobTypes
<1>1. PICK s : s = queue.resp
  OBVIOUS
<1>2. PICK t : t = Tail(s)
  OBVIOUS
<1>3. PICK j : j = Head(s)
  OBVIOUS
<1>4. s \in Seq(Replies) /\ s # <<>>
  BY <1>1 DEF SendReply, KType, QueT
<1>5. /\ j \in Replies /\ j = s[1] /\ 1 \in DOMAIN s
      /\ \A i \in DOMAIN t : i \in Nat \ {0} /\ i + 1 \in DOMAIN s /\ t[i] = s[i + 1]
  BY <1>2, <1>3, <1>4, TailType
<1>6. t \in Seq(Replies)
  BY <1>2, <1>4, TailType
<1>7. queue'.resp = t /\ queue'.sch = queue.sch
  BY <1>1, <1>2, <1>6, QueNext DEF SendReply, KType
<1>8. j.pid \in Pids /\ j.sn \in Nat
  BY <1>5 DEF Replies
<1>9. /\ log' = log \/ log' = [log EXCEPT !.last[j.pid] = j.sn]
      /\ UNCHANGED <<recv, work>>
  BY <1>1, <1>3 DEF SendReply
<1>10. PICK n : n = log'.last
  OBVIOUS
<1>11. log'.sent = log.sent /\ \A x \in Pids : n[x] = log.last[x] \/ (x = j.pid /\ n[x] = j.sn)
  <2>1. CASE log' = log
    BY <1>10, <2>1
  <2>2. CASE log' = [log EXCEPT !.last[j.pid] = j.sn]
    BY <1>8, <1>10, <1>a, <2>2, LogNext DEF KType
  <2> QED BY <1>9, <2>1, <2>2
<1>12. Upto' = Upto /\ Job' = Job
  BY <1>9, <1>11 DEF Upto, Job
<1>13. j.sn <= Upto[j.pid] /\ log.last[j.pid] < j.sn
  BY <1>1, <1>5 DEF Ordered
<1>14. \A x \in Pids : n[x] <= Upto[x]
  BY <1>11, <1>13 DEF Ordered
<1>15. \A i \in DOMAIN t : n[t[i].pid] < t[i].sn /\ t[i].sn <= Upto[t[i].pid]
  <2>1. \A i \in DOMAIN t : t[i].pid = j.pid => j.sn < t[i].sn
    BY <1>1, <1>5 DEF Ordered
  <2>2. \A i \in DOMAIN t : /\ log.last[t[i].pid] < t[i].sn /\ t[i].sn <= Upto[t[i].pid]
                            /\ t[i].pid \in Pids
    BY <1>1, <1>5, <1>a DEF Ordered
  <2> QED BY <1>11, <2>1, <2>2
<1>16. /\ work # <<>> => n[Job.pid] < Job.sn
       /\ \A i \in DOMAIN queue.sch : n[queue.sch[i].pid] < queue.sch[i].sn
  <2>1. /\ work # <<>> /\ Job.pid = j.pid => j.sn < Job.sn
        /\ \A i \in DOMAIN queue.sch : queue.sch[i].pid = j.pid => j.sn < queue.sch[i].sn
    BY <1>1, <1>5 DEF Ordered
  <2> QED BY <1>11, <1>a, <2>1 DEF Ordered
<1>17. \A i, k \in DOMAIN t : i < k /\ t[i].pid = t[k].pid => t[i].sn < t[k].sn
  BY <1>1, <1>5 DEF Ordered
<1>18. /\ work # <<>> => \A i \in DOMAIN t : t[i].pid = Job.pid => t[i].sn < Job.sn
       /\ \A i \in DOMAIN t, k \in DOMAIN queue.sch : t[i].pid = queue.sch[k].pid => t[i].sn < queue.sch[k].sn
  BY <1>1, <1>5 DEF Ordered
<1>19. /\ work # <<>> => Job.sn <= Upto[Job.pid]
       /\ work # <<>> => \A i \in DOMAIN queue.sch : queue.sch[i].pid = Job.pid => Job.sn < queue.sch[i].sn
       /\ \A i \in DOMAIN queue.sch : queue.sch[i].sn <= Upto[queue.sch[i].pid]
       /\ \A i, k \in DOMAIN queue.sch :
            i < k /\ queue.sch[i].pid = queue.sch[k].pid => queue.sch[i].sn < queue.sch[k].sn
  BY DEF Ordered
<1> QED BY <1>7, <1>9, <1>10, <1>12, <1>14, <1>15, <1>16, <1>17, <1>18, <1>19 DEF Ordered

\* Every step keeps the order of the serial numbers.
LEMMA StepOrder ==
  ASSUME KType, KType', Ordered, [Next]_vars
  PROVE  Ordered'
<1>0. \A p \in Pids : log.sent[p] \in Nat /\ Upto[p] \in Int
  BY JobTypes
<1>1. CASE /\ queue'.sch = queue.sch /\ queue'.resp = queue.resp /\ (work' # <<>> => work # <<>> /\ Job' = Job)
           /\ UNCHANGED recv /\ log'.sent = log.sent /\ log'.last = log.last
  BY <1>1, UptoKept, OrderKept
<1>2. ASSUME NEW p \in Pids, Alloc(p) PROVE Ordered'
  <2>1. /\ recv[p].at = "idle" /\ recv'[p].at = "check" /\ \A x \in Pids \ {p} : recv'[x] = recv[x]
        /\ UNCHANGED <<queue, work>>
    BY <1>2 DEF Alloc, KType, RecvT
  <2>2. log'.last = log.last /\ log'.sent = [log.sent EXCEPT ![p] = @ + 1]
    BY <1>2, LogNext DEF Alloc, KType
  <2>3. \A x \in Pids : log'.sent[x] = IF x = p THEN log.sent[x] + 1 ELSE log.sent[x]
    BY <2>2, JobTypes
  <2>4. \A x \in Pids : Upto[x] <= Upto'[x]
    BY <1>0, <2>1, <2>3 DEF Upto
  <2>5. Job' = Job
    BY <2>1 DEF Job
  <2> QED BY <2>1, <2>2, <2>4, <2>5, OrderKept
<1>3. ASSUME NEW p \in Pids, Check(p) PROVE Ordered'
  <2>1. UNCHANGED <<queue, work>> /\ recv[p].at # "idle"
    BY <1>3 DEF Check
  <2>2. \A x \in Pids : recv'[x].at # "idle" => recv[x].at # "idle"
    BY <1>3, <2>1 DEF Check, KType, RecvT
  <2>3. log'.last = log.last /\ log'.sent = log.sent
    BY <1>3, LogNext DEF Check, KType
  <2>4. \A x \in Pids : Upto[x] <= Upto'[x]
    BY <2>2, <2>3, UptoKept
  <2>5. Job' = Job
    BY <2>1 DEF Job
  <2> QED BY <2>1, <2>3, <2>4, <2>5, OrderKept
<1>p. ASSUME NEW p \in Pids, Passed(p) PROVE Ordered'
  <2>1. \A x \in Pids : recv'[x].at # "idle" => recv[x].at # "idle"
    BY <1>p DEF Passed, KType, RecvT
  <2>2. \A x \in Pids : Upto[x] <= Upto'[x]
    BY <1>p, <2>1, UptoKept DEF Passed
  <2>3. Job' = Job
    BY <1>p DEF Passed, Job
  <2> QED BY <1>p, <2>2, <2>3, OrderKept DEF Passed
<1>4. ASSUME NEW p \in Pids, Given(p) PROVE Ordered'
  <2>1. /\ recv[p].at # "idle" /\ recv' = [recv EXCEPT ![p] = Waiting] /\ UNCHANGED <<work, log>>
    BY <1>4 DEF Given
  <2>2. CASE UNCHANGED queue
    <3>1. \A x \in Pids : recv'[x].at # "idle" => recv[x].at # "idle"
      BY <2>1, RecvDone DEF KType
    <3>2. \A x \in Pids : Upto[x] <= Upto'[x]
      BY <2>1, <3>1, UptoKept
    <3>3. Job' = Job
      BY <2>1 DEF Job
    <3> QED BY <2>1, <2>2, <3>2, <3>3, OrderKept
  <2>3. CASE /\ recv[p].at = "insert"
             /\ queue' = [queue EXCEPT !.sch =
                  SendJob(@, [pid |-> p, buf |-> recv[p].buf, sn |-> log.sent[p], kind |-> recv[p].kind])]
    <3>1. PICK j : j = [pid |-> p, buf |-> recv[p].buf, sn |-> log.sent[p], kind |-> recv[p].kind]
      OBVIOUS
    <3>2. recv[p].buf \in Bufs /\ recv[p].kind \in AnyKind
      BY <2>1 DEF KType, RecvT, Receivers
    <3>3. j \in Jobs /\ j.pid = p /\ j.sn = log.sent[p]
      BY <1>0, <3>1, <3>2 DEF Jobs
    <3>4. SendJob(queue.sch, j) \in Seq(Jobs)
      BY <3>3, SendJobType DEF KType, QueT
    <3>5. queue'.sch = SendJob(queue.sch, j) /\ queue'.resp = queue.resp
      BY <2>3, <3>1, <3>4, QueNext DEF KType
    <3> QED BY <2>1, <2>3, <3>3, <3>5, OrderPosted
  <2> QED BY <1>4, <2>2, <2>3 DEF Given
<1>5. CASE ProcStart
  BY <1>5, OrderStarted
<1>6. CASE ProcParse
  <2>1. PICK w \in Works : work = <<w>> /\ work[1] = w
    BY <1>6 DEF ProcParse, KType, WorkT
  <2>2. work' = <<[w EXCEPT !.at = "done"]>> /\ [w EXCEPT !.at = "done"].job = w.job
    BY <1>6, <2>1 DEF ProcParse, Works
  <2>3. work # <<>> /\ Job' = Job
    BY <2>1, <2>2 DEF Job
  <2> QED BY <1>1, <1>6, <2>3 DEF ProcParse
<1>7. CASE ProcDone
  <2>1. work # <<>> /\ work' = <<>> /\ UNCHANGED recv
    BY <1>7 DEF ProcDone
  <2>2. CASE UNCHANGED queue
    <3>1. log'.sent = log.sent /\ log'.last = log.last
      BY <1>7, LogNext DEF ProcDone, KType
    <3> QED BY <1>1, <2>1, <2>2, <3>1
  <2>3. CASE /\ queue' = [queue EXCEPT !.resp = SendJob(@, [pid |-> Job.pid, buf |-> work[1].obuf, sn |-> Job.sn])]
             /\ UNCHANGED log
    <3>1. PICK r : r = [pid |-> Job.pid, buf |-> work[1].obuf, sn |-> Job.sn]
      OBVIOUS
    <3>2. Job \in Jobs /\ work[1].obuf \in Bufs
      BY <2>1 DEF KType, WorkT, Works, Job
    <3>3. r \in Replies /\ r.pid = Job.pid /\ r.sn = Job.sn
      BY <3>1, <3>2 DEF Jobs, Replies
    <3>4. SendJob(queue.resp, r) \in Seq(Replies)
      BY <3>3, SendJobType DEF KType, QueT
    <3>5. queue'.resp = SendJob(queue.resp, r) /\ queue'.sch = queue.sch
      BY <2>3, <3>1, <3>4, QueNext DEF KType
    <3> QED BY <2>1, <2>3, <3>3, <3>5, OrderReplied
  <2> QED BY <1>7, <2>2, <2>3 DEF ProcDone, Job
<1>8. CASE SendReply
  BY <1>8, OrderSent
<1>9. CASE SendEvent
  <2>1. Tail(queue.evt) \in Seq(Events)
    BY <1>9, TailType DEF SendEvent, KType, QueT
  <2>2. queue'.sch = queue.sch /\ queue'.resp = queue.resp
    BY <1>9, <2>1, QueNext DEF SendEvent, KType
  <2> QED BY <1>1, <1>9, <2>2 DEF SendEvent, Job
<1>10. ASSUME NEW p \in Pids, FireCall(p) PROVE Ordered'
  <2>1. UNCHANGED <<recv, work>>
    BY <1>10 DEF FireCall
  <2>2. log'.sent = log.sent /\ log'.last = log.last
    BY <1>10, LogNext DEF FireCall, KType
  <2>3. queue'.sch = queue.sch /\ queue'.resp = queue.resp
    BY <1>10 DEF FireCall, KType, QueT
  <2> QED BY <1>1, <2>1, <2>2, <2>3 DEF Job
<1>11. CASE DeleteFree
  <2>1. queue'.sch = <<>> /\ queue'.resp = <<>> /\ UNCHANGED <<recv, work, log>> /\ Upto' = Upto /\ Job' = Job
    BY <1>11 DEF DeleteFree, Upto, Job
  <2>2. DOMAIN queue'.sch = {} /\ DOMAIN queue'.resp = {}
    BY <2>1
  <2> QED BY <2>1, <2>2 DEF Ordered
<1>12. CASE \/ UNCHANGED vars \/ Fire \/ FireEnd
            \/ DeleteStart \/ DeleteUnhook \/ DeleteClose \/ DeleteBufs
  BY <1>1, <1>12 DEF vars, Fire, FireEnd, DeleteStart, DeleteUnhook, DeleteClose, DeleteBufs, Job
<1> QED
  BY <1>2, <1>3, <1>4, <1>5, <1>6, <1>7, <1>8, <1>9, <1>10, <1>11, <1>12, <1>p, Posts DEF Next

\* A server fresh from zipc_server_create has nothing in its queues.
LEMMA InitType == Init => KType /\ Ordered
<1> SUFFICES ASSUME Init PROVE KType /\ Ordered
  OBVIOUS
<1>1. PoolT /\ RecvT /\ LogT
  BY DEF Init, PoolInit, PoolT, RecvT, Receivers, AnyKind, Waiting, LogT
<1>2. QueT /\ WorkT /\ IpcT
  BY DEF Init, QueT, WorkT, IpcT
<1>3. DOMAIN queue.sch = {} /\ DOMAIN queue.resp = {} /\ work = <<>>
  BY DEF Init
<1>4. \A p \in Pids : log.last[p] <= Upto[p]
  BY DEF Init, Upto, Waiting
<1> QED BY <1>1, <1>2, <1>3, <1>4 DEF KType, Ordered

\* The line of a process, from its replies to its requests, is what Ordered says.
LEMMA LineOrdered == KType /\ Ordered => InOrder
<1> SUFFICES ASSUME KType, Ordered PROVE InOrder
  OBVIOUS
<1> DEFINE mid == [i \in DOMAIN work |-> work[i].job]
<1>1. PICK a, b, c : a = queue.resp /\ b = mid /\ c = queue.sch
  OBVIOUS
<1>2. a \in Seq(Replies) /\ c \in Seq(Jobs)
  BY <1>1 DEF KType, QueT
<1>3. (work = <<>> /\ b = <<>>) \/ (work # <<>> /\ b = <<Job>> /\ Job \in Jobs)
  BY <1>1 DEF KType, WorkT, Works, Job
<1>4. b \in Seq(Jobs) /\ (Len(b) = 0 \/ (Len(b) = 1 /\ b[1] = Job /\ work # <<>>))
  <2> HIDE DEF mid
  <2>1. CASE b = <<>>
    BY <2>1
  <2>2. CASE b = <<Job>> /\ Job \in Jobs /\ work # <<>>
    BY <2>2
  <2> QED BY <1>3, <2>1, <2>2
<1>5. PICK l : l = Line
  OBVIOUS
<1>6. l = (a \o b) \o c
  BY <1>1, <1>5 DEF Line
<1> HIDE DEF mid
<1>7. /\ Len(a) \in Nat /\ Len(b) \in Nat /\ Len(c) \in Nat
      /\ DOMAIN a = 1 .. Len(a) /\ DOMAIN b = 1 .. Len(b) /\ DOMAIN c = 1 .. Len(c)
  BY <1>2, <1>4
<1>8. /\ DOMAIN l = 1 .. Len(a) + Len(b) + Len(c)
      /\ \A i \in DOMAIN l : \/ i \in DOMAIN a /\ l[i] = a[i]
                             \/ i - Len(a) \in DOMAIN b /\ l[i] = b[i - Len(a)]
                             \/ i - Len(a) - Len(b) \in DOMAIN c /\ l[i] = c[i - Len(a) - Len(b)]
  <2>1. PICK d : d = a \o b
    OBVIOUS
  <2>2. PICK S : S = Replies \cup Jobs /\ a \in Seq(S) /\ b \in Seq(S) /\ c \in Seq(S)
    <3>1. /\ \A i \in 1 .. Len(a) : a[i] \in Replies \cup Jobs
          /\ \A i \in 1 .. Len(b) : b[i] \in Replies \cup Jobs
          /\ \A i \in 1 .. Len(c) : c[i] \in Replies \cup Jobs
      BY <1>2, <1>4
    <3>2. a \in Seq(Replies \cup Jobs) /\ b \in Seq(Replies \cup Jobs) /\ c \in Seq(Replies \cup Jobs)
      BY <1>2, <1>4, <3>1
    <3> QED BY <3>2
  <2>3. /\ d \in Seq(S) /\ Len(d) = Len(a) + Len(b)
        /\ \A i \in 1 .. Len(d) : d[i] = IF i <= Len(a) THEN a[i] ELSE b[i - Len(a)]
    BY <2>1, <2>2
  <2>4. /\ l \in Seq(S) /\ Len(l) = Len(d) + Len(c)
        /\ \A i \in 1 .. Len(l) : l[i] = IF i <= Len(d) THEN d[i] ELSE c[i - Len(d)]
    BY <1>6, <2>1, <2>2, <2>3
  <2> QED BY <1>7, <2>3, <2>4
<1>9. /\ \A i \in DOMAIN a : log.last[a[i].pid] < a[i].sn
      /\ \A i \in DOMAIN b : log.last[b[i].pid] < b[i].sn
      /\ \A i \in DOMAIN c : log.last[c[i].pid] < c[i].sn
  BY <1>1, <1>4, <1>7 DEF Ordered
<1>10. /\ \A i, k \in DOMAIN a : i < k /\ a[i].pid = a[k].pid => a[i].sn < a[k].sn
       /\ \A i, k \in DOMAIN c : i < k /\ c[i].pid = c[k].pid => c[i].sn < c[k].sn
       /\ \A i \in DOMAIN a, k \in DOMAIN b : a[i].pid = b[k].pid => a[i].sn < b[k].sn
       /\ \A i \in DOMAIN b, k \in DOMAIN c : b[i].pid = c[k].pid => b[i].sn < c[k].sn
       /\ \A i \in DOMAIN a, k \in DOMAIN c : a[i].pid = c[k].pid => a[i].sn < c[k].sn
  BY <1>1, <1>4, <1>7 DEF Ordered
<1>11. \A i \in DOMAIN l : log.last[l[i].pid] < l[i].sn
  BY <1>8, <1>9
<1>12. ASSUME NEW i \in DOMAIN l, NEW k \in DOMAIN l, i < k, l[i].pid = l[k].pid PROVE l[i].sn < l[k].sn
  <2>1. CASE i \in DOMAIN a /\ l[i] = a[i]
    BY <1>7, <1>8, <1>10, <1>12, <2>1
  <2>2. CASE i - Len(a) \in DOMAIN b /\ l[i] = b[i - Len(a)]
    BY <1>4, <1>7, <1>8, <1>10, <1>12, <2>2
  <2>3. CASE i - Len(a) - Len(b) \in DOMAIN c /\ l[i] = c[i - Len(a) - Len(b)]
    <3>1. k - Len(a) - Len(b) \in DOMAIN c /\ l[k] = c[k - Len(a) - Len(b)]
      BY <1>7, <1>8, <1>12, <2>3
    <3>2. i - Len(a) - Len(b) < k - Len(a) - Len(b)
      BY <1>7, <1>8, <1>12
    <3> QED BY <1>10, <1>12, <2>3, <3>1, <3>2
  <2> QED BY <1>8, <2>1, <2>2, <2>3
<1> QED BY <1>5, <1>11, <1>12 DEF InOrder

\* The types, and the order of the serial numbers.
LEMMA TypeInvariant == Spec => [](KType /\ Ordered)
<1>1. KType /\ Ordered /\ [Next]_vars => (KType /\ Ordered)'
  BY StepType, StepOrder
<1> QED BY <1>1, InitType, PTL DEF Spec

\* nl_data_recv, the common thread and the respond thread keep the requests of each
\* process in the order it sent them, whatever is refused, dropped or not sent, for
\* any sizes of the three schedules.
THEOREM KernelAnswersInOrder == Spec => []InOrder
  BY TypeInvariant, LineOrdered, PTL

-----------------------------------------------------------------------------
(* Where the buffers are.                                                  *)

\* The buffers of the messages being received, and those of the request being carried out.
RecvBufs == {recv[p].buf : p \in Pids} \ {NoBuf}
Carries == IF work = <<>> THEN {} ELSE {Job.buf, work[1].obuf}

Where == {"recv", "sch", "resp", "evt", "work", "free", "heap", "odd"}
OddOf(w) == {b \in Bufs : w[b] = "odd"}

\* w says where each buffer is; the odd ones are at no place, and there are as many
\* of them as the server has forgotten.
Found(w) ==
  /\ w \in [Bufs -> Where]
  /\ \A b \in Bufs : /\ b \in RecvBufs <=> w[b] = "recv"
                     /\ b \in BufsOf(queue.sch) <=> w[b] = "sch"
                     /\ b \in BufsOf(queue.resp) <=> w[b] = "resp"
                     /\ b \in BufsOf(queue.evt) <=> w[b] = "evt"
                     /\ b \in Carries <=> w[b] = "work"
                     /\ b \in freebuf <=> w[b] = "free"
                     /\ b \in heap <=> w[b] = "heap"
  /\ Cardinality(OddOf(w)) = log.odd

\* No place names a buffer twice.
Single ==
  /\ Distinct(queue.sch) /\ Distinct(queue.resp) /\ Distinct(queue.evt)
  /\ \A p, q \in Pids : recv[p].buf = recv[q].buf /\ recv[p].buf # NoBuf => p = q
  /\ work # <<>> => Job.buf # work[1].obuf

\* Each buffer is at one place or forgotten, until the free list is freed or a fault
\* ends the execution.
Alive == fault = "none" /\ ipc.at \notin {"bufs", "freed"}
Conserved == Alive => Single /\ \E w : Found(w)

\* The buffers named are buffers.
LEMMA PlaceTypes ==
  ASSUME KType
  PROVE  /\ RecvBufs \subseteq Bufs /\ BufsOf(queue.sch) \subseteq Bufs /\ BufsOf(queue.resp) \subseteq Bufs
         /\ BufsOf(queue.evt) \subseteq Bufs /\ Carries \subseteq Bufs
         /\ freebuf \subseteq Bufs /\ heap \subseteq Bufs
         /\ \A p \in Pids : recv[p].buf # NoBuf => recv[p].buf \in Bufs /\ recv[p].buf \in RecvBufs
<1>1. RecvBufs \subseteq Bufs /\ \A p \in Pids : recv[p].buf # NoBuf => recv[p].buf \in Bufs /\ recv[p].buf \in RecvBufs
  <2>1. \A p \in Pids : recv[p].buf \in Bufs \cup {NoBuf}
    BY DEF KType, RecvT, Receivers
  <2> QED BY <2>1 DEF RecvBufs
<1>2. /\ \A i \in DOMAIN queue.sch : queue.sch[i] \in Jobs
      /\ \A i \in DOMAIN queue.resp : queue.resp[i] \in Replies
      /\ \A i \in DOMAIN queue.evt : queue.evt[i] \in Events
  BY DEF KType, QueT
<1>3. /\ BufsOf(queue.sch) \subseteq Bufs /\ BufsOf(queue.resp) \subseteq Bufs
      /\ BufsOf(queue.evt) \subseteq Bufs
  BY <1>2 DEF BufsOf, Jobs, Replies, Events
<1>4. Carries \subseteq Bufs
  <2>1. CASE work = <<>>
    BY <2>1 DEF Carries
  <2>2. ASSUME NEW v \in Works, work = <<v>> PROVE Carries \subseteq Bufs
    <3>1. work[1] = v /\ v.job \in Jobs /\ v.obuf \in Bufs
      BY <2>2 DEF Works
    <3> QED BY <3>1 DEF Carries, Job, Jobs
  <2> QED BY <2>1, <2>2 DEF KType, WorkT
<1> QED BY <1>1, <1>3, <1>4 DEF KType, PoolT

\* Malloc gives a buffer that is nowhere else.
LEMMA MallocWhere ==
  ASSUME KType, NEW w, Found(w)
  PROVE  /\ Malloc \in Bufs \cup {NoBuf} /\ NoBuf \notin Bufs
         /\ Malloc # NoBuf => w[Malloc] \in {"free", "heap"}
<1>1. Malloc \in freebuf \cup heap \cup {NoBuf}
  BY DEF Malloc
<1> QED BY <1>1, MallocType DEF KType, PoolT, Found

\* What a process that is given a buffer, or gives its own away, changes in those held.
LEMMA RecvBufsNext ==
  ASSUME KType, Single, NEW p \in Pids, NEW v \in Bufs \cup {NoBuf}, v = NoBuf \/ v \notin RecvBufs,
         recv'[p].buf = v, \A x \in Pids \ {p} : recv'[x] = recv[x]
  PROVE  /\ RecvBufs' = (RecvBufs \ {recv[p].buf}) \cup ({v} \ {NoBuf})
         /\ \A x, y \in Pids : recv'[x].buf = recv'[y].buf /\ recv'[x].buf # NoBuf => x = y
<1>1. \A x \in Pids : recv'[x].buf = IF x = p THEN v ELSE recv[x].buf
  OBVIOUS
<1>2. RecvBufs' = {recv'[x].buf : x \in Pids} \ {NoBuf}
  BY DEF RecvBufs
<1>3. \A x, y \in Pids : recv'[x].buf = recv'[y].buf /\ recv'[x].buf # NoBuf => x = y
  <2>1. \A x \in Pids : recv[x].buf # NoBuf => recv[x].buf \in RecvBufs
    BY DEF RecvBufs
  <2> QED BY <1>1, <2>1 DEF Single
<1>4. RecvBufs \ {recv[p].buf} = {recv[x].buf : x \in Pids \ {p}} \ {NoBuf}
  <2>1. \A x \in Pids \ {p} : recv[x].buf # NoBuf => recv[x].buf # recv[p].buf
    BY DEF Single
  <2> QED BY <2>1 DEF RecvBufs
<1>5. {recv'[x].buf : x \in Pids} = {recv[x].buf : x \in Pids \ {p}} \cup {v}
  BY <1>1
<1> QED BY <1>2, <1>3, <1>4, <1>5

\* Where the buffers are after a step, said place by place; the forgotten stay so.
LEMMA FoundNext ==
  ASSUME NEW w, Found(w), NEW u \in [Bufs -> Where], log'.odd = log.odd,
         \A b \in Bufs : /\ b \in RecvBufs' <=> u[b] = "recv"
                         /\ b \in BufsOf(queue.sch)' <=> u[b] = "sch"
                         /\ b \in BufsOf(queue.resp)' <=> u[b] = "resp"
                         /\ b \in BufsOf(queue.evt)' <=> u[b] = "evt"
                         /\ b \in Carries' <=> u[b] = "work"
                         /\ b \in freebuf' <=> u[b] = "free"
                         /\ b \in heap' <=> u[b] = "heap"
                         /\ w[b] = "odd" <=> u[b] = "odd"
  PROVE  \E v : Found(v)'
<1>1. OddOf(u) = OddOf(w)
  BY DEF OddOf
<1>2. Cardinality(OddOf(u)) = log'.odd
  BY <1>1 DEF Found
<1>3. OddOf(u)' = OddOf(u)
  BY DEF OddOf
<1> QED BY <1>2, <1>3 DEF Found

\* The same for a step that forgets the buffer f.
LEMMA FoundLess ==
  ASSUME NEW w, Found(w), NEW u \in [Bufs -> Where], NEW f \in Bufs, w[f] # "odd", u[f] = "odd",
         log'.odd = log.odd + 1,
         \A b \in Bufs : /\ b \in RecvBufs' <=> u[b] = "recv"
                         /\ b \in BufsOf(queue.sch)' <=> u[b] = "sch"
                         /\ b \in BufsOf(queue.resp)' <=> u[b] = "resp"
                         /\ b \in BufsOf(queue.evt)' <=> u[b] = "evt"
                         /\ b \in Carries' <=> u[b] = "work"
                         /\ b \in freebuf' <=> u[b] = "free"
                         /\ b \in heap' <=> u[b] = "heap"
                         /\ b # f => (w[b] = "odd" <=> u[b] = "odd")
  PROVE  \E v : Found(v)'
<1>1. OddOf(u) = OddOf(w) \cup {f} /\ f \notin OddOf(w)
  BY DEF OddOf
<1>2. IsFiniteSet(OddOf(w))
  <2>1. IsFiniteSet(Bufs)
    BY FS_Interval, PoolAssumption DEF Bufs
  <2> QED BY <2>1, FS_Subset DEF OddOf
<1>3. Cardinality(OddOf(u)) = log'.odd
  <2>1. Cardinality(OddOf(w) \cup {f}) = Cardinality(OddOf(w)) + 1
    BY <1>1, <1>2, FS_AddElement
  <2> QED BY <1>1, <2>1 DEF Found
<1>4. OddOf(u)' = OddOf(u)
  BY DEF OddOf
<1> QED BY <1>3, <1>4 DEF Found

\* Steps that move no buffer.
LEMMA BufsStay ==
  ASSUME Single, NEW w, Found(w), UNCHANGED <<queue, freebuf, heap>>, log'.odd = log.odd,
         \A p \in Pids : recv'[p].buf = recv[p].buf, Carries' = Carries,
         work' # <<>> => work # <<>> /\ Job'.buf = Job.buf /\ work'[1].obuf = work[1].obuf
  PROVE  Single' /\ \E v : Found(v)'
<1>1. Single'
  BY DEF Single, Distinct
<1>2. /\ RecvBufs' = RecvBufs /\ BufsOf(queue.sch)' = BufsOf(queue.sch)
      /\ BufsOf(queue.resp)' = BufsOf(queue.resp) /\ BufsOf(queue.evt)' = BufsOf(queue.evt)
  BY DEF RecvBufs, BufsOf
<1>3. \E v : Found(v)'
  <2>1. Found(w)'
    BY <1>2 DEF Found, OddOf
  <2> QED BY <2>1
<1> QED BY <1>1, <1>3

\* Every step keeps each buffer at one place, or forgets it and counts it.
LEMMA StepConserved ==
  ASSUME KType, KType', Conserved, [Next]_vars
  PROVE  Conserved'
<1> SUFFICES ASSUME Alive' PROVE Single' /\ \E v : Found(v)'
  BY DEF Conserved
<1>0. Alive /\ ~BadPool /\ \A why \in {"ipc", "null", "assert", "socket"} : ~Fault(why)
  <2>1. fault = "none"
    BY DEF Next, vars, poolVars, Alive
  <2>2. \A why \in {"ipc", "null", "assert", "socket"} : ~Fault(why)
    BY DEF Fault, Alive
  <2>3. ipc.at \notin {"bufs", "freed"}
    <3>1. ipc' = ipc \/ (\E p \in Pids : Check(p)) \/ DeleteStart \/ DeleteUnhook \/ DeleteClose
             \/ DeleteBufs \/ DeleteFree
      BY DEF Next, vars, Alloc, Post, Insert, FireCall, ProcStart, ProcParse, ProcDone, SendReply,
         SendEvent, Fire, FireEnd
    <3>2. ASSUME NEW p \in Pids, Check(p) PROVE ipc'.at = ipc.at
      BY <3>2 DEF Check, KType, IpcT
    <3>3. ~DeleteBufs /\ ~DeleteFree
      BY DEF DeleteBufs, DeleteFree, Alive, KType, IpcT
    <3> QED BY <3>1, <3>2, <3>3 DEF DeleteStart, DeleteUnhook, DeleteClose, Alive
  <2> QED BY <2>1, <2>2, <2>3 DEF Alive, BadPool
<1>1. Single
  BY <1>0 DEF Conserved
<1>2. PICK w : Found(w)
  BY <1>0 DEF Conserved
<1>w. /\ w \in [Bufs -> Where]
      /\ \A b \in Bufs : /\ b \in RecvBufs <=> w[b] = "recv"
                         /\ b \in BufsOf(queue.sch) <=> w[b] = "sch"
                         /\ b \in BufsOf(queue.resp) <=> w[b] = "resp"
                         /\ b \in BufsOf(queue.evt) <=> w[b] = "evt"
                         /\ b \in Carries <=> w[b] = "work"
                         /\ b \in freebuf <=> w[b] = "free"
                         /\ b \in heap <=> w[b] = "heap"
  BY <1>2 DEF Found
<1>p. PICK m : m = Malloc
  OBVIOUS
<1>m. /\ m \in Bufs \cup {NoBuf} /\ NoBuf \notin Bufs
      /\ m # NoBuf => w[m] \in {"free", "heap"}
  BY <1>2, <1>p, MallocWhere
<1>l. log.odd \in Nat /\ (Forget => log'.odd = log.odd + 1)
  BY LogNext DEF KType, LogT
<1>q. /\ queue.sch \in Seq(Jobs) /\ queue.resp \in Seq(Replies) /\ queue.evt \in Seq(Events)
      /\ Distinct(queue.sch) /\ Distinct(queue.resp) /\ Distinct(queue.evt)
  BY <1>1 DEF KType, QueT, Single
<1>f. /\ \A b \in Bufs : Free(b) => freebuf' = freebuf \cup {b} /\ heap' = heap
      /\ PoolStep(m, {}) => freebuf' = freebuf \ {m} /\ heap' = heap \ {m}
  BY <1>m, PlaceTypes DEF Free, PoolStep
<1>t. \A b \in Bufs, p \in Where : \E u \in [Bufs -> Where] : \A x \in Bufs : u[x] = IF x = b THEN p ELSE w[x]
  <2>1. ASSUME NEW b \in Bufs, NEW p \in Where
        PROVE  \E u \in [Bufs -> Where] : \A x \in Bufs : u[x] = IF x = b THEN p ELSE w[x]
    <3> DEFINE v == [x \in Bufs |-> IF x = b THEN p ELSE w[x]]
    <3>1. v \in [Bufs -> Where] /\ \A x \in Bufs : v[x] = IF x = b THEN p ELSE w[x]
      BY <1>w
    <3> HIDE DEF v
    <3> QED BY <3>1
  <2> QED BY <2>1
<1>u. /\ "recv" \in Where /\ "sch" \in Where /\ "resp" \in Where /\ "evt" \in Where
      /\ "work" \in Where /\ "free" \in Where /\ "odd" \in Where
  BY DEF Where
<1>3. CASE \/ UNCHANGED vars \/ Fire \/ FireEnd \/ DeleteStart \/ DeleteUnhook
           \/ DeleteClose \/ DeleteBufs \/ DeleteFree
  <2>1. UNCHANGED <<recv, queue, work, log, freebuf, heap>>
    BY <1>0, <1>3 DEF vars, poolVars, Fire, FireEnd, DeleteStart, DeleteUnhook, DeleteClose,
       DeleteBufs, DeleteFree, Alive, KType, IpcT
  <2>2. Carries' = Carries /\ Job' = Job
    BY <2>1 DEF Carries, Job
  <2> QED BY <1>1, <1>2, <2>1, <2>2, BufsStay
<1>4. CASE ProcParse
  <2>1. UNCHANGED <<recv, queue, log, freebuf, heap>>
    BY <1>0, <1>4 DEF ProcParse, poolVars
  <2>2. PICK v \in Works : work = <<v>> /\ work[1] = v
    BY <1>4 DEF ProcParse, KType, WorkT
  <2>3. PICK v2 : v2 = [v EXCEPT !.at = "done"]
    OBVIOUS
  <2>4. v2.job = v.job /\ v2.obuf = v.obuf
    BY <2>3 DEF Works
  <2>5. work' = <<v2>> /\ work'[1] = v2
    BY <1>4, <2>2, <2>3 DEF ProcParse
  <2>6. /\ work # <<>> /\ work' # <<>> /\ work[1].job = v.job /\ work[1].obuf = v.obuf
        /\ work'[1].job = v.job /\ work'[1].obuf = v.obuf
    BY <2>2, <2>4, <2>5
  <2>7. Carries' = Carries /\ Job' = Job
    BY <2>6 DEF Carries, Job
  <2> QED BY <1>1, <1>2, <2>1, <2>6, <2>7, BufsStay
<1>5. ASSUME NEW p \in Pids, Alloc(p) PROVE Single' /\ \E v : Found(v)'
  <2>1. /\ m # NoBuf /\ m \in Bufs /\ recv[p].buf = NoBuf /\ PoolStep(m, {}) /\ log'.odd = log.odd
        /\ UNCHANGED <<queue, work>>
    <3>1. log'.odd = log.odd
      BY <1>5, LogNext DEF Alloc, KType
    <3> QED BY <1>5, <1>p, <1>m, <3>1 DEF Alloc, KType, RecvT
  <2>2. recv'[p].buf = m /\ \A x \in Pids \ {p} : recv'[x] = recv[x]
    BY <1>5, <1>p DEF Alloc, KType, RecvT
  <2>3. /\ RecvBufs' = (RecvBufs \ {recv[p].buf}) \cup ({m} \ {NoBuf})
        /\ \A x, y \in Pids : recv'[x].buf = recv'[y].buf /\ recv'[x].buf # NoBuf => x = y
    BY <1>1, <1>m, <1>w, <2>1, <2>2, RecvBufsNext
  <2>4. /\ Carries' = Carries /\ Job' = Job /\ BufsOf(queue.sch)' = BufsOf(queue.sch)
        /\ BufsOf(queue.resp)' = BufsOf(queue.resp) /\ BufsOf(queue.evt)' = BufsOf(queue.evt)
    BY <2>1 DEF Carries, Job, BufsOf
  <2>5. Single'
    BY <1>1, <2>1, <2>3, <2>4 DEF Single, Distinct
  <2>6. RecvBufs' = RecvBufs \cup {m} /\ freebuf' = freebuf \ {m} /\ heap' = heap \ {m}
    BY <1>f, <1>m, <2>1, <2>3 DEF RecvBufs
  <2>7. PICK u \in [Bufs -> Where] : \A x \in Bufs : u[x] = IF x = m THEN "recv" ELSE w[x]
    BY <1>t, <1>u, <2>1
  <2>8. \E v : Found(v)'
    BY <1>2, <1>w, <1>m, <2>1, <2>4, <2>6, <2>7, FoundNext
  <2> QED BY <2>5, <2>8
<1>6. ASSUME NEW p \in Pids, Check(p) PROVE Single' /\ \E v : Found(v)'
  <2>1. UNCHANGED <<queue, work, freebuf, heap>>
    BY <1>6 DEF Check, poolVars
  <2>2. /\ Carries' = Carries /\ Job' = Job /\ BufsOf(queue.sch)' = BufsOf(queue.sch)
        /\ BufsOf(queue.resp)' = BufsOf(queue.resp) /\ BufsOf(queue.evt)' = BufsOf(queue.evt)
    BY <2>1 DEF Carries, Job, BufsOf
  <2>3. CASE recv' = [recv EXCEPT ![p] = Waiting] /\ Forget
    <3>1. recv'[p].buf = NoBuf /\ \A x \in Pids \ {p} : recv'[x] = recv[x]
      BY <2>3, RecvDone DEF KType
    <3>2. PICK f \in Bufs : f = recv[p].buf /\ w[f] = "recv"
      <4>1. recv[p].buf # NoBuf
        BY <1>6 DEF Check, KType, RecvT
      <4> QED BY <1>w, <4>1, PlaceTypes
    <3>3. /\ RecvBufs' = (RecvBufs \ {f}) \cup ({NoBuf} \ {NoBuf})
          /\ \A x, y \in Pids : recv'[x].buf = recv'[y].buf /\ recv'[x].buf # NoBuf => x = y
      BY <1>1, <1>m, <3>1, <3>2, RecvBufsNext
    <3>4. Single'
      BY <1>1, <2>1, <2>2, <3>3 DEF Single, Distinct
    <3>5. PICK u \in [Bufs -> Where] : \A x \in Bufs : u[x] = IF x = f THEN "odd" ELSE w[x]
      BY <1>t, <1>u
    <3>6. log'.odd = log.odd + 1
      BY <1>l, <2>3
    <3>7. \E v : Found(v)'
      BY <1>2, <1>w, <2>1, <2>2, <3>2, <3>3, <3>5, <3>6, FoundLess
    <3> QED BY <3>4, <3>7
  <2>4. CASE recv' = [recv EXCEPT ![p].at = "post"] /\ UNCHANGED log
    <3>1. \A x \in Pids : recv'[x].buf = recv[x].buf
      BY <2>4 DEF KType, RecvT, Receivers
    <3> QED BY <1>1, <1>2, <2>1, <2>2, <2>4, <3>1, BufsStay
  <2> QED BY <1>6, <2>3, <2>4 DEF Check
<1>i. ASSUME NEW p \in Pids, Passed(p) PROVE Single' /\ \E v : Found(v)'
  <2>1. UNCHANGED <<queue, work, log, freebuf, heap>>
    BY <1>i DEF Passed, poolVars
  <2>2. Carries' = Carries /\ Job' = Job
    BY <2>1 DEF Carries, Job
  <2>3. \A x \in Pids : recv'[x].buf = recv[x].buf
    BY <1>i DEF Passed, KType, RecvT, Receivers
  <2> QED BY <1>1, <1>2, <2>1, <2>2, <2>3, BufsStay
<1>7. ASSUME NEW p \in Pids, Given(p) PROVE Single' /\ \E v : Found(v)'
  <2>1. PICK b \in Bufs : b = recv[p].buf /\ w[b] = "recv"
    <3>1. recv[p].buf # NoBuf
      BY <1>7 DEF Given, KType, RecvT
    <3> QED BY <1>w, <3>1, PlaceTypes
  <2>2. recv'[p].buf = NoBuf /\ \A x \in Pids \ {p} : recv'[x] = recv[x]
    BY <1>7, RecvDone DEF Given, KType
  <2>3. /\ RecvBufs' = (RecvBufs \ {b}) \cup ({NoBuf} \ {NoBuf})
        /\ \A x, y \in Pids : recv'[x].buf = recv'[y].buf /\ recv'[x].buf # NoBuf => x = y
    BY <1>1, <1>m, <2>1, <2>2, RecvBufsNext
  <2>4. Carries' = Carries /\ Job' = Job /\ log' = log /\ work' = work
    BY <1>7 DEF Given, Carries, Job
  <2>5. CASE Free(b) /\ UNCHANGED queue
    <3>1. /\ BufsOf(queue.sch)' = BufsOf(queue.sch) /\ BufsOf(queue.resp)' = BufsOf(queue.resp)
          /\ BufsOf(queue.evt)' = BufsOf(queue.evt)
      BY <2>5 DEF BufsOf
    <3>2. Single'
      BY <1>1, <2>3, <2>4, <2>5 DEF Single, Distinct
    <3>3. PICK u \in [Bufs -> Where] : \A x \in Bufs : u[x] = IF x = b THEN "free" ELSE w[x]
      BY <1>t, <1>u
    <3>4. freebuf' = freebuf \cup {b} /\ heap' = heap
      BY <1>f, <2>5
    <3>5. \E v : Found(v)'
      BY <1>2, <1>w, <2>1, <2>3, <2>4, <3>1, <3>3, <3>4, FoundNext
    <3> QED BY <3>2, <3>5
  <2>6. ASSUME NEW j \in Jobs, j.buf = b, queue' = [queue EXCEPT !.sch = SendJob(queue.sch, j)], UNCHANGED poolVars
        PROVE  Single' /\ \E v : Found(v)'
    <3>1. PICK q : q = SendJob(queue.sch, j)
      OBVIOUS
    <3>2. q \in Seq(Jobs) /\ Distinct(q) /\ BufsOf(q) = BufsOf(queue.sch) \cup {b}
      <4>1. j.buf \notin BufsOf(queue.sch)
        BY <1>w, <2>1, <2>6
      <4>2. q \in Seq(Jobs)
        BY <1>q, <2>6, <3>1, SendJobType
      <4>3. Distinct(q) /\ BufsOf(q) = BufsOf(queue.sch) \cup {j.buf}
        BY <1>q, <2>6, <3>1, <4>1, BufSent
      <4> QED BY <2>6, <4>2, <4>3
    <3>3. queue'.sch = q /\ queue'.resp = queue.resp /\ queue'.evt = queue.evt
      BY <2>6, <3>1, <3>2, QueNext DEF KType
    <3>4. /\ BufsOf(queue.sch)' = BufsOf(queue.sch) \cup {b} /\ BufsOf(queue.resp)' = BufsOf(queue.resp)
          /\ BufsOf(queue.evt)' = BufsOf(queue.evt)
      BY <3>2, <3>3 DEF BufsOf
    <3>5. Single'
      BY <1>1, <2>3, <2>4, <3>2, <3>3 DEF Single, Distinct
    <3>6. PICK u \in [Bufs -> Where] : \A x \in Bufs : u[x] = IF x = b THEN "sch" ELSE w[x]
      BY <1>t, <1>u
    <3>7. freebuf' = freebuf /\ heap' = heap
      BY <2>6 DEF poolVars
    <3>8. \E v : Found(v)'
      BY <1>2, <1>w, <2>1, <2>3, <2>4, <3>4, <3>6, <3>7, FoundNext
    <3> QED BY <3>5, <3>8
  <2>7. PICK j : j = [pid |-> p, buf |-> recv[p].buf, sn |-> log.sent[p], kind |-> recv[p].kind]
    OBVIOUS
  <2>8. j \in Jobs /\ j.buf = b
    BY <2>1, <2>7 DEF Jobs, KType, RecvT, Receivers, LogT
  <2>9. \/ Free(b) /\ UNCHANGED queue
        \/ queue' = [queue EXCEPT !.sch = SendJob(queue.sch, j)] /\ UNCHANGED poolVars
    BY <1>7, <1>0, <2>1, <2>7 DEF Given
  <2> QED BY <2>5, <2>6, <2>8, <2>9
<1>8. CASE SendReply
  <2>1. PICK j \in Replies : j = Head(queue.resp) /\ queue.resp # <<>>
    BY <1>8, <1>q, TailType DEF SendReply
  <2>2. PICK b : b = j.buf
    OBVIOUS
  <2>3. PICK q : q = Tail(queue.resp)
    OBVIOUS
  <2>4. q \in Seq(Replies) /\ Distinct(q) /\ BufsOf(q) = BufsOf(queue.resp) \ {b} /\ b \in BufsOf(queue.resp)
    <3>1. q \in Seq(Replies)
      BY <1>q, <2>1, <2>3, TailType
    <3> QED BY <1>q, <2>1, <2>2, <2>3, <3>1, BufTaken
  <2>5. b \in Bufs /\ w[b] = "resp"
    BY <1>w, <2>4, PlaceTypes
  <2>6. Free(b) /\ queue' = [queue EXCEPT !.resp = q] /\ recv' = recv /\ work' = work
    BY <1>8, <1>0, <2>1, <2>2, <2>3 DEF SendReply
  <2>7. log'.odd = log.odd
    BY <1>8, <1>0, <2>1, LogNext DEF SendReply, KType, Replies
  <2>8. queue'.resp = q /\ queue'.sch = queue.sch /\ queue'.evt = queue.evt
    BY <2>4, <2>6, QueNext DEF KType
  <2>9. /\ BufsOf(queue.resp)' = BufsOf(queue.resp) \ {b} /\ BufsOf(queue.sch)' = BufsOf(queue.sch)
        /\ BufsOf(queue.evt)' = BufsOf(queue.evt)
        /\ Carries' = Carries /\ Job' = Job /\ RecvBufs' = RecvBufs
    BY <2>4, <2>6, <2>8 DEF BufsOf, Carries, Job, RecvBufs
  <2>10. Single'
    BY <1>1, <2>4, <2>6, <2>8, <2>9 DEF Single, Distinct
  <2>11. PICK u \in [Bufs -> Where] : \A x \in Bufs : u[x] = IF x = b THEN "free" ELSE w[x]
    BY <1>t, <1>u, <2>5
  <2>12. freebuf' = freebuf \cup {b} /\ heap' = heap
    BY <1>f, <2>5, <2>6
  <2>13. \E v : Found(v)'
    BY <1>2, <1>w, <2>5, <2>7, <2>9, <2>11, <2>12, FoundNext
  <2> QED BY <2>10, <2>13
<1>9. CASE SendEvent
  <2>1. PICK j \in Events : j = Head(queue.evt) /\ queue.evt # <<>>
    BY <1>9, <1>q, TailType DEF SendEvent
  <2>2. PICK b : b = j.buf
    OBVIOUS
  <2>3. PICK q : q = Tail(queue.evt)
    OBVIOUS
  <2>4. q \in Seq(Events) /\ Distinct(q) /\ BufsOf(q) = BufsOf(queue.evt) \ {b} /\ b \in BufsOf(queue.evt)
    <3>1. q \in Seq(Events)
      BY <1>q, <2>1, <2>3, TailType
    <3> QED BY <1>q, <2>1, <2>2, <2>3, <3>1, BufTaken
  <2>5. b \in Bufs /\ w[b] = "evt"
    BY <1>w, <2>4, PlaceTypes
  <2>6. Free(b) /\ queue' = [queue EXCEPT !.evt = q] /\ recv' = recv /\ work' = work
    BY <1>9, <1>0, <2>1, <2>2, <2>3 DEF SendEvent
  <2>7. log'.odd = log.odd
    BY <1>9 DEF SendEvent
  <2>8. queue'.evt = q /\ queue'.sch = queue.sch /\ queue'.resp = queue.resp
    BY <2>4, <2>6, QueNext DEF KType
  <2>9. /\ BufsOf(queue.evt)' = BufsOf(queue.evt) \ {b} /\ BufsOf(queue.sch)' = BufsOf(queue.sch)
        /\ BufsOf(queue.resp)' = BufsOf(queue.resp)
        /\ Carries' = Carries /\ Job' = Job /\ RecvBufs' = RecvBufs
    BY <2>4, <2>6, <2>8 DEF BufsOf, Carries, Job, RecvBufs
  <2>10. Single'
    BY <1>1, <2>4, <2>6, <2>8, <2>9 DEF Single, Distinct
  <2>11. PICK u \in [Bufs -> Where] : \A x \in Bufs : u[x] = IF x = b THEN "free" ELSE w[x]
    BY <1>t, <1>u, <2>5
  <2>12. freebuf' = freebuf \cup {b} /\ heap' = heap
    BY <1>f, <2>5, <2>6
  <2>13. \E v : Found(v)'
    BY <1>2, <1>w, <2>5, <2>7, <2>9, <2>11, <2>12, FoundNext
  <2> QED BY <2>10, <2>13
<1>10. CASE ProcStart
  <2>1. PICK j \in Jobs : j = Head(queue.sch) /\ queue.sch # <<>>
    BY <1>10, <1>q, TailType DEF ProcStart
  <2>2. PICK b : b = j.buf
    OBVIOUS
  <2>3. PICK q : q = Tail(queue.sch)
    OBVIOUS
  <2>4. q \in Seq(Jobs) /\ Distinct(q) /\ BufsOf(q) = BufsOf(queue.sch) \ {b} /\ b \in BufsOf(queue.sch)
    <3>1. q \in Seq(Jobs)
      BY <1>q, <2>1, <2>3, TailType
    <3> QED BY <1>q, <2>1, <2>2, <2>3, <3>1, BufTaken
  <2>5. b \in Bufs /\ w[b] = "sch"
    BY <1>w, <2>4, PlaceTypes
  <2>6. /\ queue' = [queue EXCEPT !.sch = q] /\ recv' = recv /\ log' = log /\ work = <<>>
        /\ IF m = NoBuf THEN Free(b) /\ UNCHANGED work
           ELSE PoolStep(m, {}) /\ work' = <<[job |-> j, obuf |-> m, at |-> "parse"]>>
    BY <1>10, <1>0, <1>p, <2>1, <2>2, <2>3 DEF ProcStart
  <2>7. queue'.sch = q /\ queue'.resp = queue.resp /\ queue'.evt = queue.evt
    BY <2>4, <2>6, QueNext DEF KType
  <2>8. /\ BufsOf(queue.sch)' = BufsOf(queue.sch) \ {b} /\ BufsOf(queue.resp)' = BufsOf(queue.resp)
        /\ BufsOf(queue.evt)' = BufsOf(queue.evt) /\ RecvBufs' = RecvBufs
    BY <2>4, <2>6, <2>7 DEF BufsOf, RecvBufs
  <2>9. (work' # <<>> => Job'.buf # work'[1].obuf) => Single'
    BY <1>1, <2>4, <2>6, <2>7 DEF Single, Distinct
  <2>10. CASE m = NoBuf
    <3>1. work' = <<>> /\ Carries' = Carries /\ freebuf' = freebuf \cup {b} /\ heap' = heap
      BY <1>f, <2>5, <2>6, <2>10 DEF Carries
    <3>2. PICK u \in [Bufs -> Where] : \A x \in Bufs : u[x] = IF x = b THEN "free" ELSE w[x]
      BY <1>t, <1>u, <2>5
    <3>3. \E v : Found(v)'
      BY <1>2, <1>w, <2>5, <2>6, <2>8, <3>1, <3>2, FoundNext
    <3> QED BY <2>9, <3>1, <3>3
  <2>11. CASE m # NoBuf
    <3>1. m \in Bufs /\ w[m] \in {"free", "heap"} /\ m # b
      BY <1>m, <2>5, <2>11
    <3>2. PICK v : v = [job |-> j, obuf |-> m, at |-> "parse"]
      OBVIOUS
    <3>3. work' = <<v>> /\ v.job = j /\ v.obuf = m
      BY <2>6, <2>11, <3>2
    <3>4. work' # <<>> /\ work'[1].job = j /\ work'[1].obuf = m
      BY <3>3
    <3>5. Job' = j /\ Carries' = {b, m} /\ Carries = {}
      BY <2>2, <2>6, <3>4 DEF Job, Carries
    <3>6. freebuf' = freebuf \ {m} /\ heap' = heap \ {m}
      BY <1>f, <2>6, <2>11
    <3>7. PICK u \in [Bufs -> Where] : \A x \in Bufs : u[x] = IF x = b \/ x = m THEN "work" ELSE w[x]
      <4> DEFINE z == [x \in Bufs |-> IF x = b \/ x = m THEN "work" ELSE w[x]]
      <4>1. z \in [Bufs -> Where] /\ \A x \in Bufs : z[x] = IF x = b \/ x = m THEN "work" ELSE w[x]
        BY <1>w, <1>u
      <4> HIDE DEF z
      <4> QED BY <4>1
    <3>8. \E x : Found(x)'
      BY <1>2, <1>w, <2>5, <2>6, <2>8, <3>1, <3>5, <3>6, <3>7, FoundNext
    <3>9. Single'
      BY <2>2, <2>9, <3>1, <3>4, <3>5
    <3> QED BY <3>8, <3>9
  <2> QED BY <2>10, <2>11
<1>11. CASE ProcDone
  <2>1. PICK c \in Works : work = <<c>> /\ work[1] = c
    BY <1>11 DEF ProcDone, KType, WorkT
  <2>2. PICK j : j = c.job
    OBVIOUS
  <2>3. PICK a, o : a = j.buf /\ o = c.obuf
    OBVIOUS
  <2>4. j \in Jobs /\ a \in Bufs /\ o \in Bufs
    BY <2>2, <2>3 DEF Works, Jobs
  <2>5. work # <<>> /\ Job = j /\ Carries = {a, o} /\ a # o /\ w[a] = "work" /\ w[o] = "work"
    <3>1. work # <<>> /\ Job = j /\ work[1].obuf = o
      BY <2>1, <2>2, <2>3 DEF Job
    <3>2. Carries = {a, o} /\ a # o
      BY <1>1, <2>3, <3>1 DEF Carries, Single
    <3> QED BY <1>w, <2>4, <3>1, <3>2
  <2>6. PICK r : r = [pid |-> j.pid, buf |-> o, sn |-> j.sn]
    OBVIOUS
  <2>7. r \in Replies /\ r.buf = o
    BY <2>4, <2>6 DEF Jobs, Replies
  <2>8. recv' = recv /\ work' = <<>> /\ RecvBufs' = RecvBufs /\ Carries' = {}
    BY <1>11 DEF ProcDone, RecvBufs, Carries
  <2>9. \/ Free(a) /\ Forget /\ UNCHANGED queue
        \/ queue' = queue /\ PoolStep(NoBuf, {a, o}) /\ UNCHANGED log
        \/ queue' = [queue EXCEPT !.resp = SendJob(queue.resp, r)] /\ PoolStep(NoBuf, {a}) /\ UNCHANGED log
    <3>1. work[1].job = j /\ work[1].obuf = o
      BY <2>1, <2>2, <2>3
    <3>2. {a} \cup {o} = {a, o} /\ {a} \cup {} = {a}
      OBVIOUS
    <3> QED BY <1>11, <1>0, <2>3, <2>6, <3>1, <3>2 DEF ProcDone
  <2>10. Distinct(queue.resp)' /\ Distinct(queue.sch)' /\ Distinct(queue.evt)' => Single'
    BY <1>1, <2>8 DEF Single
  <2>11. CASE UNCHANGED queue /\ Free(a) /\ Forget
    <3>1. /\ BufsOf(queue.sch)' = BufsOf(queue.sch) /\ BufsOf(queue.resp)' = BufsOf(queue.resp)
          /\ BufsOf(queue.evt)' = BufsOf(queue.evt)
      BY <2>11 DEF BufsOf
    <3>2. Single'
      BY <1>q, <2>10, <2>11 DEF Distinct
    <3>3. PICK u \in [Bufs -> Where] : \A x \in Bufs : u[x] = IF x = a THEN "free" ELSE IF x = o THEN "odd" ELSE w[x]
      <4> DEFINE z == [x \in Bufs |-> IF x = a THEN "free" ELSE IF x = o THEN "odd" ELSE w[x]]
      <4>1. z \in [Bufs -> Where] /\ \A x \in Bufs : z[x] = IF x = a THEN "free" ELSE IF x = o THEN "odd" ELSE w[x]
        BY <1>w, <1>u
      <4> HIDE DEF z
      <4> QED BY <4>1
    <3>4. freebuf' = freebuf \cup {a} /\ heap' = heap /\ log'.odd = log.odd + 1
      BY <1>f, <1>l, <2>4, <2>11
    <3>5. \E v : Found(v)'
      BY <1>2, <1>w, <2>4, <2>5, <2>8, <3>1, <3>3, <3>4, FoundLess
    <3> QED BY <3>2, <3>5
  <2>12. CASE UNCHANGED queue /\ PoolStep(NoBuf, {a, o}) /\ UNCHANGED log
    <3>1. /\ BufsOf(queue.sch)' = BufsOf(queue.sch) /\ BufsOf(queue.resp)' = BufsOf(queue.resp)
          /\ BufsOf(queue.evt)' = BufsOf(queue.evt)
      BY <2>12 DEF BufsOf
    <3>2. Single'
      BY <1>q, <2>10, <2>12 DEF Distinct
    <3>3. PICK u \in [Bufs -> Where] : \A x \in Bufs : u[x] = IF x = a \/ x = o THEN "free" ELSE w[x]
      <4> DEFINE z == [x \in Bufs |-> IF x = a \/ x = o THEN "free" ELSE w[x]]
      <4>1. z \in [Bufs -> Where] /\ \A x \in Bufs : z[x] = IF x = a \/ x = o THEN "free" ELSE w[x]
        BY <1>w, <1>u
      <4> HIDE DEF z
      <4> QED BY <4>1
    <3>4. freebuf' = freebuf \cup {a, o} /\ heap' = heap
      BY <1>m, <2>12, PlaceTypes DEF PoolStep
    <3>5. \E v : Found(v)'
      BY <1>2, <1>w, <2>4, <2>5, <2>8, <2>12, <3>1, <3>3, <3>4, FoundNext
    <3> QED BY <3>2, <3>5
  <2>13. CASE queue' = [queue EXCEPT !.resp = SendJob(queue.resp, r)] /\ PoolStep(NoBuf, {a}) /\ UNCHANGED log
    <3>1. PICK q : q = SendJob(queue.resp, r)
      OBVIOUS
    <3>2. q \in Seq(Replies)
      BY <1>q, <2>7, <3>1, SendJobType
    <3>3. Distinct(q) /\ BufsOf(q) = BufsOf(queue.resp) \cup {o}
      <4>1. r.buf \notin BufsOf(queue.resp)
        BY <1>w, <2>4, <2>5, <2>7
      <4>2. Distinct(q) /\ BufsOf(q) = BufsOf(queue.resp) \cup {r.buf}
        BY <1>q, <2>7, <3>1, <4>1, BufSent
      <4> QED BY <2>7, <4>2
    <3>4. queue'.sch = queue.sch /\ queue'.resp = q /\ queue'.evt = queue.evt
      BY <2>13, <3>1, <3>2, QueNext DEF KType
    <3>5. /\ BufsOf(queue.sch)' = BufsOf(queue.sch) /\ BufsOf(queue.resp)' = BufsOf(queue.resp) \cup {o}
          /\ BufsOf(queue.evt)' = BufsOf(queue.evt)
      BY <3>3, <3>4 DEF BufsOf
    <3>6. Single'
      BY <1>q, <2>10, <3>3, <3>4 DEF Distinct
    <3>7. PICK u \in [Bufs -> Where] : \A x \in Bufs : u[x] = IF x = a THEN "free" ELSE IF x = o THEN "resp" ELSE w[x]
      <4> DEFINE z == [x \in Bufs |-> IF x = a THEN "free" ELSE IF x = o THEN "resp" ELSE w[x]]
      <4>1. z \in [Bufs -> Where] /\ \A x \in Bufs : z[x] = IF x = a THEN "free" ELSE IF x = o THEN "resp" ELSE w[x]
        BY <1>w, <1>u
      <4> HIDE DEF z
      <4> QED BY <4>1
    <3>8. freebuf' = freebuf \cup {a} /\ heap' = heap
      BY <1>m, <2>13, PlaceTypes DEF PoolStep
    <3>9. \E v : Found(v)'
      BY <1>2, <1>w, <2>4, <2>5, <2>8, <2>13, <3>5, <3>7, <3>8, FoundNext
    <3> QED BY <3>6, <3>9
  <2> QED BY <2>9, <2>11, <2>12, <2>13
<1>12. ASSUME NEW p \in Pids, FireCall(p) PROVE Single' /\ \E v : Found(v)'
  <2>1. recv' = recv /\ work' = work /\ Carries' = Carries /\ Job' = Job /\ RecvBufs' = RecvBufs
    BY <1>12 DEF FireCall, Carries, Job, RecvBufs
  <2>2. PICK j : j = [pid |-> p, buf |-> m]
    OBVIOUS
  <2>3. \/ m = NoBuf /\ UNCHANGED <<freebuf, heap, queue, log>>
        \/ m # NoBuf /\ PoolStep(m, {}) /\ Forget /\ UNCHANGED queue
        \/ m # NoBuf /\ PoolStep(m, {m}) /\ UNCHANGED <<queue, log>>
        \/ m # NoBuf /\ PoolStep(m, {}) /\ queue' = [queue EXCEPT !.evt = SendJob(queue.evt, j)] /\ UNCHANGED log
    BY <1>12, <1>0, <1>p, <2>2 DEF FireCall, poolVars
  <2>4. UNCHANGED queue => /\ BufsOf(queue.sch)' = BufsOf(queue.sch) /\ BufsOf(queue.resp)' = BufsOf(queue.resp)
                           /\ BufsOf(queue.evt)' = BufsOf(queue.evt) /\ Single'
    BY <1>1, <2>1 DEF BufsOf, Single, Distinct
  <2>5. CASE m = NoBuf /\ UNCHANGED <<freebuf, heap, queue, log>>
    BY <1>1, <1>2, <2>1, <2>5, BufsStay
  <2>6. CASE m # NoBuf /\ PoolStep(m, {}) /\ Forget /\ UNCHANGED queue
    <3>1. PICK u \in [Bufs -> Where] : \A x \in Bufs : u[x] = IF x = m THEN "odd" ELSE w[x]
      BY <1>m, <1>t, <1>u, <2>6
    <3>2. freebuf' = freebuf \ {m} /\ heap' = heap \ {m} /\ log'.odd = log.odd + 1
      BY <1>f, <1>l, <2>6
    <3>3. \E v : Found(v)'
      BY <1>2, <1>m, <1>w, <2>1, <2>4, <2>6, <3>1, <3>2, FoundLess
    <3> QED BY <2>4, <2>6, <3>3
  <2>7. CASE m # NoBuf /\ PoolStep(m, {m}) /\ UNCHANGED <<queue, log>>
    <3>1. PICK u \in [Bufs -> Where] : \A x \in Bufs : u[x] = IF x = m THEN "free" ELSE w[x]
      BY <1>m, <1>t, <1>u, <2>7
    <3>2. freebuf' = (freebuf \ {m}) \cup {m} /\ heap' = heap \ {m}
      BY <2>7 DEF PoolStep
    <3>3. \E v : Found(v)'
      BY <1>2, <1>m, <1>w, <2>1, <2>4, <2>7, <3>1, <3>2, FoundNext
    <3> QED BY <2>4, <2>7, <3>3
  <2>8. CASE m # NoBuf /\ PoolStep(m, {}) /\ queue' = [queue EXCEPT !.evt = SendJob(queue.evt, j)] /\ UNCHANGED log
    <3>1. PICK q : q = SendJob(queue.evt, j)
      OBVIOUS
    <3>2. m \in Bufs /\ w[m] \in {"free", "heap"} /\ j \in Events /\ j.buf = m
      BY <1>m, <2>2, <2>8 DEF Events
    <3>3. q \in Seq(Events)
      BY <1>q, <3>1, <3>2, SendJobType
    <3>4. Distinct(q) /\ BufsOf(q) = BufsOf(queue.evt) \cup {m}
      <4>1. j.buf \notin BufsOf(queue.evt)
        BY <1>w, <3>2
      <4>2. Distinct(q) /\ BufsOf(q) = BufsOf(queue.evt) \cup {j.buf}
        BY <1>q, <3>1, <3>2, <4>1, BufSent
      <4> QED BY <3>2, <4>2
    <3>5. queue'.sch = queue.sch /\ queue'.resp = queue.resp /\ queue'.evt = q
      BY <2>8, <3>1, <3>3, QueNext DEF KType
    <3>6. /\ BufsOf(queue.sch)' = BufsOf(queue.sch) /\ BufsOf(queue.resp)' = BufsOf(queue.resp)
          /\ BufsOf(queue.evt)' = BufsOf(queue.evt) \cup {m}
      BY <3>4, <3>5 DEF BufsOf
    <3>7. Single'
      BY <1>1, <2>1, <3>4, <3>5 DEF Single, Distinct
    <3>8. PICK u \in [Bufs -> Where] : \A x \in Bufs : u[x] = IF x = m THEN "evt" ELSE w[x]
      BY <1>t, <1>u, <3>2
    <3>9. freebuf' = freebuf \ {m} /\ heap' = heap \ {m}
      BY <1>f, <2>8
    <3>10. \E v : Found(v)'
      BY <1>2, <1>w, <2>1, <2>8, <3>2, <3>6, <3>8, <3>9, FoundNext
    <3> QED BY <3>7, <3>10
  <2> QED BY <2>3, <2>5, <2>6, <2>7, <2>8
<1> QED
  BY <1>3, <1>4, <1>5, <1>6, <1>7, <1>8, <1>9, <1>10, <1>11, <1>12, <1>i, Posts DEF Next

\* At first all buffers are in the heap.
LEMMA InitConserved == Init => Conserved
<1> SUFFICES ASSUME Init PROVE Single /\ \E w : Found(w)
  BY DEF Conserved
<1>1. /\ freebuf = {} /\ heap = Bufs /\ recv = [p \in Pids |-> Waiting] /\ work = <<>> /\ log.odd = 0
      /\ DOMAIN queue.sch = {} /\ DOMAIN queue.resp = {} /\ DOMAIN queue.evt = {}
  BY DEF Init, PoolInit
<1>2. \A p \in Pids : recv[p].buf = NoBuf
  BY <1>1 DEF Waiting
<1>3. Single
  BY <1>1, <1>2 DEF Single, Distinct
<1> DEFINE u == [b \in Bufs |-> "heap"]
<1>4. RecvBufs = {} /\ Carries = {} /\ BufsOf(queue.sch) = {} /\ BufsOf(queue.resp) = {} /\ BufsOf(queue.evt) = {}
  BY <1>1, <1>2 DEF RecvBufs, Carries, BufsOf
<1>5. u \in [Bufs -> Where] /\ \A b \in Bufs : u[b] = "heap"
  BY DEF Where
<1> HIDE DEF u
<1>6. Cardinality(OddOf(u)) = 0
  <2>1. OddOf(u) = {}
    BY <1>5 DEF OddOf
  <2> QED BY <2>1, FS_EmptySet
<1>7. Found(u)
  BY <1>1, <1>4, <1>5, <1>6 DEF Found
<1> QED BY <1>3, <1>7

\* As many processes hold a buffer as there are buffers held.
LEMMA BufsOfRecv ==
  ASSUME Single, IsFiniteSet(RecvBufs)
  PROVE  Cardinality({p \in Pids : recv[p].buf # NoBuf}) = Cardinality(RecvBufs)
<1> DEFINE A == {p \in Pids : recv[p].buf # NoBuf}
           f == [b \in RecvBufs |-> CHOOSE p \in Pids : recv[p].buf = b]
<1>1. \A b \in RecvBufs : f[b] \in A /\ recv[f[b]].buf = b
  BY DEF RecvBufs
<1>2. \A p \in A : recv[p].buf \in RecvBufs /\ f[recv[p].buf] = p
  <2>1. ASSUME NEW p \in A PROVE recv[p].buf \in RecvBufs /\ f[recv[p].buf] = p
    <3>1. recv[p].buf \in RecvBufs
      BY DEF RecvBufs
    <3>2. f[recv[p].buf] \in A /\ recv[f[recv[p].buf]].buf = recv[p].buf
      BY <1>1, <3>1
    <3> HIDE DEF f
    <3> QED BY <3>1, <3>2 DEF Single
  <2> QED BY <2>1
<1>3. f \in Bijection(RecvBufs, A)
  <2>1. f \in [RecvBufs -> A]
    BY <1>1
  <2> HIDE DEF f
  <2> QED BY <1>1, <1>2, <2>1 DEF Bijection, Injection, IsInjective, Surjection
<1> HIDE DEF A, f
<1>4. ExistsBijection(RecvBufs, A)
  BY <1>3 DEF ExistsBijection
<1>5. Cardinality(A) = Cardinality(RecvBufs)
  BY <1>4, FS_Bijection
<1> QED BY <1>5 DEF A

\* The request being carried out counts for two.
LEMMA CarriesTwo ==
  ASSUME KType, Single
  PROVE  /\ UNION {{work[i].job.buf, work[i].obuf} : i \in DOMAIN work} = Carries
         /\ IsFiniteSet(Carries) /\ Len(work) \in Nat /\ Cardinality(Carries) = 2 * Len(work)
<1>1. CASE work = <<>>
  <2>1. Len(work) = 0 /\ DOMAIN work = {} /\ Carries = {}
    BY <1>1 DEF Carries
  <2>2. IsFiniteSet(Carries) /\ Cardinality(Carries) = 0
    BY <2>1, FS_EmptySet
  <2>3. UNION {{work[i].job.buf, work[i].obuf} : i \in DOMAIN work} = Carries
    BY <2>1
  <2> QED BY <2>1, <2>2, <2>3
<1>2. ASSUME NEW v \in Works, work = <<v>>
      PROVE  /\ UNION {{work[i].job.buf, work[i].obuf} : i \in DOMAIN work} = Carries
             /\ IsFiniteSet(Carries) /\ Len(work) \in Nat /\ Cardinality(Carries) = 2 * Len(work)
  <2>1. Len(work) = 1 /\ DOMAIN work = {1} /\ work # <<>>
    BY <1>2
  <2>2. PICK a, o : a = work[1].job.buf /\ o = work[1].obuf
    OBVIOUS
  <2>3. Carries = {a} \cup {o} /\ a # o
    BY <2>1, <2>2 DEF Carries, Job, Single
  <2>4. UNION {{work[i].job.buf, work[i].obuf} : i \in DOMAIN work} = Carries
    BY <2>1, <2>2, <2>3
  <2>5. \A x : IsFiniteSet({x}) /\ Cardinality({x}) = 1
    BY FS_Singleton
  <2>6. IsFiniteSet(Carries) /\ Cardinality(Carries) = Cardinality({a}) + Cardinality({o})
    BY <2>3, <2>5, Adds
  <2>7. Cardinality({a}) = 1 /\ Cardinality({o}) = 1
    BY <2>5
  <2>8. Cardinality(Carries) = 2
    BY <2>6, <2>7
  <2> QED BY <2>1, <2>4, <2>6, <2>8
<1> QED BY <1>1, <1>2 DEF KType, WorkT

\* Buffers that are each at one place, or counted as forgotten, are all there.
LEMMA AllThere ==
  ASSUME KType, Conserved
  PROVE  BufsExact
<1> SUFFICES ASSUME Alive
             PROVE  /\ Places \cap (freebuf \cup heap) = {} /\ freebuf \cap heap = {}
                    /\ Cardinality(Places) = Held
                    /\ Held + Cardinality(freebuf) + Cardinality(heap) + log.odd = NBufs
  BY DEF BufsExact, Alive
<1>1. Single
  BY DEF Conserved
<1>2. PICK w : Found(w)
  BY DEF Conserved
<1> DEFINE S2 == RecvBufs \cup BufsOf(queue.sch)
           S3 == S2 \cup BufsOf(queue.resp)
           S4 == S3 \cup BufsOf(queue.evt)
           S5 == S4 \cup Carries
           S6 == S5 \cup freebuf
           S7 == S6 \cup heap
           S8 == S7 \cup OddOf(w)
<1>4. S8 = Bufs
  <2>1. \A b \in Bufs : b \in S8
    BY <1>2 DEF Found, Where, OddOf
  <2>2. OddOf(w) \subseteq Bufs
    BY DEF OddOf
  <2> QED BY <2>1, <2>2, PlaceTypes
<1>5. Places = S5
  <2>1. UNION {{work[i].job.buf, work[i].obuf} : i \in DOMAIN work} = Carries
    BY <1>1, CarriesTwo
  <2> QED BY <2>1 DEF Places, RecvBufs
<1>6. /\ RecvBufs \cap BufsOf(queue.sch) = {} /\ S2 \cap BufsOf(queue.resp) = {} /\ S3 \cap BufsOf(queue.evt) = {}
      /\ S4 \cap Carries = {} /\ S5 \cap freebuf = {} /\ S6 \cap heap = {}
  BY <1>2, PlaceTypes DEF Found
<1>o. S7 \cap OddOf(w) = {}
  BY <1>2, PlaceTypes DEF Found, OddOf
<1>7. IsFiniteSet(Bufs) /\ Cardinality(Bufs) = NBufs
  BY FS_Interval, PoolAssumption DEF Bufs
<1>8. /\ IsFiniteSet(RecvBufs) /\ IsFiniteSet(freebuf) /\ IsFiniteSet(heap) /\ IsFiniteSet(OddOf(w))
  <2>1. OddOf(w) \subseteq Bufs
    BY DEF OddOf
  <2> QED BY <1>7, <2>1, PlaceTypes, FS_Subset
<1>9. /\ IsFiniteSet(BufsOf(queue.sch)) /\ Cardinality(BufsOf(queue.sch)) = Len(queue.sch)
      /\ IsFiniteSet(BufsOf(queue.resp)) /\ Cardinality(BufsOf(queue.resp)) = Len(queue.resp)
      /\ IsFiniteSet(BufsOf(queue.evt)) /\ Cardinality(BufsOf(queue.evt)) = Len(queue.evt)
  <2>1. /\ queue.sch \in Seq(Jobs) /\ queue.resp \in Seq(Replies) /\ queue.evt \in Seq(Events)
        /\ Distinct(queue.sch) /\ Distinct(queue.resp) /\ Distinct(queue.evt)
    BY <1>1 DEF Single, KType, QueT
  <2> QED BY <2>1, BufsOfQueue
<1>10. Cardinality({p \in Pids : recv[p].buf # NoBuf}) = Cardinality(RecvBufs)
  BY <1>1, <1>8, BufsOfRecv
<1>11. IsFiniteSet(Carries) /\ Len(work) \in Nat /\ Cardinality(Carries) = 2 * Len(work)
  BY <1>1, CarriesTwo
<1>s. /\ Places \cap (freebuf \cup heap) = {} /\ freebuf \cap heap = {}
  BY <1>5, <1>6
<1>12. IsFiniteSet(S2) /\ Cardinality(S2) = Cardinality(RecvBufs) + Len(queue.sch) /\ Cardinality(RecvBufs) \in Nat
  BY <1>6, <1>8, <1>9, Adds
<1> HIDE DEF S2
<1>13. IsFiniteSet(S3) /\ Cardinality(S3) = Cardinality(S2) + Len(queue.resp)
  <2>1. IsFiniteSet(S3) /\ Cardinality(S3) = Cardinality(S2) + Cardinality(BufsOf(queue.resp))
    BY <1>6, <1>9, <1>12, Adds
  <2> QED BY <1>9, <2>1
<1> HIDE DEF S3
<1>14. IsFiniteSet(S4) /\ Cardinality(S4) = Cardinality(S3) + Len(queue.evt)
  <2>1. IsFiniteSet(S4) /\ Cardinality(S4) = Cardinality(S3) + Cardinality(BufsOf(queue.evt))
    BY <1>6, <1>9, <1>13, Adds
  <2> QED BY <1>9, <2>1
<1> HIDE DEF S4
<1>15. IsFiniteSet(S5) /\ Cardinality(S5) = Cardinality(S4) + Cardinality(Carries)
  BY <1>6, <1>11, <1>14, Adds
<1> HIDE DEF S5
<1>16. IsFiniteSet(S6) /\ Cardinality(S6) = Cardinality(S5) + Cardinality(freebuf)
  BY <1>6, <1>8, <1>15, Adds
<1> HIDE DEF S6
<1>17. IsFiniteSet(S7) /\ Cardinality(S7) = Cardinality(S6) + Cardinality(heap)
  BY <1>6, <1>8, <1>16, Adds
<1> HIDE DEF S7
<1>18. Cardinality(S8) = Cardinality(S7) + Cardinality(OddOf(w))
  BY <1>8, <1>17, <1>o, Adds
<1>19. /\ Len(queue.sch) \in Nat /\ Len(queue.resp) \in Nat /\ Len(queue.evt) \in Nat
       /\ Cardinality(freebuf) \in Nat /\ Cardinality(heap) \in Nat /\ log.odd \in Nat
  BY <1>8, FS_CardinalityType DEF KType, QueT, LogT
<1>20. Cardinality(S8) = NBufs /\ Cardinality(OddOf(w)) = log.odd
  BY <1>2, <1>4, <1>7 DEF Found
<1> HIDE DEF S8
<1>21. PICK n \in Nat : n = 2 * Len(work)
  BY <1>11
<1>22. Cardinality(S5) = Held /\ Held \in Nat
  <2>1. Held = Len(queue.sch) + Len(queue.resp) + Len(queue.evt) + n + Cardinality(RecvBufs)
    BY <1>10, <1>21 DEF Held
  <2>2. Cardinality(S5) = Cardinality(S4) + n
    BY <1>11, <1>15, <1>21
  <2>3. Cardinality(S5) = Cardinality(RecvBufs) + Len(queue.sch) + Len(queue.resp) + Len(queue.evt) + n
    BY <1>12, <1>13, <1>14, <1>19, <2>2
  <2>4. PICK a, b, c, d \in Nat : /\ a = Len(queue.sch) /\ b = Len(queue.resp) /\ c = Len(queue.evt)
                                 /\ d = Cardinality(RecvBufs)
    BY <1>12, <1>19
  <2>5. Held = a + b + c + n + d
    BY <2>1, <2>4
  <2>6. Cardinality(S5) = d + a + b + c + n
    BY <2>3, <2>4
  <2> QED BY <2>5, <2>6
<1>23. Held + Cardinality(freebuf) + Cardinality(heap) + log.odd = NBufs
  BY <1>16, <1>17, <1>18, <1>19, <1>20, <1>22
<1> QED BY <1>5, <1>22, <1>23, <1>s

\* Until its free list is freed the server of the kernel has each buffer at one
\* place, and has forgotten exactly one for each refused message, each empty reply
\* and each event it could not encode, whatever the heap refuses and the schedules drop.
THEOREM KernelBuffers == Spec => []BufsExact
<1>1. Init => Conserved
  BY InitConserved
<1>2. KType /\ KType' /\ Conserved /\ [Next]_vars => Conserved'
  BY StepConserved
<1>3. KType /\ Conserved => BufsExact
  BY AllThere
<1>4. Spec => []KType
  BY TypeInvariant, PTL
<1> QED BY <1>1, <1>2, <1>3, <1>4, PTL DEF Spec

\* Both together, as the runs check them: for any number of processes, messages and
\* buffers, and the deletion of the server at any time.
THEOREM KernelIsSound == Spec => []KernelSound
<1>1. BufsExact /\ InOrder => KernelSound
  BY DEF KernelSound
<1> QED BY <1>1, KernelAnswersInOrder, KernelBuffers, PTL
=============================================================================
