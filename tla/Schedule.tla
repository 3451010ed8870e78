------------------------------ MODULE Schedule ------------------------------
(***************************************************************************)
(* The job scheduler of zcrt (zcrtlib/zschedule.c).                        *)
(*                                                                         *)
(* A schedule is a bounded job queue of one priority.  Schedules are       *)
(* served by schedule threads: the module's common thread (zcrtthr), or    *)
(* the private thread made for a selfThread schedule, which other          *)
(* schedules may share.  A thread keeps one linked list of jobs per        *)
(* priority, with a head and a tail pointer, a list of free job nodes, a   *)
(* mutex, a semaphore that wakes it, and the number of schedules on it.    *)
(*                                                                         *)
(* Clients are the application threads that send jobs and delete           *)
(* schedules; a callback that sends or deletes is one more client.  One    *)
(* action is one stretch of code between two points where another thread   *)
(* can get in: an unlocked read, a critical section of the thread's mutex, *)
(* a semaphore operation, an atomic operation.  Only the purge of a        *)
(* deleted schedule's jobs takes several steps inside the mutex, since     *)
(* senders read cursize without it.                                        *)
(***************************************************************************)
EXTENDS Integers, Sequences, FiniteSets

CONSTANTS
  Clients,      \* application threads
  Handles,      \* schedule objects, each created at most once
  ZThr,         \* the module's common thread, module->zcrtthr
  NumPri,       \* EZCRTSchPri_num; priority 0 is the most urgent
  Calls,        \* the create calls the application makes
  MaxSend,      \* bound: sendjob calls per client
  SemMax,       \* semaphore ceiling: 1 for the win32 event, large for a counting one
  Atomics,      \* which zcrt_atom_inc/dec is linked
  Quiesce,      \* clients delete a schedule only when nobody is sending to it
  NoJob         \* the NULL job pointer

\* A private thread is named by the schedule it was created for.
Threads == Handles \cup {ZThr}
Pri == 0 .. NumPri - 1
Jobs == [by : Clients, n : 1 .. MaxSend, sch : Handles]
SchTypes == {"zcrtThread", "selfThread", "shareThread"}
CallRecords == [h : Handles, op : {"create"}, type : {"zcrtThread", "selfThread"},
                pri : Pri, max : Nat]
               \cup [h : Handles, op : {"share"}, of : Handles, pri : Pri, max : Nat]

ASSUME ScheduleAssumption ==
  /\ ZThr \notin Handles
  /\ IsFiniteSet(Handles) /\ Handles # {}
  /\ NoJob \notin Jobs
  /\ NumPri \in Nat \ {0}
  /\ MaxSend \in Nat
  /\ SemMax \in Nat \ {0}
  /\ IsFiniteSet(Clients) /\ Clients # {}
  /\ Calls \subseteq CallRecords
  /\ Atomics \in {"interlocked", "kernel", "stub"}
  /\ Quiesce \in BOOLEAN

VARIABLES
  \* schedules: _zstSchedule
  hst, hthr, hpri, htype, hmax, cursize,
  \* schedule threads: _zstSchThr
  que, tail, freejobs, nodes, sem, run, refCnt, lock, wpc, cur,
  \* clients: the call each one is in
  cpc, ch, sent, cnt, scan,
  \* what became of each job, and whether execution is still defined
  fate, fault

schVars == <<hst, hthr, hpri, htype, hmax, cursize>>
queVars == <<que, tail, freejobs, nodes>>
thrVars == <<sem, run, refCnt, lock, wpc, cur>>
cliVars == <<cpc, ch, sent, cnt, scan>>
vars == <<schVars, queVars, thrVars, cliVars, fate, fault>>

-----------------------------------------------------------------------------
Init ==
  /\ hst = [h \in Handles |-> "unused"]
  /\ hthr = [h \in Handles |-> ZThr]
  /\ hpri = [h \in Handles |-> 0]
  /\ htype = [h \in Handles |-> "zcrtThread"]
  /\ hmax = [h \in Handles |-> 0]
  /\ cursize = [h \in Handles |-> 0]
  /\ que = [t \in Threads |-> [p \in Pri |-> <<>>]]
  /\ tail = [t \in Threads |-> [p \in Pri |-> NoJob]]
  /\ freejobs = [t \in Threads |-> 0]
  /\ nodes = [t \in Threads |-> 0]
  /\ sem = [t \in Threads |-> 0]
  /\ run = [t \in Threads |-> t = ZThr]
  /\ refCnt = [t \in Threads |-> 0]
  /\ lock = [t \in Threads |-> FALSE]
  /\ wpc = [t \in Threads |-> IF t = ZThr THEN "top" ELSE "none"]
  /\ cur = [t \in Threads |-> NoJob]
  /\ cpc = [c \in Clients |-> "idle"]
  /\ ch = [c \in Clients |-> CHOOSE h \in Handles : TRUE]
  /\ sent = [c \in Clients |-> 0]
  /\ cnt = [c \in Clients |-> 0]
  /\ scan = [c \in Clients |-> 1]
  /\ fate = [j \in Jobs |-> "none"]
  /\ fault = "none"

\* The job node client c is carrying through sendjob.
JobOf(c) == [by |-> c, n |-> sent[c], sch |-> ch[c]]

\* zcrt_atom_inc/dec of the three ports: the Linux one is a stub.
Inc(v) == IF Atomics = "stub" THEN v ELSE v + 1
\* Mutant: the decrement is lost.
DecLost(v) == v
Dec(v) == IF Atomics = "stub" THEN v ELSE v - 1

SenderPcs == {"checked", "made", "give"}
Sending(h) == {c \in Clients : cpc[c] \in SenderPcs /\ ch[c] = h}
\* Past the size check and not yet counted in cursize.
InFlight(h) == {c \in Clients : cpc[c] \in {"checked", "made"} /\ ch[c] = h}
\* Dereferencing the handle or its thread touches freed memory.
Freed(h) == hst[h] = "deleted" \/ wpc[hthr[h]] = "freed"
\* A call on h may start: h exists and, if clients quiesce, is not being deleted.
Callable(h) == hst[h] = "live" \/ (hst[h] = "closing" /\ ~Quiesce)

-----------------------------------------------------------------------------
(* Creating schedules.                                                     *)

\* The new schedule h on thread t: fields set, reference taken, listed on t.
AddSchedule(h, t, type, pri, max) ==
  /\ hst' = [hst EXCEPT ![h] = "live"]
  /\ hthr' = [hthr EXCEPT ![h] = t]
  /\ hpri' = [hpri EXCEPT ![h] = pri]
  /\ htype' = [htype EXCEPT ![h] = type]
  /\ hmax' = [hmax EXCEPT ![h] = max]
  /\ refCnt' = [refCnt EXCEPT ![t] = Inc(@)]
  /\ UNCHANGED <<cursize, queVars, sem, lock, cur, cliVars, fate, fault>>

\* zcrt_schedule_create: a selfThread schedule gets a new, running thread.
Create(k) ==
  LET t == IF k.type = "selfThread" THEN k.h ELSE ZThr IN
  /\ k.op = "create"
  /\ hst[k.h] = "unused"
  /\ ~lock[t]
  /\ IF k.type = "selfThread"
       THEN /\ run' = [run EXCEPT ![t] = TRUE]
            /\ wpc' = [wpc EXCEPT ![t] = "top"]
       ELSE UNCHANGED <<run, wpc>>
  /\ AddSchedule(k.h, t, k.type, k.pri, k.max)

\* zcrt_schedule_create_share: only the thread of a selfThread schedule is
\* shared; any other schedule leads to the common thread, type zcrtThread.
CreateShare(k) ==
  LET self == htype[k.of] = "selfThread"
      t == IF self THEN hthr[k.of] ELSE ZThr IN
  /\ k.op = "share"
  /\ hst[k.h] = "unused"
  /\ hst[k.of] = "live"
  /\ wpc[t] # "freed"
  /\ ~lock[t]
  /\ UNCHANGED <<run, wpc>>
  /\ AddSchedule(k.h, t, IF self THEN "shareThread" ELSE "zcrtThread", k.pri, k.max)

-----------------------------------------------------------------------------
(* Sending a job: zcrt_schedule_sendjob and zcrt_schedule_sendjob_argn.    *)

\* Mutant: the comparison is off by one.
HasRoomOrEqual(h) == cursize[h] <= hmax[h]
HasRoom(h) == cursize[h] < hmax[h]

\* The size check, made without the mutex; a full schedule refuses the job.
SendCheck(c, h) ==
  /\ cpc[c] = "idle"
  /\ Callable(h)
  /\ sent[c] < MaxSend
  /\ sent' = [sent EXCEPT ![c] = @ + 1]
  /\ ch' = [ch EXCEPT ![c] = h]
  /\ cpc' = [cpc EXCEPT ![c] = IF HasRoom(h) THEN "checked" ELSE "idle"]
  /\ UNCHANGED <<schVars, queVars, thrVars, cnt, scan, fate, fault>>

\* Mutant: the free list is not tested for NULL.
HasFreeJobUntested(t) == freejobs[t] >= 0
HasFreeJob(t) == freejobs[t] > 0

\* _zcrt_s_job_new: a node from the free list, else from the heap.
JobNew(c) ==
  LET t == hthr[ch[c]] IN
  /\ cpc[c] = "checked"
  /\ ~Freed(ch[c])
  /\ ~lock[t]
  /\ cpc' = [cpc EXCEPT ![c] = "made"]
  /\ IF HasFreeJob(t)
       THEN freejobs' = [freejobs EXCEPT ![t] = @ - 1] /\ UNCHANGED nodes
       ELSE nodes' = [nodes EXCEPT ![t] = @ + 1] /\ UNCHANGED freejobs
  /\ UNCHANGED <<schVars, que, tail, thrVars, ch, sent, cnt, scan, fate, fault>>

\* The heap has no node to give: EZCRTErr_noMem.
JobNoMem(c) ==
  LET t == hthr[ch[c]] IN
  /\ cpc[c] = "checked"
  /\ ~Freed(ch[c])
  /\ ~lock[t]
  /\ ~HasFreeJob(t)
  /\ cpc' = [cpc EXCEPT ![c] = "idle"]
  /\ UNCHANGED <<schVars, queVars, thrVars, ch, sent, cnt, scan, fate, fault>>

\* The two ZCRT_ASSERTs of _zcrt_s_insert_job.
TailAgrees(t, p) == (que[t][p] = <<>>) <=> (tail[t][p] = NoJob)

\* Mutant: the job goes before those that wait.
LinkFirst(s, j) == <<j>> \o s
\* The job goes behind the last of the list.
LinkLast(s, j) == Append(s, j)

\* _zcrt_s_insert_job up to the unlock.
InsertJob(c) ==
  LET h == ch[c]
      t == hthr[h]
      p == hpri[h]
      j == JobOf(c) IN
  /\ cpc[c] = "made"
  /\ ~Freed(h)
  /\ ~lock[t]
  /\ TailAgrees(t, p)
  /\ que' = [que EXCEPT ![t][p] = LinkLast(@, j)]
  /\ tail' = [tail EXCEPT ![t][p] = j]
  /\ cursize' = [cursize EXCEPT ![h] = @ + 1]
  /\ cpc' = [cpc EXCEPT ![c] = "give"]
  /\ fate' = [fate EXCEPT ![j] = "queued"]
  /\ UNCHANGED <<hst, hthr, hpri, htype, hmax, freejobs, nodes, thrVars, ch, sent, cnt, scan, fault>>

\* An assertion of _zcrt_s_insert_job stops the program.
InsertAssert(c) ==
  LET h == ch[c] IN
  /\ cpc[c] = "made"
  /\ ~Freed(h)
  /\ ~lock[hthr[h]]
  /\ ~TailAgrees(hthr[h], hpri[h])
  /\ fault' = "assert"
  /\ UNCHANGED <<schVars, queVars, thrVars, cliVars, fate>>

\* zcrt_sem_give after the insertion; sendjob returns 0.
SemGive(c) ==
  LET t == hthr[ch[c]] IN
  /\ cpc[c] = "give"
  /\ wpc[t] # "freed"
  /\ sem' = [sem EXCEPT ![t] = IF @ < SemMax THEN @ + 1 ELSE @]
  /\ cpc' = [cpc EXCEPT ![c] = "idle"]
  /\ UNCHANGED <<schVars, queVars, run, refCnt, lock, wpc, cur, ch, sent, cnt, scan, fate, fault>>

-----------------------------------------------------------------------------
(* A job leaves its list.                                                  *)

\* Mutant: the tail pointer is left on the job.
TailKept(v, j) == v
\* The tail pointer v once job j is off the list: cleared if it was j.
TailLess(v, j) == IF v = j THEN NoJob ELSE v

\* Mutant: cursize is not lowered.
JobDeleteUncounted(t, h) == freejobs' = [freejobs EXCEPT ![t] = @ + 1] /\ UNCHANGED cursize
\* _zcrt_s_job_delete_has_mutex for a job of schedule h.
JobDelete(t, h) ==
  /\ freejobs' = [freejobs EXCEPT ![t] = @ + 1]
  /\ cursize' = [cursize EXCEPT ![h] = @ - 1]

-----------------------------------------------------------------------------
(* Deleting a schedule: zcrt_schedule_delete.                              *)

\* _zcrt_s_thr_remove_sch takes the mutex.
DeleteLock(c, h) ==
  LET t == hthr[h] IN
  /\ cpc[c] = "idle"
  /\ hst[h] = "live"
  /\ Quiesce => Sending(h) = {}
  /\ wpc[t] # "freed"
  /\ ~lock[t]
  /\ hst' = [hst EXCEPT ![h] = "closing"]
  /\ lock' = [lock EXCEPT ![t] = TRUE]
  /\ ch' = [ch EXCEPT ![c] = h]
  /\ cpc' = [cpc EXCEPT ![c] = "purge"]
  /\ scan' = [scan EXCEPT ![c] = 1]
  /\ UNCHANGED <<hthr, hpri, htype, hmax, cursize, queVars, sem, run, refCnt,
                 wpc, cur, sent, cnt, fate, fault>>

\* The loop of _zcrt_s_thr_remove_sch goes on while h still has jobs.
Purging(c) ==
  /\ cpc[c] = "purge"
  /\ wpc[hthr[ch[c]]] # "freed"
  /\ cursize[ch[c]] > 0
  /\ scan[c] <= Len(que[hthr[ch[c]]][hpri[ch[c]]])

\* Mutant: the job stays linked.
RemoveAtKeeps(s, i) == s
RemoveAt(s, i) == SubSeq(s, 1, i - 1) \o SubSeq(s, i + 1, Len(s))

\* The job under the cursor is one of h: unlinked and put on the free list,
\* and the tail pointer is cleared if it pointed at it.
PurgeJob(c) ==
  LET h == ch[c]
      t == hthr[h]
      p == hpri[h]
      j == que[t][p][scan[c]] IN
  /\ Purging(c)
  /\ j.sch = h
  /\ que' = [que EXCEPT ![t][p] = RemoveAt(@, scan[c])]
  /\ tail' = [tail EXCEPT ![t][p] = TailLess(@, j)]
  /\ JobDelete(t, h)
  /\ fate' = [fate EXCEPT ![j] = "dropped"]
  /\ UNCHANGED <<hst, hthr, hpri, htype, hmax, nodes, thrVars, cliVars, fault>>

\* The job under the cursor belongs to another schedule.
PurgeSkip(c) ==
  LET h == ch[c] IN
  /\ Purging(c)
  /\ que[hthr[h]][hpri[h]][scan[c]].sch # h
  /\ scan' = [scan EXCEPT ![c] = @ + 1]
  /\ UNCHANGED <<schVars, queVars, thrVars, cpc, ch, sent, cnt, fate, fault>>

\* The mutex is released, then the reference is given back.
PurgeDone(c) ==
  /\ cpc[c] = "purge"
  /\ wpc[hthr[ch[c]]] # "freed"
  /\ ~Purging(c)
  /\ lock' = [lock EXCEPT ![hthr[ch[c]]] = FALSE]
  /\ cpc' = [cpc EXCEPT ![c] = "purged"]
  /\ scan' = [scan EXCEPT ![c] = 1]
  /\ UNCHANGED <<schVars, queVars, sem, run, refCnt, wpc, cur, ch, sent, cnt, fate, fault>>

\* zcrt_atom_dec(&thr->refCnt); the kernel port reads the result afterwards.
DeleteDec(c) ==
  LET t == hthr[ch[c]] IN
  /\ cpc[c] = "purged"
  /\ wpc[t] # "freed"
  /\ refCnt' = [refCnt EXCEPT ![t] = Dec(@)]
  /\ cnt' = [cnt EXCEPT ![c] = Dec(refCnt[t])]
  /\ cpc' = [cpc EXCEPT ![c] = "dec"]
  /\ UNCHANGED <<schVars, queVars, sem, run, lock, wpc, cur, ch, sent, scan, fate, fault>>

DecResult(c) == IF Atomics = "kernel" THEN refCnt[hthr[ch[c]]] ELSE cnt[c]
\* Mutant: the count is not looked at.
StopsUncounted(c) == htype[ch[c]] = "selfThread"
Stops(c) == htype[ch[c]] = "selfThread" /\ DecResult(c) = 0

\* The owner of a private thread that sees zero stops it; the schedule is freed.
DeleteFree(c) ==
  LET h == ch[c]
      t == hthr[h]
      stops == Stops(c) IN
  /\ cpc[c] = "dec"
  /\ (stops \/ Atomics = "kernel") => wpc[t] # "freed"
  /\ run' = [run EXCEPT ![t] = @ /\ ~stops]
  /\ hst' = [hst EXCEPT ![h] = "deleted"]
  /\ cpc' = [cpc EXCEPT ![c] = "idle"]
  /\ cnt' = [cnt EXCEPT ![c] = 0]
  /\ UNCHANGED <<hthr, hpri, htype, hmax, cursize, queVars, sem, refCnt, lock,
                 wpc, cur, ch, sent, scan, fate, fault>>

-----------------------------------------------------------------------------
(* The schedule thread: _zcrt_schedule_thread_proc.                        *)

\* Mutant: thr->run is not tested.
WorkerTopForever(t) ==
  /\ wpc[t] = "top"
  /\ wpc' = [wpc EXCEPT ![t] = "wait"]
  /\ UNCHANGED <<schVars, queVars, sem, run, refCnt, lock, cur, cliVars, fate, fault>>

\* The loop condition.
WorkerTop(t) ==
  /\ wpc[t] = "top"
  /\ wpc' = [wpc EXCEPT ![t] = IF run[t] THEN "wait" ELSE "exit"]
  /\ UNCHANGED <<schVars, queVars, sem, run, refCnt, lock, cur, cliVars, fate, fault>>

\* zcrt_sem_take(thr->sem, 100) takes the semaphore ...
WorkerWake(t) ==
  /\ wpc[t] = "wait"
  /\ sem[t] > 0
  /\ sem' = [sem EXCEPT ![t] = @ - 1]
  /\ wpc' = [wpc EXCEPT ![t] = "drain"]
  /\ UNCHANGED <<schVars, queVars, run, refCnt, lock, cur, cliVars, fate, fault>>

\* ... or fails: it times out, or (Linux port) the uninitialized tv_nsec makes
\* sem_timedwait refuse the call whatever the count.
WorkerTimeout(t) ==
  /\ wpc[t] = "wait"
  /\ wpc' = [wpc EXCEPT ![t] = "drain"]
  /\ UNCHANGED <<schVars, queVars, sem, run, refCnt, lock, cur, cliVars, fate, fault>>

\* Mutant: the loop starts at 1.
UrgentFromOne(t, p) == p > 0 /\ que[t][p] # <<>> /\ \A q \in 1 .. p - 1 : que[t][q] = <<>>
\* The loop over the priorities stops at the first list with a job.
Urgent(t, p) == que[t][p] # <<>> /\ \A q \in Pri : q < p => que[t][q] = <<>>

\* _zcrt_s_thr_getjob, the copy of fn and args, _zcrt_s_job_delete_has_mutex.
WorkerGet(t, p) ==
  LET j == Head(que[t][p]) IN
  /\ wpc[t] = "drain"
  /\ ~lock[t]
  /\ Urgent(t, p)
  /\ hst[j.sch] # "deleted"
  /\ que' = [que EXCEPT ![t][p] = Tail(@)]
  /\ tail' = [tail EXCEPT ![t][p] = TailLess(@, j)]
  /\ JobDelete(t, j.sch)
  /\ cur' = [cur EXCEPT ![t] = j]
  /\ wpc' = [wpc EXCEPT ![t] = "call"]
  /\ fate' = [fate EXCEPT ![j] = "started"]
  /\ UNCHANGED <<hst, hthr, hpri, htype, hmax, nodes, sem, run, refCnt, lock, cliVars, fault>>

\* The callback returns.
WorkerCall(t) ==
  /\ wpc[t] = "call"
  /\ wpc' = [wpc EXCEPT ![t] = "drain"]
  /\ cur' = [cur EXCEPT ![t] = NoJob]
  /\ fate' = [fate EXCEPT ![cur[t]] = "done"]
  /\ UNCHANGED <<schVars, queVars, sem, run, refCnt, lock, cliVars, fault>>

\* Mutant: the thread takes at most one job per wakeup.
DrainedAnyway(t) == TRUE
Drained(t) == \A p \in Pri : que[t][p] = <<>>

\* No job left: back to the loop condition.
WorkerDrained(t) ==
  /\ wpc[t] = "drain"
  /\ ~lock[t]
  /\ Drained(t)
  /\ wpc' = [wpc EXCEPT ![t] = "top"]
  /\ UNCHANGED <<schVars, queVars, sem, run, refCnt, lock, cur, cliVars, fate, fault>>

\* Semaphore, mutex, free nodes, queued jobs and the thread object are freed.
WorkerExit(t) ==
  /\ wpc[t] = "exit"
  /\ wpc' = [wpc EXCEPT ![t] = "freed"]
  /\ que' = [que EXCEPT ![t] = [p \in Pri |-> <<>>]]
  /\ tail' = [tail EXCEPT ![t] = [p \in Pri |-> NoJob]]
  /\ freejobs' = [freejobs EXCEPT ![t] = 0]
  /\ nodes' = [nodes EXCEPT ![t] = 0]
  /\ fate' = [j \in Jobs |->
                IF \E p \in Pri : \E i \in DOMAIN que[t][p] : que[t][p][i] = j
                  THEN "lost" ELSE fate[j]]
  /\ UNCHANGED <<schVars, sem, run, refCnt, lock, cur, cliVars, fault>>

-----------------------------------------------------------------------------
(* Freed memory is touched: what the program does from here is undefined.  *)

\* By a client in the middle of a call.
ClientUsesFreed(c) ==
  /\ \/ cpc[c] \in {"checked", "made"} /\ Freed(ch[c])
     \/ cpc[c] \in {"give", "purge", "purged"} /\ wpc[hthr[ch[c]]] = "freed"
     \/ cpc[c] = "dec" /\ (Stops(c) \/ Atomics = "kernel") /\ wpc[hthr[ch[c]]] = "freed"
  /\ fault' = "freed"
  /\ UNCHANGED <<schVars, queVars, thrVars, cliVars, fate>>

\* By a client that deletes or shares a schedule whose thread is gone.
DeleteUsesFreed(h) ==
  /\ hst[h] = "live"
  /\ wpc[hthr[h]] = "freed"
  /\ fault' = "freed"
  /\ UNCHANGED <<schVars, queVars, thrVars, cliVars, fate>>

\* By a thread that takes a job of a schedule deleted since.
WorkerUsesFreed(t, p) ==
  /\ wpc[t] = "drain"
  /\ ~lock[t]
  /\ Urgent(t, p)
  /\ hst[Head(que[t][p]).sch] = "deleted"
  /\ fault' = "freed"
  /\ UNCHANGED <<schVars, queVars, thrVars, cliVars, fate>>

-----------------------------------------------------------------------------
Send(c) == JobNew(c) \/ JobNoMem(c) \/ InsertJob(c) \/ InsertAssert(c) \/ SemGive(c)
Delete(c) == PurgeJob(c) \/ PurgeSkip(c) \/ PurgeDone(c) \/ DeleteDec(c) \/ DeleteFree(c)
Worker(t) ==
  \/ WorkerTop(t)
  \/ WorkerWake(t)
  \/ WorkerTimeout(t)
  \/ \E p \in Pri : WorkerGet(t, p)
  \/ WorkerCall(t)
  \/ WorkerDrained(t)
  \/ WorkerExit(t)

Next ==
  /\ fault = "none"
  /\ \/ \E k \in Calls : Create(k)
     \/ \E k \in Calls : CreateShare(k)
     \/ \E c \in Clients, h \in Handles : SendCheck(c, h)
     \/ \E c \in Clients : Send(c)
     \/ \E c \in Clients, h \in Handles : DeleteLock(c, h)
     \/ \E c \in Clients : Delete(c)
     \/ \E t \in Threads : Worker(t)
     \/ \E c \in Clients : ClientUsesFreed(c)
     \/ \E h \in Handles : DeleteUsesFreed(h)
     \/ \E t \in Threads, p \in Pri : WorkerUsesFreed(t, p)

Spec == Init /\ [][Next]_vars

\* The operating system runs every thread that can run, callbacks return, and
\* a client that holds the mutex of a thread goes on.  No client has to call.
FairSpec ==
  /\ Spec
  /\ \A t \in Threads : WF_vars(fault = "none" /\ Worker(t))
  /\ \A c \in Clients : WF_vars(fault = "none" /\ Delete(c))

-----------------------------------------------------------------------------
(* Properties.                                                             *)

Pcs == {"idle", "checked", "made", "give", "purge", "purged", "dec"}
WorkerPcs == {"none", "top", "wait", "drain", "call", "exit", "freed"}
Fates == {"none", "queued", "started", "done", "dropped", "lost"}

\* The type of every variable (structs of zschedule.c).
TypeOK ==
  /\ hst \in [Handles -> {"unused", "live", "closing", "deleted"}]
  /\ hthr \in [Handles -> Threads]
  /\ hpri \in [Handles -> Pri]
  /\ htype \in [Handles -> SchTypes]
  /\ hmax \in [Handles -> Nat]
  /\ cursize \in [Handles -> Int]
  /\ que \in [Threads -> [Pri -> Seq(Jobs)]]
  /\ tail \in [Threads -> [Pri -> Jobs \cup {NoJob}]]
  /\ freejobs \in [Threads -> Nat]
  /\ nodes \in [Threads -> Nat]
  /\ sem \in [Threads -> 0 .. SemMax]
  /\ run \in [Threads -> BOOLEAN]
  /\ refCnt \in [Threads -> Int]
  /\ lock \in [Threads -> BOOLEAN]
  /\ wpc \in [Threads -> WorkerPcs]
  /\ cur \in [Threads -> Jobs \cup {NoJob}]
  /\ cpc \in [Clients -> Pcs]
  /\ ch \in [Clients -> Handles]
  /\ sent \in [Clients -> 0 .. MaxSend]
  /\ \A c \in Clients : cpc[c] \in SenderPcs => sent[c] > 0
  /\ cnt \in [Clients -> Int]
  /\ scan \in [Clients -> Nat \ {0}]
  /\ fate \in [Jobs -> Fates]
  /\ fault \in {"none", "assert", "freed"}

\* What ties clients, schedules and threads together: a call is on a created
\* schedule, a created schedule is on a created thread, and what is not created
\* yet is empty.
Linked ==
  /\ \A c \in Clients : cpc[c] # "idle" => hst[ch[c]] # "unused"
  /\ \A h \in Handles : hst[h] # "unused" => wpc[hthr[h]] # "none"
  /\ \A h \in Handles : hst[h] = "unused" => wpc[h] = "none" /\ cursize[h] <= 0
  /\ \A t \in Threads : wpc[t] = "none" => \A p \in Pri : que[t][p] = <<>>
  /\ wpc[ZThr] # "none"

\* The size check of sendjob (line 451) is made without the mutex, so a
\* schedule can hold more than maxsize jobs: never by more than the other
\* clients that may have passed the check with it.
OvershootBound ==
  \A h \in Handles :
    cursize[h] + Cardinality(InFlight(h)) <= hmax[h] + Cardinality(Clients) - 1

\* A job in a list of a thread that waits, or is about to, is announced: the
\* semaphore is up, or its sender is still on the way to zcrt_sem_give.  So no
\* job ever waits for the 100 tick timeout.
NoLostWakeup ==
  \A t \in Threads :
    wpc[t] \in {"top", "wait"} /\ (\E p \in Pri : que[t][p] # <<>>) =>
      \/ sem[t] > 0
      \/ \E c \in Clients : cpc[c] = "give" /\ hthr[ch[c]] = t

QueuedOf(h) == {i \in DOMAIN que[hthr[h]][hpri[h]] : que[hthr[h]][hpri[h]][i].sch = h}

\* cursize, raised by senders and lowered by the thread and by the purge, is
\* the number of jobs of the schedule in the list, whoever runs when; the
\* purge loop ends by it.
CursizeExact ==
  \A h \in Handles : hst[h] \in {"live", "closing"} /\ wpc[hthr[h]] # "freed" =>
    cursize[h] = Cardinality(QueuedOf(h))

\* The tail pointer that _zcrt_s_insert_job asserts on (lines 344 and 350) is
\* NULL exactly when the list is empty, else it is the last job.
TailOK ==
  \A t \in Threads, p \in Pri : wpc[t] # "freed" =>
    tail[t][p] = IF que[t][p] = <<>> THEN NoJob ELSE que[t][p][Len(que[t][p])]

\* Every job node a thread ever allocated is in one place: on the free list,
\* in a list of jobs, or with a client between job_new and the insertion.
\* None leaks and none is in two places, also across the purge.
NodesConserved ==
  \A t \in Threads : wpc[t] # "freed" =>
    nodes[t] = freejobs[t]
               + Cardinality(UNION {{p} \X DOMAIN que[t][p] : p \in Pri})
               + Cardinality({c \in Clients : cpc[c] = "made" /\ hthr[ch[c]] = t})

\* The books of the lists, kept by senders, the thread and the purge in turn.
JobAccounting == CursizeExact /\ NodesConserved

\* The schedules that hold a reference on thread t: not yet past the
\* zcrt_atom_dec of their deletion.
RefHolders(t) ==
  {h \in Handles : /\ hst[h] \in {"live", "closing"}
                   /\ hthr[h] = t
                   /\ \A c \in Clients : ~(cpc[c] = "dec" /\ ch[c] = h)}

\* refCnt is the number of schedules that reference the thread (the comment
\* on the field, line 76), whatever creations and deletions are under way.
RefCntExact ==
  \A t \in Threads : wpc[t] # "freed" => refCnt[t] = Cardinality(RefHolders(t))

\* A schedule never outlives the thread that serves it: a private thread is
\* stopped (delete, line 437) only when no other schedule is left on it.
ThreadServesLive ==
  \A h \in Handles : hst[h] = "live" => run[hthr[h]] /\ wpc[hthr[h]] \notin {"exit", "freed"}

\* The assertions of _zcrt_s_insert_job (lines 344 and 350) never fail.
NoAssertFails == fault # "assert"

\* No assertion fails and no freed schedule or thread is touched.
NoFault == fault = "none"

\* A job that sendjob accepted is run, or dropped by the deletion of its own
\* schedule; it is never freed unrun with the thread.
NoJobLost == \A j \in Jobs : fate[j] # "lost"

\* Whoever deletes what while jobs are sent and run: nothing freed is touched, every
\* accepted job is served by a living thread, and none is lost (zcrt_schedule_delete,
\* zcrt_schedule_sendjob, _zcrt_schedule_thread_proc).
JobsServed == NoFault /\ NoJobLost /\ ThreadServesLive

\* A job is never overtaken by a job its own client sent later to the same
\* thread at the same or a less urgent priority.
RunInOrder ==
  \A i, j \in Jobs :
    /\ i.by = j.by /\ i.n < j.n
    /\ hthr[i.sch] = hthr[j.sch]
    /\ hpri[i.sch] <= hpri[j.sch]
    /\ fate[j] \in {"started", "done"}
    => fate[i] # "queued"

\* A job that was run or dropped is never run, queued or dropped again.
RunAtMostOnce ==
  [][\A j \in Jobs :
       /\ fate[j] \in {"done", "dropped", "lost"} => fate'[j] = fate[j]
       /\ fate[j] = "started" => fate'[j] \in {"started", "done"}]_vars

\* The priorities of the schedules on j's thread are no more urgent than j's.
MostUrgent(h) ==
  \A g \in Handles : hst[g] # "unused" /\ hthr[g] = hthr[h] => hpri[g] >= hpri[h]

\* An accepted job that no more urgent schedule can starve leaves the queue:
\* its callback is run or its schedule is deleted.
AcceptedJobsRun ==
  \A j \in Jobs : fate[j] = "queued" ~> (fate[j] # "queued" \/ ~MostUrgent(j.sch))

\* A private thread told to stop drains its lists and frees itself.
StoppedThreadEnds ==
  \A t \in Threads : (wpc[t] # "none" /\ ~run[t]) ~> wpc[t] = "freed"
=============================================================================
