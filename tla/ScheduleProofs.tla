--------------------------- MODULE ScheduleProofs ---------------------------
(***************************************************************************)
(* Theorems about Schedule, for any number of clients, schedules,          *)
(* priorities, jobs and sizes, any port's atomics and any semaphore.  In   *)
(* three parts: types, wakeups and sizes; where a job can be and what the  *)
(* books say of it; deleting schedules while jobs are sent and run.        *)
(***************************************************************************)
EXTENDS Schedule, FiniteSetTheorems, SequenceTheorems, TLAPS

\* The fields of a create call have their types (the parameters of
\* zcrt_schedule_create and create_share).
LEMMA CallType ==
  ASSUME NEW k \in Calls
  PROVE  /\ k.h \in Handles
         /\ k.pri \in Pri
         /\ k.max \in Nat
         /\ k.op = "create" => k.type \in {"zcrtThread", "selfThread"}
         /\ k.op = "share" => k.of \in Handles
  BY ScheduleAssumption DEF CallRecords

\* Taking a job out of a list leaves a list of jobs (the unlinking in
\* _zcrt_s_thr_remove_sch).
LEMMA RemoveAtType ==
  ASSUME NEW S, NEW s \in Seq(S), NEW i \in 1 .. Len(s)
  PROVE  /\ RemoveAt(s, i) \in Seq(S)
         /\ s # <<>>
  BY DEF RemoveAt

\* A module that has just been initialised is typed.
LEMMA InitType == Init => TypeOK
  BY ScheduleAssumption DEF Init, TypeOK, Threads, Pri, Pcs, WorkerPcs, Fates, SchTypes, SenderPcs, Jobs

\* Filling in a new schedule and counting it keeps the types.
LEMMA AddType ==
  ASSUME TypeOK, NEW h \in Handles, NEW t \in Threads, NEW type \in SchTypes,
         NEW p \in Pri, NEW m \in Nat, AddSchedule(h, t, type, p, m),
         run' \in [Threads -> BOOLEAN], wpc' \in [Threads -> WorkerPcs]
  PROVE  TypeOK'
<1>1. refCnt' \in [Threads -> Int]
  BY DEF TypeOK, AddSchedule, Inc
<1>2. /\ hst' \in [Handles -> {"unused", "live", "closing", "deleted"}]
      /\ hthr' \in [Handles -> Threads]
      /\ hpri' \in [Handles -> Pri]
      /\ htype' \in [Handles -> SchTypes]
      /\ hmax' \in [Handles -> Nat]
  BY DEF TypeOK, AddSchedule
<1> QED BY <1>1, <1>2 DEF TypeOK, AddSchedule, queVars, cliVars

\* Both create calls keep the types.
LEMMA CreateType ==
  ASSUME TypeOK, NEW k \in Calls, Create(k) \/ CreateShare(k)
  PROVE  TypeOK'
<1>1. CASE Create(k)
  <2> DEFINE t == IF k.type = "selfThread" THEN k.h ELSE ZThr
  <2>1. t \in Threads /\ k.type \in SchTypes
    BY <1>1, CallType DEF Create, Threads, SchTypes
  <2>2. run' \in [Threads -> BOOLEAN] /\ wpc' \in [Threads -> WorkerPcs]
    BY <1>1, <2>1 DEF Create, TypeOK, WorkerPcs
  <2>3. AddSchedule(k.h, t, k.type, k.pri, k.max)
    BY <1>1 DEF Create
  <2> QED BY <2>1, <2>2, <2>3, CallType, AddType
<1>2. CASE CreateShare(k)
  <2> DEFINE self == htype[k.of] = "selfThread"
             t == IF self THEN hthr[k.of] ELSE ZThr
             type == IF self THEN "shareThread" ELSE "zcrtThread"
  <2>1. t \in Threads /\ type \in SchTypes
    BY <1>2, CallType DEF CreateShare, Threads, SchTypes, TypeOK
  <2>2. run' \in [Threads -> BOOLEAN] /\ wpc' \in [Threads -> WorkerPcs]
    BY <1>2 DEF CreateShare, TypeOK
  <2>3. AddSchedule(k.h, t, type, k.pri, k.max)
    BY <1>2 DEF CreateShare
  <2> QED BY <2>1, <2>2, <2>3, CallType, AddType
<1> QED BY <1>1, <1>2

\* A client inside sendjob carries a job node.
LEMMA JobOfType ==
  ASSUME TypeOK, NEW c \in Clients, cpc[c] \in SenderPcs
  PROVE  JobOf(c) \in Jobs
  BY ScheduleAssumption DEF TypeOK, JobOf, Jobs

\* The thread and the priority of the schedule a client works on.
LEMMA TargetType ==
  ASSUME TypeOK, NEW c \in Clients
  PROVE  /\ ch[c] \in Handles
         /\ hthr[ch[c]] \in Threads
         /\ hpri[ch[c]] \in Pri
  BY DEF TypeOK

\* The steps of sendjob behind the size check keep the types.
LEMMA SendType ==
  ASSUME TypeOK, NEW c \in Clients, Send(c)
  PROVE  TypeOK'
<1>0. /\ ch[c] \in Handles
      /\ hthr[ch[c]] \in Threads
      /\ hpri[ch[c]] \in Pri
  BY TargetType
<1> USE <1>0 DEF TypeOK
<1>1. CASE JobNew(c)
  <2>1. freejobs \in [Threads -> Nat] /\ nodes \in [Threads -> Nat]
    OBVIOUS
  <2>2. freejobs' \in [Threads -> Nat]
    <3> HIDE DEF TypeOK
    <3> QED BY <1>1, <2>1 DEF JobNew, HasFreeJob
  <2>3. nodes' \in [Threads -> Nat]
    <3> HIDE DEF TypeOK
    <3> QED BY <1>1, <2>1 DEF JobNew
  <2> QED BY <1>1, <2>2, <2>3 DEF JobNew, Pcs, SenderPcs, schVars, queVars, thrVars, cliVars
<1>2. CASE JobNoMem(c)
  BY <1>2 DEF JobNoMem, Pcs, SenderPcs, schVars, queVars, thrVars, cliVars
<1>3. CASE InsertJob(c)
  <2> DEFINE h == ch[c]
             t == hthr[h]
             p == hpri[h]
             j == JobOf(c)
  <2>1. j \in Jobs
    BY <1>3, JobOfType DEF InsertJob, LinkLast, SenderPcs
  <2>2. que' \in [Threads -> [Pri -> Seq(Jobs)]]
    BY <1>3, <2>1 DEF InsertJob, LinkLast
  <2>3. tail' \in [Threads -> [Pri -> Jobs \cup {NoJob}]]
    BY <1>3, <2>1 DEF InsertJob, LinkLast
  <2>4. /\ cursize' \in [Handles -> Int]
        /\ fate' \in [Jobs -> Fates]
    BY <1>3, <2>1 DEF InsertJob, LinkLast, Fates
  <2> QED BY <1>3, <2>2, <2>3, <2>4 DEF InsertJob, LinkLast, Pcs, SenderPcs, schVars, queVars, thrVars, cliVars
<1>4. CASE InsertAssert(c)
  BY <1>4 DEF InsertAssert, Pcs, SenderPcs, schVars, queVars, thrVars, cliVars
<1>5. CASE SemGive(c)
  <2>1. sem \in [Threads -> 0 .. SemMax]
    OBVIOUS
  <2>2. sem' \in [Threads -> 0 .. SemMax]
    <3> HIDE DEF TypeOK
    <3> QED BY <1>5, <2>1, ScheduleAssumption DEF SemGive
  <2> QED BY <1>5, <2>2 DEF SemGive, Pcs, SenderPcs, schVars, queVars, thrVars, cliVars
<1> QED BY <1>1, <1>2, <1>3, <1>4, <1>5 DEF Send

\* The size check of sendjob keeps the types.
LEMMA SendCheckType ==
  ASSUME TypeOK, NEW c \in Clients, NEW h \in Handles, SendCheck(c, h)
  PROVE  TypeOK'
<1>1. sent \in [Clients -> 0 .. MaxSend]
  BY DEF TypeOK
<1>2. sent' \in [Clients -> 0 .. MaxSend] /\ sent'[c] > 0
  BY <1>1, ScheduleAssumption DEF SendCheck
<1>3. cpc' \in [Clients -> Pcs] /\ ch' \in [Clients -> Handles]
  <2>1. cpc \in [Clients -> Pcs] /\ ch \in [Clients -> Handles]
    BY DEF TypeOK
  <2>2. cpc' = [cpc EXCEPT ![c] = IF HasRoom(h) THEN "checked" ELSE "idle"] /\ ch' = [ch EXCEPT ![c] = h]
    BY DEF SendCheck
  <2> QED BY <2>1, <2>2 DEF Pcs
<1>4. ASSUME NEW d \in Clients, cpc'[d] \in SenderPcs
      PROVE  sent'[d] > 0
  BY <1>2, <1>4 DEF SendCheck, TypeOK
<1> QED BY <1>2, <1>3, <1>4 DEF SendCheck, TypeOK, schVars, queVars, thrVars

\* The steps of zcrt_schedule_delete behind the lock keep the types.
LEMMA DeleteType ==
  ASSUME TypeOK, NEW c \in Clients, Delete(c)
  PROVE  TypeOK'
<1>0. /\ ch[c] \in Handles
      /\ hthr[ch[c]] \in Threads
      /\ hpri[ch[c]] \in Pri
  BY TargetType
<1> USE <1>0 DEF TypeOK
<1> DEFINE h == ch[c]
           t == hthr[h]
           p == hpri[h]
           j == que[t][p][scan[c]]
<1>1. CASE PurgeJob(c)
  <2>0. /\ que \in [Threads -> [Pri -> Seq(Jobs)]] /\ tail \in [Threads -> [Pri -> Jobs \cup {NoJob}]]
        /\ scan[c] \in Nat \ {0}
    OBVIOUS
  <2>1. que[t][p] \in Seq(Jobs) /\ scan[c] \in 1 .. Len(que[t][p])
    <3> HIDE DEF TypeOK
    <3>1. que[t][p] \in Seq(Jobs)
      BY <1>0, <2>0
    <3>2. scan[c] <= Len(que[t][p])
      BY <1>1 DEF PurgeJob, Purging
    <3> QED BY <2>0, <3>1, <3>2
  <2>2. j \in Jobs /\ RemoveAt(que[t][p], scan[c]) \in Seq(Jobs)
    <3> HIDE DEF TypeOK
    <3> QED BY <2>1, RemoveAtType
  <2>3. que' \in [Threads -> [Pri -> Seq(Jobs)]]
    <3> HIDE DEF TypeOK
    <3>1. que' = [que EXCEPT ![t][p] = RemoveAt(que[t][p], scan[c])]
      BY <1>1 DEF PurgeJob
    <3> QED BY <1>0, <2>0, <2>2, <3>1
  <2>4. tail' \in [Threads -> [Pri -> Jobs \cup {NoJob}]]
    <3> HIDE DEF TypeOK
    <3>1. tail' = [tail EXCEPT ![t][p] = TailLess(tail[t][p], j)]
      BY <1>1 DEF PurgeJob
    <3>2. TailLess(tail[t][p], j) \in Jobs \cup {NoJob}
      BY <1>0, <2>0 DEF TailLess
    <3> QED BY <1>0, <2>0, <3>1, <3>2
  <2>5. freejobs' \in [Threads -> Nat] /\ cursize' \in [Handles -> Int]
    BY <1>1 DEF PurgeJob, JobDelete
  <2>6. fate' \in [Jobs -> Fates]
    BY <1>1, <2>2 DEF PurgeJob, Fates
  <2> QED BY <1>1, <2>3, <2>4, <2>5, <2>6 DEF PurgeJob, Pcs, SenderPcs, schVars, queVars, thrVars, cliVars
<1>2. CASE PurgeSkip(c)
  <2>1. scan' \in [Clients -> Nat \ {0}]
    <3>1. scan \in [Clients -> Nat \ {0}]
      OBVIOUS
    <3>2. scan' = [scan EXCEPT ![c] = scan[c] + 1]
      BY <1>2 DEF PurgeSkip
    <3> HIDE DEF TypeOK
    <3> QED BY <3>1, <3>2
  <2>2. UNCHANGED <<schVars, queVars, thrVars, cpc, ch, sent, cnt, fate, fault>>
    BY <1>2 DEF PurgeSkip
  <2> QED BY <2>1, <2>2 DEF schVars, queVars, thrVars
<1>3. CASE PurgeDone(c)
  <2>1. lock' \in [Threads -> BOOLEAN] /\ scan' \in [Clients -> Nat \ {0}]
    <3>1. lock \in [Threads -> BOOLEAN] /\ scan \in [Clients -> Nat \ {0}]
      OBVIOUS
    <3>2. lock' = [lock EXCEPT ![t] = FALSE] /\ scan' = [scan EXCEPT ![c] = 1]
      BY <1>3 DEF PurgeDone
    <3> HIDE DEF TypeOK
    <3> QED BY <3>1, <3>2
  <2>2. cpc' \in [Clients -> Pcs] /\ \A d \in Clients : cpc'[d] \in SenderPcs => cpc[d] \in SenderPcs
    <3>1. cpc \in [Clients -> Pcs]
      OBVIOUS
    <3>2. cpc' = [cpc EXCEPT ![c] = "purged"]
      BY <1>3 DEF PurgeDone
    <3> HIDE DEF TypeOK
    <3> QED BY <3>1, <3>2 DEF Pcs, SenderPcs
  <2>3. UNCHANGED <<schVars, queVars, sem, run, refCnt, wpc, cur, ch, sent, cnt, fate, fault>>
    BY <1>3 DEF PurgeDone
  <2> QED BY <2>1, <2>2, <2>3 DEF schVars, queVars
<1>4. CASE DeleteDec(c)
  <2>1. refCnt' \in [Threads -> Int] /\ cnt' \in [Clients -> Int]
    BY <1>4 DEF DeleteDec, Dec
  <2> QED BY <1>4, <2>1 DEF DeleteDec, Pcs, SenderPcs, schVars, queVars, thrVars, cliVars
<1>5. CASE DeleteFree(c)
  <2>1. run' \in [Threads -> BOOLEAN]
    BY <1>5 DEF DeleteFree
  <2> QED BY SMTT(20), <1>5, <2>1 DEF DeleteFree, Pcs, SenderPcs, schVars, queVars, thrVars, cliVars
<1> QED BY <1>1, <1>2, <1>3, <1>4, <1>5 DEF Delete

\* Taking the mutex in _zcrt_s_thr_remove_sch keeps the types.
LEMMA DeleteLockType ==
  ASSUME TypeOK, NEW c \in Clients, NEW h \in Handles, DeleteLock(c, h)
  PROVE  TypeOK'
<1>1. hthr[h] \in Threads
  BY DEF TypeOK
<1>2. hst' \in [Handles -> {"unused", "live", "closing", "deleted"}]
  BY DEF DeleteLock, TypeOK
<1>3. lock' \in [Threads -> BOOLEAN]
  BY <1>1 DEF DeleteLock, TypeOK
<1>4. cpc' \in [Clients -> Pcs]
  BY DEF DeleteLock, TypeOK, Pcs
<1>5. ch' \in [Clients -> Handles] /\ scan' \in [Clients -> Nat \ {0}]
  <2>1. ch \in [Clients -> Handles] /\ scan \in [Clients -> Nat \ {0}]
    BY DEF TypeOK
  <2>2. ch' = [ch EXCEPT ![c] = h] /\ scan' = [scan EXCEPT ![c] = 1]
    BY DEF DeleteLock
  <2> QED BY <2>1, <2>2
<1>6. ASSUME NEW d \in Clients, cpc'[d] \in SenderPcs
      PROVE  sent'[d] > 0
  BY <1>6 DEF DeleteLock, TypeOK, SenderPcs
<1> QED BY <1>2, <1>3, <1>4, <1>5, <1>6 DEF DeleteLock, TypeOK, queVars

\* Taking a job off a list in the thread procedure keeps the types.
LEMMA WorkerGetType ==
  ASSUME TypeOK, NEW t \in Threads, NEW p \in Pri, WorkerGet(t, p)
  PROVE  TypeOK'
<1> DEFINE j == Head(que[t][p])
<1>1. que[t][p] \in Seq(Jobs) /\ que[t][p] # <<>>
  BY DEF WorkerGet, Urgent, TypeOK
<1>2. j \in Jobs /\ Tail(que[t][p]) \in Seq(Jobs)
  BY <1>1
<1>3. j.sch \in Handles
  BY <1>2 DEF Jobs
<1>4. que' \in [Threads -> [Pri -> Seq(Jobs)]]
  BY <1>2 DEF WorkerGet, TypeOK
<1>5. tail' \in [Threads -> [Pri -> Jobs \cup {NoJob}]]
  <2>1. tail \in [Threads -> [Pri -> Jobs \cup {NoJob}]]
    BY DEF TypeOK
  <2>2. tail[t] \in [Pri -> Jobs \cup {NoJob}] /\ tail[t][p] \in Jobs \cup {NoJob}
    BY <2>1
  <2>3. \E v \in Jobs \cup {NoJob} : tail' = [tail EXCEPT ![t][p] = v]
    BY <2>2 DEF WorkerGet, TailLess
  <2> QED BY <2>1, <2>3
<1>6. freejobs' \in [Threads -> Nat]
  BY DEF WorkerGet, JobDelete, TypeOK
<1>7. cursize' \in [Handles -> Int]
  <2>1. cursize \in [Handles -> Int] /\ cursize' = [cursize EXCEPT ![j.sch] = cursize[j.sch] - 1]
    BY DEF WorkerGet, JobDelete, TypeOK
  <2>2. cursize[j.sch] - 1 \in Int
    BY <1>3, <2>1
  <2> HIDE DEF j
  <2> QED BY <2>1, <2>2
<1>8. /\ cur' \in [Threads -> Jobs \cup {NoJob}]
      /\ wpc' \in [Threads -> WorkerPcs]
  BY <1>2 DEF WorkerGet, TypeOK, WorkerPcs
<1>9. fate' \in [Jobs -> Fates]
  BY <1>2 DEF WorkerGet, TypeOK, Fates
<1> QED BY <1>4, <1>5, <1>6, <1>7, <1>8, <1>9 DEF WorkerGet, TypeOK, cliVars

\* Every step of the thread procedure keeps the types.
LEMMA WorkerType ==
  ASSUME TypeOK, NEW t \in Threads, Worker(t)
  PROVE  TypeOK'
<1> USE DEF TypeOK, WorkerPcs, schVars, queVars, thrVars, cliVars
<1>1. CASE WorkerTop(t)
  BY <1>1 DEF WorkerTop
<1>2. CASE WorkerWake(t)
  <2>1. sem \in [Threads -> 0 .. SemMax]
    OBVIOUS
  <2>2. sem' \in [Threads -> 0 .. SemMax]
    <3> HIDE DEF TypeOK
    <3> QED BY <1>2, <2>1, ScheduleAssumption DEF WorkerWake
  <2> QED BY <1>2, <2>2 DEF WorkerWake
<1>3. CASE WorkerTimeout(t)
  BY <1>3 DEF WorkerTimeout
<1>4. CASE \E p \in Pri : WorkerGet(t, p)
  BY <1>4, WorkerGetType
<1>5. CASE WorkerCall(t)
  BY <1>5 DEF WorkerCall, Fates
<1>6. CASE WorkerDrained(t)
  BY <1>6 DEF WorkerDrained, Drained
<1>7. CASE WorkerExit(t)
  <2>1. que' \in [Threads -> [Pri -> Seq(Jobs)]]
    BY <1>7 DEF WorkerExit
  <2>2. tail' \in [Threads -> [Pri -> Jobs \cup {NoJob}]]
    BY <1>7 DEF WorkerExit
  <2>3. /\ wpc' \in [Threads -> WorkerPcs]
        /\ freejobs' \in [Threads -> Nat]
        /\ nodes' \in [Threads -> Nat]
    BY <1>7 DEF WorkerExit
  <2>4. fate' \in [Jobs -> Fates]
    BY <1>7 DEF WorkerExit, Fates
  <2> QED BY <1>7, <2>1, <2>2, <2>3, <2>4 DEF WorkerExit
<1> QED BY <1>1, <1>2, <1>3, <1>4, <1>5, <1>6, <1>7 DEF Worker

\* Running into a failed assertion or freed memory keeps the types.
LEMMA FaultType ==
  ASSUME TypeOK, fault' \in {"assert", "freed"},
         UNCHANGED <<schVars, queVars, thrVars, cliVars, fate>>
  PROVE  TypeOK'
  BY DEF TypeOK, schVars, queVars, thrVars, cliVars

\* Every variable keeps its type (the structs of zschedule.c), for every
\* number of clients, schedules and priorities.
THEOREM TypeCorrect == Spec => []TypeOK
<1>1. TypeOK /\ [Next]_vars => TypeOK'
  <2> SUFFICES ASSUME TypeOK, [Next]_vars PROVE TypeOK'
    OBVIOUS
  <2>1. CASE UNCHANGED vars
    BY <2>1 DEF vars, TypeOK, schVars, queVars, thrVars, cliVars
  <2>2. ASSUME NEW k \in Calls, Create(k) \/ CreateShare(k) PROVE TypeOK'
    BY <2>2, CreateType
  <2>3. ASSUME NEW c \in Clients, NEW h \in Handles, SendCheck(c, h) PROVE TypeOK'
    BY <2>3, SendCheckType
  <2>4. ASSUME NEW c \in Clients, Send(c) PROVE TypeOK'
    BY <2>4, SendType
  <2>5. ASSUME NEW c \in Clients, NEW h \in Handles, DeleteLock(c, h) PROVE TypeOK'
    BY <2>5, DeleteLockType
  <2>6. ASSUME NEW c \in Clients, Delete(c) PROVE TypeOK'
    BY <2>6, DeleteType
  <2>7. ASSUME NEW t \in Threads, Worker(t) PROVE TypeOK'
    BY <2>7, WorkerType
  <2>8. ASSUME NEW c \in Clients, ClientUsesFreed(c) PROVE TypeOK'
    BY <2>8, FaultType DEF ClientUsesFreed
  <2>9. ASSUME NEW h \in Handles, DeleteUsesFreed(h) PROVE TypeOK'
    BY <2>9, FaultType DEF DeleteUsesFreed
  <2>10. ASSUME NEW t \in Threads, NEW p \in Pri, WorkerUsesFreed(t, p) PROVE TypeOK'
    BY <2>10, FaultType DEF WorkerUsesFreed
  <2> QED BY <2>1, <2>2, <2>3, <2>4, <2>5, <2>6, <2>7, <2>8, <2>9, <2>10 DEF Next
<1> QED BY <1>1, InitType, PTL DEF Spec

-----------------------------------------------------------------------------
(* Linked is inductive relative to TypeOK.                                 *)

\* Nothing is created at first but the common thread.
LEMMA InitLinked == Init => Linked
  BY ScheduleAssumption DEF Init, Linked, Threads

\* A created schedule is on a created thread.
LEMMA CreateLinked ==
  ASSUME TypeOK, Linked, NEW k \in Calls, Create(k) \/ CreateShare(k)
  PROVE  Linked'
<1> USE DEF Linked, AddSchedule
<1>0. k.h \in Handles /\ hst[k.h] = "unused"
  BY CallType DEF Create, CreateShare
<1>1. PICK t \in Threads :
        /\ hthr' = [hthr EXCEPT ![k.h] = t]
        /\ wpc'[t] # "none"
        /\ \A u \in Threads : wpc'[u] = wpc[u] \/ (u = k.h /\ wpc'[u] = "top")
  <2>1. CASE Create(k)
    <3> DEFINE t == IF k.type = "selfThread" THEN k.h ELSE ZThr
    <3>1. t \in Threads /\ hthr' = [hthr EXCEPT ![k.h] = t]
      BY <2>1, <1>0 DEF Create, Threads
    <3>2. wpc'[t] # "none" /\ \A u \in Threads : wpc'[u] = wpc[u] \/ (u = k.h /\ wpc'[u] = "top")
      BY <2>1, <3>1 DEF Create, TypeOK
    <3> QED BY <3>1, <3>2
  <2>2. CASE CreateShare(k)
    <3> DEFINE t == IF htype[k.of] = "selfThread" THEN hthr[k.of] ELSE ZThr
    <3>1. k.of \in Handles /\ hst[k.of] = "live"
      BY <2>2, CallType DEF CreateShare
    <3>2. t \in Threads /\ hthr' = [hthr EXCEPT ![k.h] = t] /\ wpc' = wpc
      BY <2>2, <3>1 DEF CreateShare, Threads, TypeOK
    <3>3. wpc[t] # "none"
      BY <3>1
    <3> QED BY <3>2, <3>3
  <2> QED BY <2>1, <2>2
<1>2. /\ hst' = [hst EXCEPT ![k.h] = "live"]
      /\ UNCHANGED <<cursize, que, cpc, ch>>
  BY DEF Create, CreateShare, queVars, cliVars
<1>3. \A c \in Clients : cpc'[c] # "idle" => hst'[ch'[c]] # "unused"
  BY <1>2 DEF TypeOK
<1>4. ASSUME NEW h \in Handles, hst'[h] # "unused"
      PROVE  wpc'[hthr'[h]] # "none"
  <2>1. CASE h = k.h
    BY <2>1, <1>1 DEF TypeOK
  <2>2. CASE h # k.h
    BY <2>2, <1>1, <1>2, <1>4 DEF TypeOK
  <2> QED BY <2>1, <2>2
<1>5. ASSUME NEW h \in Handles, hst'[h] = "unused"
      PROVE  wpc'[h] = "none" /\ cursize'[h] <= 0
  BY <1>1, <1>2, <1>5, <1>0 DEF TypeOK, Threads
<1>6. ASSUME NEW u \in Threads, wpc'[u] = "none", NEW p \in Pri
      PROVE  que'[u][p] = <<>>
  BY <1>1, <1>2, <1>6
<1>7. wpc'[ZThr] # "none"
  BY <1>1, <1>0 DEF Threads
<1> QED BY <1>3, <1>4, <1>5, <1>6, <1>7

\* An action that creates nothing keeps Linked when it leaves the lists of
\* uncreated threads and the sizes of uncreated schedules alone.
LEMMA KeepLinked ==
  ASSUME TypeOK, Linked,
         \A c \in Clients : cpc'[c] # "idle" => hst[ch'[c]] # "unused",
         \A h \in Handles : hst'[h] = "unused" <=> hst[h] = "unused",
         \A t \in Threads : wpc'[t] = "none" <=> wpc[t] = "none",
         \A h \in Handles : hst[h] = "unused" => cursize'[h] <= cursize[h],
         \A t \in Threads, p \in Pri : que[t][p] = <<>> /\ wpc[t] = "none" => que'[t][p] = <<>>,
         hthr' = hthr, cursize' \in [Handles -> Int], ch' \in [Clients -> Handles]
  PROVE  Linked'
<1>1. \A h \in Handles : h \in Threads /\ hthr[h] \in Threads /\ cursize[h] \in Int /\ cursize'[h] \in Int
  BY DEF TypeOK, Threads
<1>2. ZThr \in Threads
  BY DEF Threads
<1> QED BY <1>1, <1>2 DEF Linked

\* Every step keeps Linked.
LEMMA StepLinked ==
  ASSUME TypeOK, TypeOK', Linked, [Next]_vars
  PROVE  Linked'
<1>0. cursize' \in [Handles -> Int] /\ ch' \in [Clients -> Handles]
  BY DEF TypeOK
<1> USE DEF schVars, queVars, thrVars, cliVars
<1>1. CASE UNCHANGED vars
  BY <1>1 DEF vars, Linked
<1>2. ASSUME NEW k \in Calls, Create(k) \/ CreateShare(k) PROVE Linked'
  BY <1>2, CreateLinked
<1>3. ASSUME NEW c \in Clients, NEW h \in Handles, SendCheck(c, h) PROVE Linked'
  <2>1. \A d \in Clients : cpc'[d] # "idle" => hst[ch'[d]] # "unused"
    <3>1. /\ hst[h] # "unused" /\ cpc \in [Clients -> Pcs] /\ ch \in [Clients -> Handles]
          /\ cpc' = [cpc EXCEPT ![c] = IF HasRoom(h) THEN "checked" ELSE "idle"]
          /\ ch' = [ch EXCEPT ![c] = h]
      BY <1>3 DEF SendCheck, Callable, TypeOK
    <3> QED BY <3>1 DEF Linked
  <2>2. UNCHANGED <<hst, hthr, cursize, que, wpc>> /\ \A g \in Handles : cursize[g] <= cursize[g]
    BY <1>3 DEF SendCheck, TypeOK
  <2> QED BY <1>0, <2>1, <2>2, KeepLinked
<1>4. ASSUME NEW c \in Clients, Send(c) PROVE Linked'
  <2>1. CASE JobNew(c)
    BY <2>1, <1>0, KeepLinked DEF JobNew, Linked, TypeOK
  <2>2. CASE JobNoMem(c)
    BY <2>2, <1>0, KeepLinked DEF JobNoMem, Linked, TypeOK
  <2>3. CASE InsertJob(c)
    <3>1. hst[ch[c]] # "unused" /\ ch[c] \in Handles
      BY <2>3 DEF InsertJob, LinkLast, Linked, TypeOK
    <3>2. wpc[hthr[ch[c]]] # "none"
      BY <3>1 DEF Linked
    <3>3. \A h \in Handles : hst[h] = "unused" => cursize'[h] <= cursize[h]
      <4>1. /\ cursize \in [Handles -> Int]
            /\ cursize' = [cursize EXCEPT ![ch[c]] = cursize[ch[c]] + 1]
        BY <2>3 DEF InsertJob, LinkLast, TypeOK
      <4> QED BY <3>1, <4>1
    <3>4. \A t \in Threads, p \in Pri : que[t][p] = <<>> /\ wpc[t] = "none" => que'[t][p] = <<>>
      BY <2>3, <3>2 DEF InsertJob, LinkLast, TypeOK
    <3>5. \A d \in Clients : cpc'[d] # "idle" => hst[ch'[d]] # "unused"
      BY <2>3, <3>1 DEF InsertJob, LinkLast, Linked, TypeOK
    <3> QED BY <2>3, <1>0, <3>3, <3>4, <3>5, KeepLinked DEF InsertJob, LinkLast
  <2>4. CASE InsertAssert(c)
    BY <2>4 DEF InsertAssert, Linked
  <2>5. CASE SemGive(c)
    <3>1. \A d \in Clients : cpc'[d] # "idle" => hst[ch'[d]] # "unused"
      BY <2>5 DEF SemGive, Linked, TypeOK
    <3>2. UNCHANGED <<hst, hthr, cursize, que, wpc>> /\ \A g \in Handles : cursize[g] <= cursize[g]
      BY <2>5 DEF SemGive, TypeOK
    <3> QED BY <1>0, <3>1, <3>2, KeepLinked
  <2> QED BY <1>4, <2>1, <2>2, <2>3, <2>4, <2>5 DEF Send
<1>5. ASSUME NEW c \in Clients, NEW h \in Handles, DeleteLock(c, h) PROVE Linked'
  <2>1. \A d \in Clients : cpc'[d] # "idle" => hst[ch'[d]] # "unused"
    <3>1. /\ hst[h] = "live" /\ cpc \in [Clients -> Pcs] /\ ch \in [Clients -> Handles]
          /\ cpc' = [cpc EXCEPT ![c] = "purge"]
          /\ ch' = [ch EXCEPT ![c] = h]
      BY <1>5 DEF DeleteLock, TypeOK
    <3> QED BY <3>1 DEF Linked
  <2>2. UNCHANGED <<hthr, cursize, que, wpc>> /\ \A g \in Handles : cursize[g] <= cursize[g]
    BY <1>5 DEF DeleteLock, TypeOK
  <2>3. \A g \in Handles : hst'[g] = "unused" <=> hst[g] = "unused"
    BY <1>5 DEF DeleteLock, TypeOK
  <2> QED BY <1>0, <2>1, <2>2, <2>3, KeepLinked
<1>6. ASSUME NEW c \in Clients, Delete(c) PROVE Linked'
  <2>0. cpc[c] # "idle" /\ hst[ch[c]] # "unused" /\ ch[c] \in Handles
    BY <1>6 DEF Delete, PurgeJob, Purging, PurgeSkip, PurgeDone, DeleteDec, DeleteFree, Linked, TypeOK
  <2>1. CASE PurgeJob(c)
    <3>1. \A h \in Handles : hst[h] = "unused" => cursize'[h] <= cursize[h]
      <4>1. /\ cursize \in [Handles -> Int]
            /\ cursize' = [cursize EXCEPT ![ch[c]] = cursize[ch[c]] - 1]
        BY <2>1 DEF PurgeJob, JobDelete, TypeOK
      <4> QED BY <2>0, <4>1
    <3>2. wpc[hthr[ch[c]]] # "none"
      BY <2>0 DEF Linked
    <3>3. \A t \in Threads, p \in Pri : que[t][p] = <<>> /\ wpc[t] = "none" => que'[t][p] = <<>>
      BY <2>1, <3>2 DEF PurgeJob, TypeOK
    <3> QED BY <2>1, <1>0, <3>1, <3>3, KeepLinked DEF PurgeJob, Linked
  <2>2. CASE PurgeSkip(c)
    BY <2>2, <1>0, KeepLinked DEF PurgeSkip, Linked, TypeOK
  <2>3. CASE PurgeDone(c)
    BY <2>3, <2>0, <1>0, KeepLinked DEF PurgeDone, Linked, TypeOK
  <2>4. CASE DeleteDec(c)
    BY <2>4, <2>0, <1>0, KeepLinked DEF DeleteDec, Linked, TypeOK
  <2>5. CASE DeleteFree(c)
    <3>1. \A d \in Clients : cpc'[d] # "idle" => hst[ch'[d]] # "unused"
      BY <2>5 DEF DeleteFree, Linked, TypeOK
    <3>2. UNCHANGED <<hthr, cursize, que, wpc>> /\ \A g \in Handles : cursize[g] <= cursize[g]
      BY <2>5 DEF DeleteFree, TypeOK
    <3>3. \A g \in Handles : hst'[g] = "unused" <=> hst[g] = "unused"
      BY <2>5, <2>0 DEF DeleteFree, TypeOK
    <3> QED BY <1>0, <3>1, <3>2, <3>3, KeepLinked
  <2> QED BY <1>6, <2>1, <2>2, <2>3, <2>4, <2>5 DEF Delete
<1>7. ASSUME NEW t \in Threads, Worker(t) PROVE Linked'
  <2>1. CASE WorkerTop(t) \/ WorkerWake(t) \/ WorkerTimeout(t) \/ WorkerDrained(t) \/ WorkerCall(t)
    <3>1. /\ UNCHANGED <<cpc, ch, hst, hthr, cursize, que>>
          /\ \A u \in Threads : wpc'[u] = "none" <=> wpc[u] = "none"
      <4>1. wpc \in [Threads -> WorkerPcs]
        BY DEF TypeOK
      <4>2. UNCHANGED <<cpc, ch, hst, hthr, cursize, que>>
        BY <2>1 DEF WorkerTop, WorkerWake, WorkerTimeout, WorkerDrained, WorkerCall, schVars, queVars, cliVars
      <4>3. \A u \in Threads : wpc'[u] = "none" <=> wpc[u] = "none"
        BY <2>1, <4>1 DEF WorkerTop, WorkerWake, WorkerTimeout, WorkerDrained, WorkerCall
      <4> QED BY <4>2, <4>3
    <3>2. \A g \in Handles : cursize[g] <= cursize[g]
      BY DEF TypeOK
    <3> QED BY <3>1, <3>2, <1>0, KeepLinked DEF Linked
  <2>2. ASSUME NEW p \in Pri, WorkerGet(t, p) PROVE Linked'
    <3>1. \A u \in Threads, q \in Pri : que[u][q] = <<>> /\ wpc[u] = "none" => que'[u][q] = <<>>
      BY <2>2 DEF WorkerGet, TypeOK
    <3>2. \A h \in Handles : cursize'[h] <= cursize[h]
      <4> DEFINE s == Head(que[t][p]).sch
      <4>1. cursize \in [Handles -> Int] /\ cursize' = [cursize EXCEPT ![s] = cursize[s] - 1]
        BY <2>2 DEF WorkerGet, JobDelete, TypeOK
      <4> HIDE DEF s
      <4> QED BY <4>1
    <3>3. \A u \in Threads : wpc'[u] = "none" <=> wpc[u] = "none"
      BY <2>2 DEF WorkerGet, TypeOK
    <3> QED BY <2>2, <1>0, <3>1, <3>2, <3>3, KeepLinked DEF WorkerGet, Linked
  <2>3. CASE WorkerExit(t)
    <3>1. \A u \in Threads, q \in Pri : que[u][q] = <<>> => que'[u][q] = <<>>
      BY <2>3 DEF WorkerExit, TypeOK
    <3>2. \A u \in Threads : wpc'[u] = "none" <=> wpc[u] = "none"
      BY <2>3 DEF WorkerExit, TypeOK
    <3>3. UNCHANGED <<cpc, ch, hst, hthr, cursize>>
      BY <2>3 DEF WorkerExit, schVars, cliVars
    <3>4. \A g \in Handles : cursize[g] <= cursize[g]
      BY DEF TypeOK
    <3> QED BY <1>0, <3>1, <3>2, <3>3, <3>4, KeepLinked DEF Linked
  <2> QED BY <1>7, <2>1, <2>2, <2>3 DEF Worker
<1>8. ASSUME UNCHANGED <<schVars, queVars, thrVars, cliVars, fate>> PROVE Linked'
  BY <1>8 DEF Linked
<1> QED BY <1>1, <1>2, <1>3, <1>4, <1>5, <1>6, <1>7, <1>8
        DEF Next, ClientUsesFreed, DeleteUsesFreed, WorkerUsesFreed

\* Calls are only ever on created schedules, and created schedules only on
\* created threads.
LEMMA AlwaysLinked == Spec => [](TypeOK /\ Linked)
<1>1. Init => TypeOK /\ Linked
  BY InitType, InitLinked
<1>2. TypeOK /\ Linked /\ TypeOK' /\ [Next]_vars => Linked'
  BY StepLinked
<1> QED BY <1>1, <1>2, TypeCorrect, PTL DEF Spec

-----------------------------------------------------------------------------
(* No lost wakeup.                                                         *)

Idle(t) == wpc[t] \in {"top", "wait"}
HasJobs(t) == \E p \in Pri : que[t][p] # <<>>
Announced(t) == sem[t] > 0 \/ \E c \in Clients : cpc[c] = "give" /\ hthr[ch[c]] = t

\* NoLostWakeup thread by thread.
LEMMA WakeupOf ==
  NoLostWakeup <=> \A t \in Threads : Idle(t) /\ HasJobs(t) => Announced(t)
  BY DEF NoLostWakeup, Idle, HasJobs, Announced

\* A step keeps NoLostWakeup when no thread comes to rest with jobs, no new
\* jobs come without an announcement, and no announcement goes away.
LEMMA KeepWakeup ==
  ASSUME NoLostWakeup,
         \A t \in Threads : Idle(t)' /\ HasJobs(t)' => (Idle(t) /\ HasJobs(t)) \/ Announced(t)',
         \A t \in Threads : Idle(t)' /\ Announced(t) => Announced(t)'
  PROVE  NoLostWakeup'
<1>1. \A t \in Threads : Idle(t) /\ HasJobs(t) => Announced(t)
  BY WakeupOf
<1>2. \A t \in Threads : (Idle(t) /\ HasJobs(t) => Announced(t))'
  BY <1>1
<1> QED BY <1>2 DEF NoLostWakeup, Idle, HasJobs, Announced

\* Every step keeps NoLostWakeup: the thread rests only after it found its
\* lists empty under the mutex, and whoever inserts then raises the semaphore.
LEMMA StepWakeup ==
  ASSUME TypeOK, Linked, NoLostWakeup, [Next]_vars
  PROVE  NoLostWakeup'
<1> USE DEF schVars, queVars, thrVars, cliVars
<1>1. CASE UNCHANGED vars
  BY <1>1 DEF vars, NoLostWakeup
<1>2. ASSUME NEW k \in Calls, Create(k) \/ CreateShare(k) PROVE NoLostWakeup'
  <2>0. k.h \in Handles /\ hst[k.h] = "unused" /\ k.h \in Threads
    BY <1>2, CallType DEF Create, CreateShare, Threads
  <2>1. /\ UNCHANGED <<sem, que, cpc, ch>>
        /\ \E u \in Threads : hthr' = [hthr EXCEPT ![k.h] = u]
        /\ wpc' = wpc \/ (wpc[k.h] = "none" /\ wpc' = [wpc EXCEPT ![k.h] = "top"])
    <3>1. CASE Create(k)
      BY <3>1, <2>0 DEF Create, AddSchedule, Linked, Threads
    <3>2. CASE CreateShare(k)
      BY <3>2, <2>0, CallType DEF CreateShare, AddSchedule, Threads, TypeOK
    <3> QED BY <1>2, <3>1, <3>2
  <2>2. \A t \in Threads : Announced(t) => Announced(t)'
    <3>1. \A c \in Clients : cpc[c] = "give" => ch[c] \in Handles /\ ch[c] # k.h
      BY <2>0 DEF Linked, TypeOK
    <3>2. hthr \in [Handles -> Threads]
      BY DEF TypeOK
    <3> QED BY <2>1, <3>1, <3>2 DEF Announced
  <2>3. \A t \in Threads : Idle(t)' /\ HasJobs(t)' => Idle(t) /\ HasJobs(t)
    <3>1. wpc \in [Threads -> WorkerPcs]
      BY DEF TypeOK
    <3>2. wpc[k.h] = "none" => ~HasJobs(k.h)
      BY <2>0 DEF Linked, HasJobs
    <3> QED BY <2>0, <2>1, <3>1, <3>2 DEF Idle, HasJobs
  <2> QED BY <2>2, <2>3, KeepWakeup
\* The rest keeps hthr, so an announcement is lost only by its own sender.
<1>3. ASSUME NEW c \in Clients, NEW h \in Handles, SendCheck(c, h) \/ DeleteLock(c, h)
      PROVE  NoLostWakeup'
  <2>1. UNCHANGED <<hthr, sem, que, wpc>>
    BY <1>3 DEF SendCheck, DeleteLock
  <2>2. \A d \in Clients : cpc[d] = "give" => cpc'[d] = "give" /\ ch'[d] = ch[d]
    <3>1. cpc \in [Clients -> Pcs] /\ ch \in [Clients -> Handles]
      BY DEF TypeOK
    <3> QED BY <1>3, <3>1 DEF SendCheck, DeleteLock
  <2> QED BY <2>1, <2>2, KeepWakeup DEF Idle, HasJobs, Announced
<1>4. ASSUME NEW c \in Clients, Send(c) PROVE NoLostWakeup'
  <2>1. CASE JobNew(c) \/ JobNoMem(c)
    <3>1. UNCHANGED <<hthr, ch, sem, que, wpc>>
      BY <2>1 DEF JobNew, JobNoMem
    <3>2. \A d \in Clients : cpc[d] = "give" => cpc'[d] = "give"
      BY <2>1 DEF JobNew, JobNoMem, TypeOK
    <3> QED BY <3>1, <3>2, KeepWakeup DEF Idle, HasJobs, Announced
  <2>2. CASE InsertJob(c)
    <3>1. UNCHANGED <<hthr, ch, sem, wpc>>
      BY <2>2 DEF InsertJob, LinkLast
    <3>2. cpc'[c] = "give" /\ \A d \in Clients : cpc[d] = "give" => cpc'[d] = "give"
      BY <2>2 DEF InsertJob, LinkLast, TypeOK
    <3>3. \A t \in Threads : t # hthr[ch[c]] => que'[t] = que[t]
      BY <2>2 DEF InsertJob, LinkLast, TypeOK
    <3> QED BY <3>1, <3>2, <3>3, KeepWakeup DEF Idle, HasJobs, Announced
  <2>3. CASE InsertAssert(c)
    BY <2>3 DEF InsertAssert, NoLostWakeup
  <2>4. CASE SemGive(c)
    <3>1. UNCHANGED <<hthr, ch, que, wpc>>
      BY <2>4 DEF SemGive
    <3>2. sem' = [sem EXCEPT ![hthr[ch[c]]] = IF sem[hthr[ch[c]]] < SemMax
                                                THEN sem[hthr[ch[c]]] + 1 ELSE sem[hthr[ch[c]]]]
      BY <2>4 DEF SemGive
    <3>3. sem \in [Threads -> 0 .. SemMax] /\ hthr[ch[c]] \in Threads
      BY DEF TypeOK
    <3>4. sem'[hthr[ch[c]]] > 0 /\ \A t \in Threads : sem[t] > 0 => sem'[t] > 0
      BY <3>2, <3>3, ScheduleAssumption
    <3>5. \A d \in Clients : cpc[d] = "give" => cpc'[d] = "give" \/ d = c
      BY <2>4 DEF SemGive, TypeOK
    <3> QED BY <3>1, <3>4, <3>5, KeepWakeup DEF Idle, HasJobs, Announced
  <2> QED BY <1>4, <2>1, <2>2, <2>3, <2>4 DEF Send
<1>5. ASSUME NEW c \in Clients, Delete(c) PROVE NoLostWakeup'
  <2>1. UNCHANGED <<hthr, ch, sem, wpc>>
    BY <1>5 DEF Delete, PurgeJob, PurgeSkip, PurgeDone, DeleteDec, DeleteFree
  <2>2. \A d \in Clients : cpc[d] = "give" => cpc'[d] = "give"
    <3>1. cpc \in [Clients -> Pcs]
      BY DEF TypeOK
    <3> QED BY <1>5, <3>1 DEF Delete, PurgeJob, Purging, PurgeSkip, PurgeDone, DeleteDec, DeleteFree, cliVars
  <2>3. \A t \in Threads, p \in Pri : que'[t][p] # <<>> => que[t][p] # <<>>
    <3>1. CASE PurgeJob(c)
      <4> DEFINE u == hthr[ch[c]]
                 q == hpri[ch[c]]
      <4>0. que[u][q] \in Seq(Jobs) /\ scan[c] \in Nat \ {0}
        BY TargetType DEF TypeOK
      <4>1. que[u][q] \in Seq(Jobs) /\ scan[c] \in 1 .. Len(que[u][q])
        <5>1. scan[c] <= Len(que[u][q])
          BY <3>1 DEF PurgeJob, Purging
        <5> QED BY <4>0, <5>1
      <4>2. que[u][q] # <<>>
        BY <4>1, RemoveAtType
      <4> QED BY <3>1, <4>2 DEF PurgeJob, TypeOK
    <3>2. CASE ~PurgeJob(c)
      BY <1>5, <3>2 DEF Delete, PurgeSkip, PurgeDone, DeleteDec, DeleteFree
    <3> QED BY <3>1, <3>2
  <2> QED BY <2>1, <2>2, <2>3, KeepWakeup DEF Idle, HasJobs, Announced
<1>6. ASSUME NEW t \in Threads, Worker(t) PROVE NoLostWakeup'
  <2>0. UNCHANGED <<hthr, ch, cpc>>
    BY <1>6 DEF Worker, WorkerTop, WorkerWake, WorkerTimeout, WorkerGet, WorkerCall,
                WorkerDrained, WorkerExit
  <2>1. \A u \in Threads : u # t => wpc'[u] = wpc[u] /\ que'[u] = que[u] /\ sem'[u] = sem[u]
    BY <1>6 DEF Worker, WorkerTop, WorkerWake, WorkerTimeout, WorkerGet, WorkerCall,
                WorkerDrained, WorkerExit, TypeOK
  <2>2. CASE WorkerTop(t)
    BY <2>0, <2>2, KeepWakeup DEF WorkerTop, Idle, HasJobs, Announced, TypeOK
  <2>3. CASE WorkerDrained(t)
    BY <2>0, <2>3, KeepWakeup DEF WorkerDrained, Drained, Idle, HasJobs, Announced, TypeOK
  <2>4. CASE ~WorkerTop(t) /\ ~WorkerDrained(t)
    <3>1. wpc'[t] \in {"drain", "call", "freed"}
      BY <1>6, <2>4 DEF Worker, WorkerWake, WorkerTimeout, WorkerGet, WorkerCall, WorkerExit, TypeOK
    <3>2. ~Idle(t)'
      BY <3>1 DEF Idle
    <3> QED BY <2>0, <2>1, <3>2, KeepWakeup DEF Idle, HasJobs, Announced
  <2> QED BY <2>2, <2>3, <2>4
<1>7. ASSUME UNCHANGED <<schVars, queVars, thrVars, cliVars, fate>> PROVE NoLostWakeup'
  BY <1>7 DEF NoLostWakeup
<1> QED BY <1>1, <1>2, <1>3, <1>4, <1>5, <1>6, <1>7
        DEF Next, ClientUsesFreed, DeleteUsesFreed, WorkerUsesFreed

\* In every reachable state a job in the lists of a thread that is at rest is
\* announced by the semaphore or by a sender about to raise it, for a binary
\* (win32 event) and for a counting semaphore, and whatever is deleted when.
THEOREM WakeupNeverLost == Spec => []NoLostWakeup
<1>1. Init => NoLostWakeup
  BY DEF Init, NoLostWakeup, Threads
<1>2. TypeOK /\ Linked /\ NoLostWakeup /\ [Next]_vars => NoLostWakeup'
  BY StepWakeup
<1> QED BY <1>1, <1>2, AlwaysLinked, PTL DEF Spec

-----------------------------------------------------------------------------
(* How far a schedule can go over maxsize.                                 *)

BoundOf(h) == cursize[h] + Cardinality(InFlight(h)) <= hmax[h] + Cardinality(Clients) - 1

\* Sets of clients are finite and no larger than all clients.
LEMMA InFlightFinite ==
  /\ IsFiniteSet(Clients) /\ Cardinality(Clients) \in Nat /\ Cardinality(Clients) > 0
  /\ \A S \in SUBSET Clients :
       IsFiniteSet(S) /\ Cardinality(S) \in Nat /\ Cardinality(S) <= Cardinality(Clients)
<1>1. IsFiniteSet(Clients) /\ Clients # {}
  BY ScheduleAssumption
<1>2. Cardinality(Clients) \in Nat /\ Cardinality(Clients) > 0
  BY <1>1, FS_EmptySet, FS_CardinalityType
<1>3. \A S \in SUBSET Clients :
        IsFiniteSet(S) /\ Cardinality(S) \in Nat /\ Cardinality(S) <= Cardinality(Clients)
  BY <1>1, FS_Subset, FS_CardinalityType
<1> QED BY <1>1, <1>2, <1>3

\* The bound is kept by a step after which no more clients are in flight on h
\* and h holds no more jobs.
LEMMA KeepBound ==
  ASSUME TypeOK, TypeOK', NEW h \in Handles, BoundOf(h),
         InFlight(h)' \subseteq InFlight(h), cursize'[h] <= cursize[h], hmax'[h] = hmax[h]
  PROVE  BoundOf(h)'
<1>1. InFlight(h) \in SUBSET Clients
  BY DEF InFlight
<1>2. /\ Cardinality(InFlight(h)) \in Nat
      /\ Cardinality(InFlight(h)') \in Nat
      /\ Cardinality(InFlight(h)') <= Cardinality(InFlight(h))
  BY <1>1, InFlightFinite, FS_Subset, FS_CardinalityType
<1>3. cursize[h] \in Int /\ cursize'[h] \in Int /\ hmax[h] \in Nat /\ Cardinality(Clients) \in Nat
  BY InFlightFinite DEF TypeOK
<1> QED BY <1>2, <1>3 DEF BoundOf

\* Every step keeps the bound: a client is only added to those in flight
\* when there is room, and then the others in flight are the whole excess.
LEMMA StepBound ==
  ASSUME TypeOK, TypeOK', Linked, [Next]_vars, NEW h \in Handles, BoundOf(h)
  PROVE  BoundOf(h)'
<1> USE DEF schVars, queVars, thrVars, cliVars
<1>0. /\ cursize \in [Handles -> Int] /\ hmax \in [Handles -> Nat]
      /\ cpc \in [Clients -> Pcs] /\ ch \in [Clients -> Handles]
  BY DEF TypeOK
<1>1. CASE UNCHANGED vars
  BY <1>1 DEF vars, BoundOf, InFlight
<1>2. ASSUME NEW k \in Calls, Create(k) \/ CreateShare(k) PROVE BoundOf(h)'
  <2>0. /\ hst[k.h] = "unused" /\ k.h \in Handles /\ k.max \in Nat
        /\ hmax' = [hmax EXCEPT ![k.h] = k.max]
        /\ UNCHANGED <<cursize, cpc, ch>>
    BY <1>2, CallType DEF Create, CreateShare, AddSchedule
  <2>1. InFlight(h)' = InFlight(h)
    BY <2>0 DEF InFlight
  <2>2. CASE h # k.h
    BY <2>0, <2>1, <2>2, <1>0, KeepBound
  <2>3. CASE h = k.h
    <3>1. InFlight(h) = {}
      BY <2>0, <2>3 DEF InFlight, Linked
    <3>2. cursize[h] <= 0
      BY <2>0, <2>3 DEF Linked
    <3>3. Cardinality({}) = 0
      BY FS_EmptySet
    <3>4. hmax'[h] = k.max
      BY <2>0, <2>3, <1>0
    <3> QED BY <2>0, <2>1, <3>1, <3>2, <3>3, <3>4, <1>0, InFlightFinite DEF BoundOf
  <2> QED BY <2>2, <2>3
<1>3. ASSUME NEW c \in Clients, NEW g \in Handles, SendCheck(c, g) PROVE BoundOf(h)'
  <2>1. /\ cpc[c] = "idle"
        /\ ch' = [ch EXCEPT ![c] = g]
        /\ cpc' = [cpc EXCEPT ![c] = IF HasRoom(g) THEN "checked" ELSE "idle"]
        /\ UNCHANGED <<cursize, hmax>>
    BY <1>3 DEF SendCheck
  <2>2. CASE g = h /\ HasRoom(h)
    <3>1. InFlight(h)' \in SUBSET Clients
      BY DEF InFlight
    <3>2. Cardinality(InFlight(h)') \in Nat /\ Cardinality(InFlight(h)') <= Cardinality(Clients)
      BY <3>1, InFlightFinite
    <3>3. cursize[h] < hmax[h]
      BY <2>2 DEF HasRoom
    <3> QED BY <2>1, <3>2, <3>3, <1>0, InFlightFinite DEF BoundOf
  <2>3. CASE ~(g = h /\ HasRoom(h))
    <3>1. InFlight(h)' \subseteq InFlight(h)
      BY <2>1, <2>3, <1>0 DEF InFlight
    <3> QED BY <2>1, <3>1, <1>0, KeepBound
  <2> QED BY <2>2, <2>3
<1>4. ASSUME NEW c \in Clients, Send(c) PROVE BoundOf(h)'
  <2>0. hmax' = hmax /\ ch' = ch
    BY <1>4 DEF Send, JobNew, JobNoMem, InsertJob, LinkLast, InsertAssert, SemGive
  <2>1. CASE JobNew(c) \/ JobNoMem(c) \/ InsertAssert(c) \/ SemGive(c)
    <3>1. InFlight(h)' \subseteq InFlight(h)
      BY <2>0, <2>1, <1>0 DEF InFlight, JobNew, JobNoMem, InsertAssert, SemGive
    <3>2. cursize' = cursize
      BY <2>1 DEF JobNew, JobNoMem, InsertAssert, SemGive
    <3> QED BY <2>0, <3>1, <3>2, <1>0, KeepBound
  <2>2. CASE InsertJob(c)
    <3>1. /\ cpc[c] = "made" /\ cpc' = [cpc EXCEPT ![c] = "give"]
          /\ cursize' = [cursize EXCEPT ![ch[c]] = cursize[ch[c]] + 1]
      BY <2>2 DEF InsertJob, LinkLast
    <3>2. CASE ch[c] # h
      <4>1. InFlight(h)' \subseteq InFlight(h) /\ cursize'[h] = cursize[h]
        BY <2>0, <3>1, <3>2, <1>0 DEF InFlight
      <4> QED BY <2>0, <4>1, <1>0, KeepBound
    <3>3. CASE ch[c] = h
      <4>1. c \in InFlight(h) /\ InFlight(h)' = InFlight(h) \ {c}
        BY <2>0, <3>1, <3>3, <1>0 DEF InFlight
      <4>2. InFlight(h) \in SUBSET Clients
        BY DEF InFlight
      <4>3. IsFiniteSet(InFlight(h)) /\ Cardinality(InFlight(h)) \in Nat
        BY <4>2, InFlightFinite
      <4>4. Cardinality(InFlight(h)') = Cardinality(InFlight(h)) - 1
        BY <4>1, <4>3, FS_RemoveElement
      <4>5. cursize'[h] = cursize[h] + 1
        BY <3>1, <3>3, <1>0
      <4> QED BY <2>0, <4>3, <4>4, <4>5, <1>0, InFlightFinite DEF BoundOf
    <3> QED BY <3>2, <3>3
  <2> QED BY <1>4, <2>1, <2>2 DEF Send
<1>5. ASSUME NEW c \in Clients, NEW g \in Handles, DeleteLock(c, g) PROVE BoundOf(h)'
  <2>1. InFlight(h)' \subseteq InFlight(h)
    BY <1>5, <1>0 DEF DeleteLock, InFlight
  <2>2. UNCHANGED <<cursize, hmax>>
    BY <1>5 DEF DeleteLock
  <2> QED BY <2>1, <2>2, <1>0, KeepBound
<1>6. ASSUME NEW c \in Clients, Delete(c) PROVE BoundOf(h)'
  <2>1. InFlight(h)' \subseteq InFlight(h)
    BY <1>6, <1>0 DEF Delete, PurgeJob, PurgeSkip, PurgeDone, DeleteDec, DeleteFree, InFlight
  <2>2. hmax' = hmax
    BY <1>6 DEF Delete, PurgeJob, PurgeSkip, PurgeDone, DeleteDec, DeleteFree
  <2>3. cursize' = cursize \/ cursize' = [cursize EXCEPT ![ch[c]] = cursize[ch[c]] - 1]
    BY <1>6 DEF Delete, PurgeJob, JobDelete, PurgeSkip, PurgeDone, DeleteDec, DeleteFree
  <2>4. cursize'[h] <= cursize[h]
    BY <2>3, <1>0
  <2> QED BY <2>1, <2>2, <2>4, KeepBound
<1>7. ASSUME NEW t \in Threads, Worker(t) PROVE BoundOf(h)'
  <2>1. hmax' = hmax /\ InFlight(h)' = InFlight(h)
    BY <1>7 DEF Worker, WorkerTop, WorkerWake, WorkerTimeout, WorkerGet, WorkerCall,
                WorkerDrained, WorkerExit, InFlight
  <2>2. cursize' = cursize \/ \E g : cursize' = [cursize EXCEPT ![g] = cursize[g] - 1]
    BY <1>7 DEF Worker, WorkerTop, WorkerWake, WorkerTimeout, WorkerGet, JobDelete, WorkerCall,
                WorkerDrained, WorkerExit
  <2>3. cursize'[h] <= cursize[h]
    BY <2>2, <1>0
  <2> QED BY <2>1, <2>3, KeepBound
<1>8. ASSUME UNCHANGED <<schVars, queVars, thrVars, cliVars, fate>> PROVE BoundOf(h)'
  BY <1>8 DEF BoundOf, InFlight
<1> QED BY <1>1, <1>2, <1>3, <1>4, <1>5, <1>6, <1>7, <1>8
        DEF Next, ClientUsesFreed, DeleteUsesFreed, WorkerUsesFreed

\* The unlocked size check of sendjob lets a schedule exceed its maxsize by at
\* most one job per other client, for any number of clients and any maxsize.
THEOREM OvershootBounded == Spec => []OvershootBound
<1>1. Init => OvershootBound
  <2> SUFFICES ASSUME Init, NEW h \in Handles
               PROVE  BoundOf(h)
    BY DEF OvershootBound, BoundOf
  <2>1. InFlight(h) = {}
    BY DEF Init, InFlight
  <2>2. Cardinality({}) = 0
    BY FS_EmptySet
  <2> QED BY <2>1, <2>2, InFlightFinite DEF Init, BoundOf
<1>2. TypeOK /\ TypeOK' /\ Linked /\ OvershootBound /\ [Next]_vars => OvershootBound'
  BY StepBound DEF OvershootBound, BoundOf
<1> QED BY <1>1, <1>2, AlwaysLinked, PTL DEF Spec
-----------------------------------------------------------------------------
(***************************************************************************)
(* Theorems about Schedule: where a job can be, and what the books say of  *)
(* it.  The invariant is Placed; it is kept by every step whatever the     *)
(* port's atomics do and whoever deletes what.                             *)
(***************************************************************************)

\* The client holds a job that is in no list yet.
Carrying(c) == cpc[c] \in {"checked", "made"}

\* The jobs of one client stand in a list in the order they were sent.
Ordered(s) == \A i, k \in DOMAIN s : i < k /\ s[i].by = s[k].by => s[i].n < s[k].n

\* A job in a list is queued, and the list is the one of its schedule.
ListsHold ==
  \A t \in Threads, p \in Pri :
    /\ \A i \in DOMAIN que[t][p] :
         /\ hthr[que[t][p][i].sch] = t
         /\ hpri[que[t][p][i].sch] = p
         /\ fate[que[t][p][i]] = "queued"
    /\ Ordered(que[t][p])

\* A queued job is in the list of its schedule.
QueuedIsListed ==
  \A j \in Jobs : fate[j] = "queued" =>
    \E i \in DOMAIN que[hthr[j.sch]][hpri[j.sch]] : que[hthr[j.sch]][hpri[j.sch]][i] = j

\* Only a job that was sent, to a schedule that was created, is anywhere; one
\* that its sender still carries is not.
SentOnly ==
  \A j \in Jobs : fate[j] # "none" =>
    /\ hst[j.sch] # "unused"
    /\ j.n < sent[j.by] \/ (j.n = sent[j.by] /\ ~Carrying(j.by))

\* The job a thread is running was started, and is one of its own.
Running ==
  \A t \in Threads : wpc[t] = "call" =>
    /\ cur[t] \in Jobs
    /\ fate[cur[t]] = "started"
    /\ hthr[cur[t].sch] = t

Placed == ListsHold /\ QueuedIsListed /\ SentOnly /\ Running

\* r is s without its i-th element.
Without(s, i, r) ==
  /\ r \in Seq(Jobs)
  /\ Len(r) = Len(s) - 1
  /\ \A k \in 1 .. Len(r) : r[k] = IF k < i THEN s[k] ELSE s[k + 1]

-----------------------------------------------------------------------------
(* Lists.                                                                  *)

\* Unlinking a job at a place (_zcrt_s_thr_remove_sch) or at the head
\* (_zcrt_s_thr_getjob) takes that job out and nothing else.
LEMMA TakenOut ==
  ASSUME NEW s \in Seq(Jobs), s # <<>>
  PROVE  /\ Without(s, 1, Tail(s))
         /\ \A i \in 1 .. Len(s) : Without(s, i, RemoveAt(s, i))
<1>1. Without(s, 1, Tail(s))
  BY DEF Without
<1>2. ASSUME NEW i \in 1 .. Len(s) PROVE Without(s, i, RemoveAt(s, i))
  <2> DEFINE a == SubSeq(s, 1, i - 1)
             b == SubSeq(s, i + 1, Len(s))
  <2>1. /\ a \in Seq(Jobs) /\ Len(a) = i - 1
        /\ \A k \in 1 .. i - 1 : a[k] = s[k]
    OBVIOUS
  <2>2. /\ b \in Seq(Jobs) /\ Len(b) = Len(s) - i
        /\ \A k \in 1 .. Len(s) - i : b[k] = s[k + i]
    OBVIOUS
  <2>3. RemoveAt(s, i) = a \o b
    BY DEF RemoveAt
  <2> HIDE DEF a, b
  <2>4. /\ a \o b \in Seq(Jobs) /\ Len(a \o b) = Len(s) - 1
        /\ \A k \in 1 .. Len(a \o b) : (a \o b)[k] = IF k < i THEN a[k] ELSE b[k - (i - 1)]
    <3>1. /\ a \o b \in Seq(Jobs) /\ Len(a \o b) = Len(a) + Len(b)
          /\ \A k \in 1 .. Len(a) + Len(b) :
               (a \o b)[k] = IF k <= Len(a) THEN a[k] ELSE b[k - Len(a)]
      BY <2>1, <2>2, ConcatProperties
    <3>2. Len(a) = i - 1 /\ Len(b) = Len(s) - i /\ i \in Int /\ Len(s) \in Nat
      BY <2>1, <2>2
    <3> QED BY <3>1, <3>2
  <2>5. ASSUME NEW k \in 1 .. Len(a \o b)
        PROVE  (a \o b)[k] = IF k < i THEN s[k] ELSE s[k + 1]
    <3>1. CASE k < i
      BY <2>1, <2>4, <3>1
    <3>2. CASE ~(k < i)
      <4>1. k - (i - 1) \in 1 .. Len(s) - i /\ (k - (i - 1)) + i = k + 1
        BY <2>4, <3>2
      <4> QED BY <2>2, <2>4, <3>2, <4>1
    <3> QED BY <3>1, <3>2
  <2> QED BY <2>3, <2>4, <2>5 DEF Without
<1> QED BY <1>1, <1>2

\* No job is twice in a list in order.
LEMMA OrderedOnce ==
  ASSUME NEW s \in Seq(Jobs), Ordered(s), NEW i \in DOMAIN s, NEW k \in DOMAIN s, s[i] = s[k]
  PROVE  i = k
<1>1. s[i] \in Jobs /\ i \in Nat /\ k \in Nat
  OBVIOUS
<1>2. s[i].n \in Nat
  BY <1>1 DEF Jobs
<1>3. ~(i < k) /\ ~(k < i)
  BY <1>2 DEF Ordered
<1> QED BY <1>1, <1>3

\* A list stays in order when one job leaves it.
LEMMA OrderedLess ==
  ASSUME NEW s \in Seq(Jobs), Ordered(s), NEW i \in 1 .. Len(s), NEW r, Without(s, i, r)
  PROVE  /\ Ordered(r)
         /\ \A k \in DOMAIN r : \E m \in DOMAIN s : m # i /\ r[k] = s[m]
         /\ \A m \in DOMAIN s : m # i => \E k \in DOMAIN r : r[k] = s[m]
<1> DEFINE at(k) == IF k < i THEN k ELSE k + 1
<1>1. /\ r \in Seq(Jobs) /\ Len(r) = Len(s) - 1
      /\ \A k \in DOMAIN r : at(k) \in DOMAIN s /\ at(k) # i /\ r[k] = s[at(k)]
  BY DEF Without
<1>2. \A k, l \in DOMAIN r : k < l => at(k) < at(l)
  BY <1>1
<1>3. \A m \in DOMAIN s : m # i => \E k \in DOMAIN r : at(k) = m
  <2> SUFFICES ASSUME NEW m \in DOMAIN s, m # i PROVE \E k \in DOMAIN r : at(k) = m
    OBVIOUS
  <2> DEFINE k == IF m < i THEN m ELSE m - 1
  <2>1. k \in DOMAIN r /\ at(k) = m
    BY <1>1
  <2> QED BY <2>1
<1> HIDE DEF at
<1> QED BY <1>1, <1>2, <1>3 DEF Ordered

-----------------------------------------------------------------------------
(* Every step keeps Placed.                                                *)

\* A job names a schedule and a client that exist, and its number.
LEMMA JobFields ==
  ASSUME NEW j \in Jobs
  PROVE  j.by \in Clients /\ j.n \in Nat /\ j.sch \in Handles
  BY ScheduleAssumption DEF Jobs

\* A step that moves no job and takes up no new send keeps Placed.
LEMMA KeepPlaced ==
  ASSUME TypeOK, Placed,
         UNCHANGED <<que, fate, hthr, hpri, sent>>,
         \A h \in Handles : hst[h] # "unused" => hst'[h] # "unused",
         \A c \in Clients : Carrying(c)' => Carrying(c),
         \A t \in Threads : wpc'[t] = "call" => wpc[t] = "call" /\ cur'[t] = cur[t]
  PROVE  Placed'
<1>1. ListsHold' /\ QueuedIsListed'
  BY DEF Placed, ListsHold, QueuedIsListed, Ordered
<1>2. SentOnly'
  BY JobFields DEF Placed, SentOnly
<1>3. Running'
  BY DEF Placed, Running
<1> QED BY <1>1, <1>2, <1>3 DEF Placed

\* Creating a schedule gives it a list: no job is of it yet.
LEMMA CreatePlaced ==
  ASSUME TypeOK, Placed, Linked, NEW k \in Calls, Create(k) \/ CreateShare(k)
  PROVE  Placed'
<1>0. k.h \in Handles /\ hst[k.h] = "unused"
  BY CallType DEF Create, CreateShare
<1>1. /\ \A h \in Handles : h # k.h => hthr'[h] = hthr[h] /\ hpri'[h] = hpri[h] /\ hst'[h] = hst[h]
      /\ hst'[k.h] = "live"
      /\ UNCHANGED <<que, fate, sent, cpc, cur>>
  BY <1>0 DEF Create, CreateShare, AddSchedule, queVars, cliVars, TypeOK
<1>2. \A j \in Jobs : fate[j] # "none" => j.sch \in Handles /\ j.sch # k.h
  BY <1>0, JobFields DEF Placed, SentOnly
<1>3. ListsHold'
  <2>1. \A t \in Threads, p \in Pri : \A i \in DOMAIN que[t][p] :
          que[t][p][i] \in Jobs /\ fate[que[t][p][i]] = "queued"
    BY DEF Placed, ListsHold, TypeOK
  <2> QED BY <1>1, <1>2, <2>1 DEF Placed, ListsHold, Ordered
<1>4. QueuedIsListed'
  BY <1>1, <1>2 DEF Placed, QueuedIsListed
<1>5. SentOnly'
  BY <1>1, <1>2 DEF Placed, SentOnly, Carrying
<1>6. Running'
  <2>1. \A t \in Threads : wpc'[t] = "call" => wpc[t] = "call"
    BY DEF Create, CreateShare, TypeOK
  <2> QED BY <1>1, <1>2, <2>1 DEF Placed, Running
<1> QED BY <1>3, <1>4, <1>5, <1>6 DEF Placed

\* The size check takes up a new number.
LEMMA SendCheckPlaced ==
  ASSUME TypeOK, Placed, NEW c \in Clients, NEW h \in Handles, SendCheck(c, h)
  PROVE  Placed'
<1>0. sent \in [Clients -> Int] /\ cpc \in [Clients -> Pcs]
  <2>1. sent \in [Clients -> 0 .. MaxSend] /\ cpc \in [Clients -> Pcs]
    BY DEF TypeOK
  <2> QED BY <2>1
<1>1. /\ sent' = [sent EXCEPT ![c] = sent[c] + 1]
      /\ cpc[c] = "idle"
      /\ cpc' = [cpc EXCEPT ![c] = IF HasRoom(h) THEN "checked" ELSE "idle"]
      /\ UNCHANGED <<que, fate, hthr, hpri, hst, wpc, cur>>
  BY DEF SendCheck, schVars, queVars, thrVars
<1>2. SentOnly'
  <2> SUFFICES ASSUME NEW j \in Jobs, fate[j] # "none"
               PROVE  j.n < sent'[j.by] \/ (j.n = sent'[j.by] /\ ~Carrying(j.by)')
    BY <1>1 DEF Placed, SentOnly
  <2>1. j.by \in Clients /\ j.n \in Nat /\ j.n <= sent[j.by] /\ (j.n < sent[j.by] \/ ~Carrying(j.by))
    BY JobFields, <1>0, <1>1 DEF Placed, SentOnly
  <2>2. CASE j.by = c
    BY <1>0, <1>1, <2>1, <2>2
  <2>3. CASE j.by # c
    BY <1>0, <1>1, <2>1, <2>3 DEF Carrying
  <2> QED BY <2>2, <2>3
<1> QED BY <1>1, <1>2 DEF Placed, ListsHold, QueuedIsListed, Running, Ordered

\* The inserted job is the newest of its client.
LEMMA InsertPlaced ==
  ASSUME TypeOK, Placed, Linked, NEW c \in Clients, InsertJob(c)
  PROVE  /\ Placed'
         /\ fate[JobOf(c)] = "none"
         /\ \A i \in Jobs : i.by = c /\ fate[i] # "none" => i.n < JobOf(c).n
<1> DEFINE h == ch[c]
           t == hthr[h]
           p == hpri[h]
           j == JobOf(c)
           s == que[t][p]
<1>0. /\ cpc[c] = "made" /\ hst[h] # "unused" /\ h \in Handles /\ t \in Threads /\ p \in Pri
      /\ j \in Jobs /\ j.by = c /\ j.n = sent[c] /\ j.sch = h /\ s \in Seq(Jobs)
  <2>1. cpc[c] = "made" /\ h \in Handles /\ t \in Threads /\ p \in Pri
    BY TargetType DEF InsertJob, LinkLast
  <2>2. hst[h] # "unused"
    BY <2>1 DEF Linked
  <2>3. j \in Jobs
    BY <2>1, JobOfType DEF SenderPcs
  <2>4. j.by = c /\ j.n = sent[c] /\ j.sch = h
    BY DEF JobOf
  <2>5. s \in Seq(Jobs)
    BY <2>1 DEF TypeOK
  <2> QED BY <2>1, <2>2, <2>3, <2>4, <2>5
<1>1. /\ que' = [que EXCEPT ![t][p] = Append(s, j)]
      /\ que \in [Threads -> [Pri -> Seq(Jobs)]]
      /\ fate' = [fate EXCEPT ![j] = "queued"] /\ fate \in [Jobs -> Fates]
      /\ cpc' = [cpc EXCEPT ![c] = "give"] /\ cpc \in [Clients -> Pcs]
      /\ UNCHANGED <<hthr, hpri, sent, hst, wpc, cur>>
  BY DEF InsertJob, LinkLast, thrVars, TypeOK
<1>2. /\ fate[j] = "none"
      /\ \A i \in Jobs : i.by = c /\ fate[i] # "none" => i.n < j.n
  <2>1. sent \in [Clients -> Int] /\ Carrying(c)
    BY <1>0 DEF TypeOK, Carrying
  <2> QED BY <1>0, <2>1 DEF Placed, SentOnly
<1> HIDE DEF t, p, j, s
<1>3. ListsHold'
  <2> SUFFICES ASSUME NEW u \in Threads, NEW q \in Pri
               PROVE  /\ \A i \in DOMAIN que'[u][q] :
                           /\ hthr'[que'[u][q][i].sch] = u
                           /\ hpri'[que'[u][q][i].sch] = q
                           /\ fate'[que'[u][q][i]] = "queued"
                      /\ Ordered(que'[u][q])
    BY DEF ListsHold, Ordered
  <2>0. /\ \A i \in DOMAIN que[u][q] :
             /\ hthr[que[u][q][i].sch] = u
             /\ hpri[que[u][q][i].sch] = q
             /\ fate[que[u][q][i]] = "queued"
             /\ que[u][q][i] \in Jobs
        /\ Ordered(que[u][q])
    BY <1>1 DEF Placed, ListsHold
  <2>1. CASE u = t /\ q = p
    <3>1. que[u][q] = s /\ que'[u][q] = Append(s, j)
      BY <1>0, <1>1, <2>1 DEF s
    <3>2. /\ DOMAIN Append(s, j) = 1 .. Len(s) + 1 /\ DOMAIN s = 1 .. Len(s) /\ Len(s) \in Nat
          /\ \A i \in 1 .. Len(s) : Append(s, j)[i] = s[i]
          /\ Append(s, j)[Len(s) + 1] = j
      BY <1>0, AppendProperties
    <3>3. \A i \in 1 .. Len(s) + 1 : i \in 1 .. Len(s) \/ i = Len(s) + 1
      BY <3>2
    <3>4. hthr[j.sch] = t /\ hpri[j.sch] = p
      BY <1>0 DEF t, p
    <3>5. \A i \in DOMAIN Append(s, j) :
            /\ hthr'[Append(s, j)[i].sch] = u
            /\ hpri'[Append(s, j)[i].sch] = q
            /\ fate'[Append(s, j)[i]] = "queued"
      BY <1>0, <1>1, <2>0, <2>1, <3>1, <3>2, <3>3, <3>4
    <3>6. Ordered(Append(s, j))
      <4> SUFFICES ASSUME NEW i \in DOMAIN Append(s, j), NEW k \in DOMAIN Append(s, j), i < k,
                          Append(s, j)[i].by = Append(s, j)[k].by
                   PROVE  Append(s, j)[i].n < Append(s, j)[k].n
        BY DEF Ordered
      <4>1. i \in 1 .. Len(s)
        BY <3>2
      <4>2. CASE k \in 1 .. Len(s)
        BY <4>1, <4>2, <2>0, <3>1, <3>2 DEF Ordered
      <4>3. CASE k = Len(s) + 1
        <5>1. s[i] \in Jobs /\ fate[s[i]] # "none" /\ s[i].by = c
          BY <4>1, <4>3, <2>0, <3>1, <3>2, <1>0
        <5> QED BY <5>1, <4>1, <4>3, <3>2, <1>2
      <4> QED BY <4>2, <4>3, <3>2, <3>3
    <3> QED BY <3>1, <3>5, <3>6
  <2>2. CASE ~(u = t /\ q = p)
    <3>1. que'[u][q] = que[u][q]
      BY <1>0, <1>1, <2>2
    <3>2. \A i \in Jobs : fate[i] = "queued" => fate'[i] = "queued"
      BY <1>1
    <3> QED BY <1>1, <2>0, <3>1, <3>2
  <2> QED BY <2>1, <2>2
<1>4. QueuedIsListed'
  <2> SUFFICES ASSUME NEW i \in Jobs, fate'[i] = "queued"
               PROVE  \E k \in DOMAIN que'[hthr'[i.sch]][hpri'[i.sch]] :
                        que'[hthr'[i.sch]][hpri'[i.sch]][k] = i
    BY DEF QueuedIsListed
  <2>0. hthr[i.sch] \in Threads /\ hpri[i.sch] \in Pri
    BY JobFields DEF TypeOK
  <2>1. CASE i = j
    <3>1. que'[hthr'[i.sch]][hpri'[i.sch]] = Append(s, j)
      BY <1>0, <1>1, <2>1 DEF t, p
    <3> QED BY <3>1, <1>0, <2>1, AppendProperties
  <2>2. CASE i # j
    <3>1. PICK k \in DOMAIN que[hthr[i.sch]][hpri[i.sch]] : que[hthr[i.sch]][hpri[i.sch]][k] = i
      BY <1>1, <2>2 DEF Placed, QueuedIsListed
    <3>2. CASE hthr[i.sch] = t /\ hpri[i.sch] = p
      <4>1. que'[hthr'[i.sch]][hpri'[i.sch]] = Append(s, j) /\ k \in DOMAIN s /\ s[k] = i
        BY <1>0, <1>1, <3>1, <3>2 DEF s
      <4>2. k \in DOMAIN Append(s, j) /\ Append(s, j)[k] = s[k]
        BY <4>1, <1>0, AppendProperties
      <4> QED BY <4>1, <4>2
    <3>3. CASE ~(hthr[i.sch] = t /\ hpri[i.sch] = p)
      BY <2>0, <3>1, <3>3, <1>0, <1>1
    <3> QED BY <3>2, <3>3
  <2> QED BY <2>1, <2>2
<1>5. SentOnly'
  <2> SUFFICES ASSUME NEW i \in Jobs, fate'[i] # "none"
               PROVE  /\ hst'[i.sch] # "unused"
                      /\ i.n < sent'[i.by] \/ (i.n = sent'[i.by] /\ ~Carrying(i.by)')
    BY DEF SentOnly
  <2>0. i.by \in Clients
    BY JobFields
  <2>1. CASE i = j
    BY <1>0, <1>1, <2>1 DEF Carrying
  <2>2. CASE i # j
    <3>1. fate[i] # "none"
      BY <1>1, <2>2
    <3>2. ~Carrying(i.by) => ~Carrying(i.by)'
      BY <1>1, <2>0 DEF Carrying
    <3> QED BY <1>1, <3>1, <3>2 DEF Placed, SentOnly
  <2> QED BY <2>1, <2>2
<1>6. Running'
  BY <1>1, <1>2 DEF Placed, Running
<1> QED BY <1>2, <1>3, <1>4, <1>5, <1>6 DEF Placed, j

\* A job that leaves its list, for the thread to run it or with its schedule,
\* leaves the others where they are.
LEMMA TakePlaced ==
  ASSUME TypeOK, Placed, NEW t \in Threads, NEW p \in Pri, NEW i \in DOMAIN que[t][p],
         NEW r, Without(que[t][p], i, r), que' = [que EXCEPT ![t][p] = r],
         NEW v \in {"started", "dropped"}, fate' = [fate EXCEPT ![que[t][p][i]] = v],
         UNCHANGED <<hthr, hpri, hst, sent, cpc>>
  PROVE  ListsHold' /\ QueuedIsListed' /\ SentOnly'
<1> DEFINE s == que[t][p]
           j == s[i]
<1>0. /\ s \in Seq(Jobs) /\ i \in 1 .. Len(s) /\ j \in Jobs /\ Ordered(s)
      /\ fate[j] = "queued" /\ hthr[j.sch] = t /\ hpri[j.sch] = p
      /\ que \in [Threads -> [Pri -> Seq(Jobs)]] /\ fate \in [Jobs -> Fates]
  <2>1. que \in [Threads -> [Pri -> Seq(Jobs)]] /\ fate \in [Jobs -> Fates]
    BY DEF TypeOK
  <2>2. s \in Seq(Jobs)
    BY <2>1
  <2>3. i \in 1 .. Len(s) /\ j \in Jobs
    BY <2>2
  <2>4. Ordered(s) /\ fate[j] = "queued" /\ hthr[j.sch] = t /\ hpri[j.sch] = p
    BY DEF Placed, ListsHold
  <2> QED BY <2>1, <2>2, <2>3, <2>4
<1>1. /\ r \in Seq(Jobs) /\ Ordered(r)
      /\ \A k \in DOMAIN r : \E m \in DOMAIN s : m # i /\ r[k] = s[m]
      /\ \A m \in DOMAIN s : m # i => \E k \in DOMAIN r : r[k] = s[m]
  <2>1. Without(s, i, r)
    OBVIOUS
  <2>2. r \in Seq(Jobs)
    BY <2>1 DEF Without
  <2> HIDE DEF s, j
  <2> QED BY <1>0, <2>1, <2>2, OrderedLess
<1>2. \A m \in DOMAIN s : s[m] = j => m = i
  BY <1>0, OrderedOnce
<1>3. /\ que'[t][p] = r
      /\ \A u \in Threads, q \in Pri : ~(u = t /\ q = p) => que'[u][q] = que[u][q]
  BY <1>0, <1>1
<1>4. /\ fate'[j] = v /\ v # "queued"
      /\ \A x \in Jobs : x # j => fate'[x] = fate[x]
  BY <1>0
<1>5. \A u \in Threads, q \in Pri : \A k \in DOMAIN que[u][q] :
        /\ que[u][q][k] \in Jobs
        /\ hthr[que[u][q][k].sch] = u
        /\ hpri[que[u][q][k].sch] = q
        /\ fate[que[u][q][k]] = "queued"
  BY <1>0 DEF Placed, ListsHold
<1> HIDE DEF s, j
<1>6. ListsHold'
  <2> SUFFICES ASSUME NEW u \in Threads, NEW q \in Pri
               PROVE  /\ \A k \in DOMAIN que'[u][q] :
                           /\ hthr[que'[u][q][k].sch] = u
                           /\ hpri[que'[u][q][k].sch] = q
                           /\ fate'[que'[u][q][k]] = "queued"
                      /\ Ordered(que'[u][q])
    BY DEF ListsHold, Ordered
  <2>1. CASE u = t /\ q = p
    <3>1. \A k \in DOMAIN r : \E m \in DOMAIN s : r[k] = s[m] /\ s[m] # j
      BY <1>1, <1>2
    <3>2. \A m \in DOMAIN s : /\ s[m] \in Jobs /\ hthr[s[m].sch] = t
                              /\ hpri[s[m].sch] = p /\ fate[s[m]] = "queued"
      BY <1>5 DEF s
    <3> QED BY <2>1, <3>1, <3>2, <1>1, <1>3, <1>4
  <2>2. CASE ~(u = t /\ q = p)
    <3>1. que'[u][q] = que[u][q] /\ Ordered(que[u][q])
      BY <2>2, <1>3 DEF Placed, ListsHold
    <3>2. \A k \in DOMAIN que[u][q] : que[u][q][k] # j
      BY <2>2, <1>0, <1>5
    <3> QED BY <3>1, <3>2, <1>4, <1>5
  <2> QED BY <2>1, <2>2
<1>7. QueuedIsListed'
  <2> SUFFICES ASSUME NEW x \in Jobs, fate'[x] = "queued"
               PROVE  \E k \in DOMAIN que'[hthr[x.sch]][hpri[x.sch]] :
                        que'[hthr[x.sch]][hpri[x.sch]][k] = x
    BY DEF QueuedIsListed
  <2>0. x # j /\ fate[x] = "queued" /\ hthr[x.sch] \in Threads /\ hpri[x.sch] \in Pri
    BY <1>4, JobFields DEF TypeOK
  <2>1. PICK m \in DOMAIN que[hthr[x.sch]][hpri[x.sch]] : que[hthr[x.sch]][hpri[x.sch]][m] = x
    BY <2>0 DEF Placed, QueuedIsListed
  <2>2. CASE hthr[x.sch] = t /\ hpri[x.sch] = p
    <3>1. m \in DOMAIN s /\ s[m] = x /\ m # i
      BY <2>0, <2>1, <2>2 DEF s, j
    <3> QED BY <3>1, <2>2, <1>1, <1>3
  <2>3. CASE ~(hthr[x.sch] = t /\ hpri[x.sch] = p)
    BY <2>0, <2>1, <2>3, <1>3
  <2> QED BY <2>2, <2>3
<1>8. SentOnly'
  <2>1. \A x \in Jobs : fate'[x] # "none" => fate[x] # "none"
    BY <1>0, <1>4
  <2> QED BY <2>1, JobFields DEF Placed, SentOnly, Carrying
<1> QED BY <1>6, <1>7, <1>8

\* A purged job leaves its list.
LEMMA PurgePlaced ==
  ASSUME TypeOK, Placed, NEW c \in Clients, PurgeJob(c)
  PROVE  Placed'
<1> DEFINE t == hthr[ch[c]]
           p == hpri[ch[c]]
           s == que[t][p]
           i == scan[c]
<1>0. t \in Threads /\ p \in Pri /\ s \in Seq(Jobs) /\ i \in 1 .. Len(s) /\ s # <<>>
  <2>1. t \in Threads /\ p \in Pri /\ scan[c] \in Nat \ {0}
    BY TargetType DEF TypeOK
  <2>2. s \in Seq(Jobs) /\ scan[c] <= Len(s)
    BY <2>1 DEF TypeOK, PurgeJob, Purging
  <2>3. i \in 1 .. Len(s)
    BY <2>1, <2>2
  <2>4. s # <<>>
    BY <2>2, <2>3
  <2> QED BY <2>1, <2>2, <2>3, <2>4
<1>1. Without(s, i, RemoveAt(s, i)) /\ i \in DOMAIN s
  BY <1>0, TakenOut
<1>2. /\ que' = [que EXCEPT ![t][p] = RemoveAt(s, i)]
      /\ fate' = [fate EXCEPT ![s[i]] = "dropped"]
      /\ UNCHANGED <<hthr, hpri, hst, sent, cpc, wpc, cur>>
  BY DEF PurgeJob, thrVars, cliVars
<1>3. s[i] \in Jobs /\ fate[s[i]] = "queued"
  BY <1>0, <1>1 DEF Placed, ListsHold
<1> HIDE DEF t, p, i
<1>4. ListsHold' /\ QueuedIsListed' /\ SentOnly'
  BY <1>0, <1>1, <1>2, TakePlaced
<1>5. Running'
  <2>1. \A u \in Threads : wpc[u] = "call" => cur[u] # s[i]
    BY <1>3 DEF Placed, Running
  <2> QED BY <1>2, <1>3, <2>1 DEF Placed, Running, TypeOK
<1> QED BY <1>4, <1>5 DEF Placed

\* A job the thread takes leaves its list and is what the thread runs.
LEMMA GetPlaced ==
  ASSUME TypeOK, Placed, NEW t \in Threads, NEW p \in Pri, WorkerGet(t, p)
  PROVE  Placed'
<1> DEFINE s == que[t][p]
           j == Head(s)
<1>0. s \in Seq(Jobs) /\ s # <<>> /\ j = s[1] /\ 1 \in DOMAIN s /\ j \in Jobs
  BY DEF WorkerGet, Urgent, TypeOK
<1>1. Without(s, 1, Tail(s))
  BY <1>0, TakenOut
<1>2. /\ que' = [que EXCEPT ![t][p] = Tail(s)]
      /\ fate' = [fate EXCEPT ![j] = "started"]
      /\ cur' = [cur EXCEPT ![t] = j]
      /\ wpc' = [wpc EXCEPT ![t] = "call"]
      /\ UNCHANGED <<hthr, hpri, hst, sent, cpc>>
  BY DEF WorkerGet, cliVars
<1>3. fate[j] = "queued" /\ hthr[j.sch] = t
  BY <1>0 DEF Placed, ListsHold
<1>4. ListsHold' /\ QueuedIsListed' /\ SentOnly'
  BY <1>0, <1>1, <1>2, TakePlaced
<1> HIDE DEF j
<1>5. Running'
  <2>1. cur \in [Threads -> Jobs \cup {NoJob}] /\ wpc \in [Threads -> WorkerPcs] /\ fate \in [Jobs -> Fates]
    BY DEF TypeOK
  <2> SUFFICES ASSUME NEW u \in Threads, wpc'[u] = "call"
               PROVE  cur'[u] \in Jobs /\ fate'[cur'[u]] = "started" /\ hthr'[cur'[u].sch] = u
    BY DEF Running
  <2>2. CASE u = t
    BY <1>0, <1>2, <1>3, <2>1, <2>2
  <2>3. CASE u # t
    BY <1>2, <1>3, <2>1, <2>3 DEF Placed, Running
  <2> QED BY <2>2, <2>3
<1> QED BY <1>4, <1>5 DEF Placed

\* The callback's return ends the job the thread runs, and no other's.
LEMMA CallPlaced ==
  ASSUME TypeOK, Placed, NEW t \in Threads, WorkerCall(t)
  PROVE  Placed'
<1>1. /\ wpc[t] = "call"
      /\ wpc' = [wpc EXCEPT ![t] = "drain"] /\ wpc \in [Threads -> WorkerPcs]
      /\ cur' = [cur EXCEPT ![t] = NoJob] /\ cur \in [Threads -> Jobs \cup {NoJob}]
      /\ fate' = [fate EXCEPT ![cur[t]] = "done"] /\ fate \in [Jobs -> Fates]
      /\ UNCHANGED <<que, hthr, hpri, hst, sent, cpc>>
  BY DEF WorkerCall, schVars, queVars, cliVars, TypeOK
<1>2. cur[t] \in Jobs /\ fate[cur[t]] = "started" /\ hthr[cur[t].sch] = t
  BY <1>1 DEF Placed, Running
<1>3. \A j \in Jobs : /\ fate'[j] = "queued" <=> fate[j] = "queued"
                      /\ fate'[j] # "none" => fate[j] # "none"
  BY <1>1, <1>2
<1>4. ListsHold' /\ QueuedIsListed'
  <2>1. \A u \in Threads, q \in Pri : \A i \in DOMAIN que[u][q] : que[u][q][i] \in Jobs
    BY DEF TypeOK
  <2> QED BY <1>1, <1>3, <2>1 DEF Placed, ListsHold, QueuedIsListed, Ordered
<1>5. SentOnly'
  BY <1>1, <1>3, JobFields DEF Placed, SentOnly, Carrying
<1>6. Running'
  <2> SUFFICES ASSUME NEW u \in Threads, wpc'[u] = "call"
               PROVE  cur'[u] \in Jobs /\ fate'[cur'[u]] = "started" /\ hthr'[cur'[u].sch] = u
    BY DEF Running
  <2>1. u # t /\ wpc[u] = "call"
    BY <1>1
  <2>2. cur[u] \in Jobs /\ fate[cur[u]] = "started" /\ hthr[cur[u].sch] = u
    BY <2>1 DEF Placed, Running
  <2> QED BY <1>1, <1>2, <2>1, <2>2
<1> QED BY <1>4, <1>5, <1>6 DEF Placed

\* The jobs freed with their thread are lost, and only those.
LEMMA ExitPlaced ==
  ASSUME TypeOK, Placed, NEW t \in Threads, WorkerExit(t)
  PROVE  /\ Placed'
         /\ \A j \in Jobs : fate'[j] = IF fate[j] = "queued" /\ hthr[j.sch] = t THEN "lost" ELSE fate[j]
<1>1. /\ que' = [que EXCEPT ![t] = [p \in Pri |-> <<>>]]
      /\ que \in [Threads -> [Pri -> Seq(Jobs)]]
      /\ wpc' = [wpc EXCEPT ![t] = "freed"] /\ wpc \in [Threads -> WorkerPcs]
      /\ UNCHANGED <<hthr, hpri, hst, sent, cpc, cur>>
  BY DEF WorkerExit, schVars, cliVars, TypeOK
<1>2. ASSUME NEW j \in Jobs
      PROVE  fate'[j] = IF fate[j] = "queued" /\ hthr[j.sch] = t THEN "lost" ELSE fate[j]
  <2>1. fate'[j] = IF \E p \in Pri : \E i \in DOMAIN que[t][p] : que[t][p][i] = j
                     THEN "lost" ELSE fate[j]
    BY DEF WorkerExit
  <2>2. CASE \E p \in Pri : \E i \in DOMAIN que[t][p] : que[t][p][i] = j
    BY <2>1, <2>2 DEF Placed, ListsHold
  <2>3. CASE ~ \E p \in Pri : \E i \in DOMAIN que[t][p] : que[t][p][i] = j
    <3>1. ~(fate[j] = "queued" /\ hthr[j.sch] = t)
      BY <2>3, JobFields DEF Placed, QueuedIsListed, TypeOK
    <3> QED BY <2>1, <2>3, <3>1
  <2> QED BY <2>2, <2>3
<1>3. ListsHold'
  <2> SUFFICES ASSUME NEW u \in Threads, NEW q \in Pri
               PROVE  /\ \A k \in DOMAIN que'[u][q] :
                           /\ hthr[que'[u][q][k].sch] = u
                           /\ hpri[que'[u][q][k].sch] = q
                           /\ fate'[que'[u][q][k]] = "queued"
                      /\ Ordered(que'[u][q])
    BY <1>1 DEF ListsHold, Ordered
  <2>1. CASE u = t
    <3>1. que'[u][q] = <<>>
      BY <1>1, <2>1
    <3> QED BY <3>1 DEF Ordered
  <2>2. CASE u # t
    <3>1. que'[u][q] = que[u][q]
      BY <1>1, <2>2
    <3>2. \A k \in DOMAIN que[u][q] : que[u][q][k] \in Jobs
      BY <1>1
    <3> QED BY <2>2, <3>1, <3>2, <1>2 DEF Placed, ListsHold
  <2> QED BY <2>1, <2>2
<1>4. QueuedIsListed'
  <2>1. \A j \in Jobs : fate'[j] = "queued" => fate[j] = "queued" /\ hthr[j.sch] # t
    BY <1>2
  <2>2. \A j \in Jobs : hthr[j.sch] \in Threads /\ hpri[j.sch] \in Pri
    BY JobFields DEF TypeOK
  <2> QED BY <1>1, <2>1, <2>2 DEF Placed, QueuedIsListed
<1>5. SentOnly'
  <2>1. \A j \in Jobs : fate'[j] # "none" => fate[j] # "none"
    BY <1>2
  <2> QED BY <1>1, <2>1, JobFields DEF Placed, SentOnly, Carrying
<1>6. Running'
  <2>1. \A u \in Threads : wpc'[u] = "call" => wpc[u] = "call"
    BY <1>1
  <2> QED BY <1>1, <1>2, <2>1 DEF Placed, Running
<1> QED BY <1>2, <1>3, <1>4, <1>5, <1>6 DEF Placed

\* The step leaves every job where it is.
QuietStep ==
  \/ UNCHANGED <<schVars, queVars, thrVars, cliVars, fate>>
  \/ \E c \in Clients : \/ JobNew(c) \/ JobNoMem(c) \/ SemGive(c)
                        \/ PurgeSkip(c) \/ PurgeDone(c) \/ DeleteDec(c) \/ DeleteFree(c)
  \/ \E c \in Clients, h \in Handles : DeleteLock(c, h)
  \/ \E t \in Threads : WorkerTop(t) \/ WorkerWake(t) \/ WorkerTimeout(t) \/ WorkerDrained(t)

\* The steps that move no job.
LEMMA QuietPlaced ==
  ASSUME TypeOK, Placed, Linked,
         QuietStep
  PROVE  Placed' /\ fate' = fate /\ hthr' = hthr /\ hpri' = hpri
<1> USE DEF schVars, queVars, thrVars, cliVars
<1>1. CASE UNCHANGED <<schVars, queVars, thrVars, cliVars, fate>>
  BY <1>1, KeepPlaced DEF Carrying
<1>2. ASSUME NEW c \in Clients, JobNew(c) \/ JobNoMem(c) \/ SemGive(c)
      PROVE  Placed' /\ fate' = fate /\ hthr' = hthr /\ hpri' = hpri
  <2>1. \A d \in Clients : Carrying(d)' => Carrying(d)
    <3>1. cpc \in [Clients -> Pcs]
      BY DEF TypeOK
    <3>2. \A d \in Clients : cpc'[d] \in {"checked", "made"} => cpc[d] \in {"checked", "made"}
      BY <1>2, <3>1 DEF JobNew, JobNoMem, SemGive
    <3> QED BY <3>2 DEF Carrying
  <2>2. UNCHANGED <<que, fate, hthr, hpri, sent, hst, wpc, cur>>
    BY <1>2 DEF JobNew, JobNoMem, SemGive
  <2> QED BY <2>1, <2>2, KeepPlaced
<1>3. ASSUME NEW c \in Clients, PurgeSkip(c) \/ PurgeDone(c) \/ DeleteDec(c) \/ DeleteFree(c)
      PROVE  Placed' /\ fate' = fate /\ hthr' = hthr /\ hpri' = hpri
  <2>1. \A d \in Clients : Carrying(d)' => Carrying(d)
    <3>1. cpc \in [Clients -> Pcs]
      BY DEF TypeOK
    <3>2. \A d \in Clients : cpc'[d] \in {"checked", "made"} => cpc[d] \in {"checked", "made"}
      BY <1>3, <3>1 DEF PurgeSkip, PurgeDone, DeleteDec, DeleteFree
    <3> QED BY <3>2 DEF Carrying
  <2>2. UNCHANGED <<que, fate, hthr, hpri, sent, wpc, cur>>
    BY <1>3 DEF PurgeSkip, PurgeDone, DeleteDec, DeleteFree
  <2>3. \A h \in Handles : hst[h] # "unused" => hst'[h] # "unused"
    BY <1>3 DEF PurgeSkip, PurgeDone, DeleteDec, DeleteFree, TypeOK
  <2> QED BY <2>1, <2>2, <2>3, KeepPlaced
<1>4. ASSUME NEW c \in Clients, NEW h \in Handles, DeleteLock(c, h)
      PROVE  Placed' /\ fate' = fate /\ hthr' = hthr /\ hpri' = hpri
  <2>1. \A d \in Clients : Carrying(d)' => Carrying(d)
    BY <1>4 DEF DeleteLock, Carrying, TypeOK
  <2>2. UNCHANGED <<que, fate, hthr, hpri, sent, wpc, cur>>
    BY <1>4 DEF DeleteLock
  <2>3. \A g \in Handles : hst[g] # "unused" => hst'[g] # "unused"
    BY <1>4 DEF DeleteLock, TypeOK
  <2> QED BY <2>1, <2>2, <2>3, KeepPlaced
<1>5. ASSUME NEW t \in Threads, WorkerTop(t) \/ WorkerWake(t) \/ WorkerTimeout(t) \/ WorkerDrained(t)
      PROVE  Placed' /\ fate' = fate /\ hthr' = hthr /\ hpri' = hpri
  <2>1. \A u \in Threads : wpc'[u] = "call" => wpc[u] = "call"
    BY <1>5 DEF WorkerTop, WorkerWake, WorkerTimeout, WorkerDrained, TypeOK
  <2>2. UNCHANGED <<que, fate, hthr, hpri, sent, hst, cpc, cur>>
    BY <1>5 DEF WorkerTop, WorkerWake, WorkerTimeout, WorkerDrained
  <2> QED BY <2>1, <2>2, KeepPlaced DEF Carrying
<1> QED BY <1>1, <1>2, <1>3, <1>4, <1>5 DEF QuietStep

\* What a step can be, seen from the jobs.
LEMMA StepCases ==
  ASSUME [Next]_vars
  PROVE  \/ QuietStep
         \/ \E k \in Calls : Create(k) \/ CreateShare(k)
         \/ \E c \in Clients, h \in Handles : SendCheck(c, h)
         \/ \E c \in Clients : InsertJob(c)
         \/ \E c \in Clients : PurgeJob(c)
         \/ \E t \in Threads, p \in Pri : WorkerGet(t, p)
         \/ \E t \in Threads : WorkerCall(t)
         \/ \E t \in Threads : WorkerExit(t)
<1>1. CASE UNCHANGED vars
  BY <1>1 DEF vars, QuietStep
<1>2. CASE \E c \in Clients : Send(c)
  BY <1>2 DEF Send, InsertAssert, QuietStep
<1>3. CASE \E c \in Clients : Delete(c)
  BY <1>3 DEF Delete, QuietStep
<1>4. CASE \E t \in Threads : Worker(t)
  BY <1>4 DEF Worker, QuietStep
<1>5. CASE \/ \E c \in Clients : ClientUsesFreed(c)
           \/ \E h \in Handles : DeleteUsesFreed(h)
           \/ \E t \in Threads, p \in Pri : WorkerUsesFreed(t, p)
  BY <1>5 DEF ClientUsesFreed, DeleteUsesFreed, WorkerUsesFreed, QuietStep
<1>6. CASE \E c \in Clients, h \in Handles : DeleteLock(c, h)
  BY <1>6 DEF QuietStep
<1> QED BY <1>1, <1>2, <1>3, <1>4, <1>5, <1>6 DEF Next

\* Every step keeps Placed.
LEMMA StepPlaced ==
  ASSUME TypeOK, Linked, Placed, [Next]_vars
  PROVE  Placed'
<1>1. CASE QuietStep
  BY <1>1, QuietPlaced
<1> QED BY <1>1, StepCases, CreatePlaced, SendCheckPlaced, InsertPlaced, PurgePlaced, GetPlaced,
           CallPlaced, ExitPlaced

\* A job that was sent is in exactly one list, or with the thread that runs
\* it, or gone.
LEMMA AlwaysPlaced == Spec => [](TypeOK /\ Linked /\ Placed)
<1>1. Init => TypeOK /\ Linked /\ Placed
  <2> SUFFICES ASSUME Init PROVE Placed
    BY InitType, InitLinked
  <2>1. ListsHold
    BY DEF Init, ListsHold, Ordered
  <2>2. QueuedIsListed /\ SentOnly
    BY DEF Init, QueuedIsListed, SentOnly
  <2>3. Running
    BY DEF Init, Running
  <2> QED BY <2>1, <2>2, <2>3 DEF Placed
<1>2. TypeOK /\ Linked /\ TypeOK' /\ Placed /\ [Next]_vars => Placed'
  BY StepPlaced
<1> QED BY <1>1, <1>2, AlwaysLinked, TypeCorrect, PTL DEF Spec

-----------------------------------------------------------------------------
(* What happens to a job.                                                  *)

\* How a step can change the fate of each job.
LEMMA FateSteps ==
  ASSUME TypeOK, Linked, Placed, [Next]_vars, NEW j \in Jobs
  PROVE  \/ fate'[j] = fate[j]
         \/ fate[j] = "none" /\ fate'[j] = "queued"
         \/ fate[j] = "queued" /\ fate'[j] \in {"started", "dropped", "lost"}
         \/ fate[j] = "started" /\ fate'[j] = "done"
<1>1. CASE QuietStep
  BY <1>1, QuietPlaced
<1>2. ASSUME NEW k \in Calls, Create(k) \/ CreateShare(k) PROVE fate' = fate
  BY <1>2 DEF Create, CreateShare, AddSchedule
<1>3. ASSUME NEW c \in Clients, NEW h \in Handles, SendCheck(c, h) PROVE fate' = fate
  BY <1>3 DEF SendCheck
<1>4. ASSUME NEW c \in Clients, InsertJob(c)
      PROVE  fate'[j] = fate[j] \/ (fate[j] = "none" /\ fate'[j] = "queued")
  <2>1. fate' = [fate EXCEPT ![JobOf(c)] = "queued"]
    BY <1>4 DEF InsertJob, LinkLast
  <2> QED BY <1>4, <2>1, InsertPlaced DEF TypeOK
<1>5. ASSUME NEW c \in Clients, PurgeJob(c)
      PROVE  fate'[j] = fate[j] \/ (fate[j] = "queued" /\ fate'[j] = "dropped")
  <2> DEFINE t == hthr[ch[c]]
             p == hpri[ch[c]]
  <2>1. /\ t \in Threads /\ p \in Pri
        /\ fate' = [fate EXCEPT ![que[t][p][scan[c]]] = "dropped"]
    BY <1>5, TargetType DEF PurgeJob
  <2>2. scan[c] \in DOMAIN que[t][p]
    <3>1. scan[c] \in Nat \ {0} /\ que[t][p] \in Seq(Jobs)
      BY <2>1 DEF TypeOK
    <3>2. scan[c] <= Len(que[t][p])
      BY <1>5 DEF PurgeJob, Purging
    <3> QED BY <3>1, <3>2
  <2>3. fate[que[t][p][scan[c]]] = "queued"
    BY <2>1, <2>2 DEF Placed, ListsHold
  <2> HIDE DEF t, p
  <2> QED BY <2>1, <2>3 DEF TypeOK
<1>6. ASSUME NEW t \in Threads, NEW p \in Pri, WorkerGet(t, p)
      PROVE  fate'[j] = fate[j] \/ (fate[j] = "queued" /\ fate'[j] = "started")
  <2>1. que[t][p] \in Seq(Jobs) /\ que[t][p] # <<>>
    BY <1>6 DEF WorkerGet, Urgent, TypeOK
  <2>2. 1 \in DOMAIN que[t][p] /\ Head(que[t][p]) = que[t][p][1]
    BY <2>1
  <2>3. fate[Head(que[t][p])] = "queued"
    BY <2>2 DEF Placed, ListsHold
  <2> QED BY <1>6, <2>3 DEF WorkerGet, TypeOK
<1>7. ASSUME NEW t \in Threads, WorkerCall(t)
      PROVE  fate'[j] = fate[j] \/ (fate[j] = "started" /\ fate'[j] = "done")
  BY <1>7 DEF WorkerCall, Placed, Running, TypeOK
<1>8. ASSUME NEW t \in Threads, WorkerExit(t)
      PROVE  fate'[j] = fate[j] \/ (fate[j] = "queued" /\ fate'[j] = "lost")
  BY <1>8, ExitPlaced
<1> QED BY <1>1, <1>2, <1>3, <1>4, <1>5, <1>6, <1>7, <1>8, StepCases

\* A job is run or dropped at most once, for any number of clients and
\* schedules, whoever deletes what: a job that _zcrt_s_thr_getjob took, or
\* _zcrt_s_thr_remove_sch dropped, is in no list any more, and the thread ends
\* the one it started.
THEOREM JobsRunOnce == Spec => RunAtMostOnce
<1>1. TypeOK /\ Linked /\ Placed /\ [Next]_vars =>
        [\A j \in Jobs :
           /\ fate[j] \in {"done", "dropped", "lost"} => fate'[j] = fate[j]
           /\ fate[j] = "started" => fate'[j] \in {"started", "done"}]_vars
  BY FateSteps
<1> QED BY <1>1, AlwaysPlaced, PTL DEF Spec, RunAtMostOnce

\* A step that queues and starts no job keeps the order.
LEMMA KeepOrder ==
  ASSUME RunInOrder,
         \A j \in Jobs : fate[j] # "none" => hthr'[j.sch] = hthr[j.sch] /\ hpri'[j.sch] = hpri[j.sch],
         \A j \in Jobs : fate'[j] = "queued" => fate[j] = "queued",
         \A j \in Jobs : fate'[j] \in {"started", "done"} => fate[j] \in {"started", "done"}
  PROVE  RunInOrder'
  BY DEF RunInOrder

\* Every step keeps the order: an inserted job is its client's newest, and the
\* thread takes a job only when no older one of that client is before it.
LEMMA StepOrder ==
  ASSUME TypeOK, Linked, Placed, RunInOrder, [Next]_vars
  PROVE  RunInOrder'
<1>1. CASE QuietStep
  BY <1>1, QuietPlaced, KeepOrder
<1>2. ASSUME NEW k \in Calls, Create(k) \/ CreateShare(k) PROVE RunInOrder'
  <2>1. k.h \in Handles /\ hst[k.h] = "unused" /\ fate' = fate
    BY <1>2, CallType DEF Create, CreateShare, AddSchedule
  <2>2. \A j \in Jobs : fate[j] # "none" => j.sch \in Handles /\ j.sch # k.h
    BY <2>1, JobFields DEF Placed, SentOnly
  <2>3. \A h \in Handles : h # k.h => hthr'[h] = hthr[h] /\ hpri'[h] = hpri[h]
    BY <1>2 DEF Create, CreateShare, AddSchedule, TypeOK
  <2> QED BY <2>1, <2>2, <2>3, KeepOrder
<1>3. ASSUME NEW c \in Clients, NEW h \in Handles, SendCheck(c, h) PROVE RunInOrder'
  BY <1>3, KeepOrder DEF SendCheck, schVars
<1>4. ASSUME NEW c \in Clients, InsertJob(c) PROVE RunInOrder'
  <2> DEFINE x == JobOf(c)
  <2>1. /\ fate' = [fate EXCEPT ![x] = "queued"] /\ fate \in [Jobs -> Fates]
        /\ hthr' = hthr /\ hpri' = hpri
    BY <1>4 DEF InsertJob, LinkLast, TypeOK
  <2>2. \A i \in Jobs : i.by = c /\ fate[i] # "none" => i.n < x.n
    BY <1>4, InsertPlaced
  <2>3. x.by = c /\ \A i \in Jobs : i.n \in Nat
    BY JobFields DEF JobOf
  <2> HIDE DEF x
  <2> SUFFICES ASSUME NEW i \in Jobs, NEW j \in Jobs,
                      i.by = j.by, i.n < j.n, hthr[i.sch] = hthr[j.sch],
                      hpri[i.sch] <= hpri[j.sch], fate'[j] \in {"started", "done"}
               PROVE  fate'[i] # "queued"
    BY <2>1 DEF RunInOrder
  <2>4. j # x /\ fate[j] \in {"started", "done"}
    BY <2>1
  <2>5. CASE i = x
    <3>1. j.n < i.n
      BY <2>2, <2>3, <2>4, <2>5
    <3>2. i.n \in Nat /\ j.n \in Nat
      BY <2>3
    <3> QED BY <3>1, <3>2
  <2>6. CASE i # x
    BY <2>1, <2>4, <2>6 DEF RunInOrder
  <2> QED BY <2>5, <2>6
<1>5. ASSUME NEW c \in Clients, PurgeJob(c) PROVE RunInOrder'
  <2>1. \E x : fate' = [fate EXCEPT ![x] = "dropped"]
    BY <1>5 DEF PurgeJob
  <2>2. hthr' = hthr /\ hpri' = hpri /\ fate \in [Jobs -> Fates]
    BY <1>5 DEF PurgeJob, TypeOK
  <2> QED BY <2>1, <2>2, KeepOrder
<1>6. ASSUME NEW t \in Threads, NEW p \in Pri, WorkerGet(t, p) PROVE RunInOrder'
  <2> DEFINE s == que[t][p]
             x == Head(s)
  <2>1. s \in Seq(Jobs) /\ s # <<>> /\ Urgent(t, p)
    BY <1>6 DEF WorkerGet, Urgent, TypeOK
  <2>2. /\ fate' = [fate EXCEPT ![x] = "started"] /\ fate \in [Jobs -> Fates]
        /\ hthr' = hthr /\ hpri' = hpri
    BY <1>6 DEF WorkerGet, TypeOK
  <2>3. 1 \in DOMAIN s /\ x = s[1] /\ x \in Jobs
    BY <2>1
  <2>4. hthr[x.sch] = t /\ hpri[x.sch] = p /\ Ordered(s)
    BY <2>3 DEF Placed, ListsHold
  <2> HIDE DEF x
  <2> SUFFICES ASSUME NEW i \in Jobs, NEW j \in Jobs,
                      i.by = j.by, i.n < j.n, hthr[i.sch] = hthr[j.sch],
                      hpri[i.sch] <= hpri[j.sch], fate'[j] \in {"started", "done"},
                      fate'[i] = "queued"
               PROVE  FALSE
    BY <2>2 DEF RunInOrder
  <2>5. i # x /\ fate[i] = "queued"
    BY <2>2
  <2>6. CASE j # x
    BY <2>2, <2>5, <2>6 DEF RunInOrder
  <2>7. CASE j = x
    <3>1. hthr[i.sch] = t /\ hpri[i.sch] \in Pri /\ hpri[i.sch] <= p
      BY <2>4, <2>7, JobFields DEF TypeOK
    <3>2. PICK m \in DOMAIN que[t][hpri[i.sch]] : que[t][hpri[i.sch]][m] = i
      BY <2>5, <3>1 DEF Placed, QueuedIsListed
    <3>3. CASE hpri[i.sch] < p
      <4>1. que[t][hpri[i.sch]] = <<>>
        BY <2>1, <3>1, <3>3 DEF Urgent
      <4> QED BY <3>2, <4>1
    <3>4. CASE hpri[i.sch] = p
      <4>1. m \in DOMAIN s /\ s[m] = i /\ m # 1
        BY <2>3, <2>5, <3>2, <3>4
      <4>2. 1 < m
        BY <2>1, <4>1
      <4>3. x.n < i.n
        BY <2>3, <2>4, <2>7, <4>1, <4>2 DEF Ordered
      <4>4. i.n \in Nat /\ x.n \in Nat
        BY <2>3, JobFields
      <4> QED BY <2>7, <4>3, <4>4
    <3>5. p \in Int /\ hpri[i.sch] \in Int
      BY <3>1 DEF Pri
    <3> QED BY <3>1, <3>3, <3>4, <3>5
  <2> QED BY <2>6, <2>7
<1>7. ASSUME NEW t \in Threads, WorkerCall(t) PROVE RunInOrder'
  <2>1. /\ fate' = [fate EXCEPT ![cur[t]] = "done"] /\ fate \in [Jobs -> Fates]
        /\ hthr' = hthr /\ hpri' = hpri /\ fate[cur[t]] = "started"
    BY <1>7 DEF WorkerCall, schVars, Placed, Running, TypeOK
  <2> QED BY <2>1, KeepOrder
<1>8. ASSUME NEW t \in Threads, WorkerExit(t) PROVE RunInOrder'
  <2>1. hthr' = hthr /\ hpri' = hpri
    BY <1>8 DEF WorkerExit, schVars
  <2>2. \A j \in Jobs : fate'[j] = IF fate[j] = "queued" /\ hthr[j.sch] = t THEN "lost" ELSE fate[j]
    BY <1>8, ExitPlaced
  <2> QED BY <2>1, <2>2, KeepOrder
<1> QED BY <1>1, <1>2, <1>3, <1>4, <1>5, <1>6, <1>7, <1>8, StepCases

\* A client's jobs to one thread are run in the order it sent them, unless the
\* later one is more urgent, for any number of clients, schedules and
\* priorities, and whatever is deleted in between (_zcrt_s_insert_job appends,
\* _zcrt_s_thr_getjob takes the head of the first list that has one).
THEOREM JobsRunInOrder == Spec => []RunInOrder
<1>1. Init => RunInOrder
  BY DEF Init, RunInOrder
<1>2. TypeOK /\ Linked /\ Placed /\ RunInOrder /\ [Next]_vars => RunInOrder'
  BY StepOrder
<1> QED BY <1>1, <1>2, AlwaysPlaced, PTL DEF Spec

-----------------------------------------------------------------------------
(* The books: cursize and the job nodes.                                   *)

\* The jobs of schedule h, and those on thread t, that wait in a list.
JobsIn(h) == {j \in Jobs : j.sch = h /\ fate[j] = "queued"}
JobsOn(t) == {j \in Jobs : hthr[j.sch] = t /\ fate[j] = "queued"}
\* The clients that hold a node of thread t between job_new and the insertion.
Made(t) == {c \in Clients : cpc[c] = "made" /\ hthr[ch[c]] = t}

SizeOf(h) ==
  /\ hst[h] = "unused" => cursize[h] = 0
  /\ hst[h] \in {"live", "closing"} /\ wpc[hthr[h]] # "freed" =>
       cursize[h] = Cardinality(JobsIn(h))
NodesOf(t) ==
  wpc[t] # "freed" => nodes[t] = freejobs[t] + Cardinality(JobsOn(t)) + Cardinality(Made(t))

Books == (\A h \in Handles : SizeOf(h)) /\ (\A t \in Threads : NodesOf(t))

\* There are finitely many jobs, so their sets can be counted.
LEMMA JobsFinite ==
  /\ \A S \in SUBSET Jobs : IsFiniteSet(S) /\ Cardinality(S) \in Nat
  /\ \A S \in SUBSET Clients : IsFiniteSet(S) /\ Cardinality(S) \in Nat
<1> DEFINE P == (Clients \X (1 .. MaxSend)) \X Handles
           f == [x \in P |-> [by |-> x[1][1], n |-> x[1][2], sch |-> x[2]]]
<1>1. IsFiniteSet(P)
  <2>1. IsFiniteSet(1 .. MaxSend)
    BY ScheduleAssumption, FS_Interval
  <2>2. IsFiniteSet(Clients \X (1 .. MaxSend))
    BY <2>1, ScheduleAssumption, FS_Product
  <2> QED BY <2>2, ScheduleAssumption, FS_Product
<1>2. f \in Surjection(P, Jobs)
  <2>1. f \in [P -> Jobs]
    BY DEF Jobs
  <2>2. ASSUME NEW j \in Jobs PROVE \E x \in P : f[x] = j
    <3>1. <<<<j.by, j.n>>, j.sch>> \in P
      BY DEF Jobs
    <3>2. f[<<<<j.by, j.n>>, j.sch>>] = j
      BY <3>1 DEF Jobs
    <3> QED BY <3>1, <3>2
  <2> QED BY <2>1, <2>2 DEF Surjection
<1> HIDE DEF P, f
<1>3. IsFiniteSet(Jobs)
  BY <1>1, <1>2, FS_Surjection
<1> QED BY <1>3, FS_Subset, FS_CardinalityType, ScheduleAssumption

\* Counting one more, or one less, in a set of jobs or of clients.
LEMMA CountOne ==
  ASSUME NEW S, IsFiniteSet(S), NEW x, NEW T
  PROVE  /\ x \notin S /\ T = S \cup {x} => Cardinality(T) = Cardinality(S) + 1
         /\ x \in S /\ T = S \ {x} => Cardinality(T) = Cardinality(S) - 1
  BY FS_AddElement, FS_RemoveElement

\* A step that leaves the books and the lists alone.
LEMMA KeepBooks ==
  ASSUME TypeOK, Books,
         UNCHANGED <<cursize, freejobs, nodes, hthr>>,
         \A j \in Jobs : fate'[j] = "queued" <=> fate[j] = "queued",
         \A h \in Handles : /\ hst'[h] = "unused" => hst[h] = "unused"
                            /\ hst'[h] \in {"live", "closing"} => hst[h] \in {"live", "closing"},
         \A t \in Threads : wpc'[t] # "freed" => wpc[t] # "freed",
         \A t \in Threads : Made(t)' = Made(t)
  PROVE  Books'
<1>1. \A h \in Handles : JobsIn(h)' = JobsIn(h) /\ hthr[h] \in Threads
  BY DEF JobsIn, TypeOK
<1>2. \A t \in Threads : JobsOn(t)' = JobsOn(t)
  BY DEF JobsOn
<1>3. ASSUME NEW h \in Handles PROVE SizeOf(h)'
  BY <1>1 DEF Books, SizeOf
<1>4. ASSUME NEW t \in Threads PROVE NodesOf(t)'
  BY <1>2 DEF Books, NodesOf
<1> QED BY <1>3, <1>4 DEF Books

\* Clients that hold a node keep it when nobody's state changes to or from made.
LEMMA KeepMade ==
  ASSUME \A c \in Clients : cpc'[c] = "made" <=> cpc[c] = "made",
         \A c \in Clients : cpc[c] = "made" => hthr'[ch'[c]] = hthr[ch[c]]
  PROVE  \A t \in Threads : Made(t)' = Made(t)
  BY DEF Made

\* A quiet step takes a node at most.
LEMMA QuietBooks ==
  ASSUME TypeOK, Linked, Placed, Books, QuietStep
  PROVE  Books'
<1> USE DEF schVars, queVars, thrVars, cliVars
<1>0. fate' = fate /\ hthr' = hthr
  BY QuietPlaced
<1>1. CASE \E c \in Clients : JobNew(c)
  <2> PICK c \in Clients : JobNew(c)
    BY <1>1
  <2> DEFINE u == hthr[ch[c]]
  <2>1. /\ u \in Threads /\ cpc[c] = "checked"
        /\ cpc' = [cpc EXCEPT ![c] = "made"] /\ cpc \in [Clients -> Pcs]
        /\ UNCHANGED <<hst, hthr, cursize, wpc, ch, fate>>
    BY TargetType DEF JobNew, TypeOK
  <2>2. ASSUME NEW h \in Handles PROVE SizeOf(h)'
    BY <2>1 DEF Books, SizeOf, JobsIn
  <2>3. ASSUME NEW t \in Threads PROVE NodesOf(t)'
    <3>0. /\ freejobs \in [Threads -> Nat] /\ nodes \in [Threads -> Nat]
          /\ Cardinality(JobsOn(t)) \in Nat /\ Cardinality(Made(t)) \in Nat
          /\ IsFiniteSet(Made(t))
      BY JobsFinite DEF TypeOK, JobsOn, Made
    <3>1. JobsOn(t)' = JobsOn(t)
      BY <2>1 DEF JobsOn
    <3>2. CASE t = u
      <4>1. c \notin Made(t) /\ Made(t)' = Made(t) \cup {c}
        BY <2>1, <3>2 DEF Made
      <4>2. Cardinality(Made(t)') = Cardinality(Made(t)) + 1
        BY <4>1, <3>0, CountOne
      <4>3. CASE HasFreeJob(u)
        <5>1. freejobs'[t] = freejobs[t] - 1 /\ nodes'[t] = nodes[t]
          BY <4>3, <3>0, <3>2 DEF JobNew
        <5>2. freejobs[t] \in Nat /\ nodes[t] \in Nat
          BY <3>0
        <5> QED BY <2>1, <3>0, <3>1, <4>2, <5>1, <5>2 DEF Books, NodesOf
      <4>4. CASE ~HasFreeJob(u)
        <5>1. freejobs'[t] = freejobs[t] /\ nodes'[t] = nodes[t] + 1
          BY <4>4, <3>0, <3>2 DEF JobNew
        <5>2. freejobs[t] \in Nat /\ nodes[t] \in Nat
          BY <3>0
        <5> QED BY <2>1, <3>0, <3>1, <4>2, <5>1, <5>2 DEF Books, NodesOf
      <4> QED BY <4>3, <4>4
    <3>3. CASE t # u
      <4>1. Made(t)' = Made(t)
        BY <2>1, <3>3 DEF Made
      <4>2. freejobs'[t] = freejobs[t] /\ nodes'[t] = nodes[t]
        BY <3>0, <3>3 DEF JobNew
      <4> QED BY <2>1, <3>1, <4>1, <4>2 DEF Books, NodesOf
    <3> QED BY <3>2, <3>3
  <2> QED BY <2>2, <2>3 DEF Books
<1>2. CASE ~\E c \in Clients : JobNew(c)
  <2>1. /\ UNCHANGED <<cursize, freejobs, nodes>>
        /\ \A h \in Handles : /\ hst'[h] = "unused" => hst[h] = "unused"
                              /\ hst'[h] \in {"live", "closing"} => hst[h] \in {"live", "closing"}
    <3>1. UNCHANGED <<cursize, freejobs, nodes>>
      BY <1>2 DEF QuietStep, JobNoMem, SemGive, PurgeSkip, PurgeDone, DeleteDec, DeleteFree, DeleteLock,
                  WorkerTop, WorkerWake, WorkerTimeout, WorkerDrained
    <3>2. hst \in [Handles -> {"unused", "live", "closing", "deleted"}] /\ ch \in [Clients -> Handles]
      BY DEF TypeOK
    <3>3. \/ hst' = hst
          \/ \E h \in Handles : hst[h] = "live" /\ hst' = [hst EXCEPT ![h] = "closing"]
          \/ \E h \in Handles : hst' = [hst EXCEPT ![h] = "deleted"]
      BY <1>2, <3>2 DEF QuietStep, JobNoMem, SemGive, PurgeSkip, PurgeDone, DeleteDec, DeleteFree, DeleteLock,
                  WorkerTop, WorkerWake, WorkerTimeout, WorkerDrained
    <3>4. \A h \in Handles : /\ hst'[h] = "unused" => hst[h] = "unused"
                             /\ hst'[h] \in {"live", "closing"} => hst[h] \in {"live", "closing"}
      BY <3>2, <3>3
    <3> QED BY <3>1, <3>4
  <2>2. \A t \in Threads : wpc'[t] # "freed" => wpc[t] # "freed"
    BY <1>2 DEF QuietStep, JobNoMem, SemGive, PurgeSkip, PurgeDone, DeleteDec, DeleteFree, DeleteLock,
                WorkerTop, WorkerWake, WorkerTimeout, WorkerDrained, TypeOK
  <2>3. \A d \in Clients : /\ cpc'[d] = "made" <=> cpc[d] = "made"
                           /\ cpc[d] = "made" => ch'[d] = ch[d]
    <3>0. cpc \in [Clients -> Pcs] /\ ch \in [Clients -> Handles]
      BY DEF TypeOK
    <3>1. CASE \E c \in Clients : JobNoMem(c) \/ SemGive(c)
      BY <3>0, <3>1 DEF JobNoMem, SemGive
    <3>2. CASE \E c \in Clients : PurgeSkip(c) \/ PurgeDone(c) \/ DeleteDec(c) \/ DeleteFree(c)
      BY <3>0, <3>2 DEF PurgeSkip, PurgeDone, DeleteDec, DeleteFree
    <3>3. CASE \E c \in Clients, h \in Handles : DeleteLock(c, h)
      BY <3>0, <3>3 DEF DeleteLock
    <3>4. CASE UNCHANGED <<cpc, ch>>
      BY <3>4
    <3> QED BY <1>2, <3>1, <3>2, <3>3, <3>4 DEF QuietStep, WorkerTop, WorkerWake, WorkerTimeout,
                                                WorkerDrained
  <2> QED BY <1>0, <2>1, <2>2, <2>3, KeepMade, KeepBooks
<1> QED BY <1>1, <1>2

\* A new schedule starts with an empty book.
LEMMA CreateBooks ==
  ASSUME TypeOK, Linked, Placed, Books, NEW k \in Calls, Create(k) \/ CreateShare(k)
  PROVE  Books'
<1>0. k.h \in Handles /\ hst[k.h] = "unused"
  BY CallType DEF Create, CreateShare
<1>1. /\ \A h \in Handles : h # k.h => hthr'[h] = hthr[h] /\ hst'[h] = hst[h]
      /\ hst'[k.h] = "live"
      /\ UNCHANGED <<cursize, freejobs, nodes, fate, cpc, ch>>
  BY <1>0 DEF Create, CreateShare, AddSchedule, queVars, cliVars, TypeOK
<1>2. \A j \in Jobs : fate[j] # "none" => j.sch \in Handles /\ j.sch # k.h
  BY <1>0, JobFields DEF Placed, SentOnly
<1>3. \A t \in Threads : wpc'[t] # "freed" => wpc[t] # "freed"
  <2>1. wpc[k.h] = "none" /\ wpc \in [Threads -> WorkerPcs]
    BY <1>0 DEF Linked, TypeOK
  <2> QED BY <1>0, <2>1 DEF Create, CreateShare
<1>4. ASSUME NEW h \in Handles PROVE SizeOf(h)'
  <2>1. JobsIn(h)' = JobsIn(h)
    BY <1>1 DEF JobsIn
  <2>2. CASE h = k.h
    <3>1. JobsIn(h) = {}
      BY <1>2, <2>2 DEF JobsIn
    <3>2. cursize[h] = 0
      BY <1>0, <2>2 DEF Books, SizeOf
    <3> QED BY <1>1, <2>1, <2>2, <3>1, <3>2, FS_EmptySet DEF SizeOf
  <2>3. CASE h # k.h
    <3>1. hthr[h] \in Threads
      BY DEF TypeOK
    <3> QED BY <1>1, <1>3, <2>1, <2>3, <3>1 DEF Books, SizeOf
  <2> QED BY <2>2, <2>3
<1>5. ASSUME NEW t \in Threads PROVE NodesOf(t)'
  <2>1. JobsOn(t)' = JobsOn(t)
    BY <1>1, <1>2 DEF JobsOn
  <2>2. Made(t)' = Made(t)
    <3>1. \A c \in Clients : cpc[c] = "made" => ch[c] \in Handles /\ ch[c] # k.h
      BY <1>0 DEF Linked, TypeOK
    <3> QED BY <1>1, <3>1 DEF Made
  <2> QED BY <1>1, <1>3, <2>1, <2>2 DEF Books, NodesOf
<1> QED BY <1>4, <1>5 DEF Books

\* The insertion counts the job and hands its node over.
LEMMA InsertBooks ==
  ASSUME TypeOK, Linked, Placed, Books, NEW c \in Clients, InsertJob(c)
  PROVE  Books'
<1> DEFINE g == ch[c]
           u == hthr[g]
           j == JobOf(c)
<1>0. /\ cpc[c] = "made" /\ g \in Handles /\ u \in Threads
      /\ j \in Jobs /\ j.sch = g /\ fate[j] = "none" /\ hst[g] # "unused"
  <2>1. cpc[c] = "made" /\ g \in Handles /\ u \in Threads
    BY TargetType DEF InsertJob, LinkLast
  <2>2. j \in Jobs /\ fate[j] = "none"
    BY <2>1, JobOfType, InsertPlaced DEF SenderPcs
  <2>3. j.sch = g /\ hst[g] # "unused"
    BY <2>1 DEF JobOf, Linked
  <2> QED BY <2>1, <2>2, <2>3
<1>1. /\ cursize' = [cursize EXCEPT ![g] = cursize[g] + 1] /\ cursize \in [Handles -> Int]
      /\ fate' = [fate EXCEPT ![j] = "queued"] /\ fate \in [Jobs -> Fates]
      /\ cpc' = [cpc EXCEPT ![c] = "give"] /\ cpc \in [Clients -> Pcs]
      /\ UNCHANGED <<hst, hthr, wpc, ch, freejobs, nodes>>
  BY DEF InsertJob, LinkLast, thrVars, TypeOK
<1> HIDE DEF g, u, j
<1>2. ASSUME NEW h \in Handles PROVE SizeOf(h)'
  <2>1. CASE h = g
    <3>1. j \notin JobsIn(h) /\ JobsIn(h)' = JobsIn(h) \cup {j} /\ IsFiniteSet(JobsIn(h))
      BY <1>0, <1>1, <2>1, JobsFinite DEF JobsIn
    <3>2. Cardinality(JobsIn(h)') = Cardinality(JobsIn(h)) + 1
      BY <3>1, CountOne
    <3> QED BY <1>0, <1>1, <2>1, <3>2 DEF Books, SizeOf
  <2>2. CASE h # g
    <3>1. JobsIn(h)' = JobsIn(h)
      BY <1>0, <1>1, <2>2 DEF JobsIn
    <3> QED BY <1>1, <2>2, <3>1 DEF Books, SizeOf
  <2> QED BY <2>1, <2>2
<1>3. ASSUME NEW t \in Threads PROVE NodesOf(t)'
  <2>1. CASE t = u
    <3>1. j \notin JobsOn(t) /\ JobsOn(t)' = JobsOn(t) \cup {j} /\ IsFiniteSet(JobsOn(t))
      BY <1>0, <1>1, <2>1, JobsFinite DEF JobsOn, u
    <3>2. c \in Made(t) /\ Made(t)' = Made(t) \ {c} /\ IsFiniteSet(Made(t))
      BY <1>0, <1>1, <2>1, JobsFinite DEF Made, u, g
    <3>3. /\ Cardinality(JobsOn(t)') = Cardinality(JobsOn(t)) + 1
          /\ Cardinality(Made(t)') = Cardinality(Made(t)) - 1
      BY <3>1, <3>2, CountOne
    <3>4. Cardinality(JobsOn(t)) \in Nat /\ Cardinality(Made(t)) \in Nat /\ freejobs[t] \in Nat
      BY JobsFinite DEF JobsOn, Made, TypeOK
    <3> QED BY <1>1, <3>3, <3>4 DEF Books, NodesOf
  <2>2. CASE t # u
    <3>1. JobsOn(t)' = JobsOn(t) /\ Made(t)' = Made(t)
      BY <1>0, <1>1, <2>2 DEF JobsOn, Made, u, g
    <3> QED BY <1>1, <3>1 DEF Books, NodesOf
  <2> QED BY <2>1, <2>2
<1> QED BY <1>2, <1>3 DEF Books

\* A job that leaves its list is counted out and its node goes to the free list.
LEMMA TakeBooks ==
  ASSUME TypeOK, Books, NEW j \in Jobs, NEW t \in Threads, NEW v \in {"started", "dropped"},
         fate[j] = "queued", hthr[j.sch] = t, hst[j.sch] # "unused",
         fate' = [fate EXCEPT ![j] = v], JobDelete(t, j.sch),
         UNCHANGED <<hst, hthr, nodes, cpc, ch>>,
         \A u \in Threads : wpc'[u] # "freed" => wpc[u] # "freed"
  PROVE  Books'
<1> DEFINE g == j.sch
<1>0. /\ g \in Handles
      /\ cursize' = [cursize EXCEPT ![g] = cursize[g] - 1] /\ cursize \in [Handles -> Int]
      /\ freejobs' = [freejobs EXCEPT ![t] = freejobs[t] + 1] /\ freejobs \in [Threads -> Nat]
      /\ fate \in [Jobs -> Fates] /\ hthr \in [Handles -> Threads]
  BY JobFields DEF JobDelete, TypeOK
<1> HIDE DEF g
<1>1. ASSUME NEW h \in Handles PROVE SizeOf(h)'
  <2>1. CASE h = g
    <3>1. j \in JobsIn(h) /\ JobsIn(h)' = JobsIn(h) \ {j} /\ IsFiniteSet(JobsIn(h))
      BY <1>0, <2>1, JobsFinite DEF JobsIn, g
    <3>2. Cardinality(JobsIn(h)') = Cardinality(JobsIn(h)) - 1
      BY <3>1, CountOne
    <3>3. cursize'[h] = cursize[h] - 1
      BY <1>0, <2>1
    <3> QED BY <1>0, <2>1, <3>2, <3>3 DEF Books, SizeOf, g
  <2>2. CASE h # g
    <3>1. JobsIn(h)' = JobsIn(h)
      BY <1>0, <2>2 DEF JobsIn, g
    <3>2. cursize'[h] = cursize[h]
      BY <1>0, <2>2
    <3> QED BY <1>0, <3>1, <3>2 DEF Books, SizeOf
  <2> QED BY <2>1, <2>2
<1>2. ASSUME NEW u \in Threads PROVE NodesOf(u)'
  <2>0. Made(u)' = Made(u)
    BY DEF Made
  <2>1. CASE u = t
    <3>1. j \in JobsOn(u) /\ JobsOn(u)' = JobsOn(u) \ {j} /\ IsFiniteSet(JobsOn(u))
      BY <1>0, <2>1, JobsFinite DEF JobsOn
    <3>2. Cardinality(JobsOn(u)') = Cardinality(JobsOn(u)) - 1
      BY <3>1, CountOne
    <3>3. Cardinality(JobsOn(u)) \in Nat /\ Cardinality(Made(u)) \in Nat /\ freejobs[u] \in Nat
      BY <1>0, JobsFinite DEF JobsOn, Made
    <3>4. freejobs'[u] = freejobs[u] + 1
      BY <1>0, <2>1
    <3> QED BY <2>0, <3>2, <3>3, <3>4 DEF Books, NodesOf
  <2>2. CASE u # t
    <3>1. JobsOn(u)' = JobsOn(u) /\ freejobs'[u] = freejobs[u]
      BY <1>0, <2>2 DEF JobsOn
    <3> QED BY <2>0, <3>1 DEF Books, NodesOf
  <2> QED BY <2>1, <2>2
<1> QED BY <1>1, <1>2 DEF Books

\* Every step keeps the books.
LEMMA StepBooks ==
  ASSUME TypeOK, Linked, Placed, Books, [Next]_vars
  PROVE  Books'
<1>1. CASE QuietStep
  BY <1>1, QuietBooks
<1>2. ASSUME NEW k \in Calls, Create(k) \/ CreateShare(k) PROVE Books'
  BY <1>2, CreateBooks
<1>3. ASSUME NEW c \in Clients, NEW h \in Handles, SendCheck(c, h) PROVE Books'
  <2>1. UNCHANGED <<cursize, freejobs, nodes, hthr, hst, wpc, fate>>
    BY <1>3 DEF SendCheck, schVars, queVars, thrVars
  <2>2. \A d \in Clients : /\ cpc'[d] = "made" <=> cpc[d] = "made"
                           /\ cpc[d] = "made" => ch'[d] = ch[d]
    BY <1>3 DEF SendCheck, TypeOK
  <2> QED BY <2>1, <2>2, KeepMade, KeepBooks
<1>4. ASSUME NEW c \in Clients, InsertJob(c) PROVE Books'
  BY <1>4, InsertBooks
<1>5. ASSUME NEW c \in Clients, PurgeJob(c) PROVE Books'
  <2> DEFINE t == hthr[ch[c]]
             p == hpri[ch[c]]
             j == que[t][p][scan[c]]
  <2>1. /\ t \in Threads /\ p \in Pri
        /\ fate' = [fate EXCEPT ![j] = "dropped"] /\ JobDelete(t, ch[c]) /\ j.sch = ch[c]
        /\ UNCHANGED <<hst, hthr, nodes, cpc, ch, wpc>>
    BY <1>5, TargetType DEF PurgeJob, thrVars, cliVars
  <2>2. scan[c] \in DOMAIN que[t][p]
    <3>1. scan[c] \in Nat \ {0} /\ que[t][p] \in Seq(Jobs)
      BY <2>1 DEF TypeOK
    <3>2. scan[c] <= Len(que[t][p])
      BY <1>5 DEF PurgeJob, Purging
    <3> QED BY <3>1, <3>2
  <2>3. j \in Jobs /\ fate[j] = "queued" /\ hthr[j.sch] = t
    BY <2>1, <2>2 DEF Placed, ListsHold, TypeOK
  <2>4. hst[j.sch] # "unused"
    BY <2>3 DEF Placed, SentOnly
  <2> HIDE DEF t, p, j
  <2>5. \A u \in Threads : wpc'[u] # "freed" => wpc[u] # "freed"
    BY <2>1
  <2>6. fate' = [fate EXCEPT ![j] = "dropped"] /\ JobDelete(t, j.sch) /\ UNCHANGED <<hst, hthr, nodes, cpc, ch>>
    BY <2>1
  <2> QED BY <2>1, <2>3, <2>4, <2>5, <2>6, TakeBooks
<1>6. ASSUME NEW t \in Threads, NEW p \in Pri, WorkerGet(t, p) PROVE Books'
  <2> DEFINE j == Head(que[t][p])
  <2>1. que[t][p] \in Seq(Jobs) /\ que[t][p] # <<>>
    BY <1>6 DEF WorkerGet, Urgent, TypeOK
  <2>2. 1 \in DOMAIN que[t][p] /\ j = que[t][p][1] /\ j \in Jobs
    BY <2>1
  <2>3. fate[j] = "queued" /\ hthr[j.sch] = t
    BY <2>2 DEF Placed, ListsHold
  <2>4. hst[j.sch] # "unused"
    BY <2>2, <2>3 DEF Placed, SentOnly
  <2>5. /\ fate' = [fate EXCEPT ![j] = "started"] /\ JobDelete(t, j.sch)
        /\ UNCHANGED <<hst, hthr, nodes, cpc, ch>>
    BY <1>6 DEF WorkerGet, cliVars
  <2>6. \A u \in Threads : wpc'[u] # "freed" => wpc[u] # "freed"
    BY <1>6 DEF WorkerGet, TypeOK
  <2> HIDE DEF j
  <2> QED BY <2>2, <2>3, <2>4, <2>5, <2>6, TakeBooks
<1>7. ASSUME NEW t \in Threads, WorkerCall(t) PROVE Books'
  <2>1. UNCHANGED <<cursize, freejobs, nodes, hthr, hst, cpc, ch>>
    BY <1>7 DEF WorkerCall, schVars, queVars, cliVars
  <2>2. \A j \in Jobs : fate'[j] = "queued" <=> fate[j] = "queued"
    BY <1>7 DEF WorkerCall, Placed, Running, TypeOK
  <2>3. \A u \in Threads : wpc'[u] # "freed" => wpc[u] # "freed"
    BY <1>7 DEF WorkerCall, TypeOK
  <2> QED BY <2>1, <2>2, <2>3, KeepMade, KeepBooks
<1>8. ASSUME NEW t \in Threads, WorkerExit(t) PROVE Books'
  <2>1. /\ UNCHANGED <<cursize, hthr, hst, cpc, ch>>
        /\ wpc'[t] = "freed"
        /\ \A u \in Threads : u # t => /\ wpc'[u] = wpc[u]
                                       /\ freejobs'[u] = freejobs[u] /\ nodes'[u] = nodes[u]
    BY <1>8 DEF WorkerExit, schVars, cliVars, TypeOK
  <2>2. \A j \in Jobs : fate'[j] = IF fate[j] = "queued" /\ hthr[j.sch] = t THEN "lost" ELSE fate[j]
    BY <1>8, ExitPlaced
  <2>3. ASSUME NEW h \in Handles PROVE SizeOf(h)'
    <3>1. hthr[h] \in Threads
      BY DEF TypeOK
    <3>2. hthr[h] # t => JobsIn(h)' = JobsIn(h)
      BY <2>2 DEF JobsIn
    <3> QED BY <2>1, <3>1, <3>2 DEF Books, SizeOf
  <2>4. ASSUME NEW u \in Threads PROVE NodesOf(u)'
    <3>1. u # t => JobsOn(u)' = JobsOn(u) /\ Made(u)' = Made(u)
      BY <2>1, <2>2 DEF JobsOn, Made
    <3> QED BY <2>1, <3>1 DEF Books, NodesOf
  <2> QED BY <2>3, <2>4 DEF Books
<1> QED BY <1>1, <1>2, <1>3, <1>4, <1>5, <1>6, <1>7, <1>8, StepCases

\* The places of h in its list are as many as its queued jobs.
LEMMA CountIn ==
  ASSUME TypeOK, Placed, NEW h \in Handles
  PROVE  Cardinality(QueuedOf(h)) = Cardinality(JobsIn(h))
<1> DEFINE s == que[hthr[h]][hpri[h]]
           f == [i \in QueuedOf(h) |-> s[i]]
<1>0. s \in Seq(Jobs) /\ Ordered(s) /\ \A i \in DOMAIN s : fate[s[i]] = "queued"
  BY DEF TypeOK, Placed, ListsHold
<1>1. QueuedOf(h) = {i \in DOMAIN s : s[i].sch = h}
  BY DEF QueuedOf
<1>2. \A j \in JobsIn(h) : \E i \in DOMAIN s : s[i] = j /\ j.sch = h
  BY DEF JobsIn, Placed, QueuedIsListed
<1> HIDE DEF s
<1>3. f \in [QueuedOf(h) -> JobsIn(h)]
  BY <1>0, <1>1 DEF JobsIn
<1>4. \A i, k \in QueuedOf(h) : f[i] = f[k] => i = k
  BY <1>0, <1>1, OrderedOnce
<1>5. \A j \in JobsIn(h) : \E i \in QueuedOf(h) : f[i] = j
  BY <1>1, <1>2
<1> HIDE DEF f
<1>6. f \in Bijection(QueuedOf(h), JobsIn(h))
  BY <1>3, <1>4, <1>5 DEF Bijection, Injection, IsInjective, Surjection
<1>7. IsFiniteSet(QueuedOf(h))
  <2>1. IsFiniteSet(1 .. Len(s)) /\ DOMAIN s = 1 .. Len(s)
    BY <1>0, FS_Interval
  <2>2. QueuedOf(h) \in SUBSET (1 .. Len(s))
    BY <1>1, <2>1
  <2> QED BY <2>1, <2>2, FS_Subset
<1> QED BY <1>6, <1>7, FS_Bijection DEF ExistsBijection

\* The places of all lists of t are as many as its queued jobs.
LEMMA CountOn ==
  ASSUME TypeOK, Placed, NEW t \in Threads
  PROVE  Cardinality(UNION {{p} \X DOMAIN que[t][p] : p \in Pri}) = Cardinality(JobsOn(t))
<1> DEFINE P == UNION {{p} \X DOMAIN que[t][p] : p \in Pri}
           f == [x \in P |-> que[t][x[1]][x[2]]]
<1>1. \A x \in P : x[1] \in Pri /\ x[2] \in DOMAIN que[t][x[1]] /\ x = <<x[1], x[2]>>
  OBVIOUS
<1>2. \A p \in Pri : \A i \in DOMAIN que[t][p] : <<p, i>> \in P
  OBVIOUS
<1>3. \A p \in Pri : /\ que[t][p] \in Seq(Jobs) /\ Ordered(que[t][p])
                     /\ \A i \in DOMAIN que[t][p] :
                          /\ fate[que[t][p][i]] = "queued"
                          /\ hthr[que[t][p][i].sch] = t
                          /\ hpri[que[t][p][i].sch] = p
  BY DEF TypeOK, Placed, ListsHold
<1>4. \A j \in JobsOn(t) : \E p \in Pri : \E i \in DOMAIN que[t][p] : que[t][p][i] = j
  BY JobFields DEF JobsOn, Placed, QueuedIsListed, TypeOK
<1> HIDE DEF P
<1>5. f \in [P -> JobsOn(t)]
  BY <1>1, <1>3 DEF JobsOn
<1>6. ASSUME NEW x \in P, NEW y \in P, f[x] = f[y] PROVE x = y
  <2>1. que[t][x[1]][x[2]] = que[t][y[1]][y[2]]
    BY <1>6
  <2>2. x[1] = y[1]
    BY <1>1, <1>3, <2>1
  <2>3. x[2] = y[2]
    BY <1>1, <1>3, <2>1, <2>2, OrderedOnce
  <2> QED BY <1>1, <2>2, <2>3
<1>7. \A j \in JobsOn(t) : \E x \in P : f[x] = j
  <2> SUFFICES ASSUME NEW j \in JobsOn(t) PROVE \E x \in P : f[x] = j
    OBVIOUS
  <2>1. PICK p \in Pri : \E i \in DOMAIN que[t][p] : que[t][p][i] = j
    BY <1>4
  <2>2. PICK i \in DOMAIN que[t][p] : que[t][p][i] = j
    BY <2>1
  <2>3. <<p, i>> \in P /\ f[<<p, i>>] = j
    BY <1>2, <2>2
  <2> QED BY <2>3
<1> HIDE DEF f
<1>8. f \in Injection(P, JobsOn(t)) /\ f \in Bijection(P, JobsOn(t))
  BY <1>5, <1>6, <1>7 DEF Bijection, Injection, IsInjective, Surjection
<1>9. IsFiniteSet(P)
  BY <1>8, JobsFinite, FS_Injection DEF JobsOn
<1> QED BY <1>8, <1>9, FS_Bijection DEF ExistsBijection, P

\* The books are always right.
LEMMA AlwaysBooks == Spec => []Books
<1>1. Init => Books
  <2> SUFFICES ASSUME Init PROVE Books
    OBVIOUS
  <2>1. ASSUME NEW h \in Handles PROVE SizeOf(h)
    BY DEF Init, SizeOf
  <2>2. ASSUME NEW t \in Threads PROVE NodesOf(t)
    <3>1. JobsOn(t) = {} /\ Made(t) = {}
      BY DEF Init, JobsOn, Made
    <3> QED BY <3>1, FS_EmptySet DEF Init, NodesOf
  <2> QED BY <2>1, <2>2 DEF Books
<1>2. TypeOK /\ Linked /\ Placed /\ Books /\ [Next]_vars => Books'
  BY StepBooks
<1> QED BY <1>1, <1>2, AlwaysPlaced, PTL DEF Spec

\* cursize counts the jobs of a schedule in the list, and every node a thread
\* allocated is on its free list, in a list or with a client: for any number of
\* clients, schedules and jobs, any port's atomics, and whoever deletes what
\* (_zcrt_s_insert_job, _zcrt_s_job_new, _zcrt_s_job_delete_has_mutex).
THEOREM BooksExact == Spec => []JobAccounting
<1>1. TypeOK /\ Placed /\ Books => JobAccounting
  BY CountIn, CountOn DEF Books, SizeOf, NodesOf, Made, JobAccounting, CursizeExact, NodesConserved
<1> QED BY <1>1, AlwaysBooks, AlwaysPlaced, PTL
-----------------------------------------------------------------------------
(***************************************************************************)
(* Theorems about Schedule: deleting schedules while jobs are sent and     *)
(* run.  What the reference count, the mutex and the purge of              *)
(* zcrt_schedule_delete guarantee together, and on which conditions.       *)
(***************************************************************************)

\* The client is inside zcrt_schedule_delete, past the lock.
Deleting(c) == cpc[c] \in {"purge", "purged", "dec"}
\* The schedule can still have jobs and hold its reference.
Open(h) == hst[h] \in {"live", "closing"}

\* A schedule is deleted by one client, once.
Deleters ==
  /\ \A c \in Clients : Deleting(c) => hst[ch[c]] = "closing"
  /\ \A c, d \in Clients : Deleting(c) /\ Deleting(d) /\ ch[c] = ch[d] => c = d

\* Who purges holds the mutex of the thread, alone.
Locking ==
  /\ \A c \in Clients : cpc[c] = "purge" => lock[hthr[ch[c]]]
  /\ \A c, d \in Clients :
       cpc[c] = "purge" /\ cpc[d] = "purge" /\ hthr[ch[c]] = hthr[ch[d]] => c = d

\* Behind the cursor of a purge there is no job of its schedule.
Swept ==
  \A c \in Clients : cpc[c] = "purge" =>
    \A i \in DOMAIN que[hthr[ch[c]]][hpri[ch[c]]] :
      i < scan[c] => que[hthr[ch[c]]][hpri[ch[c]]][i].sch # ch[c]

\* A selfThread schedule is on the thread that was made for it.
SelfOwn == \A h \in Handles : hst[h] # "unused" /\ htype[h] = "selfThread" => hthr[h] = h

-----------------------------------------------------------------------------
(* What a step can do to deletions.                                        *)

\* The step neither creates a schedule nor takes a step of a deletion, but
\* perhaps one of a purge.
PlainStep ==
  /\ UNCHANGED <<hst, hthr, hpri, htype, refCnt, run, lock, cnt>>
  /\ \A c \in Clients : /\ cpc'[c] \in {"purge", "purged", "dec"} <=> cpc[c] \in {"purge", "purged", "dec"}
                        /\ Deleting(c) => cpc'[c] = cpc[c] /\ ch'[c] = ch[c]
  /\ \A t \in Threads : /\ wpc'[t] \in {"exit", "freed"} => wpc[t] \in {"exit", "freed"} \/ ~run[t]
                        /\ wpc'[t] # "freed" => wpc[t] # "freed"

\* Every step is plain, or one of the others.
LEMMA PlainCases ==
  ASSUME TypeOK, [Next]_vars
  PROVE  \/ PlainStep
         \/ \E k \in Calls : Create(k) \/ CreateShare(k)
         \/ \E c \in Clients, h \in Handles : DeleteLock(c, h)
         \/ \E c \in Clients : PurgeDone(c) \/ DeleteDec(c) \/ DeleteFree(c)
<1> USE DEF schVars, queVars, thrVars, cliVars
<1>0. /\ cpc \in [Clients -> Pcs] /\ ch \in [Clients -> Handles]
      /\ wpc \in [Threads -> WorkerPcs]
  BY DEF TypeOK
<1>1. CASE UNCHANGED <<schVars, queVars, thrVars, cliVars, fate>>
  BY <1>1 DEF PlainStep
<1>2. ASSUME NEW c \in Clients, NEW h \in Handles, SendCheck(c, h) PROVE PlainStep
  BY <1>0, <1>2 DEF SendCheck, PlainStep, Deleting
<1>3. ASSUME NEW c \in Clients, JobNew(c) \/ JobNoMem(c) \/ InsertJob(c) \/ SemGive(c) PROVE PlainStep
  BY <1>0, <1>3 DEF JobNew, JobNoMem, InsertJob, LinkLast, SemGive, PlainStep, Deleting
<1>4. ASSUME NEW c \in Clients, PurgeJob(c) \/ PurgeSkip(c) PROVE PlainStep
  BY <1>0, <1>4 DEF PurgeJob, PurgeSkip, PlainStep
<1>5. ASSUME NEW t \in Threads, Worker(t) PROVE PlainStep
  <2>1. UNCHANGED <<hst, hthr, hpri, htype, refCnt, run, lock, cnt, cpc, ch>>
    BY <1>5 DEF Worker, WorkerTop, WorkerWake, WorkerTimeout, WorkerGet, WorkerCall,
                WorkerDrained, WorkerExit
  <2>2. CASE WorkerTop(t)
    BY <1>0, <2>1, <2>2 DEF WorkerTop, PlainStep
  <2>3. CASE WorkerExit(t)
    BY <1>0, <2>1, <2>3 DEF WorkerExit, PlainStep
  <2>4. CASE ~WorkerTop(t) /\ ~WorkerExit(t)
    <3>1. \E v \in {"drain", "call", "top"} : wpc' = [wpc EXCEPT ![t] = v]
      BY <1>5, <2>4 DEF Worker, WorkerWake, WorkerTimeout, WorkerGet, WorkerCall, WorkerDrained
    <3>2. wpc[t] # "freed"
      BY <1>5, <2>4 DEF Worker, WorkerWake, WorkerTimeout, WorkerGet, WorkerCall, WorkerDrained
    <3> QED BY <1>0, <2>1, <3>1, <3>2 DEF PlainStep
  <2> QED BY <2>2, <2>3, <2>4
<1>6. CASE UNCHANGED vars
  BY <1>1, <1>6 DEF vars
<1>7. CASE \/ \E c \in Clients : InsertAssert(c) \/ ClientUsesFreed(c)
           \/ \E h \in Handles : DeleteUsesFreed(h)
           \/ \E t \in Threads, p \in Pri : WorkerUsesFreed(t, p)
  BY <1>1, <1>7 DEF InsertAssert, ClientUsesFreed, DeleteUsesFreed, WorkerUsesFreed
<1> QED BY <1>2, <1>3, <1>4, <1>5, <1>6, <1>7 DEF Next, Send, Delete

\* What a creation does to schedules and threads.
LEMMA CreateEffect ==
  ASSUME TypeOK, Linked, NEW k \in Calls, Create(k) \/ CreateShare(k)
  PROVE  /\ k.h \in Handles /\ hst[k.h] = "unused" /\ wpc[k.h] = "none"
         /\ hst' = [hst EXCEPT ![k.h] = "live"]
         /\ UNCHANGED <<que, sem, lock, cliVars, fate, fault>>
         /\ \E t \in Threads :
              /\ hthr' = [hthr EXCEPT ![k.h] = t]
              /\ refCnt' = [refCnt EXCEPT ![t] = Inc(refCnt[t])]
              /\ \/ /\ t = k.h /\ htype'[k.h] = "selfThread"
                    /\ run' = [run EXCEPT ![t] = TRUE]
                    /\ wpc' = [wpc EXCEPT ![t] = "top"]
                 \/ /\ t = ZThr /\ htype'[k.h] # "selfThread"
                    /\ UNCHANGED <<run, wpc>>
                 \/ /\ \E g \in Handles : hst[g] = "live" /\ hthr[g] = t /\ htype[g] = "selfThread"
                    /\ htype'[k.h] # "selfThread"
                    /\ UNCHANGED <<run, wpc>>
         /\ \A h \in Handles : h # k.h => hpri'[h] = hpri[h] /\ htype'[h] = htype[h]
<1>0. k.h \in Handles /\ hst[k.h] = "unused"
  BY CallType DEF Create, CreateShare
<1>1. wpc[k.h] = "none" /\ htype \in [Handles -> SchTypes] /\ hpri \in [Handles -> Pri]
  BY <1>0 DEF Linked, TypeOK
<1>2. CASE Create(k)
  <2> DEFINE t == IF k.type = "selfThread" THEN k.h ELSE ZThr
  <2>1. t \in Threads /\ AddSchedule(k.h, t, k.type, k.pri, k.max)
    BY <1>0, <1>2 DEF Create, Threads
  <2>2. /\ hst' = [hst EXCEPT ![k.h] = "live"]
        /\ UNCHANGED <<que, sem, lock, cliVars, fate, fault>>
        /\ hthr' = [hthr EXCEPT ![k.h] = t]
        /\ refCnt' = [refCnt EXCEPT ![t] = Inc(refCnt[t])]
        /\ htype' = [htype EXCEPT ![k.h] = k.type]
        /\ hpri' = [hpri EXCEPT ![k.h] = k.pri]
    BY <2>1 DEF AddSchedule, queVars
  <2>3. CASE k.type = "selfThread"
    BY <1>0, <1>1, <1>2, <2>1, <2>2, <2>3 DEF Create
  <2>4. CASE k.type # "selfThread"
    BY <1>0, <1>1, <1>2, <2>1, <2>2, <2>4 DEF Create
  <2> QED BY <2>3, <2>4
<1>3. CASE CreateShare(k)
  <2> DEFINE self == htype[k.of] = "selfThread"
             t == IF self THEN hthr[k.of] ELSE ZThr
             type == IF self THEN "shareThread" ELSE "zcrtThread"
  <2>1. /\ t \in Threads /\ AddSchedule(k.h, t, type, k.pri, k.max) /\ UNCHANGED <<run, wpc>>
        /\ k.of \in Handles /\ hst[k.of] = "live"
    BY <1>0, <1>3, CallType DEF CreateShare, Threads, TypeOK
  <2>2. /\ hst' = [hst EXCEPT ![k.h] = "live"]
        /\ UNCHANGED <<que, sem, lock, cliVars, fate, fault>>
        /\ hthr' = [hthr EXCEPT ![k.h] = t]
        /\ refCnt' = [refCnt EXCEPT ![t] = Inc(refCnt[t])]
        /\ htype' = [htype EXCEPT ![k.h] = type]
        /\ hpri' = [hpri EXCEPT ![k.h] = k.pri]
    BY <2>1 DEF AddSchedule, queVars
  <2>3. type # "selfThread" /\ htype'[k.h] = type
    BY <1>0, <1>1, <2>2
  <2>4. CASE self
    BY <1>0, <1>1, <2>1, <2>2, <2>3, <2>4
  <2>5. CASE ~self
    BY <1>0, <1>1, <2>1, <2>2, <2>3, <2>5
  <2> QED BY <2>4, <2>5
<1> QED BY <1>2, <1>3

-----------------------------------------------------------------------------
(* Who deletes, and with which lock.                                       *)

\* Every step keeps Deleters.
LEMMA StepDeleters ==
  ASSUME TypeOK, Linked, Deleters, [Next]_vars
  PROVE  Deleters'
<1>0. /\ cpc \in [Clients -> Pcs] /\ ch \in [Clients -> Handles]
      /\ hst \in [Handles -> {"unused", "live", "closing", "deleted"}]
  BY DEF TypeOK
<1>1. CASE PlainStep
  BY <1>1 DEF PlainStep, Deleters, Deleting
<1>2. ASSUME NEW k \in Calls, Create(k) \/ CreateShare(k) PROVE Deleters'
  <2>1. /\ k.h \in Handles /\ hst[k.h] = "unused" /\ hst' = [hst EXCEPT ![k.h] = "live"]
        /\ UNCHANGED <<cpc, ch>>
    BY <1>2, CreateEffect DEF cliVars
  <2> QED BY <1>0, <2>1 DEF Deleters, Deleting
<1>3. ASSUME NEW c \in Clients, NEW h \in Handles, DeleteLock(c, h) PROVE Deleters'
  <2>1. /\ cpc[c] = "idle" /\ hst[h] = "live"
        /\ hst' = [hst EXCEPT ![h] = "closing"]
        /\ ch' = [ch EXCEPT ![c] = h] /\ cpc' = [cpc EXCEPT ![c] = "purge"]
    BY <1>3 DEF DeleteLock
  <2>2. \A d \in Clients : d # c => cpc'[d] = cpc[d] /\ ch'[d] = ch[d]
    BY <1>0, <2>1
  <2>3. \A d \in Clients : Deleting(d) => ch[d] # h /\ d # c
    BY <2>1 DEF Deleters, Deleting
  <2> QED BY <1>0, <2>1, <2>2, <2>3 DEF Deleters, Deleting
<1>4. ASSUME NEW c \in Clients, PurgeDone(c) \/ DeleteDec(c) PROVE Deleters'
  <2>1. /\ Deleting(c) /\ \A d \in Clients : Deleting(d)' => Deleting(d)
        /\ UNCHANGED <<hst, ch>>
    BY <1>0, <1>4 DEF PurgeDone, DeleteDec, schVars, Deleting
  <2> QED BY <2>1 DEF Deleters
<1>5. ASSUME NEW c \in Clients, DeleteFree(c) PROVE Deleters'
  <2>1. /\ Deleting(c)
        /\ hst' = [hst EXCEPT ![ch[c]] = "deleted"] /\ cpc' = [cpc EXCEPT ![c] = "idle"] /\ ch' = ch
    BY <1>5 DEF DeleteFree, Deleting
  <2>2. \A d \in Clients : Deleting(d)' => Deleting(d) /\ d # c /\ ch[d] # ch[c]
    BY <1>0, <2>1 DEF Deleters, Deleting
  <2> QED BY <1>0, <2>1, <2>2 DEF Deleters
<1> QED BY <1>1, <1>2, <1>3, <1>4, <1>5, PlainCases

\* A step keeps Locking when nobody begins or ends a purge.
LEMMA KeepLocking ==
  ASSUME Locking,
         \A c \in Clients : cpc'[c] = "purge" =>
           cpc[c] = "purge" /\ ch'[c] = ch[c] /\ hthr'[ch[c]] = hthr[ch[c]],
         \A t \in Threads : lock[t] => lock'[t],
         \A c \in Clients : hthr[ch[c]] \in Threads
  PROVE  Locking'
  BY DEF Locking

\* Every step keeps Locking: a purge begins when the mutex is free.
LEMMA StepLocking ==
  ASSUME TypeOK, Linked, Deleters, Locking, [Next]_vars
  PROVE  Locking'
<1>0. /\ cpc \in [Clients -> Pcs] /\ ch \in [Clients -> Handles]
      /\ hthr \in [Handles -> Threads] /\ lock \in [Threads -> BOOLEAN]
      /\ \A c \in Clients : ch[c] \in Handles /\ hthr[ch[c]] \in Threads
  BY DEF TypeOK
<1>1. CASE PlainStep
  BY <1>0, <1>1, KeepLocking DEF PlainStep, Deleting
<1>2. ASSUME NEW k \in Calls, Create(k) \/ CreateShare(k) PROVE Locking'
  <2>1. /\ k.h \in Handles /\ hst[k.h] = "unused" /\ UNCHANGED <<cpc, ch, lock>>
        /\ \E t \in Threads : hthr' = [hthr EXCEPT ![k.h] = t]
    BY <1>2, CreateEffect DEF cliVars
  <2>2. \A c \in Clients : cpc[c] = "purge" => ch[c] # k.h
    BY <2>1 DEF Linked
  <2> QED BY <1>0, <2>1, <2>2, KeepLocking
<1>3. ASSUME NEW c \in Clients, NEW h \in Handles, DeleteLock(c, h) PROVE Locking'
  <2>1. /\ ~lock[hthr[h]] /\ lock' = [lock EXCEPT ![hthr[h]] = TRUE] /\ hthr' = hthr
        /\ ch' = [ch EXCEPT ![c] = h] /\ cpc' = [cpc EXCEPT ![c] = "purge"]
    BY <1>3 DEF DeleteLock
  <2>2. \A d \in Clients : d # c => cpc'[d] = cpc[d] /\ ch'[d] = ch[d]
    BY <1>0, <2>1
  <2>3. \A d \in Clients : cpc[d] = "purge" => lock[hthr[ch[d]]] /\ hthr[ch[d]] # hthr[h]
    BY <2>1 DEF Locking
  <2>4. ch'[c] = h /\ \A t \in Threads : lock[t] => lock'[t]
    BY <1>0, <2>1
  <2>5. lock'[hthr[h]]
    BY <1>0, <2>1
  <2>6. \A d \in Clients : cpc'[d] = "purge" => lock'[hthr'[ch'[d]]]
    BY <1>0, <2>1, <2>2, <2>3, <2>4, <2>5
  <2>7. \A d, e \in Clients :
          cpc'[d] = "purge" /\ cpc'[e] = "purge" /\ hthr'[ch'[d]] = hthr'[ch'[e]] => d = e
    BY <2>1, <2>2, <2>3, <2>4 DEF Locking
  <2> QED BY <2>6, <2>7 DEF Locking
<1>4. ASSUME NEW c \in Clients, PurgeDone(c) PROVE Locking'
  <2>1. /\ cpc[c] = "purge" /\ cpc' = [cpc EXCEPT ![c] = "purged"]
        /\ lock' = [lock EXCEPT ![hthr[ch[c]]] = FALSE] /\ UNCHANGED <<hthr, ch>>
    BY <1>4 DEF PurgeDone, schVars
  <2>2. \A d \in Clients : cpc'[d] = "purge" => cpc[d] = "purge" /\ d # c
    BY <1>0, <2>1
  <2>3. \A d \in Clients : cpc'[d] = "purge" => lock[hthr[ch[d]]] /\ hthr[ch[d]] # hthr[ch[c]]
    BY <2>1, <2>2 DEF Locking
  <2>4. \A d \in Clients : cpc'[d] = "purge" => lock'[hthr[ch[d]]]
    BY <1>0, <2>1, <2>3
  <2> QED BY <2>1, <2>2, <2>4 DEF Locking
<1>5. ASSUME NEW c \in Clients, DeleteDec(c) \/ DeleteFree(c) PROVE Locking'
  <2>1. /\ UNCHANGED <<hthr, ch, lock>> /\ \A d \in Clients : cpc'[d] = "purge" => cpc[d] = "purge"
    BY <1>0, <1>5 DEF DeleteDec, DeleteFree, schVars
  <2> QED BY <1>0, <2>1, KeepLocking
<1> QED BY <1>1, <1>2, <1>3, <1>4, <1>5, PlainCases

\* A step keeps Swept when the lists of purging clients and their cursors stay.
LEMMA KeepSwept ==
  ASSUME Swept,
         \A c \in Clients : cpc'[c] = "purge" =>
           /\ cpc[c] = "purge" /\ ch'[c] = ch[c] /\ scan'[c] = scan[c]
           /\ hthr'[ch[c]] = hthr[ch[c]] /\ hpri'[ch[c]] = hpri[ch[c]]
           /\ \/ que'[hthr[ch[c]]][hpri[ch[c]]] = que[hthr[ch[c]]][hpri[ch[c]]]
              \/ que'[hthr[ch[c]]][hpri[ch[c]]] = <<>>
  PROVE  Swept'
<1> SUFFICES ASSUME NEW c \in Clients, cpc'[c] = "purge",
                    NEW i \in DOMAIN que'[hthr'[ch'[c]]][hpri'[ch'[c]]], i < scan'[c]
             PROVE  que'[hthr'[ch'[c]]][hpri'[ch'[c]]][i].sch # ch'[c]
  BY DEF Swept
<1>1. /\ cpc[c] = "purge" /\ ch'[c] = ch[c] /\ scan'[c] = scan[c]
      /\ hthr'[ch[c]] = hthr[ch[c]] /\ hpri'[ch[c]] = hpri[ch[c]]
  OBVIOUS
<1>2. que'[hthr[ch[c]]][hpri[ch[c]]] = que[hthr[ch[c]]][hpri[ch[c]]]
  BY <1>1
<1>3. i \in DOMAIN que[hthr[ch[c]]][hpri[ch[c]]] /\ i < scan[c]
  BY <1>1, <1>2
<1>4. que[hthr[ch[c]]][hpri[ch[c]]][i].sch # ch[c]
  BY <1>1, <1>3 DEF Swept
<1> QED BY <1>1, <1>2, <1>4

\* Every step keeps Swept: the purge holds the mutex, so nobody else changes
\* its list, and it moves on only past jobs of other schedules.
LEMMA StepSwept ==
  ASSUME TypeOK, Linked, Placed, Deleters, Locking, Swept, [Next]_vars
  PROVE  Swept'
<1>0. /\ cpc \in [Clients -> Pcs] /\ ch \in [Clients -> Handles] /\ scan \in [Clients -> Nat \ {0}]
      /\ hthr \in [Handles -> Threads] /\ hpri \in [Handles -> Pri]
      /\ que \in [Threads -> [Pri -> Seq(Jobs)]]
      /\ \A c \in Clients : ch[c] \in Handles /\ hthr[ch[c]] \in Threads /\ hpri[ch[c]] \in Pri
  BY DEF TypeOK
<1>1. CASE UNCHANGED <<schVars, queVars, thrVars, cliVars, fate>>
  BY <1>1 DEF Swept, schVars, queVars, cliVars
<1>2. ASSUME NEW k \in Calls, Create(k) \/ CreateShare(k) PROVE Swept'
  <2>1. /\ k.h \in Handles /\ hst[k.h] = "unused" /\ UNCHANGED <<cpc, ch, scan, que>>
        /\ \E t \in Threads : hthr' = [hthr EXCEPT ![k.h] = t]
        /\ \A h \in Handles : h # k.h => hpri'[h] = hpri[h]
    BY <1>2, CreateEffect DEF cliVars
  <2>2. \A c \in Clients : cpc[c] = "purge" => ch[c] # k.h
    BY <2>1 DEF Linked
  <2> QED BY <1>0, <2>1, <2>2, KeepSwept
<1>3. ASSUME NEW c \in Clients, NEW h \in Handles, SendCheck(c, h) PROVE Swept'
  <2>1. /\ cpc' = [cpc EXCEPT ![c] = IF HasRoom(h) THEN "checked" ELSE "idle"]
        /\ ch' = [ch EXCEPT ![c] = h] /\ cpc[c] = "idle"
        /\ UNCHANGED <<hthr, hpri, que, scan>>
    BY <1>3 DEF SendCheck, schVars, queVars
  <2>2. \A d \in Clients : cpc'[d] = "purge" => cpc[d] = "purge" /\ ch'[d] = ch[d]
    BY <1>0, <2>1
  <2> QED BY <2>1, <2>2, KeepSwept
<1>4. ASSUME NEW c \in Clients, JobNew(c) \/ JobNoMem(c) \/ SemGive(c) \/ PurgeDone(c)
                                \/ DeleteDec(c) \/ DeleteFree(c)
      PROVE  Swept'
  <2>1. UNCHANGED <<hthr, hpri, que, ch>>
    BY <1>4 DEF JobNew, JobNoMem, SemGive, PurgeDone, DeleteDec, DeleteFree, schVars, queVars
  <2>2. \A d \in Clients : cpc'[d] = "purge" => cpc[d] = "purge" /\ scan'[d] = scan[d]
    BY <1>0, <1>4 DEF JobNew, JobNoMem, SemGive, PurgeDone, DeleteDec, DeleteFree
  <2> QED BY <2>1, <2>2, KeepSwept
<1>5. ASSUME NEW c \in Clients, InsertJob(c) PROVE Swept'
  <2>1. /\ ~lock[hthr[ch[c]]] /\ UNCHANGED <<hthr, hpri, ch, scan>>
        /\ \A d \in Clients : cpc'[d] = "purge" => cpc[d] = "purge"
    BY <1>0, <1>5 DEF InsertJob, LinkLast
  <2>2. \A t \in Threads : t # hthr[ch[c]] => que'[t] = que[t]
    BY <1>0, <1>5 DEF InsertJob, LinkLast
  <2>3. \A d \in Clients : cpc[d] = "purge" => hthr[ch[d]] # hthr[ch[c]]
    BY <2>1 DEF Locking
  <2> QED BY <1>0, <2>1, <2>2, <2>3, KeepSwept
<1>6. ASSUME NEW c \in Clients, NEW h \in Handles, DeleteLock(c, h) PROVE Swept'
  <2>1. /\ cpc' = [cpc EXCEPT ![c] = "purge"] /\ ch' = [ch EXCEPT ![c] = h]
        /\ scan' = [scan EXCEPT ![c] = 1] /\ UNCHANGED <<hthr, hpri, que>>
    BY <1>6 DEF DeleteLock, queVars
  <2> SUFFICES ASSUME NEW d \in Clients, cpc'[d] = "purge",
                      NEW i \in DOMAIN que'[hthr'[ch'[d]]][hpri'[ch'[d]]], i < scan'[d]
               PROVE  que'[hthr'[ch'[d]]][hpri'[ch'[d]]][i].sch # ch'[d]
    BY DEF Swept
  <2>2. CASE d = c
    <3>1. ch'[d] = h /\ scan'[d] = 1 /\ que[hthr[h]][hpri[h]] \in Seq(Jobs)
      BY <1>0, <2>1, <2>2
    <3>2. i \in DOMAIN que[hthr[h]][hpri[h]]
      BY <2>1, <3>1
    <3>3. ~(i < 1)
      BY <3>1, <3>2
    <3> QED BY <3>1, <3>3
  <2>3. CASE d # c
    BY <1>0, <2>1, <2>3 DEF Swept
  <2> QED BY <2>2, <2>3
<1>7. ASSUME NEW c \in Clients, PurgeJob(c) PROVE Swept'
  <2> DEFINE t == hthr[ch[c]]
             p == hpri[ch[c]]
             s == que[t][p]
  <2>1. /\ cpc[c] = "purge" /\ UNCHANGED <<cpc, ch, scan, hthr, hpri>>
        /\ que' = [que EXCEPT ![t][p] = RemoveAt(s, scan[c])] /\ scan[c] <= Len(s)
    BY <1>7 DEF PurgeJob, Purging, cliVars
  <2>2. s \in Seq(Jobs) /\ scan[c] \in 1 .. Len(s) /\ s # <<>>
    <3>1. s \in Seq(Jobs) /\ scan[c] \in Nat \ {0}
      BY <1>0
    <3> QED BY <2>1, <3>1
  <2>3. Without(s, scan[c], RemoveAt(s, scan[c]))
    BY <2>2, TakenOut
  <2>4. \A i \in DOMAIN s : i < scan[c] => s[i].sch # ch[c]
    BY <2>1 DEF Swept
  <2>5. \A i \in DOMAIN RemoveAt(s, scan[c]) : i < scan[c] =>
          i \in DOMAIN s /\ RemoveAt(s, scan[c])[i] = s[i]
    BY <2>2, <2>3 DEF Without
  <2>6. que'[t][p] = RemoveAt(s, scan[c]) /\ \A u \in Threads : u # t => que'[u] = que[u]
    BY <1>0, <2>1
  <2>7. \A d \in Clients : cpc[d] = "purge" /\ d # c => hthr[ch[d]] # t
    BY <2>1 DEF Locking
  <2> SUFFICES ASSUME NEW d \in Clients, cpc'[d] = "purge",
                      NEW i \in DOMAIN que'[hthr'[ch'[d]]][hpri'[ch'[d]]], i < scan'[d]
               PROVE  que'[hthr'[ch'[d]]][hpri'[ch'[d]]][i].sch # ch'[d]
    BY DEF Swept
  <2>8. CASE d = c
    <3>1. hthr'[ch'[d]] = t /\ hpri'[ch'[d]] = p /\ ch'[d] = ch[c] /\ scan'[d] = scan[c]
      BY <2>1, <2>8
    <3>2. que'[hthr'[ch'[d]]][hpri'[ch'[d]]] = RemoveAt(s, scan[c])
      BY <2>6, <3>1
    <3>3. i \in DOMAIN RemoveAt(s, scan[c]) /\ i < scan[c]
      BY <3>1, <3>2
    <3> HIDE DEF t, p, s
    <3>4. i \in DOMAIN s /\ RemoveAt(s, scan[c])[i] = s[i]
      BY <2>5, <3>3
    <3>5. s[i].sch # ch[c]
      BY <2>4, <3>3, <3>4
    <3> QED BY <3>1, <3>2, <3>4, <3>5
  <2>9. CASE d # c
    BY <1>0, <2>1, <2>6, <2>7, <2>9 DEF Swept
  <2> QED BY <2>8, <2>9
<1>8. ASSUME NEW c \in Clients, PurgeSkip(c) PROVE Swept'
  <2>1. /\ scan' = [scan EXCEPT ![c] = scan[c] + 1]
        /\ que[hthr[ch[c]]][hpri[ch[c]]][scan[c]].sch # ch[c]
        /\ UNCHANGED <<cpc, ch, hthr, hpri, que>>
    BY <1>8 DEF PurgeSkip, schVars, queVars
  <2> SUFFICES ASSUME NEW d \in Clients, cpc[d] = "purge",
                      NEW i \in DOMAIN que[hthr[ch[d]]][hpri[ch[d]]], i < scan'[d]
               PROVE  que[hthr[ch[d]]][hpri[ch[d]]][i].sch # ch[d]
    BY <2>1 DEF Swept
  <2>2. CASE d = c
    <3>1. scan[c] \in Nat /\ scan'[c] = scan[c] + 1 /\ i \in Nat
      BY <1>0, <2>1
    <3>2. i < scan[c] \/ i = scan[c]
      BY <2>2, <3>1
    <3> QED BY <2>1, <2>2, <3>2 DEF Swept
  <2>3. CASE d # c
    BY <1>0, <2>1, <2>3 DEF Swept
  <2> QED BY <2>2, <2>3
<1>9. ASSUME NEW t \in Threads, Worker(t) PROVE Swept'
  <2>1. UNCHANGED <<cpc, ch, scan, hthr, hpri>>
    BY <1>9 DEF Worker, WorkerTop, WorkerWake, WorkerTimeout, WorkerGet, WorkerCall,
                WorkerDrained, WorkerExit, schVars, cliVars
  <2>2. CASE \E p \in Pri : WorkerGet(t, p)
    <3>1. ~lock[t] /\ \A u \in Threads : u # t => que'[u] = que[u]
      BY <1>0, <2>2 DEF WorkerGet
    <3>2. \A d \in Clients : cpc[d] = "purge" => hthr[ch[d]] # t
      BY <3>1 DEF Locking
    <3> QED BY <1>0, <2>1, <3>1, <3>2, KeepSwept
  <2>3. CASE WorkerExit(t)
    <3>1. \A u \in Threads, p \in Pri : que'[u][p] = que[u][p] \/ que'[u][p] = <<>>
      BY <1>0, <2>3 DEF WorkerExit
    <3> QED BY <1>0, <2>1, <3>1, KeepSwept
  <2>4. CASE UNCHANGED que
    BY <2>1, <2>4, KeepSwept
  <2> QED BY <1>9, <2>2, <2>3, <2>4 DEF Worker, WorkerTop, WorkerWake, WorkerTimeout, WorkerCall,
                                        WorkerDrained, queVars
<1>10. CASE UNCHANGED vars
  BY <1>1, <1>10 DEF vars
<1>11. CASE \/ \E c \in Clients : InsertAssert(c) \/ ClientUsesFreed(c)
            \/ \E h \in Handles : DeleteUsesFreed(h)
            \/ \E t \in Threads, p \in Pri : WorkerUsesFreed(t, p)
  BY <1>1, <1>11 DEF InsertAssert, ClientUsesFreed, DeleteUsesFreed, WorkerUsesFreed
<1> QED BY <1>2, <1>3, <1>4, <1>5, <1>6, <1>7, <1>8, <1>9, <1>10, <1>11 DEF Next, Send, Delete

\* Every step keeps SelfOwn.
LEMMA StepSelfOwn ==
  ASSUME TypeOK, Linked, SelfOwn, [Next]_vars
  PROVE  SelfOwn'
<1>0. /\ hst \in [Handles -> {"unused", "live", "closing", "deleted"}]
      /\ hthr \in [Handles -> Threads] /\ ch \in [Clients -> Handles]
  BY DEF TypeOK
<1>1. CASE PlainStep
  BY <1>1 DEF PlainStep, SelfOwn
<1>2. ASSUME NEW k \in Calls, Create(k) \/ CreateShare(k) PROVE SelfOwn'
  <2>1. /\ k.h \in Handles /\ hst' = [hst EXCEPT ![k.h] = "live"]
        /\ \E t \in Threads : hthr' = [hthr EXCEPT ![k.h] = t] /\ (t = k.h \/ htype'[k.h] # "selfThread")
        /\ \A h \in Handles : h # k.h => htype'[h] = htype[h]
    BY <1>2, CreateEffect
  <2> QED BY <1>0, <2>1 DEF SelfOwn
<1>3. ASSUME NEW c \in Clients, NEW h \in Handles, DeleteLock(c, h) PROVE SelfOwn'
  BY <1>0, <1>3 DEF DeleteLock, SelfOwn
<1>4. ASSUME NEW c \in Clients, PurgeDone(c) \/ DeleteDec(c) \/ DeleteFree(c) PROVE SelfOwn'
  <2>1. /\ UNCHANGED <<hthr, htype>>
        /\ \A h \in Handles : hst'[h] # "unused" => hst[h] # "unused" \/ h = ch[c]
    BY <1>0, <1>4 DEF PurgeDone, DeleteDec, DeleteFree, schVars
  <2>2. hst[ch[c]] # "unused"
    BY <1>4 DEF PurgeDone, DeleteDec, DeleteFree, Linked
  <2> QED BY <2>1, <2>2 DEF SelfOwn
<1> QED BY <1>1, <1>2, <1>3, <1>4, PlainCases

\* What always holds of deletions, on any port and whoever deletes what.
DeleteInv == Deleters /\ Locking /\ Swept /\ SelfOwn

\* One deletion per schedule, one purge per mutex, nothing left behind it.
LEMMA AlwaysDelete == Spec => [](TypeOK /\ Linked /\ Placed /\ DeleteInv)
<1>1. Init => DeleteInv
  BY DEF Init, DeleteInv, Deleters, Deleting, Locking, Swept, SelfOwn
<1>2. TypeOK /\ Linked /\ Placed /\ DeleteInv /\ [Next]_vars => DeleteInv'
  BY StepDeleters, StepLocking, StepSwept, StepSelfOwn DEF DeleteInv
<1> QED BY <1>1, <1>2, AlwaysPlaced, PTL DEF Spec

-----------------------------------------------------------------------------
(* The reference count.                                                    *)

RefOf(t) == wpc[t] # "freed" => refCnt[t] = Cardinality(RefHolders(t))

\* Sets of schedules can be counted.
LEMMA HandlesFinite ==
  \A S \in SUBSET Handles : /\ IsFiniteSet(S) /\ Cardinality(S) \in Nat
                            /\ Cardinality(S) = 0 <=> S = {}
  BY ScheduleAssumption, FS_Subset, FS_CardinalityType, FS_EmptySet

\* A schedule being deleted is not in the set any more once its client is past
\* the decrement, before that it is.
LEMMA HolderOf ==
  ASSUME TypeOK, Deleters, NEW c \in Clients, Deleting(c)
  PROVE  ch[c] \in RefHolders(hthr[ch[c]]) <=> cpc[c] # "dec"
  BY DEF Deleters, Deleting, RefHolders, TypeOK

\* A plain step leaves the holders as they are.
LEMMA PlainHolders ==
  ASSUME TypeOK, PlainStep
  PROVE  \A t \in Threads : RefHolders(t)' = RefHolders(t)
<1>1. \A c \in Clients : /\ cpc'[c] = "dec" <=> cpc[c] = "dec"
                         /\ cpc[c] = "dec" => ch'[c] = ch[c]
  BY DEF PlainStep, Deleting
<1> QED BY <1>1 DEF PlainStep, RefHolders

\* How each of the other steps changes the holders of a thread.
LEMMA CreateHolders ==
  ASSUME TypeOK, Linked, NEW k \in Calls, Create(k) \/ CreateShare(k), NEW t \in Threads
  PROVE  /\ k.h \notin RefHolders(t)
         /\ RefHolders(t)' = IF hthr'[k.h] = t THEN RefHolders(t) \cup {k.h} ELSE RefHolders(t)
<1>1. /\ k.h \in Handles /\ hst[k.h] = "unused" /\ hst' = [hst EXCEPT ![k.h] = "live"]
      /\ UNCHANGED <<cpc, ch>>
      /\ \E u \in Threads : hthr' = [hthr EXCEPT ![k.h] = u]
  BY CreateEffect DEF cliVars
<1>2. \A c \in Clients : cpc[c] = "dec" => ch[c] # k.h
  BY <1>1 DEF Linked
<1>3. /\ hst \in [Handles -> {"unused", "live", "closing", "deleted"}]
      /\ hthr \in [Handles -> Threads]
  BY DEF TypeOK
<1>4. k.h \notin RefHolders(t)
  BY <1>1 DEF RefHolders
<1>5. \A h \in Handles : h # k.h => (h \in RefHolders(t)' <=> h \in RefHolders(t))
  BY <1>1, <1>3 DEF RefHolders
<1>6. k.h \in RefHolders(t)' <=> hthr'[k.h] = t
  BY <1>1, <1>2, <1>3 DEF RefHolders
<1>7. RefHolders(t) \subseteq Handles /\ RefHolders(t)' \subseteq Handles
  BY DEF RefHolders
<1> QED BY <1>1, <1>4, <1>5, <1>6, <1>7

\* Beginning a deletion, ending the purge and freeing the schedule leave the
\* holders; the decrement takes the schedule out.
LEMMA DeleteHolders ==
  ASSUME TypeOK, Deleters, NEW t \in Threads
  PROVE  /\ \A c \in Clients, h \in Handles : DeleteLock(c, h) => RefHolders(t)' = RefHolders(t)
         /\ \A c \in Clients : PurgeDone(c) => RefHolders(t)' = RefHolders(t)
         /\ \A c \in Clients : DeleteFree(c) => RefHolders(t)' = RefHolders(t)
         /\ \A c \in Clients : DeleteDec(c) => RefHolders(t)' = RefHolders(t) \ {ch[c]}
<1>0. /\ hst \in [Handles -> {"unused", "live", "closing", "deleted"}]
      /\ cpc \in [Clients -> Pcs] /\ ch \in [Clients -> Handles]
  BY DEF TypeOK
<1>1. ASSUME NEW c \in Clients, NEW h \in Handles, DeleteLock(c, h)
      PROVE  RefHolders(t)' = RefHolders(t)
  <2>1. /\ cpc[c] = "idle" /\ hst[h] = "live" /\ hthr' = hthr
        /\ hst' = [hst EXCEPT ![h] = "closing"]
        /\ ch' = [ch EXCEPT ![c] = h] /\ cpc' = [cpc EXCEPT ![c] = "purge"]
    BY <1>1 DEF DeleteLock
  <2>2. \A d \in Clients : /\ cpc'[d] = "dec" <=> cpc[d] = "dec"
                           /\ cpc[d] = "dec" => ch'[d] = ch[d]
    BY <1>0, <2>1
  <2>3. \A g \in Handles : hst'[g] \in {"live", "closing"} <=> hst[g] \in {"live", "closing"}
    BY <1>0, <2>1
  <2> QED BY <2>1, <2>2, <2>3 DEF RefHolders
<1>2. ASSUME NEW c \in Clients, PurgeDone(c)
      PROVE  RefHolders(t)' = RefHolders(t)
  <2>1. UNCHANGED <<hst, hthr, ch>> /\ \A d \in Clients : cpc'[d] = "dec" <=> cpc[d] = "dec"
    BY <1>0, <1>2 DEF PurgeDone, schVars
  <2> QED BY <2>1 DEF RefHolders
<1>3. ASSUME NEW c \in Clients, DeleteFree(c)
      PROVE  RefHolders(t)' = RefHolders(t)
  <2>1. /\ cpc[c] = "dec" /\ UNCHANGED <<hthr, ch>> /\ ch[c] \in Handles
        /\ hst' = [hst EXCEPT ![ch[c]] = "deleted"] /\ cpc' = [cpc EXCEPT ![c] = "idle"]
    BY <1>0, <1>3 DEF DeleteFree
  <2>2. ch[c] \notin RefHolders(t) /\ ch[c] \notin RefHolders(t)'
    BY <1>0, <2>1 DEF RefHolders
  <2>3. ASSUME NEW g \in Handles, g # ch[c]
        PROVE  g \in RefHolders(t)' <=> g \in RefHolders(t)
    <3>1. hst'[g] = hst[g]
      BY <1>0, <2>1, <2>3
    <3>2. \A d \in Clients : (cpc'[d] = "dec" /\ ch[d] = g) <=> (cpc[d] = "dec" /\ ch[d] = g)
      BY <1>0, <2>1, <2>3
    <3> QED BY <2>1, <3>1, <3>2 DEF RefHolders
  <2>4. RefHolders(t) \subseteq Handles /\ RefHolders(t)' \subseteq Handles
    BY DEF RefHolders
  <2> QED BY <2>2, <2>3, <2>4
<1>4. ASSUME NEW c \in Clients, DeleteDec(c)
      PROVE  RefHolders(t)' = RefHolders(t) \ {ch[c]}
  <2>1. /\ UNCHANGED <<hst, hthr, ch>> /\ ch[c] \in Handles
        /\ cpc' = [cpc EXCEPT ![c] = "dec"]
    BY <1>0, <1>4 DEF DeleteDec, schVars
  <2>2. \A d \in Clients : cpc'[d] = "dec" <=> cpc[d] = "dec" \/ d = c
    BY <1>0, <2>1
  <2> QED BY <2>1, <2>2 DEF RefHolders
<1> QED BY <1>1, <1>2, <1>3, <1>4

\* Every step keeps the count, where the atomic operations count at all.
LEMMA StepRef ==
  ASSUME Atomics # "stub", TypeOK, Linked, Deleters, [Next]_vars, NEW t \in Threads, RefOf(t)
  PROVE  RefOf(t)'
<1>0. refCnt \in [Threads -> Int] /\ wpc \in [Threads -> WorkerPcs]
  BY DEF TypeOK
<1>00. /\ RefHolders(t) \in SUBSET Handles
       /\ IsFiniteSet(RefHolders(t)) /\ Cardinality(RefHolders(t)) \in Nat
  BY HandlesFinite DEF RefHolders
<1>1. CASE PlainStep
  BY <1>1, PlainHolders DEF PlainStep, RefOf
<1>2. ASSUME NEW k \in Calls, Create(k) \/ CreateShare(k) PROVE RefOf(t)'
  <2>1. PICK u \in Threads :
          /\ hthr' = [hthr EXCEPT ![k.h] = u]
          /\ refCnt' = [refCnt EXCEPT ![u] = Inc(refCnt[u])]
          /\ wpc' = wpc \/ (wpc' = [wpc EXCEPT ![k.h] = "top"])
    BY <1>2, CreateEffect
  <2>2. k.h \in Handles /\ wpc[k.h] = "none" /\ hthr \in [Handles -> Threads]
    BY <1>2, CreateEffect DEF TypeOK
  <2>3. hthr'[k.h] = u
    BY <2>1, <2>2
  <2>4. wpc'[t] # "freed" => wpc[t] # "freed"
    BY <1>0, <2>1, <2>2
  <2>5. /\ k.h \notin RefHolders(t)
        /\ RefHolders(t)' = IF hthr'[k.h] = t THEN RefHolders(t) \cup {k.h} ELSE RefHolders(t)
    BY <1>2, CreateHolders
  <2>6. CASE u = t
    <3>1. Cardinality(RefHolders(t)') = Cardinality(RefHolders(t)) + 1
      BY <1>00, <2>3, <2>5, <2>6, FS_AddElement
    <3>2. refCnt'[t] = refCnt[t] + 1
      BY <1>0, <2>1, <2>6 DEF Inc
    <3> QED BY <1>00, <2>4, <3>1, <3>2 DEF RefOf
  <2>7. CASE u # t
    BY <1>0, <2>1, <2>3, <2>4, <2>5, <2>7 DEF RefOf
  <2> QED BY <2>6, <2>7
<1>3. ASSUME NEW c \in Clients, NEW h \in Handles, DeleteLock(c, h) PROVE RefOf(t)'
  <2>1. UNCHANGED <<refCnt, wpc>>
    BY <1>3 DEF DeleteLock
  <2> QED BY <1>3, <2>1, DeleteHolders DEF RefOf
<1>4. ASSUME NEW c \in Clients, PurgeDone(c) \/ DeleteFree(c) PROVE RefOf(t)'
  <2>1. UNCHANGED <<refCnt, wpc>>
    BY <1>4 DEF PurgeDone, DeleteFree
  <2> QED BY <1>4, <2>1, DeleteHolders DEF RefOf
<1>5. ASSUME NEW c \in Clients, DeleteDec(c) PROVE RefOf(t)'
  <2> DEFINE u == hthr[ch[c]]
  <2>1. /\ refCnt' = [refCnt EXCEPT ![u] = Dec(refCnt[u])] /\ wpc' = wpc
        /\ cpc[c] = "purged"
    BY <1>5 DEF DeleteDec
  <2>2. ch[c] \in RefHolders(u)
    BY <2>1, HolderOf DEF Deleting
  <2>3. RefHolders(t)' = RefHolders(t) \ {ch[c]}
    BY <1>5, DeleteHolders
  <2>4. CASE u = t
    <3>0. ch[c] \in RefHolders(t)
      BY <2>2, <2>4
    <3>1. Cardinality(RefHolders(t)') = Cardinality(RefHolders(t)) - 1
      <4>1. Cardinality(RefHolders(t) \ {ch[c]}) = Cardinality(RefHolders(t)) - 1
        <5> DEFINE g == ch[c]
        <5>1. g \in RefHolders(t)
          BY <3>0
        <5> HIDE DEF g
        <5>2. Cardinality(RefHolders(t) \ {g}) = Cardinality(RefHolders(t)) - 1
          BY <1>00, <5>1, FS_RemoveElement
        <5> QED BY <5>2 DEF g
      <4> QED BY <2>3, <4>1
    <3>2. refCnt'[t] = refCnt[t] - 1
      BY <1>0, <2>1, <2>4 DEF Dec
    <3> QED BY <1>00, <2>1, <3>1, <3>2 DEF RefOf
  <2>5. CASE u # t
    <3>1. ch[c] \notin RefHolders(t)
      BY <2>5 DEF RefHolders
    <3>2. RefHolders(t)' = RefHolders(t)
      BY <2>3, <3>1
    <3>3. refCnt'[t] = refCnt[t]
      BY <1>0, <2>1, <2>5
    <3> QED BY <2>1, <3>2, <3>3 DEF RefOf
  <2> QED BY <2>4, <2>5
<1> QED BY <1>1, <1>2, <1>3, <1>4, <1>5, PlainCases

\* refCnt is the number of schedules that reference the thread, for any number
\* of clients and schedules, whoever deletes what, and on every port whose
\* zcrt_atom_inc and zcrt_atom_dec count (on Linux they are empty).
THEOREM RefCounted ==
  ASSUME Atomics # "stub"
  PROVE  Spec => []RefCntExact
<1>1. Init => RefCntExact
  <2> SUFFICES ASSUME Init, NEW t \in Threads PROVE refCnt[t] = Cardinality(RefHolders(t))
    BY DEF RefCntExact
  <2>1. RefHolders(t) = {}
    BY DEF Init, RefHolders
  <2> QED BY <2>1, FS_EmptySet DEF Init
<1>2. TypeOK /\ Linked /\ DeleteInv /\ RefCntExact /\ [Next]_vars => RefCntExact'
  BY StepRef DEF RefCntExact, RefOf, DeleteInv
<1> QED BY <1>1, <1>2, AlwaysDelete, PTL DEF Spec

-----------------------------------------------------------------------------
(* A thread lives as long as a schedule references it.                     *)

\* A thread runs while a schedule references it, or the schedule it was made
\* for is not deleted; the common thread always does.
Alive ==
  /\ \A t \in Threads : run[t] => wpc[t] \notin {"exit", "freed"}
  /\ run[ZThr]
  /\ \A h \in Handles : Open(h) /\ htype[h] = "selfThread" => run[h]
  /\ \A t \in Threads : RefHolders(t) # {} => run[t]

\* The owner that sees zero is right: nobody references the thread.
LastRef ==
  \A c \in Clients : cpc[c] = "dec" /\ htype[ch[c]] = "selfThread" /\ cnt[c] = 0 =>
    RefHolders(hthr[ch[c]]) = {}

\* A step keeps LastRef when nobody comes to the decrement and the holders stay.
LEMMA KeepLastRef ==
  ASSUME LastRef, hthr \in [Handles -> Threads], ch \in [Clients -> Handles],
         hthr' = hthr, htype' = htype,
         \A t \in Threads : RefHolders(t)' = RefHolders(t),
         \A c \in Clients : cpc'[c] = "dec" => cpc[c] = "dec" /\ ch'[c] = ch[c] /\ cnt'[c] = cnt[c]
  PROVE  LastRef'
<1> SUFFICES ASSUME NEW c \in Clients, cpc'[c] = "dec", htype'[ch'[c]] = "selfThread", cnt'[c] = 0
             PROVE  RefHolders(hthr[ch[c]])' = {}
  BY DEF LastRef
<1>1. RefHolders(hthr[ch[c]]) = {}
  BY DEF LastRef
<1>2. hthr'[ch'[c]] = hthr[ch[c]] /\ hthr[ch[c]] \in Threads
  OBVIOUS
<1> QED BY <1>1, <1>2

\* Every step keeps both, where the decrement returns what it leaves.
LEMMA StepAlive ==
  ASSUME Atomics = "interlocked", TypeOK, Linked, DeleteInv, RefCntExact, Alive, LastRef,
         [Next]_vars
  PROVE  Alive' /\ LastRef'
<1>0. /\ hst \in [Handles -> {"unused", "live", "closing", "deleted"}]
      /\ cpc \in [Clients -> Pcs] /\ ch \in [Clients -> Handles]
      /\ hthr \in [Handles -> Threads] /\ run \in [Threads -> BOOLEAN]
      /\ wpc \in [Threads -> WorkerPcs] /\ htype \in [Handles -> SchTypes]
      /\ refCnt \in [Threads -> Int] /\ cnt \in [Clients -> Int]
      /\ ZThr \in Threads /\ ZThr \notin Handles /\ \A h \in Handles : h \in Threads
  BY ScheduleAssumption DEF TypeOK, Threads
<1>01. \A t \in Threads : RefHolders(t) \in SUBSET Handles
  BY DEF RefHolders
<1>1. CASE PlainStep
  <2>1. \A t \in Threads : RefHolders(t)' = RefHolders(t)
    BY <1>1, PlainHolders
  <2>2. Alive'
    BY <1>0, <1>1, <2>1 DEF PlainStep, Alive, Open
  <2>3. \A c \in Clients : cpc'[c] = "dec" => cpc[c] = "dec" /\ ch'[c] = ch[c]
    BY <1>1 DEF PlainStep, Deleting
  <2> QED BY <1>0, <1>1, <2>1, <2>2, <2>3, KeepLastRef DEF PlainStep
<1>2. ASSUME NEW k \in Calls, Create(k) \/ CreateShare(k) PROVE Alive' /\ LastRef'
  <2>1. /\ k.h \in Handles /\ hst[k.h] = "unused" /\ wpc[k.h] = "none"
        /\ hst' = [hst EXCEPT ![k.h] = "live"] /\ UNCHANGED <<cpc, ch, cnt>>
        /\ \A h \in Handles : h # k.h => htype'[h] = htype[h]
    BY <1>2, CreateEffect DEF cliVars
  <2>2. PICK u \in Threads :
          /\ hthr' = [hthr EXCEPT ![k.h] = u]
          /\ \/ /\ u = k.h /\ htype'[k.h] = "selfThread"
                /\ run' = [run EXCEPT ![u] = TRUE]
                /\ wpc' = [wpc EXCEPT ![u] = "top"]
             \/ /\ u = ZThr /\ htype'[k.h] # "selfThread"
                /\ UNCHANGED <<run, wpc>>
             \/ /\ \E g \in Handles : hst[g] = "live" /\ hthr[g] = u /\ htype[g] = "selfThread"
                /\ htype'[k.h] # "selfThread"
                /\ UNCHANGED <<run, wpc>>
    BY <1>2, CreateEffect
  <2>3. hthr'[k.h] = u
    BY <1>0, <2>1, <2>2
  <2>4. \A t \in Threads : RefHolders(t)' = IF u = t THEN RefHolders(t) \cup {k.h} ELSE RefHolders(t)
    BY <1>2, <2>3, CreateHolders
  \* The schedule whose thread is shared is one of the holders.
  <2>5. \A g \in Handles : hst[g] = "live" => g \in RefHolders(hthr[g])
    BY DEF DeleteInv, Deleters, Deleting, RefHolders
  <2>6. run'[u]
    <3>1. CASE u = k.h /\ run' = [run EXCEPT ![u] = TRUE]
      BY <1>0, <3>1
    <3>2. CASE u = ZThr /\ run' = run
      BY <3>2 DEF Alive
    <3>3. CASE /\ \E g \in Handles : hst[g] = "live" /\ hthr[g] = u /\ htype[g] = "selfThread"
               /\ run' = run
      <4>1. RefHolders(u) # {}
        BY <2>5, <3>3
      <4> QED BY <3>3, <4>1 DEF Alive
    <3> QED BY <2>2, <3>1, <3>2, <3>3
  <2>7. /\ \A t \in Threads : run[t] => run'[t]
        /\ \A t \in Threads : run'[t] /\ ~run[t] => wpc'[t] = "top"
        /\ \A t \in Threads : wpc'[t] \in {"exit", "freed"} => wpc[t] \in {"exit", "freed"}
    BY <1>0, <2>2
  <2>8. Alive'
    <3>1. \A t \in Threads : run'[t] => wpc'[t] \notin {"exit", "freed"}
      BY <1>0, <2>7 DEF Alive
    <3>2. \A h \in Handles : Open(h)' /\ htype'[h] = "selfThread" => run'[h]
      <4> SUFFICES ASSUME NEW h \in Handles, Open(h)', htype'[h] = "selfThread" PROVE run'[h]
        OBVIOUS
      <4>1. CASE h = k.h
        BY <2>2, <2>6, <4>1
      <4>2. CASE h # k.h
        BY <1>0, <2>1, <2>7, <4>2 DEF Alive, Open
      <4> QED BY <4>1, <4>2
    <3>3. \A t \in Threads : RefHolders(t)' # {} => run'[t]
      BY <2>4, <2>6, <2>7 DEF Alive
    <3>4. run'[ZThr]
      BY <1>0, <2>7 DEF Alive
    <3> QED BY <3>1, <3>2, <3>3, <3>4 DEF Alive
  <2>9. LastRef'
    <3> SUFFICES ASSUME NEW c \in Clients, cpc'[c] = "dec", htype'[ch'[c]] = "selfThread", cnt'[c] = 0
                 PROVE  RefHolders(hthr[ch[c]])' = {}
      BY DEF LastRef
    <3> DEFINE t == hthr[ch[c]]
    <3>1. ch[c] # k.h /\ ch[c] \in Handles /\ hst[ch[c]] # "unused" /\ cpc[c] = "dec"
      BY <1>0, <2>1 DEF Linked
    <3>2. htype[ch[c]] = "selfThread" /\ cnt[c] = 0 /\ t \in Threads
      BY <1>0, <2>1, <3>1
    <3>3. RefHolders(t) = {} /\ t = ch[c]
      BY <3>1, <3>2 DEF LastRef, DeleteInv, SelfOwn
    <3>4. u # t
      <4>1. u # k.h \/ t # k.h
        BY <3>1, <3>3
      <4>2. t # ZThr
        BY <1>0, <3>1, <3>3
      <4>3. \A g \in Handles : hst[g] = "live" => hthr[g] # t
        BY <2>5, <3>3
      <4> QED BY <2>2, <4>1, <4>2, <4>3
    <3>5. hthr'[ch'[c]] = t
      BY <1>0, <2>1, <2>2, <3>1
    <3> QED BY <2>4, <3>2, <3>3, <3>4, <3>5
  <2> QED BY <2>8, <2>9
<1>3. ASSUME NEW c \in Clients, NEW h \in Handles, DeleteLock(c, h) PROVE Alive' /\ LastRef'
  <2>1. /\ hst[h] = "live" /\ hst' = [hst EXCEPT ![h] = "closing"]
        /\ ch' = [ch EXCEPT ![c] = h] /\ cpc' = [cpc EXCEPT ![c] = "purge"]
        /\ UNCHANGED <<hthr, htype, run, wpc, cnt>>
    BY <1>3 DEF DeleteLock
  <2>2. \A t \in Threads : RefHolders(t)' = RefHolders(t)
    BY <1>3, DeleteHolders DEF DeleteInv
  <2>3. \A d \in Clients : cpc'[d] = "dec" => cpc[d] = "dec" /\ ch'[d] = ch[d]
    BY <1>0, <2>1
  <2>4. \A g \in Handles : Open(g)' => Open(g)
    BY <1>0, <2>1 DEF Open
  <2>5. Alive'
    BY <2>1, <2>2, <2>4 DEF Alive
  <2> QED BY <1>0, <2>1, <2>2, <2>3, <2>5, KeepLastRef
<1>4. ASSUME NEW c \in Clients, PurgeDone(c) PROVE Alive' /\ LastRef'
  <2>1. /\ cpc' = [cpc EXCEPT ![c] = "purged"]
        /\ UNCHANGED <<hst, hthr, htype, run, wpc, cnt, ch>>
    BY <1>4 DEF PurgeDone, schVars
  <2>2. \A t \in Threads : RefHolders(t)' = RefHolders(t)
    BY <1>4, DeleteHolders DEF DeleteInv
  <2>3. \A d \in Clients : cpc'[d] = "dec" => cpc[d] = "dec" /\ ch'[d] = ch[d]
    BY <1>0, <2>1
  <2>4. Alive'
    BY <2>1, <2>2 DEF Alive, Open
  <2> QED BY <1>0, <2>1, <2>2, <2>3, <2>4, KeepLastRef
<1>5. ASSUME NEW c \in Clients, DeleteDec(c) PROVE Alive' /\ LastRef'
  <2> DEFINE u == hthr[ch[c]]
  <2>1. /\ cpc[c] = "purged" /\ wpc[u] # "freed"
        /\ cpc' = [cpc EXCEPT ![c] = "dec"]
        /\ cnt' = [cnt EXCEPT ![c] = Dec(refCnt[u])]
        /\ UNCHANGED <<hst, hthr, htype, run, wpc, ch>>
    BY <1>5 DEF DeleteDec, schVars
  <2>2. \A t \in Threads : RefHolders(t)' = RefHolders(t) \ {ch[c]}
    BY <1>5, DeleteHolders DEF DeleteInv
  <2>3. Alive'
    BY <2>1, <2>2 DEF Alive, Open
  <2>4. LastRef'
    <3> SUFFICES ASSUME NEW d \in Clients, cpc'[d] = "dec", htype'[ch'[d]] = "selfThread", cnt'[d] = 0
                 PROVE  RefHolders(hthr[ch[d]])' = {}
      BY DEF LastRef
    <3>0. hthr'[ch'[d]] = hthr[ch[d]] /\ hthr[ch[d]] \in Threads /\ u \in Threads
      BY <1>0, <2>1
    <3>1. CASE d # c
      <4>1. RefHolders(hthr[ch[d]]) = {}
        BY <1>0, <2>1, <3>1 DEF LastRef
      <4> QED BY <2>2, <3>0, <4>1
    <3>2. CASE d = c
      <4>1. refCnt[u] - 1 = 0
        BY <1>0, <2>1, <3>2 DEF Dec
      <4>2. refCnt[u] = 1 /\ refCnt[u] = Cardinality(RefHolders(u))
        BY <1>0, <2>1, <3>0, <4>1 DEF RefCntExact
      <4>3. ch[c] \in RefHolders(u)
        BY <2>1, HolderOf DEF Deleting, DeleteInv
      <4>4. IsFiniteSet(RefHolders(u))
        BY <1>01, <3>0, HandlesFinite
      <4>5. \E x : RefHolders(u) = {x}
        BY <4>2, <4>4, FS_Singleton
      <4>6. RefHolders(u) \ {ch[c]} = {}
        BY <4>3, <4>5
      <4> QED BY <2>2, <3>0, <3>2, <4>6
    <3> QED BY <3>1, <3>2
  <2> QED BY <2>3, <2>4
<1>6. ASSUME NEW c \in Clients, DeleteFree(c) PROVE Alive' /\ LastRef'
  <2> DEFINE g == ch[c]
             u == hthr[g]
  <2>1. /\ cpc[c] = "dec" /\ cpc' = [cpc EXCEPT ![c] = "idle"]
        /\ run' = [run EXCEPT ![u] = run[u] /\ ~Stops(c)]
        /\ hst' = [hst EXCEPT ![g] = "deleted"]
        /\ cnt' = [cnt EXCEPT ![c] = 0]
        /\ UNCHANGED <<hthr, htype, wpc, ch>>
    BY <1>6 DEF DeleteFree
  <2>2. \A t \in Threads : RefHolders(t)' = RefHolders(t)
    BY <1>6, DeleteHolders DEF DeleteInv
  <2>3. g \in Handles /\ u \in Threads /\ hst[g] = "closing"
    BY <1>0, <2>1 DEF DeleteInv, Deleters, Deleting
  <2>4. Stops(c) => u = g /\ RefHolders(u) = {}
    BY <2>1, <2>3 DEF Stops, DecResult, LastRef, DeleteInv, SelfOwn
  <2>5. \A h \in Handles : Open(h)' => Open(h) /\ h # g
    BY <1>0, <2>1, <2>3 DEF Open
  <2>6. \A t \in Threads : run'[t] = (run[t] /\ ~(t = u /\ Stops(c)))
    BY <1>0, <2>1
  <2> HIDE DEF u, g
  <2>7. Alive'
    <3>1. \A t \in Threads : run'[t] => wpc'[t] \notin {"exit", "freed"}
      BY <2>1, <2>6 DEF Alive
    <3>2. run'[ZThr]
      BY <1>0, <2>3, <2>4, <2>6 DEF Alive
    <3>3. \A h \in Handles : Open(h)' /\ htype'[h] = "selfThread" => run'[h]
      BY <1>0, <2>1, <2>4, <2>5, <2>6 DEF Alive
    <3>4. \A t \in Threads : RefHolders(t)' # {} => run'[t]
      BY <2>2, <2>4, <2>6 DEF Alive
    <3> QED BY <3>1, <3>2, <3>3, <3>4 DEF Alive
  <2>8. \A d \in Clients : cpc'[d] = "dec" => cpc[d] = "dec" /\ ch'[d] = ch[d] /\ d # c
    BY <1>0, <2>1
  <2>9. \A d \in Clients : cpc'[d] = "dec" => cnt'[d] = cnt[d]
    BY <1>0, <2>1, <2>8
  <2> QED BY <1>0, <2>1, <2>2, <2>7, <2>8, <2>9, KeepLastRef
<1> QED BY <1>1, <1>2, <1>3, <1>4, <1>5, <1>6, PlainCases

\* The invariant behind ThreadServed: a thread that is referenced runs, and who
\* reads zero after its zcrt_atom_dec is the last.
LEMMA AlwaysAlive ==
  ASSUME Atomics = "interlocked"
  PROVE  Spec => [](TypeOK /\ Linked /\ Placed /\ DeleteInv /\ RefCntExact /\ Alive /\ LastRef)
<1>1. Init => Alive /\ LastRef
  <2> SUFFICES ASSUME Init PROVE Alive /\ LastRef
    OBVIOUS
  <2>1. \A t \in Threads : RefHolders(t) = {}
    BY DEF Init, RefHolders
  <2>2. ZThr \in Threads
    BY DEF Threads
  <2> QED BY <2>1, <2>2 DEF Init, Alive, LastRef, Open
<1>2. /\ TypeOK /\ Linked /\ DeleteInv /\ RefCntExact /\ Alive /\ LastRef /\ [Next]_vars
      => Alive' /\ LastRef'
  BY StepAlive
<1>3. Spec => []RefCntExact
  BY RefCounted
<1> QED BY <1>1, <1>2, <1>3, AlwaysDelete, PTL DEF Spec

\* A live schedule has a running thread on the win32 port, also when clients
\* send to schedules that others delete: zcrt_schedule_delete stops a private
\* thread only when no share is left on it.
THEOREM ThreadServed ==
  ASSUME Atomics = "interlocked"
  PROVE  Spec => []ThreadServesLive
<1>1. TypeOK /\ Linked /\ DeleteInv /\ Alive => ThreadServesLive
  <2> SUFFICES ASSUME TypeOK, DeleteInv, Alive, NEW h \in Handles, hst[h] = "live"
               PROVE  run[hthr[h]] /\ wpc[hthr[h]] \notin {"exit", "freed"}
    BY DEF ThreadServesLive
  <2>1. h \in RefHolders(hthr[h]) /\ hthr[h] \in Threads
    BY DEF DeleteInv, Deleters, Deleting, RefHolders, TypeOK
  <2> QED BY <2>1 DEF Alive
<1> QED BY <1>1, AlwaysAlive, PTL

-----------------------------------------------------------------------------
(* A schedule is freed only when none of its jobs is left.                 *)

\* Nobody is sending to a schedule that is being deleted.
OnlyLive == \A c \in Clients : cpc[c] \in SenderPcs => hst[ch[c]] = "live"

\* Past the purge no job of the schedule is queued.
Cleared ==
  \A j \in Jobs : fate[j] = "queued" =>
    /\ hst[j.sch] # "deleted"
    /\ \A c \in Clients : cpc[c] \in {"purged", "dec"} => ch[c] # j.sch

\* Every step keeps OnlyLive, when clients delete only what nobody sends to.
LEMMA StepOnlyLive ==
  ASSUME Quiesce, TypeOK, Linked, DeleteInv, OnlyLive, [Next]_vars
  PROVE  OnlyLive'
<1>0. /\ cpc \in [Clients -> Pcs] /\ ch \in [Clients -> Handles]
      /\ hst \in [Handles -> {"unused", "live", "closing", "deleted"}]
  BY DEF TypeOK
<1> USE DEF SenderPcs
<1>1. ASSUME UNCHANGED hst, \A c \in Clients : cpc'[c] \in SenderPcs => cpc[c] \in SenderPcs /\ ch'[c] = ch[c]
      PROVE  OnlyLive'
  BY <1>1 DEF OnlyLive
<1>2. ASSUME NEW k \in Calls, Create(k) \/ CreateShare(k) PROVE OnlyLive'
  <2>1. /\ k.h \in Handles /\ hst[k.h] = "unused" /\ hst' = [hst EXCEPT ![k.h] = "live"]
        /\ UNCHANGED <<cpc, ch>>
    BY <1>2, CreateEffect DEF cliVars
  <2> QED BY <1>0, <2>1 DEF OnlyLive
<1>3. ASSUME NEW c \in Clients, NEW h \in Handles, SendCheck(c, h) PROVE OnlyLive'
  <2>1. /\ hst[h] = "live" /\ hst' = hst /\ ch' = [ch EXCEPT ![c] = h]
        /\ cpc' = [cpc EXCEPT ![c] = IF HasRoom(h) THEN "checked" ELSE "idle"]
    BY <1>3 DEF SendCheck, Callable, schVars
  <2> QED BY <1>0, <2>1 DEF OnlyLive
<1>4. ASSUME NEW c \in Clients, Send(c) PROVE OnlyLive'
  <2>1. CASE InsertAssert(c)
    BY <1>1, <2>1 DEF InsertAssert, schVars, cliVars
  <2>2. CASE ~InsertAssert(c)
    BY <1>0, <1>1, <1>4, <2>2 DEF Send, JobNew, JobNoMem, InsertJob, LinkLast, SemGive, schVars
  <2> QED BY <2>1, <2>2
<1>5. ASSUME NEW c \in Clients, NEW h \in Handles, DeleteLock(c, h) PROVE OnlyLive'
  <2>1. /\ Sending(h) = {} /\ hst' = [hst EXCEPT ![h] = "closing"]
        /\ ch' = [ch EXCEPT ![c] = h] /\ cpc' = [cpc EXCEPT ![c] = "purge"]
    BY <1>5 DEF DeleteLock
  <2>2. \A d \in Clients : cpc'[d] \in SenderPcs =>
          cpc[d] \in SenderPcs /\ ch'[d] = ch[d] /\ ch[d] # h
    BY <1>0, <2>1 DEF Sending
  <2> QED BY <1>0, <2>1, <2>2 DEF OnlyLive
<1>6. ASSUME NEW c \in Clients, Delete(c) PROVE OnlyLive'
  <2>1. CASE DeleteFree(c)
    <3>1. /\ Deleting(c) /\ hst' = [hst EXCEPT ![ch[c]] = "deleted"] /\ ch' = ch
          /\ cpc' = [cpc EXCEPT ![c] = "idle"]
      BY <2>1 DEF DeleteFree, Deleting
    <3>2. hst[ch[c]] = "closing"
      BY <3>1 DEF DeleteInv, Deleters
    <3> QED BY <1>0, <3>1, <3>2 DEF OnlyLive
  <2>2. CASE ~DeleteFree(c)
    BY <1>0, <1>1, <1>6, <2>2 DEF Delete, PurgeJob, PurgeSkip, PurgeDone, DeleteDec, schVars, cliVars
  <2> QED BY <2>1, <2>2
<1>7. ASSUME NEW t \in Threads, Worker(t) PROVE OnlyLive'
  BY <1>1, <1>7 DEF Worker, WorkerTop, WorkerWake, WorkerTimeout, WorkerGet, WorkerCall,
                    WorkerDrained, WorkerExit, schVars, cliVars
<1>8. CASE UNCHANGED vars
  BY <1>1, <1>8 DEF vars, schVars, cliVars
<1>9. CASE \/ \E c \in Clients : ClientUsesFreed(c)
           \/ \E h \in Handles : DeleteUsesFreed(h)
           \/ \E t \in Threads, p \in Pri : WorkerUsesFreed(t, p)
  BY <1>1, <1>9 DEF ClientUsesFreed, DeleteUsesFreed, WorkerUsesFreed, schVars, cliVars
<1> QED BY <1>2, <1>3, <1>4, <1>5, <1>6, <1>7, <1>8, <1>9 DEF Next

\* A job is queued only by its insertion.
LEMMA QueuedBy ==
  ASSUME TypeOK, Linked, Placed, [Next]_vars, NEW j \in Jobs, fate'[j] = "queued", fate[j] # "queued"
  PROVE  \E c \in Clients : InsertJob(c) /\ j = JobOf(c)
<1>0. fate[j] = "none" /\ fate \in [Jobs -> Fates]
  BY FateSteps DEF TypeOK
<1>1. CASE QuietStep
  BY <1>1, QuietPlaced
<1>2. CASE \/ \E k \in Calls : Create(k) \/ CreateShare(k)
           \/ \E c \in Clients, h \in Handles : SendCheck(c, h)
  BY <1>2 DEF Create, CreateShare, AddSchedule, SendCheck
<1>3. CASE \E c \in Clients : InsertJob(c)
  <2>1. PICK c \in Clients : InsertJob(c)
    BY <1>3
  <2>2. fate' = [fate EXCEPT ![JobOf(c)] = "queued"]
    BY <2>1 DEF InsertJob, LinkLast
  <2> QED BY <1>0, <2>1, <2>2
<1>4. CASE \E c \in Clients : PurgeJob(c)
  <2>1. \E x : fate' = [fate EXCEPT ![x] = "dropped"]
    BY <1>4 DEF PurgeJob
  <2> QED BY <1>0, <2>1
<1>5. CASE \E t \in Threads, p \in Pri : WorkerGet(t, p)
  <2>1. \E x : fate' = [fate EXCEPT ![x] = "started"]
    BY <1>5 DEF WorkerGet
  <2> QED BY <1>0, <2>1
<1>6. CASE \E t \in Threads : WorkerCall(t)
  <2>1. \E x : fate' = [fate EXCEPT ![x] = "done"]
    BY <1>6 DEF WorkerCall
  <2> QED BY <1>0, <2>1
<1>7. CASE \E t \in Threads : WorkerExit(t)
  BY <1>0, <1>7, ExitPlaced
<1> QED BY <1>1, <1>2, <1>3, <1>4, <1>5, <1>6, <1>7, StepCases

\* A purge that ends has left no job of its schedule: by cursize, which counts
\* them, or because the cursor is past them all.
LEMMA PurgeEnds ==
  ASSUME TypeOK, Placed, Books, DeleteInv, NEW c \in Clients, PurgeDone(c),
         NEW j \in Jobs, fate[j] = "queued"
  PROVE  ch[c] # j.sch
<1> SUFFICES ASSUME ch[c] = j.sch PROVE FALSE
  OBVIOUS
<1> DEFINE h == ch[c]
           s == que[hthr[h]][hpri[h]]
<1>0. cpc[c] = "purge" /\ wpc[hthr[h]] # "freed" /\ ~Purging(c) /\ h \in Handles
  BY DEF PurgeDone, TypeOK
<1>1. s \in Seq(Jobs) /\ scan[c] \in Nat /\ cursize[h] \in Int
  BY <1>0 DEF TypeOK
<1>2. PICK i \in DOMAIN s : s[i] = j
  BY DEF Placed, QueuedIsListed
<1>3. hst[h] = "closing"
  BY <1>0 DEF DeleteInv, Deleters, Deleting
<1>4. cursize[h] = Cardinality(JobsIn(h))
  BY <1>0, <1>3 DEF Books, SizeOf
<1>5. cursize[h] > 0
  <2>1. j \in JobsIn(h) /\ JobsIn(h) \in SUBSET Jobs
    BY DEF JobsIn
  <2>2. IsFiniteSet(JobsIn(h)) /\ Cardinality(JobsIn(h)) \in Nat
    BY <2>1, JobsFinite
  <2>3. Cardinality(JobsIn(h)) # 0
    BY <2>1, <2>2, FS_EmptySet
  <2> QED BY <1>4, <2>2, <2>3
<1>6. ~(scan[c] <= Len(s))
  BY <1>0, <1>5 DEF Purging
<1>7. i < scan[c]
  BY <1>1, <1>2, <1>6
<1> QED BY <1>0, <1>2, <1>7 DEF DeleteInv, Swept

\* Every step keeps Cleared.
LEMMA StepCleared ==
  ASSUME TypeOK, Linked, Placed, Books, DeleteInv, OnlyLive, Cleared, [Next]_vars
  PROVE  Cleared'
<1>0. /\ cpc \in [Clients -> Pcs] /\ ch \in [Clients -> Handles]
      /\ hst \in [Handles -> {"unused", "live", "closing", "deleted"}]
  BY DEF TypeOK
<1> SUFFICES ASSUME NEW j \in Jobs, fate'[j] = "queued"
             PROVE  /\ hst'[j.sch] # "deleted"
                    /\ \A c \in Clients : cpc'[c] \in {"purged", "dec"} => ch'[c] # j.sch
  BY DEF Cleared
<1>1. j.sch \in Handles
  BY JobFields
<1>2. CASE fate[j] # "queued"
  <2>1. PICK c \in Clients : InsertJob(c) /\ j = JobOf(c)
    BY <1>2, QueuedBy
  <2>2. /\ cpc[c] = "made" /\ j.sch = ch[c]
        /\ cpc' = [cpc EXCEPT ![c] = "give"] /\ UNCHANGED <<hst, ch>>
    BY <2>1 DEF InsertJob, LinkLast, JobOf
  <2>3. hst[j.sch] = "live"
    BY <2>2 DEF OnlyLive, SenderPcs
  <2>4. \A d \in Clients : cpc[d] \in {"purged", "dec"} => hst[ch[d]] = "closing"
    BY DEF DeleteInv, Deleters, Deleting
  <2> QED BY <1>0, <2>2, <2>3, <2>4
<1>3. CASE fate[j] = "queued"
  <2>0. hst[j.sch] # "deleted" /\ \A c \in Clients : cpc[c] \in {"purged", "dec"} => ch[c] # j.sch
    BY <1>3 DEF Cleared
  <2>1. CASE PlainStep
    BY <2>0, <2>1 DEF PlainStep, Deleting
  <2>2. ASSUME NEW k \in Calls, Create(k) \/ CreateShare(k)
        PROVE  /\ hst'[j.sch] # "deleted"
               /\ \A c \in Clients : cpc'[c] \in {"purged", "dec"} => ch'[c] # j.sch
    <3>1. hst' = [hst EXCEPT ![k.h] = "live"] /\ UNCHANGED <<cpc, ch>>
      BY <2>2, CreateEffect DEF cliVars
    <3> QED BY <1>0, <1>1, <2>0, <3>1
  <2>3. ASSUME NEW c \in Clients, NEW h \in Handles, DeleteLock(c, h)
        PROVE  /\ hst'[j.sch] # "deleted"
               /\ \A d \in Clients : cpc'[d] \in {"purged", "dec"} => ch'[d] # j.sch
    BY <1>0, <1>1, <2>0, <2>3 DEF DeleteLock
  <2>4. ASSUME NEW c \in Clients, PurgeDone(c)
        PROVE  /\ hst'[j.sch] # "deleted"
               /\ \A d \in Clients : cpc'[d] \in {"purged", "dec"} => ch'[d] # j.sch
    <3>1. ch[c] # j.sch
      BY <1>3, <2>4, PurgeEnds
    <3>2. cpc' = [cpc EXCEPT ![c] = "purged"] /\ UNCHANGED <<hst, ch>>
      BY <2>4 DEF PurgeDone, schVars
    <3> QED BY <1>0, <2>0, <3>1, <3>2
  <2>5. ASSUME NEW c \in Clients, DeleteDec(c)
        PROVE  /\ hst'[j.sch] # "deleted"
               /\ \A d \in Clients : cpc'[d] \in {"purged", "dec"} => ch'[d] # j.sch
    BY <1>0, <2>0, <2>5 DEF DeleteDec, schVars
  <2>6. ASSUME NEW c \in Clients, DeleteFree(c)
        PROVE  /\ hst'[j.sch] # "deleted"
               /\ \A d \in Clients : cpc'[d] \in {"purged", "dec"} => ch'[d] # j.sch
    BY <1>0, <1>1, <2>0, <2>6 DEF DeleteFree
  <2> QED BY <2>1, <2>2, <2>3, <2>4, <2>5, <2>6, PlainCases
<1> QED BY <1>2, <1>3

\* Under Quiesce no deletion leaves a job or a sender behind.
LEMMA AlwaysCleared ==
  ASSUME Quiesce
  PROVE  Spec => [](OnlyLive /\ Cleared)
<1>1. Init => OnlyLive /\ Cleared
  BY DEF Init, OnlyLive, Cleared, SenderPcs
<1>2. TypeOK /\ Linked /\ DeleteInv /\ OnlyLive /\ [Next]_vars => OnlyLive'
  BY StepOnlyLive
<1>3. TypeOK /\ Linked /\ Placed /\ Books /\ DeleteInv /\ OnlyLive /\ Cleared /\ [Next]_vars => Cleared'
  BY StepCleared
<1> QED BY <1>1, <1>2, <1>3, AlwaysDelete, AlwaysBooks, PTL DEF Spec

-----------------------------------------------------------------------------
(* The tail pointer, as long as no list holds jobs of two schedules.       *)

\* No two schedules of one thread have the same priority.
ListsApart ==
  \A g, h \in Handles :
    g # h /\ hst[g] # "unused" /\ hst[h] # "unused" /\ hthr[g] = hthr[h] => hpri[g] # hpri[h]

\* What the tail pointer of list s has to be.
LastOf(s) == IF s = <<>> THEN NoJob ELSE s[Len(s)]

\* Every tail pointer is right, and a purge never moves past a job.
TailInv ==
  /\ \A t \in Threads, p \in Pri : tail[t][p] = LastOf(que[t][p])
  /\ \A c \in Clients : cpc[c] = "purge" => scan[c] = 1

\* Clearing the tail pointer when it points at the job taken off the head
\* leaves the right one.
LEMMA HeadOff ==
  ASSUME NEW s \in Seq(Jobs), s # <<>>, Ordered(s), NEW r, Without(s, 1, r)
  PROVE  TailLess(LastOf(s), s[1]) = LastOf(r)
<1>1. /\ r \in Seq(Jobs) /\ Len(r) = Len(s) - 1 /\ Len(s) \in Nat /\ Len(s) > 0
      /\ \A k \in 1 .. Len(r) : r[k] = s[k + 1]
  BY DEF Without
<1>2. CASE Len(s) = 1
  <2>1. r = <<>>
    BY <1>1, <1>2
  <2> QED BY <1>2, <2>1 DEF TailLess, LastOf
<1>3. CASE Len(s) > 1
  <2>1. r # <<>> /\ r[Len(r)] = s[Len(s)]
    BY <1>1, <1>3
  <2>2. 1 \in DOMAIN s /\ Len(s) \in DOMAIN s
    BY <1>1
  <2>3. s[1] # s[Len(s)]
    BY <1>3, <2>2, OrderedOnce
  <2> QED BY <2>1, <2>3 DEF TailLess, LastOf
<1> QED BY <1>1, <1>2, <1>3

\* A list belongs to one schedule.
LEMMA OneOwner ==
  ASSUME TypeOK, Placed, ListsApart, NEW h \in Handles, hst[h] # "unused",
         NEW i \in DOMAIN que[hthr[h]][hpri[h]]
  PROVE  que[hthr[h]][hpri[h]][i].sch = h
<1> DEFINE j == que[hthr[h]][hpri[h]][i]
<1>1. j \in Jobs /\ hthr[j.sch] = hthr[h] /\ hpri[j.sch] = hpri[h] /\ fate[j] = "queued"
  BY DEF TypeOK, Placed, ListsHold
<1>2. j.sch \in Handles /\ hst[j.sch] # "unused"
  BY <1>1, JobFields DEF Placed, SentOnly
<1> QED BY <1>1, <1>2 DEF ListsApart

\* Every step keeps TailInv.
LEMMA StepTail ==
  ASSUME TypeOK, Linked, Placed, ListsApart, TailInv, [Next]_vars
  PROVE  TailInv'
<1>0. /\ cpc \in [Clients -> Pcs] /\ ch \in [Clients -> Handles]
      /\ hthr \in [Handles -> Threads] /\ hpri \in [Handles -> Pri]
      /\ que \in [Threads -> [Pri -> Seq(Jobs)]]
      /\ tail \in [Threads -> [Pri -> Jobs \cup {NoJob}]]
      /\ scan \in [Clients -> Nat \ {0}]
  BY DEF TypeOK
<1> USE DEF schVars, queVars, thrVars, cliVars
<1>1. ASSUME UNCHANGED <<que, tail>>,
             \A c \in Clients : cpc'[c] = "purge" => (cpc[c] = "purge" /\ scan'[c] = scan[c]) \/ scan'[c] = 1
      PROVE  TailInv'
  BY <1>1 DEF TailInv
<1>2. CASE QuietStep
  <2>1. CASE \E c \in Clients : PurgeSkip(c)
    <3>1. PICK c \in Clients : PurgeSkip(c)
      BY <2>1
    <3>2. /\ cpc[c] = "purge" /\ ch[c] \in Handles /\ scan[c] = 1
          /\ scan[c] <= Len(que[hthr[ch[c]]][hpri[ch[c]]])
          /\ que[hthr[ch[c]]][hpri[ch[c]]][scan[c]].sch # ch[c]
      BY <1>0, <3>1 DEF PurgeSkip, Purging, TailInv
    <3>3. hst[ch[c]] # "unused"
      BY <3>2 DEF Linked
    <3>4. que[hthr[ch[c]]][hpri[ch[c]]] \in Seq(Jobs)
      BY <1>0, <3>2
    <3>5. 1 \in DOMAIN que[hthr[ch[c]]][hpri[ch[c]]]
      BY <3>2, <3>4
    <3> QED BY <3>2, <3>3, <3>5, OneOwner
  <2>2. ASSUME NEW c \in Clients, JobNew(c) \/ JobNoMem(c) \/ SemGive(c) \/ DeleteDec(c) \/ DeleteFree(c)
        PROVE  TailInv'
    <3>1. UNCHANGED <<que, tail, scan>>
      BY <2>2 DEF JobNew, JobNoMem, SemGive, DeleteDec, DeleteFree
    <3>2. \A d \in Clients : cpc'[d] = "purge" => cpc[d] = "purge"
      BY <1>0, <2>2 DEF JobNew, JobNoMem, SemGive, DeleteDec, DeleteFree
    <3> QED BY <1>1, <3>1, <3>2
  <2>3. ASSUME NEW c \in Clients, PurgeDone(c) PROVE TailInv'
    <3>1. /\ UNCHANGED <<que, tail>> /\ scan' = [scan EXCEPT ![c] = 1]
          /\ cpc' = [cpc EXCEPT ![c] = "purged"]
      BY <2>3 DEF PurgeDone
    <3> QED BY <1>0, <1>1, <3>1
  <2>4. ASSUME NEW c \in Clients, NEW h \in Handles, DeleteLock(c, h) PROVE TailInv'
    <3>1. /\ UNCHANGED <<que, tail>> /\ scan' = [scan EXCEPT ![c] = 1]
          /\ cpc' = [cpc EXCEPT ![c] = "purge"]
      BY <2>4 DEF DeleteLock
    <3> QED BY <1>0, <1>1, <3>1
  <2>5. ASSUME NEW t \in Threads, WorkerTop(t) \/ WorkerWake(t) \/ WorkerTimeout(t) \/ WorkerDrained(t)
        PROVE  TailInv'
    <3>1. UNCHANGED <<que, tail, cpc, scan>>
      BY <2>5 DEF WorkerTop, WorkerWake, WorkerTimeout, WorkerDrained
    <3> QED BY <1>1, <3>1
  <2>6. CASE UNCHANGED <<schVars, queVars, thrVars, cliVars, fate>>
    BY <1>1, <2>6
  <2> QED BY <1>2, <2>1, <2>2, <2>3, <2>4, <2>5, <2>6 DEF QuietStep
<1>3. ASSUME NEW k \in Calls, Create(k) \/ CreateShare(k) PROVE TailInv'
  <2>1. UNCHANGED <<que, tail, cpc, scan>>
    BY <1>3 DEF Create, CreateShare, AddSchedule
  <2> QED BY <1>1, <2>1
<1>4. ASSUME NEW c \in Clients, NEW h \in Handles, SendCheck(c, h) PROVE TailInv'
  <2>1. /\ UNCHANGED <<que, tail, scan>>
        /\ cpc' = [cpc EXCEPT ![c] = IF HasRoom(h) THEN "checked" ELSE "idle"]
    BY <1>4 DEF SendCheck
  <2>2. \A d \in Clients : cpc'[d] = "purge" => cpc[d] = "purge"
    BY <1>0, <2>1
  <2> QED BY <1>1, <2>1, <2>2
\* What is left are the steps that change one list, and its tail pointer.
<1>5. ASSUME NEW t \in Threads, NEW p \in Pri, NEW r \in Seq(Jobs), NEW v,
             v = LastOf(r),
             que' = [que EXCEPT ![t][p] = r], tail' = [tail EXCEPT ![t][p] = v],
             \A c \in Clients : cpc'[c] = "purge" => cpc[c] = "purge" /\ scan'[c] = scan[c]
      PROVE  TailInv'
  <2>1. que'[t][p] = r /\ tail'[t][p] = v
    BY <1>0, <1>5
  <2>2. \A u \in Threads, q \in Pri : ~(u = t /\ q = p) => que'[u][q] = que[u][q] /\ tail'[u][q] = tail[u][q]
    BY <1>0, <1>5
  <2> QED BY <1>5, <2>1, <2>2 DEF TailInv
<1>6. ASSUME NEW c \in Clients, InsertJob(c) PROVE TailInv'
  <2> DEFINE t == hthr[ch[c]]
             p == hpri[ch[c]]
             s == que[t][p]
             j == JobOf(c)
  <2>1. /\ t \in Threads /\ p \in Pri /\ s \in Seq(Jobs) /\ j \in Jobs
    BY <1>0, <1>6, JobOfType DEF InsertJob, LinkLast, SenderPcs
  <2>2. /\ que' = [que EXCEPT ![t][p] = Append(s, j)]
        /\ tail' = [tail EXCEPT ![t][p] = j]
        /\ cpc' = [cpc EXCEPT ![c] = "give"] /\ scan' = scan
    BY <1>6 DEF InsertJob, LinkLast
  <2>3. \A d \in Clients : cpc'[d] = "purge" => cpc[d] = "purge"
    BY <1>0, <2>2
  <2> HIDE DEF t, p, s, j
  <2>4. Append(s, j) \in Seq(Jobs) /\ j = LastOf(Append(s, j))
    BY <2>1 DEF LastOf
  <2> QED BY <1>5, <2>1, <2>2, <2>3, <2>4
<1>7. ASSUME NEW t \in Threads, NEW p \in Pri, NEW r, que[t][p] # <<>>,
             Without(que[t][p], 1, r), que' = [que EXCEPT ![t][p] = r],
             tail' = [tail EXCEPT ![t][p] = TailLess(tail[t][p], que[t][p][1])],
             UNCHANGED <<cpc, scan>>
      PROVE  TailInv'
  <2>1. que[t][p] \in Seq(Jobs) /\ Ordered(que[t][p]) /\ tail[t][p] = LastOf(que[t][p])
    BY <1>0 DEF Placed, ListsHold, TailInv
  <2>2. r \in Seq(Jobs)
    BY <1>7 DEF Without
  <2>3. TailLess(tail[t][p], que[t][p][1]) = LastOf(r)
    BY <1>7, <2>1, HeadOff
  <2> QED BY <1>5, <1>7, <2>2, <2>3
<1>8. ASSUME NEW c \in Clients, PurgeJob(c) PROVE TailInv'
  <2> DEFINE t == hthr[ch[c]]
             p == hpri[ch[c]]
             s == que[t][p]
  <2>1. /\ t \in Threads /\ p \in Pri /\ s \in Seq(Jobs) /\ scan[c] = 1 /\ scan[c] <= Len(s)
    BY <1>0, <1>8 DEF PurgeJob, Purging, TailInv
  <2>2. /\ que' = [que EXCEPT ![t][p] = RemoveAt(s, 1)]
        /\ tail' = [tail EXCEPT ![t][p] = TailLess(tail[t][p], s[1])]
        /\ UNCHANGED <<cpc, scan>>
    BY <1>8, <2>1 DEF PurgeJob
  <2>3. s # <<>> /\ 1 \in 1 .. Len(s)
    BY <2>1
  <2>4. Without(s, 1, RemoveAt(s, 1))
    BY <2>1, <2>3, TakenOut
  <2> HIDE DEF t, p
  <2> QED BY <1>7, <2>1, <2>2, <2>3, <2>4
<1>9. ASSUME NEW t \in Threads, NEW p \in Pri, WorkerGet(t, p) PROVE TailInv'
  <2> DEFINE s == que[t][p]
  <2>1. s \in Seq(Jobs) /\ s # <<>> /\ Head(s) = s[1]
    BY <1>0, <1>9 DEF WorkerGet, Urgent
  <2>2. /\ que' = [que EXCEPT ![t][p] = Tail(s)]
        /\ tail' = [tail EXCEPT ![t][p] = TailLess(tail[t][p], Head(s))]
        /\ UNCHANGED <<cpc, scan>>
    BY <1>9 DEF WorkerGet
  <2>3. Without(s, 1, Tail(s))
    BY <2>1, TakenOut
  <2> QED BY <1>7, <2>1, <2>2, <2>3
<1>10. ASSUME NEW t \in Threads, WorkerCall(t) PROVE TailInv'
  <2>1. UNCHANGED <<que, tail, cpc, scan>>
    BY <1>10 DEF WorkerCall
  <2> QED BY <1>1, <2>1
<1>11. ASSUME NEW t \in Threads, WorkerExit(t) PROVE TailInv'
  <2>1. /\ que' = [que EXCEPT ![t] = [p \in Pri |-> <<>>]]
        /\ tail' = [tail EXCEPT ![t] = [p \in Pri |-> NoJob]]
        /\ UNCHANGED <<cpc, scan>>
    BY <1>11 DEF WorkerExit
  <2> QED BY <1>0, <2>1 DEF TailInv, LastOf
<1> QED BY <1>2, <1>3, <1>4, <1>6, <1>8, <1>9, <1>10, <1>11, StepCases

\* The tail pointers while the lists are apart.
LEMMA AlwaysTail == Spec /\ []ListsApart => []TailInv
<1>1. Init => TailInv
  BY DEF Init, TailInv, LastOf
<1>2. TypeOK /\ Linked /\ Placed /\ ListsApart /\ TailInv /\ [Next]_vars => TailInv'
  BY StepTail
<1> QED BY <1>1, <1>2, AlwaysPlaced, PTL DEF Spec

\* The tail pointer is the last job of its list, or NULL, in every behaviour in
\* which no two schedules of one thread have the same priority: for any port's
\* atomics and whoever deletes what.  Setting the tail to NULL when the last job
\* of the list is unlinked (_zcrt_s_thr_remove_sch) is right at the head of a
\* list only, and with one schedule to a list the purge never leaves the head.
THEOREM TailRight == Spec /\ []ListsApart => []TailOK
<1>1. TailInv => TailOK
  BY DEF TailInv, TailOK, LastOf
<1> QED BY <1>1, AlwaysTail, PTL

\* Calls that give the schedules of one thread different priorities: equal ones
\* only for schedules that both get a thread by create, not the same.
CallsApart ==
  \A k, l \in Calls : k.h # l.h /\ k.pri = l.pri =>
    k.op = "create" /\ l.op = "create" /\ (k.type = "selfThread" \/ l.type = "selfThread")

\* Every schedule comes from a call, and has its priority and thread from it.
FromCall ==
  \A h \in Handles : hst[h] # "unused" =>
    \E k \in Calls : /\ k.h = h /\ hpri[h] = k.pri
                     /\ k.op = "create" => hthr[h] = IF k.type = "selfThread" THEN h ELSE ZThr

\* Every step keeps FromCall.
LEMMA StepFromCall ==
  ASSUME TypeOK, Deleters, FromCall, [Next]_vars
  PROVE  FromCall'
<1>0. /\ hst \in [Handles -> {"unused", "live", "closing", "deleted"}]
      /\ ch \in [Clients -> Handles]
      /\ hthr \in [Handles -> Threads] /\ hpri \in [Handles -> Pri]
  BY DEF TypeOK
<1>1. ASSUME UNCHANGED <<hthr, hpri>>, \A h \in Handles : hst'[h] # "unused" => hst[h] # "unused"
      PROVE  FromCall'
  BY <1>1 DEF FromCall
<1>2. CASE PlainStep
  BY <1>1, <1>2 DEF PlainStep
<1>3. ASSUME NEW k \in Calls, NEW t, NEW type, AddSchedule(k.h, t, type, k.pri, k.max),
             k.op = "create" => t = IF k.type = "selfThread" THEN k.h ELSE ZThr
      PROVE  FromCall'
  <2>1. /\ hst' = [hst EXCEPT ![k.h] = "live"]
        /\ hthr' = [hthr EXCEPT ![k.h] = t]
        /\ hpri' = [hpri EXCEPT ![k.h] = k.pri]
    BY <1>3 DEF AddSchedule
  <2> SUFFICES ASSUME NEW h \in Handles, hst'[h] # "unused"
               PROVE  \E l \in Calls :
                        /\ l.h = h /\ hpri'[h] = l.pri
                        /\ l.op = "create" => hthr'[h] = IF l.type = "selfThread" THEN h ELSE ZThr
    BY DEF FromCall
  <2>2. CASE h = k.h
    BY <1>0, <1>3, <2>1, <2>2
  <2>3. CASE h # k.h
    BY <1>0, <2>1, <2>3 DEF FromCall
  <2> QED BY <2>2, <2>3
<1>4. ASSUME NEW k \in Calls, Create(k) PROVE FromCall'
  BY <1>3, <1>4 DEF Create
<1>5. ASSUME NEW k \in Calls, CreateShare(k) PROVE FromCall'
  BY <1>3, <1>5 DEF CreateShare
<1>6. ASSUME NEW c \in Clients, NEW h \in Handles, DeleteLock(c, h) PROVE FromCall'
  BY <1>0, <1>1, <1>6 DEF DeleteLock
<1>7. ASSUME NEW c \in Clients, PurgeDone(c) \/ DeleteDec(c) PROVE FromCall'
  BY <1>1, <1>7 DEF PurgeDone, DeleteDec, schVars
<1>8. ASSUME NEW c \in Clients, DeleteFree(c) PROVE FromCall'
  <2>1. /\ hst[ch[c]] = "closing" /\ hst' = [hst EXCEPT ![ch[c]] = "deleted"]
        /\ UNCHANGED <<hthr, hpri>>
    BY <1>8 DEF DeleteFree, Deleters, Deleting
  <2> QED BY <1>0, <1>1, <2>1
<1> QED BY <1>2, <1>4, <1>5, <1>6, <1>7, <1>8, PlainCases

\* With such calls no two schedules of one thread ever have the same priority;
\* so it is with the schedules of the ipc server, whose evtSch shares the thread
\* of respondSch at a less urgent priority.
LEMMA CallsKeepApart ==
  ASSUME CallsApart
  PROVE  Spec => []ListsApart
<1>1. Init => FromCall
  BY DEF Init, FromCall
<1>2. TypeOK /\ Deleters /\ FromCall /\ [Next]_vars => FromCall'
  BY StepFromCall
<1>3. TypeOK /\ FromCall => ListsApart
  <2> SUFFICES ASSUME FromCall, NEW g \in Handles, NEW h \in Handles, g # h,
                      hst[g] # "unused", hst[h] # "unused", hthr[g] = hthr[h], hpri[g] = hpri[h]
               PROVE  FALSE
    BY DEF ListsApart
  <2>1. PICK k \in Calls : /\ k.h = g /\ hpri[g] = k.pri
                           /\ k.op = "create" => hthr[g] = IF k.type = "selfThread" THEN g ELSE ZThr
    BY DEF FromCall
  <2>2. PICK l \in Calls : /\ l.h = h /\ hpri[h] = l.pri
                           /\ l.op = "create" => hthr[h] = IF l.type = "selfThread" THEN h ELSE ZThr
    BY DEF FromCall
  <2>3. k.op = "create" /\ l.op = "create" /\ (k.type = "selfThread" \/ l.type = "selfThread")
    BY <2>1, <2>2 DEF CallsApart
  <2> QED BY <2>1, <2>2, <2>3, ScheduleAssumption
<1>4. DeleteInv => Deleters
  BY DEF DeleteInv
<1> QED BY <1>1, <1>2, <1>3, <1>4, AlwaysDelete, PTL DEF Spec

-----------------------------------------------------------------------------
(* All together: nothing freed is touched, and no job is lost.             *)

\* A thread with a reference is not on its way out.
LEMMA HolderRuns ==
  ASSUME TypeOK, Alive, NEW h \in Handles, h \in RefHolders(hthr[h])
  PROVE  wpc[hthr[h]] \notin {"exit", "freed"}
  BY DEF Alive, TypeOK

\* A live schedule holds its reference.
LEMMA LiveHolds ==
  ASSUME Deleters, NEW h \in Handles, hst[h] = "live"
  PROVE  h \in RefHolders(hthr[h])
  BY DEF Deleters, Deleting, RefHolders

\* A job is lost only with its thread.
LEMMA LostBy ==
  ASSUME TypeOK, Linked, Placed, [Next]_vars, NEW j \in Jobs, fate'[j] = "lost", fate[j] # "lost"
  PROVE  fate[j] = "queued" /\ wpc[hthr[j.sch]] = "exit"
<1>0. fate[j] = "queued" /\ fate \in [Jobs -> Fates]
  BY FateSteps DEF TypeOK
<1>1. CASE QuietStep
  BY <1>1, QuietPlaced
<1>2. CASE \/ \E k \in Calls : Create(k) \/ CreateShare(k)
           \/ \E c \in Clients, h \in Handles : SendCheck(c, h)
  BY <1>2 DEF Create, CreateShare, AddSchedule, SendCheck
<1>3. CASE \/ \E c \in Clients : InsertJob(c) \/ PurgeJob(c)
           \/ \E t \in Threads, p \in Pri : WorkerGet(t, p)
           \/ \E t \in Threads : WorkerCall(t)
  <2>1. \E x : \E v \in {"queued", "dropped", "started", "done"} : fate' = [fate EXCEPT ![x] = v]
    <3>1. CASE \E c \in Clients : InsertJob(c)
      BY <3>1 DEF InsertJob, LinkLast
    <3>2. CASE \E c \in Clients : PurgeJob(c)
      BY <3>2 DEF PurgeJob
    <3>3. CASE \E t \in Threads, p \in Pri : WorkerGet(t, p)
      BY <3>3 DEF WorkerGet
    <3>4. CASE \E t \in Threads : WorkerCall(t)
      BY <3>4 DEF WorkerCall
    <3> QED BY <1>3, <3>1, <3>2, <3>3, <3>4
  <2> QED BY <1>0, <2>1
<1>4. CASE \E t \in Threads : WorkerExit(t)
  <2>1. PICK t \in Threads : WorkerExit(t)
    BY <1>4
  <2>2. hthr[j.sch] = t /\ wpc[t] = "exit"
    BY <1>0, <2>1, ExitPlaced DEF WorkerExit
  <2> QED BY <1>0, <2>2
<1> QED BY <1>1, <1>2, <1>3, <1>4, StepCases

\* No step touches freed memory or fails an assertion, and none loses a job.
LEMMA StepServed ==
  ASSUME Atomics = "interlocked", TypeOK, Linked, Placed, DeleteInv, Alive, OnlyLive, Cleared,
         TailInv, NoFault, NoJobLost, [Next]_vars
  PROVE  NoFault' /\ NoJobLost'
<1>0. Deleters /\ SelfOwn
  BY DEF DeleteInv
<1>1. ASSUME NEW h \in Handles, hst[h] = "live" PROVE wpc[hthr[h]] # "freed"
  BY <1>0, <1>1, LiveHolds, HolderRuns
<1>2. ASSUME NEW c \in Clients PROVE ~ClientUsesFreed(c)
  <2>1. ch[c] \in Handles
    BY TargetType
  <2>2. CASE cpc[c] \in SenderPcs
    BY <1>1, <2>1, <2>2 DEF OnlyLive, SenderPcs, ClientUsesFreed, Freed
  <2>3. CASE cpc[c] \in {"purge", "purged"}
    BY <1>0, <2>1, <2>3, HolderOf, HolderRuns DEF Deleting, ClientUsesFreed
  <2>4. CASE cpc[c] = "dec"
    <3>1. hst[ch[c]] = "closing"
      BY <1>0, <2>4 DEF Deleters, Deleting
    <3>2. htype[ch[c]] = "selfThread" => hthr[ch[c]] = ch[c] /\ run[ch[c]]
      BY <1>0, <2>1, <3>1 DEF SelfOwn, Alive, Open
    <3>3. ch[c] \in Threads
      BY <2>1 DEF Threads
    <3> QED BY <2>4, <3>2, <3>3 DEF Alive, Stops, ClientUsesFreed
  <2> QED BY <2>2, <2>3, <2>4 DEF ClientUsesFreed, SenderPcs
<1>3. ASSUME NEW h \in Handles PROVE ~DeleteUsesFreed(h)
  BY <1>1, <1>3 DEF DeleteUsesFreed
<1>4. ASSUME NEW t \in Threads, NEW p \in Pri PROVE ~WorkerUsesFreed(t, p)
  <2> SUFFICES ASSUME que[t][p] # <<>> PROVE hst[Head(que[t][p]).sch] # "deleted"
    BY DEF WorkerUsesFreed, Urgent
  <2>1. que[t][p] \in Seq(Jobs)
    BY DEF TypeOK
  <2>2. 1 \in DOMAIN que[t][p] /\ Head(que[t][p]) = que[t][p][1] /\ que[t][p][1] \in Jobs
    BY <2>1
  <2> QED BY <2>2 DEF Placed, ListsHold, Cleared
<1>5. ASSUME NEW c \in Clients PROVE ~InsertAssert(c)
  <2>1. /\ hthr[ch[c]] \in Threads /\ hpri[ch[c]] \in Pri
    BY TargetType
  <2> DEFINE s == que[hthr[ch[c]]][hpri[ch[c]]]
  <2>2. s \in Seq(Jobs) /\ tail[hthr[ch[c]]][hpri[ch[c]]] = LastOf(s)
    BY <2>1 DEF TypeOK, TailInv
  <2>3. s = <<>> <=> LastOf(s) = NoJob
    <3>1. s # <<>> => s[Len(s)] \in Jobs
      BY <2>2
    <3> QED BY <3>1, ScheduleAssumption DEF LastOf
  <2> QED BY <2>2, <2>3 DEF InsertAssert, TailAgrees
<1>6. NoFault'
  <2> USE DEF NoFault
  <2>1. CASE UNCHANGED vars
    BY <2>1 DEF vars
  <2>2. CASE \/ \E k \in Calls : Create(k) \/ CreateShare(k)
             \/ \E c \in Clients, h \in Handles : SendCheck(c, h) \/ DeleteLock(c, h)
    BY <2>2 DEF Create, CreateShare, AddSchedule, SendCheck, DeleteLock
  <2>3. CASE \E c \in Clients : Send(c)
    BY <1>5, <2>3 DEF Send, JobNew, JobNoMem, InsertJob, LinkLast, SemGive
  <2>4. CASE \E c \in Clients : Delete(c)
    BY <2>4 DEF Delete, PurgeJob, PurgeSkip, PurgeDone, DeleteDec, DeleteFree
  <2>5. CASE \E t \in Threads : Worker(t)
    BY <2>5 DEF Worker, WorkerTop, WorkerWake, WorkerTimeout, WorkerGet, WorkerCall,
                WorkerDrained, WorkerExit
  <2> QED BY <1>2, <1>3, <1>4, <2>1, <2>2, <2>3, <2>4, <2>5 DEF Next
<1>7. NoJobLost'
  <2> SUFFICES ASSUME NEW j \in Jobs, fate'[j] = "lost" PROVE FALSE
    BY DEF NoJobLost
  <2>1. fate[j] = "queued" /\ wpc[hthr[j.sch]] = "exit"
    BY LostBy DEF NoJobLost
  <2>2. j.sch \in Handles /\ hst[j.sch] \notin {"unused", "deleted"}
    BY <2>1, JobFields DEF Placed, SentOnly, Cleared
  <2>3. j.sch \in RefHolders(hthr[j.sch])
    BY <2>1, <2>2 DEF Cleared, RefHolders, TypeOK
  <2> QED BY <2>1, <2>2, <2>3, HolderRuns
<1> QED BY <1>6, <1>7

\* Whoever deletes what, in whatever order, while jobs of other schedules are
\* sent and run: no freed schedule or thread is touched, no assertion fails, no
\* accepted job is lost and every live schedule has a running thread.  It takes
\* an atomic decrement that returns what it leaves (the win32 port), clients
\* that delete only what nobody is sending to, and no two schedules of one
\* priority on one thread; none of the three can be left out.
THEOREM AllJobsServed ==
  ASSUME Atomics = "interlocked", Quiesce
  PROVE  Spec /\ []ListsApart => []JobsServed
<1>1. Init => NoFault /\ NoJobLost
  BY DEF Init, NoFault, NoJobLost
<1>2. /\ TypeOK /\ Linked /\ Placed /\ DeleteInv /\ Alive /\ OnlyLive /\ Cleared /\ TailInv
      /\ NoFault /\ NoJobLost /\ [Next]_vars
      => NoFault' /\ NoJobLost'
  BY StepServed
<1>3. NoFault /\ NoJobLost /\ ThreadServesLive => JobsServed
  BY DEF JobsServed
<1>4. Spec => [](OnlyLive /\ Cleared)
  BY AlwaysCleared
<1>5. Spec => [](TypeOK /\ Linked /\ Placed /\ DeleteInv /\ RefCntExact /\ Alive /\ LastRef)
  BY AlwaysAlive
<1>6. Spec => []ThreadServesLive
  BY ThreadServed
<1> QED BY <1>1, <1>2, <1>3, <1>4, <1>5, <1>6, AlwaysTail, PTL DEF Spec
=============================================================================
