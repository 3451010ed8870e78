--------------------------- MODULE ModuleShutdown ---------------------------
(***************************************************************************)
(* zcrt_module_delete (zcrtlib/zmodule.c) against the schedule threads of  *)
(* the module: zcrt_schedule_module_delete walks the list of the private   *)
(* threads and tells each to stop, while threads that have been told, by   *)
(* it or by the deletion of their schedule, take themselves out of the     *)
(* list and free themselves.  Nothing locks the list: the walk reads one   *)
(* thread at a time, and a thread first looks for its predecessor, in one  *)
(* step, and then links it to what follows it, in another.  No schedule is *)
(* created meanwhile.                                                      *)
(***************************************************************************)
EXTENDS Naturals

CONSTANTS NThrs      \* private threads, 1 ... NThrs in the order of the list

VARIABLES
  head, next,        \* m->schthr_list, and thr->next; 0 is NULL
  run,               \* thr->run
  at,                \* what each thread is doing: "serve", "link", "free", "gone"
  prev,              \* the predecessor it has found, 0 when it is the head
  del                \* zcrt_module_delete: its step and the thread it has come to
vars == <<head, next, run, at, prev, del>>

Thrs == 1 .. NThrs

\* Any of the threads may serve a schedule that is already deleted, as the one of
\* the ipc server does (zipc_server_delete comes first).
Init == /\ head = 1 /\ next = [t \in Thrs |-> IF t = NThrs THEN 0 ELSE t + 1]
        /\ run \in [Thrs -> BOOLEAN]
        /\ at = [t \in Thrs |-> "serve"] /\ prev = [t \in Thrs |-> 0]
        /\ del = [at |-> "stop", thr |-> 0]

Fault == del' = [at |-> "fault", thr |-> 0]
Freed(t) == at[t] = "gone"

\* The list as it is linked: the threads that a walk along it comes to.
List ==
  LET walk[n \in Thrs] == IF n = 1 THEN head ELSE IF walk[n - 1] = 0 THEN 0 ELSE next[walk[n - 1]]
  IN {t \in Thrs : \E n \in Thrs : walk[n] = t}

\* The end of _zcrt_schedule_thread_proc, and _zcrt_s_thr_remove_from_module: the
\* thread has drained its lists and looks for its predecessor.
Leave(t) ==
  /\ at[t] = "serve" /\ ~run[t]
  /\ IF del.at = "freed" \/ \E x \in List : Freed(x)
     THEN Fault /\ UNCHANGED <<at, prev>>
     ELSE LET p == {x \in List : next[x] = t}
          IN /\ prev' = [prev EXCEPT ![t] = IF head = t \/ p = {} THEN 0 ELSE CHOOSE x \in p : TRUE]
             /\ at' = [at EXCEPT ![t] = IF head = t \/ p # {} THEN "link" ELSE "free"]
             /\ UNCHANGED del
  /\ UNCHANGED <<head, next, run>>

\* Mutant: what follows the thread is taken out with it.
AfterNone(t) == 0

After(t) == next[t]

\* It links what follows it to its predecessor, which may be gone by now ...
Unlink(t) ==
  /\ at[t] = "link"
  /\ IF del.at = "freed" \/ (prev[t] # 0 /\ Freed(prev[t]))
     THEN Fault /\ UNCHANGED <<head, next, at>>
     ELSE /\ at' = [at EXCEPT ![t] = "free"]
          /\ IF prev[t] = 0 THEN head' = After(t) /\ UNCHANGED next
             ELSE next' = [next EXCEPT ![prev[t]] = After(t)] /\ UNCHANGED head
          /\ UNCHANGED del
  /\ UNCHANGED <<run, prev>>

\* ... and frees itself.
Free(t) ==
  /\ at[t] = "free"
  /\ at' = [at EXCEPT ![t] = "gone"]
  /\ UNCHANGED <<head, next, run, prev, del>>

\* zcrt_schedule_module_delete: the common thread is stopped and the head read ...
WalkStart == /\ del.at = "stop" /\ del' = [at |-> "tell", thr |-> head]
             /\ UNCHANGED <<head, next, run, at, prev>>

\* ... each thread told to stop ...
WalkTell ==
  /\ del.at = "tell" /\ del.thr # 0
  /\ IF Freed(del.thr) THEN Fault /\ UNCHANGED run
     ELSE run' = [run EXCEPT ![del.thr] = FALSE] /\ del' = [del EXCEPT !.at = "next"]
  /\ UNCHANGED <<head, next, at, prev>>

\* ... and then its successor read from it, which may have gone at that word.
WalkNext ==
  /\ del.at = "next"
  /\ IF Freed(del.thr) THEN Fault ELSE del' = [at |-> "tell", thr |-> next[del.thr]]
  /\ UNCHANGED <<head, next, run, at, prev>>

\* 200 ms later the module is freed, whether or not the threads have ended.
ModuleFree == /\ del.at = "tell" /\ del.thr = 0
              /\ del' = [at |-> "freed", thr |-> 0]
              /\ UNCHANGED <<head, next, run, at, prev>>

Next ==
  /\ del.at # "fault"
  /\ \/ \E t \in Thrs : Leave(t) \/ Unlink(t) \/ Free(t)
     \/ WalkStart \/ WalkTell \/ WalkNext \/ ModuleFree

Spec == Init /\ [][Next]_vars

-----------------------------------------------------------------------------
\* As long as nothing freed is touched, the walk has told every thread when it
\* ends, whatever threads leave the list around it.
AllTold == del.at = "freed" => \A t \in Thrs : ~run[t]
=============================================================================
