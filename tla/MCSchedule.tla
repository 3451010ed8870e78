----------------------------- MODULE MCSchedule -----------------------------
(* Instances of Schedule for TLC: the create calls of each scenario.       *)
EXTENDS Schedule, TLC

CONSTANTS h1, h2, h3

\* A schedule on the common thread (the module's ipc->sch) ...
Common(h, p, m) == [h |-> h, op |-> "create", type |-> "zcrtThread", pri |-> p, max |-> m]
\* ... with a thread of its own (ipc->respondSch) ...
Self(h, p, m) == [h |-> h, op |-> "create", type |-> "selfThread", pri |-> p, max |-> m]
\* ... and one that shares another's thread (ipc->evtSch).
Share(h, of, p, m) == [h |-> h, op |-> "share", of |-> of, pri |-> p, max |-> m]

\* Two schedules of the same priority on the common thread.
SamePriority == {Common(h1, 0, 2), Common(h2, 0, 2)}
\* respondSch and evtSch of the ipc server: one private thread, two priorities, of
\* which the first takes two jobs of one client.
PrivateAndShare == {Self(h1, 0, 2), Share(h2, h1, 1, 1)}
\* The same with one priority: the lists of h1 and h2 are one.
ShareSamePriority == {Self(h1, 0, 1), Share(h2, h1, 0, 1)}
\* The three schedules of the ipc server.
IpcServer == {Self(h1, 0, 1), Share(h2, h1, 1, 1), Common(h3, 0, 1)}

\* In PrivateAndShare and ShareSamePriority the common thread serves no schedule:
\* its turns would change nothing but its own wpc, and are left out.
QuietSpec == Init /\ [][Next /\ UNCHANGED wpc[ZThr]]_vars

Sym == Permutations(Clients)
=============================================================================
