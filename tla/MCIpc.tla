------------------------------- MODULE MCIpc -------------------------------
(***************************************************************************)
(* The ipc server on a small instance.                                     *)
(***************************************************************************)
EXTENDS ZipcServer

Msg(app, req, name) ==
  [app |-> app, hdr |-> TRUE, req |-> req, body |-> TRUE, args |-> "table", name |-> name, evt |-> 1]

\* One client sends two messages and may hook and unhook; the others send one, a
\* notification or a hook.
First == CHOOSE c \in Clients : TRUE
MCMsgs == [c \in Clients |->
  IF c = First THEN {Msg("default", TRUE, "api_ok"), Msg("link", TRUE, "_hookevt"), Msg("link", TRUE, "_unhookevt")}
  ELSE {Msg("default", FALSE, "api_ok")}]
MCMaxReqs == [c \in Clients |-> IF c = First THEN 2 ELSE 1]
=============================================================================
