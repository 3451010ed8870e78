----------------------------- MODULE ZipcParse -----------------------------
(***************************************************************************)
(* How a received payload is parsed and answered (zipc/zipc_parse.c).  A   *)
(* payload is abstracted to what its parser can tell apart: which of its   *)
(* parts can be read and what they name.  A reply is the sequence of the   *)
(* parts put into the output buffer.                                       *)
(***************************************************************************)
EXTENDS Naturals, Sequences

\* ZEIPC_TYPE_DEFAULT, ZEIPC_TYPE_LINK and any other value of appType.
AppTypes == {"default", "link", "other"}

\* A request: its application type; hdr, body: the common header and the body
\* information can be read; req: its flag in the common header; args: the third
\* part of the body ("short": a table that ends before what it should hold); name:
\* what it asks for.
Requests ==
  [app : AppTypes, hdr : BOOLEAN, req : BOOLEAN, body : BOOLEAN, args : {"table", "short", "scalar", "cut"},
   name : {"nocomp", "noact", "api_ok", "api_err", "_hookevt", "_unhookevt"}, evt : 0 .. 1]

\* zipc_comp_call and the api behind it, in a component that is registered.
\* An api that fails is taken to have put nothing.
CompCall(r) ==
  CASE r.name = "api_ok"  -> [ret |-> "success", out |-> <<"ret">>]
    [] r.name = "api_err" -> [ret |-> "apiErr", out |-> <<>>]
    [] OTHER              -> [ret |-> "ipcNoAct", out |-> <<>>]

\* zipc_parse_request: body, component, index, type of the arguments, call.
ParseRequest(r) ==
  CASE ~r.body             -> [ret |-> "ipcBodyErr", out |-> <<>>]
    [] r.body /\ r.name = "nocomp" -> [ret |-> "ipcNoModule", out |-> <<>>]
    [] r.body /\ r.name # "nocomp" /\ r.args = "cut"    -> [ret |-> "ipcBodyErr", out |-> <<>>]
    [] r.body /\ r.name # "nocomp" /\ r.args = "scalar" -> [ret |-> "ipcArgsErr", out |-> <<>>]
    [] OTHER -> CompCall(r)

\* zipc_parse_init_buf and zipc_parse_put_reply_commonhdr.
ReplyHead == <<"msghdr", "sn">>

\* zipc_parse_put_reply_errcode.
ErrCode(ret) == IF ret = "success" THEN <<>> ELSE <<"err">>

NoReply(ret) == [ret |-> ret, out |-> <<>>, effect |-> "none"]

\* Mutant: the error of the call is not put into the reply.
AppDefaultNoErr(r) ==
  IF ~r.hdr THEN NoReply("ipcCommonHdrErr")
  ELSE IF ~r.req THEN NoReply("ipcNotSupport")
  ELSE LET p == ParseRequest(r)
       IN [ret |-> p.ret, out |-> ReplyHead \o p.out, effect |-> "none"]

\* zipc_parse_app_default: only requests are answered.
AppDefault(r) ==
  IF ~r.hdr THEN NoReply("ipcCommonHdrErr")
  ELSE IF ~r.req THEN NoReply("ipcNotSupport")
  ELSE LET p == ParseRequest(r)
       IN [ret |-> p.ret, out |-> ReplyHead \o p.out \o ErrCode(p.ret), effect |-> "none"]

\* _zipc_link_parase_eventid.
EventId(r) ==
  CASE r.args = "cut"    -> "ipcBodyErr"
    [] r.args = "scalar" -> "ipcArgsErr"
    [] r.args = "short"  -> "ipcTLVErr"
    [] OTHER             -> "success"

\* The loop of zipc_parse_app_link up to its one exit: the error it leaves with
\* and what it does to the event manager.  encoder: an event encoder is set.
LinkBody(r, encoder) ==
  LET evt == EventId(r)
      do  == IF evt = "success" /\ r.evt # 0 THEN r.name ELSE "none"
  IN CASE r.name = "_hookevt" /\ ~encoder -> [ret |-> "ipcNotSupport", effect |-> "none"]
       [] r.name = "_hookevt" /\ encoder  -> [ret |-> evt, effect |-> do]
       [] r.name = "_unhookevt"           -> [ret |-> evt, effect |-> do]
       [] OTHER                           -> [ret |-> "success", effect |-> "none"]

\* zipc_parse_app_link.  A body that cannot be read is answered before the
\* message header is put; a hook of event 0 and an action of any other name are
\* answered as done.
AppLink(r, encoder) ==
  IF ~r.hdr THEN NoReply("ipcCommonHdrErr")
  ELSE IF ~r.body THEN [ret |-> "ipcBodyErr", out |-> <<"err">>, effect |-> "none"]
  ELSE LET b == LinkBody(r, encoder)
       IN [ret |-> b.ret, effect |-> b.effect,
           out |-> ReplyHead \o (IF b.ret = "success" THEN <<"ret">> ELSE <<"err">>)]

\* zipc_parse_payload, and the branch on the type in _zipc_msg_proc_job.
Parse(r, encoder) ==
  CASE r.app = "link"    -> AppLink(r, encoder)
    [] r.app = "default" -> AppDefault(r)
    [] OTHER             -> NoReply("ipcNotSupport")

-----------------------------------------------------------------------------
Count(s, x) == Len(SelectSeq(s, LAMBDA y : y = x))

\* Whoever gets a reply can tell whether the request was carried out: the reply
\* holds one verdict, and it is the one the parser returned.
OneVerdict(r, encoder) ==
  LET p == Parse(r, encoder)
  IN p.out # <<>> =>
       /\ Count(p.out, "ret") + Count(p.out, "err") = 1
       /\ Count(p.out, "err") = 1 <=> p.ret # "success"

\* The event manager is touched only for a link message that is answered as done.
EffectAnswered(r, encoder) ==
  LET p == Parse(r, encoder) IN p.effect # "none" => p.ret = "success" /\ Count(p.out, "ret") = 1

\* Every reply begins with the message header, whose length _zipc_msg_proc_job then
\* fills in; except the answer to a link message whose body cannot be read, of which
\* the length overwrites the verdict.
Framed(r, encoder) ==
  LET p == Parse(r, encoder)
  IN p.out # <<>> => (Head(p.out) = "msghdr" <=> r.app = "default" \/ r.body)
=============================================================================
