---------------------------- MODULE ReplyDispatch ---------------------------
(***************************************************************************)
(* The generated `SubMsgMethods` and `dispatch_reply` of a contract with   *)
(* the `replies` feature, between the contract's handlers and the chain.   *)
(* The table is expanded first (ReplyTable); then one transaction of the   *)
(* contract sends submessages, the chain executes each of them and calls   *)
(* the reply entry point back as the submessage asked.                     *)
(*                                                                         *)
(* The chain (wasmd, cw-multi-test) is external: it runs submessages in    *)
(* order, depth first, and drops the whole transaction on an error nobody  *)
(* handles.                                                                *)
(***************************************************************************)
EXTENDS ReplyTable

CONSTANTS
  Binaries,   \* raw payloads a caller can attach
  ReplyData,  \* what a successful submessage returns as data, see DataArg
  ManualIds,  \* ids a contract can put into a submessage by hand
  Deployed,   \* bound: the contracts whose transactions are considered
  MaxSubs     \* bound: submessages of one transaction

ASSUME ManualIdsAssumption == ManualIds \subseteq Nat /\ MaxSubs \in Nat

VARIABLES
  tx,      \* "compile", "running", "replying", "committed" or "failed"
  subs,    \* submessages still to be executed
  result,  \* the outcome of the one being replied to
  log      \* history: what became of every submessage executed so far

rvars == <<tx, subs, result, log>>
vars == <<tvars, rvars>>

Outcomes == [kind : {"success"}, data : ReplyData] \cup [kind : {"error"}, data : {"none"}]
-----------------------------------------------------------------------------
\* Payloads: Binary values are records [enc, vals]; a raw parameter takes the
\* binary as it is, the others travel as one JSON value.
Values(t) == [ty : {t}, v : {1, 2}]
Arguments(payload) ==
  IF IsRaw(payload) THEN {<<b>> : b \in Binaries}
  ELSE {s \in [DOMAIN payload -> UNION {Values(t) : t \in ToSet(Types(payload))}] :
          \A k \in DOMAIN payload : s[k].ty = payload[k].ty}

Serialize(payload, args) ==
  IF IsRaw(payload) THEN args[1] ELSE [enc |-> "json", vals |-> args]

Deserializes(payload, bin) ==
  IsRaw(payload) \/ (bin.enc = "json" /\ bin.vals \in Arguments(payload))
Deserialize(payload, bin) == IF IsRaw(payload) THEN <<bin>> ELSE bin.vals

\* Fault: ids start at one.
BySetterFromOne(e, args) ==
  [id       |-> e,
   reply_on |-> CwReplyOn(reply_data[e]),
   payload  |-> Serialize(reply_data[e].payload, args),
   origin   |-> <<reply_data[e].handler_id, args>>]

\* emit_submsg_setter and emit_submsg_converter
BySetter(e, args) ==
  [id       |-> e - 1,
   reply_on |-> CwReplyOn(reply_data[e]),
   payload  |-> Serialize(reply_data[e].payload, args),
   origin   |-> <<reply_data[e].handler_id, args>>]

Setters == UNION {{BySetter(e, args) : args \in Arguments(reply_data[e].payload)} :
                    e \in DOMAIN reply_data}

\* A contract may also fill the fields of a SubMsg itself.
ByHand == [id : ManualIds, reply_on : {"never", "success", "error", "always"},
           payload : Binaries, origin : {<<>>}]

\* The deserialized payload takes the names of the method's parameters, in the
\* scope the call is evaluated in: a parameter of that name hides the local.
Hides(payload, name) == \E k \in DOMAIN payload : payload[k].name = name

\* emit_data_deserialization.  `data` is "none", "not_protobuf" or the inner data
\* of an execute response: "no_inner", "not_json", "json".
DataFails(mode, data) ==
  \/ data = "none" /\ mode \in {"raw", "instantiate", "exec"}
  \/ data = "not_protobuf" /\ mode \notin {"raw", "raw_opt"}
  \/ data \in {"no_inner", "not_json"} /\ mode \in {"exec", "exec_opt"}
-----------------------------------------------------------------------------
Init == TableInit /\ tx = "compile" /\ subs = <<>> /\ result = <<>> /\ log = <<>>

Compile == tx = "compile" /\ Expand /\ UNCHANGED rvars

\* The locals the arm of a handler moves into its call, before the payload.
Moves(entry, reply_on) ==
  {"deps", "env"} \cup
    CASE reply_on = "success" -> {"events", "msg_responses"} \cup {d \in {"data"} : entry.data # <<>>}
      [] reply_on = "error" -> {"error"}
      [] reply_on = "always" -> {"result"}

\* External: rustc rejects a generated call that lacks the data its method
\* declares, or that uses a hidden local twice.
Compiles ==
  /\ Accepted
  /\ DataForwarded
  /\ \A entry \in ToSet(reply_data) : \A d \in ToSet(entry.handlers) :
       \A l \in Moves(entry, d.reply_on) : ~Hides(entry.payload, l)

\* A handler of the contract returns a response with submessages.
Start == /\ tx = "compile" /\ Compiles /\ methods \in Deployed
         /\ \E n \in 1..MaxSubs : \E s \in [1..n -> Setters \cup ByHand] : subs' = s
         /\ tx' = "running"
         /\ UNCHANGED <<tvars, result, log>>

Record(how) == log' = Append(log, [sub |-> Head(subs), result |-> result', how |-> how])

\* External: the chain executes the next submessage and asks for a reply if wanted.
Execute ==
  /\ tx = "running" /\ subs # <<>>
  /\ result' \in Outcomes
  /\ IF Head(subs).reply_on \in {result'.kind, "always"}
     THEN tx' = "replying" /\ UNCHANGED <<subs, log>>
     ELSE /\ tx' = IF result'.kind = "error" THEN "failed" ELSE "running"
          /\ subs' = Tail(subs)
          /\ Record([via |-> "chain"])
  /\ UNCHANGED tvars

Commit == /\ tx = "running" /\ subs = <<>>
          /\ tx' = "committed"
          /\ UNCHANGED <<tvars, subs, result, log>>
-----------------------------------------------------------------------------
\* dispatch_reply: the entry whose constant equals the id.
Replying == tx = "replying"
Entry == reply_data[Head(subs).id + 1]
Known == Head(subs).id < Len(reply_data)
Handlings == Handling(Entry, result.kind)
Handler == Found(Entry, result.kind)

Fail(why) == /\ tx' = "failed"
             /\ subs' = Tail(subs)
             /\ UNCHANGED <<tvars, result>>
             /\ Record([via |-> why])

\* _ => Err("Unknown reply id")
UnknownId == Replying /\ ~Known /\ Fail("unknown_id")

\* No method for the outcome: events and data are forwarded, or the error is.
ForwardOk == /\ Replying /\ Known /\ Handlings = {} /\ result.kind = "success"
             /\ tx' = "running"
             /\ subs' = Tail(subs)
             /\ UNCHANGED <<tvars, result>>
             /\ Record([via |-> "forward", data |-> result.data])

\* Fault: an error without a method for it becomes an empty response.
ForwardErrorAsOk == /\ Replying /\ Known /\ Handlings = {} /\ result.kind = "error"
                    /\ tx' = "running"
                    /\ subs' = Tail(subs)
                    /\ UNCHANGED <<tvars, result>>
                    /\ Record([via |-> "forward"])

ForwardError == /\ Replying /\ Known /\ Handlings = {} /\ result.kind = "error"
                /\ Fail("forward")

\* The payload is deserialized before the data, each may end the arm with `?`.
BadPayload == /\ Replying /\ Known /\ Handlings # {}
              /\ ~Deserializes(Entry.payload, Head(subs).payload)
              /\ Fail("bad_payload")

PassesData == Handler.reply_on = "success" /\ Entry.data # <<>>

BadData == /\ Replying /\ Known /\ Handlings # {}
           /\ Deserializes(Entry.payload, Head(subs).payload)
           /\ PassesData /\ DataFails(Entry.data[1].ty, result.data)
           /\ Fail("bad_data")

\* The arguments of the generated call after the context: data, error
\* or result if the scenario has one, then the payload parameters.
Call(args) ==
  [via      |-> "call",
   method   |-> Handler.method,
   first    |-> IF Handler.reply_on # "success" THEN Handler.reply_on
                ELSE IF PassesData THEN "data" ELSE "nothing",
   payload  |-> args]

\* The method runs; it may fail, and it may answer with one more submessage.
Handle ==
  /\ Replying /\ Known /\ Handlings # {}
  /\ Deserializes(Entry.payload, Head(subs).payload)
  /\ ~(PassesData /\ DataFails(Entry.data[1].ty, result.data))
  /\ \/ tx' = "failed" /\ subs' = Tail(subs)
     \/ tx' = "running" /\ subs' = Tail(subs)
     \/ /\ tx' = "running"
        /\ Len(log) + Len(subs) < MaxSubs
        /\ \E s \in Setters : subs' = <<s>> \o Tail(subs)
  /\ UNCHANGED <<tvars, result>>
  /\ Record(Call(Deserialize(Entry.payload, Head(subs).payload)))

Ended == /\ \/ tx \in {"committed", "failed"}
            \/ tx = "compile" /\ Built /\ ~(Compiles /\ methods \in Deployed)
         /\ UNCHANGED vars

Reply == UnknownId \/ ForwardOk \/ ForwardError \/ BadPayload \/ BadData \/ Handle
Next == Compile \/ Start \/ Execute \/ Commit \/ Reply \/ Ended

Spec == Init /\ [][Next]_vars
-----------------------------------------------------------------------------
\* The methods declared for the id a handler name stands for, and for an outcome.
DeclaredFor(handler, outcome) ==
  {k \in DOMAIN methods :
     /\ methods[k].reply_on \in {outcome, "always"}
     /\ \E h \in ToSet(HandlersOf(methods[k])) : ReplyIdOf[h] = ReplyIdOf[handler]}

\* A submessage built with the generated method of a handler ends in the method
\* declared for that handler and outcome, with the payload it was built with, and
\* is left to the chain exactly when no method is declared.  Only data the method
\* cannot accept stops the call.
HandledAsDeclared ==
  \A k \in DOMAIN log : LET d == log[k] IN
    d.sub.origin # <<>> =>
      LET handler == d.sub.origin[1]
          declared == DeclaredFor(handler, d.result.kind)
      IN CASE d.how.via = "chain" -> declared = {}
           [] d.how.via = "bad_data" -> \E m \in declared : HasData(methods[m])
           [] d.how.via = "call" ->
                /\ d.how.method \in declared
                /\ d.how.payload = d.sub.origin[2]
                /\ d.how.first = "data" <=> HasData(methods[d.how.method])
           [] OTHER -> FALSE

\* A failed submessage never lets the transaction commit unless a method for its
\* error has been called for it: generated code swallows no error.
ErrorsNotSwallowed ==
  tx = "committed" =>
    \A k \in DOMAIN log :
      log[k].result.kind = "error" =>
        log[k].how.via = "call" /\ methods[log[k].how.method].reply_on \in {"error", "always"}
=============================================================================
