----------------------------- MODULE EntryPoints -----------------------------
(***************************************************************************)
(* A contract between its source and its callers.  The macros expand it    *)
(* for two builds: "chain", the entry points of `#[entry_points]` next to  *)
(* the ones its author writes, and "mt", the `cw_multi_test::Contract`     *)
(* implementation behind the multitest helpers.  Both get the same call.   *)
(*                                                                         *)
(* External: rustc, which rejects two exported functions of one name and   *)
(* calls that do not type check, and the author's own entry points.        *)
(***************************************************************************)
EXTENDS GlueMessage

CONSTANTS
  Contracts,  \* sources, see GlueMessage: structs counts the instantiate and
              \* migrate methods, replies the reply methods, overrides is the
              \* sequence of the override_entry_point attributes
  Calls       \* [type, json, reaction]: what the handler, if reached, will return

Builds == {"chain", "mt"}
StructTypes == {"instantiate", "migrate"}
Types == EnumTypes \cup StructTypes \cup {"reply"}

ASSUME ContractsAssumption ==
  \A c \in Contracts, i \in Modules, type \in EnumTypes : c.methods[i][type] \subseteq Variants
\* serde's rename_all keeps the variants of an enum apart: it only marks their capitals.
ASSUME SerdeAssumption ==
  \A c \in Contracts, i \in Modules, type \in EnumTypes :
    \A v, w \in c.methods[i][type] : SerdeName[v] = SerdeName[w] => v = w
ASSUME CallsAssumption ==
  \A c \in Calls : c.type \in Types /\ IsJson(c.json) /\ IsReaction(c.reaction)

VARIABLES
  contract,  \* the source
  built,     \* build |-> "source", "built" or "rejected"
  routes,    \* build |-> type |-> "default", "override" or "missing"
  call,      \* a call, or <<>> before it
  outcome    \* build |-> what the caller gets, <<>> before that

vars == <<contract, built, routes, call, outcome>>
-----------------------------------------------------------------------------
\* OverrideEntryPoint::parse: the type an attribute is taken for.
ParsedType(name) == IF name = "query" THEN "instantiate" ELSE name

Written(c) == {c.overrides[k] : k \in DOMAIN c.overrides}

\* get_entry_point
Overridden(c, type) == \E k \in DOMAIN c.overrides : ParsedType(c.overrides[k]) = type

\* Are there methods a default entry point needs?  Enum messages may be empty.
Declared(c, type) == CASE type \in StructTypes -> c.structs[type] > 0
                       [] type = "reply" -> c.replies > 0
                       [] OTHER -> TRUE

\* EntryPoints::emit: the entry points of the generated module.
Exported(c) == {type \in Types : Declared(c, type) /\ ~Overridden(c, type)}

\* An overriding entry point is the author's own exported function.
ChainRoute(c) == [type \in Types |-> IF type \in Exported(c) THEN "default"
                                     ELSE IF type \in Written(c) THEN "override"
                                     ELSE "missing"]

\* Fault: migrate is not looked up among the overrides.
MtRouteIgnoringMigrate(c) ==
  [type \in Types |-> IF Overridden(c, type) /\ type # "migrate" THEN "override"
                      ELSE IF Declared(c, type) THEN "default"
                      ELSE "missing"]

\* emit_impl_contract
MtRoute(c) == [type \in Types |-> IF Overridden(c, type) THEN "override"
                                  ELSE IF Declared(c, type) THEN "default"
                                  ELSE "missing"]

\* emit_ctx_values: what an entry point of the type gets next to the message.
CtxValues(type) == CASE type \in {"exec", "instantiate"} -> "DepsMut, Env, MessageInfo"
                     [] type \in {"migrate", "reply", "sudo"} -> "DepsMut, Env"
                     [] type = "query" -> "Deps, Env"

\* emit_multitest_dispatch calls the author's function with the context of the parsed
\* type and the message from_json, which a Reply, no bytes, cannot be read from.
TypeChecks(name) == CtxValues(ParsedType(name)) = CtxValues(name) /\ ParsedType(name) # "reply"

\* StructMessage::new, EntryPointInput::new and the assertion of dispatch.
WellFormed(c) == /\ c.structs.instantiate = 1
                 /\ c.structs.migrate <= 1
                 /\ ~Intersect(c)

Accepts(c, b) == /\ WellFormed(c)
                 /\ IF b = "chain" THEN Exported(c) \cap Written(c) = {}
                    ELSE \A name \in Written(c) : TypeChecks(name)

Build(b) ==
  /\ built[b] = "source"
  /\ built' = [built EXCEPT ![b] = IF Accepts(contract, b) THEN "built" ELSE "rejected"]
  /\ routes' = [routes EXCEPT ![b] = IF b = "chain" THEN ChainRoute(contract)
                                     ELSE MtRoute(contract)]
  /\ UNCHANGED <<contract, call, outcome>>

\* The caller, a client of either.
Send == /\ call = <<>>
        /\ \A b \in Builds : built[b] # "source"
        /\ \E b \in Builds : built[b] = "built"
        /\ call' \in Calls
        /\ UNCHANGED <<contract, built, routes, outcome>>
-----------------------------------------------------------------------------
Reached(b, route) == /\ built[b] = "built" /\ call # <<>> /\ outcome[b] = <<>>
                     /\ routes[b][call.type] = route

Return(b, o) == /\ outcome' = [outcome EXCEPT ![b] = o]
                /\ UNCHANGED <<contract, built, routes, call>>
Refuse(b, why) == Return(b, [kind |-> "refused", why |-> why])

NoEntryPoint(b) == Reached(b, "missing") /\ Refuse(b, "missing")
Overriding(b) == Reached(b, "override") /\ Return(b, [kind |-> "author"])

\* The default entry point of an enum message: from_json, then dispatch.
Received(b) == Reached(b, "default") /\ call.type \in EnumTypes
Single(b) == Received(b) /\ SingleField(call.json)
Claimed(b) == Single(b) /\ Claimants(contract, call.type, call.json) # {}

WrongFormat(b) == Received(b) /\ ~SingleField(call.json) /\ Refuse(b, "format")
Unsupported(b) == /\ Single(b) /\ Claimants(contract, call.type, call.json) = {}
                  /\ Refuse(b, "unsupported")
Unparsable(b) == /\ Claimed(b) /\ Parsed(contract, call.type, call.json) = {}
                 /\ Refuse(b, "unparsable")

\* dispatch of the composed message, then of the module's message: the handler is
\* called, and the response of an interface may have to be converted.
HandlerFails(b, i, v) ==
  /\ call.reaction.result = "Err"
  /\ Return(b, [kind |-> "failed", by |-> <<i, v>>])
CannotConvert(b, i, v) ==
  /\ call.reaction.result = "Ok" /\ Converts(contract, call.type, i) /\ ~Convertible(call.reaction)
  /\ Return(b, [kind |-> "not_converted", by |-> <<i, v>>])
Converted(b, i, v) ==
  /\ call.reaction.result = "Ok" /\ Converts(contract, call.type, i) /\ Convertible(call.reaction)
  /\ Return(b, [kind |-> "handled", by |-> <<i, v>>, response |-> IntoResponse(call.reaction)])
Passed(b, i, v) ==
  /\ call.reaction.result = "Ok" /\ ~Converts(contract, call.type, i)
  /\ Return(b, [kind |-> "handled", by |-> <<i, v>>, response |-> call.reaction])

Dispatch(b) ==
  /\ Claimed(b)
  /\ \E v \in Parsed(contract, call.type, call.json) :
       LET i == Claimant(contract, call.type, call.json)
       IN \/ HandlerFails(b, i, v)
          \/ CannotConvert(b, i, v)
          \/ Converted(b, i, v)
          \/ Passed(b, i, v)

\* instantiate and migrate are structs, read whole; reply is no JSON at all, and
\* without the replies feature it goes to the first reply method.
StructDispatch(b) ==
  /\ Reached(b, "default") /\ call.type \in StructTypes
  /\ \/ ~call.json.map /\ Refuse(b, "unparsable")
     \/ call.json.map /\ (HandlerFails(b, N, call.type) \/ Passed(b, N, call.type))

ReplyDispatch(b) ==
  /\ Reached(b, "default") /\ call.type = "reply"
  /\ HandlerFails(b, N, "reply") \/ Passed(b, N, "reply")
-----------------------------------------------------------------------------
Init == /\ contract \in Contracts
        /\ built = [b \in Builds |-> "source"]
        /\ routes = [b \in Builds |-> <<>>]
        /\ call = <<>>
        /\ outcome = [b \in Builds |-> <<>>]

Stopped == /\ \A b \in Builds : built[b] = "rejected" \/ (built[b] = "built" /\ outcome[b] # <<>>)
           /\ UNCHANGED vars

Next == \/ Send
        \/ Stopped
        \/ \E b \in Builds :
             \/ Build(b)
             \/ NoEntryPoint(b) \/ Overriding(b)
             \/ WrongFormat(b) \/ Unsupported(b) \/ Unparsable(b) \/ Dispatch(b)
             \/ StructDispatch(b) \/ ReplyDispatch(b)

Spec == Init /\ [][Next]_vars
-----------------------------------------------------------------------------
Outcomes(b) == outcome[b] # <<>>

Handled(b) == outcome[b].kind \in {"handled", "failed", "not_converted"}

\* What a client builds from a method of a module and sends as the right type of
\* message reaches that method, on the chain and in a test; its response, or its
\* error, comes back whole, unless the response cannot be one of this chain.
Delivered ==
  \A b \in Builds, i \in Modules, v \in Variants :
    /\ Outcomes(b) /\ call.type \in EnumTypes
    /\ v \in contract.methods[i][call.type]
    /\ call.json = Serialized(v)
    /\ call.type \notin Written(contract)
    => /\ Handled(b)
       /\ outcome[b].by = <<i, v>>
       /\ outcome[b].kind = "handled" => outcome[b].response = call.reaction
       /\ outcome[b].kind = "failed" <=> call.reaction.result = "Err"

\* A handler is only called with the one message that names it: no second field, no
\* arguments of another method, and never one that a second module declares too.
OnlyByName ==
  \A b \in Builds :
    Outcomes(b) /\ call.type \in EnumTypes /\ outcome[b].kind # "author" /\ Handled(b) =>
      LET i == outcome[b].by[1]
          v == outcome[b].by[2]
      IN /\ call.json = Serialized(v)
         /\ {j \in Modules : v \in contract.methods[j][call.type]} = {i}

\* The same call has the same outcome on the chain and in a test, overridden entry
\* points included.
SameInTests == (\A b \in Builds : Outcomes(b)) => outcome["chain"] = outcome["mt"]
=============================================================================
