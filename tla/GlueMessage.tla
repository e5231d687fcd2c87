----------------------------- MODULE GlueMessage -----------------------------
(***************************************************************************)
(* What `#[contract]` generates to receive messages: `ExecMsg`, `QueryMsg` *)
(* and `SudoMsg` of the contract and of each interface it implements, the  *)
(* lists of their names, and the untagged enums (`ContractExecMsg`, ...)   *)
(* that compose them, with their Deserialize and dispatch.                 *)
(*                                                                         *)
(* A method is named by the variant generated for it.  The variant has two *)
(* names in snake case: SerdeName, by serde's `rename_all`, is its name in *)
(* JSON, CaseName, by convert_case, is its name in the list.  A contract   *)
(* is a record [methods, custom, structs, replies, overrides], see         *)
(* EntryPoints for the last three.                                         *)
(***************************************************************************)
EXTENDS Naturals, Sequences, FiniteSetsExt

CONSTANTS
  N,          \* the interfaces of sv::messages are 1..N-1 in order, the contract is N
  Variants,
  SerdeName, CaseName  \* functions from variants to names

ASSUME NAssumption == N \in Nat \ {0}
ASSUME NamesAssumption == DOMAIN SerdeName = Variants /\ DOMAIN CaseName = Variants

Modules == 1..N
EnumTypes == {"exec", "query", "sudo"}

\* {exec,query,sudo}_messages of every module
Messages(c, type) == [i \in Modules |-> {CaseName[v] : v \in c.methods[i][type]}]

\* Fault: the contract's own list is not compared.
InterfacesIntersect(c) ==
  \E type \in EnumTypes, i, j \in 1..(N - 1) :
    i # j /\ Messages(c, type)[i] \cap Messages(c, type)[j] # {}

\* What assert_no_intersection decides in each dispatch.  The list of a module is
\* sorted and N lists are compared, as NoIntersection assumes.
Intersect(c) ==
  \E type \in EnumTypes, i, j \in Modules :
    i # j /\ Messages(c, type)[i] \cap Messages(c, type)[j] # {}
-----------------------------------------------------------------------------
\* Serialize, derived and untagged: one field, named as serde names the variant.
Serialized(v) == [map |-> TRUE, fields |-> [name \in {SerdeName[v]} |-> "well_formed"]]

\* Deserialize of the composed message.  JSON is a map or not, and a map has fields:
\* a function from their names to "well_formed" or "ill_formed" arguments.

IsJson(json) ==
  /\ json = [map |-> json.map, fields |-> json.fields] /\ json.map \in BOOLEAN
  /\ IsFiniteSet(DOMAIN json.fields)
  /\ json.fields \in [DOMAIN json.fields -> {"well_formed", "ill_formed"}]

\* Fault: a map of any size will do.
SingleFieldUnchecked(json) == json.map /\ json.fields # <<>>

SingleField(json) == json.map /\ Cardinality(DOMAIN json.fields) = 1
Field(json) == CHOOSE name \in DOMAIN json.fields : TRUE

\* The attempts are made in order, and the first module that lists the name decides.
Claimants(c, type, json) == {i \in Modules : Field(json) \in Messages(c, type)[i]}
Claimant(c, type, json) == Min(Claimants(c, type, json))

\* deserialize_into the claimant's enum: the variants it can produce.
Parsed(c, type, json) ==
  {v \in c.methods[Claimant(c, type, json)][type] :
     SerdeName[v] = Field(json) /\ json.fields[Field(json)] = "well_formed"}
-----------------------------------------------------------------------------
\* IntoMsg and IntoResponse: an interface whose messages are not the chain's custom
\* ones has its response converted, field by field.  The kind of a message is "known",
\* "custom" (Empty) or "unknown" to this version; gas_limit is <<>> or one limit.
Submessages == [id : Nat, kind : {"known", "custom", "unknown"}, gas_limit : Seq(Nat),
                reply_on : {"never", "success", "error", "always"}, payload : STRING]

IsReaction(response) ==
  /\ response = [result |-> response.result, messages |-> response.messages, data |-> response.data,
                 events |-> response.events, attributes |-> response.attributes]
  /\ response.result \in {"Ok", "Err"}
  /\ response.messages \in Seq(Submessages)

Converts(c, type, i) == i \in c.custom /\ type \in {"exec", "sudo"}
Convertible(response) == \A k \in DOMAIN response.messages : response.messages[k].kind = "known"

IntoMsg(message) == [id |-> message.id, kind |-> message.kind, gas_limit |-> message.gas_limit,
                     reply_on |-> message.reply_on, payload |-> message.payload]

IntoResponse(response) ==
  [result     |-> "Ok",
   messages   |-> [k \in DOMAIN response.messages |-> IntoMsg(response.messages[k])],
   data       |-> response.data,
   events     |-> response.events,
   attributes |-> response.attributes]
=============================================================================
