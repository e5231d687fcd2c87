-------------------------- MODULE EntryPointsProofs --------------------------
(***************************************************************************)
(* Which method a call reaches, and that the chain and the tests agree.    *)
(***************************************************************************)
EXTENDS EntryPoints, NaturalLemmas, FiniteSetTheorems

\* What a handler of the call's type leads to.
Reacts(i, v, o) ==
  \/ call.reaction.result = "Err" /\ o = [kind |-> "failed", by |-> <<i, v>>]
  \/ /\ call.reaction.result = "Ok" /\ Converts(contract, call.type, i) /\ ~Convertible(call.reaction)
     /\ o = [kind |-> "not_converted", by |-> <<i, v>>]
  \/ /\ call.reaction.result = "Ok" /\ Converts(contract, call.type, i) /\ Convertible(call.reaction)
     /\ o = [kind |-> "handled", by |-> <<i, v>>, response |-> IntoResponse(call.reaction)]
  \/ /\ call.reaction.result = "Ok" /\ ~Converts(contract, call.type, i)
     /\ o = [kind |-> "handled", by |-> <<i, v>>, response |-> call.reaction]

Refusal(why) == [kind |-> "refused", why |-> why]

AnswersEnum(o) ==
  \/ ~SingleField(call.json) /\ o = Refusal("format")
  \/ /\ SingleField(call.json) /\ Claimants(contract, call.type, call.json) = {}
     /\ o = Refusal("unsupported")
  \/ /\ SingleField(call.json) /\ Claimants(contract, call.type, call.json) # {}
     /\ Parsed(contract, call.type, call.json) = {}
     /\ o = Refusal("unparsable")
  \/ /\ SingleField(call.json) /\ Claimants(contract, call.type, call.json) # {}
     /\ \E v \in Parsed(contract, call.type, call.json) :
          Reacts(Claimant(contract, call.type, call.json), v, o)

\* The outcomes of the call on a route, by the guards of the actions.
Answers(route, o) ==
  \/ route = "missing" /\ o = Refusal("missing")
  \/ route = "override" /\ o = [kind |-> "author"]
  \/ route = "default" /\ call.type \in EnumTypes /\ AnswersEnum(o)
  \/ route = "default" /\ call.type \in StructTypes /\ ~call.json.map /\ o = Refusal("unparsable")
  \/ route = "default" /\ call.type \in StructTypes /\ call.json.map /\ Reacts(N, call.type, o)
  \/ route = "default" /\ call.type = "reply" /\ Reacts(N, "reply", o)

Route(b) == IF b = "chain" THEN ChainRoute(contract) ELSE MtRoute(contract)

\* What is built stays as it was built once the call is made, and an outcome is one the
\* route of the call gives.
IInv ==
  /\ contract \in Contracts
  /\ built \in [Builds -> {"source", "built", "rejected"}]
  /\ DOMAIN routes = Builds /\ DOMAIN outcome = Builds
  /\ \A b \in Builds : built[b] = "built" => Accepts(contract, b) /\ routes[b] = Route(b)
  /\ call # <<>> => call \in Calls /\ \A b \in Builds : built[b] # "source"
  /\ \A b \in Builds : outcome[b] # <<>> =>
       call # <<>> /\ built[b] = "built" /\ Answers(routes[b][call.type], outcome[b])
-----------------------------------------------------------------------------
\* A handler that is called leads to what its reaction says.
LEMMA HandlerReacts ==
  ASSUME NEW b, NEW i, NEW v,
         HandlerFails(b, i, v) \/ CannotConvert(b, i, v) \/ Converted(b, i, v) \/ Passed(b, i, v)
  PROVE  \E o : Return(b, o) /\ Reacts(i, v, o)
BY DEF HandlerFails, CannotConvert, Converted, Passed, Reacts

\* Every step of a build that answers gives an outcome of the route it took.
Answering(b) == \/ NoEntryPoint(b) \/ Overriding(b) \/ WrongFormat(b) \/ Unsupported(b)
                \/ Unparsable(b) \/ Dispatch(b) \/ StructDispatch(b) \/ ReplyDispatch(b)

LEMMA AnsweringAnswers ==
  ASSUME NEW b \in Builds, Answering(b)
  PROVE  /\ built[b] = "built" /\ call # <<>>
         /\ \E o : Return(b, o) /\ Answers(routes[b][call.type], o)
<1>1. CASE NoEntryPoint(b)
  BY <1>1 DEF NoEntryPoint, Reached, Refuse, Refusal, Answers
<1>2. CASE Overriding(b)
  BY <1>2 DEF Overriding, Reached, Answers
<1>3. CASE WrongFormat(b)
  BY <1>3 DEF WrongFormat, Received, Reached, Refuse, Refusal, Answers, AnswersEnum
<1>4. CASE Unsupported(b)
  BY <1>4 DEF Unsupported, Single, Received, Reached, Refuse, Refusal, Answers, AnswersEnum
<1>5. CASE Unparsable(b)
  BY <1>5 DEF Unparsable, Claimed, Single, Received, Reached, Refuse, Refusal, Answers, AnswersEnum
<1>6. CASE Dispatch(b)
  BY <1>6, HandlerReacts DEF Dispatch, Claimed, Single, Received, Reached, Answers, AnswersEnum
<1>7. CASE StructDispatch(b)
  BY <1>7, HandlerReacts DEF StructDispatch, Reached, Refuse, Refusal, Answers
<1>8. CASE ReplyDispatch(b)
  BY <1>8, HandlerReacts DEF ReplyDispatch, Reached, Answers
<1> QED BY <1>1, <1>2, <1>3, <1>4, <1>5, <1>6, <1>7, <1>8 DEF Answering

LEMMA InitIInv == Init => IInv
BY DEF Init, IInv, Builds

LEMMA NextIInv == IInv /\ [Next]_vars => IInv'
<1> SUFFICES ASSUME IInv, [Next]_vars PROVE IInv'
  OBVIOUS
<1> USE DEF IInv
<1>1. ASSUME NEW b \in Builds, Build(b) PROVE IInv'
  <2>1. call = <<>> /\ \A c \in Builds : outcome[c] = <<>>
    BY <1>1 DEF Build
  <2>2. UNCHANGED <<contract, call, outcome>>
    BY <1>1 DEF Build
  <2>3. built' \in [Builds -> {"source", "built", "rejected"}] /\ DOMAIN routes' = Builds
    BY <1>1 DEF Build
  <2>4. ASSUME NEW c \in Builds, built'[c] = "built"
        PROVE  Accepts(contract, c) /\ routes'[c] = Route(c)
    <3>1. CASE c = b
      BY <1>1, <2>4, <3>1 DEF Build, Route
    <3>2. CASE c # b
      BY <1>1, <2>4, <3>2 DEF Build
    <3> QED BY <3>1, <3>2
  <2> QED BY <2>1, <2>2, <2>3, <2>4 DEF Route
<1>2. CASE Send
  BY <1>2 DEF Send, Route
<1>3. ASSUME NEW b \in Builds, Answering(b) PROVE IInv'
  <2>1. /\ built[b] = "built" /\ call # <<>>
        /\ \E o : Return(b, o) /\ Answers(routes[b][call.type], o)
    BY <1>3, AnsweringAnswers
  <2>2. PICK o : Return(b, o) /\ Answers(routes[b][call.type], o)
    BY <2>1
  <2>3. UNCHANGED <<contract, built, routes, call>> /\ outcome' = [outcome EXCEPT ![b] = o]
    BY <2>2 DEF Return
  <2>4. ASSUME NEW c \in Builds, outcome'[c] # <<>>
        PROVE  built[c] = "built" /\ Answers(routes[c][call.type], outcome'[c])
    BY <2>1, <2>2, <2>3, <2>4
  <2>5. ASSUME NEW c \in Builds, (outcome[c] # <<>>)'
        PROVE  Answers(routes[c][call.type], outcome[c])'
    <3>1. Answers(routes[c][call.type], outcome'[c])
      BY <2>4, <2>5
    <3>2. \A j, v : Reacts(j, v, outcome[c])' <=> Reacts(j, v, outcome'[c])
      BY <2>3 DEF Reacts
    <3>3. AnswersEnum(outcome[c])' <=> AnswersEnum(outcome'[c])
      BY <2>3, <3>2 DEF AnswersEnum
    <3> QED BY <2>3, <3>1, <3>2, <3>3 DEF Answers
  <2>6. \A c \in Builds : Route(c)' = Route(c)
    BY <2>3 DEF Route
  <2> QED BY <2>1, <2>3, <2>4, <2>5, <2>6
<1>4. CASE UNCHANGED vars
  BY <1>4, SMTT(90) DEF vars, Route, Answers, AnswersEnum, Reacts
<1> QED BY <1>1, <1>2, <1>3, <1>4 DEF Next, Stopped, Answering

LEMMA SpecIInv == Spec => []IInv
BY InitIInv, NextIInv, PTL DEF Spec
-----------------------------------------------------------------------------
\* The one field of a message, the module that claims it, and the method it names.
LEMMA ClaimantClaims ==
  ASSUME NEW c, NEW type, NEW json, Claimants(c, type, json) # {}
  PROVE  Claimant(c, type, json) \in Claimants(c, type, json)
<1> DEFINE S == Claimants(c, type, json)
<1>1. S \subseteq Nat /\ S # {}
  BY NAssumption DEF Claimants, Modules
<1>2. \E x \in S : \A y \in S : x <= y
  <2> HIDE DEF S
  <2> QED BY <1>1, Smallest
<1>3. Min(S) \in S
  <2> HIDE DEF S
  <2> QED BY <1>2 DEF Min
<1> QED BY <1>3 DEF Claimant

LEMMA ParsedIsNamed ==
  ASSUME NEW c, NEW type, NEW json, IsJson(json), SingleField(json),
         Claimants(c, type, json) # {}, NEW v \in Parsed(c, type, json)
  PROVE  /\ Claimant(c, type, json) \in Modules
         /\ v \in c.methods[Claimant(c, type, json)][type]
         /\ json = Serialized(v)
<1>1. PICK name : DOMAIN json.fields = {name}
  BY FS_Singleton DEF IsJson, SingleField
<1>2. Field(json) = name
  BY <1>1 DEF Field
<1>3. SerdeName[v] = name /\ json.fields[name] = "well_formed"
  BY <1>2 DEF Parsed
<1>4. json.fields = [n \in {SerdeName[v]} |-> "well_formed"]
  BY <1>1, <1>3 DEF IsJson
<1>5. json = Serialized(v)
  BY <1>4 DEF IsJson, SingleField, Serialized
<1> QED BY <1>5, ClaimantClaims DEF Claimants, Parsed

LEMMA ParsedOnce ==
  ASSUME NEW c \in Contracts, NEW type \in EnumTypes, NEW json, Claimants(c, type, json) # {},
         NEW v \in Parsed(c, type, json), NEW w \in Parsed(c, type, json)
  PROVE  v = w
<1>1. Claimant(c, type, json) \in Modules
  BY ClaimantClaims DEF Claimants
<1> QED BY <1>1, ContractsAssumption, SerdeAssumption DEF Parsed

\* A name that two modules list is an intersection.
LEMMA ListedOnce ==
  ASSUME NEW c, ~Intersect(c), NEW type \in EnumTypes, NEW i \in Modules, NEW j \in Modules,
         NEW v \in c.methods[i][type], NEW w \in c.methods[j][type], CaseName[v] = CaseName[w]
  PROVE  i = j
BY DEF Intersect, Messages

\* A handler of an enum message is reached only by the message that names it, in the one
\* module that declares it (assert_no_intersection, Deserialize of the composed message).
LEMMA HandledEnum ==
  ASSUME IInv, NEW b \in Builds, Outcomes(b), call.type \in EnumTypes, Handled(b)
  PROVE  /\ Accepts(contract, b) /\ IsJson(call.json) /\ SingleField(call.json)
         /\ Claimants(contract, call.type, call.json) # {}
         /\ \E v \in Parsed(contract, call.type, call.json) :
              Reacts(Claimant(contract, call.type, call.json), v, outcome[b])
<1>1. Accepts(contract, b) /\ call \in Calls /\ Answers(routes[b][call.type], outcome[b])
  BY DEF IInv, Outcomes
<1>2. IsJson(call.json)
  BY <1>1, CallsAssumption
<1>3. outcome[b].kind # "refused" /\ outcome[b].kind # "author"
  BY DEF Handled
<1>4. AnswersEnum(outcome[b])
  BY <1>1, <1>3 DEF Answers, Refusal, EnumTypes, StructTypes
<1> QED BY <1>1, <1>2, <1>3, <1>4 DEF AnswersEnum, Refusal

THEOREM OnlyTheNamedMethod == Spec => []OnlyByName
<1>1. IInv => OnlyByName
  <2> SUFFICES ASSUME IInv, NEW b \in Builds, Outcomes(b), call.type \in EnumTypes, Handled(b)
               PROVE  LET i == outcome[b].by[1]
                          v == outcome[b].by[2]
                      IN /\ call.json = Serialized(v)
                         /\ {j \in Modules : v \in contract.methods[j][call.type]} = {i}
    BY DEF OnlyByName
  <2>1. Accepts(contract, b) /\ IsJson(call.json) /\ SingleField(call.json)
        /\ Claimants(contract, call.type, call.json) # {}
    BY HandledEnum
  <2>2. PICK v \in Parsed(contract, call.type, call.json) :
               Reacts(Claimant(contract, call.type, call.json), v, outcome[b])
    BY HandledEnum
  <2> DEFINE i == Claimant(contract, call.type, call.json)
  <2>3. outcome[b].by = <<i, v>>
    BY <2>2 DEF Reacts
  <2>4. i \in Modules /\ v \in contract.methods[i][call.type] /\ call.json = Serialized(v)
    BY <2>1, <2>2, ParsedIsNamed
  <2>5. ASSUME NEW j \in Modules, v \in contract.methods[j][call.type] PROVE j = i
    BY <2>1, <2>4, <2>5, ListedOnce DEF Accepts, WellFormed
  <2> HIDE DEF i
  <2> QED BY <2>3, <2>4, <2>5
<1> QED BY <1>1, SpecIInv, PTL
-----------------------------------------------------------------------------
\* Where both builds are accepted every override is looked up as what it is.
LEMMA RoutesAgree ==
  ASSUME NEW c, Accepts(c, "chain"), Accepts(c, "mt"), NEW type \in Types
  PROVE  ChainRoute(c)[type] = MtRoute(c)[type]
<1>1. ASSUME NEW k \in DOMAIN c.overrides PROVE ParsedType(c.overrides[k]) = c.overrides[k]
  <2>1. TypeChecks(c.overrides[k])
    BY DEF Accepts, Written
  <2>2. c.overrides[k] # "query"
    BY <2>1 DEF TypeChecks, ParsedType, CtxValues
  <2> QED BY <2>2 DEF ParsedType
<1>2. Overridden(c, type) <=> type \in Written(c)
  BY <1>1 DEF Overridden, Written
<1> QED BY <1>2 DEF ChainRoute, MtRoute, Exported

LEMMA AnswersOnce ==
  ASSUME contract \in Contracts, NEW route, NEW o, NEW p, Answers(route, o), Answers(route, p)
  PROVE  o = p
<1>1. ASSUME NEW i, NEW v, Reacts(i, v, o), Reacts(i, v, p) PROVE o = p
  BY <1>1 DEF Reacts
<1>2. ASSUME call.type \in EnumTypes, AnswersEnum(o), AnswersEnum(p) PROVE o = p
  BY <1>1, <1>2, ParsedOnce DEF AnswersEnum
<1> QED BY <1>1, <1>2 DEF Answers, EnumTypes, StructTypes

\* A call has the same outcome on the chain and in a test, if it has one in both.
THEOREM ChainAndTestsAgree == Spec => []SameInTests
<1>1. IInv => SameInTests
  <2> SUFFICES ASSUME IInv, \A b \in Builds : Outcomes(b)
               PROVE  outcome["chain"] = outcome["mt"]
    BY DEF SameInTests
  <2>1. ASSUME NEW b \in Builds
        PROVE  /\ Accepts(contract, b) /\ call \in Calls /\ routes[b] = Route(b)
               /\ Answers(routes[b][call.type], outcome[b])
    BY DEF IInv, Outcomes
  <2>2. "chain" \in Builds /\ "mt" \in Builds
    BY DEF Builds
  <2>3. ChainRoute(contract)[call.type] = MtRoute(contract)[call.type]
    BY <2>1, <2>2, CallsAssumption, RoutesAgree
  <2>4. routes["chain"][call.type] = routes["mt"][call.type]
    BY <2>1, <2>2, <2>3 DEF Route
  <2> QED BY <2>1, <2>2, <2>4, AnswersOnce DEF IInv
<1> QED BY <1>1, SpecIInv, PTL
-----------------------------------------------------------------------------
\* serde and convert_case name the variants alike: where they do not (set_u128), a
\* message may be claimed by a module that cannot read it.
NamesAgree == \A v \in Variants : CaseName[v] = SerdeName[v]

\* What the one module that declares the method reads from its message.
LEMMA SerializedIsClaimed ==
  ASSUME NamesAgree, NEW c \in Contracts, ~Intersect(c), NEW type \in EnumTypes,
         NEW i \in Modules, NEW v \in c.methods[i][type]
  PROVE  /\ SingleField(Serialized(v))
         /\ Claimants(c, type, Serialized(v)) = {i}
         /\ Claimant(c, type, Serialized(v)) = i
         /\ Parsed(c, type, Serialized(v)) = {v}
<1> DEFINE json == Serialized(v)
<1>1. json.map = TRUE /\ json.fields = [n \in {SerdeName[v]} |-> "well_formed"]
  BY DEF Serialized
<1>2. DOMAIN json.fields = {SerdeName[v]} /\ json.fields[SerdeName[v]] = "well_formed"
  BY <1>1
<1>3. Cardinality({SerdeName[v]}) = 1
  BY FS_Singleton
<1> HIDE DEF json
<1>4. SingleField(json) /\ Field(json) = SerdeName[v]
  BY <1>1, <1>2, <1>3 DEF SingleField, Field
<1>5. v \in Variants
  BY ContractsAssumption
<1>6. CaseName[v] = SerdeName[v]
  BY <1>5 DEF NamesAgree
<1>7. i \in Claimants(c, type, json)
  BY <1>4, <1>6 DEF Claimants, Messages
<1>8. ASSUME NEW j \in Claimants(c, type, json) PROVE j = i
  <2>1. j \in Modules /\ \E w \in c.methods[j][type] : CaseName[w] = CaseName[v]
    BY <1>4, <1>6, <1>8 DEF Claimants, Messages
  <2> QED BY <2>1, ListedOnce
<1>9. Claimants(c, type, json) = {i} /\ Claimant(c, type, json) = i
  BY <1>7, <1>8, ClaimantClaims
<1>10. Parsed(c, type, json) = {v}
  BY <1>2, <1>4, <1>5, <1>9, ContractsAssumption, SerdeAssumption DEF Parsed
<1> QED BY <1>4, <1>9, <1>10 DEF json

LEMMA ResponseKept ==
  ASSUME NEW response, IsReaction(response), response.result = "Ok"
  PROVE  IntoResponse(response) = response
<1>1. ASSUME NEW k \in DOMAIN response.messages
      PROVE  IntoMsg(response.messages[k]) = response.messages[k]
  <2> DEFINE sent == response.messages
  <2>1. sent \in Seq(Submessages) /\ k \in DOMAIN sent
    BY DEF IsReaction
  <2>2. sent[k] \in Submessages
    <3> HIDE DEF sent
    <3> QED BY <2>1
  <2> QED BY <2>2 DEF IntoMsg, Submessages
<1>2. [k \in DOMAIN response.messages |-> IntoMsg(response.messages[k])] = response.messages
  BY <1>1 DEF IsReaction
<1> QED BY <1>2 DEF IntoResponse, IsReaction

\* A type that no override names takes the generated entry point.
LEMMA DefaultRoute ==
  ASSUME NEW c, NEW type \in EnumTypes, type \notin Written(c)
  PROVE  ChainRoute(c)[type] = "default" /\ MtRoute(c)[type] = "default"
<1>1. ~Overridden(c, type)
  BY DEF Overridden, ParsedType, Written, EnumTypes
<1>2. type \in Types /\ Declared(c, type)
  BY DEF Types, EnumTypes, StructTypes, Declared
<1> QED BY <1>1, <1>2 DEF ChainRoute, MtRoute, Exported

\* Where the two naming conventions agree, what a client builds from a method reaches
\* that method and no other, and its response or error comes back whole.
THEOREM ClientsAreDelivered == NamesAgree => (Spec => []Delivered)
<1> SUFFICES ASSUME NamesAgree PROVE Spec => []Delivered
  OBVIOUS
<1>1. IInv => Delivered
  <2> SUFFICES ASSUME IInv, NEW b \in Builds, NEW i \in Modules, NEW v \in Variants,
                      Outcomes(b), call.type \in EnumTypes,
                      v \in contract.methods[i][call.type], call.json = Serialized(v),
                      call.type \notin Written(contract)
               PROVE  /\ Handled(b)
                      /\ outcome[b].by = <<i, v>>
                      /\ outcome[b].kind = "handled" => outcome[b].response = call.reaction
                      /\ outcome[b].kind = "failed" <=> call.reaction.result = "Err"
    BY DEF Delivered
  <2>1. /\ Accepts(contract, b) /\ contract \in Contracts /\ call \in Calls
        /\ routes[b] = Route(b) /\ Answers(routes[b][call.type], outcome[b])
    BY DEF IInv, Outcomes
  <2>2. routes[b][call.type] = "default"
    BY <2>1, DefaultRoute DEF Route
  <2>3. AnswersEnum(outcome[b])
    BY <2>1, <2>2 DEF Answers, EnumTypes, StructTypes
  <2>4. /\ SingleField(call.json) /\ Claimants(contract, call.type, call.json) = {i}
        /\ Claimant(contract, call.type, call.json) = i
        /\ Parsed(contract, call.type, call.json) = {v}
    BY <2>1, SerializedIsClaimed DEF Accepts, WellFormed
  <2>5. Reacts(i, v, outcome[b])
    BY <2>3, <2>4 DEF AnswersEnum
  <2>6. IsReaction(call.reaction)
    BY <2>1, CallsAssumption
  <2>7. call.reaction.result = "Ok" => IntoResponse(call.reaction) = call.reaction
    BY <2>6, ResponseKept
  <2> QED BY <2>5, <2>7 DEF Reacts, Handled
<1> QED BY <1>1, SpecIInv, PTL
=============================================================================
