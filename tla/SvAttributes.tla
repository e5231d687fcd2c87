----------------------------- MODULE SvAttributes -----------------------------
(***************************************************************************)
(* The attributes of the macros, `#[sv::name(...)]`, and what each adds to *)
(* ParsedSylviaAttributes (parser/attributes/).                            *)
(*                                                                         *)
(* An attribute is a record [name, list, args]: its name after `sv::`, ""  *)
(* for one of another tool; whether it has parentheses; and what is inside *)
(* them, a sequence of <<word, value>> with value "" where there is none:  *)
(*   custom(msg=M, query=Q)        <<"msg", "M">>, <<"query", "Q">>        *)
(*   msg(exec, resp=R)             <<"exec", "">>, <<"resp", "R">>         *)
(*   messages(m as V: custom(msg)) <<"m", "V">>, <<"custom", "">>,         *)
(*                                 <<"msg", "">>                           *)
(*   override_entry_point(exec=f(M)) <<"exec", "f">>                       *)
(*   msg_attr(exec, a)             <<"exec", "">>, <<"a", "">>             *)
(* What a handler list or a forwarded attribute holds is left out.         *)
(***************************************************************************)
EXTENDS Selection

Types == {"exec", "query", "sudo", "instantiate", "migrate", "reply"}
StructTypes == {"instantiate", "migrate"}
EnumTypes == {"exec", "query", "sudo"}

Single == {"custom", "error", "msg"}
Listed == {"messages", "override_entry_point", "attr", "msg_attr"}
Replaced == {"payload", "data", "features"}

\* SylviaAttribute::new: the attributes of the macros, all others are ignored.
IsSylvia(a) == a.name \in Single \cup Listed \cup Replaced

Words(args) == {args[k][1] : k \in DOMAIN args}

\* The value of the last argument named `word`, "" when there is none.
LastOf(args, word) ==
  LET ks == {k \in DOMAIN args : args[k][1] = word}
  IN IF ks = {} THEN "" ELSE args[CHOOSE k \in ks : \A l \in ks : l <= k][2]
-----------------------------------------------------------------------------
\* The Parse implementations: which contents they accept.
ParsesCustom(args) == Words(args) \subseteq {"msg", "query"} /\ \A k \in DOMAIN args : args[k][2] # ""
ParsesError(args) == Len(args) = 1
ParsesMsg(args) ==
  /\ args # <<>> /\ args[1][1] \in Types
  /\ \A k \in 2..Len(args) : /\ args[k][1] \in {"resp", "handlers", "reply_on"} /\ args[k][2] # ""
                            /\ args[k][1] = "reply_on" => args[k][2] \in {"success", "error", "always"}

\* A single word other than custom after the colon is skipped.
HasCustom(args) == Len(args) > 1 /\ args[2][1] = "custom"
Customs(args) == IF HasCustom(args) THEN Words(Tail(Tail(args))) ELSE {}
ParsesMessages(args) == /\ args # <<>> /\ Len(args) > 2 => HasCustom(args)
                        /\ Customs(args) \subseteq {"msg", "query"}

ParsesOverride(args) == Len(args) = 1 /\ args[1][1] \in Types /\ args[1][2] # ""
ParsesMsgAttr(args) == Len(args) > 1 /\ args[1][1] \in Types
ParsesPayload(args) == args = <<<<"raw", "">>>>
ParsesData(args) == Words(args) \subseteq {"raw", "opt", "instantiate"}
ParsesFeatures(args) == Words(args) \subseteq {"replies"}

Parses(a) == CASE a.name = "custom" -> ParsesCustom(a.args)
               [] a.name = "error" -> ParsesError(a.args)
               [] a.name = "msg" -> ParsesMsg(a.args)
               [] a.name = "messages" -> ParsesMessages(a.args)
               [] a.name = "override_entry_point" -> ParsesOverride(a.args)
               [] a.name = "attr" -> TRUE
               [] a.name = "msg_attr" -> ParsesMsgAttr(a.args)
               [] a.name = "payload" -> ParsesPayload(a.args)
               [] a.name = "data" -> ParsesData(a.args)
               [] a.name = "features" -> ParsesFeatures(a.args)

\* ... and what they make of them.
Custom(args) == [msg |-> LastOf(args, "msg"), query |-> LastOf(args, "query")]
Msg(args) == [type |-> args[1][1], resp |-> LastOf(Tail(args), "resp"),
              reply_on |-> IF LastOf(Tail(args), "reply_on") = "" THEN "always"
                           ELSE LastOf(Tail(args), "reply_on")]
Messages(args) == [module |-> args[1][1], variant |-> args[1][2],
                   has_msg |-> "msg" \in Customs(args), has_query |-> "query" \in Customs(args)]
Override(args) == [msg_type |-> IF args[1][1] = "query" THEN "instantiate" ELSE args[1][1],
                   entry_point |-> args[1][2]]
MsgAttr(args) == [msg_type |-> args[1][1], attrs |-> Tail(args)]

Value(a) == CASE a.name = "custom" -> Custom(a.args)
              [] a.name = "msg" -> Msg(a.args)
              [] a.name = "messages" -> Messages(a.args)
              [] a.name = "override_entry_point" -> Override(a.args)
              [] a.name = "msg_attr" -> MsgAttr(a.args)
              [] a.name \in {"data", "payload", "features"} -> Words(a.args)
              [] OTHER -> a.args

\* ParsedSylviaAttributes::default: a sequence for each attribute, of one value at
\* most where the code has an Option.
Nothing == [name \in Single \cup Listed \cup Replaced |-> <<>>]

\* Fault: a second definition replaces the first one.
SetsSingleAgain(parsed, a) == a.name \in Single /\ a.list

SetsSingle(parsed, a) == a.name \in Single /\ a.list /\ parsed[a.name] = <<>>
Redefines(parsed, a) == a.name \in Single /\ a.list /\ ~SetsSingle(parsed, a)

\* match_attribute
Matched(parsed, a) ==
  CASE ~Parses(a) -> parsed
    [] SetsSingle(parsed, a) \/ a.name \in Replaced -> [parsed EXCEPT ![a.name] = <<Value(a)>>]
    [] a.name \in Listed -> [parsed EXCEPT ![a.name] = Append(@, Value(a))]
    [] OTHER -> parsed

MatchErrors(parsed, a) ==
  CASE Redefines(parsed, a) -> {"redefined"}
    [] ~Redefines(parsed, a) /\ ~Parses(a) -> {"malformed"}
    [] a.name = "data" /\ {"raw", "instantiate"} \subseteq Words(a.args) -> {"raw instantiate"}
    [] OTHER -> {}

\* Only sv::data goes without parentheses, the others are skipped but for sv::payload.
Bare(parsed, a) == IF a.name = "data" THEN [parsed EXCEPT !["data"] = <<{}>>] ELSE parsed
BareErrors(a) == IF a.name = "payload" THEN {"missing parameters"} ELSE {}

\* The check that ends ParsedSylviaAttributes::new.
ForwardErrors(parsed) ==
  IF parsed["attr"] # <<>> /\ parsed["msg"] # <<>> /\ parsed["msg"][1].type \in StructTypes
  THEN {"attr of a struct"} ELSE {}
=============================================================================
