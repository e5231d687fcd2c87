------------------------------ MODULE MCExpansion ------------------------------
(* Items around one question each: which attributes there are on an impl block  *)
(* and on a method, generics and where predicates, macros in any order, and     *)
(* interfaces.                                                                  *)
EXTENDS Expansion

Attr(name, args) == [name |-> name, list |-> TRUE, args |-> args]
BareAttr(name) == [name |-> name, list |-> FALSE, args |-> <<>>]
Serde == Attr("", <<>>)
Marks(type) == Attr("msg", <<<<type, "">>>>)
Input(name, type) == [name |-> name, attrs |-> <<>>, type |-> type]
Method(name, attrs, inputs, ret) ==
  [name |-> name, attrs |-> attrs, inputs |-> <<Input("self", <<>>), Input("ctx", <<>>)>> \o inputs,
   ret |-> [alias |-> FALSE, type |-> ret]]
Instantiate == Method("instantiate", <<Marks("instantiate")>>, <<>>, <<>>)
Contract(macros, attrs, params, wheres, methods) ==
  [kind |-> "contract", macros |-> macros, attrs |-> attrs, new |-> "plain", params |-> params,
   assoc |-> <<>>, wheres |-> wheres, methods |-> methods]
Macro1(name) == [name |-> name, args |-> <<>>]
InContract == <<Macro1("contract")>>

\* Attributes of an impl block.
ImplAttrs == {
  Attr("custom", <<<<"msg", "M">>>>), Attr("custom", <<<<"msg", "M">>, <<"query", "Q">>>>),
  Attr("custom", <<<<"data", "D">>>>), Attr("error", <<<<"E", "">>>>), Attr("error", <<>>),
  Attr("messages", <<<<"cw1", "Cw1">>>>), Attr("messages", <<<<"cw4", "Cw4">>, <<"custom", "">>, <<"msg", "">>>>),
  Attr("messages", <<<<"m", "V">>, <<"other", "">>>>), Attr("messages", <<<<"m", "V">>, <<"other", "">>, <<"msg", "">>>>),
  Attr("override_entry_point", <<<<"exec", "f">>>>), Attr("override_entry_point", <<<<"query", "f">>>>),
  Attr("override_entry_point", <<<<"execute", "f">>>>),
  Attr("msg_attr", <<<<"exec", "">>, <<"a", "">>>>), Attr("msg_attr", <<<<"exec", "">>>>),
  Attr("features", <<<<"replies", "">>>>), Attr("features", <<>>), BareAttr("custom"), Serde}

\* Attributes of a method.
MethodAttrs == {
  Marks("exec"), Marks("instantiate"), Marks("reply"), Marks("execute"),
  Attr("msg", <<<<"query", "">>, <<"resp", "R">>>>),
  Attr("msg", <<<<"reply", "">>, <<"reply_on", "success">>>>), Attr("msg", <<<<"reply", "">>, <<"reply_on", "ok">>>>),
  Attr("msg", <<<<"reply", "">>, <<"reply_on", "ok">>, <<"reply_on", "error">>>>),
  Attr("attr", <<<<"a", "">>>>), Attr("payload", <<<<"raw", "">>>>), BareAttr("payload"),
  BareAttr("data"), Attr("data", <<<<"opt", "">>>>), Attr("data", <<<<"raw", "">>, <<"instantiate", "">>>>),
  BareAttr("msg"), Serde}

OnImpl == {Contract(InContract, attrs, <<>>, <<>>, <<Instantiate, Method("e", <<Marks("exec")>>, <<>>, <<>>)>>) :
             attrs \in SeqOf(ImplAttrs, 3)}
OnMethod == {Contract(InContract, <<>>, <<>>, <<>>,
               <<Instantiate, Method("m", attrs, <<Input("a", <<>>)>>, <<>>), Method("e", <<Marks("exec")>>, <<>>, <<>>)>>) :
               attrs \in SeqOf(MethodAttrs, 3)}

\* Generics: U, T or a pair of them, inside another type, through Self, or hidden.
Mentioning == {<<>>, <<<<"T">>>>, <<<<"Vec">>, <<"U">>>>, <<<<"Pair">>, <<"U">>, <<"T">>, <<"U">>>>, <<<<"Self", "T">>>>,
               <<<<"T", "Inner">>>>}
Predicates == {<<>>, <<<<<<"T">>, <<"Bound">>>>>>, <<<<<<"T">>>>, <<<<"U">>>>>>, <<<<<<"T">>, <<"From">>, <<"U">>>>, <<<<"U">>>>>>,
               <<<<<<"T", "Inner">>>>>>}
Generic == {Contract(<<[name |-> "entry_points", args |-> <<"A", "B">>], Macro1("contract")>>, <<>>, <<"T", "U">>, wheres,
              <<Method("i", <<Marks("instantiate")>>, <<Input("a", t1)>>, <<>>),
                Method("m", <<Marks(type)>>, <<Input("a", t2), Input("b", <<>>)>>, t3),
                Method("n", <<Marks("query")>>, <<Input("a", <<>>)>>, t1)>>) :
              wheres \in Predicates, type \in {"exec", "query", "sudo", "migrate"},
              t1 \in Mentioning, t2 \in Mentioning, t3 \in Mentioning}

\* Macros in any order, with the wrong arguments; new, patterns, aliases, attributes.
Macros == {<<>>, <<"contract">>, <<"entry_points">>, <<"entry_points", "contract">>, <<"contract", "entry_points">>}
WithMacros(names, params, args) ==
  [k \in DOMAIN names |-> [name |-> names[k], args |-> IF names[k] = "entry_points" THEN params ELSE args]]
Others == {<<>>, <<[Input("a", <<>>) EXCEPT !.attrs = <<Serde>>]>>, <<Input("", <<>>), Input("b", <<>>)>>}
Selves == {<<>>, <<Serde>>, <<Attr("data", <<<<"raw", "">>>>)>>}
Ordered == {[Contract(WithMacros(names, params, args),
               IF override = "" THEN <<Serde>>
               ELSE <<Attr("override_entry_point", <<<<override, "f">>>>), Attr("features", <<<<"replies", "">>>>)>>,
               <<"T">>, <<>>,
               <<[Method("m", <<Marks(type), Serde>>, inputs, <<>>) EXCEPT !.inputs[1].attrs = self, !.ret.alias = alias]>>
                 \o first) EXCEPT !.new = new] :
              names \in Macros, params \in {<<>>, <<"A">>}, args \in {<<>>, <<"x">>}, override \in {"", "exec", "query", "migrate"},
              type \in {"migrate", "reply", "query", "instantiate"}, inputs \in Others, self \in Selves, alias \in BOOLEAN,
              first \in {<<>>, <<Instantiate>>}, new \in {"plain", "none", "parameters"}}

Assoc(name) == [name |-> name, bounds |-> <<>>]
Interfaces == {[kind |-> "interface", macros |-> <<Macro1("interface")>>, attrs |-> attrs, new |-> "none", params |-> params,
                assoc |-> assoc, wheres |-> <<>>,
                methods |-> <<Method("m", <<Marks(type)>>, <<Input("a", t1)>>, t2),
                              Method("q", <<Marks("query")>>, <<>>, t1)>>] :
                attrs \in {<<>>, <<Attr("custom", <<<<"msg", "M">>>>)>>}, params \in {<<>>, <<"G">>},
                assoc \in {<<>>, <<Assoc("Error")>>, <<Assoc("Error"), Assoc("T")>>, <<Assoc("ExecC"), Assoc("Error")>>,
                           <<Assoc("T"), Assoc("Error"), [name |-> "U", bounds |-> <<<<"Bound">>>>]>>,
                           <<Assoc("T"), Assoc("Error"), [name |-> "U", bounds |-> <<<<"From">>, <<"Self", "T">>>>]>>},
                type \in Types, t1 \in Mentioning, t2 \in Mentioning}

MCItems == <<OnImpl, OnMethod, Generic, Ordered, Interfaces>>
=============================================================================
