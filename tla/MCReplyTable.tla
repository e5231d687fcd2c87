---------------------------- MODULE MCReplyTable ----------------------------
(***************************************************************************)
(* Every contract of two reply methods with any of the signatures below,   *)
(* and of three with the signatures of FewFields.  `a1` and `a_1` have the *)
(* same upper snake case name, a method may handle ids of other methods.   *)
(***************************************************************************)
EXTENDS ReplyTable

MethodNames == <<"a1", "a_1", "b">>
Upper == [h \in {"a1", "a_1", "b"} |-> IF h = "b" THEN "B_REPLY_ID" ELSE "A_1_REPLY_ID"]

Typed(ty, attr) == [name |-> "p", ty |-> ty, attr |-> attr]
AnyFirst == Typed("String", "none")
AnyNum   == Typed("u32", "none")
AnyText  == Typed("str", "none")
AnyRaw   == Typed("Binary", "payload")
AnyData  == Typed("exec", "data")

FewFields == {<<AnyFirst, AnyNum>>, <<AnyFirst, AnyText>>, <<AnyData, AnyNum>>}
AllFields == FewFields \cup
  {<<>>, <<AnyFirst>>, <<AnyNum, AnyData>>, <<AnyFirst, AnyNum, AnyText>>, <<AnyFirst, AnyRaw>>, <<AnyFirst, AnyNum, AnyRaw>>}

MethodsOf(k, handlers, fields) ==
  [name : {MethodNames[k]}, handlers : handlers, reply_on : ReplyOn, fields : fields]

AllHandlers == {<<>>, <<"b">>, <<"a1", "b">>, <<"b", "b">>}
FewHandlers == {<<>>, <<"b", "a1">>}

TableContracts ==
  {<<m, n>> : m \in MethodsOf(1, AllHandlers, AllFields), n \in MethodsOf(2, AllHandlers, AllFields)}
    \cup {<<l, m, n>> : l \in MethodsOf(1, FewHandlers, FewFields),
                        m \in MethodsOf(2, FewHandlers, FewFields),
                        n \in MethodsOf(3, FewHandlers, FewFields)}
=============================================================================
