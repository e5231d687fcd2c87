--------------------------- MODULE MCReplyDispatch --------------------------
(***************************************************************************)
(* The tables of all contracts of MCReplyTable, and transactions of up to  *)
(* MaxSubs submessages of a few contracts that cover every scenario, every *)
(* data mode, raw and JSON payloads, shared ids, names that hide a local.  *)
(***************************************************************************)
EXTENDS ReplyDispatch, MCReplyTable

Method(name, handlers, on, fields) ==
  [name |-> name, handlers |-> handlers, reply_on |-> on, fields |-> fields]
Field(name, ty, attr) == [name |-> name, ty |-> ty, attr |-> attr]

Err     == Field("err", "String", "none")
Res     == Field("res", "SubMsgResult", "none")
Num     == Field("num", "u32", "none")
Text    == Field("text", "str", "none")
Raw     == Field("raw", "Binary", "payload")
Data(mode) == Field("data", mode, "data")

\* Success with data in each mode; an error method for the same id, declared later.
WithData == {<<Method("a1", <<>>, "success", <<Data(mode), Num>>),
               Method("a_1", <<>>, "error", <<Err, Num>>)>> :
                 mode \in {"raw", "raw_opt", "instantiate", "instantiate_opt", "exec", "exec_opt"}}

MCDeployed == WithData \cup
  { <<Method("a1", <<>>, "always", <<Res, Num, Text>>)>>,
    <<Method("a1", <<>>, "always", <<Res, Raw>>), Method("b", <<>>, "error", <<Err, Num>>)>>,
    <<Method("a1", <<"a1", "b">>, "success", <<Num>>), Method("a_1", <<"b">>, "error", <<Err, Num>>)>>,
    <<Method("a1", <<>>, "error", <<Err, Num>>), Method("a_1", <<>>, "success", <<Num>>)>>,
    <<Method("a1", <<>>, "success", <<Raw>>)>>,
    <<Method("a1", <<>>, "error", <<Err, Num>>)>>,
    <<Method("a1", <<>>, "success", <<Field("data", "u32", "none")>>)>>,
    <<Method("a1", <<>>, "error", <<Err, Field("error", "u32", "none")>>)>>,
    <<Method("a1", <<>>, "success", <<Num>>), Method("a_1", <<>>, "always", <<Res, Num>>)>>,
    <<Method("a1", <<>>, "success", <<Num>>), Method("a_1", <<>>, "error", <<Err, Num>>),
      Method("b", <<"a1">>, "always", <<Res, Num>>)>> }

MCContracts == TableContracts \cup MCDeployed

MCBinaries == {[enc |-> "garbage", vals |-> <<>>],
               [enc |-> "json", vals |-> <<[ty |-> "u32", v |-> 1]>>]}
=============================================================================
