CONSTANTS
  Handlers = {"a1", "a_1", "b"}
  ReplyIdOf <- Upper
  Contracts <- TableContracts
SPECIFICATION TableSpec
INVARIANT DataForwarded
