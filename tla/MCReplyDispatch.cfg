CONSTANTS
  Handlers = {"a1", "a_1", "b"}
  ReplyIdOf <- Upper
  Contracts <- MCContracts
  Deployed <- MCDeployed
  Binaries <- MCBinaries
  ReplyData = {"none", "not_protobuf", "no_inner", "not_json", "json"}
  ManualIds = {0, 5}
  MaxSubs = 2
SPECIFICATION Spec
INVARIANTS
  AcceptsCompatible
  ArmsComplete
  HandledAsDeclared
  ErrorsNotSwallowed
