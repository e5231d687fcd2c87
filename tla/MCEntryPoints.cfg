SPECIFICATION Spec
CONSTANTS
  N = 3
  Variants <- PlainVariants
  SerdeName <- PlainNames
  CaseName <- PlainNames
  RoutedTypes = {"exec", "query"}
  TypesSent = {"exec", "query", "sudo", "instantiate", "migrate", "reply"}
  MaxMethods = 2
  Contracts <- AllContracts
  Calls <- AllCalls
INVARIANTS
  Delivered
  OnlyByName
  SameInTests
