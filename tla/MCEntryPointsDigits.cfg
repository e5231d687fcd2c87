SPECIFICATION Spec
CONSTANTS
  N = 3
  Variants <- DigitVariants
  SerdeName <- DigitSerde
  CaseName <- DigitCase
  RoutedTypes = {"exec", "query"}
  TypesSent = {"exec", "query"}
  MaxMethods = 2
  Contracts <- RoutedContracts
  Calls <- AllCalls
INVARIANT Delivered
