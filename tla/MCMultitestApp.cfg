CONSTANTS
  N = 2
  Variants <- MCVariants
  SerdeName <- MCSerdeName
  CaseName <- MCSerdeName
  Code <- MCCode
  Codes = {"counter", "plain", "clash"}
  Addrs = {"a1", "a2"}
  Users = {"alice"}
  Setters <- MCSetters
  SetterLists <- MCSetterLists
  MaxRefs = 1
  MaxHeight = 1
  MaxSetters = 2
  MaxMessages = 2
SPECIFICATION Spec
VIEW WithoutHeight
INVARIANTS
  Reached
  AsBuilt
  OwnErrorsReturned
  PanicsExplained
  TypeOK
PROPERTIES
  ReadersSeeStable
CHECK_DEADLOCK FALSE
