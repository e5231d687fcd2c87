SPECIFICATION ExpansionSpec
CONSTANT Items <- MCItems
INVARIANTS
  NothingLost
  EveryMessageOnce
  Closed
  ApiResolves
  InOrder
  NoneLeft
