CONSTANTS
  N = 3
  MaxName = 3
  MaxLen = 3
  Lists <- SortedLists
SPECIFICATION Spec
INVARIANTS
  TypeOK
  PicksSmallest
  MergeOrder
PROPERTY DecidesOverlap
