CONSTANTS
  N = 4
  DEFAULT_LIMIT = 2
  MAX_LIMIT = 3
  Limits = {1, 4}
  Expirations <- MCExpirations
  MaxHeight = 1
SPECIFICATION Spec
INVARIANT Complete
PROPERTY Finishes
