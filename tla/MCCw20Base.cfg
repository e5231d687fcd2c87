CONSTANTS
  Accounts = {"alice", "bob", "spender"}
  Spenders = {"spender"}
  Minters = {"alice", "bob"}
  Caps = {1, 2}
  MaxUint = 2
  MaxHeight = 1
  Expirations <- MCExpirations
  InitialRows <- MCRows
  LegacyTokens <- MCLegacy
SPECIFICATION Spec
VIEW WithoutLast
INVARIANTS
  TypeOK
  Conserved
  Mirrored
  CapHolds
PROPERTIES
  Authorised
  GrownByOwner
  MinterRights
