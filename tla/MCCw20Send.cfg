CONSTANTS
  Accounts = {"alice", "bob", "vault", "relay"}
  Users = {"alice", "bob"}
  Vault = "vault"
  Relay = "relay"
  MaxMessages = 6
  Spenders = {"bob"}
  Minters = {}
  Caps = {}
  MaxUint = 3
  MaxHeight = 0
  Expirations <- MCExpirations
  InitialRows <- MCRows
  LegacyTokens <- MCLegacy
SPECIFICATION SendSpec
VIEW WithoutLast
INVARIANTS
  OthersKeepTheirs
  Solvent
PROPERTIES
  CreditsSender
