SPECIFICATION Spec
CONSTANTS
  Strings <- Named
  Addresses <- Valid
  MaxList = 3
  Lists <- MCLists
  Denoms = {"atom", "osmo"}
  MaxUint = 2
  Coins <- MCCoins
  Expirations = {{1}, {2}}
  Permissions <- MCPermissions
  Spenders = {2, 5}
  Messages <- MCMessages
  MaxMessages = 2
  MaxHeight = 2
VIEW WithoutCall
INVARIANTS
  TypeOK
  AsListed
  NetOfGrants
PROPERTIES
  Administered
  OnlyGranted
