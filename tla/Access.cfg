SPECIFICATION Spec
CONSTANTS
  u1 = u1
  u2 = u2
  Users = {u1, u2}
  Accounts = {a1}
  Clients = {c1}
  Runs = {1}
  Names <- Strings
  Environments <- Restarts
  Second = 2
  DefaultTTL = 4
  LongestTTL = 4
  MaxLogin = 1
  MaxTime = 6
  MaxTokens = 1
CONSTRAINT OneRoleEnds
INVARIANTS
  TypeOK
  AccessIsRecent
  ScansAreRead
  ScansHaveUsers
  FreshTokensAreAccepted
