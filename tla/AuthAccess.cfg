SPECIFICATION Spec
CONSTANTS
  Requests = {r1, r2, r3}
  Users = {u1}
  Ops = {"login", "refresh", "invalidate", "change", "reset"}
  MaxTokens = 2
  StoreFaults = FALSE
  Sql = FALSE
  MasterPassword = FALSE
  TicksPerSecond = 2
  MaxTicks = 3
  NoToken = NoToken
INVARIANTS
  WithinLimit
  LogoutHolds
  AccessFollowsPassword
  ChangedPairAccepted
SYMMETRY RequestSymmetry
CHECK_DEADLOCK FALSE
