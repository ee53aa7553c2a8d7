SPECIFICATION Spec
CONSTANTS
  Requests = {r1, r2, r3}
  Users = {u1}
  Ops = {"register", "login", "refresh", "invalidate", "change", "reset"}
  MaxTokens = 1
  StoreFaults = TRUE
  Sql = TRUE
  MasterPassword = TRUE
  TicksPerSecond = 1
  MaxTicks = 0
  NoToken = NoToken
INVARIANTS
  TypeOK
  RedeemedOnce
  SessionsFollowPassword
PROPERTIES
  ImplementsRotation
SYMMETRY RequestSymmetry
CHECK_DEADLOCK FALSE
