SPECIFICATION Spec
CONSTANTS
  a1 = a1
  a2 = a2
  steve = steve
  Requests = {r1, r2, r3}
  Accounts = {a1, a2}
  Names = {steve}
  NameOf <- SameName
  Servers = {s1}
  Ops = {"authenticate", "refresh", "validate", "invalidate", "signout", "join", "jwtJoin", "hasJoined"}
  MaxTokens = 2
  TokenTtl = 2
  SessionTtl = 1
  MaxTicks = 2
  None = None
INVARIANTS
  HoldsNewest
  JoinedByHolder
PROPERTIES
  ImplementsRotation
SYMMETRY RequestSymmetry
CHECK_DEADLOCK FALSE
