SPECIFICATION Spec
CONSTANTS
  Requests = {r1, r2}
  Accounts = {u1, u2}
  Names = {n1}
  NameOf <- MCNameOf
  Ops = {"ban", "role", "owner", "delete", "restore"}
  ActorRoles = {"admin", "owner"}
  GivenRoles = {"user", "admin"}
  Sql = TRUE
  StoreFaults = TRUE
INVARIANTS
  TypeOK
  AllOrNothing
PROPERTIES
  OnlyOutranked
SYMMETRY RequestSymmetry
CHECK_DEADLOCK FALSE
