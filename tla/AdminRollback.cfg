SPECIFICATION Spec
CONSTANTS
  Requests = {r1, r2, r3}
  Accounts = {u1}
  Names = {n1}
  NameOf <- MCNameOf
  Ops = {"ban", "role"}
  ActorRoles = {"owner"}
  GivenRoles = {"user", "moderator"}
  Sql = TRUE
  StoreFaults = FALSE
INVARIANT MutationsAtomic
CHECK_DEADLOCK FALSE
