--------------------------- MODULE AdminMutations ---------------------------
(***************************************************************************)
(* What administrators do to accounts: AdminService with its admin store   *)
(* and the auth store, two interfaces to the one table of users.  A        *)
(* mutation reads the account, checks the hierarchy of roles and writes it *)
(* through both stores, by name and by uuid; when the second write fails   *)
(* the first is undone.  Every store call is an await, so other requests   *)
(* run between them.                                                       *)
(*                                                                         *)
(* A request happens once. The administrators who send them are other      *)
(* accounts, whose role stays. A query that fails changed nothing.         *)
(* "standing" is the banned flag; approved is handled by the same code.    *)
(* Refresh tokens and passwords are left to AuthTokens.                    *)
(***************************************************************************)
EXTENDS Naturals

CONSTANTS
  Requests,      \* HTTP requests, each served once
  Accounts,      \* uuids
  Names,         \* usernames
  NameOf,        \* the name of each account
  Ops,           \* the operations in use
  ActorRoles,    \* the roles of the callers
  GivenRoles,    \* the roles setRole is asked to give
  Sql,           \* the stores are a database
  StoreFaults    \* a query of the database may fail

Roles == {"user", "moderator", "admin", "owner"}
Weight == [user |-> 1, moderator |-> 2, admin |-> 3, owner |-> 4]
Outranks(caller, target) == Weight[caller] > Weight[target]

Standings == {"free", "banned"}
Operations == {"ban", "role", "owner", "delete", "restore"}

ASSUME AdminAssumption ==
  /\ Ops \subseteq Operations
  /\ Accounts # {} /\ Names # {}
  /\ NameOf \in [Accounts -> Names]
  /\ ActorRoles \subseteq {"admin", "owner"}
  /\ GivenRoles \subseteq {"user", "moderator", "admin"}
  /\ Sql \in BOOLEAN
  /\ StoreFaults \in BOOLEAN /\ (StoreFaults => Sql)

VARIABLES
  user,        \* the table of users
  deletedAt,   \* deletedAt[u]: when u was deleted; 0 is more than 30 days ago
  deletions,   \* the number of deletions so far
  pc,          \* where a request is
  req,         \* what a request has in its local variables
  ledger,      \* history: what the acknowledged requests made of the accounts
  contested,   \* history: names that several requests or events met at
  broken       \* history: names an undo, or the answer to a delete, was lost for

history == <<ledger, contested, broken>>
vars == <<user, deletedAt, deletions, pc, req, history>>

\* absent: not registered yet; gone: the row was erased.
Lives == {"absent", "live", "deleted", "gone"}
User == [life : Lives, role : Roles, standing : Standings]

Columns == {"role", "standing"}

Pcs == {"idle", "ok", "failed", "write1", "recheck1", "write2", "recheck2", "write3",
        "view", "live", "duplicates", "undoRead", "undoWrite", "undo2", "undo1"}

\* account, role, before: what the request read; column and next: what it is to
\* write in a change of the ban or of the role.
Request == [op : Operations, actor : Roles, name : Names, account : Accounts, role : Roles,
            column : Columns, next : Roles \cup Standings, before : Roles \cup Standings]

\* A request that has not begun.
Blank == [op |-> "ban", actor |-> "owner", name |-> CHOOSE n \in Names : TRUE,
          account |-> CHOOSE u \in Accounts : TRUE, role |-> "user",
          column |-> "standing", next |-> "free", before |-> "free"]

Live(n) == {u \in Accounts : NameOf[u] = n /\ user[u].life = "live"}
Deleted(n) == {u \in Accounts : NameOf[u] = n /\ user[u].life = "deleted"}
NewestDeleted(n) == {u \in Deleted(n) : \A v \in Deleted(n) : deletedAt[v] <= deletedAt[u]}

\* The table, the requests and the history have their types.
TypeOK ==
  /\ user \in [Accounts -> User]
  /\ deletedAt \in [Accounts -> Nat]
  /\ deletions \in Nat
  /\ pc \in [Requests -> Pcs]
  /\ req \in [Requests -> Request]
  /\ ledger \in [Accounts -> User]
  /\ contested \subseteq Names /\ broken \subseteq Names

\* Accounts may be there at the start, live or deleted long ago; no two live
\* ones have one name.
Init ==
  /\ user \in [Accounts -> {r \in User : r.standing = "free" /\ r.role # "owner"
                                          /\ (r.life = "absent" => r.role = "user")}]
  /\ \A u, v \in Accounts : u # v /\ NameOf[u] = NameOf[v]
       => {user[u].life, user[v].life} # {"live"}
  /\ \A u \in Accounts : user[u].life # "gone"
  /\ deletedAt = [u \in Accounts |-> 0]
  /\ deletions = 0
  /\ pc = [p \in Requests |-> "idle"]
  /\ req = [p \in Requests |-> Blank]
  /\ ledger = user
  /\ contested = {} /\ broken = {}
-----------------------------------------------------------------------------
UnderWay(p) == pc[p] \notin {"idle", "ok", "failed"}
Quiet == \A p \in Requests : ~UnderWay(p)

Goto(p, where) == pc' = [pc EXCEPT ![p] = where]

\* Somebody does something at n while a request at n is under way.
Meet(n) == contested' = IF \E q \in Requests : UnderWay(q) /\ req[q].name = n
                        THEN contested \cup {n} ELSE contested

\* The first read has found u, and the caller may go on.
Start(p, r, where) ==
  /\ pc[p] = "idle" /\ r.op \in Ops
  /\ req' = [req EXCEPT ![p] = r]
  /\ Goto(p, where)
  /\ Meet(r.name)
  /\ UNCHANGED <<user, deletedAt, deletions, ledger, broken>>

\* What findByUsername gives for the name of u.
Snapshot(u, op, caller, column, next) ==
  [op |-> op, actor |-> caller, name |-> NameOf[u], account |-> u, role |-> user[u].role,
   column |-> column, next |-> next, before |-> user[u][column]]

Found(p, n, op, caller, column, next, where) == \E u \in Live(n) :
  /\ Outranks(caller, user[u].role)
  /\ Start(p, Snapshot(u, op, caller, column, next), where)

StartBan(p) == \E n \in Names, caller \in ActorRoles, next \in Standings :
  Found(p, n, "ban", caller, "standing", next, "write1")

StartRole(p) == \E n \in Names, caller \in ActorRoles, next \in GivenRoles :
  Outranks(caller, next) /\ Found(p, n, "role", caller, "role", next, "write1")

\* setOwnerRole does not look at the role of the account.
StartOwner(p) == "owner" \in ActorRoles /\ \E n \in Names : \E u \in Live(n) :
  Start(p, Snapshot(u, "owner", "owner", "role", "owner"), "write1")

StartDelete(p) == \E n \in Names, caller \in ActorRoles :
  Found(p, n, "delete", caller, "role", "user", "write1")

StartRestore(p) == \E n \in Names, caller \in ActorRoles : \E u \in NewestDeleted(n) :
  /\ Outranks(caller, user[u].role)
  /\ Start(p, Snapshot(u, "restore", caller, "role", "user"), "live")

-----------------------------------------------------------------------------
\* BUG: every update writes the flag of the ban.
SetStanding(u, column, value) == user' = [user EXCEPT ![u].standing = value]

Set(u, column, value) == user' = [user EXCEPT ![u][column] = value]
Revive(u) == Set(u, "life", "live") /\ UNCHANGED <<deletedAt, deletions>>
Remove(u) == /\ Set(u, "life", "deleted")
             /\ deletions' = deletions + 1
             /\ deletedAt' = [deletedAt EXCEPT ![u] = deletions']

\* The index on names: in the database two live accounts have different names.
NameTaken(u) == Sql /\ Live(NameOf[u]) \ {u} # {}

Fails(p, where) == /\ StoreFaults
                   /\ Goto(p, where)
                   /\ UNCHANGED <<user, deletedAt, deletions, history, req>>
\* The undo is given up: the error is logged.
GivesUp(p, where) == /\ Goto(p, where)
                     /\ broken' = broken \cup {req[p].name}
                     /\ UNCHANGED <<user, deletedAt, deletions, ledger, contested, req>>

\* The request is acknowledged: r is what it made of the account.
Acknowledge(p, r) ==
  /\ Goto(p, "ok")
  /\ ledger' = [ledger EXCEPT ![req[p].account] = r]

(***************************************************************************)
(* setBanned, setApproved, setRole, setOwnerRole: statusPairSteps          *)
(***************************************************************************)
IsPair(p) == req[p].op \in {"ban", "role", "owner"}

\* The first write goes by name and expects the role that was read.
WriteFirst(p) ==
  LET r == req[p] IN
  /\ pc[p] = "write1" /\ IsPair(p)
  /\ \/ /\ \E u \in Live(r.name) : user[u].role = r.role /\ Set(u, r.column, r.next)
        /\ Goto(p, "write2")
     \/ /\ Live(r.name) = {} \/ \E u \in Live(r.name) : user[u].role # r.role
        /\ Goto(p, IF Sql THEN "recheck1" ELSE "failed")
        /\ UNCHANGED user
     \/ StoreFaults /\ Goto(p, "failed") /\ UNCHANGED user
  /\ UNCHANGED <<deletedAt, deletions, history, req>>

\* The second one goes by uuid, and expects the role the first one left.
Expected(p) == IF req[p].column = "role" THEN req[p].next ELSE req[p].role

\* BUG: the second write does not look at the role.
WriteSecondUnguarded(p) ==
  LET r == req[p] IN
  /\ pc[p] = "write2" /\ IsPair(p)
  /\ \/ /\ user[r.account].life = "live"
        /\ Set(r.account, r.column, r.next)
        /\ Acknowledge(p, [ledger[r.account] EXCEPT ![r.column] = r.next])
     \/ /\ user[r.account].life # "live" \/ StoreFaults
        /\ Goto(p, "undoRead")
        /\ UNCHANGED <<user, ledger>>
  /\ UNCHANGED <<deletedAt, deletions, contested, broken, req>>

WriteSecond(p) ==
  LET r == req[p]
      applies == user[r.account].life = "live" /\ user[r.account].role = Expected(p)
  IN
  /\ pc[p] = "write2" /\ IsPair(p)
  /\ \/ /\ applies
        /\ Set(r.account, r.column, r.next)
        /\ Acknowledge(p, [ledger[r.account] EXCEPT ![r.column] = r.next])
     \/ /\ ~applies
        /\ Goto(p, IF Sql THEN "recheck2" ELSE "undoRead")
        /\ UNCHANGED <<user, ledger>>
     \/ StoreFaults /\ Goto(p, "undoRead") /\ UNCHANGED <<user, ledger>>
  /\ UNCHANGED <<deletedAt, deletions, contested, broken, req>>

\* appliedToLiveUser: an update that hit no row asks again whether the row is
\* as expected, and if so passes for applied.
Recheck(p) ==
  LET r == req[p] IN
  \/ /\ pc[p] = "recheck1"
     /\ Goto(p, IF \E u \in Live(r.name) : user[u].role = r.role THEN "write2" ELSE "failed")
     /\ UNCHANGED <<user, deletedAt, deletions, history, req>>
  \/ /\ pc[p] = "recheck2"
     /\ IF user[r.account].life = "live" /\ user[r.account].role = Expected(p)
        THEN Acknowledge(p, [ledger[r.account] EXCEPT ![r.column] = r.next])
        ELSE Goto(p, "undoRead") /\ UNCHANGED ledger
     /\ UNCHANGED <<user, deletedAt, deletions, contested, broken, req>>
  \/ pc[p] = "recheck1" /\ Fails(p, "failed")
  \/ pc[p] = "recheck2" /\ Fails(p, "undoRead")

\* The undo looks whether its own value is still there.
UndoRead(p) ==
  LET r == req[p] IN
  /\ pc[p] = "undoRead"
  /\ \/ /\ Goto(p, IF \E u \in Live(r.name) : user[u][r.column] = r.next
                   THEN "undoWrite" ELSE "failed")
        /\ UNCHANGED <<user, deletedAt, deletions, history, req>>
     \/ StoreFaults /\ GivesUp(p, "failed")

\* BUG: the undo writes the new value again.
UndoWriteNext(p) ==
  LET r == req[p] IN
  /\ pc[p] = "undoWrite"
  /\ IF Live(r.name) = {} THEN UNCHANGED user
     ELSE \E u \in Live(r.name) : Set(u, r.column, r.next)
  /\ Goto(p, "failed")
  /\ UNCHANGED <<deletedAt, deletions, history, req>>

UndoWrite(p) ==
  LET r == req[p] IN
  /\ pc[p] = "undoWrite"
  /\ \/ /\ IF Live(r.name) = {} THEN UNCHANGED user
           ELSE \E u \in Live(r.name) : Set(u, r.column, r.before)
        /\ Goto(p, "failed")
        /\ UNCHANGED <<deletedAt, deletions, history, req>>
     \/ StoreFaults /\ GivesUp(p, "failed")

(***************************************************************************)
(* deleteUser                                                              *)
(***************************************************************************)
DeleteFirst(p) ==
  LET r == req[p] IN
  /\ pc[p] = "write1" /\ r.op = "delete"
  /\ \/ /\ \E u \in Live(r.name) : user[u].role = r.role /\ Remove(u)
        /\ Goto(p, IF Sql THEN "view" ELSE "write2")
     \/ /\ Live(r.name) = {} \/ \E u \in Live(r.name) : user[u].role # r.role
        /\ Goto(p, "failed")
        /\ UNCHANGED <<user, deletedAt, deletions>>
     \/ StoreFaults /\ Goto(p, "failed") /\ UNCHANGED <<user, deletedAt, deletions>>
  /\ UNCHANGED <<history, req>>

\* The database is asked for the account it has deleted; when the answer fails
\* the delete fails, and its first step is not undone.
ViewDeleted(p) ==
  /\ pc[p] = "view"
  /\ \/ /\ Deleted(req[p].name) # {}
        /\ Goto(p, "write2")
        /\ UNCHANGED <<user, deletedAt, deletions, history, req>>
     \/ /\ StoreFaults \/ Deleted(req[p].name) = {}
        /\ GivesUp(p, "failed")

DeleteSecond(p) ==
  LET u == req[p].account IN
  /\ pc[p] = "write2" /\ req[p].op = "delete"
  /\ \/ /\ IF user[u].life = "live" THEN Remove(u) ELSE UNCHANGED <<user, deletedAt, deletions>>
        /\ Goto(p, "write3")
        /\ UNCHANGED <<history, req>>
     \/ Fails(p, "undo1")

\* The refresh tokens of the account are removed.
DeleteThird(p) ==
  /\ pc[p] = "write3"
  /\ \/ /\ Acknowledge(p, [ledger[req[p].account] EXCEPT !.life = "deleted"])
        /\ UNCHANGED <<user, deletedAt, deletions, contested, broken, req>>
     \/ Fails(p, "undo2")

(***************************************************************************)
(* restoreUser                                                             *)
(***************************************************************************)
CheckLive(p) ==
  /\ pc[p] = "live"
  /\ \/ /\ Goto(p, IF Live(req[p].name) = {} THEN "write1" ELSE "failed")
        /\ UNCHANGED <<user, deletedAt, deletions, history, req>>
     \/ Fails(p, "failed")

RestoreFirst(p) ==
  LET n == req[p].name IN
  /\ pc[p] = "write1" /\ req[p].op = "restore"
  /\ \/ /\ IF Deleted(n) = {} THEN UNCHANGED <<user, deletedAt, deletions>>
           ELSE \E u \in NewestDeleted(n) : ~NameTaken(u) /\ Revive(u)
        /\ Goto(p, "write2")
     \/ /\ StoreFaults \/ \E u \in NewestDeleted(n) : NameTaken(u)
        /\ Goto(p, "failed")
        /\ UNCHANGED <<user, deletedAt, deletions>>
  /\ UNCHANGED <<history, req>>

RestoreSecond(p) ==
  LET u == req[p].account IN
  /\ pc[p] = "write2" /\ req[p].op = "restore"
  /\ \/ /\ IF user[u].life = "deleted" THEN ~NameTaken(u) /\ Revive(u)
           ELSE UNCHANGED <<user, deletedAt, deletions>>
        /\ Goto(p, "duplicates")
     \/ /\ StoreFaults \/ (user[u].life = "deleted" /\ NameTaken(u))
        /\ Goto(p, "undo1")
        /\ UNCHANGED <<user, deletedAt, deletions>>
  /\ UNCHANGED <<history, req>>

\* removeDeletedDuplicatesQuietly: the other deleted accounts of the name go.
RemoveDuplicates(p) ==
  LET n == req[p].name
      Erase(table) == [u \in Accounts |-> IF u \in Deleted(n) THEN [table[u] EXCEPT !.life = "gone"]
                                          ELSE table[u]]
      restored == [ledger EXCEPT ![req[p].account].life = "live"]
  IN
  /\ pc[p] = "duplicates"
  /\ \/ user' = Erase(user) /\ ledger' = Erase(restored)
     \/ StoreFaults /\ UNCHANGED user /\ ledger' = restored
  /\ Goto(p, "ok")
  /\ UNCHANGED <<deletedAt, deletions, contested, broken, req>>

(***************************************************************************)
(* The undo steps of deleteUser and restoreUser                            *)
(***************************************************************************)
UndoDelete(p) ==
  LET candidates == IF pc[p] = "undo2" THEN {req[p].account} \cap Deleted(req[p].name)
                    ELSE NewestDeleted(req[p].name)
      after == IF pc[p] = "undo2" THEN "undo1" ELSE "failed"
  IN
  /\ pc[p] \in {"undo1", "undo2"} /\ req[p].op = "delete"
  /\ \/ /\ IF candidates = {} THEN UNCHANGED <<user, deletedAt, deletions>>
           ELSE \E u \in candidates : ~NameTaken(u) /\ Revive(u)
        /\ Goto(p, after)
        /\ UNCHANGED <<history, req>>
     \/ /\ StoreFaults \/ \E u \in candidates : NameTaken(u)
        /\ GivesUp(p, after)

UndoRestore(p) ==
  LET live == Live(req[p].name) IN
  /\ pc[p] = "undo1" /\ req[p].op = "restore"
  /\ \/ /\ IF live = {} THEN UNCHANGED <<user, deletedAt, deletions>>
           ELSE \E u \in live : Remove(u)
        /\ Goto(p, "failed")
        /\ UNCHANGED <<history, req>>
     \/ StoreFaults /\ GivesUp(p, "failed")

(***************************************************************************)
(* Registrations, and the nightly purge of what was deleted long ago.      *)
(***************************************************************************)
Register(u) ==
  /\ user[u].life = "absent" /\ Live(NameOf[u]) = {}
  /\ Set(u, "life", "live")
  /\ ledger' = [ledger EXCEPT ![u].life = "live"]
  /\ Meet(NameOf[u])
  /\ UNCHANGED <<deletedAt, deletions, broken, pc, req>>

Purge(u) ==
  /\ user[u].life = "deleted" /\ deletedAt[u] = 0
  /\ Set(u, "life", "gone")
  /\ ledger' = [ledger EXCEPT ![u].life = "gone"]
  /\ Meet(NameOf[u])
  /\ UNCHANGED <<deletedAt, deletions, broken, pc, req>>
-----------------------------------------------------------------------------
Begin(p) == \/ StartBan(p) \/ StartRole(p) \/ StartOwner(p) \/ StartDelete(p)
            \/ StartRestore(p)

Step(p) == \/ WriteFirst(p) \/ WriteSecond(p) \/ Recheck(p) \/ UndoRead(p) \/ UndoWrite(p)
           \/ DeleteFirst(p) \/ ViewDeleted(p) \/ DeleteSecond(p) \/ DeleteThird(p)
           \/ CheckLive(p) \/ RestoreFirst(p) \/ RestoreSecond(p) \/ RemoveDuplicates(p)
           \/ UndoDelete(p) \/ UndoRestore(p)

Next == \/ \E p \in Requests : Begin(p) \/ Step(p)
        \/ \E u \in Accounts : Register(u) \/ Purge(u)

Spec == Init /\ [][Next]_vars

-----------------------------------------------------------------------------
\* Mutations are atomic: when nothing is under way every account is what the
\* acknowledged requests made of it, and those that failed left no trace.
MutationsAtomic == Quiet => user = ledger

\* The same for the names where requests did not meet and no undo was lost.
AllOrNothing == \A u \in Accounts :
  \/ user[u] = ledger[u]
  \/ NameOf[u] \in contested \cup broken
  \/ \E p \in Requests : UnderWay(p) /\ req[p].name = NameOf[u]

\* The hierarchy is checked against the role at the time of the write: a ban,
\* a change of role and the first step of a delete change an account only when
\* its role is below the caller's, also when it was promoted meanwhile.
OnlyOutranked == [][\A p \in Requests :
    ((pc[p] = "write1" /\ req[p].op # "restore") \/ (pc[p] = "write2" /\ IsPair(p)))
      /\ pc'[p] # pc[p]
    => \A u \in Accounts : user'[u] # user[u] => Outranks(req[p].actor, user[u].role)]_vars
=============================================================================
