----------------------- MODULE AdminMutations_proofs ------------------------
(***************************************************************************)
(* The hierarchy of roles and the atomicity of AdminMutations, for any     *)
(* number of requests, accounts and names, with faults of the store.       *)
(*                                                                         *)
(* A request keeps what it has read until it ends, so the invariant says   *)
(* of these local variables alone that the caller outranked the role that  *)
(* was read (Judged), and that a value fits the column it is written to    *)
(* (Fits).  A write that expects the role that was read then changes only  *)
(* an account the caller outranks.  What the stages of a request make of   *)
(* the table is the second part of the module (Accounted).                 *)
(***************************************************************************)
EXTENDS AdminMutations, TLAPS

\* The values of a column.
Fits(r) ==
  /\ r.column = "role" => r.next \in Roles /\ r.before \in Roles
  /\ r.column = "standing" => r.next \in Standings /\ r.before \in Standings

\* What the check of the hierarchy has established.
Judged(r) ==
  /\ r.op \in {"ban", "role", "delete"} => Outranks(r.actor, r.role)
  /\ r.op = "ban" => r.column = "standing"
  /\ r.op = "role" => r.column = "role" /\ Outranks(r.actor, r.next)
  /\ r.op = "owner" => r.column = "role" /\ r.next = "owner" /\ r.actor = "owner"

IInv == TypeOK /\ \A p \in Requests : Fits(req[p]) /\ Judged(req[p])

-----------------------------------------------------------------------------
(* Tables. *)

\* Writing a value that fits its column gives a table again.
LEMMA SetRow ==
  ASSUME NEW T \in [Accounts -> User], NEW u \in Accounts, NEW column, NEW value,
         \/ column = "life" /\ value \in Lives
         \/ column = "role" /\ value \in Roles
         \/ column = "standing" /\ value \in Standings
  PROVE  [T EXCEPT ![u][column] = value] \in [Accounts -> User]
<1>1. [T[u] EXCEPT ![column] = value] \in User
  <2>1. CASE column = "life" /\ value \in Lives
    BY <2>1 DEF User
  <2>2. CASE column = "role" /\ value \in Roles
    BY <2>2 DEF User
  <2>3. CASE column = "standing" /\ value \in Standings
    BY <2>3 DEF User
  <2> QED BY <2>1, <2>2, <2>3
<1> QED BY <1>1

\* What a table is where it is written, and where it is not.
LEMMA SetOther ==
  ASSUME NEW T \in [Accounts -> User], NEW u \in Accounts, NEW v \in Accounts, NEW column, NEW value,
         [T EXCEPT ![u][column] = value][v] # T[v]
  PROVE  v = u
OBVIOUS

\* Writing the role an account has changes nothing.
LEMMA SetSame ==
  ASSUME NEW T \in [Accounts -> User], NEW u \in Accounts, NEW v \in Accounts
  PROVE  [T EXCEPT ![u]["role"] = T[u].role][v] = T[v]
BY DEF User

\* An owner outranks every other role.
LEMMA OwnerOutranks ==
  ASSUME NEW role \in Roles, role # "owner"
  PROVE  Outranks("owner", role)
BY DEF Roles, Outranks, Weight
-----------------------------------------------------------------------------
(* Types. *)

LEMMA InitType == ASSUME AdminAssumption, Init PROVE IInv
<1>1. Blank \in Request /\ Fits(Blank) /\ Judged(Blank)
  BY AdminAssumption DEF Blank, Request, Roles, Standings, Columns, Operations, Fits, Judged,
     Outranks, Weight
<1>2. user \in [Accounts -> User] /\ ledger \in [Accounts -> User]
  BY DEF Init, User
<1>3. TypeOK
  BY <1>1, <1>2 DEF Init, TypeOK, Pcs
<1> QED BY <1>1, <1>3 DEF Init, IInv

\* A table written to, and a request that goes on.
LEMMA SetType ==
  ASSUME TypeOK, NEW u \in Accounts, NEW column, NEW value, Set(u, column, value),
         \/ column = "life" /\ value \in Lives
         \/ column = "role" /\ value \in Roles
         \/ column = "standing" /\ value \in Standings
  PROVE  user' \in [Accounts -> User]
BY SetRow DEF TypeOK, Set

LEMMA ReviveType ==
  ASSUME TypeOK, NEW u \in Accounts, Revive(u)
  PROVE  user' \in [Accounts -> User] /\ deletedAt' \in [Accounts -> Nat] /\ deletions' \in Nat
BY SetType DEF Revive, TypeOK, Lives

LEMMA RemoveType ==
  ASSUME TypeOK, NEW u \in Accounts, Remove(u)
  PROVE  user' \in [Accounts -> User] /\ deletedAt' \in [Accounts -> Nat] /\ deletions' \in Nat
<1>1. user' \in [Accounts -> User]
  BY SetType DEF Remove, Lives
<1>2. deletions' \in Nat
  BY DEF Remove, TypeOK
<1>3. deletedAt' \in [Accounts -> Nat]
  BY <1>2 DEF Remove, TypeOK
<1> QED BY <1>1, <1>2, <1>3

LEMMA GotoType ==
  ASSUME TypeOK, NEW p \in Requests, NEW where \in Pcs, Goto(p, where)
  PROVE  pc' \in [Requests -> Pcs]
BY DEF TypeOK, Goto

LEMMA MeetType ==
  ASSUME TypeOK, NEW n \in Names, Meet(n)
  PROVE  contested' \subseteq Names
BY DEF TypeOK, Meet

\* What the requests hold does not change after their first step.
LEMMA Held ==
  ASSUME IInv, TypeOK', UNCHANGED req
  PROVE  IInv'
BY DEF IInv

LEMMA StartType ==
  ASSUME AdminAssumption, IInv, NEW p \in Requests, NEW r \in Request, NEW where \in Pcs,
         Fits(r), Judged(r), Start(p, r, where)
  PROVE  IInv'
<1>1. pc' \in [Requests -> Pcs] /\ contested' \subseteq Names
  BY GotoType, MeetType DEF Start, IInv, Request
<1>2. req' \in [Requests -> Request]
  BY DEF Start, IInv, TypeOK
<1>3. TypeOK'
  BY <1>1, <1>2 DEF Start, IInv, TypeOK
<1>4. ASSUME NEW q \in Requests PROVE Fits(req'[q]) /\ Judged(req'[q])
  BY DEF Start, IInv, TypeOK
<1> QED BY <1>3, <1>4 DEF IInv

LEMMA SnapshotType ==
  ASSUME AdminAssumption, TypeOK, NEW u \in Accounts, NEW op \in Operations,
         NEW caller \in Roles, NEW column \in Columns, NEW next \in Roles \cup Standings
  PROVE  /\ Snapshot(u, op, caller, column, next) \in Request
         /\ column = "role" => user[u][column] \in Roles
         /\ column = "standing" => user[u][column] \in Standings
<1>1. user[u] \in User /\ NameOf[u] \in Names
  BY AdminAssumption DEF TypeOK
<1>2. user[u].role \in Roles /\ user[u].standing \in Standings
  BY <1>1 DEF User
<1>3. user[u][column] \in Roles \cup Standings
  BY <1>2 DEF Columns
<1> QED BY <1>1, <1>2, <1>3 DEF Snapshot, Request
-----------------------------------------------------------------------------
(* The invariant is kept: requests that begin. *)

LEMMA BeginKeeps ==
  ASSUME AdminAssumption, IInv, NEW p \in Requests, Begin(p)
  PROVE  IInv'
<1> USE DEF Pcs
<1>0. TypeOK
  BY DEF IInv
<1>1. CASE StartBan(p)
  <2>1. PICK n \in Names, caller \in ActorRoles, next \in Standings :
          Found(p, n, "ban", caller, "standing", next, "write1")
    BY <1>1 DEF StartBan
  <2>2. PICK u \in Live(n) : /\ Outranks(caller, user[u].role)
                             /\ Start(p, Snapshot(u, "ban", caller, "standing", next), "write1")
    BY <2>1 DEF Found
  <2>3. u \in Accounts /\ caller \in Roles
    BY <2>2, AdminAssumption DEF Live, Roles
  <2>4. /\ Snapshot(u, "ban", caller, "standing", next) \in Request
        /\ user[u]["standing"] \in Standings
    BY <1>0, <2>3, SnapshotType, AdminAssumption DEF Operations, Columns
  <2>5. /\ Fits(Snapshot(u, "ban", caller, "standing", next))
        /\ Judged(Snapshot(u, "ban", caller, "standing", next))
    BY <2>2, <2>4 DEF Fits, Judged, Snapshot
  <2> QED BY <2>2, <2>4, <2>5, StartType, AdminAssumption
<1>2. CASE StartRole(p)
  <2>1. PICK n \in Names, caller \in ActorRoles, next \in GivenRoles :
          Outranks(caller, next) /\ Found(p, n, "role", caller, "role", next, "write1")
    BY <1>2 DEF StartRole
  <2>2. PICK u \in Live(n) : /\ Outranks(caller, user[u].role)
                             /\ Start(p, Snapshot(u, "role", caller, "role", next), "write1")
    BY <2>1 DEF Found
  <2>3. u \in Accounts /\ caller \in Roles /\ next \in Roles
    BY <2>1, <2>2, AdminAssumption DEF Live, Roles
  <2>4. /\ Snapshot(u, "role", caller, "role", next) \in Request
        /\ user[u]["role"] \in Roles
    BY <1>0, <2>3, SnapshotType, AdminAssumption DEF Operations, Columns
  <2>5. /\ Fits(Snapshot(u, "role", caller, "role", next))
        /\ Judged(Snapshot(u, "role", caller, "role", next))
    BY <2>1, <2>2, <2>3, <2>4 DEF Fits, Judged, Snapshot
  <2> QED BY <2>2, <2>4, <2>5, StartType, AdminAssumption
<1>3. CASE StartOwner(p)
  <2>1. PICK n \in Names : \E u \in Live(n) :
          Start(p, Snapshot(u, "owner", "owner", "role", "owner"), "write1")
    BY <1>3 DEF StartOwner
  <2>2. PICK u \in Live(n) : Start(p, Snapshot(u, "owner", "owner", "role", "owner"), "write1")
    BY <2>1
  <2>3. u \in Accounts /\ "owner" \in Roles
    BY <2>2 DEF Live, Roles
  <2>4. /\ Snapshot(u, "owner", "owner", "role", "owner") \in Request
        /\ user[u]["role"] \in Roles
    BY <1>0, <2>3, SnapshotType, AdminAssumption DEF Operations, Columns
  <2>5. /\ Fits(Snapshot(u, "owner", "owner", "role", "owner"))
        /\ Judged(Snapshot(u, "owner", "owner", "role", "owner"))
    BY <2>3, <2>4 DEF Fits, Judged, Snapshot
  <2> QED BY <2>2, <2>4, <2>5, StartType, AdminAssumption
<1>4. CASE StartDelete(p)
  <2>1. PICK n \in Names, caller \in ActorRoles :
          Found(p, n, "delete", caller, "role", "user", "write1")
    BY <1>4 DEF StartDelete
  <2>2. PICK u \in Live(n) : /\ Outranks(caller, user[u].role)
                             /\ Start(p, Snapshot(u, "delete", caller, "role", "user"), "write1")
    BY <2>1 DEF Found
  <2>3. u \in Accounts /\ caller \in Roles /\ "user" \in Roles
    BY <2>2, AdminAssumption DEF Live, Roles
  <2>4. /\ Snapshot(u, "delete", caller, "role", "user") \in Request
        /\ user[u]["role"] \in Roles
    BY <1>0, <2>3, SnapshotType, AdminAssumption DEF Operations, Columns
  <2>5. /\ Fits(Snapshot(u, "delete", caller, "role", "user"))
        /\ Judged(Snapshot(u, "delete", caller, "role", "user"))
    BY <2>2, <2>3, <2>4 DEF Fits, Judged, Snapshot
  <2> QED BY <2>2, <2>4, <2>5, StartType, AdminAssumption
<1>5. CASE StartRestore(p)
  <2>1. PICK n \in Names, caller \in ActorRoles : \E u \in NewestDeleted(n) :
          /\ Outranks(caller, user[u].role)
          /\ Start(p, Snapshot(u, "restore", caller, "role", "user"), "live")
    BY <1>5 DEF StartRestore
  <2>2. PICK u \in NewestDeleted(n) :
          Start(p, Snapshot(u, "restore", caller, "role", "user"), "live")
    BY <2>1
  <2>3. u \in Accounts /\ caller \in Roles /\ "user" \in Roles
    BY <2>2, AdminAssumption DEF NewestDeleted, Deleted, Roles
  <2>4. /\ Snapshot(u, "restore", caller, "role", "user") \in Request
        /\ user[u]["role"] \in Roles
    BY <1>0, <2>3, SnapshotType, AdminAssumption DEF Operations, Columns
  <2>5. /\ Fits(Snapshot(u, "restore", caller, "role", "user"))
        /\ Judged(Snapshot(u, "restore", caller, "role", "user"))
    BY <2>3, <2>4 DEF Fits, Judged, Snapshot
  <2> QED BY <2>2, <2>4, <2>5, StartType, AdminAssumption
<1> QED BY <1>1, <1>2, <1>3, <1>4, <1>5 DEF Begin

-----------------------------------------------------------------------------
(* The invariant is kept: a ban or a change of role. *)

\* What a request holds is typed, and fits.
LEMMA HeldType ==
  ASSUME IInv, NEW p \in Requests
  PROVE  /\ req[p] \in Request
         /\ req[p].account \in Accounts /\ req[p].name \in Names
         /\ req[p].column \in Columns
         /\ Fits(req[p]) /\ Judged(req[p])
BY DEF IInv, TypeOK, Request

\* An acknowledged request that wrote a column.
LEMMA LedgerType ==
  ASSUME IInv, NEW p \in Requests,
         ledger' = [ledger EXCEPT ![req[p].account] =
                      [ledger[req[p].account] EXCEPT ![req[p].column] = req[p].next]]
  PROVE  ledger' \in [Accounts -> User]
<1>1. req[p].account \in Accounts /\ req[p].column \in Columns /\ Fits(req[p])
  BY HeldType
<1>2. ledger \in [Accounts -> User]
  BY DEF IInv, TypeOK
<1>3. [ledger EXCEPT ![req[p].account][req[p].column] = req[p].next] \in [Accounts -> User]
  BY <1>1, <1>2, SetRow DEF Columns, Fits
<1> QED BY <1>2, <1>3

LEMMA WriteFirstKeeps ==
  ASSUME IInv, NEW p \in Requests, WriteFirst(p)
  PROVE  IInv'
<1>0. TypeOK /\ req[p].column \in Columns /\ Fits(req[p])
  BY HeldType DEF IInv
<1>1. user' \in [Accounts -> User]
  <2>1. CASE UNCHANGED user
    BY <1>0, <2>1 DEF TypeOK
  <2>2. CASE \E u \in Live(req[p].name) : Set(u, req[p].column, req[p].next)
    <3>1. PICK u \in Accounts : Set(u, req[p].column, req[p].next)
      BY <2>2 DEF Live
    <3> QED BY <1>0, <3>1, SetType DEF Columns, Fits
  <2> QED BY <2>1, <2>2 DEF WriteFirst
<1>2. pc' \in [Requests -> Pcs]
  BY <1>0 DEF WriteFirst, Goto, TypeOK, Pcs
<1>3. TypeOK' /\ UNCHANGED req
  BY <1>0, <1>1, <1>2 DEF WriteFirst, TypeOK, history
<1> QED BY <1>3, Held

LEMMA WriteSecondKeeps ==
  ASSUME IInv, NEW p \in Requests, WriteSecond(p)
  PROVE  IInv'
<1>0. TypeOK /\ req[p].column \in Columns /\ Fits(req[p]) /\ req[p].account \in Accounts
  BY HeldType DEF IInv
<1>1. user' \in [Accounts -> User]
  <2>1. CASE UNCHANGED user
    BY <1>0, <2>1 DEF TypeOK
  <2>2. CASE Set(req[p].account, req[p].column, req[p].next)
    BY <1>0, <2>2, SetType DEF Columns, Fits
  <2> QED BY <2>1, <2>2 DEF WriteSecond
<1>2. ledger' \in [Accounts -> User]
  <2>1. CASE UNCHANGED ledger
    BY <1>0, <2>1 DEF TypeOK
  <2>2. CASE Acknowledge(p, [ledger[req[p].account] EXCEPT ![req[p].column] = req[p].next])
    BY <2>2, LedgerType DEF Acknowledge
  <2> QED BY <2>1, <2>2 DEF WriteSecond
<1>3. pc' \in [Requests -> Pcs]
  BY <1>0 DEF WriteSecond, Acknowledge, Goto, TypeOK, Pcs
<1>4. TypeOK' /\ UNCHANGED req
  BY <1>0, <1>1, <1>2, <1>3 DEF WriteSecond, TypeOK
<1> QED BY <1>4, Held

LEMMA RecheckKeeps ==
  ASSUME IInv, NEW p \in Requests, Recheck(p)
  PROVE  IInv'
<1>0. TypeOK
  BY DEF IInv
<1>1. ledger' \in [Accounts -> User]
  <2>1. CASE UNCHANGED ledger
    BY <1>0, <2>1 DEF TypeOK
  <2>2. CASE Acknowledge(p, [ledger[req[p].account] EXCEPT ![req[p].column] = req[p].next])
    BY <2>2, LedgerType DEF Acknowledge
  <2> QED BY <2>1, <2>2 DEF Recheck, Fails, history
<1>2. pc' \in [Requests -> Pcs]
  BY <1>0 DEF Recheck, Acknowledge, Fails, Goto, TypeOK, Pcs
<1>3. TypeOK' /\ UNCHANGED req
  BY <1>0, <1>1, <1>2 DEF Recheck, Fails, TypeOK, history
<1> QED BY <1>3, Held

\* An undo that is given up.
LEMMA GivesUpKeeps ==
  ASSUME IInv, NEW p \in Requests, NEW where \in Pcs, GivesUp(p, where)
  PROVE  IInv'
<1>1. TypeOK' /\ UNCHANGED req
  BY HeldType, GotoType DEF GivesUp, TypeOK, IInv
<1> QED BY <1>1, Held

\* A query that fails.
LEMMA FailsKeeps ==
  ASSUME IInv, NEW p \in Requests, NEW where \in Pcs, Fails(p, where)
  PROVE  IInv'
<1>1. TypeOK' /\ UNCHANGED req
  BY GotoType DEF Fails, TypeOK, IInv, history
<1> QED BY <1>1, Held

LEMMA UndoPairKeeps ==
  ASSUME IInv, NEW p \in Requests, UndoRead(p) \/ UndoWrite(p)
  PROVE  IInv'
<1>0. TypeOK /\ req[p].column \in Columns /\ Fits(req[p]) /\ "failed" \in Pcs
  BY HeldType DEF IInv, Pcs
<1>1. CASE GivesUp(p, "failed")
  BY <1>0, <1>1, GivesUpKeeps
<1>2. CASE ~GivesUp(p, "failed")
  <2>1. user' \in [Accounts -> User]
    <3>1. CASE UNCHANGED user
      BY <1>0, <3>1 DEF TypeOK
    <3>2. CASE \E u \in Live(req[p].name) : Set(u, req[p].column, req[p].before)
      <4>1. PICK u \in Accounts : Set(u, req[p].column, req[p].before)
        BY <3>2 DEF Live
      <4> QED BY <1>0, <4>1, SetType DEF Columns, Fits
    <3> QED BY <1>2, <3>1, <3>2 DEF UndoRead, UndoWrite
  <2>2. pc' \in [Requests -> Pcs]
    BY <1>0, <1>2 DEF UndoRead, UndoWrite, Goto, TypeOK, Pcs
  <2>3. TypeOK' /\ UNCHANGED req
    BY <1>0, <1>2, <2>1, <2>2 DEF UndoRead, UndoWrite, TypeOK, history
  <2> QED BY <2>3, Held
<1> QED BY <1>1, <1>2
-----------------------------------------------------------------------------
(* The invariant is kept: deletes, restores and their undo. *)

\* A step that revives or removes accounts, or leaves the table.
LifeStep == \/ UNCHANGED <<user, deletedAt, deletions>>
            \/ \E u \in Accounts : Revive(u) \/ Remove(u)

LEMMA LifeStepKeeps ==
  ASSUME IInv, NEW p \in Requests, NEW where \in Pcs, LifeStep, Goto(p, where),
         UNCHANGED <<history, req>>
  PROVE  IInv'
<1>0. TypeOK
  BY DEF IInv
<1>1. user' \in [Accounts -> User] /\ deletedAt' \in [Accounts -> Nat] /\ deletions' \in Nat
  <2>1. CASE UNCHANGED <<user, deletedAt, deletions>>
    BY <1>0, <2>1 DEF TypeOK
  <2>2. CASE \E u \in Accounts : Revive(u) \/ Remove(u)
    BY <1>0, <2>2, ReviveType, RemoveType
  <2> QED BY <2>1, <2>2 DEF LifeStep
<1>2. pc' \in [Requests -> Pcs]
  BY <1>0, GotoType
<1>3. TypeOK' /\ UNCHANGED req
  BY <1>0, <1>1, <1>2 DEF TypeOK, history
<1> QED BY <1>3, Held

\* The ledger after an acknowledged delete or restore.
LEMMA LedgerLife ==
  ASSUME IInv, NEW p \in Requests, NEW life \in Lives
  PROVE  [ledger EXCEPT ![req[p].account].life = life] \in [Accounts -> User]
BY HeldType DEF IInv, TypeOK, User

LEMMA DeleteKeeps ==
  ASSUME IInv, NEW p \in Requests,
         DeleteFirst(p) \/ ViewDeleted(p) \/ DeleteSecond(p) \/ DeleteThird(p)
  PROVE  IInv'
<1>0. TypeOK /\ req[p].account \in Accounts
  BY HeldType DEF IInv
<1>1. CASE DeleteFirst(p)
  <2>1. LifeStep
    BY <1>1 DEF DeleteFirst, LifeStep, Live
  <2>2. \E where \in Pcs : Goto(p, where)
    BY <1>1 DEF DeleteFirst, Pcs
  <2> QED BY <1>1, <2>1, <2>2, LifeStepKeeps DEF DeleteFirst
<1>2. CASE ViewDeleted(p)
  <2>1. CASE GivesUp(p, "failed")
    BY <2>1, GivesUpKeeps DEF Pcs
  <2>2. CASE ~GivesUp(p, "failed")
    BY <1>2, <2>2, LifeStepKeeps DEF ViewDeleted, LifeStep, Pcs
  <2> QED BY <2>1, <2>2
<1>3. CASE DeleteSecond(p)
  <2>1. CASE Fails(p, "undo1")
    BY <2>1, FailsKeeps DEF Pcs
  <2>2. CASE ~Fails(p, "undo1")
    <3>1. LifeStep /\ Goto(p, "write3") /\ UNCHANGED <<history, req>>
      BY <1>0, <1>3, <2>2 DEF DeleteSecond, LifeStep
    <3> QED BY <3>1, LifeStepKeeps DEF Pcs
  <2> QED BY <2>1, <2>2
<1>4. CASE DeleteThird(p)
  <2>1. CASE Fails(p, "undo2")
    BY <2>1, FailsKeeps DEF Pcs
  <2>2. CASE ~Fails(p, "undo2")
    <3>1. Acknowledge(p, [ledger[req[p].account] EXCEPT !.life = "deleted"])
      BY <1>4, <2>2 DEF DeleteThird
    <3>2. ledger' \in [Accounts -> User]
      BY <3>1, LedgerLife DEF Acknowledge, Lives
    <3>3. pc' \in [Requests -> Pcs]
      BY <1>0, <3>1, GotoType DEF Acknowledge, Pcs
    <3>4. TypeOK' /\ UNCHANGED req
      BY <1>0, <1>4, <2>2, <3>2, <3>3 DEF DeleteThird, TypeOK
    <3> QED BY <3>4, Held
  <2> QED BY <2>1, <2>2
<1> QED BY <1>1, <1>2, <1>3, <1>4

LEMMA RestoreKeeps ==
  ASSUME IInv, NEW p \in Requests,
         CheckLive(p) \/ RestoreFirst(p) \/ RestoreSecond(p) \/ RemoveDuplicates(p)
  PROVE  IInv'
<1>0. TypeOK /\ req[p].account \in Accounts
  BY HeldType DEF IInv
<1>1. CASE CheckLive(p)
  <2>1. CASE Fails(p, "failed")
    BY <2>1, FailsKeeps DEF Pcs
  <2>2. CASE ~Fails(p, "failed")
    BY <1>1, <2>2, LifeStepKeeps DEF CheckLive, LifeStep, Pcs
  <2> QED BY <2>1, <2>2
<1>2. CASE RestoreFirst(p)
  <2>1. LifeStep
    BY <1>2 DEF RestoreFirst, LifeStep, NewestDeleted, Deleted
  <2>2. \E where \in Pcs : Goto(p, where)
    BY <1>2 DEF RestoreFirst, Pcs
  <2> QED BY <1>2, <2>1, <2>2, LifeStepKeeps DEF RestoreFirst
<1>3. CASE RestoreSecond(p)
  <2>1. LifeStep
    BY <1>0, <1>3 DEF RestoreSecond, LifeStep
  <2>2. \E where \in Pcs : Goto(p, where)
    BY <1>3 DEF RestoreSecond, Pcs
  <2> QED BY <1>3, <2>1, <2>2, LifeStepKeeps DEF RestoreSecond
<1>4. CASE RemoveDuplicates(p)
  <2> DEFINE n == req[p].name
             Erase(table) == [u \in Accounts |-> IF u \in Deleted(n)
                                                 THEN [table[u] EXCEPT !.life = "gone"]
                                                 ELSE table[u]]
             restored == [ledger EXCEPT ![req[p].account].life = "live"]
  <2>1. restored \in [Accounts -> User]
    BY LedgerLife DEF Lives
  <2>2. ASSUME NEW T \in [Accounts -> User] PROVE Erase(T) \in [Accounts -> User]
    BY DEF User, Lives
  <2>3. \/ user' = Erase(user) /\ ledger' = Erase(restored)
        \/ UNCHANGED user /\ ledger' = restored
    BY <1>4 DEF RemoveDuplicates
  <2>4. user' \in [Accounts -> User] /\ ledger' \in [Accounts -> User]
    <3> HIDE DEF Erase, restored
    <3> QED BY <1>0, <2>1, <2>2, <2>3 DEF TypeOK
  <2>5. pc' \in [Requests -> Pcs]
    BY <1>0, <1>4, GotoType DEF RemoveDuplicates, Pcs
  <2>6. TypeOK' /\ UNCHANGED req
    BY <1>0, <1>4, <2>4, <2>5 DEF RemoveDuplicates, TypeOK
  <2> QED BY <2>6, Held
<1> QED BY <1>1, <1>2, <1>3, <1>4

LEMMA UndoKeeps ==
  ASSUME IInv, NEW p \in Requests, UndoDelete(p) \/ UndoRestore(p)
  PROVE  IInv'
<1>0. TypeOK /\ req[p].account \in Accounts
  BY HeldType DEF IInv
<1>1. CASE UndoDelete(p)
  <2> DEFINE candidates == IF pc[p] = "undo2" THEN {req[p].account} \cap Deleted(req[p].name)
                           ELSE NewestDeleted(req[p].name)
             after == IF pc[p] = "undo2" THEN "undo1" ELSE "failed"
  <2>1. after \in Pcs /\ candidates \subseteq Accounts
    BY DEF Pcs, NewestDeleted, Deleted
  <2>2. \/ /\ IF candidates = {} THEN UNCHANGED <<user, deletedAt, deletions>>
              ELSE \E u \in candidates : ~NameTaken(u) /\ Revive(u)
           /\ Goto(p, after)
           /\ UNCHANGED <<history, req>>
        \/ GivesUp(p, after)
    BY <1>1 DEF UndoDelete
  <2> HIDE DEF candidates, after
  <2>3. CASE GivesUp(p, after)
    BY <2>1, <2>3, GivesUpKeeps
  <2>4. CASE ~GivesUp(p, after)
    <3>1. LifeStep /\ Goto(p, after) /\ UNCHANGED <<history, req>>
      BY <2>1, <2>2, <2>4 DEF LifeStep
    <3> QED BY <2>1, <3>1, LifeStepKeeps
  <2> QED BY <2>3, <2>4
<1>2. CASE UndoRestore(p)
  <2>1. CASE GivesUp(p, "failed")
    BY <2>1, GivesUpKeeps DEF Pcs
  <2>2. CASE ~GivesUp(p, "failed")
    <3>1. LifeStep /\ Goto(p, "failed") /\ UNCHANGED <<history, req>>
      BY <1>2, <2>2 DEF UndoRestore, LifeStep, Live
    <3> QED BY <3>1, LifeStepKeeps DEF Pcs
  <2> QED BY <2>1, <2>2
<1> QED BY <1>1, <1>2

LEMMA EventKeeps ==
  ASSUME AdminAssumption, IInv, NEW u \in Accounts, Register(u) \/ Purge(u)
  PROVE  IInv'
<1>0. TypeOK /\ NameOf[u] \in Names
  BY AdminAssumption DEF IInv
<1>1. PICK life \in {"live", "gone"} :
        Set(u, "life", life) /\ ledger' = [ledger EXCEPT ![u].life = life]
  BY DEF Register, Purge
<1>2. user' \in [Accounts -> User] /\ ledger' \in [Accounts -> User]
  <2>1. user' \in [Accounts -> User]
    BY <1>0, <1>1, SetType DEF Lives
  <2>2. ledger' \in [Accounts -> User]
    BY <1>0, <1>1, SMTT(40) DEF TypeOK, User, Lives
  <2> QED BY <2>1, <2>2
<1>3. contested' \subseteq Names
  BY <1>0, MeetType DEF Register, Purge
<1>4. TypeOK' /\ UNCHANGED req
  BY <1>0, <1>2, <1>3 DEF Register, Purge, TypeOK
<1> QED BY <1>4, Held

LEMMA NextKeeps ==
  ASSUME AdminAssumption, IInv, [Next]_vars
  PROVE  IInv'
<1>1. ASSUME NEW p \in Requests, Begin(p) PROVE IInv'
  BY <1>1, BeginKeeps, AdminAssumption
<1>2. ASSUME NEW p \in Requests, Step(p) PROVE IInv'
  BY <1>2, WriteFirstKeeps, WriteSecondKeeps, RecheckKeeps, UndoPairKeeps, DeleteKeeps,
     RestoreKeeps, UndoKeeps DEF Step
<1>3. ASSUME NEW u \in Accounts, Register(u) \/ Purge(u) PROVE IInv'
  BY <1>3, EventKeeps, AdminAssumption
<1>4. CASE UNCHANGED vars
  BY <1>4 DEF vars, history, IInv, TypeOK
<1> QED BY <1>1, <1>2, <1>3, <1>4 DEF Next

-----------------------------------------------------------------------------
(* The hierarchy. *)

\* The step of a request moves that request only.
LEMMA StepMovesOne ==
  ASSUME TypeOK, NEW p \in Requests, NEW q \in Requests, Begin(p) \/ Step(p), pc'[q] # pc[q]
  PROVE  q = p
BY DEF TypeOK, Begin, Step, StartBan, StartRole, StartOwner, StartDelete, StartRestore, Found,
   Start, WriteFirst, WriteSecond, Recheck, UndoRead, UndoWrite, DeleteFirst, ViewDeleted,
   DeleteSecond, DeleteThird, CheckLive, RestoreFirst, RestoreSecond, RemoveDuplicates,
   UndoDelete, UndoRestore, Goto, Fails, GivesUp, Acknowledge

LEMMA FirstWriteOutranked ==
  ASSUME IInv, NEW p \in Requests, WriteFirst(p), NEW u \in Accounts, user'[u] # user[u]
  PROVE  Outranks(req[p].actor, user[u].role)
<1>0. user \in [Accounts -> User] /\ req[p] \in Request /\ Judged(req[p])
  BY HeldType DEF IInv, TypeOK
<1>1. PICK v \in Accounts : user[v].role = req[p].role /\ Set(v, req[p].column, req[p].next)
  BY DEF WriteFirst, Live
<1>2. u = v
  BY <1>0, <1>1, SetOther DEF Set
<1>3. CASE req[p].op \in {"ban", "role"}
  BY <1>0, <1>1, <1>2, <1>3 DEF Judged
<1>4. CASE req[p].op = "owner"
  <2>1. user[u].role # "owner"
    BY <1>0, <1>1, <1>2, <1>4, SetSame DEF Judged, Set
  <2> QED BY <1>0, <1>4, <2>1, OwnerOutranks DEF Judged, User
<1> QED BY <1>3, <1>4 DEF WriteFirst, IsPair

LEMMA SecondWriteOutranked ==
  ASSUME IInv, NEW p \in Requests, WriteSecond(p), NEW u \in Accounts, user'[u] # user[u]
  PROVE  Outranks(req[p].actor, user[u].role)
<1>0. /\ user \in [Accounts -> User] /\ req[p] \in Request
      /\ Judged(req[p]) /\ req[p].account \in Accounts
  BY HeldType DEF IInv, TypeOK
<1>1. /\ user[req[p].account].role = Expected(p)
      /\ Set(req[p].account, req[p].column, req[p].next)
  BY DEF WriteSecond
<1>2. u = req[p].account
  BY <1>0, <1>1, SetOther DEF Set
<1>3. CASE req[p].op = "ban"
  BY <1>0, <1>1, <1>2, <1>3 DEF Judged, Expected
<1>4. CASE req[p].op \in {"role", "owner"}
  <2>1. user[u].role = req[p].next /\ req[p].column = "role"
    BY <1>0, <1>1, <1>2, <1>4 DEF Judged, Expected
  <2>2. user'[u] = user[u]
    BY <1>0, <1>1, <1>2, <2>1, SetSame DEF Set
  <2> QED BY <2>2
<1> QED BY <1>3, <1>4 DEF WriteSecond, IsPair

LEMMA DeleteOutranked ==
  ASSUME IInv, NEW p \in Requests, DeleteFirst(p), NEW u \in Accounts, user'[u] # user[u]
  PROVE  Outranks(req[p].actor, user[u].role)
<1>0. user \in [Accounts -> User] /\ Judged(req[p])
  BY HeldType DEF IInv, TypeOK
<1>1. PICK v \in Accounts : user[v].role = req[p].role /\ Remove(v)
  BY DEF DeleteFirst, Live
<1>2. u = v
  BY <1>0, <1>1, SetOther DEF Remove, Set
<1> QED BY <1>0, <1>1, <1>2 DEF DeleteFirst, Judged

\* Every step changes an account with a judged write only as the caller may.
LEMMA NextOutranked ==
  ASSUME IInv, [Next]_vars, NEW q \in Requests,
         (pc[q] = "write1" /\ req[q].op # "restore") \/ (pc[q] = "write2" /\ IsPair(q)),
         pc'[q] # pc[q], NEW u \in Accounts, user'[u] # user[u]
  PROVE  Outranks(req[q].actor, user[u].role)
<1>0. TypeOK
  BY DEF IInv
<1>1. PICK p \in Requests : Begin(p) \/ Step(p)
  BY DEF Next, vars, Register, Purge
<1>2. q = p
  BY <1>0, <1>1, StepMovesOne
<1>3. ~Begin(q)
  BY DEF Begin, StartBan, StartRole, StartOwner, StartDelete, StartRestore, Found, Start
<1>4. WriteFirst(q) \/ WriteSecond(q) \/ DeleteFirst(q)
  BY <1>1, <1>2, <1>3 DEF Step, Recheck, UndoRead, UndoWrite, ViewDeleted, DeleteSecond,
     DeleteThird, CheckLive, RestoreFirst, RestoreSecond, RemoveDuplicates, UndoDelete,
     UndoRestore, IsPair
<1> QED BY <1>4, FirstWriteOutranked, SecondWriteOutranked, DeleteOutranked

\* The table of users and the requests keep their types.
THEOREM SpecTypeOK == Spec => []TypeOK
<1>1. Init => IInv
  BY InitType, AdminAssumption
<1>2. IInv /\ [Next]_vars => IInv'
  BY NextKeeps, AdminAssumption
<1>3. IInv => TypeOK
  BY DEF IInv
<1> QED BY <1>1, <1>2, <1>3, PTL DEF Spec

\* No interleaving of administrators lets a ban, a change of role or the first
\* step of a delete change an account whose role the caller does not outrank.
THEOREM SpecOnlyOutranked == Spec => OnlyOutranked
<1>1. Init => IInv
  BY InitType, AdminAssumption
<1>2. IInv /\ [Next]_vars => IInv'
  BY NextKeeps, AdminAssumption
<1>3. IInv /\ [Next]_vars => [\A p \in Requests :
           ((pc[p] = "write1" /\ req[p].op # "restore") \/ (pc[p] = "write2" /\ IsPair(p)))
             /\ pc'[p] # pc[p]
           => \A u \in Accounts : user'[u] # user[u]
                => Outranks(req[p].actor, user[u].role)]_vars
  BY NextOutranked
<1> QED BY <1>1, <1>2, <1>3, PTL DEF Spec, OnlyOutranked

-----------------------------------------------------------------------------
(***************************************************************************)
(* All or nothing, in the database.  For a name at which nobody met and no *)
(* undo was lost, the invariant says how the table differs from the ledger *)
(* at each stage of the one request under way there: not at all, in the    *)
(* value it has written (Written), in the account it has removed (Removed) *)
(* or in the one it has revived (Revived).                                 *)
(***************************************************************************)
Untouched(n) == n \notin contested \cup broken

Alike(n) == \A u \in Accounts : NameOf[u] = n => user[u] = ledger[u]

\* The table is the ledger, but for the row of u.
Differs(u, row) ==
  /\ user[u] = row
  /\ \A v \in Accounts \ {u} : NameOf[v] = NameOf[u] => user[v] = ledger[v]

\* What the request has read is still so.
AsRead(p) ==
  /\ Alike(req[p].name)
  /\ user[req[p].account].life = "live" /\ user[req[p].account].role = req[p].role
  /\ IsPair(p) => user[req[p].account][req[p].column] = req[p].before

\* The first of the two writes is done, or both.
Written(p) ==
  /\ Differs(req[p].account, [ledger[req[p].account] EXCEPT ![req[p].column] = req[p].next])
  /\ ledger[req[p].account][req[p].column] = req[p].before
  /\ user[req[p].account].life = "live"
  /\ user[req[p].account].role = Expected(p)

\* The account of the request is the last one of its name that was deleted.
Removed(p) ==
  /\ ledger[req[p].account].life = "live"
  /\ Differs(req[p].account, [ledger[req[p].account] EXCEPT !.life = "deleted"])
  /\ \A v \in Accounts \ {req[p].account} :
       NameOf[v] = NameOf[req[p].account] => deletedAt[v] < deletedAt[req[p].account]

Revived(u) ==
  /\ ledger[u].life = "deleted"
  /\ Differs(u, [ledger[u] EXCEPT !.life = "live"])

Stage(p) ==
  \/ pc[p] = "write1" /\ req[p].op # "restore" /\ AsRead(p)
  \/ pc[p] \in {"write2", "undoRead", "undoWrite"} /\ IsPair(p) /\ Written(p)
  \/ pc[p] \in {"view", "write2", "write3", "undo2", "undo1"} /\ req[p].op = "delete" /\ Removed(p)
  \/ /\ pc[p] = "undo1" /\ req[p].op = "delete"
     /\ user[req[p].account].life = "live" /\ Alike(req[p].name)
  \/ /\ pc[p] \in {"live", "write1"} /\ req[p].op = "restore"
     /\ user[req[p].account].life = "deleted" /\ Alike(req[p].name)
  \/ /\ pc[p] \in {"write2", "undo1", "duplicates"} /\ req[p].op = "restore"
     /\ ledger[req[p].account].life = "deleted"
     /\ \E u \in Accounts : /\ NameOf[u] = req[p].name /\ Revived(u)
                            /\ pc[p] = "duplicates" => u = req[p].account

\* In the database two live accounts have different names.
OneLive == \A u, v \in Accounts :
  NameOf[u] = NameOf[v] /\ user[u].life = "live" /\ user[v].life = "live" => u = v

Ages == \A u \in Accounts : deletedAt[u] <= deletions

Named == \A p \in Requests : UnderWay(p) => NameOf[req[p].account] = req[p].name

\* Where nobody met there is one request at most.
Alone == \A p, q \in Requests :
  UnderWay(p) /\ UnderWay(q) /\ req[p].name = req[q].name /\ req[p].name \notin contested => p = q

Settled == \A n \in Names :
  Untouched(n) /\ (\A p \in Requests : UnderWay(p) => req[p].name # n) => Alike(n)

Staged == \A p \in Requests : UnderWay(p) /\ Untouched(req[p].name) => Stage(p)

Accounted == IInv /\ OneLive /\ Ages /\ Named /\ Alone /\ Settled /\ Staged

-----------------------------------------------------------------------------
(* What a step leaves alone. *)

\* A step at one name.
Local(n) == \A u \in Accounts : NameOf[u] # n =>
  user'[u] = user[u] /\ ledger'[u] = ledger[u] /\ deletedAt'[u] = deletedAt[u]

Moves(p) ==
  /\ pc' = [pc EXCEPT ![p] = pc'[p]]
  /\ UNCHANGED <<req, contested>>
  /\ broken \subseteq broken'

\* A request at another name is where it was.
LEMMA StageKept ==
  ASSUME NEW p \in Requests, NEW n, Local(n), req[p].name # n, NameOf[req[p].account] = req[p].name,
         req[p].account \in Accounts, pc'[p] = pc[p], req'[p] = req[p], Stage(p)
  PROVE  Stage(p)'
<1>1. \A u \in Accounts : NameOf[u] = req[p].name =>
         user'[u] = user[u] /\ ledger'[u] = ledger[u] /\ deletedAt'[u] = deletedAt[u]
  BY DEF Local
<1>2. AsRead(p) => AsRead(p)'
  BY <1>1 DEF AsRead, Alike, IsPair
<1>3. Written(p) => Written(p)'
  BY <1>1, ZenonT(60) DEF Written, Differs, Expected
<1>4. Removed(p) => Removed(p)'
  BY <1>1 DEF Removed, Differs
<1>5. ASSUME NEW u \in Accounts, NameOf[u] = req[p].name, Revived(u) PROVE Revived(u)'
  BY <1>1, <1>5 DEF Revived, Differs
<1>6. Alike(req[p].name) => Alike(req[p].name)'
  BY <1>1 DEF Alike
<1>7. /\ user'[req[p].account] = user[req[p].account]
      /\ ledger'[req[p].account] = ledger[req[p].account]
      /\ IsPair(p) => IsPair(p)'
  BY <1>1 DEF IsPair
<1> QED BY <1>2, <1>3, <1>4, <1>5, <1>6, <1>7 DEF Stage

\* What has to be shown of a step of a request: where it leaves its own name.
Outcome(p) == req[p].name \notin contested' \cup broken' =>
  IF pc'[p] \in {"idle", "ok", "failed"}
  THEN \A u \in Accounts : NameOf[u] = req[p].name => user'[u] = ledger'[u]
  ELSE Stage(p)'

LEMMA StepAccounted ==
  ASSUME AdminAssumption, Accounted, NEW p \in Requests, UnderWay(p), Moves(p),
         Local(req[p].name), IInv', OneLive', Ages', Outcome(p)
  PROVE  Accounted'
<1>1. \A q \in Requests : q # p => pc'[q] = pc[q]
  BY DEF Moves, Accounted, IInv, TypeOK
<1>2. \A q \in Requests : UnderWay(q)' => UnderWay(q)
  BY <1>1 DEF UnderWay
<1>3. Named' /\ Alone'
  BY <1>2 DEF Named, Alone, Moves, Accounted
<1>4. \A n : Untouched(n)' => Untouched(n)
  BY DEF Untouched, Moves
<1>5. ASSUME NEW n \in Names, Untouched(n)', \A q \in Requests : UnderWay(q)' => req'[q].name # n
      PROVE  Alike(n)'
  <2>1. CASE n = req[p].name
    <3>1. pc'[p] \in {"idle", "ok", "failed"}
      BY <1>5, <2>1 DEF UnderWay, Moves
    <3> QED BY <1>5, <2>1, <3>1 DEF Outcome, Untouched, Alike
  <2>2. CASE n # req[p].name
    <3>1. \A q \in Requests : UnderWay(q) => req[q].name # n
      BY <1>1, <1>5, <2>2 DEF UnderWay, Moves
    <3>2. Alike(n)
      BY <1>4, <1>5, <3>1 DEF Accounted, Settled
    <3> QED BY <2>2, <3>2 DEF Alike, Local
  <2> QED BY <2>1, <2>2
<1>6. ASSUME NEW q \in Requests, UnderWay(q)', Untouched(req[q].name)' PROVE Stage(q)'
  <2>1. CASE q = p
    BY <1>6, <2>1 DEF Outcome, Untouched, UnderWay, Moves
  <2>2. CASE q # p
    <3>1. UnderWay(q) /\ Untouched(req[q].name)
      BY <1>2, <1>6 DEF Untouched, Moves
    <3>2. req[q].name # req[p].name
      BY <2>2, <3>1 DEF Accounted, Alone, Untouched
    <3>3. Stage(q) /\ NameOf[req[q].account] = req[q].name /\ req[q].account \in Accounts
      BY <3>1, HeldType DEF Accounted, Staged, Named
    <3>4. pc'[q] = pc[q] /\ req'[q] = req[q]
      BY <1>1, <2>2 DEF Moves
    <3> QED BY <3>2, <3>3, <3>4, StageKept
  <2> QED BY <2>1, <2>2
<1>7. Settled'
  BY <1>5 DEF Settled
<1>8. Staged'
  BY <1>6 DEF Staged
<1> QED BY <1>3, <1>7, <1>8 DEF Accounted

-----------------------------------------------------------------------------
(* What the writes do to the lives of accounts. *)

\* A write to another column, and one that takes a life.
LEMMA OneLiveKept ==
  ASSUME OneLive, \A u \in Accounts : user'[u].life = "live" => user[u].life = "live"
  PROVE  OneLive'
BY DEF OneLive

LEMMA SetColumn ==
  ASSUME TypeOK, NEW u \in Accounts, NEW column \in Columns, NEW value, Set(u, column, value)
  PROVE  /\ \A v \in Accounts : user'[v].life = user[v].life
         /\ \A v \in Accounts \ {u} : user'[v] = user[v]
         /\ user'[u] = [user[u] EXCEPT ![column] = value]
         /\ user'[u][column] = value
         /\ column # "role" => user'[u].role = user[u].role
<1>1. user[u] \in User /\ user'[u] = [user[u] EXCEPT ![column] = value]
  BY DEF Set, TypeOK
<1>2. \A v \in Accounts \ {u} : user'[v] = user[v]
  BY DEF Set, TypeOK
<1>3. CASE column = "role"
  BY <1>1, <1>2, <1>3 DEF User
<1>4. CASE column = "standing"
  BY <1>1, <1>2, <1>4 DEF User
<1> QED BY <1>3, <1>4 DEF Columns

\* Writing back what a column held gives the row again.
LEMMA RowRestored ==
  ASSUME NEW row \in User, NEW column \in Columns \cup {"life"}, NEW value
  PROVE  [[row EXCEPT ![column] = value] EXCEPT ![column] = row[column]] = row
<1>1. CASE column = "role"
  BY <1>1 DEF User
<1>2. CASE column = "standing"
  BY <1>2 DEF User
<1>3. CASE column = "life"
  BY <1>3 DEF User
<1> QED BY <1>1, <1>2, <1>3 DEF Columns

LEMMA ReviveLives ==
  ASSUME TypeOK, OneLive, Ages, Sql, NEW u \in Accounts, ~NameTaken(u), Revive(u)
  PROVE  /\ OneLive' /\ Ages'
         /\ user'[u] = [user[u] EXCEPT !.life = "live"]
         /\ \A v \in Accounts \ {u} : user'[v] = user[v]
         /\ UNCHANGED deletedAt
<1>1. /\ user'[u] = [user[u] EXCEPT !.life = "live"]
      /\ \A v \in Accounts \ {u} : user'[v] = user[v]
      /\ UNCHANGED <<deletedAt, deletions>>
  BY DEF Revive, Set, TypeOK
<1>2. \A v \in Accounts \ {u} : NameOf[v] = NameOf[u] => user[v].life # "live"
  BY DEF NameTaken, Live
<1>3. OneLive'
  BY <1>1, <1>2 DEF OneLive
<1>4. Ages'
  BY <1>1 DEF Ages
<1> QED BY <1>1, <1>3, <1>4

LEMMA RemoveLives ==
  ASSUME TypeOK, OneLive, Ages, NEW u \in Accounts, Remove(u)
  PROVE  /\ OneLive' /\ Ages'
         /\ user'[u] = [user[u] EXCEPT !.life = "deleted"]
         /\ \A v \in Accounts \ {u} : user'[v] = user[v] /\ deletedAt'[v] = deletedAt[v]
         /\ \A v \in Accounts \ {u} : deletedAt'[v] < deletedAt'[u]
<1>1. /\ user'[u] = [user[u] EXCEPT !.life = "deleted"]
      /\ \A v \in Accounts \ {u} : user'[v] = user[v]
  BY DEF Remove, Set, TypeOK
<1>2. user'[u].life = "deleted"
  BY <1>1 DEF TypeOK, User
<1>3. /\ deletions' = deletions + 1 /\ deletions \in Nat
      /\ deletedAt' = [deletedAt EXCEPT ![u] = deletions + 1] /\ deletedAt \in [Accounts -> Nat]
  BY DEF Remove, TypeOK
<1>4. OneLive'
  BY <1>1, <1>2, OneLiveKept
<1>5. \A v \in Accounts \ {u} : deletedAt'[v] = deletedAt[v] /\ deletedAt'[v] < deletedAt'[u]
  BY <1>3 DEF Ages
<1>6. Ages'
  BY <1>3 DEF Ages
<1> QED BY <1>1, <1>4, <1>5, <1>6

\* What a step of a request stands on.
LEMMA StepGround ==
  ASSUME Accounted, NEW p \in Requests, UnderWay(p)
  PROVE  /\ TypeOK /\ req[p].account \in Accounts /\ req[p].column \in Columns /\ req[p].name \in Names
         /\ user[req[p].account] \in User /\ ledger[req[p].account] \in User
         /\ Fits(req[p]) /\ Judged(req[p])
         /\ NameOf[req[p].account] = req[p].name
         /\ OneLive /\ Ages
         /\ Untouched(req[p].name) => Stage(p)
BY HeldType DEF Accounted, IInv, TypeOK, Named, Staged

\* A step that writes nothing.
LEMMA QuietAccounted ==
  ASSUME AdminAssumption, Accounted, NEW p \in Requests, UnderWay(p), Moves(p), IInv',
         UNCHANGED <<user, ledger, deletedAt, deletions>>, Outcome(p)
  PROVE  Accounted'
<1>1. Local(req[p].name)
  BY DEF Local
<1>2. OneLive' /\ Ages'
  BY DEF Accounted, OneLive, Ages
<1> QED BY <1>1, <1>2, StepAccounted

\* An undo that is given up leaves its name among the broken ones.
LEMMA GivesUpAccounted ==
  ASSUME AdminAssumption, Accounted, NEW p \in Requests, UnderWay(p), IInv', NEW where,
         GivesUp(p, where)
  PROVE  Accounted'
<1>1. Moves(p)
  BY DEF GivesUp, Goto, Moves, Accounted, IInv, TypeOK
<1>2. Outcome(p)
  BY DEF GivesUp, Outcome
<1> QED BY <1>1, <1>2, QuietAccounted DEF GivesUp

-----------------------------------------------------------------------------
(* A ban or a change of role. *)

\* Where nobody met the account of a request is the live one of its name.
LEMMA TheLiveOne ==
  ASSUME AdminAssumption, Accounted, NEW p \in Requests, UnderWay(p),
         user[req[p].account].life = "live", NEW u \in Live(req[p].name)
  PROVE  u = req[p].account
BY StepGround DEF Live, OneLive

LEMMA WriteFirstAccounted ==
  ASSUME AdminAssumption, Accounted, NEW p \in Requests, UnderWay(p), WriteFirst(p), IInv'
  PROVE  Accounted'
<1>0. /\ TypeOK /\ req[p].account \in Accounts /\ req[p].column \in Columns
      /\ user[req[p].account] \in User /\ NameOf[req[p].account] = req[p].name /\ OneLive /\ Ages
      /\ Fits(req[p]) /\ Judged(req[p])
  BY StepGround
<1>1. Moves(p)
  BY <1>0 DEF WriteFirst, Goto, Moves, TypeOK, history
<1>2. Untouched(req[p].name) => AsRead(p)
  BY StepGround DEF Stage, WriteFirst, IsPair
<1>3. CASE \E u \in Live(req[p].name) :
             user[u].role = req[p].role /\ Set(u, req[p].column, req[p].next) /\ Goto(p, "write2")
  <2>1. PICK u \in Accounts : /\ u \in Live(req[p].name) /\ Set(u, req[p].column, req[p].next)
                              /\ Goto(p, "write2")
    BY <1>3 DEF Live
  <2>2. NameOf[u] = req[p].name
    BY <2>1 DEF Live
  <2>3. /\ \A v \in Accounts : user'[v].life = user[v].life
        /\ \A v \in Accounts \ {u} : user'[v] = user[v]
        /\ user'[u] = [user[u] EXCEPT ![req[p].column] = req[p].next]
        /\ user'[u][req[p].column] = req[p].next
        /\ req[p].column # "role" => user'[u].role = user[u].role
    BY <1>0, <2>1, SetColumn
  <2>4. UNCHANGED <<ledger, deletedAt, deletions, req>>
    BY DEF WriteFirst, history
  <2>5. Local(req[p].name) /\ OneLive' /\ Ages'
    BY <1>0, <2>2, <2>3, <2>4, OneLiveKept DEF Local, Ages
  <2>6. ASSUME Untouched(req[p].name) PROVE Stage(p)'
    <3>1. AsRead(p) /\ IsPair(p)
      BY <1>2, <2>6 DEF WriteFirst
    <3>2. u = req[p].account
      BY <2>1, <3>1, TheLiveOne DEF AsRead
    <3>3. user[u] = ledger[u] /\ user[u].life = "live" /\ user[u].role = req[p].role
          /\ user[u][req[p].column] = req[p].before
      BY <1>0, <3>1, <3>2 DEF AsRead, Alike
    <3>4. \A v \in Accounts \ {u} : NameOf[v] = NameOf[u] => user'[v] = ledger'[v]
      BY <1>0, <2>3, <2>4, <3>1, <3>2 DEF AsRead, Alike
    <3>5. user'[u].role = Expected(p)'
      BY <2>3, <2>4, <3>3, <3>2 DEF Expected
    <3>6. Written(p)'
      BY <2>3, <2>4, <3>2, <3>3, <3>4, <3>5 DEF Written, Differs
    <3>7. pc'[p] = "write2" /\ IsPair(p)'
      BY <1>0, <2>1, <2>4, <3>1 DEF Goto, TypeOK, IsPair
    <3> QED BY <3>6, <3>7 DEF Stage
  <2>7. Outcome(p)
    <3>1. pc'[p] = "write2"
      BY <1>0, <2>1 DEF Goto, TypeOK
    <3> QED BY <1>1, <2>6, <3>1 DEF Outcome, Untouched, Moves
  <2> QED BY <1>1, <2>5, <2>7, StepAccounted
<1>4. CASE UNCHANGED user /\ \/ Goto(p, "failed")
                             \/ Goto(p, "recheck1") /\ Live(req[p].name) = {}
                             \/ Goto(p, "recheck1") /\ \E u \in Live(req[p].name) :
                                                          user[u].role # req[p].role
  <2>1. ASSUME Untouched(req[p].name) PROVE Alike(req[p].name) /\ pc'[p] = "failed"
    <3>1. AsRead(p)
      BY <1>2, <2>1
    <3>2. req[p].account \in Live(req[p].name) /\ user[req[p].account].role = req[p].role
      BY <1>0, <3>1 DEF AsRead, Live
    <3>3. \A u \in Live(req[p].name) : u = req[p].account
      BY <3>1, TheLiveOne DEF AsRead
    <3> QED BY <1>0, <1>4, <3>1, <3>2, <3>3 DEF AsRead, Goto, TypeOK
  <2>2. UNCHANGED <<user, ledger, deletedAt, deletions>>
    BY <1>4 DEF WriteFirst, history
  <2>3. Outcome(p)
    BY <1>1, <2>1, <2>2 DEF Outcome, Untouched, Moves, Alike
  <2> QED BY <1>1, <2>2, <2>3, QuietAccounted
<1> QED BY <1>3, <1>4 DEF WriteFirst

LEMMA WriteSecondAccounted ==
  ASSUME AdminAssumption, Accounted, NEW p \in Requests, UnderWay(p), WriteSecond(p), IInv'
  PROVE  Accounted'
<1>0. /\ TypeOK /\ req[p].account \in Accounts /\ req[p].column \in Columns
      /\ user[req[p].account] \in User /\ ledger[req[p].account] \in User
      /\ NameOf[req[p].account] = req[p].name /\ OneLive /\ Ages
  BY StepGround
<1>1. Moves(p)
  BY <1>0 DEF WriteSecond, Acknowledge, Goto, Moves, TypeOK
<1>2. Untouched(req[p].name) => Written(p)
  BY StepGround DEF Stage, WriteSecond, IsPair
<1>3. UNCHANGED <<deletedAt, deletions, req>>
  BY DEF WriteSecond
<1>4. CASE /\ Set(req[p].account, req[p].column, req[p].next)
           /\ Acknowledge(p, [ledger[req[p].account] EXCEPT ![req[p].column] = req[p].next])
  <2>1. /\ \A v \in Accounts : user'[v].life = user[v].life
        /\ \A v \in Accounts \ {req[p].account} : user'[v] = user[v]
        /\ user'[req[p].account] = [user[req[p].account] EXCEPT ![req[p].column] = req[p].next]
    BY <1>0, <1>4, SetColumn
  <2>2. /\ ledger'[req[p].account] = [ledger[req[p].account] EXCEPT ![req[p].column] = req[p].next]
        /\ \A v \in Accounts \ {req[p].account} : ledger'[v] = ledger[v]
    BY <1>0, <1>4 DEF Acknowledge, TypeOK
  <2>3. Local(req[p].name) /\ OneLive' /\ Ages'
    BY <1>0, <1>3, <2>1, <2>2, OneLiveKept DEF Local, Ages
  <2>4. ASSUME Written(p) PROVE user'[req[p].account] = ledger'[req[p].account]
    <3>1. user[req[p].account] = [ledger[req[p].account] EXCEPT ![req[p].column] = req[p].next]
      BY <2>4 DEF Written, Differs
    <3> QED BY <1>0, <2>1, <2>2, <3>1 DEF User, Columns
  <2>5. pc'[p] = "ok"
    BY <1>0, <1>4 DEF Acknowledge, Goto, TypeOK
  <2>6. ASSUME Untouched(req[p].name), NEW u \in Accounts, NameOf[u] = req[p].name
        PROVE  user'[u] = ledger'[u]
    BY <1>0, <1>2, <2>1, <2>2, <2>4, <2>6 DEF Written, Differs
  <2>7. Outcome(p)
    BY <1>1, <2>5, <2>6 DEF Outcome, Untouched, Moves
  <2> QED BY <1>1, <2>3, <2>7, StepAccounted
<1>5. CASE /\ UNCHANGED <<user, ledger>>
           /\ \/ Goto(p, "undoRead")
              \/ /\ Goto(p, "recheck2")
                 /\ ~(user[req[p].account].life = "live" /\ user[req[p].account].role = Expected(p))
  <2>1. ASSUME Untouched(req[p].name) PROVE Stage(p)' /\ pc'[p] = "undoRead"
    <3>1. Written(p) /\ IsPair(p)
      BY <1>2, <2>1 DEF WriteSecond
    <3>2. pc'[p] = "undoRead"
      BY <1>0, <1>5, <3>1 DEF Written, Goto, TypeOK
    <3>3. Written(p)' /\ IsPair(p)'
      BY <1>3, <1>5, <3>1 DEF Written, Differs, Expected, IsPair
    <3> QED BY <3>2, <3>3 DEF Stage
  <2>2. Outcome(p)
    BY <1>1, <2>1 DEF Outcome, Untouched, Moves
  <2> QED BY <1>1, <1>3, <1>5, <2>2, QuietAccounted
<1> QED BY <1>4, <1>5 DEF WriteSecond

\* Where nobody met no update misses its row.
LEMMA RecheckAccounted ==
  ASSUME AdminAssumption, Accounted, NEW p \in Requests, UnderWay(p), Recheck(p), IInv'
  PROVE  Accounted'
<1>0. /\ TypeOK /\ req[p].account \in Accounts
      /\ NameOf[req[p].account] = req[p].name /\ OneLive /\ Ages
  BY StepGround
<1>1. Moves(p)
  BY <1>0 DEF Recheck, Acknowledge, Fails, Goto, Moves, TypeOK, history
<1>2. ~Untouched(req[p].name)
  BY StepGround DEF Stage, Recheck
<1>3. UNCHANGED <<user, deletedAt, deletions>>
  BY DEF Recheck, Fails
<1>4. \A v \in Accounts \ {req[p].account} : ledger'[v] = ledger[v]
  BY <1>0 DEF Recheck, Acknowledge, Fails, TypeOK, history
<1>5. Local(req[p].name) /\ OneLive' /\ Ages'
  BY <1>0, <1>3, <1>4 DEF Local, OneLive, Ages
<1>6. Outcome(p)
  BY <1>1, <1>2 DEF Outcome, Untouched, Moves
<1> QED BY <1>1, <1>5, <1>6, StepAccounted

LEMMA UndoReadAccounted ==
  ASSUME AdminAssumption, Accounted, NEW p \in Requests, UnderWay(p), UndoRead(p), IInv'
  PROVE  Accounted'
<1>0. TypeOK /\ req[p].account \in Accounts /\ NameOf[req[p].account] = req[p].name
      /\ req[p].column \in Columns /\ ledger[req[p].account] \in User
  BY StepGround
<1>1. CASE GivesUp(p, "failed")
  BY <1>1, GivesUpAccounted
<1>2. CASE ~GivesUp(p, "failed")
  <2>1. /\ Goto(p, IF \E u \in Live(req[p].name) : user[u][req[p].column] = req[p].next
                   THEN "undoWrite" ELSE "failed")
        /\ UNCHANGED <<user, deletedAt, deletions, history, req>>
    BY <1>2 DEF UndoRead
  <2>2. Moves(p)
    BY <1>0, <2>1 DEF Goto, Moves, TypeOK, history
  <2>3. ASSUME Untouched(req[p].name) PROVE Stage(p)' /\ pc'[p] = "undoWrite"
    <3>1. Written(p) /\ IsPair(p)
      BY <2>3, StepGround DEF Stage, UndoRead, IsPair
    <3>2. user[req[p].account][req[p].column] = req[p].next
      BY <1>0, <3>1 DEF Written, Differs, User, Columns
    <3>3. req[p].account \in Live(req[p].name)
      BY <1>0, <3>1 DEF Written, Live
    <3>4. pc'[p] = "undoWrite"
      BY <1>0, <2>1, <3>2, <3>3 DEF Goto, TypeOK
    <3>5. Written(p)' /\ IsPair(p)'
      BY <2>1, <3>1 DEF Written, Differs, Expected, IsPair, history
    <3> QED BY <3>4, <3>5 DEF Stage
  <2>4. Outcome(p)
    BY <2>2, <2>3 DEF Outcome, Untouched, Moves
  <2> QED BY <2>1, <2>2, <2>4, QuietAccounted DEF history
<1> QED BY <1>1, <1>2

LEMMA UndoWriteAccounted ==
  ASSUME AdminAssumption, Accounted, NEW p \in Requests, UnderWay(p), UndoWrite(p), IInv'
  PROVE  Accounted'
<1>0. /\ TypeOK /\ req[p].account \in Accounts /\ req[p].column \in Columns
      /\ ledger[req[p].account] \in User
      /\ NameOf[req[p].account] = req[p].name /\ OneLive /\ Ages
  BY StepGround
<1>1. CASE GivesUp(p, "failed")
  BY <1>1, GivesUpAccounted
<1>2. CASE ~GivesUp(p, "failed")
  <2>1. /\ IF Live(req[p].name) = {} THEN UNCHANGED user
           ELSE \E u \in Live(req[p].name) : Set(u, req[p].column, req[p].before)
        /\ Goto(p, "failed")
        /\ UNCHANGED <<deletedAt, deletions, history, req>>
    BY <1>2 DEF UndoWrite
  <2>2. Moves(p) /\ pc'[p] = "failed"
    BY <1>0, <2>1 DEF Goto, Moves, TypeOK, history
  <2>3. Untouched(req[p].name) => Written(p)
    BY StepGround DEF Stage, UndoWrite, IsPair
  <2>4. CASE Live(req[p].name) = {} /\ UNCHANGED user
    <3>1. ~Untouched(req[p].name)
      BY <1>0, <2>3, <2>4 DEF Written, Live
    <3>2. Outcome(p)
      BY <2>2, <3>1 DEF Outcome, Untouched, Moves
    <3> QED BY <2>1, <2>2, <2>4, <3>2, QuietAccounted DEF history
  <2>5. CASE \E u \in Live(req[p].name) : Set(u, req[p].column, req[p].before)
    <3>1. PICK u \in Accounts : u \in Live(req[p].name) /\ Set(u, req[p].column, req[p].before)
      BY <2>5 DEF Live
    <3>2. NameOf[u] = req[p].name
      BY <3>1 DEF Live
    <3>3. /\ \A v \in Accounts : user'[v].life = user[v].life
          /\ \A v \in Accounts \ {u} : user'[v] = user[v]
          /\ user'[u] = [user[u] EXCEPT ![req[p].column] = req[p].before]
      BY <1>0, <3>1, SetColumn
    <3>4. Local(req[p].name) /\ OneLive' /\ Ages'
      BY <1>0, <2>1, <3>2, <3>3, OneLiveKept DEF Local, Ages, history
    <3>5. ASSUME Written(p), NEW v \in Accounts, NameOf[v] = req[p].name
          PROVE  user'[v] = ledger'[v]
      <4>1. u = req[p].account
        BY <3>1, <3>5, TheLiveOne DEF Written
      <4>2. /\ user[u] = [ledger[u] EXCEPT ![req[p].column] = req[p].next]
            /\ ledger[u][req[p].column] = req[p].before
            /\ ledger[u] \in User
        BY <1>0, <3>5, <4>1 DEF Written, Differs
      <4>3. user'[u] = ledger[u]
        BY <1>0, <3>3, <4>2, RowRestored
      <4>4. v # u => user'[v] = ledger[v]
        BY <3>2, <3>3, <3>5, <4>1 DEF Written, Differs
      <4> QED BY <2>1, <4>3, <4>4 DEF history
    <3>6. Outcome(p)
      BY <2>2, <2>3, <3>5 DEF Outcome, Untouched, Moves
    <3> QED BY <2>2, <3>4, <3>6, StepAccounted
  <2> QED BY <2>1, <2>4, <2>5
<1> QED BY <1>1, <1>2

-----------------------------------------------------------------------------
(* A delete and its undo. *)

\* A request that revives or removes an account, and goes on.
LEMMA LivesAccounted ==
  ASSUME AdminAssumption, Accounted, NEW p \in Requests, UnderWay(p), NEW where, Goto(p, where),
         IInv', NEW u \in Accounts, NameOf[u] = req[p].name,
         Remove(u) \/ (Revive(u) /\ Sql /\ ~NameTaken(u)), UNCHANGED <<history, req>>,
         Untouched(req[p].name) =>
           IF where \in {"idle", "ok", "failed"}
           THEN \A v \in Accounts : NameOf[v] = req[p].name => user'[v] = ledger'[v]
           ELSE Stage(p)'
  PROVE  Accounted'
<1>0. TypeOK /\ OneLive /\ Ages
  BY StepGround
<1>1. Moves(p) /\ pc'[p] = where
  BY <1>0 DEF Goto, Moves, TypeOK, history
<1>2. OneLive' /\ Ages' /\ \A v \in Accounts \ {u} : user'[v] = user[v] /\ deletedAt'[v] = deletedAt[v]
  BY <1>0, ReviveLives, RemoveLives
<1>3. Local(req[p].name)
  BY <1>2 DEF Local, history
<1>4. Outcome(p)
  BY <1>1 DEF Outcome, Untouched, history
<1> QED BY <1>1, <1>2, <1>3, <1>4, StepAccounted

\* A request that only goes on.
LEMMA GoesOnAccounted ==
  ASSUME AdminAssumption, Accounted, NEW p \in Requests, UnderWay(p), NEW where, Goto(p, where),
         IInv', UNCHANGED <<user, deletedAt, deletions, history, req>>,
         Untouched(req[p].name) =>
           IF where \in {"idle", "ok", "failed"} THEN Alike(req[p].name) ELSE Stage(p)'
  PROVE  Accounted'
<1>1. Moves(p) /\ pc'[p] = where
  BY StepGround DEF Goto, Moves, TypeOK, history
<1>2. Outcome(p)
  BY <1>1 DEF Outcome, Untouched, Alike, history
<1> QED BY <1>1, <1>2, QuietAccounted DEF history

\* What is so of rows and of the ledger stays so while they stay.
LEMMA QuietStage ==
  ASSUME NEW p \in Requests, UNCHANGED <<user, deletedAt, ledger, req>>
  PROVE  /\ AsRead(p) => AsRead(p)'
         /\ Removed(p) => Removed(p)'
         /\ Alike(req[p].name) => Alike(req[p].name)'
         /\ \A u \in Accounts : Revived(u) => Revived(u)'
BY DEF AsRead, Removed, Revived, Differs, Alike, IsPair

LEMMA DeleteFirstAccounted ==
  ASSUME AdminAssumption, Accounted, NEW p \in Requests, UnderWay(p), DeleteFirst(p), IInv'
  PROVE  Accounted'
<1>0. /\ TypeOK /\ req[p].account \in Accounts /\ ledger[req[p].account] \in User
      /\ NameOf[req[p].account] = req[p].name /\ OneLive /\ Ages
  BY StepGround
<1>1. Untouched(req[p].name) => AsRead(p)
  BY StepGround DEF Stage, DeleteFirst, IsPair
<1>2. CASE /\ \E u \in Live(req[p].name) : user[u].role = req[p].role /\ Remove(u)
           /\ Goto(p, IF Sql THEN "view" ELSE "write2")
  <2>1. PICK u \in Accounts : u \in Live(req[p].name) /\ Remove(u)
    BY <1>2 DEF Live
  <2>2. NameOf[u] = req[p].name
    BY <2>1 DEF Live
  <2>3. UNCHANGED <<history, req>>
    BY DEF DeleteFirst
  <2>4. ASSUME Untouched(req[p].name) PROVE Stage(p)'
    <3>1. AsRead(p)
      BY <1>1, <2>4
    <3>2. u = req[p].account
      BY <2>1, <3>1, TheLiveOne DEF AsRead
    <3>3. /\ user'[u] = [user[u] EXCEPT !.life = "deleted"]
          /\ \A v \in Accounts \ {u} : user'[v] = user[v]
          /\ \A v \in Accounts \ {u} : deletedAt'[v] < deletedAt'[u]
      BY <1>0, <2>1, RemoveLives
    <3>4. user[u] = ledger[u] /\ user[u].life = "live"
          /\ \A v \in Accounts \ {u} : NameOf[v] = NameOf[u] => user[v] = ledger[v]
      BY <1>0, <3>1, <3>2 DEF AsRead, Alike
    <3>5. Removed(p)'
      BY <2>3, <3>2, <3>3, <3>4 DEF Removed, Differs, history
    <3>6. pc'[p] \in {"view", "write2"} /\ req'[p].op = "delete"
      BY <1>0, <1>2, <2>3 DEF Goto, TypeOK, DeleteFirst
    <3> QED BY <3>5, <3>6 DEF Stage
  <2>5. PICK where \in {"view", "write2"} : Goto(p, where)
    BY <1>2
  <2> QED BY <2>1, <2>2, <2>3, <2>4, <2>5, LivesAccounted
<1>3. CASE Goto(p, "failed") /\ UNCHANGED <<user, deletedAt, deletions>>
  BY <1>1, <1>3, GoesOnAccounted DEF DeleteFirst, AsRead
<1> QED BY <1>2, <1>3 DEF DeleteFirst

LEMMA ViewDeletedAccounted ==
  ASSUME AdminAssumption, Accounted, NEW p \in Requests, UnderWay(p), ViewDeleted(p), IInv'
  PROVE  Accounted'
<1>1. CASE GivesUp(p, "failed")
  BY <1>1, GivesUpAccounted
<1>2. CASE Goto(p, "write2") /\ UNCHANGED <<user, deletedAt, deletions, history, req>>
  <2>1. ASSUME Untouched(req[p].name) PROVE Stage(p)'
    <3>1. req[p].op = "delete" /\ Removed(p)
      BY <2>1, StepGround DEF Stage, ViewDeleted
    <3>2. Removed(p)'
      BY <1>2, <3>1, QuietStage DEF history
    <3>3. pc'[p] = "write2"
      BY <1>2, StepGround DEF Goto, TypeOK
    <3> QED BY <1>2, <3>1, <3>2, <3>3 DEF Stage
  <2> QED BY <1>2, <2>1, GoesOnAccounted
<1> QED BY <1>1, <1>2 DEF ViewDeleted

LEMMA DeleteSecondAccounted ==
  ASSUME AdminAssumption, Accounted, NEW p \in Requests, UnderWay(p), DeleteSecond(p), IInv'
  PROVE  Accounted'
<1>0. /\ TypeOK /\ req[p].account \in Accounts /\ ledger[req[p].account] \in User
      /\ NameOf[req[p].account] = req[p].name
  BY StepGround
<1>1. ASSUME Untouched(req[p].name) PROVE Removed(p) /\ user[req[p].account].life # "live"
  <2>1. Removed(p)
    BY <1>1, StepGround DEF Stage, DeleteSecond, IsPair
  <2> QED BY <1>0, <2>1 DEF Removed, Differs, User
<1>2. CASE /\ UNCHANGED <<user, deletedAt, deletions, history, req>>
           /\ Goto(p, "write3") \/ Goto(p, "undo1")
  <2>1. ASSUME Untouched(req[p].name) PROVE Stage(p)'
    <3>1. Removed(p)'
      BY <1>1, <1>2, <2>1, QuietStage DEF history
    <3>2. pc'[p] \in {"write3", "undo1"} /\ req'[p].op = "delete"
      BY <1>0, <1>2 DEF Goto, TypeOK, DeleteSecond
    <3> QED BY <3>1, <3>2 DEF Stage
  <2>2. PICK where \in {"write3", "undo1"} : Goto(p, where)
    BY <1>2
  <2> QED BY <1>2, <2>1, <2>2, GoesOnAccounted
<1>3. CASE /\ user[req[p].account].life = "live" /\ Remove(req[p].account)
           /\ Goto(p, "write3") /\ UNCHANGED <<history, req>>
  BY <1>0, <1>1, <1>3, LivesAccounted
<1> QED BY <1>2, <1>3 DEF DeleteSecond, Fails

LEMMA DeleteThirdAccounted ==
  ASSUME AdminAssumption, Accounted, NEW p \in Requests, UnderWay(p), DeleteThird(p), IInv'
  PROVE  Accounted'
<1>0. /\ TypeOK /\ req[p].account \in Accounts /\ ledger[req[p].account] \in User
      /\ NameOf[req[p].account] = req[p].name /\ OneLive /\ Ages
  BY StepGround
<1>1. ASSUME Untouched(req[p].name) PROVE Removed(p) /\ req[p].op = "delete"
  BY <1>1, StepGround DEF Stage, DeleteThird, IsPair
<1>2. CASE Fails(p, "undo2")
  <2>1. ASSUME Untouched(req[p].name) PROVE Stage(p)'
    <3>1. Removed(p)'
      BY <1>1, <1>2, <2>1, QuietStage DEF history, Fails
    <3>2. pc'[p] = "undo2" /\ req'[p].op = "delete"
      BY <1>0, <1>1, <1>2, <2>1 DEF Goto, TypeOK, Fails
    <3> QED BY <3>1, <3>2 DEF Stage
  <2> QED BY <1>2, <2>1, GoesOnAccounted DEF Fails
<1>3. CASE /\ Acknowledge(p, [ledger[req[p].account] EXCEPT !.life = "deleted"])
           /\ UNCHANGED <<user, deletedAt, deletions, contested, broken, req>>
  <2>1. Moves(p) /\ pc'[p] = "ok"
    BY <1>0, <1>3 DEF Acknowledge, Goto, Moves, TypeOK
  <2>2. /\ ledger'[req[p].account] = [ledger[req[p].account] EXCEPT !.life = "deleted"]
        /\ \A v \in Accounts \ {req[p].account} : ledger'[v] = ledger[v]
    BY <1>0, <1>3 DEF Acknowledge, TypeOK
  <2>3. Local(req[p].name) /\ OneLive' /\ Ages'
    BY <1>0, <1>3, <2>2 DEF Local, OneLive, Ages
  <2>4. Outcome(p)
    BY <1>0, <1>1, <1>3, <2>1, <2>2 DEF Outcome, Untouched, Removed, Differs
  <2> QED BY <2>1, <2>3, <2>4, StepAccounted
<1> QED BY <1>2, <1>3 DEF DeleteThird

\* undo2 revives the account by uuid, undo1 the newest deleted one of the name.
LEMMA UndoDeleteAccounted ==
  ASSUME AdminAssumption, Sql, Accounted, NEW p \in Requests, UnderWay(p), UndoDelete(p), IInv'
  PROVE  Accounted'
<1> DEFINE candidates == IF pc[p] = "undo2" THEN {req[p].account} \cap Deleted(req[p].name)
                         ELSE NewestDeleted(req[p].name)
           after == IF pc[p] = "undo2" THEN "undo1" ELSE "failed"
<1>0. /\ TypeOK /\ req[p].account \in Accounts /\ ledger[req[p].account] \in User
      /\ NameOf[req[p].account] = req[p].name /\ OneLive /\ Ages
  BY StepGround
<1>1. \A u \in candidates : u \in Deleted(req[p].name)
  BY DEF NewestDeleted
<1>2. \/ /\ IF candidates = {} THEN UNCHANGED <<user, deletedAt, deletions>>
            ELSE \E u \in candidates : ~NameTaken(u) /\ Revive(u)
         /\ Goto(p, after)
         /\ UNCHANGED <<history, req>>
      \/ GivesUp(p, after)
  BY DEF UndoDelete
<1>3. req[p].op = "delete"
  BY DEF UndoDelete
<1>4. ASSUME Removed(p) PROVE candidates = {req[p].account}
  <2>1. user[req[p].account].life = "deleted"
    BY <1>0, <1>4 DEF Removed, Differs, User
  <2>2. req[p].account \in Deleted(req[p].name)
    BY <1>0, <2>1 DEF Deleted
  <2>3. deletedAt \in [Accounts -> Nat]
    BY <1>0 DEF TypeOK
  <2>4. \A v \in Deleted(req[p].name) \ {req[p].account} : deletedAt[v] < deletedAt[req[p].account]
    BY <1>0, <1>4 DEF Removed, Deleted
  <2>5. NewestDeleted(req[p].name) = {req[p].account}
    <3>1. \A v \in Deleted(req[p].name) : deletedAt[v] <= deletedAt[req[p].account]
      BY <1>0, <2>3, <2>4 DEF Deleted
    <3>2. \A v \in NewestDeleted(req[p].name) : v = req[p].account
      BY <2>2, <2>3, <2>4 DEF NewestDeleted, Deleted
    <3> QED BY <2>2, <3>1, <3>2 DEF NewestDeleted
  <2> QED BY <2>2, <2>5
<1>5. Untouched(req[p].name) =>
        \/ Removed(p)
        \/ pc[p] = "undo1" /\ user[req[p].account].life = "live" /\ Alike(req[p].name)
  BY <1>3, StepGround DEF Stage, UndoDelete, IsPair
<1>6. CASE GivesUp(p, after)
  <2> HIDE DEF after
  <2> QED BY <1>6, GivesUpAccounted
<1>7. CASE candidates = {} /\ UNCHANGED <<user, deletedAt, deletions, history, req>> /\ Goto(p, after)
  <2>1. Untouched(req[p].name) => after = "failed" /\ Alike(req[p].name)
    BY <1>4, <1>5, <1>7
  <2> HIDE DEF after, candidates
  <2> QED BY <1>7, <2>1, GoesOnAccounted
<1>8. CASE /\ \E u \in candidates : ~NameTaken(u) /\ Revive(u)
           /\ Goto(p, after) /\ UNCHANGED <<history, req>>
  <2>1. PICK u \in candidates : ~NameTaken(u) /\ Revive(u)
    BY <1>8
  <2>2. u \in Accounts /\ NameOf[u] = req[p].name
    BY <1>1, <2>1 DEF Deleted
  <2>3. ASSUME Untouched(req[p].name)
        PROVE /\ \A v \in Accounts : NameOf[v] = req[p].name => user'[v] = ledger'[v]
              /\ user'[req[p].account].life = "live"
    <3>1. Removed(p)
      <4>1. ASSUME user[req[p].account].life = "live" PROVE FALSE
        <5>1. user[u].life = "deleted"
          BY <1>1, <2>1 DEF Deleted
        <5>2. req[p].account \in Live(NameOf[u]) \ {u}
          BY <1>0, <2>2, <4>1, <5>1 DEF Live
        <5> QED BY <2>1, <5>2 DEF NameTaken
      <4> QED BY <1>5, <2>3, <4>1
    <3>2. u = req[p].account
      BY <1>4, <2>1, <3>1
    <3>3. /\ user'[u] = [user[u] EXCEPT !.life = "live"]
          /\ \A v \in Accounts \ {u} : user'[v] = user[v]
      BY <1>0, <2>1, <2>2, ReviveLives
    <3>4. /\ user[u] = [ledger[u] EXCEPT !.life = "deleted"] /\ ledger[u].life = "live"
          /\ ledger[u] \in User
          /\ \A v \in Accounts \ {u} : NameOf[v] = NameOf[u] => user[v] = ledger[v]
      BY <1>0, <3>1, <3>2 DEF Removed, Differs
    <3>5. user'[u] = ledger[u]
      <4>1. [[ledger[u] EXCEPT !.life = "deleted"] EXCEPT !.life = ledger[u].life] = ledger[u]
        BY <3>4, RowRestored
      <4> QED BY <3>3, <3>4, <4>1
    <3> QED BY <1>8, <2>2, <3>2, <3>3, <3>4, <3>5 DEF history
  <2>4. ASSUME Untouched(req[p].name), after = "undo1" PROVE Stage(p)'
    <3>1. pc'[p] = "undo1" /\ req'[p] = req[p]
      BY <1>0, <1>8, <2>4 DEF Goto, TypeOK
    <3>2. Alike(req[p].name)' /\ user'[req'[p].account].life = "live"
      BY <2>3, <2>4, <3>1 DEF Alike
    <3> QED BY <1>3, <3>1, <3>2 DEF Stage
  <2>5. after \in {"undo1", "failed"}
    OBVIOUS
  <2> HIDE DEF after, candidates
  <2> QED BY <1>8, <2>1, <2>2, <2>3, <2>4, <2>5, LivesAccounted
<1> QED BY <1>2, <1>6, <1>7, <1>8

-----------------------------------------------------------------------------
(* A restore and its undo. *)

LEMMA CheckLiveAccounted ==
  ASSUME AdminAssumption, Accounted, NEW p \in Requests, UnderWay(p), CheckLive(p), IInv'
  PROVE  Accounted'
<1>1. /\ UNCHANGED <<user, deletedAt, deletions, history, req>>
      /\ Goto(p, "write1") \/ Goto(p, "failed")
  BY DEF CheckLive, Fails
<1>2. ASSUME Untouched(req[p].name)
      PROVE  user[req[p].account].life = "deleted" /\ Alike(req[p].name) /\ req[p].op = "restore"
  BY <1>2, StepGround DEF Stage, CheckLive
<1>3. ASSUME Untouched(req[p].name), Goto(p, "write1") PROVE Stage(p)'
  <2>1. pc'[p] = "write1"
    BY <1>3, StepGround DEF Goto, TypeOK
  <2> QED BY <1>1, <1>2, <1>3, <2>1, QuietStage DEF Stage, history
<1> QED BY <1>1, <1>2, <1>3, GoesOnAccounted

LEMMA RestoreFirstAccounted ==
  ASSUME AdminAssumption, Sql, Accounted, NEW p \in Requests, UnderWay(p), RestoreFirst(p), IInv'
  PROVE  Accounted'
<1>0. /\ TypeOK /\ req[p].account \in Accounts
      /\ NameOf[req[p].account] = req[p].name /\ OneLive /\ Ages
  BY StepGround
<1>1. ASSUME Untouched(req[p].name)
      PROVE  user[req[p].account].life = "deleted" /\ Alike(req[p].name)
  BY <1>1, StepGround DEF Stage, RestoreFirst, IsPair
<1>2. UNCHANGED <<history, req>> /\ req[p].op = "restore"
  BY DEF RestoreFirst
<1>3. CASE Goto(p, "failed") /\ UNCHANGED <<user, deletedAt, deletions>>
  BY <1>1, <1>2, <1>3, GoesOnAccounted
<1>4. CASE Goto(p, "write2") /\ Deleted(req[p].name) = {} /\ UNCHANGED <<user, deletedAt, deletions>>
  <2>1. ~Untouched(req[p].name)
    BY <1>0, <1>1, <1>4 DEF Deleted
  <2> QED BY <1>2, <1>4, <2>1, GoesOnAccounted
<1>5. CASE Goto(p, "write2") /\ \E u \in NewestDeleted(req[p].name) : ~NameTaken(u) /\ Revive(u)
  <2>1. PICK u \in NewestDeleted(req[p].name) : ~NameTaken(u) /\ Revive(u)
    BY <1>5
  <2>2. u \in Accounts /\ NameOf[u] = req[p].name /\ user[u].life = "deleted"
    BY DEF NewestDeleted, Deleted
  <2>3. ASSUME Untouched(req[p].name) PROVE Stage(p)'
    <3>1. /\ user'[u] = [user[u] EXCEPT !.life = "live"]
          /\ \A v \in Accounts \ {u} : user'[v] = user[v]
      BY <1>0, <2>1, <2>2, ReviveLives
    <3>2. Revived(u)'
      BY <1>1, <1>2, <2>2, <2>3, <3>1 DEF Revived, Differs, Alike, history
    <3>3. pc'[p] = "write2"
      BY <1>0, <1>5 DEF Goto, TypeOK
    <3>4. ledger'[req[p].account].life = "deleted"
      BY <1>0, <1>1, <1>2, <2>3 DEF Alike, history
    <3> QED BY <1>2, <2>2, <3>2, <3>3, <3>4 DEF Stage
  <2> QED BY <1>2, <1>5, <2>1, <2>2, <2>3, LivesAccounted
<1> QED BY <1>3, <1>4, <1>5 DEF RestoreFirst

LEMMA RestoreSecondAccounted ==
  ASSUME AdminAssumption, Sql, Accounted, NEW p \in Requests, UnderWay(p), RestoreSecond(p), IInv'
  PROVE  Accounted'
<1>0. /\ TypeOK /\ req[p].account \in Accounts
      /\ NameOf[req[p].account] = req[p].name
  BY StepGround
<1>1. ASSUME Untouched(req[p].name)
      PROVE  /\ ledger[req[p].account].life = "deleted"
             /\ \E u \in Accounts : NameOf[u] = req[p].name /\ Revived(u)
  BY <1>1, StepGround DEF Stage, RestoreSecond, IsPair
<1>2. UNCHANGED <<history, req>> /\ req[p].op = "restore"
  BY DEF RestoreSecond
\* Another account than that of the request was revived: its name is taken.
<1>3. ASSUME NEW u \in Accounts, NameOf[u] = req[p].name, Revived(u), u # req[p].account
      PROVE  NameTaken(req[p].account)
  <2>1. user[u].life = "live"
    BY <1>0, <1>3 DEF Revived, Differs, TypeOK, User
  <2> QED BY <1>0, <1>3, <2>1 DEF NameTaken, Live
<1>4. CASE Goto(p, "undo1") /\ UNCHANGED <<user, deletedAt, deletions>>
  <2>1. ASSUME Untouched(req[p].name) PROVE Stage(p)'
    <3>1. PICK u \in Accounts : NameOf[u] = req[p].name /\ Revived(u)
      BY <1>1, <2>1
    <3>2. Revived(u)'
      BY <1>2, <1>4, <3>1, QuietStage DEF history
    <3>3. pc'[p] = "undo1"
      BY <1>0, <1>4 DEF Goto, TypeOK
    <3> QED BY <1>1, <1>2, <2>1, <3>1, <3>2, <3>3 DEF Stage, history
  <2> QED BY <1>2, <1>4, <2>1, GoesOnAccounted
<1>5. CASE /\ user[req[p].account].life = "deleted" /\ ~NameTaken(req[p].account)
           /\ Revive(req[p].account) /\ Goto(p, "duplicates")
  <2>1. ~Untouched(req[p].name)
    <3>1. ASSUME Untouched(req[p].name) PROVE FALSE
      <4>1. Revived(req[p].account)
        BY <1>1, <1>3, <1>5, <3>1
      <4>2. user[req[p].account].life = "live"
        BY <1>0, <4>1 DEF Revived, Differs, TypeOK, User
      <4> QED BY <1>5, <4>2
    <3> QED BY <3>1
  <2> QED BY <1>0, <1>2, <1>5, <2>1, LivesAccounted
<1>6. CASE /\ user[req[p].account].life # "deleted" /\ UNCHANGED <<user, deletedAt, deletions>>
           /\ Goto(p, "duplicates")
  <2>1. ASSUME Untouched(req[p].name) PROVE Stage(p)'
    <3>1. PICK u \in Accounts : NameOf[u] = req[p].name /\ Revived(u)
      BY <1>1, <2>1
    <3>2. u = req[p].account
      <4>1. ASSUME u # req[p].account PROVE FALSE
        <5>1. user[req[p].account] = ledger[req[p].account]
          BY <1>0, <3>1, <4>1 DEF Revived, Differs
        <5> QED BY <1>1, <1>6, <2>1, <5>1
      <4> QED BY <4>1
    <3>3. Revived(u)' /\ req' = req
      BY <1>2, <1>6, <3>1, QuietStage DEF history
    <3>4. pc'[p] = "duplicates"
      BY <1>0, <1>6 DEF Goto, TypeOK
    <3> QED BY <1>1, <1>2, <2>1, <3>1, <3>2, <3>3, <3>4 DEF Stage, history
  <2> QED BY <1>2, <1>6, <2>1, GoesOnAccounted
<1> QED BY <1>4, <1>5, <1>6 DEF RestoreSecond

LEMMA RemoveDuplicatesAccounted ==
  ASSUME AdminAssumption, Accounted, NEW p \in Requests, UnderWay(p), RemoveDuplicates(p), IInv'
  PROVE  Accounted'
<1> DEFINE n == req[p].name
           Erase(table) == [u \in Accounts |-> IF u \in Deleted(n)
                                               THEN [table[u] EXCEPT !.life = "gone"]
                                               ELSE table[u]]
           restored == [ledger EXCEPT ![req[p].account].life = "live"]
<1>0. /\ TypeOK /\ req[p].account \in Accounts
      /\ NameOf[req[p].account] = n /\ OneLive /\ Ages
      /\ user \in [Accounts -> User] /\ ledger \in [Accounts -> User]
  BY StepGround DEF TypeOK
<1>1. /\ \/ user' = Erase(user) /\ ledger' = Erase(restored)
         \/ UNCHANGED user /\ ledger' = restored
      /\ Goto(p, "ok") /\ UNCHANGED <<deletedAt, deletions, contested, broken, req>>
  BY DEF RemoveDuplicates
<1>2. Moves(p) /\ pc'[p] = "ok"
  BY <1>0, <1>1 DEF Goto, Moves, TypeOK
<1>3. \A u \in Accounts \ {req[p].account} : restored[u] = ledger[u]
  BY <1>0
<1>4. \A u \in Deleted(n) : NameOf[u] = n
  BY DEF Deleted
<1>5. Local(n)
  BY <1>0, <1>1, <1>3, <1>4 DEF Local
<1>6. OneLive' /\ Ages'
  <2>1. \A u \in Accounts : user'[u].life = "live" => user[u].life = "live"
    BY <1>0, <1>1 DEF User
  <2> QED BY <1>0, <1>1, <2>1, OneLiveKept DEF Ages
<1>7. ASSUME Untouched(n), NEW u \in Accounts, NameOf[u] = n PROVE restored[u] = user[u]
  <2>1. Revived(req[p].account)
    BY <1>7, StepGround DEF Stage, RemoveDuplicates
  <2>2. CASE u = req[p].account
    BY <1>0, <2>1, <2>2 DEF Revived, Differs
  <2>3. CASE u # req[p].account
    BY <1>0, <1>3, <1>7, <2>1, <2>3 DEF Revived, Differs
  <2> QED BY <2>2, <2>3
<1>8. ASSUME Untouched(n), NEW u \in Accounts, NameOf[u] = n PROVE user'[u] = ledger'[u]
  <2>1. restored[u] = user[u]
    BY <1>7, <1>8
  <2> HIDE DEF restored
  <2> QED BY <1>1, <2>1
<1>9. Outcome(p)
  BY <1>1, <1>2, <1>8 DEF Outcome, Untouched
<1> QED BY <1>2, <1>5, <1>6, <1>9, StepAccounted

LEMMA UndoRestoreAccounted ==
  ASSUME AdminAssumption, Accounted, NEW p \in Requests, UnderWay(p), UndoRestore(p), IInv'
  PROVE  Accounted'
<1>0. /\ TypeOK /\ req[p].account \in Accounts /\ OneLive /\ Ages /\ ledger \in [Accounts -> User]
  BY StepGround DEF TypeOK
<1>1. ASSUME Untouched(req[p].name)
      PROVE  \E u \in Accounts : NameOf[u] = req[p].name /\ Revived(u)
  BY <1>1, StepGround DEF Stage, UndoRestore, IsPair
<1>2. ASSUME NEW u \in Accounts, Revived(u) PROVE user[u].life = "live"
  BY <1>0, <1>2 DEF Revived, Differs, User
<1>3. CASE GivesUp(p, "failed")
  BY <1>3, GivesUpAccounted
<1>4. CASE /\ Live(req[p].name) = {} /\ UNCHANGED <<user, deletedAt, deletions, history, req>>
           /\ Goto(p, "failed")
  <2>1. ~Untouched(req[p].name)
    BY <1>1, <1>2, <1>4 DEF Live
  <2> QED BY <1>4, <2>1, GoesOnAccounted
<1>5. CASE /\ \E u \in Live(req[p].name) : Remove(u)
           /\ UNCHANGED <<history, req>> /\ Goto(p, "failed")
  <2>1. PICK u \in Live(req[p].name) : Remove(u)
    BY <1>5
  <2>2. u \in Accounts /\ NameOf[u] = req[p].name /\ user[u].life = "live"
    BY DEF Live
  <2>3. ASSUME Untouched(req[p].name), NEW v \in Accounts, NameOf[v] = req[p].name
        PROVE  user'[v] = ledger'[v]
    <3>1. Revived(u)
      BY <1>0, <1>1, <1>2, <2>2, <2>3 DEF OneLive
    <3>2. /\ user'[u] = [user[u] EXCEPT !.life = "deleted"]
          /\ \A w \in Accounts \ {u} : user'[w] = user[w]
      BY <1>0, <2>1, <2>2, RemoveLives
    <3>3. user'[u] = ledger[u]
      <4>1. [[ledger[u] EXCEPT !.life = "live"] EXCEPT !.life = ledger[u].life] = ledger[u]
        BY <1>0, <2>2, RowRestored
      <4> QED BY <3>1, <3>2, <4>1 DEF Revived, Differs
    <3> QED BY <1>5, <2>2, <2>3, <3>1, <3>2, <3>3 DEF Revived, Differs, history
  <2> QED BY <1>5, <2>1, <2>2, <2>3, LivesAccounted
<1> QED BY <1>3, <1>4, <1>5 DEF UndoRestore

-----------------------------------------------------------------------------
(* Requests that begin, registrations and the purge. *)

\* Where a request begins and nobody is met, nobody is there.
LEMMA StartAccounted ==
  ASSUME AdminAssumption, Accounted, IInv', NEW p \in Requests, NEW u \in Accounts,
         NEW op, NEW caller, NEW column, NEW next, NEW where,
         Start(p, Snapshot(u, op, caller, column, next), where),
         \/ where = "write1" /\ op # "restore" /\ user[u].life = "live"
         \/ where = "live" /\ op = "restore" /\ user[u].life = "deleted"
  PROVE  Accounted'
<1> DEFINE r == Snapshot(u, op, caller, column, next)
<1>0. TypeOK /\ OneLive /\ Ages /\ Named /\ Alone /\ Settled /\ Staged /\ NameOf[u] \in Names
  BY AdminAssumption DEF Accounted, IInv
<1>1. /\ pc[p] = "idle" /\ pc'[p] = where /\ req'[p] = r
      /\ \A q \in Requests \ {p} : pc'[q] = pc[q] /\ req'[q] = req[q]
      /\ UNCHANGED <<user, deletedAt, deletions, ledger, broken>>
  BY <1>0 DEF Start, Goto, TypeOK
<1>2. r.op = op /\ r.name = NameOf[u] /\ r.account = u /\ r.role = user[u].role
      /\ r.column = column /\ r.before = user[u][column]
  BY DEF Snapshot
<1>3. /\ contested \subseteq contested'
      /\ (\E q \in Requests : UnderWay(q) /\ req[q].name = NameOf[u]) => NameOf[u] \in contested'
  BY <1>2 DEF Start, Meet
<1>4. \A n : Untouched(n)' => Untouched(n)
  BY <1>1, <1>3 DEF Untouched
<1> HIDE DEF r
<1>5. OneLive' /\ Ages'
  BY <1>0, <1>1 DEF OneLive, Ages
<1>6. Named'
  BY <1>0, <1>1, <1>2 DEF Named, UnderWay
<1>7. Alone'
  BY <1>0, <1>1, <1>2, <1>3 DEF Alone, UnderWay
<1>8. Settled'
  <2> SUFFICES ASSUME NEW n \in Names, Untouched(n)',
                      \A q \in Requests : UnderWay(q)' => req'[q].name # n
               PROVE  Alike(n)'
    BY DEF Settled
  <2>1. \A q \in Requests : UnderWay(q) => req[q].name # n
    BY <1>1 DEF UnderWay
  <2>2. Alike(n)
    BY <1>0, <1>4, <2>1 DEF Settled
  <2> QED BY <1>1, <2>2 DEF Alike
<1>9. Staged'
  <2> SUFFICES ASSUME NEW q \in Requests, UnderWay(q)', Untouched(req[q].name)' PROVE Stage(q)'
    BY DEF Staged
  <2>1. CASE q = p
    <3>1. \A v \in Requests : UnderWay(v) => req[v].name # NameOf[u]
      BY <1>1, <1>2, <1>3, <2>1 DEF Untouched
    <3>2. Alike(NameOf[u])
      BY <1>0, <1>1, <1>2, <1>4, <2>1, <3>1 DEF Settled
    <3>3. Alike(req[p].name)'
      BY <1>1, <1>2, <3>2 DEF Alike
    <3>4. user'[req'[p].account].life = user[u].life /\ req'[p].op = op
      BY <1>1, <1>2
    <3>5. user[u].life = "live" => AsRead(p)'
      BY <1>1, <1>2, <3>3 DEF AsRead
    <3> QED BY <1>1, <2>1, <3>3, <3>4, <3>5 DEF Stage
  <2>2. CASE q # p
    <3>1. pc'[q] = pc[q] /\ req'[q] = req[q] /\ UnderWay(q)
      BY <1>1, <2>2 DEF UnderWay
    <3>2. Stage(q) /\ NameOf[req[q].account] = req[q].name /\ req[q].account \in Accounts
      BY <1>0, <1>4, <3>1, HeldType DEF Staged, Named, Accounted
    <3>3. req[q].name # NameOf[u]
      BY <1>3, <3>1 DEF Untouched
    <3>4. Local(NameOf[u])
      BY <1>1 DEF Local
    <3> QED BY <3>1, <3>2, <3>3, <3>4, StageKept
  <2> QED BY <2>1, <2>2
<1> QED BY <1>5, <1>6, <1>7, <1>8, <1>9 DEF Accounted

LEMMA BeginAccounted ==
  ASSUME AdminAssumption, Accounted, NEW p \in Requests, Begin(p), IInv'
  PROVE  Accounted'
<1>1. ASSUME NEW n, NEW op, NEW caller, NEW column, NEW next, op # "restore",
             \E u \in Live(n) : Start(p, Snapshot(u, op, caller, column, next), "write1")
      PROVE  Accounted'
  BY <1>1, StartAccounted DEF Live
<1>2. CASE StartBan(p)
  BY <1>1, <1>2 DEF StartBan, Found
<1>3. CASE StartRole(p)
  BY <1>1, <1>3 DEF StartRole, Found
<1>4. CASE StartOwner(p)
  BY <1>1, <1>4 DEF StartOwner
<1>5. CASE StartDelete(p)
  BY <1>1, <1>5 DEF StartDelete, Found
<1>6. CASE StartRestore(p)
  BY <1>6, StartAccounted DEF StartRestore, NewestDeleted, Deleted
<1> QED BY <1>2, <1>3, <1>4, <1>5, <1>6 DEF Begin

\* A registration or the purge writes table and ledger alike.
LEMMA EventAccounted ==
  ASSUME AdminAssumption, Accounted, IInv', NEW u \in Accounts, Register(u) \/ Purge(u)
  PROVE  Accounted'
<1>0. /\ TypeOK /\ OneLive /\ Ages /\ Named /\ Alone /\ Settled /\ Staged /\ NameOf[u] \in Names
      /\ user \in [Accounts -> User] /\ ledger \in [Accounts -> User]
  BY AdminAssumption DEF Accounted, IInv, TypeOK
<1>1. PICK life \in {"live", "gone"} :
        /\ Set(u, "life", life) /\ ledger' = [ledger EXCEPT ![u].life = life]
        /\ life = "live" => Live(NameOf[u]) = {}
  BY DEF Register, Purge
<1>2. UNCHANGED <<deletedAt, deletions, broken, pc, req>> /\ Meet(NameOf[u])
  BY DEF Register, Purge
<1>3. /\ user'[u] = [user[u] EXCEPT !.life = life]
      /\ \A v \in Accounts \ {u} : user'[v] = user[v]
      /\ ledger'[u] = [ledger[u] EXCEPT !.life = life]
      /\ \A v \in Accounts \ {u} : ledger'[v] = ledger[v]
  BY <1>0, <1>1 DEF Set
<1>4. /\ contested \subseteq contested'
      /\ (\E q \in Requests : UnderWay(q) /\ req[q].name = NameOf[u]) => NameOf[u] \in contested'
  BY <1>2 DEF Meet
<1>5. \A n : Untouched(n)' => Untouched(n)
  BY <1>2, <1>4 DEF Untouched
<1>6. user'[u].life = life
  BY <1>0, <1>3 DEF User
<1>7. OneLive'
  BY <1>0, <1>1, <1>3, <1>6, ZenonT(60) DEF OneLive, Live
<1>8. Ages' /\ Named' /\ Alone'
  BY <1>0, <1>2, <1>4 DEF Ages, Named, Alone, UnderWay
<1>9. Settled'
  <2> SUFFICES ASSUME NEW n \in Names, Untouched(n)',
                      \A q \in Requests : UnderWay(q)' => req'[q].name # n
               PROVE  Alike(n)'
    BY DEF Settled
  <2>1. \A q \in Requests : UnderWay(q) => req[q].name # n
    BY <1>2 DEF UnderWay
  <2>2. Alike(n)
    BY <1>0, <1>5, <2>1 DEF Settled
  <2> QED BY <1>3, <2>2 DEF Alike
<1>10. Staged'
  <2> SUFFICES ASSUME NEW q \in Requests, UnderWay(q)', Untouched(req[q].name)' PROVE Stage(q)'
    BY DEF Staged
  <2>1. pc'[q] = pc[q] /\ req'[q] = req[q] /\ UnderWay(q)
    BY <1>2 DEF UnderWay
  <2>2. Stage(q) /\ NameOf[req[q].account] = req[q].name /\ req[q].account \in Accounts
    BY <1>0, <1>5, <2>1, HeldType DEF Staged, Named, Accounted
  <2>3. req[q].name # NameOf[u]
    BY <1>4, <2>1 DEF Untouched
  <2>4. Local(NameOf[u])
    BY <1>2, <1>3 DEF Local
  <2> QED BY <2>1, <2>2, <2>3, <2>4, StageKept
<1> QED BY <1>7, <1>8, <1>9, <1>10 DEF Accounted

-----------------------------------------------------------------------------
LEMMA StepKeepsAccounted ==
  ASSUME AdminAssumption, Sql, Accounted, NEW p \in Requests, Step(p), IInv'
  PROVE  Accounted'
<1>1. UnderWay(p)
  BY DEF UnderWay, Step, WriteFirst, WriteSecond, Recheck, UndoRead, UndoWrite, DeleteFirst,
     ViewDeleted, DeleteSecond, DeleteThird, CheckLive, RestoreFirst, RestoreSecond,
     RemoveDuplicates, UndoDelete, UndoRestore
<1> QED BY <1>1, WriteFirstAccounted, WriteSecondAccounted, RecheckAccounted, UndoReadAccounted,
           UndoWriteAccounted, DeleteFirstAccounted, ViewDeletedAccounted, DeleteSecondAccounted,
           DeleteThirdAccounted, CheckLiveAccounted, RestoreFirstAccounted,
           RestoreSecondAccounted, RemoveDuplicatesAccounted, UndoDeleteAccounted,
           UndoRestoreAccounted DEF Step

LEMMA InitAccounted == ASSUME AdminAssumption, Init PROVE Accounted
<1>1. IInv
  BY InitType, AdminAssumption
<1>2. OneLive
  BY DEF Init, OneLive
<1>3. Ages
  BY DEF Init, Ages
<1>4. \A p \in Requests : ~UnderWay(p)
  BY DEF Init, UnderWay
<1>5. Named /\ Alone /\ Staged
  BY <1>4 DEF Named, Alone, Staged
<1>6. Settled
  BY DEF Init, Settled, Alike
<1> QED BY <1>1, <1>2, <1>3, <1>5, <1>6 DEF Accounted

LEMMA NextAccounted ==
  ASSUME AdminAssumption, Sql, Accounted, [Next]_vars
  PROVE  Accounted'
<1>1. IInv'
  BY NextKeeps, AdminAssumption DEF Accounted
<1>2. CASE UNCHANGED vars
  <2>1. UNCHANGED <<user, deletedAt, deletions, pc, req, ledger, contested, broken>>
    BY <1>2 DEF vars, history
  <2>2. OneLive' /\ Ages' /\ Named' /\ Alone' /\ Settled'
    BY <2>1 DEF Accounted, OneLive, Ages, Named, Alone, Settled, Untouched, Alike, UnderWay
  <2>3. Staged'
    BY <2>1 DEF Accounted, Staged, Stage, Untouched, UnderWay, AsRead, Written, Removed, Revived,
       Differs, Alike, IsPair, Expected
  <2> QED BY <1>1, <2>2, <2>3 DEF Accounted
<1> QED BY <1>1, <1>2, BeginAccounted, StepKeepsAccounted, EventAccounted DEF Next

\* In the database a name at which no requests met and no undo was lost is, when
\* nothing is under way there, what the acknowledged requests made of it: what
\* failed on the way left no trace.
THEOREM SpecAllOrNothing == ASSUME Sql PROVE Spec => []AllOrNothing
<1>1. Init => Accounted
  BY InitAccounted, AdminAssumption
<1>2. Accounted /\ [Next]_vars => Accounted'
  BY NextAccounted, AdminAssumption, Sql
<1>3. Accounted => AllOrNothing
  BY AdminAssumption DEF Accounted, Settled, AllOrNothing, Alike, Untouched
<1> QED BY <1>1, <1>2, <1>3, PTL DEF Spec
=============================================================================
