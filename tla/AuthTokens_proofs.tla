-------------------------- MODULE AuthTokens_proofs --------------------------
(***************************************************************************)
(* For any number of requests and accounts, with either store.             *)
(***************************************************************************)
EXTENDS AuthTokens, NumberLemmas, TLAPS

LEMMA SecondType == \A n \in Nat : Second(n) \in Nat
BY AuthAssumption DEF Second

LEMMA BlankType == Blank \in Request
<1>1. (CHOOSE u \in Users : TRUE) \in Users
  BY AuthAssumption
<1> QED BY <1>1 DEF Blank, Request, Operations

\* The local variables a step may write keep their types; it leaves the
\* arguments of the request alone.
Alike(r) == {s \in Request : s.op = r.op /\ s.user = r.user /\ s.token = r.token
                             /\ s.epoch = r.epoch}

LEMMA RequestUpdate ==
  ASSUME NEW r \in Request
  PROVE  /\ r.op \in Operations /\ r.user \in Users /\ r.token \in Requests \cup {NoToken}
         /\ r.epoch \in Nat /\ r.begun \in Nat /\ r.stamp \in Nat /\ r.iat \in Nat
         /\ r.victims \subseteq Requests
         /\ r \in Alike(r)
         /\ \A n \in Nat : [r EXCEPT !.stamp = n] \in Alike(r) /\ [r EXCEPT !.iat = n] \in Alike(r)
         /\ \A S \in SUBSET Requests : [r EXCEPT !.victims = S] \in Alike(r)
         /\ \A n \in Nat : /\ [r EXCEPT !.epoch = n] \in Request
                           /\ [r EXCEPT !.epoch = n].op = r.op
                           /\ [r EXCEPT !.epoch = n].user = r.user
                           /\ [r EXCEPT !.epoch = n].token = r.token
                           /\ [r EXCEPT !.epoch = n].epoch = n
<1>1. \A n \in Nat : [r EXCEPT !.stamp = n] \in Alike(r) /\ [r EXCEPT !.iat = n] \in Alike(r)
  BY DEF Request, Alike
<1>2. \A S \in SUBSET Requests : [r EXCEPT !.victims = S] \in Alike(r)
  BY DEF Request, Alike
<1>3. \A n \in Nat : /\ [r EXCEPT !.epoch = n] \in Request
                     /\ [r EXCEPT !.epoch = n].op = r.op
                     /\ [r EXCEPT !.epoch = n].user = r.user
                     /\ [r EXCEPT !.epoch = n].token = r.token
                     /\ [r EXCEPT !.epoch = n].epoch = n
  BY DEF Request
<1>4. /\ r.op \in Operations /\ r.user \in Users /\ r.token \in Requests \cup {NoToken}
      /\ r.epoch \in Nat /\ r.begun \in Nat /\ r.stamp \in Nat /\ r.iat \in Nat
      /\ r.victims \subseteq Requests /\ r \in Alike(r)
  BY DEF Request, Alike
<1> QED BY <1>1, <1>2, <1>3, <1>4

\* A step moves the request that takes it and touches no other one.
Moves(p) ==
  /\ pc[p] \notin {"idle", "ok", "failed"}
  /\ \E w \in Pcs : pc' = [pc EXCEPT ![p] = w]
  /\ \E r \in Alike(req[p]) : req' = [req EXCEPT ![p] = r]
  /\ UNCHANGED passwords

\* A request begins.
Begins(p) ==
  /\ pc[p] = "idle"
  /\ \E w \in {"findUser", "stamp", "sign", "reset", "ok"} :
       /\ pc' = [pc EXCEPT ![p] = w]
       /\ \E r \in Request :
            /\ req' = [req EXCEPT ![p] = r]
            /\ r.epoch = epoch[r.user]  \/ r.op \in {"refresh", "invalidate"}
            /\ w = "findUser" <=> r.op = "refresh"
            /\ w = "stamp" <=> r.op = "change"
            /\ w = "reset" => r.op = "reset"
            /\ w \in {"stamp", "sign"} => r.op \notin {"refresh", "invalidate"}
            /\ r.op = "refresh" =>
                 /\ r.token \in Issued \cap stored
                 /\ r.user = req[r.token].user /\ r.epoch = req[r.token].epoch
            /\ w = "ok" => r.op = "invalidate"
  /\ UNCHANGED passwords

LEMMA EvictedType ==
  ASSUME TypeOK, NEW t \in Requests, NEW at PROVE Evicted(t, at) \subseteq Requests
BY DEF Evicted, TokensOf, TypeOK

LEMMA SavingType ==
  ASSUME TypeOK, RequestsGuarded, NEW p \in Requests
  PROVE  /\ Saving(p) \in Requests /\ AfterSave(p) \in {"failed", "replace", "ok"}
         /\ (pc[p] \in {"save", "commit"} => Saving(p) = p)
<1>1. CASE pc[p] \in {"restore", "restoreCommit"}
  <2>1. req[p].op = "refresh" /\ PresentsIssued(p)
    BY <1>1 DEF RequestsGuarded, StepsFit
  <2> QED BY <1>1, <2>1 DEF PresentsIssued, Saving, AfterSave
<1>2. CASE pc[p] \notin {"restore", "restoreCommit"}
  BY <1>2 DEF Saving, AfterSave
<1> QED BY <1>1, <1>2

LEMMA StartBegins ==
  ASSUME TypeOK, NEW p \in Requests, NEW op \in Operations, NEW u \in Users,
         NEW t \in Requests \cup {NoToken}, NEW e \in Nat,
         NEW where \in {"findUser", "stamp", "sign", "reset", "ok"},
         Start(p, op, u, t, e, where), UNCHANGED passwords,
         e = epoch[u] \/ op \in {"refresh", "invalidate"},
         where = "findUser" <=> op = "refresh", where = "stamp" <=> op = "change",
         where = "reset" => op = "reset",
         where \in {"stamp", "sign"} => op \notin {"refresh", "invalidate"},
         op = "refresh" => t \in Issued \cap stored /\ u = req[t].user /\ e = req[t].epoch,
         where = "ok" => op = "invalidate"
  PROVE  Begins(p)
<1> DEFINE r == [Blank EXCEPT !.op = op, !.user = u, !.token = t, !.epoch = e, !.begun = now]
<1>1. now \in Nat
  BY DEF TypeOK
<1>2. r \in Request /\ r.op = op /\ r.user = u /\ r.token = t /\ r.epoch = e
  <2>1. Blank \in Request
    BY BlankType
  <2> QED BY <1>1, <2>1 DEF Request
<1>3. req' = [req EXCEPT ![p] = r] /\ pc[p] = "idle" /\ pc' = [pc EXCEPT ![p] = where]
  BY DEF Start, Keep, Goto
<1> HIDE DEF r
<1> QED BY <1>2, <1>3 DEF Begins

LEMMA BeginBegins ==
  ASSUME TypeOK, NEW p \in Requests, Begin(p)
  PROVE  Begins(p)
<1> USE DEF Operations
<1>0. /\ \A u \in Users : epoch[u] \in Nat
      /\ \A t \in Issued : /\ t \in Requests /\ UserOf(t) \in Users /\ UserOf(t) = req[t].user
                           /\ req[t].epoch \in Nat
  BY RequestUpdate DEF TypeOK, Issued, UserOf
<1>1. CASE StartRegister(p)
  BY <1>0, <1>1, StartBegins DEF StartRegister
<1>2. CASE StartLogin(p)
  BY <1>0, <1>2, StartBegins DEF StartLogin
<1>3. CASE StartRefresh(p)
  BY <1>0, <1>3, StartBegins DEF StartRefresh
<1>4. CASE Invalidate(p)
  BY <1>0, <1>4, StartBegins DEF Invalidate
<1>5. CASE StartChange(p)
  BY <1>0, <1>5, StartBegins DEF StartChange
<1>6. CASE StartReset(p)
  BY <1>0, <1>6, StartBegins DEF StartReset
<1> QED BY <1>1, <1>2, <1>3, <1>4, <1>5, <1>6 DEF Begin

LEMMA StepMoves ==
  ASSUME TypeOK, RequestsGuarded, NEW p \in Requests, Step(p)
  PROVE  Moves(p) \/ Replace(p) \/ Reset(p)
<1> USE DEF Goto, Moves, Pcs
<1>0. req[p] \in Request /\ req[p] \in Alike(req[p]) /\ req = [req EXCEPT ![p] = req[p]]
  BY RequestUpdate DEF TypeOK
<1>1. CASE FindUser(p)
  BY <1>0, <1>1 DEF FindUser
<1>2. CASE Claim(p)
  BY <1>0, <1>2 DEF Claim
<1>3. CASE Stamp(p)
  BY <1>0, <1>3, RequestUpdate DEF Stamp, Keep, TypeOK
<1>4. CASE Sign(p)
  BY <1>0, <1>4, RequestUpdate, SecondType DEF Sign, Keep, TypeOK
<1>5. CASE Save(p)
  BY <1>0, <1>5, SavingType DEF Save
<1>6. CASE BeginSave(p)
  BY <1>0, <1>6, RequestUpdate, SavingType, EvictedType DEF BeginSave, Keep
<1>7. CASE CommitSave(p)
  BY <1>0, <1>7, SavingType DEF CommitSave
<1>8. CASE SaveFails(p)
  BY <1>0, <1>8 DEF SaveFails
<1>9. CASE Rollback(p)
  BY <1>0, <1>9 DEF Rollback
<1>10. CASE Discard(p)
  BY <1>0, <1>10 DEF Discard
<1> QED BY <1>1, <1>2, <1>3, <1>4, <1>5, <1>6, <1>7, <1>8, <1>9, <1>10 DEF Step

\* What a step does to the tables of the store.
LEMMA StepTables ==
  ASSUME TypeOK, RequestsGuarded, NEW p \in Requests, Begin(p) \/ Step(p)
  PROVE  /\ status' \in [Users -> Statuses] /\ stored' \subseteq Requests
         /\ createdAt' \in [Requests -> Nat] /\ saves' \in Nat /\ now' = now
<1> USE DEF TypeOK, tokenStore
<1>1. CASE StartRegister(p)
  BY <1>1 DEF StartRegister, Statuses
<1>2. CASE StartLogin(p) \/ StartRefresh(p) \/ StartChange(p) \/ StartReset(p)
  BY <1>2 DEF StartLogin, StartRefresh, StartChange, StartReset
<1>3. CASE Invalidate(p)
  BY <1>3 DEF Invalidate
<1>4. CASE FindUser(p) \/ Claim(p) \/ Stamp(p) \/ Sign(p) \/ SaveFails(p) \/ Discard(p)
  BY <1>4 DEF FindUser, Claim, Stamp, Sign, SaveFails, Discard
<1>5. CASE Save(p)
  BY <1>5, SavingType DEF Save
<1>6. CASE BeginSave(p)
  BY <1>6, SavingType DEF BeginSave
<1>7. CASE CommitSave(p)
  BY <1>7, SavingType DEF CommitSave
<1>8. CASE Rollback(p)
  BY <1>8 DEF Rollback, Statuses
<1>9. CASE Replace(p)
  BY <1>9 DEF Replace, ReplacePassword
<1>10. CASE Reset(p)
  BY <1>10 DEF Reset, ReplacePassword
<1> QED BY <1>1, <1>2, <1>3, <1>4, <1>5, <1>6, <1>7, <1>8, <1>9, <1>10 DEF Begin, Step

\* A request replaces a password, or tries to.
Replaces(p) ==
  /\ pc[p] \in {"replace", "reset"}
  /\ \E w \in {"ok", "discard", "failed"} :
       /\ pc' = [pc EXCEPT ![p] = w]
       /\ w = "discard" => pc[p] = "replace"
  /\ \E r \in Request :
       /\ req' = [req EXCEPT ![p] = r]
       /\ r.op = req[p].op /\ r.user = req[p].user /\ r.token = req[p].token
       /\ r.epoch = req[p].epoch \/ (pc[p] = "replace" /\ r.epoch = epoch[req[p].user] + 1)

LEMMA StepReplaces ==
  ASSUME TypeOK, NEW p \in Requests, Replace(p) \/ Reset(p)
  PROVE  Replaces(p)
<1>0. /\ req[p] \in Request /\ req = [req EXCEPT ![p] = req[p]]
      /\ epoch[req[p].user] + 1 \in Nat
  BY RequestUpdate DEF TypeOK
<1>1. CASE Reset(p)
  BY <1>0, <1>1 DEF Reset, Goto, Replaces
<1>2. CASE Replace(p)
  <2>1. CASE Keep(p, [req[p] EXCEPT !.epoch = epoch[req[p].user] + 1]) /\ Goto(p, "ok")
    <3> DEFINE r == [req[p] EXCEPT !.epoch = epoch[req[p].user] + 1]
    <3>1. /\ r \in Request /\ r.op = req[p].op /\ r.user = req[p].user
          /\ r.token = req[p].token /\ r.epoch = epoch[req[p].user] + 1
      BY <1>0, RequestUpdate
    <3>2. /\ pc[p] = "replace" /\ pc' = [pc EXCEPT ![p] = "ok"]
          /\ req' = [req EXCEPT ![p] = r]
      BY <1>2, <2>1 DEF Replace, Goto, Keep
    <3> HIDE DEF r
    <3> QED BY <3>1, <3>2 DEF Replaces
  <2>2. CASE Goto(p, "discard") /\ UNCHANGED req
    BY <1>0, <1>2, <2>2 DEF Replace, Goto, Replaces
  <2> QED BY <1>2, <2>1, <2>2 DEF Replace
<1> QED BY <1>1, <1>2

LEMMA PasswordTypes ==
  ASSUME TypeOK, NEW p \in Requests, Replace(p) \/ Reset(p)
  PROVE  /\ changedAt' \in [Users -> Nat] /\ epoch' \in [Users -> Nat]
         /\ requestedAt' \in [Users -> Nat] /\ overlap' \in [Users -> BOOLEAN]
<1>0. /\ req[p].user \in Users /\ req[p].stamp \in Nat /\ req[p].begun \in Nat
      /\ now \in Nat
  BY RequestUpdate DEF TypeOK
<1>1. ASSUME NEW at \in Nat, NEW kept, ReplacePassword(p, req[p].user, at, kept)
      PROVE  /\ changedAt' \in [Users -> Nat] /\ epoch' \in [Users -> Nat]
             /\ requestedAt' \in [Users -> Nat] /\ overlap' \in [Users -> BOOLEAN]
  <2>1. changedAt' \in [Users -> Nat]
    BY <1>0, <1>1 DEF ReplacePassword, TypeOK
  <2>2. epoch' \in [Users -> Nat]
    BY <1>0, <1>1 DEF ReplacePassword, TypeOK
  <2>3. requestedAt' \in [Users -> Nat]
    BY <1>0, <1>1 DEF ReplacePassword, TypeOK
  <2>4. overlap' \in [Users -> BOOLEAN]
    BY <1>0, <1>1 DEF ReplacePassword, TypeOK
  <2> QED BY <2>1, <2>2, <2>3, <2>4
<1> QED BY <1>0, <1>1 DEF Replace, Reset, passwords, TypeOK

LEMMA NextType ==
  ASSUME TypeOK, RequestsGuarded, NEW p \in Requests, Begin(p) \/ Step(p)
  PROVE  TypeOK'
<1> USE DEF Pcs
<1>1. CASE Begin(p)
  BY <1>1, BeginBegins, StepTables DEF Begins, passwords, TypeOK
<1>2. CASE Moves(p) /\ Step(p)
  BY <1>2, StepTables DEF Moves, Alike, passwords, TypeOK
<1>3. CASE Replace(p) \/ Reset(p)
  <2>1. Step(p)
    BY <1>3 DEF Step
  <2> QED BY <1>3, <2>1, StepReplaces, PasswordTypes, StepTables DEF Replaces, TypeOK
<1> QED BY <1>1, <1>2, <1>3, StepMoves

LEMMA EnvironmentType == ASSUME TypeOK, Environment PROVE TypeOK'
<1> USE DEF TypeOK, tokenStore, passwords
<1>1. CASE \E u \in Users : SetStatus(u)
  BY <1>1 DEF SetStatus, Statuses
<1>2. CASE \E t \in Requests : Expire(t)
  BY <1>2 DEF Expire
<1>3. CASE Tick
  BY <1>3 DEF Tick
<1> QED BY <1>1, <1>2, <1>3 DEF Environment

\* The environment leaves the requests and the passwords alone.
LEMMA EnvironmentStays ==
  ASSUME Environment
  PROVE  UNCHANGED <<pc, req, passwords>> /\ stored' \subseteq stored
BY DEF Environment, SetStatus, Expire, Tick, tokenStore

\* Only a save puts a token into the store.
LEMMA StoredGrows ==
  ASSUME NEW p \in Requests, Begin(p) \/ Step(p)
  PROVE  stored' \subseteq stored \/ ((Save(p) \/ CommitSave(p)) /\ stored' \subseteq stored \cup {Saving(p)})
<1> USE DEF tokenStore
<1>1. CASE Begin(p)
  BY <1>1
  DEF Begin, StartRegister, StartLogin, StartRefresh, Invalidate, StartChange, StartReset
<1>2. CASE Save(p) \/ CommitSave(p)
  BY <1>2 DEF Save, CommitSave
<1>3. CASE FindUser(p) \/ Claim(p) \/ Stamp(p) \/ Sign(p) \/ BeginSave(p) \/ SaveFails(p)
           \/ Rollback(p) \/ Discard(p)
  BY <1>3 DEF FindUser, Claim, Stamp, Sign, BeginSave, SaveFails, Rollback, Discard
<1>4. CASE Replace(p) \/ Reset(p)
  BY <1>4 DEF Replace, Reset, ReplacePassword
<1> QED BY <1>1, <1>2, <1>3, <1>4 DEF Step

LEMMA NextGuarded ==
  ASSUME TypeOK, RequestsGuarded, NEW p \in Requests, Begin(p) \/ Step(p)
  PROVE  RequestsGuarded'
<1> SUFFICES ASSUME NEW q \in Requests PROVE PresentsIssued(q)' /\ StepsFit(q)' /\ StoredBySave(q)'
  BY DEF RequestsGuarded
<1>1. PresentsIssued(q) /\ StepsFit(q) /\ PresentsIssued(p) /\ StepsFit(p)
  BY DEF RequestsGuarded
<1>2. \A x \in Requests \ {p} : pc'[x] = pc[x] /\ req'[x] = req[x]
  BY BeginBegins, StepMoves, StepReplaces DEF Begins, Moves, Replaces, TypeOK
\* A request that has ended stays as it is.
<1>3. pc[p] \notin {"ok", "failed"}
  BY BeginBegins, StepMoves, StepReplaces DEF Begins, Moves, Replaces
<1>0. StoredBySave(q)'
  <2>1. StoredBySave(q)
    BY DEF RequestsGuarded
  <2>2. pc[p] \in {"replace", "discard"} => pc'[p] \in {"ok", "failed", "replace", "discard"}
    BY DEF Begin, Start, StartRegister, StartLogin, StartRefresh, Invalidate, StartChange,
       StartReset, Step, FindUser, Claim, Stamp, Sign, Save, BeginSave, CommitSave, SaveFails,
       Rollback, Replace, Discard, Reset, Goto, TypeOK
  <2>3. CASE stored' \subseteq stored
    BY <1>2, <1>3, <2>1, <2>2, <2>3 DEF StoredBySave
  <2>4. CASE (Save(p) \/ CommitSave(p)) /\ stored' \subseteq stored \cup {Saving(p)}
    <3>1. \/ Saving(p) = p /\ pc'[p] \in {"ok", "replace", "failed"}
          \/ Saving(p) # p /\ Saving(p) \in Requests /\ pc[Saving(p)] = "ok"
      BY <1>1, <2>4, SavingType
      DEF Save, CommitSave, Goto, StepsFit, PresentsIssued, Saving, TypeOK
    <3> QED BY <1>2, <1>3, <2>1, <2>2, <2>4, <3>1 DEF StoredBySave
  <2> QED BY <2>3, <2>4, StoredGrows
<1>4. ASSUME q # p PROVE PresentsIssued(q)' /\ StepsFit(q)'
  BY <1>1, <1>2, <1>3, <1>4 DEF PresentsIssued, StepsFit
<1>5. ASSUME q = p /\ Begin(p) PROVE PresentsIssued(q)' /\ StepsFit(q)'
  BY <1>2, <1>5, BeginBegins DEF Begins, PresentsIssued, StepsFit, Issued, TypeOK
<1>6. ASSUME q = p /\ (Replace(p) \/ Reset(p)) PROVE PresentsIssued(q)' /\ StepsFit(q)'
  <2>1. req[p].op = "refresh" => req'[p].epoch = req[p].epoch
    BY <1>1, <1>6, StepReplaces DEF Replaces, StepsFit, TypeOK
  <2> QED BY <1>1, <1>2, <1>3, <1>6, <2>1, StepReplaces
          DEF Replaces, PresentsIssued, StepsFit, TypeOK
<1>7. ASSUME q = p /\ Moves(p) /\ Step(p) PROVE PresentsIssued(q)' /\ StepsFit(q)'
  <2>1. /\ req'[p].op = req[p].op /\ req'[p].user = req[p].user
        /\ req'[p].token = req[p].token /\ req'[p].epoch = req[p].epoch
        /\ pc[p] # "idle"
    BY <1>7 DEF Moves, Alike, TypeOK
  <2>2. PresentsIssued(p)'
    BY <1>1, <1>2, <1>3, <2>1 DEF PresentsIssued
  <2>3. StepsFit(p)'
    BY <1>1, <1>7, <2>1 DEF StepsFit, Step, FindUser, Claim, Stamp, Sign, Save, BeginSave,
       CommitSave, SaveFails, Rollback, Replace, Discard, Reset, Goto, Keep, AfterSave, TypeOK
  <2> QED BY <1>7, <2>2, <2>3
<1> QED BY <1>0, <1>4, <1>5, <1>6, <1>7, StepMoves

LEMMA InitGuarded == Init => TypeOK /\ RequestsGuarded
BY BlankType DEF Init, TypeOK, RequestsGuarded, PresentsIssued, StepsFit,
   StoredBySave, Pcs, Statuses

Guarded == TypeOK /\ RequestsGuarded

LEMMA NextGuardedToo == Guarded /\ [Next]_vars => Guarded'
<1> SUFFICES ASSUME Guarded, [Next]_vars PROVE Guarded'
  OBVIOUS
<1>1. CASE UNCHANGED vars
  BY <1>1
  DEF vars, tokenStore, passwords, Guarded, TypeOK, RequestsGuarded, PresentsIssued, StepsFit,
      StoredBySave
<1>2. CASE Environment
  BY <1>2, EnvironmentType, EnvironmentStays DEF Guarded, RequestsGuarded, PresentsIssued,
              StepsFit, StoredBySave
<1>3. ASSUME NEW p \in Requests, Begin(p) \/ Step(p) PROVE Guarded'
  BY <1>3, NextType, NextGuarded DEF Guarded
<1> QED BY <1>1, <1>2, <1>3 DEF Next

LEMMA SpecGuarded == Spec => []Guarded
BY InitGuarded, NextGuardedToo, PTL DEF Spec, Guarded

\* Every variable keeps its type.  (AuthService, IAuthStore)
THEOREM SpecTypeOK == Spec => []TypeOK
<1>1. Guarded => TypeOK
  BY DEF Guarded
<1> QED BY <1>1, SpecGuarded, PTL

-----------------------------------------------------------------------------
(***************************************************************************)
(* A token is redeemed once.                                               *)
(***************************************************************************)
HasToken(p) == Holding(p) \/ Redeemed(p)

\* Only a claim that finds the token gives it to a request.
LEMMA StepHasToken ==
  ASSUME TypeOK, RequestsGuarded, NEW p \in Requests, Step(p), HasToken(p)'
  PROVE  /\ Holding(p) \/ (Claim(p) /\ req[p].token \in stored)
         /\ req'[p].token = req[p].token /\ req'[p].op = req[p].op
<1>1. /\ req'[p].token = req[p].token /\ req'[p].op = req[p].op
      /\ pc[p] \notin {"idle", "ok", "failed"}
  BY StepMoves, StepReplaces DEF Moves, Replaces, Alike, TypeOK
<1>2. req[p].op = "refresh" /\ StepsFit(p)
  BY <1>1 DEF HasToken, Holding, Redeemed, RequestsGuarded
<1>3. pc[p] # "replace"
  BY <1>2 DEF StepsFit
<1>4. pc'[p] \in {"sign", "save", "commit", "restore", "restoreCommit", "ok"}
  BY DEF HasToken, Holding, Redeemed
<1>5. pc[p] # "reset"
  BY <1>2 DEF StepsFit
<1>6. Holding(p) \/ (Claim(p) /\ req[p].token \in stored)
  BY <1>1, <1>2, <1>3, <1>4, <1>5
  DEF Step, FindUser, Claim, Stamp, Sign, Save, BeginSave, CommitSave, SaveFails, Rollback,
      Replace, Discard, Reset, Goto, StepsFit, Holding, TypeOK
<1> QED BY <1>1, <1>6

LEMMA StepRedeemed ==
  ASSUME TypeOK, RequestsGuarded, RedeemedOnce, NEW p \in Requests, Step(p)
  PROVE  RedeemedOnce'
<1> SUFFICES ASSUME NEW q \in Requests, HasToken(q)'
             PROVE  /\ req'[q].token \notin stored'
                    /\ \A x \in Requests \ {q} : HasToken(x)' => req'[x].token # req'[q].token
  BY DEF RedeemedOnce, HasToken
<1>1. \A x \in Requests \ {p} : pc'[x] = pc[x] /\ req'[x] = req[x]
  BY StepMoves, StepReplaces DEF Moves, Replaces, TypeOK
<1>2. \A x \in Requests : HasToken(x)' =>
        /\ HasToken(x) \/ (x = p /\ Claim(p) /\ req[p].token \in stored)
        /\ req'[x].token = req[x].token
  BY <1>1, StepHasToken DEF HasToken, Holding, Redeemed
<1>3. \A x, y \in Requests : HasToken(x) =>
        /\ req[x].token \notin stored
        /\ x # y /\ HasToken(y) => req[y].token # req[x].token
  BY DEF RedeemedOnce, HasToken
<1>4. \A x \in Requests \ {q} : HasToken(x)' => req'[x].token # req'[q].token
  BY <1>2, <1>3
<1>5. ASSUME Claim(p), q = p PROVE req'[q].token \notin stored'
  BY <1>2, <1>5 DEF Claim
<1>6. ASSUME ~(Claim(p) /\ q = p) PROVE req'[q].token \notin stored'
  <2>1. HasToken(q) /\ req[q].token \notin stored /\ req'[q].token = req[q].token
    BY <1>2, <1>3, <1>6
  <2>2. CASE stored' \subseteq stored
    BY <2>1, <2>2
  <2>3. CASE (Save(p) \/ CommitSave(p)) /\ stored' \subseteq stored \cup {Saving(p)}
    <3>1. CASE pc[p] \in {"save", "commit"}
      <4>1. Saving(p) = p
        BY <3>1, SavingType
      <4>2. pc[req[q].token] = "ok"
        BY <2>1 DEF RequestsGuarded, PresentsIssued, HasToken, Holding, Redeemed
      <4> QED BY <2>1, <2>3, <3>1, <4>1, <4>2
    <3>2. CASE pc[p] \in {"restore", "restoreCommit"}
      <4>1. Holding(p) /\ Saving(p) = req[p].token
        BY <3>2 DEF RequestsGuarded, StepsFit, Holding, Saving
      <4>2. pc'[p] = "failed"
        BY <2>3, <3>2 DEF Save, CommitSave, Goto, AfterSave, TypeOK
      <4>3. q # p
        BY <4>2 DEF HasToken, Holding, Redeemed
      <4> QED BY <1>3, <2>1, <2>3, <4>1, <4>3 DEF HasToken
    <3> QED BY <2>3, <3>1, <3>2 DEF Save, CommitSave
  <2> QED BY <2>2, <2>3, StoredGrows
<1> QED BY <1>4, <1>5, <1>6

LEMMA BeginRedeemed ==
  ASSUME TypeOK, RequestsGuarded, RedeemedOnce, NEW p \in Requests, Begin(p)
  PROVE  RedeemedOnce'
<1>1. \A x \in Requests \ {p} : pc'[x] = pc[x] /\ req'[x] = req[x]
  BY BeginBegins DEF Begins, TypeOK
<1>2. ~HasToken(p)'
  BY BeginBegins DEF Begins, HasToken, Holding, Redeemed, TypeOK
<1>3. stored' \subseteq stored
  BY StoredGrows, BeginBegins DEF Begins, Save, CommitSave
<1> QED BY <1>1, <1>2, <1>3 DEF RedeemedOnce, HasToken, Holding, Redeemed

\* With any number of parallel refreshes, failing saves and restored tokens, a
\* refresh token is exchanged for a new pair at most once.  (AuthService.refresh)
THEOREM SpecRedeemedOnce == Spec => []RedeemedOnce
<1>1. Init => RedeemedOnce
  BY DEF Init, RedeemedOnce, Holding, Redeemed
<1>2. Guarded /\ RedeemedOnce /\ [Next]_vars => RedeemedOnce'
  <2> SUFFICES ASSUME Guarded, RedeemedOnce, [Next]_vars PROVE RedeemedOnce'
    OBVIOUS
  <2>1. CASE UNCHANGED vars \/ Environment
    <3>1. pc' = pc /\ req' = req /\ stored' \subseteq stored
      BY <2>1, EnvironmentStays DEF vars, tokenStore
    <3> QED BY <3>1 DEF RedeemedOnce, Holding, Redeemed
  <2>2. ASSUME NEW p \in Requests, Begin(p) \/ Step(p) PROVE RedeemedOnce'
    BY <2>2, BeginRedeemed, StepRedeemed DEF Guarded
  <2> QED BY <2>1, <2>2 DEF Next
<1> QED BY <1>1, <1>2, SpecGuarded, PTL DEF Spec

-----------------------------------------------------------------------------
(***************************************************************************)
(* A session ends with its password.                                       *)
(***************************************************************************)
\* What was admitted with epoch e for user u is admitted still.
Current(u, e) == overlap[u] \/ e = epoch[u]

LEMMA TokenUsers ==
  ASSUME TypeOK, NEW p \in Requests
  PROVE  UserOf(p) \in Users /\ UserOf(p) = req[p].user
BY RequestUpdate DEF TypeOK, UserOf

LEMMA MoveSessions ==
  ASSUME TypeOK, RequestsGuarded, SessionsGuarded, SessionsFollowPassword,
         NEW p \in Requests, Step(p), Moves(p)
  PROVE  SessionsGuarded' /\ SessionsFollowPassword'
<1>1. \A x \in Requests : req'[x].user = req[x].user /\ req'[x].epoch = req[x].epoch
                          /\ (x # p => pc'[x] = pc[x])
  BY DEF Moves, Alike, TypeOK
<1>2. UNCHANGED passwords
  BY DEF Moves
<1>3. ASSUME req[p].op = "refresh" /\ req[p].token \in stored
      PROVE  Current(UserOf(p), req[p].epoch)
  <2>1. pc[p] # "idle" /\ PresentsIssued(p)
    BY DEF Moves, RequestsGuarded
  <2> QED BY <1>3, <2>1 DEF PresentsIssued, SessionsFollowPassword, UserOf, Current
<1>4. ASSUME pc'[p] \in Admitted PROVE Current(UserOf(p), req[p].epoch)
  <2>1. pc[p] \in Admitted \/ (Claim(p) /\ req[p].token \in stored /\ req[p].op = "refresh")
    <3>1. StepsFit(p) /\ pc[p] \notin {"idle", "ok", "failed"}
      BY DEF RequestsGuarded, Moves
    <3> QED BY <1>4, <3>1
            DEF Admitted, Step, FindUser, Claim, Stamp, Sign, Save, BeginSave, CommitSave,
                SaveFails, Rollback, Replace, Discard, Reset, Goto, StepsFit, TypeOK,
                AfterSave
  <2> QED BY <1>3, <2>1 DEF SessionsGuarded, AdmittedNow, Current
<1>5. SessionsGuarded'
  BY <1>1, <1>2, <1>4 DEF SessionsGuarded, AdmittedNow, Current, passwords, UserOf
<1>6. SessionsFollowPassword'
  <2>1. \A t \in stored : Current(UserOf(t), req[t].epoch) /\ t \in Requests
    BY DEF SessionsFollowPassword, Current, TypeOK
  <2>2. CASE stored' \subseteq stored
    BY <1>1, <1>2, <2>1, <2>2 DEF SessionsFollowPassword, Current, passwords, UserOf
  <2>3. CASE (Save(p) \/ CommitSave(p)) /\ stored' \subseteq stored \cup {Saving(p)}
    <3>1. pc[p] \in {"save", "commit", "restore", "restoreCommit"}
      BY <2>3 DEF Save, CommitSave
    <3>2. Current(UserOf(p), req[p].epoch)
      BY <3>1 DEF SessionsGuarded, AdmittedNow, Admitted, Current
    <3>3. Saving(p) \in Requests /\ UserOf(Saving(p)) = UserOf(p)
          /\ req[Saving(p)].epoch = req[p].epoch
      <4>1. CASE pc[p] \in {"save", "commit"}
        BY <4>1, SavingType
      <4>2. CASE pc[p] \in {"restore", "restoreCommit"}
        BY <4>2 DEF RequestsGuarded, StepsFit, PresentsIssued, Saving, UserOf
      <4> QED BY <3>1, <4>1, <4>2
    <3> QED BY <1>1, <1>2, <2>1, <2>3, <3>2, <3>3
            DEF SessionsFollowPassword, Current, passwords, UserOf
  <2> QED BY <2>2, <2>3, StoredGrows
<1> QED BY <1>5, <1>6

\* The password of u is replaced: its tokens go, and whoever is under way for
\* it is noted.
LEMMA ReplaceSessions ==
  ASSUME TypeOK, RequestsGuarded, SessionsGuarded, SessionsFollowPassword,
         NEW p \in Requests, Replace(p) \/ Reset(p)
  PROVE  SessionsGuarded' /\ SessionsFollowPassword'
<1> DEFINE u == req[p].user
<1>1. \A x \in Requests : req'[x].user = req[x].user
                          /\ (x # p => req'[x].epoch = req[x].epoch /\ pc'[x] = pc[x])
  BY StepReplaces DEF Replaces, TypeOK
<1>2. pc'[p] \notin Admitted
  BY StepReplaces DEF Replaces, TypeOK, Admitted
<1>3. CASE UNCHANGED <<passwords, stored, req>>
  BY <1>1, <1>2, <1>3
  DEF SessionsGuarded, AdmittedNow, SessionsFollowPassword, passwords, UserOf
<1>4. ASSUME NEW at, NEW kept \in SUBSET {p}, ReplacePassword(p, u, at, kept),
             kept = {} \/ req'[p].epoch = epoch[u] + 1
      PROVE  SessionsGuarded' /\ SessionsFollowPassword'
  <2>1. /\ epoch'[u] = epoch[u] + 1
        /\ \A v \in Users \ {u} : epoch'[v] = epoch[v] /\ overlap'[v] = overlap[v]
        /\ \A q \in Requests \ {p} : UserOf(q) = u /\ UnderWay(q) => overlap'[u]
    BY <1>4, TokenUsers DEF ReplacePassword, TypeOK
  <2>2. SessionsGuarded'
    <3> SUFFICES ASSUME NEW q \in Requests \ {p}, pc[q] \in Admitted
                 PROVE  overlap'[UserOf(q)] \/ req'[q].epoch = epoch'[UserOf(q)]
      BY <1>1, <1>2 DEF SessionsGuarded, AdmittedNow, UserOf
    <3>1. CASE UserOf(q) = u
      BY <2>1, <3>1 DEF UnderWay, Admitted
    <3>2. CASE UserOf(q) # u
      BY <1>1, <2>1, <3>2, TokenUsers DEF SessionsGuarded, AdmittedNow
    <3> QED BY <3>1, <3>2
  <2>3. SessionsFollowPassword'
    <3> SUFFICES ASSUME NEW t \in stored'
                 PROVE  overlap'[UserOf(t)] \/ req'[t].epoch = epoch'[UserOf(t)]
      BY <1>1, <1>4 DEF SessionsFollowPassword, UserOf, ReplacePassword, TypeOK
    <3>1. t \in Requests /\ t \in stored /\ (UserOf(t) # u \/ t \in kept)
      BY <1>4 DEF ReplacePassword, TypeOK
    <3>2. CASE UserOf(t) # u
      <4>1. t # p
        BY <3>2 DEF UserOf
      <4> QED BY <1>1, <2>1, <3>1, <3>2, <4>1, TokenUsers DEF SessionsFollowPassword
    <3>3. CASE UserOf(t) = u
      BY <1>4, <2>1, <3>1, <3>3
    <3> QED BY <3>2, <3>3
  <2> QED BY <2>2, <2>3
<1>5. CASE Reset(p)
  <2>1. {} \in SUBSET {p}
    OBVIOUS
  <2> QED BY <1>3, <1>4, <1>5, <2>1 DEF Reset, tokenStore
<1>6. CASE Replace(p)
  <2>1. CASE UNCHANGED <<passwords, stored, req>>
    BY <1>3, <2>1
  <2>2. CASE ReplacePassword(p, u, req[p].stamp, {p})
             /\ Keep(p, [req[p] EXCEPT !.epoch = epoch[u] + 1])
    <3>1. epoch[u] + 1 \in Nat /\ req[p] \in Request
      BY RequestUpdate DEF TypeOK
    <3>2. req'[p] = [req[p] EXCEPT !.epoch = epoch[u] + 1]
      BY <2>2 DEF Keep, TypeOK
    <3>3. req'[p].epoch = epoch[u] + 1
      BY <3>1, <3>2, RequestUpdate
    <3> QED BY <1>4, <2>2, <3>3
  <2> QED BY <1>6, <2>1, <2>2 DEF Replace, tokenStore
<1> QED BY <1>5, <1>6

LEMMA BeginSessions ==
  ASSUME TypeOK, RequestsGuarded, SessionsGuarded, SessionsFollowPassword,
         NEW p \in Requests, Begin(p)
  PROVE  SessionsGuarded' /\ SessionsFollowPassword'
<1>1. \A x \in Requests \ {p} : pc'[x] = pc[x] /\ req'[x] = req[x]
  BY BeginBegins DEF Begins, TypeOK
<1>2. stored' \subseteq stored /\ UNCHANGED passwords /\ p \notin stored
  BY StoredGrows, BeginBegins DEF Begins, Save, CommitSave, RequestsGuarded, StoredBySave
<1>3. pc'[p] \in Admitted => req'[p].epoch = epoch[req'[p].user]
  BY BeginBegins DEF Begins, Admitted, TypeOK
<1>4. SessionsFollowPassword'
  BY <1>1, <1>2 DEF SessionsFollowPassword, passwords, UserOf, TypeOK
<1>5. SessionsGuarded'
  BY <1>1, <1>2, <1>3 DEF SessionsGuarded, AdmittedNow, passwords, UserOf
<1> QED BY <1>4, <1>5

\* A refresh token of an older password is left in the store only when a change
\* of the password met another request of the user.  (replacePassword and the
\* requests under way)
THEOREM SpecSessionsFollowPassword == Spec => [](SessionsFollowPassword /\ SessionsGuarded)
<1>1. Init => SessionsFollowPassword /\ SessionsGuarded
  BY DEF Init, SessionsFollowPassword, SessionsGuarded, AdmittedNow, Admitted
<1>2. Guarded /\ (SessionsFollowPassword /\ SessionsGuarded) /\ [Next]_vars
        => (SessionsFollowPassword /\ SessionsGuarded)'
  <2> SUFFICES ASSUME Guarded, SessionsFollowPassword, SessionsGuarded, [Next]_vars
               PROVE  SessionsFollowPassword' /\ SessionsGuarded'
    OBVIOUS
  <2>1. CASE UNCHANGED vars \/ Environment
    <3>1. pc' = pc /\ req' = req /\ stored' \subseteq stored /\ UNCHANGED passwords
      BY <2>1, EnvironmentStays DEF vars, tokenStore
    <3> QED BY <3>1
            DEF SessionsFollowPassword, SessionsGuarded, AdmittedNow, passwords, UserOf
  <2>2. ASSUME NEW p \in Requests, Begin(p) PROVE SessionsFollowPassword' /\ SessionsGuarded'
    BY <2>2, BeginSessions DEF Guarded
  <2>3. ASSUME NEW p \in Requests, Step(p) PROVE SessionsFollowPassword' /\ SessionsGuarded'
    BY <2>3, StepMoves, MoveSessions, ReplaceSessions DEF Guarded
  <2> QED BY <2>1, <2>2, <2>3 DEF Next
<1> QED BY <1>1, <1>2, SpecGuarded, PTL DEF Spec

-----------------------------------------------------------------------------
(***************************************************************************)
(* The limit, in the store of one process.                                 *)
(***************************************************************************)
LEMMA NewestFew ==
  ASSUME NEW S \in SUBSET Requests, NEW at \in [Requests -> Nat], NEW n \in Nat
  PROVE  Cardinality({x \in S : Cardinality({y \in S : at[x] <= at[y]}) <= n}) <= n
<1> DEFINE AsNew(x) == {y \in S : at[x] <= at[y]}
           kept == {x \in S : Cardinality(AsNew(x)) <= n}
<1>1. ASSUME kept = {} PROVE Cardinality(kept) <= n
  <2> HIDE DEF kept
  <2> QED BY <1>1, FS_EmptySet
<1>2. ASSUME kept # {} PROVE Cardinality(kept) <= n
  <2> DEFINE times == {at[x] : x \in kept}
  <2>1. times \subseteq Nat /\ times # {}
    BY <1>2
  <2>2. PICK v \in times : \A w \in times : v <= w
    <3> HIDE DEF times
    <3> QED BY <2>1, SmallestNumber
  <2>3. PICK m \in kept : v = at[m]
    OBVIOUS
  <2>4. \A x \in kept : at[m] <= at[x]
    BY <2>2, <2>3
  <2>5. kept \subseteq AsNew(m) /\ Cardinality(AsNew(m)) <= n
    BY <2>3, <2>4
  <2>6. IsFiniteSet(S)
    BY AuthAssumption, FS_Subset
  <2>7. IsFiniteSet(AsNew(m)) /\ IsFiniteSet(kept)
    <3>1. AsNew(m) \subseteq S /\ kept \subseteq S
      OBVIOUS
    <3> HIDE DEF AsNew, kept
    <3> QED BY <2>6, <3>1, FS_Subset
  <2> HIDE DEF kept, AsNew
  <2> QED BY <2>5, <2>7, FS_Subset, FS_CardinalityType
<1>3. Cardinality(kept) <= n
  BY <1>1, <1>2
<1> QED BY <1>3

LEMMA SaveLimit ==
  ASSUME TypeOK, RequestsGuarded, WithinLimit, NEW p \in Requests, Save(p)
  PROVE  WithinLimit'
<1> DEFINE t == Saving(p)
           at == [createdAt EXCEPT ![t] = saves]
           mine == TokensOf(UserOf(t)) \cup {t}
<1>0. t \in Requests /\ mine \in SUBSET Requests /\ at \in [Requests -> Nat]
  BY SavingType DEF TokensOf, TypeOK
<1>1. stored' = (stored \cup {t}) \ Evicted(t, at) /\ req' = req
  BY DEF Save
<1> SUFFICES ASSUME NEW v \in Users PROVE Cardinality(TokensOf(v)') <= MaxTokens
  BY DEF WithinLimit
<1>2. CASE v = UserOf(t)
  <2> DEFINE AsNew(x) == {y \in mine : at[x] <= at[y]}
             kept == {x \in mine : Cardinality(AsNew(x)) <= MaxTokens}
  <2>1. \A x \in mine : Cardinality(AsNew(x)) \in Nat
    <3> SUFFICES ASSUME NEW x \in mine PROVE Cardinality(AsNew(x)) \in Nat
      OBVIOUS
    <3>1. AsNew(x) \subseteq Requests
      BY <1>0
    <3> HIDE DEF AsNew
    <3> QED BY <3>1, AuthAssumption, FS_Subset, FS_CardinalityType
  <2>2. TokensOf(v)' = {x \in mine : ~(MaxTokens < Cardinality(AsNew(x)))}
    BY <1>1, <1>2 DEF TokensOf, UserOf, Evicted
  <2>3. Cardinality(kept) <= MaxTokens
    <3> HIDE DEF mine, at
    <3> QED BY <1>0, NewestFew, AuthAssumption
  <2>4. TokensOf(v)' = kept
    <3> HIDE DEF AsNew, mine
    <3> QED BY <2>1, <2>2, AuthAssumption
  <2> QED BY <2>3, <2>4
<1>3. CASE v # UserOf(t)
  <2>1. TokensOf(v)' = TokensOf(v)
    BY <1>1, <1>3 DEF TokensOf, UserOf, Evicted
  <2> QED BY <2>1 DEF WithinLimit
<1> QED BY <1>2, <1>3

LEMMA FewerTokens ==
  ASSUME TypeOK, WithinLimit, stored' \subseteq stored,
         \A t \in stored : req'[t].user = req[t].user
  PROVE  WithinLimit'
<1> SUFFICES ASSUME NEW v \in Users PROVE Cardinality(TokensOf(v)') <= MaxTokens
  BY DEF WithinLimit
<1>1. TokensOf(v)' \subseteq TokensOf(v) /\ TokensOf(v) \subseteq Requests
  BY DEF TokensOf, UserOf, TypeOK
<1>2. Cardinality(TokensOf(v)') <= Cardinality(TokensOf(v))
      /\ Cardinality(TokensOf(v)') \in Nat /\ Cardinality(TokensOf(v)) \in Nat
  BY <1>1, AuthAssumption, FS_Subset, FS_CardinalityType
<1> QED BY <1>2, AuthAssumption DEF WithinLimit

\* Without transactions no request waits for one to commit.
NoTransaction == \A p \in Requests : pc[p] \notin {"commit", "restoreCommit"}

LEMMA NextLimit ==
  ASSUME TypeOK, RequestsGuarded, ~Sql, NoTransaction, WithinLimit,
         NEW p \in Requests, Begin(p) \/ Step(p)
  PROVE  NoTransaction' /\ WithinLimit'
<1>1. \A x \in Requests \ {p} : pc'[x] = pc[x] /\ req'[x] = req[x]
  BY BeginBegins, StepMoves, StepReplaces DEF Begins, Moves, Replaces, TypeOK
<1>2. p \in stored => req'[p].user = req[p].user
  BY BeginBegins, StepMoves, StepReplaces
     DEF Begins, Moves, Alike, Replaces, TypeOK, RequestsGuarded, StoredBySave
<1>3. NoTransaction'
  <2>1. CASE Begin(p)
    BY <1>1, <2>1, BeginBegins DEF Begins, NoTransaction, TypeOK
  <2>2. CASE Step(p)
    <3>1. pc'[p] \notin {"commit", "restoreCommit"}
      BY <2>2 DEF NoTransaction, Step, FindUser, Claim, Stamp, Sign, Save, BeginSave,
         CommitSave, SaveFails, Rollback, Replace, Discard, Reset, Goto, AfterSave, TypeOK
    <3> QED BY <1>1, <3>1 DEF NoTransaction
  <2> QED BY <2>1, <2>2
<1>4. WithinLimit'
  <2>1. CASE stored' \subseteq stored
    <3>1. \A t \in stored : req'[t].user = req[t].user
      BY <1>1, <1>2 DEF TypeOK
    <3> QED BY <2>1, <3>1, FewerTokens
  <2>2. CASE Save(p)
    BY <2>2, SaveLimit
  <2>3. ~CommitSave(p)
    BY DEF CommitSave, NoTransaction
  <2> QED BY <2>1, <2>2, <2>3, StoredGrows
<1> QED BY <1>3, <1>4

\* In the store of one process no user ever has more refresh tokens than the
\* limit, however many logins run in parallel.  (AuthMapStore.saveRefresh)
THEOREM SpecWithinLimit == ASSUME ~Sql PROVE Spec => []WithinLimit
<1> DEFINE IInv == NoTransaction /\ WithinLimit
<1>1. Init => IInv
  <2> SUFFICES ASSUME Init PROVE IInv
    OBVIOUS
  <2>1. \A u \in Users : TokensOf(u) = {}
    BY DEF Init, TokensOf
  <2> QED BY <2>1, FS_EmptySet, AuthAssumption DEF Init, NoTransaction, WithinLimit
<1>2. Guarded /\ IInv /\ [Next]_vars => IInv'
  <2> SUFFICES ASSUME Guarded, IInv, [Next]_vars PROVE IInv'
    OBVIOUS
  <2>1. CASE UNCHANGED vars \/ Environment
    <3>1. pc' = pc /\ req' = req /\ stored' \subseteq stored
      BY <2>1, EnvironmentStays DEF vars, tokenStore
    <3> QED BY <3>1, FewerTokens DEF NoTransaction, Guarded
  <2>2. ASSUME NEW p \in Requests, Begin(p) \/ Step(p) PROVE IInv'
    BY <2>2, NextLimit DEF Guarded
  <2> QED BY <2>1, <2>2 DEF Next
<1>3. IInv => WithinLimit
  OBVIOUS
<1> HIDE DEF IInv
<1> QED BY <1>1, <1>2, <1>3, SpecGuarded, PTL DEF Spec

-----------------------------------------------------------------------------
(***************************************************************************)
(* What holds when no write of the store fails: a logout is final, and     *)
(* access tokens follow the password.                                      *)
(***************************************************************************)
\* Nothing is given back or taken back.
NothingUndone == /\ \A p \in Requests : pc[p] \notin {"restore", "restoreCommit", "rollback", "discard"}
                 /\ \A u \in Users : status[u] # "deleted"

LEMMA NextNothingUndone ==
  ASSUME ~StoreFaults, TypeOK, RequestsGuarded, NothingUndone, NEW p \in Requests,
         Begin(p) \/ Step(p)
  PROVE  NothingUndone'
<1>1. \A x \in Requests \ {p} : pc'[x] = pc[x]
  BY BeginBegins, StepMoves, StepReplaces DEF Begins, Moves, Replaces, TypeOK
<1>2. CASE Begin(p)
  <2>1. pc'[p] \notin {"restore", "restoreCommit", "rollback", "discard"}
    BY <1>2, BeginBegins DEF Begins, TypeOK
  <2>2. \A u \in Users : status'[u] # "deleted"
    BY <1>2 DEF NothingUndone, TypeOK, Begin, StartRegister, StartLogin, StartRefresh,
       Invalidate, StartChange, StartReset
  <2> QED BY <1>1, <2>1, <2>2 DEF NothingUndone
<1>3. CASE Step(p)
  <2>1. /\ status' = status
        /\ pc'[p] \notin {"restore", "restoreCommit", "rollback", "discard"}
    BY <1>3
    DEF NothingUndone, Step, FindUser, Claim, Stamp, Sign, Save, BeginSave, CommitSave,
        SaveFails, Rollback, Replace, ReplacePassword, Discard, Reset, Goto, AfterSave, TypeOK
  <2> QED BY <1>1, <2>1 DEF NothingUndone
<1> QED BY <1>2, <1>3

LEMMA EnvironmentNothingUndone ==
  ASSUME TypeOK, NothingUndone, UNCHANGED vars \/ Environment PROVE NothingUndone'
BY DEF vars, Environment, SetStatus, Expire, Tick, NothingUndone, TypeOK, tokenStore

\* The token of a logout was handed out and is gone.
LoggedOut(p) ==
  req[p].op = "invalidate" =>
    /\ pc[p] = "ok" /\ req[p].token \in Requests /\ pc[req[p].token] = "ok"
    /\ req[p].token \notin stored
LogoutsHold == \A p \in Requests : LoggedOut(p)

\* What a request that begins has in its local variables.
LEMMA StartWrites ==
  ASSUME TypeOK, NEW p \in Requests, NEW op \in Operations, NEW u \in Users,
         NEW t \in Requests \cup {NoToken}, NEW e \in Nat, NEW where,
         Start(p, op, u, t, e, where)
  PROVE  /\ req'[p].op = op /\ req'[p].user = u /\ req'[p].token = t /\ req'[p].epoch = e
         /\ req'[p].begun = now /\ req'[p].stamp = 0 /\ req'[p].iat = 0
         /\ pc[p] = "idle" /\ pc'[p] = where
<1>1. Blank \in Request /\ Blank.stamp = 0 /\ Blank.iat = 0
  BY BlankType DEF Blank
<1>2. /\ pc[p] = "idle" /\ pc' = [pc EXCEPT ![p] = where]
      /\ req' = [req EXCEPT ![p] = [Blank EXCEPT !.op = op, !.user = u, !.token = t,
                                    !.epoch = e, !.begun = now]]
  BY DEF Start, Keep, Goto
<1> QED BY <1>1, <1>2 DEF Request, TypeOK

LEMMA IssuedTypes ==
  ASSUME TypeOK, NEW t \in Issued
  PROVE  t \in Requests /\ pc[t] = "ok" /\ UserOf(t) \in Users /\ req[t].epoch \in Nat
BY RequestUpdate DEF TypeOK, Issued, UserOf

LEMMA BeginLoggedOut ==
  ASSUME TypeOK, NEW p \in Requests, Begin(p) PROVE LoggedOut(p)'
<1> USE StartWrites DEF Operations, TypeOK
<1>1. CASE Invalidate(p)
  <2>1. PICK t \in Issued : /\ Start(p, "invalidate", UserOf(t), t, req[t].epoch, "ok")
                            /\ stored' = stored \ {t}
    BY <1>1 DEF Invalidate
  <2>2. /\ t \in Requests /\ UserOf(t) \in Users /\ req[t].epoch \in Nat /\ pc[t] = "ok"
        /\ t \in Requests \cup {NoToken}
    BY IssuedTypes
  <2>3. req'[p].token = t /\ pc[p] = "idle" /\ pc'[p] = "ok"
    BY <2>1, <2>2
  <2>4. pc' = [pc EXCEPT ![p] = "ok"]
    BY <2>1 DEF Start, Goto
  <2> QED BY <2>1, <2>2, <2>3, <2>4 DEF LoggedOut
<1>2. CASE StartRegister(p)
  BY <1>2 DEF StartRegister, LoggedOut
<1>3. CASE StartLogin(p)
  BY <1>3 DEF StartLogin, LoggedOut
<1>4. CASE StartRefresh(p)
  BY <1>4, IssuedTypes DEF StartRefresh, LoggedOut
<1>5. CASE StartChange(p)
  BY <1>5 DEF StartChange, LoggedOut
<1>6. CASE StartReset(p)
  BY <1>6 DEF StartReset, LoggedOut
<1> QED BY <1>1, <1>2, <1>3, <1>4, <1>5, <1>6 DEF Begin

LEMMA NextLogout ==
  ASSUME TypeOK, RequestsGuarded, NothingUndone, LogoutsHold, NEW p \in Requests,
         Begin(p) \/ Step(p)
  PROVE  LogoutsHold'
<1>1. \A x \in Requests \ {p} : pc'[x] = pc[x] /\ req'[x] = req[x]
  BY BeginBegins, StepMoves, StepReplaces DEF Begins, Moves, Replaces, TypeOK
<1>2. pc[p] # "ok" /\ (Step(p) => req'[p].op = req[p].op)
  BY BeginBegins, StepMoves, StepReplaces DEF Begins, Moves, Replaces, Alike, TypeOK
<1>3. \A t \in stored' : t \in stored \/ t = p
  BY StoredGrows, SavingType DEF Save, CommitSave, NothingUndone
<1>4. ASSUME NEW q \in Requests \ {p} PROVE LoggedOut(q)'
  BY <1>1, <1>2, <1>3 DEF LogoutsHold, LoggedOut
<1>5. LoggedOut(p)'
  BY <1>2, BeginLoggedOut DEF LogoutsHold, LoggedOut
<1> QED BY <1>4, <1>5 DEF LogoutsHold

\* When no write of the store fails a token the user has logged out with is not
\* in the store again, whatever other requests did with it at that time.  (A
\* refresh whose save fails does put it back.)  (AuthService.invalidate)
THEOREM SpecLogoutHolds == ASSUME ~StoreFaults PROVE Spec => []LogoutHolds
<1> DEFINE IInv == NothingUndone /\ LogoutsHold
<1>1. Init => IInv
  BY DEF Init, NothingUndone, LogoutsHold, LoggedOut, Blank
<1>2. Guarded /\ IInv /\ [Next]_vars => IInv'
  <2> SUFFICES ASSUME Guarded, IInv, [Next]_vars PROVE IInv'
    OBVIOUS
  <2>1. CASE UNCHANGED vars \/ Environment
    <3>1. pc' = pc /\ req' = req /\ stored' \subseteq stored
      BY <2>1, EnvironmentStays DEF vars, tokenStore
    <3>2. LogoutsHold'
      BY <3>1 DEF LogoutsHold, LoggedOut
    <3> QED BY <2>1, <3>2, EnvironmentNothingUndone DEF Guarded
  <2>2. ASSUME NEW p \in Requests, Begin(p) \/ Step(p) PROVE IInv'
    BY <2>2, NextNothingUndone, NextLogout DEF Guarded
  <2> QED BY <2>1, <2>2 DEF Next
<1>3. IInv => LogoutHolds
  BY DEF LogoutsHold, LoggedOut, LogoutHolds
<1> HIDE DEF IInv
<1> QED BY <1>1, <1>2, <1>3, SpecGuarded, PTL DEF Spec

(***************************************************************************)
(* The times of a request and of the changes of a password.                *)
(***************************************************************************)
SameCall(s, r) == s.op = r.op /\ s.user = r.user /\ s.begun = r.begun

LEMMA RequestFields ==
  ASSUME NEW r \in Request
  PROVE  /\ \A n \in Nat : /\ SameCall([r EXCEPT !.stamp = n], r)
                           /\ [r EXCEPT !.stamp = n].stamp = n
                           /\ [r EXCEPT !.stamp = n].iat = r.iat
         /\ \A n \in Nat : /\ SameCall([r EXCEPT !.iat = n], r)
                           /\ [r EXCEPT !.iat = n].stamp = r.stamp
                           /\ [r EXCEPT !.iat = n].iat = n
         /\ \A n \in Nat : /\ SameCall([r EXCEPT !.epoch = n], r)
                           /\ [r EXCEPT !.epoch = n].stamp = r.stamp
                           /\ [r EXCEPT !.epoch = n].iat = r.iat
         /\ \A S \in SUBSET Requests : /\ SameCall([r EXCEPT !.victims = S], r)
                                       /\ [r EXCEPT !.victims = S].stamp = r.stamp
                                       /\ [r EXCEPT !.victims = S].iat = r.iat
BY DEF Request, SameCall

\* Who asks for what, and since when, stays; the other times are taken once.
LEMMA StepTimes ==
  ASSUME TypeOK, RequestsGuarded, NEW p \in Requests, Step(p)
  PROVE  /\ SameCall(req'[p], req[p])
         /\ req'[p].stamp = IF pc[p] = "stamp" THEN now ELSE req[p].stamp
         /\ req'[p].iat = IF pc[p] = "sign" THEN Second(now) ELSE req[p].iat
<1>1. /\ req[p] \in Request /\ now \in Nat /\ Second(now) \in Nat
      /\ epoch[req[p].user] + 1 \in Nat
  BY RequestUpdate, SecondType DEF TypeOK
<1>2. CASE FindUser(p) \/ Claim(p) \/ Save(p) \/ CommitSave(p) \/ SaveFails(p) \/ Rollback(p)
           \/ Discard(p) \/ Reset(p)
  BY <1>2 DEF FindUser, Claim, Save, CommitSave, SaveFails, Rollback, Discard, Reset, SameCall
<1>3. CASE Stamp(p)
  <2>1. pc[p] = "stamp" /\ req'[p] = [req[p] EXCEPT !.stamp = now]
    BY <1>3 DEF Stamp, Keep, TypeOK
  <2> QED BY <1>1, <2>1, RequestFields
<1>4. CASE Sign(p)
  <2>1. pc[p] = "sign" /\ req'[p] = [req[p] EXCEPT !.iat = Second(now)]
    BY <1>4 DEF Sign, Keep, TypeOK
  <2> QED BY <1>1, <2>1, RequestFields
<1>5. CASE BeginSave(p)
  <2>1. PICK S \in SUBSET Requests : req'[p] = [req[p] EXCEPT !.victims = S]
    BY <1>5, SavingType, EvictedType DEF BeginSave, Keep, TypeOK
  <2>2. pc[p] \notin {"stamp", "sign"}
    BY <1>5 DEF BeginSave
  <2> QED BY <1>1, <2>1, <2>2, RequestFields
<1>6. CASE Replace(p)
  <2>1. pc[p] = "replace"
    BY <1>6 DEF Replace
  <2>2. CASE req' = req
    BY <2>1, <2>2 DEF SameCall
  <2>3. CASE Keep(p, [req[p] EXCEPT !.epoch = epoch[req[p].user] + 1])
    <3>1. req'[p] = [req[p] EXCEPT !.epoch = epoch[req[p].user] + 1]
      BY <2>3 DEF Keep, TypeOK
    <3> QED BY <1>1, <2>1, <3>1, RequestFields
  <2> QED BY <1>6, <2>2, <2>3 DEF Replace
<1> QED BY <1>2, <1>3, <1>4, <1>5, <1>6 DEF Step

\* How a password changes when nothing is undone.
Changes(p, at) ==
  LET u == UserOf(p) IN
  /\ changedAt' = [changedAt EXCEPT ![u] = at]
  /\ epoch' = [epoch EXCEPT ![u] = @ + 1]
  /\ requestedAt' = [requestedAt EXCEPT ![u] = IF @ < req[p].begun THEN req[p].begun ELSE @]
  /\ \A v \in Users : overlap[v] => overlap'[v]
  /\ \A q \in Requests \ {p} : UserOf(q) = u /\ UnderWay(q) => overlap'[u]
  /\ pc'[p] = "ok"
  /\ \/ pc[p] = "replace" /\ at = req[p].stamp /\ req'[p].epoch = epoch[u] + 1
     \/ pc[p] = "reset" /\ at = now /\ req'[p].epoch = req[p].epoch

LEMMA StepChanges ==
  ASSUME TypeOK, RequestsGuarded, NothingUndone, NEW p \in Requests, Begin(p) \/ Step(p)
  PROVE  UNCHANGED passwords \/ (Step(p) /\ \E at \in Nat : Changes(p, at))
<1>0. /\ UserOf(p) \in Users /\ UserOf(p) = req[p].user /\ req[p].stamp \in Nat /\ now \in Nat
      /\ req[p] \in Request /\ epoch[UserOf(p)] + 1 \in Nat /\ status[UserOf(p)] # "deleted"
  BY TokenUsers, RequestUpdate DEF TypeOK, NothingUndone
<1>1. CASE Begin(p) \/ Moves(p)
  BY <1>1, BeginBegins DEF Begins, Moves
<1>2. ASSUME NEW at, NEW kept, ReplacePassword(p, UserOf(p), at, kept)
      PROVE  LET u == UserOf(p) IN
             /\ changedAt' = [changedAt EXCEPT ![u] = at]
             /\ epoch' = [epoch EXCEPT ![u] = @ + 1]
             /\ requestedAt' = [requestedAt EXCEPT ![u] = IF @ < req[p].begun THEN req[p].begun ELSE @]
             /\ \A v \in Users : overlap[v] => overlap'[v]
             /\ \A q \in Requests \ {p} : UserOf(q) = u /\ UnderWay(q) => overlap'[u]
  BY <1>0, <1>2 DEF ReplacePassword, TypeOK
<1>3. CASE Reset(p)
  <2>1. CASE UNCHANGED passwords
    BY <2>1
  <2>2. CASE ReplacePassword(p, UserOf(p), now, {}) /\ Goto(p, "ok")
    <3>1. pc[p] = "reset" /\ pc'[p] = "ok" /\ req' = req
      BY <1>3, <2>2 DEF Reset, Goto, TypeOK
    <3> QED BY <1>0, <1>2, <1>3, <2>2, <3>1 DEF Changes, Step
  <2> QED BY <1>0, <1>3, <2>1, <2>2 DEF Reset
<1>4. CASE Replace(p)
  <2>1. CASE UNCHANGED passwords
    BY <2>1
  <2>2. CASE /\ ReplacePassword(p, UserOf(p), req[p].stamp, {p}) /\ Goto(p, "ok")
             /\ Keep(p, [req[p] EXCEPT !.epoch = epoch[UserOf(p)] + 1])
    <3>1. req'[p] = [req[p] EXCEPT !.epoch = epoch[UserOf(p)] + 1] /\ pc'[p] = "ok"
      BY <2>2 DEF Keep, Goto, TypeOK
    <3>2. pc[p] = "replace" /\ req'[p].epoch = epoch[UserOf(p)] + 1
      BY <1>0, <1>4, <3>1, RequestUpdate DEF Replace
    <3> QED BY <1>0, <1>2, <1>4, <2>2, <3>1, <3>2 DEF Changes, Step
  <2> QED BY <1>0, <1>4, <2>1, <2>2 DEF Replace
<1> QED BY <1>1, <1>3, <1>4, StepMoves

LEMMA MultiplesApart == \A k, x, y \in Nat : x < y => k * x + k <= k * y
<1> SUFFICES ASSUME NEW k \in Nat, NEW x \in Nat, NEW y \in Nat, x < y PROVE k * x + k <= k * y
  OBVIOUS
<1>1. PICK d \in Nat : y = x + 1 + d
  BY y - x - 1 \in Nat
<1>2. k * y = k * x + k + k * d
  BY <1>1
<1>3. k * d \in Nat /\ k * x \in Nat
  OBVIOUS
<1> QED BY <1>2, <1>3

LEMMA SecondMonotone == \A a, b \in Nat : a <= b => Second(a) <= Second(b)
<1> DEFINE K == TicksPerSecond
<1>0. \A a \in Nat : /\ a \div K \in Nat /\ a % K \in Nat /\ a % K < K
                     /\ a = K * (a \div K) + (a % K)
  BY AuthAssumption
<1> SUFFICES ASSUME NEW a \in Nat, NEW b \in Nat, a <= b, b \div K < a \div K PROVE FALSE
  BY <1>0 DEF Second
<1> DEFINE x == a \div K
           y == b \div K
<1>1. /\ x \in Nat /\ y \in Nat /\ a % K \in Nat /\ b % K \in Nat /\ b % K < K
      /\ a = K * x + (a % K) /\ b = K * y + (b % K)
  BY <1>0
<1>2. K * y + K <= K * x
  BY <1>1, MultiplesApart, AuthAssumption
<1>3. K * x \in Nat /\ K * y \in Nat /\ K \in Nat
  BY <1>1, AuthAssumption
<1> HIDE DEF x, y
<1> QED BY <1>1, <1>2, <1>3

\* No time lies ahead.
TimesPast == /\ \A u \in Users : requestedAt[u] <= now
             /\ \A p \in Requests : req[p].begun <= now /\ req[p].stamp <= now

\* A change under way was requested after the latest one, or meets it.
InOrder(p) == UnderWay(p) /\ req[p].op \in {"change", "reset"} =>
                overlap[UserOf(p)] \/ requestedAt[UserOf(p)] <= req[p].begun

\* A change is stamped after it was requested and before its pair is signed.
Timed(p) == req[p].op = "change" =>
  /\ pc[p] \in {"sign", "save", "commit", "replace"} => req[p].begun <= req[p].stamp
  /\ pc[p] \in {"save", "commit", "replace", "ok"} => Second(req[p].stamp) <= req[p].iat

ChangedSince == \A u \in Users : overlap[u] \/ requestedAt[u] <= changedAt[u]

EpochPast(p) == req[p].epoch <= epoch[UserOf(p)]

\* The pair of the latest change is younger than the time that was stored.
LatestStored(p) ==
  req[p].op = "change" /\ pc[p] = "ok" /\ req[p].epoch = epoch[UserOf(p)] =>
    changedAt[UserOf(p)] = req[p].stamp

ChangesGuarded ==
  /\ NothingUndone /\ TimesPast /\ ChangedSince
  /\ \A p \in Requests : InOrder(p) /\ Timed(p) /\ EpochPast(p) /\ LatestStored(p)

LEMMA TimeTypes ==
  ASSUME TypeOK
  PROVE  /\ now \in Nat /\ \A u \in Users : requestedAt[u] \in Nat /\ changedAt[u] \in Nat
                                            /\ epoch[u] \in Nat
         /\ \A p \in Requests : /\ req[p].begun \in Nat /\ req[p].stamp \in Nat
                                /\ req[p].iat \in Nat /\ req[p].epoch \in Nat
BY RequestUpdate DEF TypeOK

\* What a request that begins has read is of its time.
LEMMA BeginTimes ==
  ASSUME TypeOK, NEW p \in Requests, Begin(p), \A t \in Requests : EpochPast(t)
  PROVE  /\ req'[p].begun = now /\ req'[p].stamp = 0
         /\ req'[p].epoch <= epoch[req'[p].user] /\ req'[p].user \in Users
<1> USE StartWrites DEF Operations
<1>0. /\ \A u \in Users : epoch[u] \in Nat /\ epoch[u] <= epoch[u]
      /\ \A t \in Issued : /\ t \in Requests /\ UserOf(t) \in Users /\ req[t].epoch \in Nat
                           /\ req[t].epoch <= epoch[UserOf(t)]
      /\ NoToken \in Requests \cup {NoToken} /\ Issued \subseteq Requests \cup {NoToken}
  BY TimeTypes, IssuedTypes DEF EpochPast
<1>1. CASE StartRegister(p)
  BY <1>0, <1>1 DEF StartRegister
<1>2. CASE StartLogin(p)
  BY <1>0, <1>2 DEF StartLogin
<1>3. CASE StartRefresh(p)
  <2>1. PICK t \in Issued : Start(p, "refresh", UserOf(t), t, req[t].epoch, "findUser")
    BY <1>3 DEF StartRefresh
  <2> QED BY <1>0, <2>1
<1>4. CASE Invalidate(p)
  <2>1. PICK t \in Issued : Start(p, "invalidate", UserOf(t), t, req[t].epoch, "ok")
    BY <1>4 DEF Invalidate
  <2> QED BY <1>0, <2>1
<1>5. CASE StartChange(p)
  <2>1. PICK u \in Users : Start(p, "change", u, NoToken, epoch[u], "stamp")
    BY <1>5 DEF StartChange
  <2>2. "change" \in Operations /\ epoch[u] \in Nat /\ epoch[u] <= epoch[u]
    BY <1>0
  <2> QED BY <1>0, <2>1, <2>2, SMTT(40)
<1>6. CASE StartReset(p)
  <2>1. PICK u \in Users : Start(p, "reset", u, NoToken, epoch[u], "reset")
    BY <1>6 DEF StartReset
  <2>2. "reset" \in Operations /\ epoch[u] \in Nat
    BY <1>0
  <2> QED BY <1>0, <2>1, <2>2
<1> QED BY <1>1, <1>2, <1>3, <1>4, <1>5, <1>6 DEF Begin

LEMMA BeginChanges ==
  ASSUME ~StoreFaults, TypeOK, RequestsGuarded, ChangesGuarded, NEW p \in Requests, Begin(p)
  PROVE  ChangesGuarded'
<1>1. \A x \in Requests \ {p} : pc'[x] = pc[x] /\ req'[x] = req[x]
  BY BeginBegins DEF Begins, TypeOK
<1>2. UNCHANGED passwords /\ now' = now /\ NothingUndone'
  BY NextNothingUndone, BeginBegins, StepTables DEF Begins, ChangesGuarded
<1>3. /\ req'[p].begun = now /\ req'[p].stamp = 0
      /\ req'[p].epoch <= epoch[req'[p].user] /\ req'[p].user \in Users
  BY BeginTimes DEF ChangesGuarded
<1>4. /\ pc'[p] = "ok" => req'[p].op = "invalidate"
      /\ req'[p].op = "change" => pc'[p] = "stamp"
  BY BeginBegins DEF Begins, TypeOK
<1>5. TimesPast' /\ ChangedSince'
  BY <1>1, <1>2, <1>3, TimeTypes DEF ChangesGuarded, TimesPast, ChangedSince, passwords
<1>6. InOrder(p)' /\ Timed(p)' /\ EpochPast(p)' /\ LatestStored(p)'
  <2>1. requestedAt[req'[p].user] <= req'[p].begun
    BY <1>3 DEF ChangesGuarded, TimesPast
  <2> QED BY <1>2, <1>3, <1>4, <2>1
          DEF InOrder, Timed, EpochPast, LatestStored, UserOf, passwords
<1>7. ASSUME NEW q \in Requests \ {p}
      PROVE  InOrder(q)' /\ Timed(q)' /\ EpochPast(q)' /\ LatestStored(q)'
  BY <1>1, <1>2
  DEF ChangesGuarded, InOrder, Timed, EpochPast, LatestStored, UserOf, UnderWay, passwords
<1> QED BY <1>2, <1>5, <1>6, <1>7 DEF ChangesGuarded

LEMMA StepChangesGuarded ==
  ASSUME ~StoreFaults, TypeOK, RequestsGuarded, ChangesGuarded, NEW p \in Requests, Step(p)
  PROVE  ChangesGuarded'
<1>0. /\ \A x \in Requests \ {p} : pc'[x] = pc[x] /\ req'[x] = req[x]
      /\ now' = now /\ NothingUndone' /\ StepsFit(p)
      /\ \A x \in Requests : UserOf(x)' = UserOf(x) /\ UserOf(x) \in Users
  <2>1. \A x \in Requests \ {p} : pc'[x] = pc[x] /\ req'[x] = req[x]
    BY StepMoves, StepReplaces DEF Moves, Replaces, TypeOK
  <2>2. \A x \in Requests : UserOf(x)' = UserOf(x) /\ UserOf(x) \in Users
    BY <2>1, StepTimes, TokenUsers DEF SameCall, UserOf
  <2> QED BY <2>1, <2>2, NextNothingUndone, StepTables DEF ChangesGuarded, RequestsGuarded
<1>1. /\ SameCall(req'[p], req[p])
      /\ req'[p].stamp = IF pc[p] = "stamp" THEN now ELSE req[p].stamp
      /\ req'[p].iat = IF pc[p] = "sign" THEN Second(now) ELSE req[p].iat
  BY StepTimes
<1>2. /\ pc'[p] = "sign" /\ req[p].op = "change" => pc[p] = "stamp"
      /\ pc'[p] = "save" => pc[p] = "sign"
      /\ pc'[p] \in {"commit", "replace"} => pc[p] \in {"save", "commit"}
      /\ pc'[p] = "ok" /\ req[p].op = "change" => pc[p] = "replace"
      /\ UnderWay(p)' => UnderWay(p) \/ req[p].op = "refresh"
  BY <1>0 DEF Step, FindUser, Claim, Stamp, Sign, Save, BeginSave, CommitSave, SaveFails,
       Rollback, Replace, Discard, Reset, Goto, AfterSave, StepsFit, UnderWay, TypeOK,
       ChangesGuarded, NothingUndone
<1>3. Timed(p)'
  <2>1. pc[p] = "sign" => Second(req[p].stamp) <= Second(now)
    BY SecondMonotone, TimeTypes DEF ChangesGuarded, TimesPast
  <2> QED BY <1>0, <1>1, <1>2, <2>1 DEF Timed, SameCall, ChangesGuarded, TimesPast
<1>4. \A q \in Requests \ {p} : Timed(q)'
  BY <1>0 DEF Timed, ChangesGuarded
<1>5. /\ \A q \in Requests : req'[q].begun <= now /\ req'[q].stamp <= now
      /\ \A q \in Requests : req'[q].begun = req[q].begun /\ req'[q].op = req[q].op
  <2>1. now <= now
    BY TimeTypes
  <2> QED BY <1>0, <1>1, <2>1 DEF SameCall, ChangesGuarded, TimesPast
<1>6. CASE UNCHANGED passwords
  <2>1. req'[p].epoch = req[p].epoch
    <3>1. CASE Moves(p)
      BY <3>1 DEF Moves, Alike, TypeOK
    <3>2. CASE Replace(p)
      <4>1. req' = req \/ epoch' = [epoch EXCEPT ![UserOf(p)] = @ + 1]
        BY <3>2 DEF Replace, ReplacePassword, UserOf
      <4>2. epoch' = epoch /\ epoch[UserOf(p)] \in Nat /\ UserOf(p) \in Users
        BY <1>6, TimeTypes, TokenUsers DEF passwords
      <4> QED BY <4>1, <4>2 DEF TypeOK
    <3>3. CASE Reset(p)
      BY <3>3 DEF Reset
    <3> QED BY <3>1, <3>2, <3>3, StepMoves
  <2>2. pc'[p] = "ok" => req[p].op # "change"
    <3>1. epoch' = epoch /\ epoch[UserOf(p)] \in Nat /\ UserOf(p) \in Users
      BY <1>6, TimeTypes, TokenUsers DEF passwords
    <3>2. epoch' # [epoch EXCEPT ![UserOf(p)] = @ + 1]
      BY <3>1 DEF TypeOK
    <3>3. Replace(p) => pc'[p] = "discard"
      BY <3>2 DEF Replace, ReplacePassword, Goto, UserOf, TypeOK
    <3>4. pc[p] = "replace" => Replace(p)
      BY DEF Step, FindUser, Claim, Stamp, Sign, Save, BeginSave, CommitSave, SaveFails,
         Rollback, Discard, Reset
    <3> QED BY <1>2, <3>3, <3>4
  <2>3. TimesPast' /\ ChangedSince'
    BY <1>0, <1>5, <1>6 DEF TimesPast, ChangedSince, ChangesGuarded, passwords
  <2>4. \A q \in Requests : InOrder(q)' /\ EpochPast(q)' /\ LatestStored(q)'
    <3>1. \A q \in Requests : req'[q].epoch = req[q].epoch
      BY <1>0, <2>1
    <3>2. \A q \in Requests : UnderWay(q)' /\ req[q].op \in {"change", "reset"} => UnderWay(q)
      BY <1>0, <1>2 DEF UnderWay
    <3>3. \A q \in Requests : InOrder(q)'
      BY <1>0, <1>5, <1>6, <3>2 DEF InOrder, ChangesGuarded, passwords
    <3>4. \A q \in Requests : EpochPast(q)'
      BY <1>0, <1>6, <3>1 DEF EpochPast, ChangesGuarded, passwords
    <3>5. \A q \in Requests : LatestStored(q)'
      <4>1. \A q \in Requests \ {p} : LatestStored(q)'
        BY <1>0, <1>6 DEF LatestStored, ChangesGuarded, passwords
      <4> QED BY <1>5, <2>2, <4>1 DEF LatestStored
    <3> QED BY <3>3, <3>4, <3>5
  <2> QED BY <1>0, <1>3, <1>4, <2>3, <2>4 DEF ChangesGuarded
<1>7. ASSUME NEW at \in Nat, Changes(p, at) PROVE ChangesGuarded'
  <2> DEFINE u == UserOf(p)
  <2>0. /\ changedAt'[u] = at /\ epoch'[u] = epoch[u] + 1 /\ u \in Users
        /\ requestedAt'[u] = IF requestedAt[u] < req[p].begun THEN req[p].begun ELSE requestedAt[u]
        /\ \A v \in Users \ {u} : changedAt'[v] = changedAt[v] /\ epoch'[v] = epoch[v]
                                  /\ requestedAt'[v] = requestedAt[v]
        /\ \A v \in Users : overlap[v] => overlap'[v]
        /\ \A q \in Requests \ {p} : UserOf(q) = u /\ UnderWay(q) => overlap'[u]
        /\ pc'[p] = "ok"
        /\ \/ pc[p] = "replace" /\ at = req[p].stamp /\ req'[p].epoch = epoch[u] + 1
           \/ pc[p] = "reset" /\ at = now /\ req'[p].epoch = req[p].epoch
    BY <1>0, <1>7 DEF Changes, TypeOK
  <2>1. /\ req[p].begun <= now /\ req[p].begun <= at
        /\ overlap[u] \/ requestedAt[u] <= req[p].begun
    BY <1>0, <2>0 DEF ChangesGuarded, TimesPast, Timed, InOrder, UnderWay, StepsFit
  <2>2. TimesPast' /\ ChangedSince'
    BY <1>0, <1>5, <2>0, <2>1, TimeTypes DEF TimesPast, ChangedSince, ChangesGuarded
  <2>3. InOrder(p)'
    BY <2>0 DEF InOrder, UnderWay
  <2>4. EpochPast(p)' /\ LatestStored(p)'
    <3>1. pc[p] = "replace" => req'[p].stamp = req[p].stamp
      BY <1>1
    <3>2. req[p].op = "change" => pc[p] = "replace"
      BY <1>0, <2>0 DEF StepsFit
    <3>3. req[p].epoch <= epoch[u]
      BY DEF ChangesGuarded, EpochPast
    <3> QED BY <1>0, <1>5, <2>0, <3>1, <3>2, <3>3, TimeTypes DEF EpochPast, LatestStored
  <2>5. ASSUME NEW q \in Requests \ {p} PROVE InOrder(q)' /\ EpochPast(q)' /\ LatestStored(q)'
    <3>1. InOrder(q) /\ EpochPast(q) /\ LatestStored(q) /\ UnderWay(q)' = UnderWay(q)
          /\ req'[q] = req[q] /\ pc'[q] = pc[q] /\ UserOf(q)' = UserOf(q) /\ UserOf(q) \in Users
      BY <1>0 DEF ChangesGuarded, UnderWay
    <3>2. CASE UserOf(q) = u
      BY <2>0, <3>1, <3>2, TimeTypes DEF InOrder, EpochPast, LatestStored
    <3>3. CASE UserOf(q) # u
      BY <2>0, <3>1, <3>3 DEF InOrder, EpochPast, LatestStored
    <3> QED BY <3>2, <3>3
  <2> QED BY <1>0, <1>3, <1>4, <2>2, <2>3, <2>4, <2>5 DEF ChangesGuarded
<1> QED BY <1>6, <1>7, StepChanges DEF ChangesGuarded

LEMMA EnvironmentChanges ==
  ASSUME TypeOK, ChangesGuarded, UNCHANGED vars \/ Environment PROVE ChangesGuarded'
<1>1. UNCHANGED <<pc, req, passwords>> /\ now <= now' /\ now' \in Nat /\ NothingUndone'
  <2>1. now <= now' /\ now' \in Nat
    BY TimeTypes DEF vars, Environment, SetStatus, Expire, Tick
  <2>2. UNCHANGED <<pc, req, passwords>>
    BY EnvironmentStays DEF vars
  <2> QED BY <2>1, <2>2, EnvironmentNothingUndone DEF ChangesGuarded
<1>2. TimesPast'
  BY <1>1, TimeTypes DEF TimesPast, ChangesGuarded, passwords
<1> QED BY <1>1, <1>2 DEF ChangesGuarded, ChangedSince, InOrder, Timed, EpochPast,
        LatestStored, UnderWay, UserOf, passwords

LEMMA SpecChangesGuarded == ASSUME ~StoreFaults PROVE Spec => [](Guarded /\ ChangesGuarded)
<1>1. Init => ChangesGuarded
  BY AuthAssumption DEF Init, ChangesGuarded, NothingUndone, TimesPast, ChangedSince, InOrder,
     Timed, EpochPast, LatestStored, UnderWay, UserOf, Blank
<1>2. Guarded /\ ChangesGuarded /\ [Next]_vars => ChangesGuarded'
  BY BeginChanges, StepChangesGuarded, EnvironmentChanges DEF Guarded, Next
<1> QED BY <1>1, <1>2, SpecGuarded, PTL DEF Spec

\* When no write of the store fails a change of the password ends the access
\* tokens that were issued before the second in which it was requested, unless
\* it met another request of the user.  (JwtStrategy, changePassword)
THEOREM SpecAccessFollowsPassword == ASSUME ~StoreFaults PROVE Spec => []AccessFollowsPassword
<1>1. Guarded /\ ChangesGuarded => AccessFollowsPassword
  <2> SUFFICES ASSUME Guarded, ChangesGuarded, NEW t \in Issued, Accepted(t)
               PROVE  \/ overlap[UserOf(t)]
                      \/ Second(requestedAt[UserOf(t)]) <= req[t].iat
    BY DEF AccessFollowsPassword
  <2>1. t \in Requests /\ UserOf(t) \in Users /\ req[t].iat \in Nat
    BY IssuedTypes, TimeTypes DEF Guarded
  <2>2. /\ Second(requestedAt[UserOf(t)]) \in Nat /\ Second(changedAt[UserOf(t)]) \in Nat
        /\ requestedAt[UserOf(t)] <= changedAt[UserOf(t)] =>
             Second(requestedAt[UserOf(t)]) <= Second(changedAt[UserOf(t)])
    BY <2>1, TimeTypes, SecondType, SecondMonotone DEF Guarded
  <2> QED BY <2>1, <2>2 DEF ChangesGuarded, ChangedSince, Accepted
<1> QED BY <1>1, SpecChangesGuarded, PTL

\* The pair that answers a change of the password is accepted until the next
\* change: the time that is stored lies before its access token.
\* (changePassword, issuedBeforePasswordChange)
THEOREM SpecChangedPairAccepted == ASSUME ~StoreFaults PROVE Spec => []ChangedPairAccepted
<1>1. ChangesGuarded => ChangedPairAccepted
  BY DEF ChangesGuarded, ChangedPairAccepted, Issued, LatestStored, Timed, Accepted
<1> QED BY <1>1, SpecChangesGuarded, PTL

-----------------------------------------------------------------------------
(***************************************************************************)
(* The requests implement the rotation of tokens.                          *)
(***************************************************************************)
OverPcs == {"ok", "failed", "replace", "discard"}

LEMMA NextOver ==
  ASSUME TypeOK, RequestsGuarded, NEW p \in Requests, Begin(p) \/ Step(p), NEW t \in Requests,
         pc[t] \in OverPcs
  PROVE  pc'[t] \in OverPcs
<1>1. t # p => pc'[t] = pc[t]
  BY BeginBegins, StepMoves, StepReplaces, SMTT(40) DEF Begins, Moves, Replaces, TypeOK
<1>2. t = p => pc'[t] \in OverPcs
  BY DEF OverPcs, Begin, Start, StartRegister, StartLogin, StartRefresh, Invalidate,
         StartChange, StartReset, Step, FindUser, Claim, Stamp, Sign, Save, BeginSave,
         CommitSave, SaveFails, Rollback, Replace, Discard, Reset, Goto, TypeOK
<1> QED BY <1>1, <1>2

HeldBy(p, t) == Holding(p) /\ req[p].token = t
SpentBy(p, t) == Redeemed(p) /\ req[p].token = t

LEMMA LifeCases ==
  ASSUME NEW t \in Requests
  PROVE  Life(t) = IF t \in stored THEN "live"
                   ELSE IF \E p \in Requests : HeldBy(p, t) THEN "taken"
                   ELSE IF \E p \in Requests : SpentBy(p, t) THEN "spent"
                   ELSE IF pc[t] \in OverPcs THEN "dropped" ELSE "none"
BY DEF Life, HeldBy, SpentBy, OverPcs

LEMMA LifeCasesNext ==
  ASSUME NEW t \in Requests
  PROVE  Life(t)' = IF t \in stored' THEN "live"
                    ELSE IF \E p \in Requests : HeldBy(p, t)' THEN "taken"
                    ELSE IF \E p \in Requests : SpentBy(p, t)' THEN "spent"
                    ELSE IF pc'[t] \in OverPcs THEN "dropped" ELSE "none"
BY DEF Life, HeldBy, SpentBy, OverPcs

\* A token in the store was saved and nobody holds it; a token that is held or
\* spent was handed out.
LEMMA LifeFacts ==
  ASSUME RequestsGuarded, RedeemedOnce, NEW t \in Requests
  PROVE  /\ t \in stored => pc[t] \in OverPcs
         /\ \A p \in Requests : HeldBy(p, t) \/ SpentBy(p, t) =>
              /\ t \notin stored /\ pc[t] = "ok"
              /\ \A q \in Requests \ {p} : ~HeldBy(q, t) /\ ~SpentBy(q, t)
BY DEF RequestsGuarded, StoredBySave, PresentsIssued, RedeemedOnce, HeldBy, SpentBy,
   Holding, Redeemed, OverPcs

\* t keeps its place, or is dropped.
Keeps(t) == Life(t)' = Life(t) \/ (Life(t) \in {"none", "live"} /\ Life(t)' = "dropped")

LEMMA OtherLives ==
  ASSUME RequestsGuarded, RedeemedOnce, NEW t \in Requests,
         t \in stored' => t \in stored, pc[t] \in OverPcs => pc'[t] \in OverPcs,
         \A q \in Requests : HeldBy(q, t)' <=> HeldBy(q, t),
         \A q \in Requests : SpentBy(q, t)' <=> SpentBy(q, t)
  PROVE  Keeps(t)
<1> DEFINE held == \E p \in Requests : HeldBy(p, t)
           gone == \E p \in Requests : SpentBy(p, t)
<1>1. Life(t) = IF t \in stored THEN "live" ELSE IF held THEN "taken"
                ELSE IF gone THEN "spent" ELSE IF pc[t] \in OverPcs THEN "dropped" ELSE "none"
  BY LifeCases
<1>2. Life(t)' = IF t \in stored' THEN "live" ELSE IF held THEN "taken"
                 ELSE IF gone THEN "spent" ELSE IF pc'[t] \in OverPcs THEN "dropped" ELSE "none"
  <2>1. held' = held /\ gone' = gone
    OBVIOUS
  <2>2. Life(t)' = IF t \in stored' THEN "live" ELSE IF held' THEN "taken"
                   ELSE IF gone' THEN "spent" ELSE IF pc'[t] \in OverPcs THEN "dropped" ELSE "none"
    BY LifeCasesNext
  <2> QED BY <2>1, <2>2
<1>3. t \in stored => pc[t] \in OverPcs /\ ~held /\ ~gone
  BY LifeFacts
<1> QED BY <1>1, <1>2, <1>3 DEF Keeps

LEMMA LifeChange ==
  ASSUME NEW S \in SUBSET Requests, NEW made, DOMAIN made = S,
         \A t \in S : Life(t)' = made[t], \A t \in Requests \ S : Keeps(t)
  PROVE  Rotation!Change(made)
<1> DEFINE state == [t \in Requests |-> Life(t)]
           dropped == {t \in Requests \ S : Life(t) \in {"none", "live"} /\ Life(t)' = "dropped"}
<1>1. dropped \in SUBSET {t \in Requests : state[t] \in {"none", "live"}}
  OBVIOUS
<1>2. state' = [t \in Requests |-> IF t \in DOMAIN made THEN made[t]
                                   ELSE IF t \in dropped THEN "dropped" ELSE state[t]]
  BY DEF Keeps
<1> HIDE DEF dropped
<1> QED BY <1>1, <1>2 DEF Rotation!Change

\* The row a save adds is the newest, so it is not among those it removes.
Numbered ==
  \/ /\ saves = 0 /\ stored = {}
     /\ \A p \in Requests : createdAt[p] = 0 /\ pc[p] \notin {"commit", "restoreCommit"}
  \/ \A t \in Requests : createdAt[t] < saves

OwnRowStays ==
  \A p \in Requests : pc[p] \in {"commit", "restoreCommit"} => Saving(p) \notin req[p].victims

LEMMA NewestStays ==
  ASSUME TypeOK, Numbered, NEW t \in Requests
  PROVE  t \notin Evicted(t, [createdAt EXCEPT ![t] = saves])
<1> DEFINE at == [createdAt EXCEPT ![t] = saves]
           newer == {y \in TokensOf(UserOf(t)) \cup {t} : at[t] <= at[y]}
<1>1. ASSUME NEW y \in TokensOf(UserOf(t)), y # t PROVE ~(at[t] <= at[y])
  <2>1. y \in Requests /\ stored # {}
    BY <1>1 DEF TokensOf, TypeOK
  <2>2. at[t] = saves /\ at[y] = createdAt[y] /\ createdAt[y] \in Nat /\ saves \in Nat
    BY <1>1, <2>1 DEF TypeOK
  <2>3. createdAt[y] < saves
    BY <2>1 DEF Numbered
  <2> HIDE DEF at
  <2> QED BY <2>2, <2>3
<1>2. newer = {t}
  <2>1. at[t] <= at[t]
    BY DEF TypeOK
  <2> HIDE DEF at
  <2> QED BY <1>1, <2>1
<1>3. Cardinality(newer) = 1
  <2> HIDE DEF newer
  <2> QED BY <1>2, FS_Singleton
<1>4. ~(MaxTokens < Cardinality(newer))
  <2> HIDE DEF newer
  <2> QED BY <1>3, AuthAssumption
<1> QED BY <1>4 DEF Evicted

LEMMA NextNumbered ==
  ASSUME TypeOK, RequestsGuarded, Numbered, NEW p \in Requests, Begin(p) \/ Step(p)
  PROVE  Numbered'
<1>1. \A x \in Requests \ {p} : pc'[x] = pc[x]
  BY BeginBegins, StepMoves, StepReplaces DEF Begins, Moves, Replaces, TypeOK
<1>2. CASE Save(p) \/ BeginSave(p)
  <2>1. saves' = saves + 1 /\ createdAt' = [createdAt EXCEPT ![Saving(p)] = saves]
    BY <1>2 DEF Save, BeginSave
  <2>2. \A t \in Requests : createdAt[t] <= saves /\ createdAt[t] \in Nat
    BY DEF Numbered, TypeOK
  <2> QED BY <2>1, <2>2 DEF Numbered, TypeOK
<1>3. CASE ~Save(p) /\ ~BeginSave(p)
  <2>1. createdAt' = createdAt /\ saves' = saves
    BY <1>3
    DEF tokenStore, Begin, StartRegister, StartLogin, StartRefresh, Invalidate, StartChange,
        StartReset, Step, FindUser, Claim, Stamp, Sign, CommitSave, SaveFails, Rollback,
        Replace, Discard, Reset, ReplacePassword
  <2>2. CASE \A t \in Requests : createdAt[t] < saves
    BY <2>1, <2>2 DEF Numbered
  <2>3. CASE /\ saves = 0 /\ stored = {}
             /\ \A q \in Requests : createdAt[q] = 0 /\ pc[q] \notin {"commit", "restoreCommit"}
    <3>1. stored' = {}
      BY <1>3, <2>3, StoredGrows DEF CommitSave
    <3>2. pc'[p] \notin {"commit", "restoreCommit"}
      <4>1. CASE Begin(p)
        BY <4>1, BeginBegins DEF Begins, TypeOK
      <4>2. CASE Step(p)
        BY <1>3, <2>3, <4>2 DEF Step, FindUser, Claim, Stamp, Sign, CommitSave, SaveFails,
           Rollback, Replace, Discard, Reset, Goto, TypeOK
      <4> QED BY <4>1, <4>2
    <3> QED BY <1>1, <2>1, <2>3, <3>1, <3>2 DEF Numbered
  <2> QED BY <2>2, <2>3 DEF Numbered
<1> QED BY <1>2, <1>3

LEMMA NextOwnRow ==
  ASSUME TypeOK, RequestsGuarded, Numbered, OwnRowStays, NEW p \in Requests, Begin(p) \/ Step(p)
  PROVE  OwnRowStays'
<1>1. \A x \in Requests \ {p} : pc'[x] = pc[x] /\ req'[x] = req[x]
  BY BeginBegins, StepMoves, StepReplaces DEF Begins, Moves, Replaces, TypeOK
<1>2. ASSUME NEW q \in Requests \ {p} PROVE
        pc'[q] \in {"commit", "restoreCommit"} => Saving(q)' \notin req'[q].victims
  BY <1>1 DEF OwnRowStays, Saving
<1>3. CASE BeginSave(p)
  <2> DEFINE gone == Evicted(Saving(p), [createdAt EXCEPT ![Saving(p)] = saves])
  <2>1. /\ req'[p] = [req[p] EXCEPT !.victims = gone] /\ req[p] \in Request
        /\ pc[p] \in {"save", "restore"}
        /\ pc'[p] = IF pc[p] = "save" THEN "commit" ELSE "restoreCommit"
    BY <1>3 DEF BeginSave, Keep, Goto, TypeOK
  <2>2. Saving(p) \notin gone
    BY SavingType, NewestStays
  <2>3. req'[p].victims = gone /\ req'[p].token = req[p].token
    <3> HIDE DEF gone
    <3> QED BY <2>1 DEF Request
  <2>4. Saving(p)' = Saving(p)
    BY <2>1, <2>3 DEF Saving
  <2> QED BY <1>2, <2>2, <2>3, <2>4 DEF OwnRowStays
<1>4. CASE ~BeginSave(p)
  <2>1. pc'[p] \notin {"commit", "restoreCommit"}
    <3>1. CASE Begin(p)
      BY <3>1, BeginBegins DEF Begins, TypeOK
    <3>2. CASE Step(p)
      BY <1>4, <3>2
      DEF Step, FindUser, Claim, Stamp, Sign, Save, CommitSave, SaveFails, AfterSave,
          Rollback, Replace, Discard, Reset, Goto, TypeOK
    <3> QED BY <3>1, <3>2
  <2> QED BY <1>2, <2>1 DEF OwnRowStays
<1> QED BY <1>3, <1>4

RotationGuarded == Guarded /\ RedeemedOnce /\ Numbered /\ OwnRowStays

\* The tokens p presents or issues, seen by the others.
LEMMA OtherHolders ==
  ASSUME TypeOK, RequestsGuarded, NEW p \in Requests, Begin(p) \/ Step(p),
         NEW q \in Requests \ {p}, NEW t
  PROVE  (HeldBy(q, t)' <=> HeldBy(q, t)) /\ (SpentBy(q, t)' <=> SpentBy(q, t))
<1>1. pc'[q] = pc[q] /\ req'[q] = req[q]
  BY BeginBegins, StepMoves, StepReplaces DEF Begins, Moves, Replaces, TypeOK
<1> QED BY <1>1 DEF HeldBy, SpentBy, Holding, Redeemed

\* A step that gives the token to nobody and takes it from nobody.
LEMMA StepKeeps ==
  ASSUME TypeOK, RequestsGuarded, RedeemedOnce, NEW p \in Requests, Begin(p) \/ Step(p),
         NEW t \in Requests, t \in stored' => t \in stored,
         HeldBy(p, t)' <=> HeldBy(p, t), SpentBy(p, t)' <=> SpentBy(p, t)
  PROVE  Keeps(t)
<1>1. \A q \in Requests : (HeldBy(q, t)' <=> HeldBy(q, t)) /\ (SpentBy(q, t)' <=> SpentBy(q, t))
  <2> SUFFICES ASSUME NEW q \in Requests
               PROVE (HeldBy(q, t)' <=> HeldBy(q, t)) /\ (SpentBy(q, t)' <=> SpentBy(q, t))
    OBVIOUS
  <2> QED BY OtherHolders
<1> QED BY <1>1, NextOver, OtherLives

LEMMA AllKept ==
  ASSUME \A t \in Requests : Keeps(t) PROVE Rotation!Next
<1> DEFINE made == [t \in {} |-> "dropped"]
<1>1. Rotation!Change(made)
  <2>1. DOMAIN made = {} /\ {} \in SUBSET Requests
    OBVIOUS
  <2> HIDE DEF made
  <2> QED BY <2>1, LifeChange
<1> QED BY <1>1 DEF Rotation!Next, Rotation!Drop

LEMMA BeginRotates ==
  ASSUME TypeOK, RequestsGuarded, RedeemedOnce, NEW p \in Requests, Begin(p)
  PROVE  Rotation!Next
<1>1. stored' \subseteq stored
  BY StoredGrows, BeginBegins DEF Begins, Save, CommitSave
<1>2. \A t \in Requests : ~HeldBy(p, t)' /\ ~HeldBy(p, t) /\ ~SpentBy(p, t)' /\ ~SpentBy(p, t)
  BY BeginBegins DEF Begins, HeldBy, SpentBy, Holding, Redeemed, TypeOK
<1>3. \A t \in Requests : Keeps(t)
  BY <1>1, <1>2, StepKeeps
<1> QED BY <1>3, AllKept

\* The steps that touch no token but those they drop.
LEMMA QuietRotates ==
  ASSUME TypeOK, RequestsGuarded, RedeemedOnce, NEW p \in Requests,
         \/ FindUser(p) \/ Stamp(p) \/ Sign(p) \/ BeginSave(p) \/ Rollback(p) \/ Replace(p)
         \/ Discard(p) \/ Reset(p) \/ (Claim(p) /\ req[p].token \notin stored)
         \/ (SaveFails(p) /\ pc[p] \in {"save", "commit"})
  PROVE  Rotation!Next
<1>1. Step(p)
  BY DEF Step
<1>2. stored' \subseteq stored
  BY <1>1, StoredGrows
  DEF FindUser, Stamp, Sign, BeginSave, Rollback, Replace, ReplacePassword, Discard, Reset,
      Claim, SaveFails, tokenStore
<1>3. req'[p].op = req[p].op /\ req'[p].token = req[p].token /\ StepsFit(p)
  BY <1>1, StepMoves, StepReplaces DEF Moves, Replaces, Alike, RequestsGuarded, TypeOK
<1>4. (Holding(p)' <=> Holding(p)) /\ (Redeemed(p)' <=> Redeemed(p))
  BY <1>3 DEF FindUser, Stamp, Sign, BeginSave, Rollback, Replace, Discard, Reset, Claim,
     SaveFails, Goto, StepsFit, Holding, Redeemed, TypeOK
<1>5. \A t \in Requests : Keeps(t)
  BY <1>1, <1>2, <1>3, <1>4, StepKeeps DEF HeldBy, SpentBy
<1> QED BY <1>5, AllKept

LEMMA ClaimRotates ==
  ASSUME TypeOK, RequestsGuarded, RedeemedOnce, NEW p \in Requests, Claim(p),
         req[p].token \in stored
  PROVE  Rotation!Next
<1> DEFINE t == req[p].token
           made == [x \in {t} |-> "taken"]
<1>1. /\ Step(p) /\ t \in Requests /\ stored' = stored \ {t} /\ req' = req
      /\ pc[p] = "claim" /\ pc' = [pc EXCEPT ![p] = "sign"] /\ req[p].op = "refresh"
  BY DEF Step, Claim, Goto, TypeOK, RequestsGuarded, StepsFit
<1>2. HeldBy(p, t)'
  BY <1>1 DEF HeldBy, Holding, TypeOK
<1>3. Life(t) = "live" /\ Life(t)' = "taken"
  BY <1>1, <1>2 DEF Life, HeldBy
<1>4. ASSUME NEW x \in Requests \ {t} PROVE Keeps(x)
  <2>1. ~HeldBy(p, x)' /\ ~HeldBy(p, x) /\ ~SpentBy(p, x)' /\ ~SpentBy(p, x)
    BY <1>1 DEF HeldBy, SpentBy
  <2> QED BY <1>1, <2>1, StepKeeps
<1>5. Rotation!Change(made)
  BY <1>1, <1>3, <1>4, LifeChange
<1>6. Rotation!Take(t)
  BY <1>1, <1>3, <1>5 DEF Rotation!Take
<1> QED BY <1>1, <1>6 DEF Rotation!Next

\* A token that a request gives back, or loses when it cannot be saved again.
LEMMA RestoreRotates ==
  ASSUME TypeOK, RequestsGuarded, RedeemedOnce, Numbered, OwnRowStays, NEW p \in Requests,
         Save(p) \/ CommitSave(p) \/ SaveFails(p), pc[p] \in {"restore", "restoreCommit"}
  PROVE  Rotation!Next
<1> DEFINE t == req[p].token
           end == IF SaveFails(p) THEN "dropped" ELSE "live"
           made == [x \in {t} |-> end]
<1>1. /\ Step(p) /\ req' = req /\ pc' = [pc EXCEPT ![p] = "failed"] /\ req[p].op = "refresh"
      /\ t \in Requests /\ pc[t] = "ok" /\ Saving(p) = t /\ HeldBy(p, t)
  BY DEF Step, Save, CommitSave, SaveFails, AfterSave, Goto, TypeOK, RequestsGuarded,
         StepsFit, PresentsIssued, Saving, HeldBy, Holding
<1>2. /\ t \notin stored
      /\ \A q \in Requests \ {p} : ~HeldBy(q, t) /\ ~SpentBy(q, t)
  BY <1>1, LifeFacts
<1>3. Life(t) = "taken"
  BY <1>1, <1>2, LifeCases
<1>4. \A x \in Requests : (x \in stored' => x \in stored \/ x = t)
  BY <1>1, StoredGrows
<1>5. ~SaveFails(p) => t \in stored'
  BY <1>1, NewestStays DEF Save, CommitSave, OwnRowStays
<1>6. SaveFails(p) => t \notin stored'
  BY <1>2 DEF SaveFails, tokenStore
<1>7. \A q \in Requests : ~HeldBy(q, t)' /\ ~SpentBy(q, t)'
  BY <1>1, <1>2, OtherHolders DEF HeldBy, SpentBy, Holding, Redeemed, TypeOK
<1>8. Life(t)' = end
  <2>1. pc'[t] \in OverPcs
    BY <1>1 DEF OverPcs, TypeOK
  <2>2. Life(t)' = IF t \in stored' THEN "live" ELSE "dropped"
    BY <1>1, <1>7, <2>1, LifeCasesNext
  <2> QED BY <1>5, <1>6, <2>2
<1>9. ASSUME NEW x \in Requests \ {t} PROVE Keeps(x)
  <2>1. ~HeldBy(p, x)' /\ ~HeldBy(p, x) /\ ~SpentBy(p, x)' /\ ~SpentBy(p, x)
    BY <1>1 DEF HeldBy, SpentBy
  <2> QED BY <1>1, <1>4, <2>1, StepKeeps
<1>10. Rotation!Change(made)
  BY <1>1, <1>8, <1>9, LifeChange
<1>11. Rotation!GiveBack(t) \/ Rotation!Lose(t)
  BY <1>1, <1>3, <1>10 DEF Rotation!GiveBack, Rotation!Lose
<1> QED BY <1>1, <1>11 DEF Rotation!Next

\* A new token, in exchange for the old one when there is one.
LEMMA SaveRotates ==
  ASSUME TypeOK, RequestsGuarded, RedeemedOnce, Numbered, OwnRowStays, NEW p \in Requests,
         Save(p) \/ CommitSave(p), pc[p] \in {"save", "commit"}
  PROVE  Rotation!Next
<1>1. /\ Step(p) /\ req' = req /\ Saving(p) = p
      /\ pc'[p] = IF req[p].op = "change" THEN "replace" ELSE "ok"
  BY DEF Step, Save, CommitSave, AfterSave, Goto, TypeOK, Saving
<1>2. p \in stored' /\ \A x \in Requests : (x \in stored' => x \in stored \/ x = p)
  BY <1>1, NewestStays, StoredGrows DEF Save, CommitSave, OwnRowStays
<1>3. \A q \in Requests : ~HeldBy(q, p) /\ ~SpentBy(q, p)
  BY LifeFacts
<1>4. Life(p) = "none" /\ Life(p)' = "live"
  <2>1. p \notin stored /\ pc[p] \notin OverPcs
    BY LifeFacts DEF OverPcs
  <2> QED BY <1>2, <1>3, <2>1, LifeCases DEF Life
<1>5. CASE req[p].op # "refresh"
  <2> DEFINE made == [x \in {p} |-> "live"]
  <2>1. ASSUME NEW x \in Requests \ {p} PROVE Keeps(x)
    <3>1. ~HeldBy(p, x)' /\ ~HeldBy(p, x) /\ ~SpentBy(p, x)' /\ ~SpentBy(p, x)
      BY <1>1, <1>5 DEF HeldBy, SpentBy, Holding, Redeemed
    <3> QED BY <1>1, <1>2, <3>1, StepKeeps
  <2>2. Rotation!Change(made)
    BY <1>4, <2>1, LifeChange
  <2>3. Rotation!Issue(p)
    BY <1>4, <2>2 DEF Rotation!Issue
  <2> QED BY <2>3 DEF Rotation!Next
<1>6. CASE req[p].op = "refresh"
  <2>0. req[p].token \in Requests
    BY <1>1, <1>6 DEF RequestsGuarded, PresentsIssued, Save, CommitSave
  <2> PICK t \in Requests : t = req[p].token
    BY <2>0
  <2> DEFINE made == [x \in {t, p} |-> IF x = t THEN "spent" ELSE "live"]
  <2>1. /\ t \in Requests /\ pc[t] = "ok" /\ HeldBy(p, t) /\ t # p
        /\ SpentBy(p, t)'
    BY <1>1, <1>6 DEF RequestsGuarded, PresentsIssued, HeldBy, SpentBy, Holding, Redeemed
  <2>2. /\ t \notin stored
        /\ \A q \in Requests \ {p} : ~HeldBy(q, t) /\ ~SpentBy(q, t)
    BY <2>1, LifeFacts
  <2>3. Life(t) = "taken"
    BY <2>1, <2>2, LifeCases
  <2>4. \A q \in Requests : ~HeldBy(q, t)'
    BY <1>1, <1>6, <2>2, OtherHolders DEF HeldBy, Holding
  <2>5. Life(t)' = "spent"
    <3>1. t \notin stored' /\ \E q \in Requests : SpentBy(q, t)'
      BY <1>2, <2>1, <2>2
    <3> QED BY <2>1, <2>4, <3>1, LifeCasesNext
  <2>6. ASSUME NEW x \in Requests \ {t, p} PROVE Keeps(x)
    <3>1. ~HeldBy(p, x)' /\ ~HeldBy(p, x) /\ ~SpentBy(p, x)' /\ ~SpentBy(p, x)
      BY <1>1 DEF HeldBy, SpentBy
    <3> QED BY <1>1, <1>2, <3>1, StepKeeps
  <2>7. Rotation!Change(made)
    <3>1. DOMAIN made = {t, p} /\ {t, p} \in SUBSET Requests
      BY <2>1
    <3>2. \A x \in {t, p} : Life(x)' = made[x]
      <4>1. made[t] = "spent" /\ made[p] = "live"
        BY <2>1
      <4> HIDE DEF made
      <4> QED BY <1>4, <2>5, <4>1
    <3> HIDE DEF made
    <3> QED BY <2>6, <3>1, <3>2, LifeChange
  <2>8. Rotation!Exchange(t, p)
    <3>1. [x \in Requests |-> Life(x)][t] = "taken" /\ [x \in Requests |-> Life(x)][p] = "none"
      BY <1>4, <2>1, <2>3
    <3> QED BY <2>7, <3>1 DEF Rotation!Exchange
  <2> QED BY <2>1, <2>8 DEF Rotation!Next
<1> QED BY <1>5, <1>6

LEMMA EnvironmentRotates ==
  ASSUME RequestsGuarded, RedeemedOnce, Environment PROVE Rotation!Next
<1>1. pc' = pc /\ req' = req /\ stored' \subseteq stored
  BY EnvironmentStays
<1>2. \A t \in Requests : Keeps(t)
  BY <1>1, OtherLives DEF HeldBy, SpentBy, Holding, Redeemed
<1> QED BY <1>2, AllKept

LEMMA NextRotates ==
  ASSUME RotationGuarded, [Next]_vars
  PROVE  [Rotation!Next]_([t \in Requests |-> Life(t)])
<1>1. CASE UNCHANGED vars
  BY <1>1 DEF vars, tokenStore, Life, Holding, Redeemed
<1>2. CASE Environment
  BY <1>2, EnvironmentRotates DEF RotationGuarded, Guarded
<1>3. ASSUME NEW p \in Requests, Begin(p) PROVE Rotation!Next
  BY <1>3, BeginRotates DEF RotationGuarded, Guarded
<1>4. ASSUME NEW p \in Requests, Step(p) PROVE Rotation!Next
  <2>1. CASE pc[p] \in {"restore", "restoreCommit"} /\ (Save(p) \/ CommitSave(p) \/ SaveFails(p))
    BY <2>1, RestoreRotates DEF RotationGuarded, Guarded
  <2>2. CASE pc[p] \in {"save", "commit"} /\ (Save(p) \/ CommitSave(p))
    BY <2>2, SaveRotates DEF RotationGuarded, Guarded
  <2>3. CASE pc[p] \in {"save", "commit"} /\ SaveFails(p)
    BY <2>3, QuietRotates DEF RotationGuarded, Guarded
  <2>4. CASE Claim(p)
    BY <2>4, ClaimRotates, QuietRotates DEF RotationGuarded, Guarded
  <2>5. CASE FindUser(p) \/ Stamp(p) \/ Sign(p) \/ BeginSave(p) \/ Rollback(p) \/ Replace(p)
             \/ Discard(p) \/ Reset(p)
    BY <2>5, QuietRotates DEF RotationGuarded, Guarded
  <2>6. Save(p) \/ CommitSave(p) \/ SaveFails(p) =>
          pc[p] \in {"save", "commit", "restore", "restoreCommit"}
    BY DEF Save, CommitSave, SaveFails
  <2> QED BY <1>4, <2>1, <2>2, <2>3, <2>4, <2>5, <2>6 DEF Step
<1> QED BY <1>1, <1>2, <1>3, <1>4 DEF Next

\* Whatever the requests do at the same time, with either store and with writes
\* that fail, the life of every refresh token is the one RefreshRotation
\* promises: what was exchanged, revoked, evicted or lost never comes back.
\* (AuthService.refresh, invalidate, createTokens; IAuthStore)
THEOREM SpecImplementsRotation == Spec => ImplementsRotation
<1>1. Init => Rotation!Init
  BY DEF Init, Rotation!Init, Life, Holding, Redeemed
<1>2. Init => Numbered /\ OwnRowStays
  BY DEF Init, Numbered, OwnRowStays
<1>3. Guarded /\ (Numbered /\ OwnRowStays) /\ [Next]_vars => (Numbered /\ OwnRowStays)'
  <2> SUFFICES ASSUME Guarded, Numbered, OwnRowStays, [Next]_vars PROVE Numbered' /\ OwnRowStays'
    OBVIOUS
  <2>1. CASE UNCHANGED vars \/ Environment
    <3>1. /\ pc' = pc /\ req' = req /\ stored' \subseteq stored
          /\ createdAt' = createdAt /\ saves' = saves
      BY <2>1, EnvironmentStays DEF vars, tokenStore, Environment, SetStatus, Expire, Tick
    <3> QED BY <3>1 DEF Numbered, OwnRowStays, Saving
  <2>2. ASSUME NEW p \in Requests, Begin(p) \/ Step(p) PROVE Numbered' /\ OwnRowStays'
    BY <2>2, NextNumbered, NextOwnRow DEF Guarded
  <2> QED BY <2>1, <2>2 DEF Next
<1>4. RotationGuarded /\ [Next]_vars => [Rotation!Next]_([t \in Requests |-> Life(t)])
  BY NextRotates
<1> QED BY <1>1, <1>2, <1>3, <1>4, SpecGuarded, SpecRedeemedOnce, PTL
        DEF Spec, RotationGuarded, ImplementsRotation, Rotation!Spec

\* A refresh token that was exchanged, revoked, evicted or lost never comes
\* back, whoever presents it.  (findRefresh, deleteRefresh, revokeUserTokens)
THEOREM SpecFinal == Spec => Rotation!Final
<1> DEFINE state == [t \in Requests |-> Life(t)]
           End(t) == state[t] \in {"spent", "dropped"} => state'[t] = state[t]
<1>1. ASSUME NEW made, Rotation!Change(made), NEW t \in Requests, t \notin DOMAIN made
      PROVE  End(t)
  <2>1. PICK dropped \in SUBSET {x \in Requests : state[x] \in {"none", "live"}} :
          state' = [x \in Requests |-> IF x \in DOMAIN made THEN made[x]
                                       ELSE IF x \in dropped THEN "dropped" ELSE state[x]]
    BY <1>1 DEF Rotation!Change
  <2>2. state'[t] = IF t \in dropped THEN "dropped" ELSE state[t]
    <3> HIDE DEF state
    <3> QED BY <1>1, <2>1
  <2>3. t \in dropped => state[t] \in {"none", "live"}
    OBVIOUS
  <2> HIDE DEF state
  <2> QED BY <2>2, <2>3
<1>2. Rotation!Next => \A t \in Requests : End(t)
  <2> SUFFICES ASSUME Rotation!Next, NEW t \in Requests PROVE End(t)
    OBVIOUS
  <2>1. CASE Rotation!Drop
    BY <1>1, <2>1 DEF Rotation!Drop
  <2>2. ASSUME NEW x \in Requests,
               Rotation!Issue(x) \/ Rotation!Take(x) \/ Rotation!GiveBack(x) \/ Rotation!Lose(x)
        PROVE  End(t)
    <3>1. state[x] \in {"none", "live", "taken"}
      BY <2>2 DEF Rotation!Issue, Rotation!Take, Rotation!GiveBack, Rotation!Lose
    <3>2. PICK end : Rotation!Change([y \in {x} |-> end])
      BY <2>2 DEF Rotation!Issue, Rotation!Take, Rotation!GiveBack, Rotation!Lose
    <3>3. CASE t = x
      <4> HIDE DEF state
      <4> QED BY <3>1, <3>3
    <3>4. CASE t # x
      BY <1>1, <3>2, <3>4
    <3> QED BY <3>3, <3>4
  <2>3. ASSUME NEW x \in Requests, NEW n \in Requests, Rotation!Exchange(x, n) PROVE End(t)
    <3>1. state[x] = "taken" /\ state[n] = "none"
      BY <2>3 DEF Rotation!Exchange
    <3>2. CASE t \in {x, n}
      <4> HIDE DEF state
      <4> QED BY <3>1, <3>2
    <3>3. CASE t \notin {x, n}
      BY <1>1, <2>3, <3>3 DEF Rotation!Exchange
    <3> QED BY <3>2, <3>3
  <2> QED BY <2>1, <2>2, <2>3 DEF Rotation!Next
<1>3. [Rotation!Next]_state => [\A t \in Requests : End(t)]_state
  <2> HIDE DEF End, state
  <2> QED BY <1>2
<1> QED BY <1>3, SpecImplementsRotation, PTL
        DEF ImplementsRotation, Rotation!Spec, Rotation!Final
=============================================================================
