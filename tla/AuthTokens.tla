----------------------------- MODULE AuthTokens -----------------------------
(***************************************************************************)
(* Access and refresh tokens of the accounts: AuthService, the refresh     *)
(* token store behind it, the password resets of AdminService and the      *)
(* check that JwtStrategy makes of an access token.                        *)
(*                                                                         *)
(* A request is one HTTP call and happens once, and it issues at most one  *)
(* pair, so the pair and its refresh token (the jti) are named by the      *)
(* request: "p \in stored" says that the store has the token p issued.     *)
(* Every await of the store, of a password hash or of a signature is a     *)
(* point where other requests run.  A password is known by the epoch of    *)
(* the account, which counts its changes; requests with a wrong password   *)
(* change nothing and are left out, as are users that are removed by an    *)
(* administrator.                                                          *)
(***************************************************************************)
EXTENDS Naturals, FiniteSets

CONSTANTS
  Requests,         \* HTTP requests, each served once
  Users,            \* accounts (uuid and username)
  Ops,              \* the operations in use
  MaxTokens,        \* MAX_REFRESH_TOKENS_PER_USER
  Sql,              \* the store is a database, not the maps of one process
  StoreFaults,      \* a write of the database may fail
  MasterPassword,   \* MASTER_PASSWORD is configured
  TicksPerSecond,   \* resolution of the clock within the seconds of iat
  MaxTicks,         \* bound of the clock
  NoToken

Operations == {"register", "login", "refresh", "invalidate", "change", "reset"}
IssuingOps == {"register", "login", "refresh", "change"}

ASSUME AuthAssumption ==
  /\ IsFiniteSet(Requests) /\ Users # {}
  /\ Ops \subseteq Operations
  /\ MaxTokens \in Nat \ {0}
  /\ Sql \in BOOLEAN /\ MasterPassword \in BOOLEAN
  /\ StoreFaults \in BOOLEAN /\ (StoreFaults => Sql)
  /\ TicksPerSecond \in Nat \ {0} /\ MaxTicks \in Nat
  /\ NoToken \notin Requests

VARIABLES
  status,      \* status[u]: the account does not exist, may not log in, may
  changedAt,   \* changedAt[u]: passwordChangedAt, 0 when it never changed
  stored,      \* the refresh tokens in the store
  createdAt,   \* createdAt[t]: when t was stored, counted in saves
  saves,       \* the number of saves so far
  now,         \* the clock
  pc,          \* where a request is
  req,         \* what a request has in its local variables
  epoch,       \* history: epoch[u] counts the changes of the password
  requestedAt, \* history: when the latest change of u's password was requested
  overlap      \* history: a change of u's password met another request of u

tokenStore == <<stored, createdAt, saves>>
passwords == <<changedAt, epoch, requestedAt, overlap>>
vars == <<status, passwords, tokenStore, now, pc, req>>

Statuses == {"absent", "barred", "active", "deleted"}
Pcs == {"idle", "failed", "ok", "findUser", "claim", "stamp", "sign", "save", "commit",
        "restore", "restoreCommit", "rollback", "replace", "discard", "reset"}

\* token: the refresh token presented; epoch: the password the request, or the
\* session it continues, was admitted with; begun: when it came (history); stamp:
\* changedAt of changePassword; iat: of the access token; victims: what a
\* transaction found to evict.
Request == [op : Operations, user : Users, token : Requests \cup {NoToken},
            epoch : Nat, begun : Nat, stamp : Nat, iat : Nat, victims : SUBSET Requests]

Blank == [op |-> "login", user |-> CHOOSE u \in Users : TRUE, token |-> NoToken,
          epoch |-> 0, begun |-> 0, stamp |-> 0, iat |-> 0, victims |-> {}]

Second(n) == n \div TicksPerSecond

UserOf(t) == req[t].user
TokensOf(u) == {t \in stored : UserOf(t) = u}
\* The pairs that were handed out.
Issued == {t \in Requests : pc[t] = "ok" /\ req[t].op \in IssuingOps}

TypeOK ==
  /\ status \in [Users -> Statuses]
  /\ changedAt \in [Users -> Nat]
  /\ stored \subseteq Requests
  /\ createdAt \in [Requests -> Nat]
  /\ saves \in Nat
  /\ now \in Nat
  /\ pc \in [Requests -> Pcs]
  /\ req \in [Requests -> Request]
  /\ epoch \in [Users -> Nat]
  /\ requestedAt \in [Users -> Nat]
  /\ overlap \in [Users -> BOOLEAN]

\* The accounts that exist at the start are approved.
Init ==
  /\ status \in [Users -> {"absent", "active"}]
  /\ changedAt = [u \in Users |-> 0]
  /\ stored = {}
  /\ createdAt = [t \in Requests |-> 0]
  /\ saves = 0
  /\ now = 0
  /\ pc = [p \in Requests |-> "idle"]
  /\ req = [p \in Requests |-> Blank]
  /\ epoch = [u \in Users |-> 0]
  /\ requestedAt = [u \in Users |-> 0]
  /\ overlap = [u \in Users |-> FALSE]
-----------------------------------------------------------------------------
Goto(p, where) == pc' = [pc EXCEPT ![p] = where]
Keep(p, r) == req' = [req EXCEPT ![p] = r]

Start(p, op, u, t, e, where) ==
  /\ pc[p] = "idle" /\ op \in Ops
  /\ Keep(p, [Blank EXCEPT !.op = op, !.user = u, !.token = t, !.epoch = e,
                          !.begun = now])
  /\ Goto(p, where)

(***************************************************************************)
(* The requests.  Checks made before the first await that matters have     *)
(* passed; a request they refuse changes nothing.                          *)
(***************************************************************************)
\* A new account waits for approval, yet gets its pair.
StartRegister(p) == \E u \in Users :
  /\ status[u] = "absent"
  /\ Start(p, "register", u, NoToken, epoch[u], "sign")
  /\ status' = [status EXCEPT ![u] = "barred"]
  /\ UNCHANGED <<passwords, tokenStore, now>>

\* The account is read once; the password is verified against what was read.
\* The master password fits every account and skips the checks of its status.
StartLogin(p) == \E u \in Users :
  /\ status[u] = "active" \/ (MasterPassword /\ status[u] = "barred")
  /\ Start(p, "login", u, NoToken, epoch[u], "sign")
  /\ UNCHANGED <<status, passwords, tokenStore, now>>

\* BUG: the jti is taken for the uuid.
StartRefreshByJti(p) == \E t \in Issued \cap stored :
  /\ Start(p, "refresh", t, t, req[t].epoch, "findUser")
  /\ UNCHANGED <<status, passwords, tokenStore, now>>

\* findRefresh finds the token presented.
StartRefresh(p) == \E t \in Issued \cap stored :
  /\ Start(p, "refresh", UserOf(t), t, req[t].epoch, "findUser")
  /\ UNCHANGED <<status, passwords, tokenStore, now>>

\* The user logs out, with whatever refresh token the client has.
Invalidate(p) == \E t \in Issued :
  /\ Start(p, "invalidate", UserOf(t), t, req[t].epoch, "ok")
  /\ stored' = stored \ {t}
  /\ UNCHANGED <<status, passwords, createdAt, saves, now>>

StartChange(p) == \E u \in Users :
  /\ status[u] = "active"
  /\ Start(p, "change", u, NoToken, epoch[u], "stamp")
  /\ UNCHANGED <<status, passwords, tokenStore, now>>

StartReset(p) == \E u \in Users :
  /\ status[u] \in {"active", "barred"}
  /\ Start(p, "reset", u, NoToken, epoch[u], "reset")
  /\ UNCHANGED <<status, passwords, tokenStore, now>>

(***************************************************************************)
(* refresh, up to the claim                                                *)
(***************************************************************************)
FindUser(p) ==
  /\ pc[p] = "findUser"
  /\ Goto(p, IF status[req[p].user] = "active" THEN "claim" ELSE "failed")
  /\ UNCHANGED <<status, passwords, tokenStore, now, req>>

\* BUG: the claim does not look whether the token is still there.
ClaimUnchecked(p) ==
  /\ pc[p] = "claim"
  /\ stored' = stored \ {req[p].token}
  /\ Goto(p, "sign")
  /\ UNCHANGED <<status, passwords, createdAt, saves, now, req>>

\* The store takes the token out and says whether it was there.
Claim(p) ==
  /\ pc[p] = "claim"
  /\ stored' = stored \ {req[p].token}
  /\ Goto(p, IF req[p].token \in stored THEN "sign" ELSE "failed")
  /\ UNCHANGED <<status, passwords, createdAt, saves, now, req>>

(***************************************************************************)
(* createTokens                                                            *)
(***************************************************************************)
Stamp(p) ==
  /\ pc[p] = "stamp"
  /\ Keep(p, [req[p] EXCEPT !.stamp = now])
  /\ Goto(p, "sign")
  /\ UNCHANGED <<status, passwords, tokenStore, now>>

Sign(p) ==
  /\ pc[p] = "sign"
  /\ Keep(p, [req[p] EXCEPT !.iat = Second(now)])
  /\ Goto(p, "save")
  /\ UNCHANGED <<status, passwords, tokenStore, now>>

\* BUG: a refresh keeps its jti.
SavingSame(p) == IF req[p].op = "refresh" THEN req[p].token ELSE p

\* The token a save is about: a refresh that failed saves the old one again.
Saving(p) == IF pc[p] \in {"restore", "restoreCommit"} THEN req[p].token ELSE p

\* Where a request goes when its save is over.
AfterSave(p) == IF pc[p] \in {"restore", "restoreCommit"} THEN "failed"
                ELSE IF req[p].op = "change" THEN "replace" ELSE "ok"

\* BUG: the limit is applied before the new token is in.
EvictedBefore(t, at) ==
  LET mine == TokensOf(UserOf(t)) \ {t} IN
  {x \in mine : MaxTokens < Cardinality({y \in mine : at[x] <= at[y]})}

\* The rows a save removes when t is added: all but the newest of the user.
Evicted(t, at) ==
  LET mine == TokensOf(UserOf(t)) \cup {t} IN
  {x \in mine : MaxTokens < Cardinality({y \in mine : at[x] <= at[y]})}

\* The store of one process: the token goes in and the oldest ones over the
\* limit go out in one turn.
Save(p) ==
  LET t == Saving(p)
      at == [createdAt EXCEPT ![t] = saves]
  IN
  /\ pc[p] \in {"save", "restore"} /\ ~Sql
  /\ createdAt' = at
  /\ saves' = saves + 1
  /\ stored' = (stored \cup {t}) \ Evicted(t, at)
  /\ Goto(p, AfterSave(p))
  /\ UNCHANGED <<status, passwords, now, req>>

\* The database: the transaction inserts a row that nobody else sees yet and
\* finds the rows to delete among those that are committed.
BeginSave(p) ==
  LET t == Saving(p)
      at == [createdAt EXCEPT ![t] = saves]
  IN
  /\ pc[p] \in {"save", "restore"} /\ Sql
  /\ createdAt' = at
  /\ saves' = saves + 1
  /\ Keep(p, [req[p] EXCEPT !.victims = Evicted(t, at)])
  /\ Goto(p, IF pc[p] = "save" THEN "commit" ELSE "restoreCommit")
  /\ UNCHANGED <<status, passwords, stored, now>>

CommitSave(p) ==
  /\ pc[p] \in {"commit", "restoreCommit"}
  /\ stored' = (stored \cup {Saving(p)}) \ req[p].victims
  /\ Goto(p, AfterSave(p))
  /\ UNCHANGED <<status, passwords, createdAt, saves, now, req>>

SaveFails(p) ==
  /\ StoreFaults /\ pc[p] \in {"save", "commit", "restore", "restoreCommit"}
  /\ Goto(p, IF pc[p] \in {"save", "commit"} /\ req[p].op = "refresh" THEN "restore"
             ELSE IF req[p].op = "register" THEN "rollback" ELSE "failed")
  /\ UNCHANGED <<status, passwords, tokenStore, now, req>>

\* rollbackRegistration: the account is removed, or its removal is logged.
Rollback(p) ==
  /\ pc[p] = "rollback"
  /\ \/ status' = [status EXCEPT ![req[p].user] = "deleted"]
     \/ StoreFaults /\ UNCHANGED status
  /\ Goto(p, "failed")
  /\ UNCHANGED <<passwords, tokenStore, now, req>>

(***************************************************************************)
(* replacePassword                                                         *)
(***************************************************************************)
\* The steps between the check of a request and its last change.
UnderWay(p) == pc[p] \in {"stamp", "sign", "save", "commit", "restore", "restoreCommit",
                          "replace", "reset"}

\* BUGS: the tokens are not revoked; the time of the change is not stored.
ReplaceOnly(p, u, at, kept) ==
  /\ UNCHANGED stored
  /\ changedAt' = [changedAt EXCEPT ![u] = at]
  /\ epoch' = [epoch EXCEPT ![u] = @ + 1]
  /\ UNCHANGED <<requestedAt, overlap, status, createdAt, saves, now>>
ReplaceUntimed(p, u, at, kept) ==
  /\ stored' = {t \in stored : UserOf(t) # u \/ t \in kept}
  /\ epoch' = [epoch EXCEPT ![u] = @ + 1]
  /\ requestedAt' = [requestedAt EXCEPT ![u] = req[p].begun]
  /\ UNCHANGED <<changedAt, overlap, status, createdAt, saves, now>>

\* The password of u changes and its tokens go, but for those in kept.  In the
\* database the password of a deleted account stays.
ReplacePassword(p, u, at, kept) ==
  /\ stored' = {t \in stored : UserOf(t) # u \/ t \in kept}
  /\ changedAt' = [changedAt EXCEPT ![u] = IF Sql /\ status[u] = "deleted" THEN @ ELSE at]
  /\ epoch' = [epoch EXCEPT ![u] = @ + 1]
  /\ requestedAt' = [requestedAt EXCEPT ![u] = IF @ < req[p].begun THEN req[p].begun ELSE @]
  /\ overlap' = [overlap EXCEPT ![u] =
       @ \/ \E q \in Requests \ {p} : UserOf(q) = u /\ UnderWay(q)]
  /\ UNCHANGED <<status, createdAt, saves, now>>

\* BUG: the time of the change is taken when the password is written.
ReplaceNow(p) ==
  /\ pc[p] = "replace"
  /\ ReplacePassword(p, req[p].user, now, {p})
  /\ Keep(p, [req[p] EXCEPT !.epoch = epoch[req[p].user] + 1])
  /\ Goto(p, "ok")

Replace(p) ==
  LET u == req[p].user IN
  /\ pc[p] = "replace"
  /\ \/ /\ ReplacePassword(p, u, req[p].stamp, {p})
        /\ Keep(p, [req[p] EXCEPT !.epoch = epoch[u] + 1])
        /\ Goto(p, "ok")
     \/ /\ StoreFaults /\ Goto(p, "discard")
        /\ UNCHANGED <<status, passwords, tokenStore, now, req>>

\* deleteRefreshQuietly
Discard(p) ==
  /\ pc[p] = "discard"
  /\ \/ stored' = stored \ {p}
     \/ StoreFaults /\ UNCHANGED stored
  /\ Goto(p, "failed")
  /\ UNCHANGED <<status, passwords, createdAt, saves, now, req>>

\* setUserPassword: refused when the account has gone meanwhile.
Reset(p) ==
  LET u == req[p].user IN
  /\ pc[p] = "reset"
  /\ \/ /\ status[u] # "deleted"
        /\ ReplacePassword(p, u, now, {})
        /\ Goto(p, "ok")
     \/ /\ status[u] = "deleted" \/ StoreFaults
        /\ Goto(p, "failed")
        /\ UNCHANGED <<status, passwords, tokenStore, now>>
  /\ UNCHANGED req

(***************************************************************************)
(* What happens by itself                                                  *)
(***************************************************************************)
\* setApproved and setBanned of AdminService.
SetStatus(u) ==
  /\ \/ status[u] = "barred" /\ status' = [status EXCEPT ![u] = "active"]
     \/ status[u] = "active" /\ status' = [status EXCEPT ![u] = "barred"]
  /\ UNCHANGED <<passwords, tokenStore, now, pc, req>>

\* The time to live of a token is over: no query finds it any more.  It is
\* longer than any request.
Expire(t) ==
  /\ t \in stored /\ pc[t] \in {"ok", "failed"}
  /\ stored' = stored \ {t}
  /\ UNCHANGED <<status, passwords, createdAt, saves, now, pc, req>>

Tick ==
  /\ now < MaxTicks
  /\ now' = now + 1
  /\ UNCHANGED <<status, passwords, tokenStore, pc, req>>
-----------------------------------------------------------------------------
Begin(p) == \/ StartRegister(p) \/ StartLogin(p) \/ StartRefresh(p) \/ Invalidate(p)
            \/ StartChange(p) \/ StartReset(p)

Step(p) == \/ FindUser(p) \/ Claim(p) \/ Stamp(p) \/ Sign(p)
           \/ Save(p) \/ BeginSave(p) \/ CommitSave(p) \/ SaveFails(p) \/ Rollback(p)
           \/ Replace(p) \/ Discard(p) \/ Reset(p)

Environment == \/ \E u \in Users : SetStatus(u)
               \/ \E t \in Requests : Expire(t)
               \/ Tick

Next == (\E p \in Requests : Begin(p) \/ Step(p)) \/ Environment

Spec == Init /\ [][Next]_vars

-----------------------------------------------------------------------------
\* p has the token it presented, and is to answer with a new pair or to give
\* the token back.
Holding(p) == /\ req[p].op = "refresh"
              /\ pc[p] \in {"sign", "save", "commit", "restore", "restoreCommit"}
Redeemed(p) == req[p].op = "refresh" /\ pc[p] = "ok"

\* Of several refreshes with one token at most one succeeds, and while one
\* holds the token no other one does, nor is the token in the store.
RedeemedOnce ==
  \A p \in Requests : Holding(p) \/ Redeemed(p) =>
    /\ req[p].token \notin stored
    /\ \A q \in Requests \ {p} :
         Holding(q) \/ Redeemed(q) => req[q].token # req[p].token

\* A user never has more refresh tokens than the limit.
WithinLimit == \A u \in Users : Cardinality(TokensOf(u)) <= MaxTokens

\* The life of a token, as RefreshRotation tells it.
Life(t) ==
  IF t \in stored THEN "live"
  ELSE IF \E p \in Requests : Holding(p) /\ req[p].token = t THEN "taken"
  ELSE IF \E p \in Requests : Redeemed(p) /\ req[p].token = t THEN "spent"
  ELSE IF pc[t] \in {"ok", "failed", "replace", "discard"} THEN "dropped"
  ELSE "none"

Rotation == INSTANCE RefreshRotation WITH
  Tokens <- Requests, state <- [t \in Requests |-> Life(t)]

\* The requests rotate the tokens as promised: a token that was exchanged,
\* revoked, evicted or lost never comes back.
ImplementsRotation == Rotation!Spec

\* A change of the password ends every session that was opened before it: the
\* store has no refresh token of an older password.
OldSessionsEnd == \A t \in stored : req[t].epoch = epoch[UserOf(t)]

\* The same, for a user whose changes met no other request under way.
SessionsFollowPassword ==
  \A t \in stored : overlap[UserOf(t)] \/ req[t].epoch = epoch[UserOf(t)]

\* issuedBeforePasswordChange of JwtStrategy is false: t's access token works.
Accepted(t) == Second(changedAt[UserOf(t)]) <= req[t].iat

\* A change of the password ends every access token issued before it, but for
\* those issued in or after the second in which the change was requested, and
\* for changes that met another request.  (JwtStrategy)
AccessFollowsPassword ==
  \A t \in Issued : Accepted(t) => \/ overlap[UserOf(t)]
                                   \/ req[t].epoch = epoch[UserOf(t)]
                                   \/ Second(requestedAt[UserOf(t)]) <= req[t].iat

\* The pair that answers a change of the password is good until the next one:
\* its access token is accepted.
ChangedPairAccepted ==
  \A t \in Issued : req[t].op = "change" /\ req[t].epoch = epoch[UserOf(t)] => Accepted(t)

\* After a logout the refresh token is not in the store again.
LogoutHolds ==
  \A p \in Requests : req[p].op = "invalidate" /\ pc[p] = "ok" => req[p].token \notin stored

-----------------------------------------------------------------------------
(***************************************************************************)
(* Why a token is redeemed once and a session follows its password: what   *)
(* the steps of a request can rely on, one conjunct per idea.              *)
(***************************************************************************)
\* The steps between the check of the password, or the claim, and the save.
Admitted == {"stamp", "sign", "save", "commit", "restore", "restoreCommit"}

\* A refresh presents a token that was handed out before, and continues the
\* session of that token.
PresentsIssued(p) ==
  pc[p] # "idle" /\ req[p].op = "refresh" =>
    LET t == req[p].token IN
    /\ t \in Requests /\ pc[t] = "ok"
    /\ req[t].user = req[p].user /\ req[t].epoch = req[p].epoch

StepsFit(p) ==
  /\ pc[p] \in {"findUser", "claim", "restore", "restoreCommit"} => req[p].op = "refresh"
  /\ pc[p] \in {"stamp", "replace", "discard"} => req[p].op = "change"
  /\ pc[p] = "reset" => req[p].op = "reset"

\* What was admitted under an older password has met a change.
AdmittedNow(p) ==
  pc[p] \in Admitted => overlap[UserOf(p)] \/ req[p].epoch = epoch[UserOf(p)]

\* A token is in the store only after the save of the request that issued it.
StoredBySave(p) == p \in stored => pc[p] \in {"ok", "failed", "replace", "discard"}

RequestsGuarded == \A p \in Requests : PresentsIssued(p) /\ StepsFit(p) /\ StoredBySave(p)
SessionsGuarded == \A p \in Requests : AdmittedNow(p)
=============================================================================
