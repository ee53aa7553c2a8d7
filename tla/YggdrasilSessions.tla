------------------------- MODULE YggdrasilSessions -------------------------
(***************************************************************************)
(* The authlib-injector protocol of YggdrasilService: its access tokens    *)
(* (YggdrasilMapTokenStore) and the sessions by which a game server learns *)
(* that a player has joined (YggdrasilMapSessionStore).  Both stores are   *)
(* in the memory of the process whatever the database is, so their calls   *)
(* never fail and each is one turn; between two calls other requests run,  *)
(* accounts are banned, deleted and registered anew, and time passes.      *)
(*                                                                         *)
(* An access token is named by the request that issues it.  Every account  *)
(* has one profile, with the uuid of the account.  Requests that are       *)
(* refused for a wrong password, client token or format change nothing and *)
(* are left out.                                                           *)
(***************************************************************************)
EXTENDS Naturals, FiniteSets, SequencesExt

CONSTANTS
  Requests,    \* HTTP requests, each served once
  Accounts,    \* uuids of accounts, and of their profiles
  Names,       \* user names
  NameOf,      \* NameOf[a]: the name of an account
  Servers,     \* serverId of a join
  Ops,         \* the operations in use
  MaxTokens,   \* MAX_TOKENS_PER_USER
  TokenTtl,    \* TOKEN_TTL_MS
  SessionTtl,  \* SESSION_TTL_MS
  MaxTicks,    \* bound of the clock
  None

Operations == {"authenticate", "refresh", "validate", "invalidate", "signout",
               "join", "jwtJoin", "hasJoined"}

ASSUME SessionsAssumption ==
  /\ IsFiniteSet(Requests) /\ Accounts # {} /\ Servers # {}
  /\ NameOf \in [Accounts -> Names]
  /\ Ops \subseteq Operations
  /\ MaxTokens \in Nat \ {0} /\ TokenTtl \in Nat \ {0} /\ SessionTtl \in Nat \ {0}
  /\ MaxTicks \in Nat
  /\ None \notin Requests \cup Accounts \cup Names \cup Servers

VARIABLES
  now,       \* the clock
  status,    \* status[a]: of the account
  changedAt, \* changedAt[a]: passwordChangedAt
  store,     \* the access tokens in the map
  entry,     \* entry[t]: what the store keeps of a token
  session,   \* session[s]: the record of a server
  pc,        \* where a request is
  req,       \* what a request has in its local variables
  saved,     \* the order in which tokens were put there, those since removed too
  removed,   \* history: the tokens claimed, invalidated or signed out
  joins      \* history: the joins in their order

accounts == <<status, changedAt>>
tokens == <<store, entry, saved, removed>>
vars == <<now, accounts, tokens, session, pc, req, joins>>

Entry == [owner : Accounts, profile : Accounts \cup {None}, name : Names \cup {None},
          expires : Nat]
Join == [server : Servers, profile : Accounts, at : Nat, token : Requests \cup {None}]

\* entry: the copy of a token's entry; profiles: those read for it; selected: of
\* the token to be issued; seen: the number of joins when a session was read.
Request == [op : Operations, user : Accounts, token : Requests \cup {None},
            entry : Entry, profiles : SUBSET Accounts, selected : Accounts \cup {None},
            server : Servers, iat : Nat, at : Nat, seen : Nat]

Somebody == CHOOSE a \in Accounts : TRUE
NoEntry == [owner |-> Somebody, profile |-> None, name |-> None, expires |-> 0]
Blank == [op |-> "validate", user |-> Somebody, token |-> None, entry |-> NoEntry,
          profiles |-> {}, selected |-> None, server |-> CHOOSE s \in Servers : TRUE,
          iat |-> 0, at |-> 0, seen |-> 0]
NoSession == [profile |-> None, expires |-> 0]

Statuses == {"absent", "active", "banned", "deleted"}
Pcs == {"idle", "ok", "failed", "profiles", "user", "claim", "save", "active",
        "delete", "revoke", "join", "jwt", "profile"}

TypeOK ==
  /\ now \in Nat
  /\ status \in [Accounts -> Statuses] /\ changedAt \in [Accounts -> Nat]
  /\ store \subseteq Requests
  /\ entry \in [Requests -> Entry]
  /\ session \in [Servers -> [profile : Accounts \cup {None}, expires : Nat]]
  /\ pc \in [Requests -> Pcs] /\ req \in [Requests -> Request]
  /\ saved \in Seq(Requests) /\ IsInjective(saved)
  /\ removed \subseteq Requests
  /\ joins \in Seq(Join)

Init ==
  /\ now = 0
  /\ status \in [Accounts -> {"absent", "active"}]
  /\ \A a, b \in Accounts : status[a] = "active" /\ status[b] = "active" /\ a # b
                               => NameOf[a] # NameOf[b]
  /\ changedAt = [a \in Accounts |-> 0]
  /\ store = {} /\ saved = << >> /\ removed = {} /\ joins = << >>
  /\ entry = [t \in Requests |-> NoEntry]
  /\ session = [s \in Servers |-> NoSession]
  /\ pc = [p \in Requests |-> "idle"]
  /\ req = [p \in Requests |-> Blank]
-----------------------------------------------------------------------------
Go(p, where, r) == pc' = [pc EXCEPT ![p] = where] /\ req' = [req EXCEPT ![p] = r]
\* What a request that is over has in its variables matters to nobody.
Over(p, where) == Go(p, where, Blank)

Start(p, r, where) == pc[p] = "idle" /\ r.op \in Ops /\ Go(p, where, r)

\* findUserByUsername and findProfileByUuid see no deleted account.
Live(a) == status[a] \in {"active", "banned"}
Profiles(a) == {b \in {a} : Live(b)}
\* findActiveUserByUsername; at most one account of a name is not deleted.
ActiveUsers(name) == {a \in Accounts : NameOf[a] = name /\ status[a] = "active"}

Expired(t) == entry[t].expires <= now
Found(t) == t \in store /\ ~Expired(t)
LiveTokens(a) == {t \in store : entry[t].owner = a /\ ~Expired(t)}

\* t was issued before u.
Older(t, u) == \E i, j \in DOMAIN saved : i < j /\ saved[i] = t /\ saved[j] = u

Removing(ts) == store' = store \ ts

(***************************************************************************)
(* authenticate and refresh                                                *)
(***************************************************************************)
StartAuthenticate(p) == \E a \in Accounts :
  /\ status[a] = "active"
  /\ Start(p, [Blank EXCEPT !.op = "authenticate", !.user = a, !.entry.owner = a], "profiles")
  /\ UNCHANGED <<now, accounts, tokens, session, joins>>

\* findToken; "wanted" is the selectedProfile of the request, if it has one.
StartRefresh(p) == \E t \in ToSet(saved), wanted \in Accounts \cup {None} :
  /\ Found(t)
  /\ wanted # None => entry[t].profile = None
  /\ Start(p, [Blank EXCEPT !.op = "refresh", !.token = t, !.entry = entry[t],
                            !.selected = wanted], "profiles")
  /\ UNCHANGED <<now, accounts, tokens, session, joins>>

\* findProfilesByUserId, of the account the token was issued to.
FindProfiles(p) ==
  LET r == req[p]
      found == Profiles(r.entry.owner)
      refused == IF r.op = "authenticate" THEN found = {}
                 ELSE r.selected # None /\ r.selected \notin found
  IN
  /\ pc[p] = "profiles"
  /\ IF refused THEN Over(p, "failed")
     ELSE Go(p, IF r.op = "refresh" THEN "user" ELSE "save",
             [r EXCEPT !.profiles = found,
                       !.selected = IF r.entry.profile # None THEN r.entry.profile ELSE @])
  /\ UNCHANGED <<now, accounts, tokens, session, joins>>

\* The account is found again by the name in the entry, and may be another one.
FindUser(p) ==
  /\ pc[p] = "user"
  /\ \/ \E a \in ActiveUsers(req[p].entry.name) :
          Go(p, "claim", [req[p] EXCEPT !.user = a])
     \/ ActiveUsers(req[p].entry.name) = {} /\ Over(p, "failed")
  /\ UNCHANGED <<now, accounts, tokens, session, joins>>

\* BUG: whoever found the token earlier gets a new one.
ClaimUnchecked(p) ==
  /\ pc[p] = "claim"
  /\ Removing({req[p].token})
  /\ removed' = removed \cup {req[p].token}
  /\ Go(p, "save", req[p])
  /\ UNCHANGED <<now, accounts, entry, saved, session, joins>>

\* claimToken, after the answer has been prepared.
Claim(p) ==
  /\ pc[p] = "claim"
  /\ Removing({req[p].token})
  /\ removed' = removed \cup (store \cap {req[p].token})
  /\ IF Found(req[p].token) THEN Go(p, "save", req[p]) ELSE Over(p, "failed")
  /\ UNCHANGED <<now, accounts, entry, saved, session, joins>>

\* BUG: the newest tokens go.
EvictedNewest(a) ==
  LET live == LiveTokens(a) IN
  {t \in live : Cardinality({u \in live : Older(u, t)}) >= MaxTokens - 1}

\* deleteOldestUserTokens: all but the MAX_TOKENS_PER_USER - 1 newest.
Evicted(a) ==
  LET live == LiveTokens(a) IN
  {t \in live : Cardinality({u \in live : Older(t, u)}) >= MaxTokens - 1}

\* prepareAuthResponse selects a profile among those read ...
SelectedProfile(r) ==
  IF r.selected # None THEN IF r.selected \in r.profiles THEN r.selected ELSE None
  ELSE IF r.profiles = {} THEN None ELSE r.entry.owner

\* ... for the entry that authenticate and refresh make, with the name of a
\* profile, or with none.
NewEntry(r) ==
  [owner |-> r.user, profile |-> SelectedProfile(r), expires |-> now + TokenTtl,
   name |-> IF r.profiles = {} THEN None ELSE NameOf[r.entry.owner]]

\* saveToken
Save(p) ==
  LET r == req[p]
      kept == {t \in store : ~Expired(t)} \ Evicted(r.user)
  IN
  /\ pc[p] = "save"
  /\ store' = kept \cup {p}
  /\ entry' = [entry EXCEPT ![p] = NewEntry(r)]
  /\ saved' = Append(saved, p)
  /\ Go(p, "ok", [Blank EXCEPT !.op = r.op, !.token = r.token])
  /\ UNCHANGED <<now, accounts, removed, session, joins>>

\* Any lookup of an expired token drops it.
Forget == \E t \in store :
  /\ Expired(t) /\ Removing({t})
  /\ UNCHANGED <<now, accounts, entry, saved, removed, session, pc, req, joins>>

(***************************************************************************)
(* validate, invalidate and signout                                        *)
(***************************************************************************)
\* findToken of validate; authenticateTextureAccess does the same.
StartValidate(p) == \E t \in ToSet(saved) :
  /\ Found(t)
  /\ Start(p, [Blank EXCEPT !.op = "validate", !.token = t, !.entry = entry[t]], "active")
  /\ UNCHANGED <<now, accounts, tokens, session, joins>>

Validate(p) ==
  /\ pc[p] = "active"
  /\ Over(p, IF ActiveUsers(req[p].entry.name) # {} THEN "ok" ELSE "failed")
  /\ UNCHANGED <<now, accounts, tokens, session, joins>>

StartInvalidate(p) == \E t \in ToSet(saved) :
  /\ Start(p, [Blank EXCEPT !.op = "invalidate", !.token = t], "delete")
  /\ UNCHANGED <<now, accounts, tokens, session, joins>>

Invalidate(p) ==
  /\ pc[p] = "delete"
  /\ Removing({req[p].token})
  /\ removed' = removed \cup (store \cap {req[p].token})
  /\ Over(p, "ok")
  /\ UNCHANGED <<now, accounts, entry, saved, session, joins>>

\* A banned user may sign out too.
StartSignout(p) == \E a \in Accounts :
  /\ Live(a)
  /\ Start(p, [Blank EXCEPT !.op = "signout", !.user = a], "revoke")
  /\ UNCHANGED <<now, accounts, tokens, session, joins>>

\* deleteTokensByUserId
Signout(p) ==
  LET mine == {t \in store : entry[t].owner = req[p].user} IN
  /\ pc[p] = "revoke"
  /\ Removing(mine)
  /\ removed' = removed \cup mine
  /\ Over(p, "ok")
  /\ UNCHANGED <<now, accounts, entry, saved, session, joins>>

(***************************************************************************)
(* join and hasJoined                                                      *)
(***************************************************************************)
\* BUG: any profile may be joined with a token.
StartJoinAny(p) == \E t \in ToSet(saved), s \in Servers, a \in Accounts :
  /\ Found(t)
  /\ Start(p, [Blank EXCEPT !.op = "join", !.token = t, !.entry = entry[t],
                            !.selected = a, !.server = s], "join")
  /\ UNCHANGED <<now, accounts, tokens, session, joins>>

\* A join with a token is for the profile of the token.
StartJoin(p) == \E t \in ToSet(saved), s \in Servers, a \in Accounts :
  /\ Found(t) /\ entry[t].profile = a
  /\ Start(p, [Blank EXCEPT !.op = "join", !.token = t, !.entry = entry[t],
                            !.selected = a, !.server = s], "join")
  /\ UNCHANGED <<now, accounts, tokens, session, joins>>

\* An access JWT that the launcher has instead: its name and time of issue.
StartJwtJoin(p) == \E a, profile \in Accounts, s \in Servers, iat \in 0..now :
  /\ status[a] # "absent"
  /\ Start(p, [Blank EXCEPT !.op = "jwtJoin", !.user = a, !.selected = profile,
                            !.server = s, !.iat = iat], "jwt")
  /\ UNCHANGED <<now, accounts, tokens, session, joins>>

\* saveSession drops the expired sessions and replaces the one of the server.
SaveSession(p) ==
  LET r == req[p] IN
  /\ session' = [s \in Servers |->
       IF s = r.server THEN [profile |-> r.selected, expires |-> now + SessionTtl]
       ELSE IF session[s].expires <= now THEN NoSession ELSE session[s]]
  /\ joins' = Append(joins, [server |-> r.server, profile |-> r.selected, at |-> now,
                             token |-> r.token])
  /\ Over(p, "ok")

Joined(p) ==
  /\ pc[p] = "join"
  /\ \/ ActiveUsers(req[p].entry.name) # {} /\ SaveSession(p)
     \/ /\ ActiveUsers(req[p].entry.name) = {} /\ Over(p, "failed")
        /\ UNCHANGED <<session, joins>>
  /\ UNCHANGED <<now, accounts, tokens>>

\* issuedBeforePasswordChange
Stale(a, iat) == changedAt[a] > 0 /\ iat < changedAt[a]

\* verifyAccessJwt
JwtJoined(p) ==
  LET fit == {a \in ActiveUsers(NameOf[req[p].user]) : ~Stale(a, req[p].iat)} IN
  /\ pc[p] = "jwt"
  /\ \/ fit # {} /\ SaveSession(p)
     \/ fit = {} /\ Over(p, "failed") /\ UNCHANGED <<session, joins>>
  /\ UNCHANGED <<now, accounts, tokens>>

\* findSession
StartHasJoined(p) == \E s \in Servers :
  /\ session[s].profile # None /\ session[s].expires > now
  /\ Start(p, [Blank EXCEPT !.op = "hasJoined", !.server = s, !.at = now,
                 !.selected = session[s].profile, !.seen = Len(joins)], "profile")
  /\ UNCHANGED <<now, accounts, tokens, session, joins>>

\* The profile of the session is shown when it has the name that was asked for.
HasJoined(p) == \E name \in Names :
  /\ pc[p] = "profile"
  /\ IF Live(req[p].selected) /\ NameOf[req[p].selected] = name
     THEN Go(p, "ok", req[p]) ELSE Over(p, "failed")
  /\ UNCHANGED <<now, accounts, tokens, session, joins>>

(***************************************************************************)
(* What other components do to the accounts, and time                      *)
(***************************************************************************)
SetStatus(a, s) == /\ status' = [status EXCEPT ![a] = s]
                   /\ UNCHANGED <<now, changedAt, tokens, session, pc, req, joins>>

Administer == \E a \in Accounts :
  \/ status[a] = "active" /\ SetStatus(a, "banned")
  \/ status[a] = "banned" /\ SetStatus(a, "active")
  \/ Live(a) /\ SetStatus(a, "deleted")
  \/ /\ status[a] = "absent" /\ \A b \in Accounts : NameOf[b] = NameOf[a] => ~Live(b)
     /\ SetStatus(a, "active")

ChangePassword == \E a \in Accounts :
  /\ status[a] = "active" /\ changedAt[a] < now
  /\ changedAt' = [changedAt EXCEPT ![a] = now]
  /\ UNCHANGED <<now, status, tokens, session, pc, req, joins>>

Tick == /\ now < MaxTicks /\ now' = now + 1
        /\ UNCHANGED <<accounts, tokens, session, pc, req, joins>>

Next ==
  \/ \E p \in Requests :
       \/ StartAuthenticate(p) \/ StartRefresh(p) \/ FindProfiles(p) \/ FindUser(p)
       \/ Claim(p) \/ Save(p)
       \/ StartValidate(p) \/ Validate(p) \/ StartInvalidate(p) \/ Invalidate(p)
       \/ StartSignout(p) \/ Signout(p)
       \/ StartJoin(p) \/ Joined(p) \/ StartJwtJoin(p) \/ JwtJoined(p)
       \/ StartHasJoined(p) \/ HasJoined(p)
  \/ Forget \/ Administer \/ ChangePassword \/ Tick

Spec == Init /\ [][Next]_vars
-----------------------------------------------------------------------------
(***************************************************************************)
(* A user holds at most MAX_TOKENS_PER_USER live tokens, and a token that  *)
(* was handed out stays good until it expires, is claimed, invalidated or  *)
(* signed out, or as many newer ones were issued to the user: concurrent   *)
(* logins never displace a token early.                                    *)
(***************************************************************************)
HoldsNewest ==
  /\ \A a \in Accounts : Cardinality(LiveTokens(a)) <= MaxTokens
  /\ \A t \in ToSet(saved) :
       LET newer == {u \in ToSet(saved) : entry[u].owner = entry[t].owner /\ Older(t, u)}
       IN t \notin removed /\ ~Expired(t) /\ Cardinality(newer) < MaxTokens
            => Found(t)

(***************************************************************************)
(* hasJoined answers with a profile only when the last join of that server *)
(* before its lookup was for this profile, not longer ago than the life of *)
(* a session, and, if it was made with a token, with one bound to it.      *)
(***************************************************************************)
JoinedByHolder ==
  \A p \in Requests : req[p].op = "hasJoined" /\ pc[p] = "ok" =>
    LET r == req[p]
        there == {i \in 1..r.seen : joins[i].server = r.server}
    IN \E i \in there :
         /\ \A k \in there : k <= i
         /\ joins[i].profile = r.selected
         /\ r.at < joins[i].at + SessionTtl
         /\ joins[i].token # None => entry[joins[i].token].profile = r.selected

\* Where an access token is in its life.
TokenState(t) ==
  IF t \in store THEN "live"
  ELSE IF \E p \in Requests : req[p].op = "refresh" /\ req[p].token = t /\ pc[p] = "save"
       THEN "taken"
  ELSE IF \E p \in Requests : req[p].op = "refresh" /\ req[p].token = t /\ pc[p] = "ok"
       THEN "spent"
  ELSE IF pc[t] \in {"ok", "failed"} THEN "dropped" ELSE "none"

Rotation == INSTANCE RefreshRotation
              WITH Tokens <- Requests, state <- [t \in Requests |-> TokenState(t)]

(***************************************************************************)
(* The access tokens rotate as the refresh tokens of the accounts do: each *)
(* is exchanged for at most one successor, and one that was exchanged,     *)
(* invalidated or signed out never returns.                                *)
(***************************************************************************)
ImplementsRotation == Rotation!Spec
=============================================================================
