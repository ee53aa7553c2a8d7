---------------------- MODULE YggdrasilSessions_proofs ----------------------
(***************************************************************************)
(* The sessions of the Yggdrasil protocol, for any number of requests,     *)
(* accounts, names, servers, tokens and ticks.                             *)
(***************************************************************************)
EXTENDS YggdrasilSessions, FiniteSetTheorems, SequenceTheorems, TLAPS

\* What a step of a request leaves alone.
Rest(p) == /\ UNCHANGED <<now, accounts, tokens, session, joins>>
           /\ pc' \in [Requests -> Pcs] /\ req' \in [Requests -> Request]
           /\ \A q \in Requests \ {p} : pc'[q] = pc[q] /\ req'[q] = req[q]

LEMMA BlankType == Blank \in Request /\ NoEntry \in Entry
<1>1. Somebody \in Accounts /\ (CHOOSE s \in Servers : TRUE) \in Servers
  BY SessionsAssumption DEF Somebody
<1>2. NoEntry \in Entry
  BY <1>1 DEF NoEntry, Entry
<1>3. "validate" \in Operations
  BY DEF Operations
<1> QED BY <1>1, <1>2, <1>3 DEF Blank, Request

LEMMA GoFacts ==
  ASSUME TypeOK, NEW p \in Requests, NEW where \in Pcs, NEW r \in Request, Go(p, where, r)
  PROVE  /\ pc' \in [Requests -> Pcs] /\ req' \in [Requests -> Request]
         /\ pc'[p] = where /\ req'[p] = r
         /\ \A q \in Requests \ {p} : pc'[q] = pc[q] /\ req'[q] = req[q]
<1>1. pc' = [pc EXCEPT ![p] = where] /\ req' = [req EXCEPT ![p] = r]
  BY DEF Go
<1> QED BY <1>1 DEF TypeOK

LEMMA OverFacts ==
  ASSUME TypeOK, NEW p \in Requests, NEW where \in Pcs, Over(p, where)
  PROVE  /\ pc' \in [Requests -> Pcs] /\ req' \in [Requests -> Request]
         /\ pc'[p] = where /\ req'[p] = Blank
         /\ \A q \in Requests \ {p} : pc'[q] = pc[q] /\ req'[q] = req[q]
BY BlankType, GoFacts DEF Over

\* The request that a step begins, in the variables of p.
Begun(p, r, where) == pc[p] = "idle" /\ Rest(p) /\ pc'[p] = where /\ req'[p] = r

LEMMA StartFacts ==
  ASSUME TypeOK, NEW p \in Requests, NEW where \in Pcs, NEW r \in Request, Start(p, r, where),
         UNCHANGED <<now, accounts, tokens, session, joins>>
  PROVE  Begun(p, r, where)
BY GoFacts DEF Start, Begun, Rest

LEMMA SavedType == ASSUME TypeOK, NEW t \in ToSet(saved) PROVE t \in Requests
BY DEF TypeOK, ToSet

LEMMA AuthenticateBegins ==
  ASSUME TypeOK, NEW p \in Requests, StartAuthenticate(p)
  PROVE  \E r \in Request : r.op = "authenticate" /\ Begun(p, r, "profiles")
<1>1. PICK a \in Accounts :
        /\ Start(p, [Blank EXCEPT !.op = "authenticate", !.user = a, !.entry.owner = a], "profiles")
        /\ UNCHANGED <<now, accounts, tokens, session, joins>>
  BY DEF StartAuthenticate
<1>2. PICK r : r = [Blank EXCEPT !.op = "authenticate", !.user = a, !.entry.owner = a]
  OBVIOUS
<1>3. r \in Request /\ r.op = "authenticate"
  BY <1>2, BlankType DEF Request, Entry, Operations
<1> QED BY <1>1, <1>2, <1>3, StartFacts DEF Pcs

LEMMA RefreshBegins ==
  ASSUME TypeOK, NEW p \in Requests, StartRefresh(p)
  PROVE  \E r \in Request : /\ r.op = "refresh" /\ r.token \in ToSet(saved)
                            /\ r.entry = entry[r.token] /\ Begun(p, r, "profiles")
<1>1. PICK t \in ToSet(saved), wanted \in Accounts \cup {None} :
        /\ Start(p, [Blank EXCEPT !.op = "refresh", !.token = t, !.entry = entry[t],
                                  !.selected = wanted], "profiles")
        /\ UNCHANGED <<now, accounts, tokens, session, joins>>
  BY DEF StartRefresh
<1>2. PICK r : r = [Blank EXCEPT !.op = "refresh", !.token = t, !.entry = entry[t],
                                 !.selected = wanted]
  OBVIOUS
<1>3. t \in Requests /\ entry[t] \in Entry
  BY SavedType DEF TypeOK
<1>4. r \in Request /\ r.op = "refresh" /\ r.token = t /\ r.entry = entry[t]
  BY <1>2, <1>3, BlankType DEF Request, Operations
<1> QED BY <1>1, <1>2, <1>4, StartFacts DEF Pcs

LEMMA JoinBegins ==
  ASSUME TypeOK, NEW p \in Requests, StartJoin(p)
  PROVE  \E r \in Request : /\ r.op = "join" /\ r.token \in ToSet(saved)
                            /\ entry[r.token].profile = r.selected /\ r.selected \in Accounts
                            /\ Begun(p, r, "join")
<1>1. PICK t \in ToSet(saved), s \in Servers, a \in Accounts :
        /\ entry[t].profile = a
        /\ Start(p, [Blank EXCEPT !.op = "join", !.token = t, !.entry = entry[t],
                                  !.selected = a, !.server = s], "join")
        /\ UNCHANGED <<now, accounts, tokens, session, joins>>
  BY DEF StartJoin
<1>2. PICK r : r = [Blank EXCEPT !.op = "join", !.token = t, !.entry = entry[t],
                                 !.selected = a, !.server = s]
  OBVIOUS
<1>3. t \in Requests /\ entry[t] \in Entry
  BY SavedType DEF TypeOK
<1>4. r \in Request /\ r.op = "join" /\ r.token = t /\ r.selected = a
  BY <1>2, <1>3, BlankType DEF Request, Operations
<1> QED BY <1>1, <1>2, <1>4, StartFacts DEF Pcs

LEMMA JwtBegins ==
  ASSUME TypeOK, NEW p \in Requests, StartJwtJoin(p)
  PROVE  \E r \in Request : /\ r.op = "jwtJoin" /\ r.token = None /\ r.selected \in Accounts
                            /\ Begun(p, r, "jwt")
<1>1. PICK a \in Accounts, profile \in Accounts, s \in Servers, iat \in 0..now :
        /\ Start(p, [Blank EXCEPT !.op = "jwtJoin", !.user = a, !.selected = profile,
                                  !.server = s, !.iat = iat], "jwt")
        /\ UNCHANGED <<now, accounts, tokens, session, joins>>
  BY DEF StartJwtJoin
<1>2. PICK r : r = [Blank EXCEPT !.op = "jwtJoin", !.user = a, !.selected = profile,
                                 !.server = s, !.iat = iat]
  OBVIOUS
<1>3. iat \in Nat
  BY DEF TypeOK
<1>4. r \in Request /\ r.op = "jwtJoin" /\ r.token = None /\ r.selected = profile
  BY <1>2, <1>3, BlankType DEF Request, Operations, Blank
<1> QED BY <1>1, <1>2, <1>4, StartFacts DEF Pcs

LEMMA HasJoinedBegins ==
  ASSUME TypeOK, NEW p \in Requests, StartHasJoined(p)
  PROVE  \E r \in Request :
           /\ r.op = "hasJoined" /\ r.at = now /\ r.seen = Len(joins)
           /\ r.selected = session[r.server].profile /\ r.selected # None
           /\ session[r.server].expires > now /\ Begun(p, r, "profile")
<1>1. PICK s \in Servers :
        /\ session[s].profile # None /\ session[s].expires > now
        /\ Start(p, [Blank EXCEPT !.op = "hasJoined", !.server = s, !.at = now,
                       !.selected = session[s].profile, !.seen = Len(joins)], "profile")
        /\ UNCHANGED <<now, accounts, tokens, session, joins>>
  BY DEF StartHasJoined
<1>2. PICK r : r = [Blank EXCEPT !.op = "hasJoined", !.server = s, !.at = now,
                      !.selected = session[s].profile, !.seen = Len(joins)]
  OBVIOUS
<1>3. now \in Nat /\ Len(joins) \in Nat /\ session[s].profile \in Accounts
  BY <1>1 DEF TypeOK
<1>4. /\ r \in Request /\ r.op = "hasJoined" /\ r.server = s /\ r.at = now
      /\ r.selected = session[s].profile /\ r.seen = Len(joins)
  BY <1>2, <1>3, BlankType DEF Request, Operations
<1> QED BY <1>1, <1>2, <1>4, StartFacts DEF Pcs

LEMMA OthersBegin ==
  ASSUME TypeOK, NEW p \in Requests, StartValidate(p) \/ StartInvalidate(p) \/ StartSignout(p)
  PROVE  \E r \in Request, where \in {"active", "delete", "revoke"} :
           /\ r.op \in {"validate", "invalidate", "signout"} /\ Begun(p, r, where)
<1>1. ASSUME NEW t \in ToSet(saved), NEW e \in Entry
      PROVE  /\ [Blank EXCEPT !.op = "validate", !.token = t, !.entry = e] \in Request
             /\ [Blank EXCEPT !.op = "validate", !.token = t, !.entry = e].op = "validate"
             /\ [Blank EXCEPT !.op = "invalidate", !.token = t] \in Request
             /\ [Blank EXCEPT !.op = "invalidate", !.token = t].op = "invalidate"
  <2>1. t \in Requests
    BY SavedType
  <2> QED BY <2>1, BlankType DEF Request, Operations
<1>2. CASE StartValidate(p)
  <2>1. PICK t \in ToSet(saved) :
          /\ Start(p, [Blank EXCEPT !.op = "validate", !.token = t, !.entry = entry[t]], "active")
          /\ UNCHANGED <<now, accounts, tokens, session, joins>>
    BY <1>2 DEF StartValidate
  <2>2. PICK e \in Entry : e = entry[t]
    BY SavedType DEF TypeOK
  <2>3. PICK r : r = [Blank EXCEPT !.op = "validate", !.token = t, !.entry = e]
    OBVIOUS
  <2>4. r \in Request /\ r.op = "validate"
    BY <1>1, <2>3
  <2>5. Begun(p, r, "active")
    BY <2>1, <2>2, <2>3, <2>4, StartFacts DEF Pcs
  <2> QED BY <2>4, <2>5
<1>3. CASE StartInvalidate(p)
  <2>1. PICK t \in ToSet(saved) :
          /\ Start(p, [Blank EXCEPT !.op = "invalidate", !.token = t], "delete")
          /\ UNCHANGED <<now, accounts, tokens, session, joins>>
    BY <1>3 DEF StartInvalidate
  <2>2. PICK r \in Request : /\ r = [Blank EXCEPT !.op = "invalidate", !.token = t]
                             /\ r.op = "invalidate"
    BY <1>1, BlankType
  <2> QED BY <2>1, <2>2, StartFacts DEF Pcs
<1>4. CASE StartSignout(p)
  <2>1. PICK a \in Accounts :
          /\ Start(p, [Blank EXCEPT !.op = "signout", !.user = a], "revoke")
          /\ UNCHANGED <<now, accounts, tokens, session, joins>>
    BY <1>4 DEF StartSignout
  <2>2. PICK r : r = [Blank EXCEPT !.op = "signout", !.user = a]
    OBVIOUS
  <2>3. r \in Request /\ r.op = "signout"
    BY <2>2, BlankType DEF Request, Operations
  <2>4. Begun(p, r, "revoke")
    BY <2>1, <2>2, <2>3, StartFacts DEF Pcs
  <2> QED BY <2>3, <2>4
<1> QED BY <1>2, <1>3, <1>4

-----------------------------------------------------------------------------
(***************************************************************************)
(* What the other steps of a request do.                                   *)
(***************************************************************************)
LEMMA FindProfilesMoves ==
  ASSUME TypeOK, NEW p \in Requests, FindProfiles(p)
  PROVE  /\ pc[p] = "profiles" /\ Rest(p)
         /\ \/ pc'[p] = "failed" /\ req'[p] = Blank
            \/ /\ req'[p].op = req[p].op /\ req'[p].token = req[p].token
               /\ pc'[p] = IF req[p].op = "refresh" THEN "user" ELSE "save"
<1> DEFINE found == Profiles(req[p].entry.owner)
           selected == IF req[p].entry.profile # None THEN req[p].entry.profile
                       ELSE req[p].selected
           r == [req[p] EXCEPT !.profiles = found, !.selected = selected]
<1>1. /\ req[p] \in Request /\ req[p].entry \in Entry
      /\ found \in SUBSET Accounts /\ selected \in Accounts \cup {None}
  BY DEF TypeOK, Request, Entry, Profiles
<1>2. r \in Request /\ r.op = req[p].op /\ r.token = req[p].token
  <2> HIDE DEF found, selected
  <2> QED BY <1>1 DEF Request
<1>3. /\ pc[p] = "profiles" /\ UNCHANGED <<now, accounts, tokens, session, joins>>
      /\ Over(p, "failed") \/ Go(p, IF req[p].op = "refresh" THEN "user" ELSE "save", r)
  <2>1. r = [req[p] EXCEPT !.profiles = found,
                           !.selected = IF req[p].entry.profile # None
                                        THEN req[p].entry.profile ELSE @]
    BY <1>1 DEF Request
  <2> QED BY <2>1 DEF FindProfiles
<1> HIDE DEF r
<1>4. CASE Over(p, "failed")
  BY <1>3, <1>4, OverFacts DEF Rest, Pcs
<1>5. CASE Go(p, IF req[p].op = "refresh" THEN "user" ELSE "save", r)
  BY <1>2, <1>3, <1>5, GoFacts DEF Rest, Pcs
<1> QED BY <1>3, <1>4, <1>5

LEMMA FindUserMoves ==
  ASSUME TypeOK, NEW p \in Requests, FindUser(p)
  PROVE  /\ pc[p] = "user" /\ Rest(p)
         /\ \/ pc'[p] = "failed" /\ req'[p] = Blank
            \/ req'[p].op = req[p].op /\ req'[p].token = req[p].token /\ pc'[p] = "claim"
<1>1. /\ pc[p] = "user" /\ UNCHANGED <<now, accounts, tokens, session, joins>>
      /\ \/ \E a \in Accounts : Go(p, "claim", [req[p] EXCEPT !.user = a])
         \/ Over(p, "failed")
  BY DEF FindUser, ActiveUsers
<1>2. CASE Over(p, "failed")
  BY <1>1, <1>2, OverFacts DEF Rest, Pcs
<1>3. ASSUME NEW a \in Accounts, Go(p, "claim", [req[p] EXCEPT !.user = a])
      PROVE  Rest(p) /\ req'[p].op = req[p].op /\ req'[p].token = req[p].token /\ pc'[p] = "claim"
  <2>1. PICK r : r = [req[p] EXCEPT !.user = a]
    OBVIOUS
  <2>2. r \in Request /\ r.op = req[p].op /\ r.token = req[p].token
    BY <2>1 DEF TypeOK, Request
  <2> QED BY <1>1, <1>3, <2>1, <2>2, GoFacts DEF Rest, Pcs
<1> QED BY <1>1, <1>2, <1>3

LEMMA ValidateMoves ==
  ASSUME TypeOK, NEW p \in Requests, Validate(p)
  PROVE  /\ pc[p] = "active" /\ Rest(p) /\ pc'[p] \in {"ok", "failed"} /\ req'[p] = Blank
BY OverFacts DEF Validate, Rest, Pcs

LEMMA HasJoinedMoves ==
  ASSUME TypeOK, NEW p \in Requests, HasJoined(p)
  PROVE  /\ pc[p] = "profile" /\ Rest(p)
         /\ \/ pc'[p] = "ok" /\ req'[p] = req[p]
            \/ pc'[p] = "failed" /\ req'[p] = Blank
<1>1. req[p] \in Request
  BY DEF TypeOK
<1>2. /\ pc[p] = "profile" /\ UNCHANGED <<now, accounts, tokens, session, joins>>
      /\ Go(p, "ok", req[p]) \/ Over(p, "failed")
  BY DEF HasJoined
<1>3. CASE Go(p, "ok", req[p])
  <2>1. PICK r \in Request : r = req[p]
    BY <1>1
  <2>2. Go(p, "ok", r)
    BY <1>3, <2>1
  <2>3. /\ pc' \in [Requests -> Pcs] /\ req' \in [Requests -> Request]
        /\ pc'[p] = "ok" /\ req'[p] = r
        /\ \A q \in Requests \ {p} : pc'[q] = pc[q] /\ req'[q] = req[q]
    BY <2>2, GoFacts DEF Pcs
  <2> QED BY <1>2, <2>1, <2>3 DEF Rest
<1>4. CASE Over(p, "failed")
  BY <1>2, <1>4, OverFacts DEF Rest, Pcs
<1> QED BY <1>2, <1>3, <1>4

\* Tokens leave the map and are noted.
Takes(p) == /\ store' \subseteq store /\ removed' = removed \cup (store \ store')
            /\ UNCHANGED <<now, accounts, entry, saved, session, joins>>
            /\ pc' \in [Requests -> Pcs] /\ req' \in [Requests -> Request]
            /\ \A q \in Requests \ {p} : pc'[q] = pc[q] /\ req'[q] = req[q]

LEMMA ClaimMoves ==
  ASSUME TypeOK, NEW p \in Requests, Claim(p)
  PROVE  /\ pc[p] = "claim" /\ Takes(p) /\ store' = store \ {req[p].token}
         /\ \/ Found(req[p].token) /\ pc'[p] = "save" /\ req'[p] = req[p]
            \/ pc'[p] = "failed" /\ req'[p] = Blank
<1>1. req[p] \in Request
  BY DEF TypeOK
<1>2. store' = store \ {req[p].token} /\ removed' = removed \cup (store \ store')
  BY DEF Claim, Removing
<1> QED BY <1>1, <1>2, OverFacts, GoFacts DEF Claim, Takes, Pcs

LEMMA RemovalMoves ==
  ASSUME TypeOK, NEW p \in Requests, Invalidate(p) \/ Signout(p)
  PROVE  pc[p] \in {"delete", "revoke"} /\ Takes(p) /\ pc'[p] = "ok" /\ req'[p] = Blank
<1>1. /\ pc[p] \in {"delete", "revoke"} /\ Over(p, "ok") /\ store' \subseteq store
      /\ removed' = removed \cup (store \ store')
      /\ UNCHANGED <<now, accounts, entry, saved, session, joins>>
  BY DEF Invalidate, Signout, Removing
<1> QED BY <1>1, OverFacts DEF Takes, Pcs

LEMMA SaveMoves ==
  ASSUME TypeOK, NEW p \in Requests, Save(p)
  PROVE  /\ pc[p] = "save" /\ pc'[p] = "ok"
         /\ req'[p].op = req[p].op /\ req'[p].token = req[p].token
         /\ pc' \in [Requests -> Pcs] /\ req' \in [Requests -> Request]
         /\ \A q \in Requests \ {p} : pc'[q] = pc[q] /\ req'[q] = req[q]
         /\ store' = ({t \in store : ~Expired(t)} \ Evicted(req[p].user)) \cup {p}
         /\ entry' = [entry EXCEPT ![p] = NewEntry(req[p])] /\ NewEntry(req[p]) \in Entry
         /\ NewEntry(req[p]).owner = req[p].user
         /\ saved' = Append(saved, p) /\ UNCHANGED <<now, accounts, removed, session, joins>>
<1>1. req[p] \in Request /\ req[p].entry \in Entry
  BY DEF TypeOK, Request
<1>2. PICK r : r = [Blank EXCEPT !.op = req[p].op, !.token = req[p].token]
  OBVIOUS
<1>3. r \in Request /\ r.op = req[p].op /\ r.token = req[p].token
  BY <1>1, <1>2, BlankType DEF Request
<1>4. NewEntry(req[p]) \in Entry /\ NewEntry(req[p]).owner = req[p].user
  <2>1. now + TokenTtl \in Nat
    BY SessionsAssumption DEF TypeOK
  <2>2. SelectedProfile(req[p]) \in Accounts \cup {None}
    BY <1>1 DEF SelectedProfile, Request, Entry
  <2>3. NameOf[req[p].entry.owner] \in Names /\ req[p].user \in Accounts
    BY <1>1, SessionsAssumption DEF Request, Entry
  <2> QED BY <2>1, <2>2, <2>3 DEF NewEntry, Entry
<1>5. pc[p] = "save" /\ Go(p, "ok", r)
  BY <1>2 DEF Save
<1> QED BY <1>3, <1>4, <1>5, GoFacts DEF Save, Pcs

\* A join that is written, and one that is not.
Writes(p) ==
  /\ session' = [s \in Servers |->
       IF s = req[p].server THEN [profile |-> req[p].selected, expires |-> now + SessionTtl]
       ELSE IF session[s].expires <= now THEN NoSession ELSE session[s]]
  /\ joins' = Append(joins, [server |-> req[p].server, profile |-> req[p].selected, at |-> now,
                             token |-> req[p].token])

LEMMA JoinMoves ==
  ASSUME TypeOK, NEW p \in Requests, Joined(p) \/ JwtJoined(p)
  PROVE  /\ pc[p] \in {"join", "jwt"} /\ pc'[p] \in {"ok", "failed"} /\ req'[p] = Blank
         /\ UNCHANGED <<now, accounts, tokens>>
         /\ pc' \in [Requests -> Pcs] /\ req' \in [Requests -> Request]
         /\ \A q \in Requests \ {p} : pc'[q] = pc[q] /\ req'[q] = req[q]
         /\ Writes(p) \/ UNCHANGED <<session, joins>>
<1>1. /\ pc[p] \in {"join", "jwt"} /\ UNCHANGED <<now, accounts, tokens>>
      /\ \/ SaveSession(p)
         \/ Over(p, "failed") /\ UNCHANGED <<session, joins>>
  BY DEF Joined, JwtJoined
<1>2. CASE SaveSession(p)
  BY <1>1, <1>2, OverFacts DEF SaveSession, Writes, Pcs
<1>3. CASE Over(p, "failed") /\ UNCHANGED <<session, joins>>
  BY <1>1, <1>3, OverFacts DEF Pcs
<1> QED BY <1>1, <1>2, <1>3

-----------------------------------------------------------------------------
(***************************************************************************)
(* What holds of the requests, tokens and sessions between two steps.      *)
(***************************************************************************)
\* A token was put there by a request that is over, and is not put there twice.
Issued ==
  /\ \A t \in ToSet(saved) : pc[t] = "ok" /\ req[t].op \in {"authenticate", "refresh"}
  /\ store \subseteq ToSet(saved)

\* The join that hasJoined answers with.
JoinBefore(r) ==
  LET there == {i \in 1..r.seen : joins[i].server = r.server}
  IN \E i \in there :
       /\ \A k \in there : k <= i
       /\ joins[i].profile = r.selected
       /\ r.at < joins[i].at + SessionTtl
       /\ joins[i].token # None => entry[joins[i].token].profile = r.selected

\* What a request has in its variables where it is.
Fits(p) ==
  /\ pc[p] \in {"user", "claim"} => req[p].op = "refresh"
  /\ pc[p] \in {"profiles", "save"} => req[p].op \in {"authenticate", "refresh"}
  /\ req[p].op = "refresh" => /\ pc[p] \in {"profiles", "user", "claim", "save", "ok"}
                              /\ req[p].token \in ToSet(saved)
  /\ pc[p] = "join" => /\ req[p].token \in ToSet(saved) /\ req[p].selected \in Accounts
                       /\ entry[req[p].token].profile = req[p].selected
  /\ pc[p] = "jwt" => req[p].token = None /\ req[p].selected \in Accounts
  /\ req[p].op = "hasJoined" => req[p].seen <= Len(joins) /\ JoinBefore(req[p])

\* A session is that of the last join of its server.
SessionFits(s) == session[s].profile # None =>
  LET there == {i \in DOMAIN joins : joins[i].server = s} IN
  \E i \in there : /\ \A k \in there : k <= i
                   /\ joins[i].profile = session[s].profile
                   /\ session[s].expires = joins[i].at + SessionTtl

JoinsFit == \A i \in DOMAIN joins : joins[i].token # None =>
  joins[i].token \in ToSet(saved) /\ entry[joins[i].token].profile = joins[i].profile

Guarded == /\ TypeOK /\ Issued /\ JoinsFit
           /\ \A p \in Requests : Fits(p)
           /\ \A s \in Servers : SessionFits(s)

\* Tokens and joins are added, and those that are there stay as they are.
Grows == /\ ToSet(saved) \subseteq ToSet(saved')
         /\ \A t \in ToSet(saved) : entry'[t] = entry[t]
         /\ Len(joins) <= Len(joins')
         /\ \A i \in 1..Len(joins) : joins'[i] = joins[i]

LEMMA FitsStays ==
  ASSUME Guarded, Grows, Len(joins') \in Nat, NEW q \in Requests, pc'[q] = pc[q], req'[q] = req[q]
  PROVE  Fits(q)'
<1>1. Fits(q) /\ req[q] \in Request /\ Len(joins) \in Nat
  BY DEF Guarded, TypeOK
<1>2. JoinBefore(req[q]) /\ req[q].seen <= Len(joins) => JoinBefore(req[q])'
  <2>1. req[q].seen \in Nat
    BY <1>1 DEF Request
  <2> SUFFICES ASSUME JoinBefore(req[q]), req[q].seen <= Len(joins) PROVE JoinBefore(req[q])'
    OBVIOUS
  <2>0. DOMAIN joins = 1..Len(joins)
    BY DEF Guarded, TypeOK
  <2>2. \A i \in 1..req[q].seen : joins'[i] = joins[i] /\ i \in DOMAIN joins
    BY <1>1, <2>0, <2>1 DEF Grows
  <2>3. \A i \in 1..req[q].seen : joins[i].token # None =>
          entry'[joins[i].token] = entry[joins[i].token]
    BY <2>2 DEF Grows, Guarded, JoinsFit
  <2> QED BY <2>2, <2>3 DEF JoinBefore
<1>3. req[q].seen <= Len(joins) => req[q].seen <= Len(joins')
  BY <1>1 DEF Grows, Request
<1> QED BY <1>1, <1>2, <1>3 DEF Fits, Grows

LEMMA TokensFinal ==
  ASSUME Guarded, NEW p \in Requests, pc[p] # "ok" PROVE p \notin ToSet(saved)
BY DEF Guarded, Issued

LEMMA SavedGrows ==
  ASSUME Guarded, NEW p \in Requests, Save(p)
  PROVE  /\ ToSet(saved') = ToSet(saved) \cup {p} /\ p \notin ToSet(saved)
         /\ \A t \in ToSet(saved) : entry'[t] = entry[t]
         /\ saved' \in Seq(Requests) /\ IsInjective(saved') /\ Grows
<1>1. saved \in Seq(Requests) /\ IsInjective(saved) /\ saved' = Append(saved, p) /\ pc[p] = "save"
  BY DEF Guarded, TypeOK, Save
<1>2. p \notin ToSet(saved)
  BY <1>1, TokensFinal
<1>3. DOMAIN saved = 1..Len(saved) /\ Len(saved) \in Nat
  BY <1>1
<1>4. DOMAIN saved' = 1..(Len(saved) + 1)
  BY <1>1
<1>5. /\ \A i \in 1..Len(saved) : saved'[i] = saved[i]
      /\ saved'[Len(saved) + 1] = p
  BY <1>1
<1>6. ToSet(saved') = ToSet(saved) \cup {p}
  BY <1>3, <1>4, <1>5 DEF ToSet
<1>7. IsInjective(saved')
  BY <1>1, <1>2, <1>3, <1>4, <1>5 DEF IsInjective, ToSet
<1>8. \A t \in ToSet(saved) : entry'[t] = entry[t]
  <2>1. entry' = [entry EXCEPT ![p] = NewEntry(req[p])]
    BY SaveMoves DEF Guarded
  <2>2. entry \in [Requests -> Entry]
    BY DEF Guarded, TypeOK
  <2>3. ASSUME NEW t \in ToSet(saved) PROVE t \in Requests /\ t # p
    BY <1>2, SavedType, <2>3 DEF Guarded
  <2> QED BY <2>1, <2>2, <2>3
<1>9. joins' = joins /\ Len(joins) \in Nat
  BY DEF Save, Guarded, TypeOK
<1>10. saved' \in Seq(Requests)
  BY <1>1
<1> QED BY <1>2, <1>6, <1>7, <1>8, <1>9, <1>10 DEF Grows

\* The steps that only a request sees.
Quiet(p) ==
  \/ StartAuthenticate(p) \/ StartRefresh(p) \/ FindProfiles(p) \/ FindUser(p)
  \/ StartValidate(p) \/ Validate(p) \/ StartInvalidate(p) \/ StartSignout(p)
  \/ StartJoin(p) \/ StartJwtJoin(p) \/ StartHasJoined(p) \/ HasJoined(p)

\* The session that StartHasJoined reads belongs to the last join.
LEMMA SessionRead ==
  ASSUME Guarded, NEW r \in Request, r.seen = Len(joins), r.at = now,
         r.selected = session[r.server].profile, r.selected # None,
         session[r.server].expires > now
  PROVE  JoinBefore(r)
<1>1. r.server \in Servers /\ joins \in Seq(Join)
  BY DEF Request, Guarded, TypeOK
<1>2. SessionFits(r.server)
  BY <1>1 DEF Guarded
<1>3. DOMAIN joins = 1..r.seen
  BY <1>1
<1>4. PICK i \in {j \in DOMAIN joins : joins[j].server = r.server} :
        /\ \A k \in {j \in DOMAIN joins : joins[j].server = r.server} : k <= i
        /\ joins[i].profile = session[r.server].profile
        /\ session[r.server].expires = joins[i].at + SessionTtl
  BY <1>2 DEF SessionFits
<1>5. r.at < joins[i].at + SessionTtl
  <2>1. joins[i] \in Join /\ now \in Nat
    BY <1>1 DEF Guarded, TypeOK
  <2> QED BY <1>4, <2>1, SessionsAssumption DEF Join
<1>6. joins[i].token # None => entry[joins[i].token].profile = r.selected
  BY <1>4 DEF Guarded, JoinsFit
<1> QED BY <1>3, <1>4, <1>5, <1>6 DEF JoinBefore

LEMMA OverFits ==
  ASSUME NEW p \in Requests, pc'[p] \in {"ok", "failed"}, req'[p] = Blank PROVE Fits(p)'
<1>1. req'[p].op = "validate"
  BY DEF Blank
<1> QED BY <1>1 DEF Fits

LEMMA QuietMoves ==
  ASSUME Guarded, NEW p \in Requests, Quiet(p)
  PROVE  Rest(p) /\ pc[p] \notin {"ok", "failed"} /\ Fits(p)'
<1> USE DEF Guarded
<1>0. Fits(p) /\ pc[p] \in Pcs /\ req[p] \in Request
  BY DEF TypeOK
<1>1. CASE StartAuthenticate(p)
  BY <1>1, AuthenticateBegins DEF Begun, Fits
<1>2. CASE StartRefresh(p)
  BY <1>2, RefreshBegins DEF Begun, Rest, tokens, Fits
<1>3. CASE FindProfiles(p)
  <2>1. pc[p] = "profiles" /\ Rest(p)
    BY <1>3, FindProfilesMoves
  <2>2. CASE pc'[p] = "failed" /\ req'[p] = Blank
    BY <2>1, <2>2, OverFits
  <2>3. CASE /\ req'[p].op = req[p].op /\ req'[p].token = req[p].token
             /\ pc'[p] = IF req[p].op = "refresh" THEN "user" ELSE "save"
    BY <1>0, <2>1, <2>3 DEF Fits, Rest, tokens
  <2> QED BY <1>3, <2>1, <2>2, <2>3, FindProfilesMoves
<1>4. CASE FindUser(p)
  <2>1. pc[p] = "user" /\ Rest(p)
    BY <1>4, FindUserMoves
  <2>2. CASE pc'[p] = "failed" /\ req'[p] = Blank
    BY <2>1, <2>2, OverFits
  <2>3. CASE req'[p].op = req[p].op /\ req'[p].token = req[p].token /\ pc'[p] = "claim"
    BY <1>0, <2>1, <2>3 DEF Fits, Rest, tokens
  <2> QED BY <1>4, <2>1, <2>2, <2>3, FindUserMoves
<1>5. CASE StartValidate(p) \/ StartInvalidate(p) \/ StartSignout(p)
  BY <1>5, OthersBegin DEF Begun, Fits
<1>6. CASE Validate(p)
  BY <1>6, ValidateMoves, OverFits
<1>7. CASE StartJoin(p)
  BY <1>7, JoinBegins DEF Begun, Rest, tokens, Fits
<1>8. CASE StartJwtJoin(p)
  BY <1>8, JwtBegins DEF Begun, Fits
<1>9. CASE StartHasJoined(p)
  <2>1. PICK r \in Request :
          /\ r.op = "hasJoined" /\ r.at = now /\ r.seen = Len(joins)
          /\ r.selected = session[r.server].profile /\ r.selected # None
          /\ session[r.server].expires > now /\ Begun(p, r, "profile")
    BY <1>9, HasJoinedBegins
  <2>2. JoinBefore(r)
    BY <2>1, SessionRead
  <2>3. joins' = joins /\ entry' = entry /\ req'[p] = r /\ pc'[p] = "profile"
    BY <2>1 DEF Begun, Rest, tokens
  <2>4. JoinBefore(req[p])'
    BY <2>2, <2>3 DEF JoinBefore
  <2>5. Len(joins) <= Len(joins)
    BY DEF TypeOK
  <2> QED BY <2>1, <2>3, <2>4, <2>5 DEF Begun, Fits
<1>10. CASE HasJoined(p)
  <2>1. pc[p] = "profile" /\ Rest(p)
    BY <1>10, HasJoinedMoves
  <2>2. joins' = joins /\ entry' = entry /\ saved' = saved
    BY <2>1 DEF Rest, tokens
  <2>3. CASE pc'[p] = "ok" /\ req'[p] = req[p]
    <3>1. JoinBefore(req[p])' <=> JoinBefore(req[p])
      BY <2>2, <2>3 DEF JoinBefore
    <3> QED BY <1>0, <2>1, <2>2, <2>3, <3>1 DEF Fits
  <2>4. CASE pc'[p] = "failed" /\ req'[p] = Blank
    BY <2>1, <2>4 DEF Fits, Blank
  <2> QED BY <1>10, <2>1, <2>3, <2>4, HasJoinedMoves
<1> QED BY <1>1, <1>2, <1>3, <1>4, <1>5, <1>6, <1>7, <1>8, <1>9, <1>10 DEF Quiet

\* The steps that change neither the tokens saved so far nor the joins.
LEMMA StillGuarded ==
  ASSUME Guarded, TypeOK', store' \subseteq store,
         UNCHANGED <<entry, saved, session, joins>>,
         NEW p \in Requests, pc[p] # "ok", Fits(p)',
         \A q \in Requests \ {p} : pc'[q] = pc[q] /\ req'[q] = req[q]
  PROVE  Guarded'
<1>1. Grows /\ Len(joins') \in Nat
  BY DEF Grows, Guarded, TypeOK
<1>2. \A q \in Requests : Fits(q)'
  BY <1>1, FitsStays
<1>3. Issued'
  <2>1. p \notin ToSet(saved)
    BY TokensFinal
  <2> QED BY <2>1, SavedType DEF Issued, Guarded
<1>4. JoinsFit' /\ \A s \in Servers : SessionFits(s)'
  BY DEF Guarded, JoinsFit, SessionFits
<1> QED BY <1>2, <1>3, <1>4 DEF Guarded

LEMMA QuietGuarded ==
  ASSUME Guarded, NEW p \in Requests, Quiet(p) PROVE Guarded'
<1>1. Rest(p) /\ pc[p] # "ok" /\ Fits(p)'
  BY QuietMoves
<1>2. TypeOK'
  BY <1>1 DEF Guarded, TypeOK, Rest, accounts, tokens
<1> QED BY <1>1, <1>2, StillGuarded DEF Rest, tokens

LEMMA TakesGuarded ==
  ASSUME Guarded, NEW p \in Requests, Claim(p) \/ Invalidate(p) \/ Signout(p) PROVE Guarded'
<1>1. Takes(p) /\ pc[p] # "ok" /\ Fits(p)'
  <2>1. Fits(p)
    BY DEF Guarded
  <2>2. CASE Claim(p)
    <3>1. pc[p] = "claim" /\ Takes(p)
      BY <2>2, ClaimMoves DEF Guarded
    <3>2. CASE pc'[p] = "save" /\ req'[p] = req[p]
      BY <2>1, <3>1, <3>2 DEF Fits, Takes
    <3> QED BY <2>2, <3>1, <3>2, ClaimMoves, OverFits DEF Guarded
  <2>3. CASE Invalidate(p) \/ Signout(p)
    BY <2>3, RemovalMoves, OverFits DEF Guarded
  <2> QED BY <2>2, <2>3
<1>2. TypeOK'
  BY <1>1 DEF Guarded, TypeOK, Takes, accounts
<1> QED BY <1>1, <1>2, StillGuarded DEF Takes

LEMMA SaveGuarded ==
  ASSUME Guarded, NEW p \in Requests, Save(p) PROVE Guarded'
<1>0. TypeOK /\ Fits(p) /\ p \notin ToSet(saved)
  BY SavedGrows DEF Guarded
<1>1. TypeOK'
  <2>1. store' \subseteq Requests
    BY <1>0, SaveMoves DEF TypeOK
  <2>2. entry' \in [Requests -> Entry]
    BY <1>0, SaveMoves, ZenonT(60) DEF TypeOK
  <2> QED BY <1>0, <2>1, <2>2, SaveMoves, SavedGrows DEF TypeOK, accounts
<1>2. Fits(p)'
  <2>1. req[p].op \in {"authenticate", "refresh"}
    BY <1>0, SaveMoves DEF Fits
  <2> QED BY <1>0, <2>1, SaveMoves, SavedGrows DEF Fits
<1>3. \A q \in Requests \ {p} : Fits(q)'
  BY <1>0, <1>1, FitsStays, SaveMoves, SavedGrows DEF TypeOK
<1>4. Issued'
  <2>1. store' \subseteq ToSet(saved')
    BY <1>0, SaveMoves, SavedGrows DEF Guarded, Issued
  <2>2. ASSUME NEW t \in ToSet(saved')
        PROVE  pc'[t] = "ok" /\ req'[t].op \in {"authenticate", "refresh"}
    <3>1. CASE t = p
      BY <1>0, <3>1, SaveMoves DEF Fits
    <3>2. CASE t # p
      <4>1. t \in ToSet(saved) /\ t \in Requests
        BY <1>0, <3>2, SavedGrows, SavedType
      <4> QED BY <1>0, <3>2, <4>1, SaveMoves DEF Guarded, Issued
    <3> QED BY <3>1, <3>2
  <2> QED BY <2>1, <2>2 DEF Issued
<1>5. JoinsFit'
  BY <1>0, SaveMoves, SavedGrows DEF Guarded, JoinsFit
<1>6. \A s \in Servers : SessionFits(s)'
  BY <1>0, SaveMoves DEF Guarded, SessionFits
<1> QED BY <1>1, <1>2, <1>3, <1>4, <1>5, <1>6 DEF Guarded

\* A join that is written is the last one of its server.
LEMMA WritesFit ==
  ASSUME Guarded, NEW p \in Requests, pc[p] \in {"join", "jwt"}, Writes(p),
         UNCHANGED <<now, tokens>>
  PROVE  /\ session' \in [Servers -> [profile : Accounts \cup {None}, expires : Nat]]
         /\ joins' \in Seq(Join) /\ Grows /\ JoinsFit'
         /\ \A s \in Servers : SessionFits(s)'
<1> DEFINE j == [server |-> req[p].server, profile |-> req[p].selected, at |-> now,
                 token |-> req[p].token]
           n == Len(joins)
<1>1. /\ req[p] \in Request /\ Fits(p) /\ now \in Nat /\ now + SessionTtl \in Nat
      /\ joins \in Seq(Join) /\ n \in Nat
      /\ session \in [Servers -> [profile : Accounts \cup {None}, expires : Nat]]
  BY SessionsAssumption DEF Guarded, TypeOK
<1>2. req[p].server \in Servers /\ req[p].selected \in Accounts
  BY <1>1 DEF Fits, Request
<1>3. j \in Join /\ joins' = Append(joins, j)
  BY <1>1, <1>2 DEF Join, Request, Writes
<1>4. /\ joins' \in Seq(Join) /\ DOMAIN joins = 1..n /\ DOMAIN joins' = 1..(n + 1)
      /\ \A i \in 1..n : joins'[i] = joins[i]
      /\ joins'[n + 1] = j
  <2> HIDE DEF j
  <2> QED BY <1>1, <1>3
<1>5. session' \in [Servers -> [profile : Accounts \cup {None}, expires : Nat]]
  BY <1>1, <1>2 DEF Writes, NoSession
<1>6. Grows
  BY <1>1, <1>3, <1>4 DEF Grows, tokens
<1>7. JoinsFit'
  <2>1. j.token # None => j.token \in ToSet(saved) /\ entry[j.token].profile = j.profile
    BY <1>1 DEF Fits
  <2> HIDE DEF j
  <2> QED BY <1>1, <1>4, <2>1 DEF JoinsFit, Guarded, tokens
<1>8. ASSUME NEW s \in Servers PROVE SessionFits(s)'
  <2> DEFINE here == {i \in DOMAIN joins' : joins'[i].server = s}
             there == {i \in DOMAIN joins : joins[i].server = s}
  <2>1. CASE s = req[p].server
    <3>1. session'[s] = [profile |-> req[p].selected, expires |-> now + SessionTtl]
      BY <2>1 DEF Writes
    <3>2. j.server = s /\ j.profile = req[p].selected /\ j.at = now
      BY <2>1
    <3> HIDE DEF j
    <3>3. n + 1 \in here /\ \A k \in here : k <= n + 1
      BY <1>1, <1>4, <3>2
    <3>4. /\ joins'[n + 1].profile = session'[s].profile
          /\ session'[s].expires = joins'[n + 1].at + SessionTtl
      BY <1>4, <3>1, <3>2
    <3> QED BY <3>3, <3>4 DEF SessionFits
  <2>2. CASE s # req[p].server
    <3>1. session'[s] = session[s] \/ session'[s] = NoSession
      BY <2>2 DEF Writes
    <3>2. CASE session'[s].profile = None
      BY <3>2 DEF SessionFits
    <3>3. CASE session'[s].profile # None
      <4>1. session'[s] = session[s]
        BY <3>1, <3>3 DEF NoSession
      <4>2. j.server # s
        BY <2>2
      <4> HIDE DEF j
      <4>3. here = there
        BY <1>1, <1>4, <4>2
      <4>4. SessionFits(s)
        BY DEF Guarded
      <4>5. PICK i \in there : /\ \A k \in there : k <= i
                               /\ joins[i].profile = session[s].profile
                               /\ session[s].expires = joins[i].at + SessionTtl
        BY <3>3, <4>1, <4>4 DEF SessionFits
      <4>6. joins'[i] = joins[i]
        BY <1>4
      <4> HIDE DEF here, there
      <4>7. /\ i \in here /\ \A k \in here : k <= i
            /\ joins'[i].profile = session'[s].profile
            /\ session'[s].expires = joins'[i].at + SessionTtl
        BY <4>1, <4>3, <4>5, <4>6
      <4> QED BY <4>7 DEF SessionFits, here
    <3> QED BY <3>2, <3>3
  <2> QED BY <2>1, <2>2
<1> QED BY <1>4, <1>5, <1>6, <1>7, <1>8

LEMMA JoinGuarded ==
  ASSUME Guarded, NEW p \in Requests, Joined(p) \/ JwtJoined(p) PROVE Guarded'
<1>1. /\ pc[p] \in {"join", "jwt"} /\ pc'[p] \in {"ok", "failed"} /\ req'[p] = Blank
      /\ UNCHANGED <<now, accounts, tokens>>
      /\ pc' \in [Requests -> Pcs] /\ req' \in [Requests -> Request]
      /\ \A q \in Requests \ {p} : pc'[q] = pc[q] /\ req'[q] = req[q]
      /\ Writes(p) \/ UNCHANGED <<session, joins>>
  BY JoinMoves DEF Guarded
<1>2. Fits(p)'
  BY <1>1, OverFits
<1>3. CASE UNCHANGED <<session, joins>>
  <2>1. TypeOK'
    BY <1>1, <1>3 DEF Guarded, TypeOK, accounts, tokens
  <2> QED BY <1>1, <1>2, <1>3, <2>1, StillGuarded DEF tokens
<1>4. CASE Writes(p)
  <2>1. /\ session' \in [Servers -> [profile : Accounts \cup {None}, expires : Nat]]
        /\ joins' \in Seq(Join) /\ Grows /\ JoinsFit'
        /\ \A s \in Servers : SessionFits(s)'
    BY <1>1, <1>4, WritesFit
  <2>2. TypeOK'
    BY <1>1, <2>1 DEF Guarded, TypeOK, accounts, tokens
  <2>3. \A q \in Requests : Fits(q)'
    BY <1>1, <1>2, <2>1, FitsStays
  <2>4. Issued'
    <3>1. p \notin ToSet(saved)
      BY <1>1, TokensFinal
    <3>2. \A t \in ToSet(saved) : t \in Requests
      BY SavedType DEF Guarded
    <3> QED BY <1>1, <3>1, <3>2 DEF Guarded, Issued, tokens
  <2> QED BY <2>1, <2>2, <2>3, <2>4 DEF Guarded
<1> QED BY <1>1, <1>3, <1>4

Surroundings == Forget \/ Administer \/ ChangePassword \/ Tick

LEMMA SurroundingsStay ==
  ASSUME TypeOK, Surroundings
  PROVE  /\ UNCHANGED <<entry, saved, removed, session, joins, pc, req>>
         /\ store' \subseteq store /\ TypeOK'
         /\ \A t \in Requests : Expired(t) => Expired(t)'
         /\ \A t \in store : t \notin store' => Expired(t)
<1>1. CASE Forget
  <2>1. PICK t \in store :
          /\ Expired(t) /\ store' = store \ {t}
          /\ UNCHANGED <<now, accounts, entry, saved, removed, session, pc, req, joins>>
    BY <1>1 DEF Forget, Removing
  <2> QED BY <2>1 DEF TypeOK, Expired, accounts
<1>2. CASE Administer
  <2>1. PICK a \in Accounts, s \in Statuses : SetStatus(a, s)
    BY <1>2 DEF Administer, Statuses
  <2>2. /\ status' = [status EXCEPT ![a] = s]
        /\ UNCHANGED <<now, changedAt, tokens, session, pc, req, joins>>
    BY <2>1 DEF SetStatus
  <2> QED BY <2>2 DEF TypeOK, Expired, tokens
<1>3. CASE ChangePassword
  <2>1. PICK a \in Accounts :
          /\ changedAt' = [changedAt EXCEPT ![a] = now]
          /\ UNCHANGED <<now, status, tokens, session, pc, req, joins>>
    BY <1>3 DEF ChangePassword
  <2> QED BY <2>1 DEF TypeOK, Expired, tokens
<1>4. CASE Tick
  <2>1. now' = now + 1 /\ UNCHANGED <<accounts, tokens, session, pc, req, joins>>
    BY <1>4 DEF Tick
  <2>2. TypeOK'
    BY <2>1 DEF TypeOK, accounts, tokens
  <2>3. \A t \in Requests : Expired(t) => Expired(t)'
    <3>1. \A t \in Requests : entry[t].expires \in Nat
      BY DEF TypeOK, Entry
    <3>2. now \in Nat
      BY DEF TypeOK
    <3> QED BY <2>1, <3>1, <3>2 DEF Expired, tokens
  <2> QED BY <2>1, <2>2, <2>3 DEF tokens
<1> QED BY <1>1, <1>2, <1>3, <1>4 DEF Surroundings

LEMMA NextGuarded ==
  ASSUME Guarded, [Next]_vars PROVE Guarded'
<1>1. CASE UNCHANGED vars
  BY <1>1
  DEF vars, accounts, tokens, Guarded, TypeOK, Issued, Fits, JoinBefore, SessionFits, JoinsFit
<1>2. CASE Surroundings
  <2>1. /\ UNCHANGED <<entry, saved, removed, session, joins, pc, req>>
        /\ store' \subseteq store /\ TypeOK'
    BY <1>2, SurroundingsStay DEF Guarded
  <2> QED BY <2>1 DEF Guarded, Issued, Fits, JoinBefore, SessionFits, JoinsFit
<1>3. ASSUME NEW p \in Requests,
             \/ Quiet(p) \/ Claim(p) \/ Invalidate(p) \/ Signout(p) \/ Save(p)
             \/ Joined(p) \/ JwtJoined(p)
      PROVE  Guarded'
  BY <1>3, QuietGuarded, TakesGuarded, SaveGuarded, JoinGuarded
<1> QED BY <1>1, <1>2, <1>3 DEF Next, Surroundings, Quiet

LEMMA InitGuarded == Init => Guarded
<1> SUFFICES ASSUME Init PROVE Guarded
  OBVIOUS
<1>1. ToSet(saved) = {} /\ DOMAIN saved = {} /\ DOMAIN joins = {}
  BY DEF Init, ToSet
<1>2. TypeOK
  <2>1. NoSession \in [profile : Accounts \cup {None}, expires : Nat]
    BY DEF NoSession
  <2>2. status \in [Accounts -> Statuses]
    BY DEF Init, Statuses
  <2>3. pc \in [Requests -> Pcs]
    BY DEF Init, Pcs
  <2>4. entry \in [Requests -> Entry] /\ req \in [Requests -> Request]
    BY BlankType DEF Init
  <2>5. IsInjective(saved) /\ saved \in Seq(Requests) /\ joins \in Seq(Join)
    BY DEF Init, IsInjective
  <2> QED BY <2>1, <2>2, <2>3, <2>4, <2>5 DEF Init, TypeOK
<1>3. \A p \in Requests : Fits(p)
  <2>1. \A p \in Requests : req[p].op = "validate" /\ pc[p] = "idle"
    BY DEF Init, Blank
  <2> QED BY <2>1 DEF Fits
<1>4. Issued /\ JoinsFit
  BY <1>1 DEF Init, Issued, JoinsFit
<1>5. \A s \in Servers : SessionFits(s)
  BY DEF Init, SessionFits, NoSession
<1> QED BY <1>2, <1>3, <1>4, <1>5 DEF Guarded

LEMMA SpecGuarded == Spec => []Guarded
BY InitGuarded, NextGuarded, PTL DEF Spec

\* The variables of the two stores and of their requests have their types, and
\* no token is put into the map twice.  (yggdrasil.service.ts)
THEOREM SpecTypeOK == Spec => []TypeOK
BY SpecGuarded, PTL DEF Guarded

\* Whatever joins, sign-outs, bans and expiries come between its steps, hasJoined
\* answers only with the profile of the last join of that server, and in time; when
\* that join was made with a game token, the token is bound to this profile.  Of a join
\* with a JWT nothing is claimed but that it came last.  (saveSession, findSession, join)
THEOREM SpecJoinedByHolder == Spec => []JoinedByHolder
<1>1. Guarded => JoinedByHolder
  BY DEF Guarded, Fits, JoinBefore, JoinedByHolder
<1> QED BY <1>1, SpecGuarded, PTL

-----------------------------------------------------------------------------
(***************************************************************************)
(* The tokens of a user in the order in which they were issued.            *)
(***************************************************************************)
LEMMA OlderOrder ==
  ASSUME TypeOK, NEW t \in ToSet(saved), NEW u \in ToSet(saved)
  PROVE  /\ ~Older(t, t)
         /\ t # u => Older(t, u) \/ Older(u, t)
         /\ \A x \in ToSet(saved) : Older(t, u) /\ Older(u, x) => Older(t, x)
<1>1. DOMAIN saved = 1..Len(saved) /\ Len(saved) \in Nat
  BY DEF TypeOK
<1>2. \A i, j \in DOMAIN saved : saved[i] = saved[j] => i = j
  BY DEF TypeOK, IsInjective
<1>3. PICK i \in DOMAIN saved : saved[i] = t
  BY <1>1 DEF ToSet
<1>4. PICK j \in DOMAIN saved : saved[j] = u
  BY <1>1 DEF ToSet
<1>5. ~Older(t, t)
  BY <1>1, <1>2 DEF Older
<1>6. t # u => Older(t, u) \/ Older(u, t)
  BY <1>1, <1>3, <1>4 DEF Older
<1>7. ASSUME NEW x \in ToSet(saved), Older(t, u), Older(u, x) PROVE Older(t, x)
  <2>1. PICK k, l \in DOMAIN saved : k < l /\ saved[k] = t /\ saved[l] = u
    BY <1>7 DEF Older
  <2>2. PICK m, n \in DOMAIN saved : m < n /\ saved[m] = u /\ saved[n] = x
    BY <1>7 DEF Older
  <2>3. l = m
    BY <1>2, <2>1, <2>2
  <2>4. k < n
    BY <1>1, <2>1, <2>2, <2>3
  <2> QED BY <2>1, <2>2, <2>4 DEF Older
<1> QED BY <1>5, <1>6, <1>7

LEMMA OlderGrows ==
  ASSUME Guarded, NEW p \in Requests, Save(p), NEW t \in ToSet(saved)
  PROVE  Older(t, p)' /\ \A u : Older(t, u) => Older(t, u)'
<1>1. /\ saved' = Append(saved, p) /\ saved \in Seq(Requests)
  BY DEF Save, Guarded, TypeOK
<1>2. /\ DOMAIN saved = 1..Len(saved) /\ DOMAIN saved' = 1..(Len(saved) + 1) /\ Len(saved) \in Nat
      /\ \A i \in 1..Len(saved) : saved'[i] = saved[i]
      /\ saved'[Len(saved) + 1] = p
  BY <1>1
<1>3. PICK i \in DOMAIN saved : saved[i] = t
  BY <1>2 DEF ToSet
<1>4. Older(t, p)'
  <2>1. i \in DOMAIN saved' /\ Len(saved) + 1 \in DOMAIN saved' /\ i < Len(saved) + 1
    BY <1>2, <1>3
  <2> QED BY <1>2, <1>3, <2>1 DEF Older
<1>5. ASSUME NEW u, Older(t, u) PROVE Older(t, u)'
  <2>1. PICK k, l \in DOMAIN saved : k < l /\ saved[k] = t /\ saved[l] = u
    BY <1>5 DEF Older
  <2>2. k \in DOMAIN saved' /\ l \in DOMAIN saved' /\ saved'[k] = t /\ saved'[l] = u
    BY <1>2, <2>1
  <2> QED BY <2>1, <2>2 DEF Older
<1> QED BY <1>4, <1>5

LEMMA LiveFinite ==
  ASSUME TypeOK, NEW a
  PROVE  IsFiniteSet(LiveTokens(a)) /\ LiveTokens(a) \in SUBSET store /\ store \in SUBSET Requests
<1>1. LiveTokens(a) \in SUBSET Requests /\ LiveTokens(a) \in SUBSET store
  BY DEF LiveTokens, TypeOK
<1> QED BY <1>1, FS_Subset, SessionsAssumption DEF TypeOK

\* Of a set of tokens of a user, those with fewer than MAX_TOKENS_PER_USER - 1
\* newer ones are fewer than MAX_TOKENS_PER_USER.  (deleteOldestUserTokens)
LEMMA NewestAreFew ==
  ASSUME TypeOK, store \subseteq ToSet(saved), NEW a
  PROVE  /\ IsFiniteSet(LiveTokens(a) \ Evicted(a))
         /\ Cardinality(LiveTokens(a) \ Evicted(a)) <= MaxTokens - 1
<1> DEFINE live == LiveTokens(a)
           newer(t) == {u \in live : Older(t, u)}
           kept == live \ Evicted(a)
           f == [t \in kept |-> Cardinality(newer(t))]
           places == 0..(MaxTokens - 2)
<1>1. IsFiniteSet(live) /\ live \subseteq ToSet(saved)
  BY LiveFinite
<1>2. IsFiniteSet(kept)
  <2> HIDE DEF live
  <2> QED BY <1>1, FS_Subset
<1>3. \A t \in live : IsFiniteSet(newer(t)) /\ Cardinality(newer(t)) \in Nat
  <2> SUFFICES ASSUME NEW t \in live PROVE IsFiniteSet(newer(t)) /\ Cardinality(newer(t)) \in Nat
    OBVIOUS
  <2>1. newer(t) \in SUBSET live
    OBVIOUS
  <2> HIDE DEF newer, live
  <2> QED BY <1>1, <2>1, FS_Subset, FS_CardinalityType
<1>4. MaxTokens \in Nat /\ MaxTokens # 0
  BY SessionsAssumption
<1>5. \A t \in kept : Cardinality(newer(t)) \in places
  <2> SUFFICES ASSUME NEW t \in kept PROVE Cardinality(newer(t)) \in places
    OBVIOUS
  <2>1. ~(Cardinality(newer(t)) >= MaxTokens - 1)
    BY DEF Evicted
  <2> HIDE DEF newer
  <2> QED BY <1>3, <1>4, <2>1
<1>6. f \in [kept -> places]
  <2> HIDE DEF newer, kept, places
  <2> QED BY <1>5
<1>7. IsFiniteSet(places) /\ Cardinality(places) = MaxTokens - 1
  BY <1>4, FS_Interval
<1>8. ASSUME NEW t \in kept, NEW u \in kept, Older(t, u) PROVE f[t] # f[u]
  <2>1. u \in newer(t) /\ u \notin newer(u) /\ newer(u) \subseteq newer(t)
    BY <1>1, <1>8, OlderOrder
  <2>2. newer(u) \in SUBSET (newer(t) \ {u})
    BY <2>1
  <2>3. f[t] = Cardinality(newer(t)) /\ f[u] = Cardinality(newer(u))
    OBVIOUS
  <2>4. t \in live /\ u \in live
    OBVIOUS
  <2> HIDE DEF f, newer, live
  <2>5. IsFiniteSet(newer(t) \ {u}) /\ Cardinality(newer(t) \ {u}) = Cardinality(newer(t)) - 1
    BY <1>3, <2>1, <2>4, FS_RemoveElement
  <2>6. Cardinality(newer(u)) <= Cardinality(newer(t)) - 1
    BY <2>2, <2>5, FS_Subset
  <2> QED BY <1>3, <2>3, <2>4, <2>6
<1>9. \A t, u \in kept : t # u => f[t] # f[u]
  <2> SUFFICES ASSUME NEW t \in kept, NEW u \in kept, t # u PROVE f[t] # f[u]
    OBVIOUS
  <2>1. t \in ToSet(saved) /\ u \in ToSet(saved)
    BY <1>1
  <2> HIDE DEF f, kept
  <2>2. Older(t, u) \/ Older(u, t)
    BY <2>1, OlderOrder
  <2> QED BY <1>8, <2>2
<1>10. ~(Cardinality(places) < Cardinality(kept))
  <2> HIDE DEF f, kept, places
  <2> QED BY <1>2, <1>6, <1>7, <1>9, FS_PigeonHole
<1>11. Cardinality(kept) \in Nat
  <2> HIDE DEF kept
  <2> QED BY <1>2, FS_CardinalityType
<1> QED BY <1>2, <1>4, <1>7, <1>10, <1>11

-----------------------------------------------------------------------------
NewerOf(t) == {u \in ToSet(saved) : entry[u].owner = entry[t].owner /\ Older(t, u)}

\* Where a token that is not in the map has gone.
Accounted(t) == t \in store \/ t \in removed \/ Expired(t) \/ Cardinality(NewerOf(t)) >= MaxTokens
Bounded(a) == Cardinality(LiveTokens(a)) <= MaxTokens

Counted == /\ \A t \in ToSet(saved) : Accounted(t)
           /\ \A a \in Accounts : Bounded(a)

LEMMA NewerFinite ==
  ASSUME TypeOK, NEW t
  PROVE  IsFiniteSet(NewerOf(t)) /\ Cardinality(NewerOf(t)) \in Nat
<1>1. NewerOf(t) \in SUBSET Requests
  BY SavedType DEF NewerOf
<1> QED BY <1>1, FS_Subset, FS_CardinalityType, SessionsAssumption

\* Where tokens only leave the map.
LEMMA CountedShrinks ==
  ASSUME Guarded, TypeOK', Counted, UNCHANGED <<entry, saved>>, store' \subseteq store,
         removed \subseteq removed',
         \A t \in Requests : Expired(t) => Expired(t)',
         \A t \in store : t \notin store' => Expired(t) \/ t \in removed'
  PROVE  Counted'
<1>1. TypeOK /\ store \subseteq Requests
  BY DEF Guarded, TypeOK
<1>2. ASSUME NEW t \in ToSet(saved) PROVE Accounted(t)'
  <2>1. NewerOf(t)' = NewerOf(t)
    BY DEF NewerOf, Older
  <2>2. t \in Requests /\ Accounted(t)
    BY <1>1, SavedType DEF Counted
  <2> QED BY <2>1, <2>2 DEF Accounted
<1>3. ASSUME NEW a \in Accounts PROVE Bounded(a)'
  <2>1. LiveTokens(a)' \in SUBSET LiveTokens(a)
    BY <1>1 DEF LiveTokens
  <2>2. IsFiniteSet(LiveTokens(a)) /\ Cardinality(LiveTokens(a)) <= MaxTokens
    BY <1>1, LiveFinite DEF Counted, Bounded
  <2>3. Cardinality(LiveTokens(a)') <= Cardinality(LiveTokens(a))
    BY <2>1, <2>2, FS_Subset
  <2>4. Cardinality(LiveTokens(a)) \in Nat /\ Cardinality(LiveTokens(a)') \in Nat
    BY <2>1, <2>2, FS_Subset, FS_CardinalityType
  <2> QED BY <2>2, <2>3, <2>4, SessionsAssumption DEF Bounded
<1> QED BY <1>2, <1>3 DEF Counted

LEMMA SaveAccounts ==
  ASSUME Guarded, Counted, NEW p \in Requests, Save(p), NEW t \in ToSet(saved)
  PROVE  Accounted(t)'
<1> DEFINE user == req[p].user
           newer == {u \in LiveTokens(user) : Older(t, u)}
<1>1. /\ TypeOK /\ Accounted(t) /\ t \in Requests /\ TypeOK'
      /\ t # p /\ entry'[t] = entry[t] /\ ToSet(saved') = ToSet(saved) \cup {p}
      /\ removed' = removed /\ now' = now
      /\ store' = ({x \in store : ~Expired(x)} \ Evicted(user)) \cup {p}
  BY SavedType, SavedGrows, SaveMoves, SaveGuarded DEF Guarded, Counted
<1>0. IsFiniteSet(NewerOf(t)') /\ Cardinality(NewerOf(t)') \in Nat
  <2>1. ToSet(saved') \subseteq Requests
    BY <1>1, SavedGrows, SavedType
  <2>2. NewerOf(t)' \in SUBSET Requests
    BY <2>1 DEF NewerOf
  <2> QED BY <2>2, FS_Subset, FS_CardinalityType, SessionsAssumption
<1>2. CASE t \in removed \/ Expired(t)
  BY <1>1, <1>2 DEF Accounted, Expired
<1>3. CASE Cardinality(NewerOf(t)) >= MaxTokens
  <2>1. \A u \in ToSet(saved) : entry'[u] = entry[u] /\ (Older(t, u) => Older(t, u)')
    BY SavedGrows, OlderGrows
  <2>2. NewerOf(t) \in SUBSET NewerOf(t)'
    BY <1>1, <2>1 DEF NewerOf
  <2>3. /\ IsFiniteSet(NewerOf(t)') /\ Cardinality(NewerOf(t)') \in Nat
        /\ Cardinality(NewerOf(t)) \in Nat
    BY <1>0, <1>1, NewerFinite
  <2>4. Cardinality(NewerOf(t)) <= Cardinality(NewerOf(t)')
    BY <2>2, <2>3, FS_Subset
  <2> QED BY <1>3, <2>3, <2>4, SessionsAssumption DEF Accounted
<1>4. CASE t \in store /\ ~Expired(t) /\ t \in Evicted(user)
  <2>1. t \in LiveTokens(user) /\ Cardinality(newer) >= MaxTokens - 1
    BY <1>4 DEF Evicted
  <2>2. IsFiniteSet(newer) /\ Cardinality(newer) \in Nat /\ newer \subseteq ToSet(saved)
    <3>1. newer \in SUBSET LiveTokens(user) /\ LiveTokens(user) \subseteq ToSet(saved)
      BY DEF LiveTokens, Guarded, Issued
    <3> HIDE DEF newer
    <3> QED BY <1>1, <3>1, LiveFinite, FS_Subset, FS_CardinalityType
  <2>3. p \notin newer
    BY <2>2, SavedGrows
  <2>4. IsFiniteSet(newer \cup {p}) /\ Cardinality(newer \cup {p}) = Cardinality(newer) + 1
    <3> HIDE DEF newer
    <3> QED BY <2>2, <2>3, FS_AddElement
  <2>5. entry[t].owner = user /\ \A u \in newer : entry[u].owner = user /\ Older(t, u)
    BY <2>1 DEF LiveTokens
  <2>6. entry'[p].owner = user
    <3>1. entry' = [entry EXCEPT ![p] = NewEntry(req[p])] /\ NewEntry(req[p]).owner = user
      BY <1>1, SaveMoves
    <3>2. entry \in [Requests -> Entry]
      BY <1>1 DEF TypeOK
    <3> QED BY <3>1, <3>2
  <2>7. Older(t, p)' /\ \A u : Older(t, u) => Older(t, u)'
    BY OlderGrows
  <2>8. \A u \in newer : entry'[u] = entry[u]
    BY <2>2, SavedGrows
  <2>9. newer \cup {p} \in SUBSET NewerOf(t)'
    <3> HIDE DEF newer
    <3> QED BY <1>1, <2>2, <2>5, <2>6, <2>7, <2>8 DEF NewerOf
  <2>10. IsFiniteSet(NewerOf(t)') /\ Cardinality(NewerOf(t)') \in Nat
    BY <1>0
  <2>11. Cardinality(newer \cup {p}) <= Cardinality(NewerOf(t)')
    <3> HIDE DEF newer
    <3> QED BY <2>9, <2>10, FS_Subset
  <2> HIDE DEF newer
  <2>12. Cardinality(NewerOf(t)') >= MaxTokens
    BY <2>1, <2>2, <2>4, <2>10, <2>11, SessionsAssumption
  <2> QED BY <2>12 DEF Accounted
<1>5. CASE t \in store /\ ~Expired(t) /\ t \notin Evicted(user)
  BY <1>1, <1>5 DEF Accounted
<1> QED BY <1>1, <1>2, <1>3, <1>4, <1>5 DEF Accounted

LEMMA SaveBounds ==
  ASSUME Guarded, Counted, NEW p \in Requests, Save(p), NEW a \in Accounts
  PROVE  Bounded(a)'
<1> DEFINE user == req[p].user
           kept == LiveTokens(user) \ Evicted(user)
<1>1. /\ TypeOK /\ TypeOK' /\ now' = now
      /\ store' = ({x \in store : ~Expired(x)} \ Evicted(user)) \cup {p}
      /\ \A t \in store : entry'[t] = entry[t]
  BY SavedGrows, SaveMoves, SaveGuarded DEF Guarded, Issued
<1>2. entry'[p].owner = user
  <2>1. entry' = [entry EXCEPT ![p] = NewEntry(req[p])] /\ NewEntry(req[p]).owner = user
    BY <1>1, SaveMoves
  <2>2. entry \in [Requests -> Entry]
    BY <1>1 DEF TypeOK
  <2> QED BY <2>1, <2>2
<1>3. \A t \in store : Expired(t)' <=> Expired(t)
  BY <1>1 DEF Expired
<1>4. MaxTokens \in Nat /\ MaxTokens # 0
  BY SessionsAssumption
<1>5. CASE a = user
  <2>1. LiveTokens(a)' \in SUBSET (kept \cup {p})
    BY <1>1, <1>3, <1>5 DEF LiveTokens
  <2>2. IsFiniteSet(kept) /\ Cardinality(kept) <= MaxTokens - 1 /\ Cardinality(kept) \in Nat
    BY <1>1, NewestAreFew, FS_CardinalityType DEF Guarded, Issued
  <2> HIDE DEF kept
  <2>3. /\ IsFiniteSet(kept \cup {p})
        /\ Cardinality(kept \cup {p}) = IF p \in kept THEN Cardinality(kept) ELSE Cardinality(kept) + 1
    BY <2>2, FS_AddElement
  <2>4. /\ Cardinality(LiveTokens(a)') <= Cardinality(kept \cup {p})
        /\ Cardinality(LiveTokens(a)') \in Nat
    BY <2>1, <2>3, FS_Subset, FS_CardinalityType
  <2>5. Cardinality(LiveTokens(a)') <= MaxTokens
    BY <1>4, <2>2, <2>3, <2>4
  <2> QED BY <2>5 DEF Bounded
<1>6. CASE a # user
  <2>1. LiveTokens(a)' \in SUBSET LiveTokens(a)
    BY <1>1, <1>2, <1>3, <1>6 DEF LiveTokens
  <2>2. IsFiniteSet(LiveTokens(a)) /\ Cardinality(LiveTokens(a)) <= MaxTokens
    BY <1>1, LiveFinite DEF Counted, Bounded
  <2>3. /\ Cardinality(LiveTokens(a)') <= Cardinality(LiveTokens(a))
        /\ Cardinality(LiveTokens(a)) \in Nat /\ Cardinality(LiveTokens(a)') \in Nat
    BY <2>1, <2>2, FS_Subset, FS_CardinalityType
  <2>4. Cardinality(LiveTokens(a)') <= MaxTokens
    BY <1>4, <2>2, <2>3
  <2> QED BY <2>4 DEF Bounded
<1> QED BY <1>5, <1>6

LEMMA NextCounted ==
  ASSUME Guarded, Counted, [Next]_vars PROVE Counted'
<1>0. TypeOK /\ TypeOK' /\ Guarded'
  BY NextGuarded DEF Guarded
<1>1. ASSUME UNCHANGED <<store, entry, saved, removed, now>> PROVE Counted'
  BY <1>0, <1>1, CountedShrinks DEF Expired
<1>2. CASE UNCHANGED vars
  BY <1>1, <1>2 DEF vars, tokens
<1>3. CASE Surroundings
  BY <1>0, <1>3, SurroundingsStay, CountedShrinks
<1>4. ASSUME NEW p \in Requests, Quiet(p) PROVE Counted'
  BY <1>1, <1>4, QuietMoves DEF Rest, tokens
<1>5. ASSUME NEW p \in Requests, Joined(p) \/ JwtJoined(p) PROVE Counted'
  BY <1>0, <1>1, <1>5, JoinMoves DEF tokens
<1>6. ASSUME NEW p \in Requests, Claim(p) \/ Invalidate(p) \/ Signout(p) PROVE Counted'
  <2>1. Takes(p)
    BY <1>0, <1>6, ClaimMoves, RemovalMoves
  <2> QED BY <1>0, <2>1, CountedShrinks DEF Takes, Expired
<1>7. ASSUME NEW p \in Requests, Save(p) PROVE Counted'
  <2>1. ToSet(saved') = ToSet(saved) \cup {p} /\ p \in store'
    BY <1>0, <1>7, SavedGrows, SaveMoves
  <2>2. Accounted(p)'
    BY <2>1 DEF Accounted
  <2> QED BY <1>7, <2>1, <2>2, SaveAccounts, SaveBounds DEF Counted
<1> QED BY <1>2, <1>3, <1>4, <1>5, <1>6, <1>7 DEF Next, Surroundings, Quiet

\* Whatever logins, refreshes and sign-outs run at the same time, a user never
\* has more than MAX_TOKENS_PER_USER live tokens, and a token that was issued
\* leaves only for a reason of its own or after as many newer ones.
\* (saveToken, deleteOldestUserTokens)
THEOREM SpecHoldsNewest == Spec => []HoldsNewest
<1>1. Init => Counted
  <2> SUFFICES ASSUME Init PROVE Counted
    OBVIOUS
  <2>1. ToSet(saved) = {} /\ \A a \in Accounts : LiveTokens(a) = {}
    BY DEF Init, ToSet, LiveTokens
  <2> QED BY <2>1, FS_EmptySet, SessionsAssumption DEF Counted, Bounded
<1>2. Guarded /\ Counted /\ [Next]_vars => Counted'
  BY NextCounted
<1>3. Guarded /\ Counted => HoldsNewest
  <2> SUFFICES ASSUME Guarded, Counted PROVE HoldsNewest
    OBVIOUS
  <2>1. \A t : Cardinality(NewerOf(t)) \in Nat
    BY NewerFinite DEF Guarded
  <2>2. ASSUME NEW t \in ToSet(saved), t \notin removed, ~Expired(t),
               Cardinality(NewerOf(t)) < MaxTokens
        PROVE  Found(t)
    <3>1. ~(Cardinality(NewerOf(t)) >= MaxTokens)
      BY <2>1, <2>2, SessionsAssumption
    <3> QED BY <2>2, <3>1 DEF Counted, Accounted, Found
  <2> QED BY <2>2 DEF HoldsNewest, NewerOf, Counted, Bounded
<1> QED BY <1>1, <1>2, <1>3, SpecGuarded, PTL DEF Spec

-----------------------------------------------------------------------------
(***************************************************************************)
(* The life of the access tokens is that of RefreshRotation.               *)
(***************************************************************************)
HeldBy(p, t) == req[p].op = "refresh" /\ req[p].token = t /\ pc[p] = "save"
SpentBy(p, t) == req[p].op = "refresh" /\ req[p].token = t /\ pc[p] = "ok"
Redeems(p) == req[p].op = "refresh" /\ pc[p] \in {"save", "ok"}

\* At most one refresh has taken a token, and the token is gone then.
RedeemedOnce ==
  \A p \in Requests : Redeems(p) =>
    /\ req[p].token \notin store
    /\ \A q \in Requests \ {p} : Redeems(q) => req[q].token # req[p].token

LEMMA TokenStates ==
  ASSUME NEW t \in Requests
  PROVE  TokenState(t) = IF t \in store THEN "live"
                         ELSE IF \E p \in Requests : HeldBy(p, t) THEN "taken"
                         ELSE IF \E p \in Requests : SpentBy(p, t) THEN "spent"
                         ELSE IF pc[t] \in {"ok", "failed"} THEN "dropped" ELSE "none"
BY DEF TokenState, HeldBy, SpentBy

LEMMA TokenStatesNext ==
  ASSUME NEW t \in Requests
  PROVE  TokenState(t)' = IF t \in store' THEN "live"
                          ELSE IF \E p \in Requests : HeldBy(p, t)' THEN "taken"
                          ELSE IF \E p \in Requests : SpentBy(p, t)' THEN "spent"
                          ELSE IF pc'[t] \in {"ok", "failed"} THEN "dropped" ELSE "none"
BY DEF TokenState, HeldBy, SpentBy

\* A live token was issued and nobody has taken it; one that was taken was issued.
LEMMA HolderFacts ==
  ASSUME Guarded, RedeemedOnce, NEW t \in Requests
  PROVE  /\ t \in store => pc[t] = "ok"
         /\ \A p \in Requests : HeldBy(p, t) \/ SpentBy(p, t) =>
              /\ t \notin store /\ pc[t] = "ok"
              /\ \A q \in Requests \ {p} : ~HeldBy(q, t) /\ ~SpentBy(q, t)
BY DEF Guarded, Issued, Fits, RedeemedOnce, Redeems, HeldBy, SpentBy

\* t keeps its place, or is dropped.
Keeps(t) == \/ TokenState(t)' = TokenState(t)
            \/ TokenState(t) \in {"none", "live"} /\ TokenState(t)' = "dropped"

LEMMA PlaceKept ==
  ASSUME Guarded, RedeemedOnce, NEW t \in Requests,
         t \in store' => t \in store,
         pc[t] \in {"ok", "failed"} => pc'[t] \in {"ok", "failed"},
         \A q \in Requests : HeldBy(q, t)' <=> HeldBy(q, t),
         \A q \in Requests : SpentBy(q, t)' <=> SpentBy(q, t)
  PROVE  Keeps(t)
<1> DEFINE held == \E p \in Requests : HeldBy(p, t)
           gone == \E p \in Requests : SpentBy(p, t)
<1>1. TokenState(t) = IF t \in store THEN "live" ELSE IF held THEN "taken" ELSE IF gone THEN "spent"
                      ELSE IF pc[t] \in {"ok", "failed"} THEN "dropped" ELSE "none"
  BY TokenStates
<1>2. TokenState(t)' = IF t \in store' THEN "live" ELSE IF held THEN "taken" ELSE IF gone THEN "spent"
                       ELSE IF pc'[t] \in {"ok", "failed"} THEN "dropped" ELSE "none"
  <2>1. held' = held /\ gone' = gone
    OBVIOUS
  <2>2. TokenState(t)' = IF t \in store' THEN "live" ELSE IF held' THEN "taken"
                         ELSE IF gone' THEN "spent"
                         ELSE IF pc'[t] \in {"ok", "failed"} THEN "dropped" ELSE "none"
    BY TokenStatesNext
  <2> QED BY <2>1, <2>2
<1>3. t \in store => pc[t] = "ok" /\ ~held /\ ~gone
  BY HolderFacts
<1> QED BY <1>1, <1>2, <1>3 DEF Keeps

LEMMA MadeChange ==
  ASSUME NEW S \in SUBSET Requests, NEW made, DOMAIN made = S,
         \A t \in S : TokenState(t)' = made[t], \A t \in Requests \ S : Keeps(t)
  PROVE  Rotation!Change(made)
<1> DEFINE state == [t \in Requests |-> TokenState(t)]
           dropped == {t \in Requests \ S : TokenState(t) \in {"none", "live"}
                                            /\ TokenState(t)' = "dropped"}
<1>1. dropped \in SUBSET {t \in Requests : state[t] \in {"none", "live"}}
  OBVIOUS
<1>2. state' = [t \in Requests |-> IF t \in DOMAIN made THEN made[t]
                                   ELSE IF t \in dropped THEN "dropped" ELSE state[t]]
  BY DEF Keeps
<1> HIDE DEF dropped
<1> QED BY <1>1, <1>2 DEF Rotation!Change

LEMMA AllKept ==
  ASSUME \A t \in Requests : Keeps(t) PROVE Rotation!Next
<1> DEFINE made == [t \in {} |-> "dropped"]
<1>1. Rotation!Change(made)
  <2>1. DOMAIN made = {} /\ {} \in SUBSET Requests
    OBVIOUS
  <2> HIDE DEF made
  <2> QED BY <2>1, MadeChange
<1> QED BY <1>1 DEF Rotation!Next, Rotation!Drop

\* p goes on, the others stay where they are.
Alone(p) == /\ pc[p] \notin {"ok", "failed"}
            /\ \A q \in Requests \ {p} : pc'[q] = pc[q] /\ req'[q] = req[q]

LEMMA OthersHold ==
  ASSUME NEW p \in Requests, Alone(p), NEW t
  PROVE  \A q \in Requests \ {p} :
           (HeldBy(q, t)' <=> HeldBy(q, t)) /\ (SpentBy(q, t)' <=> SpentBy(q, t))
BY DEF Alone, HeldBy, SpentBy

LEMMA AloneKeeps ==
  ASSUME Guarded, RedeemedOnce, NEW p \in Requests, Alone(p),
         NEW t \in Requests, t \in store' => t \in store,
         HeldBy(p, t)' <=> HeldBy(p, t), SpentBy(p, t)' <=> SpentBy(p, t)
  PROVE  Keeps(t)
<1>1. \A q \in Requests : (HeldBy(q, t)' <=> HeldBy(q, t)) /\ (SpentBy(q, t)' <=> SpentBy(q, t))
  BY OthersHold
<1>2. pc[t] \in {"ok", "failed"} => pc'[t] \in {"ok", "failed"}
  BY DEF Alone
<1> QED BY <1>1, <1>2, PlaceKept

\* The steps that take no token and issue none.
Calm(p) == /\ Alone(p) /\ store' \subseteq store /\ saved' = saved
           /\ ~Redeems(p) /\ ~Redeems(p)'

LEMMA CalmSteps ==
  ASSUME Guarded, NEW p \in Requests,
         \/ Quiet(p) \/ Joined(p) \/ JwtJoined(p) \/ Invalidate(p) \/ Signout(p)
         \/ Claim(p) /\ ~Found(req[p].token)
  PROVE  Calm(p)
<1>0. TypeOK /\ Fits(p) /\ pc[p] \in Pcs
  BY DEF Guarded, TypeOK
<1>1. ASSUME pc'[p] \in {"ok", "failed"}, req'[p] = Blank PROVE ~Redeems(p)'
  <2>1. req'[p].op = "validate"
    BY <1>1 DEF Blank
  <2> QED BY <2>1 DEF Redeems
<1>2. CASE Joined(p) \/ JwtJoined(p)
  BY <1>0, <1>1, <1>2, JoinMoves DEF Calm, Alone, Redeems, tokens
<1>3. CASE Invalidate(p) \/ Signout(p)
  BY <1>0, <1>1, <1>3, RemovalMoves DEF Calm, Alone, Redeems, Takes
<1>4. CASE Claim(p) /\ ~Found(req[p].token)
  BY <1>0, <1>1, <1>4, ClaimMoves DEF Calm, Alone, Redeems, Takes
<1>5. CASE Quiet(p)
  <2>1. Rest(p) /\ pc[p] \notin {"ok", "failed"}
    BY <1>5, QuietMoves
  <2>2. ~Redeems(p) /\ ~Redeems(p)'
    <3>1. ASSUME NEW r, NEW where \in Pcs \ {"save", "ok"}, Begun(p, r, where)
          PROVE  ~Redeems(p) /\ ~Redeems(p)'
      BY <3>1 DEF Begun, Redeems
    <3>2. CASE StartAuthenticate(p) \/ StartRefresh(p)
      BY <1>0, <3>1, <3>2, AuthenticateBegins, RefreshBegins DEF Pcs
    <3>3. CASE StartValidate(p) \/ StartInvalidate(p) \/ StartSignout(p)
      BY <1>0, <3>1, <3>3, OthersBegin DEF Pcs
    <3>4. CASE StartJoin(p) \/ StartJwtJoin(p) \/ StartHasJoined(p)
      <4>1. /\ StartJoin(p) => \E r \in Request : Begun(p, r, "join")
            /\ StartJwtJoin(p) => \E r \in Request : Begun(p, r, "jwt")
            /\ StartHasJoined(p) => \E r \in Request : Begun(p, r, "profile")
        BY <1>0, JoinBegins, JwtBegins, HasJoinedBegins
      <4> QED BY <3>1, <3>4, <4>1 DEF Pcs
    <3>5. CASE FindProfiles(p)
      BY <1>0, <1>1, <3>5, FindProfilesMoves DEF Redeems
    <3>6. CASE FindUser(p)
      BY <1>0, <1>1, <3>6, FindUserMoves DEF Redeems
    <3>7. CASE Validate(p)
      BY <1>0, <1>1, <3>7, ValidateMoves DEF Redeems
    <3>8. CASE HasJoined(p)
      <4>1. pc[p] = "profile" /\ req[p].op # "refresh"
        BY <1>0, <3>8, HasJoinedMoves DEF Fits
      <4> QED BY <1>0, <1>1, <3>8, <4>1, HasJoinedMoves DEF Redeems
    <3> QED BY <1>5, <3>2, <3>3, <3>4, <3>5, <3>6, <3>7, <3>8 DEF Quiet
  <2> QED BY <2>1, <2>2 DEF Calm, Alone, Rest, tokens
<1> QED BY <1>2, <1>3, <1>4, <1>5

LEMMA CalmRotates ==
  ASSUME Guarded, RedeemedOnce, NEW p \in Requests, Calm(p) PROVE Rotation!Next /\ RedeemedOnce'
<1>1. \A t \in Requests : ~HeldBy(p, t)' /\ ~HeldBy(p, t) /\ ~SpentBy(p, t)' /\ ~SpentBy(p, t)
  BY DEF Calm, Redeems, HeldBy, SpentBy
<1>2. \A t \in Requests : Keeps(t)
  BY <1>1, AloneKeeps DEF Calm
<1>3. \A q \in Requests : Redeems(q)' => q # p /\ Redeems(q) /\ req'[q] = req[q]
  BY DEF Calm, Alone, Redeems
<1>4. RedeemedOnce'
  BY <1>3 DEF RedeemedOnce, Calm
<1> QED BY <1>2, <1>4, AllKept

LEMMA ClaimRotates ==
  ASSUME Guarded, RedeemedOnce, NEW p \in Requests, Claim(p), Found(req[p].token)
  PROVE  Rotation!Next /\ RedeemedOnce'
<1> DEFINE t == req[p].token
           made == [x \in {t} |-> "taken"]
<1>1. /\ pc[p] = "claim" /\ req[p].op = "refresh" /\ t \in store /\ t \in Requests
      /\ store' = store \ {t} /\ pc'[p] = "save" /\ req'[p] = req[p] /\ Alone(p)
  <2>1. /\ pc[p] = "claim" /\ Takes(p) /\ store' = store \ {t}
        /\ \/ Found(t) /\ pc'[p] = "save" /\ req'[p] = req[p]
           \/ pc'[p] = "failed" /\ req'[p] = Blank
    BY ClaimMoves DEF Guarded
  <2>2. Claim(p) /\ Found(t) => Go(p, "save", req[p])
    BY DEF Claim
  <2>3. pc'[p] = "save" /\ req'[p] = req[p]
    BY <2>1, <2>2 DEF Go, Guarded, TypeOK
  <2> QED BY <2>1, <2>3 DEF Guarded, Fits, TypeOK, Found, Alone, Takes
<1>2. HeldBy(p, t)'
  BY <1>1 DEF HeldBy
<1>3. TokenState(t) = "live" /\ TokenState(t)' = "taken"
  BY <1>1, <1>2, TokenStates, TokenStatesNext
<1>4. ASSUME NEW x \in Requests \ {t} PROVE Keeps(x)
  <2>1. ~HeldBy(p, x)' /\ ~HeldBy(p, x) /\ ~SpentBy(p, x)' /\ ~SpentBy(p, x)
    BY <1>1 DEF HeldBy, SpentBy
  <2> QED BY <1>1, <2>1, AloneKeeps
<1>5. Rotation!Change(made)
  BY <1>1, <1>3, <1>4, MadeChange
<1>6. Rotation!Take(t)
  BY <1>1, <1>3, <1>5 DEF Rotation!Take
<1>7. RedeemedOnce'
  <2>1. \A q \in Requests \ {p} : Redeems(q)' => Redeems(q) /\ req'[q] = req[q]
    BY <1>1 DEF Alone, Redeems
  <2>2. \A q \in Requests \ {p} : Redeems(q) => req[q].token # t
    BY <1>1 DEF RedeemedOnce
  <2> QED BY <1>1, <2>1, <2>2 DEF RedeemedOnce
<1> QED BY <1>1, <1>6, <1>7 DEF Rotation!Next

\* A new token, in exchange for the old one when there is one.
LEMMA SaveRotates ==
  ASSUME Guarded, RedeemedOnce, NEW p \in Requests, Save(p) PROVE Rotation!Next /\ RedeemedOnce'
<1>1. /\ pc[p] = "save" /\ pc'[p] = "ok" /\ Fits(p) /\ Alone(p)
      /\ req'[p].op = req[p].op /\ req'[p].token = req[p].token
      /\ p \in store' /\ \A x \in Requests : (x \in store' => x \in store \/ x = p)
      /\ p \notin ToSet(saved)
  BY SaveMoves, SavedGrows DEF Guarded, Alone
<1>2. TokenState(p) = "none" /\ TokenState(p)' = "live"
  <2>1. p \notin store /\ \A q \in Requests : ~HeldBy(q, p) /\ ~SpentBy(q, p)
    BY <1>1, HolderFacts
  <2> QED BY <1>1, <2>1, TokenStates, TokenStatesNext
<1>3. RedeemedOnce'
  <2>1. \A q \in Requests : Redeems(q)' => Redeems(q) /\ req'[q].token = req[q].token
    BY <1>1 DEF Alone, Redeems
  <2>2. \A q \in Requests : Redeems(q) => req[q].token \in ToSet(saved) /\ req[q].token \in Requests
    BY SavedType DEF Guarded, Fits, Redeems
  <2> QED BY <1>1, <2>1, <2>2 DEF RedeemedOnce
<1>4. CASE req[p].op # "refresh"
  <2> DEFINE made == [x \in {p} |-> "live"]
  <2>1. ASSUME NEW x \in Requests \ {p} PROVE Keeps(x)
    <3>1. ~HeldBy(p, x)' /\ ~HeldBy(p, x) /\ ~SpentBy(p, x)' /\ ~SpentBy(p, x)
      BY <1>1, <1>4 DEF HeldBy, SpentBy
    <3> QED BY <1>1, <3>1, AloneKeeps
  <2>2. Rotation!Change(made)
    BY <1>2, <2>1, MadeChange
  <2>3. Rotation!Issue(p)
    BY <1>2, <2>2 DEF Rotation!Issue
  <2> QED BY <1>3, <2>3 DEF Rotation!Next
<1>5. CASE req[p].op = "refresh"
  <2>0. req[p].token \in ToSet(saved) /\ req[p].token \in Requests
    BY <1>1, <1>5, SavedType DEF Fits, Guarded
  <2> PICK t \in Requests : t = req[p].token
    BY <2>0
  <2> DEFINE made == [x \in {t, p} |-> IF x = t THEN "spent" ELSE "live"]
  <2>1. t # p /\ HeldBy(p, t) /\ SpentBy(p, t)' /\ ~HeldBy(p, t)'
    BY <1>1, <1>5, <2>0 DEF HeldBy, SpentBy
  <2>2. /\ t \notin store
        /\ \A q \in Requests \ {p} : ~HeldBy(q, t) /\ ~SpentBy(q, t)
    BY <2>1, HolderFacts
  <2>3. TokenState(t) = "taken"
    BY <2>1, <2>2, TokenStates
  <2>4. \A q \in Requests : ~HeldBy(q, t)'
    BY <1>1, <2>1, <2>2, OthersHold
  <2>5. TokenState(t)' = "spent"
    <3>1. t \notin store' /\ \E q \in Requests : SpentBy(q, t)'
      BY <1>1, <2>1, <2>2
    <3> QED BY <2>4, <3>1, TokenStatesNext
  <2>6. ASSUME NEW x \in Requests \ {t, p} PROVE Keeps(x)
    <3>1. ~HeldBy(p, x)' /\ ~HeldBy(p, x) /\ ~SpentBy(p, x)' /\ ~SpentBy(p, x)
      BY <1>1 DEF HeldBy, SpentBy
    <3> QED BY <1>1, <3>1, AloneKeeps
  <2>7. Rotation!Change(made)
    <3>1. DOMAIN made = {t, p} /\ {t, p} \in SUBSET Requests
      OBVIOUS
    <3>2. \A x \in {t, p} : TokenState(x)' = made[x]
      <4>1. made[t] = "spent" /\ made[p] = "live"
        BY <2>1
      <4> HIDE DEF made
      <4> QED BY <1>2, <2>5, <4>1
    <3> HIDE DEF made
    <3> QED BY <2>6, <3>1, <3>2, MadeChange
  <2>8. Rotation!Exchange(t, p)
    <3>1. /\ [x \in Requests |-> TokenState(x)][t] = "taken"
          /\ [x \in Requests |-> TokenState(x)][p] = "none"
      BY <1>2, <2>3
    <3> QED BY <2>7, <3>1 DEF Rotation!Exchange
  <2> QED BY <1>3, <2>8 DEF Rotation!Next
<1> QED BY <1>4, <1>5

LEMMA NextRotates ==
  ASSUME Guarded, RedeemedOnce, [Next]_vars
  PROVE  RedeemedOnce' /\ [Rotation!Next]_([t \in Requests |-> TokenState(t)])
<1>1. CASE UNCHANGED vars
  BY <1>1 DEF vars, tokens, TokenState, RedeemedOnce, Redeems
<1>2. CASE Surroundings
  <2>1. pc' = pc /\ req' = req /\ store' \subseteq store
    BY <1>2, SurroundingsStay DEF Guarded
  <2>2. \A t \in Requests : Keeps(t)
    BY <2>1, PlaceKept DEF HeldBy, SpentBy
  <2>3. RedeemedOnce'
    BY <2>1 DEF RedeemedOnce, Redeems
  <2> QED BY <2>2, <2>3, AllKept
<1>3. ASSUME NEW p \in Requests, Quiet(p) \/ Joined(p) \/ JwtJoined(p) \/ Invalidate(p) \/ Signout(p)
      PROVE  RedeemedOnce' /\ Rotation!Next
  BY <1>3, CalmSteps, CalmRotates
<1>4. ASSUME NEW p \in Requests, Claim(p) PROVE RedeemedOnce' /\ Rotation!Next
  BY <1>4, CalmSteps, CalmRotates, ClaimRotates
<1>5. ASSUME NEW p \in Requests, Save(p) PROVE RedeemedOnce' /\ Rotation!Next
  BY <1>5, SaveRotates
<1> QED BY <1>1, <1>2, <1>3, <1>4, <1>5 DEF Next, Surroundings, Quiet

\* The access tokens rotate: whoever presents a token and whatever runs
\* meanwhile, it is exchanged at most once and never returns when it was
\* exchanged, invalidated or signed out.  (claimToken, saveToken, deleteToken)
THEOREM SpecImplementsRotation == Spec => ImplementsRotation
<1>1. Init => Rotation!Init /\ RedeemedOnce
  BY DEF Init, Rotation!Init, TokenState, Blank, RedeemedOnce, Redeems
<1>2. Guarded /\ RedeemedOnce /\ [Next]_vars =>
        RedeemedOnce' /\ [Rotation!Next]_([t \in Requests |-> TokenState(t)])
  BY NextRotates
<1> QED BY <1>1, <1>2, SpecGuarded, PTL DEF Spec, ImplementsRotation, Rotation!Spec
=============================================================================
