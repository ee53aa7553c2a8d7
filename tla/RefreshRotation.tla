--------------------------- MODULE RefreshRotation ---------------------------
(***************************************************************************)
(* What the owner of a refresh token is promised.  A token is issued once; *)
(* while it is live somebody may take it in exchange for a new one; the    *)
(* exchange succeeds at most once, and one that fails gives the token back *)
(* or loses it.  A token that was exchanged or dropped never returns.      *)
(***************************************************************************)
CONSTANT Tokens

VARIABLE state   \* state[t]: where the token is in its life

States == {"none", "live", "taken", "spent", "dropped"}

TypeOK == state \in [Tokens -> States]

Init == state = [t \in Tokens |-> "none"]

\* The tokens change as "made" says.  Others that wait or are live may be
\* dropped in the same step: to keep a limit, because a session is ended, or
\* because the request that would have issued them is over.
Change(made) == \E dropped \in SUBSET {t \in Tokens : state[t] \in {"none", "live"}} :
  state' = [t \in Tokens |-> IF t \in DOMAIN made THEN made[t]
                             ELSE IF t \in dropped THEN "dropped" ELSE state[t]]

Drop == Change([t \in {} |-> "dropped"])

Issue(t) == state[t] = "none" /\ Change([x \in {t} |-> "live"])

Take(t) == state[t] = "live" /\ Change([x \in {t} |-> "taken"])

\* The exchange of an old token for a new one.
Exchange(t, n) == /\ state[t] = "taken" /\ state[n] = "none"
                  /\ Change([x \in {t, n} |-> IF x = t THEN "spent" ELSE "live"])

GiveBack(t) == state[t] = "taken" /\ Change([x \in {t} |-> "live"])

Lose(t) == state[t] = "taken" /\ Change([x \in {t} |-> "dropped"])

Next == \/ Drop
        \/ \E t \in Tokens : Issue(t) \/ Take(t) \/ GiveBack(t) \/ Lose(t)
        \/ \E t, n \in Tokens : Exchange(t, n)

Spec == Init /\ [][Next]_state

\* What was exchanged or dropped never comes back.
Final == [][\A t \in Tokens : state[t] \in {"spent", "dropped"}
                                => state'[t] = state[t]]_state
=============================================================================
