---------------------------- MODULE StatusCheck ----------------------------
(***************************************************************************)
(* The status of the game server: MinecraftStatusService, and getStatus of *)
(* RconService, which does the same without a pause after a failure.       *)
(* Callers that miss the cache share one check; what it finds is cached.   *)
(* The game server itself is the outcome of a check.                       *)
(***************************************************************************)
EXTENDS Naturals, FiniteSets

CONSTANTS
  Callers,
  Cooldown,   \* failureCooldownMs in ticks, 0 for RCON
  MaxChecks,  \* bound: checks that are made
  None

VARIABLES
  at,        \* where a caller is
  joined,    \* the check whose outcome a caller waits for or has got
  checks,    \* how many checks were begun
  open,      \* the checks that are under way: status or checkAvailable
  saving,    \* checks that found an answer and have yet to put it into the cache
  pending,   \* pendingPing or pendingCheck
  cached,    \* the check whose answer is cached
  cooling,   \* ticks until failureCooldownUntil
  failed     \* history: the checks that failed

vars == <<at, joined, checks, open, saving, pending, cached, cooling, failed>>

Checks == 1..MaxChecks
TypeOK ==
  /\ at \in [Callers -> {"idle", "asked", "waiting", "clearing", "answered", "refused"}]
  /\ joined \in [Callers -> Checks \cup {None}]
  /\ checks \in 0..MaxChecks
  /\ {open, saving, failed} \subseteq SUBSET Checks
  /\ {pending, cached} \subseteq Checks \cup {None}
  /\ cooling \in 0..Cooldown

Init ==
  /\ at = [c \in Callers |-> "idle"] /\ joined = [c \in Callers |-> None]
  /\ checks = 0 /\ open = {} /\ saving = {} /\ failed = {}
  /\ pending = None /\ cached = None /\ cooling = 0

Goto(c, to) == at' = [at EXCEPT ![c] = to]
Join(c, k) == joined' = [joined EXCEPT ![c] = k]
-----------------------------------------------------------------------------
\* getOnline asks the cache, which answers later.
Ask(c) ==
  /\ at[c] = "idle"
  /\ \/ cached # None /\ Goto(c, "answered") /\ Join(c, cached)
     \/ cached = None /\ Goto(c, "asked") /\ UNCHANGED joined
  /\ UNCHANGED <<checks, open, saving, pending, cached, cooling, failed>>

Promised == pending # None

\* What is pending is joined; the pause makes the call fail; else a check is
\* begun by this caller, who is also to forget it.
Resume(c) ==
  /\ at[c] = "asked"
  /\ \/ /\ Promised /\ Goto(c, "waiting") /\ Join(c, pending)
        /\ UNCHANGED <<checks, open, pending>>
     \/ /\ ~Promised /\ cooling > 0 /\ Goto(c, "refused")
        /\ UNCHANGED <<joined, checks, open, pending>>
     \/ /\ ~Promised /\ cooling = 0 /\ checks < MaxChecks
        /\ checks' = checks + 1 /\ open' = open \cup {checks'} /\ pending' = checks'
        /\ Goto(c, "clearing") /\ Join(c, checks')
  /\ UNCHANGED <<saving, cached, cooling, failed>>

\* The server answers, or the check fails or times out.
Reply ==
  /\ \E k \in open :
       /\ open' = open \ {k}
       /\ \/ saving' = saving \cup {k} /\ UNCHANGED <<cooling, failed>>
          \/ failed' = failed \cup {k} /\ cooling' = Cooldown /\ UNCHANGED saving
  /\ UNCHANGED <<at, joined, checks, pending, cached>>

\* cache.set; Redis may not take it.
Save ==
  /\ \E k \in saving : saving' = saving \ {k} /\ cached' \in {k, cached}
  /\ UNCHANGED <<at, joined, checks, open, pending, cooling, failed>>

\* BUG: whoever gets the outcome forgets what is pending by then.
ReturnForgetting(c) ==
  /\ at[c] \in {"waiting", "clearing"} /\ joined[c] \notin open \cup saving
  /\ Goto(c, IF joined[c] \in failed THEN "refused" ELSE "answered")
  /\ pending' = None
  /\ UNCHANGED <<joined, checks, open, saving, cached, cooling, failed>>

\* The outcome reaches the one who began the check and those who joined it.
Return(c) ==
  /\ at[c] \in {"waiting", "clearing"} /\ joined[c] \notin open \cup saving
  /\ Goto(c, IF joined[c] \in failed THEN "refused" ELSE "answered")
  /\ pending' = (IF at[c] = "clearing" THEN None ELSE pending)
  /\ UNCHANGED <<joined, checks, open, saving, cached, cooling, failed>>

Tick ==
  /\ cooling > 0 /\ cooling' = cooling - 1
  /\ UNCHANGED <<at, joined, checks, open, saving, pending, cached, failed>>

Expire ==
  /\ cached # None /\ cached' = None
  /\ UNCHANGED <<at, joined, checks, open, saving, pending, cooling, failed>>

Again(c) ==
  /\ at[c] \in {"answered", "refused"} /\ Goto(c, "idle") /\ Join(c, None)
  /\ UNCHANGED <<checks, open, saving, pending, cached, cooling, failed>>

Next ==
  \/ \E c \in Callers : Ask(c) \/ Resume(c) \/ Return(c) \/ Again(c)
  \/ Reply \/ Save \/ Tick \/ Expire

\* A check has a timeout, the cache answers, and who waits is called back.
Fairness == WF_vars(Reply) /\ WF_vars(Save) /\ \A c \in Callers : WF_vars(Return(c))

Spec == Init /\ [][Next]_vars /\ Fairness
-----------------------------------------------------------------------------
(***************************************************************************)
(* At most one check is under way or has an answer on its way into the     *)
(* cache, and it is the one that callers join: none is forgotten before it *)
(* has ended, and none begun beside it.                                    *)
(***************************************************************************)
OneCheck ==
  /\ Cardinality(open \cup saving) <= 1
  /\ open \cup saving \subseteq {pending}

(* A caller that waits is answered. *)
CallersReturn ==
  \A c \in Callers : at[c] \in {"waiting", "clearing"} ~> at[c] \in {"answered", "refused"}
=============================================================================
