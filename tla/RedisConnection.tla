-------------------------- MODULE RedisConnection --------------------------
(***************************************************************************)
(* The connection to Redis that the cache and the rate limit share the     *)
(* handling of: RedisClientLifecycle.  The client calls onclose and        *)
(* onconnect; a lost connection is taken up again by a timer, as often as  *)
(* it takes.  A command that fails or takes too long is a miss.            *)
(***************************************************************************)
EXTENDS Naturals

CONSTANTS MaxOutages  \* bound: how often Redis goes away

VARIABLES
  reachable,   \* Redis can be reached
  outages,     \* how often it went away
  link,        \* the client: "up", "down", or "opening" by reconnect
  told,        \* onclose has been called for the link that went down last
  rejected,    \* connect has failed, which scheduleReconnect has yet to hear
  timer,       \* reconnectTimer is set
  closed,      \* dispose was called
  failures     \* consecutiveFailures, 0, 1 or more

vars == <<reachable, outages, link, told, rejected, timer, closed, failures>>

TypeOK ==
  /\ {reachable, told, rejected, timer, closed} \subseteq BOOLEAN
  /\ outages \in 0..MaxOutages
  /\ link \in {"up", "down", "opening"}
  /\ failures \in 0..2

Init ==
  /\ reachable \in BOOLEAN /\ outages = 0
  /\ link = "down" /\ told = FALSE /\ rejected = FALSE
  /\ timer = FALSE /\ closed = FALSE /\ failures = 0

Lose ==
  /\ reachable /\ outages < MaxOutages /\ outages' = outages + 1
  /\ reachable' = FALSE /\ UNCHANGED <<link, told, rejected, timer, closed, failures>>

Return ==
  /\ ~reachable /\ reachable' = TRUE
  /\ UNCHANGED <<outages, link, told, rejected, timer, closed, failures>>

\* The link goes down, with Redis or by itself.
GoDown ==
  /\ link' = "down"
  /\ (reachable => outages < MaxOutages)
  /\ outages' = (IF reachable THEN outages + 1 ELSE outages)

Break ==
  /\ link = "up" /\ GoDown /\ told' = FALSE
  /\ UNCHANGED <<reachable, rejected, timer, closed, failures>>

\* BUG: a reconnect that fails is not repeated.
ScheduleOnce == timer' = (timer \/ (~closed /\ ~rejected))

ClearReconnectTimer == timer' = FALSE

\* scheduleReconnect; one timer at a time, and none after dispose.
ScheduleReconnect == timer' = (timer \/ ~closed)

\* onclose, which may come when another attempt is under way or has succeeded.
OnClose ==
  /\ ~told /\ told' = TRUE /\ ScheduleReconnect
  /\ UNCHANGED <<reachable, outages, link, rejected, closed, failures>>

\* The timer of scheduleReconnect calls connect ...
FireTimer ==
  /\ timer /\ timer' = FALSE
  /\ link' = (IF link = "down" THEN "opening" ELSE link)
  /\ UNCHANGED <<reachable, outages, told, rejected, closed, failures>>

\* ... which succeeds and calls onconnect, or fails.
Open ==
  /\ link = "opening" /\ reachable /\ link' = "up" /\ ClearReconnectTimer
  /\ UNCHANGED <<reachable, outages, told, rejected, closed, failures>>

\* The client rejects what connect has promised, and may call onclose besides.
OpenFails ==
  /\ link = "opening" /\ GoDown
  /\ rejected' = TRUE /\ told' \in {told, FALSE}
  /\ UNCHANGED <<reachable, timer, closed, failures>>

OnRejected ==
  /\ rejected /\ rejected' = FALSE /\ ScheduleReconnect
  /\ UNCHANGED <<reachable, outages, link, told, closed, failures>>

\* withTimeout: an answer comes in time or not.
Answers == link = "up" /\ reachable

\* reportSuccess or reportFailure
Report(succeeded) ==
  failures' = (IF succeeded THEN 0 ELSE IF failures = 2 THEN 2 ELSE failures + 1)

\* get, set or delete of the cache, or an EVAL of the limit.
Command ==
  /\ ~closed /\ Report(Answers)
  /\ UNCHANGED <<reachable, outages, link, told, rejected, timer, closed>>

Dispose ==
  /\ ~closed /\ closed' = TRUE /\ ClearReconnectTimer
  /\ link' = (IF link = "up" THEN "down" ELSE link) /\ told' = (told /\ link # "up")
  /\ UNCHANGED <<reachable, outages, rejected, failures>>

Client == OnClose \/ FireTimer \/ Open \/ OpenFails \/ OnRejected
Next == Lose \/ Return \/ Break \/ Client \/ Command \/ Dispose

\* The client's callbacks and timers, and commands that keep coming.
Fairness == WF_vars(Client) /\ WF_vars(Command)

Spec == Init /\ [][Next]_vars /\ Fairness
-----------------------------------------------------------------------------
(***************************************************************************)
(* Redis comes back into use: when it stays reachable the commands succeed *)
(* again, after any outages.                                               *)
(***************************************************************************)
ComesBack == <>[]reachable /\ []~closed => <>[](failures = 0)
=============================================================================
