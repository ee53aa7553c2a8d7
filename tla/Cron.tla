-------------------------------- MODULE Cron --------------------------------
(***************************************************************************)
(* Scheduled tasks: CronService.  A round runs the tasks one after the     *)
(* other and waits for each as long as taskTimeoutMs; a task that takes    *)
(* longer runs on as a zombie, and no round starts beside it before it is  *)
(* zombieTtlMs old.  A round may be asked for at any time: besides the     *)
(* daily timer, runAll can be called.                                      *)
(***************************************************************************)
EXTENDS Naturals, FiniteSets

CONSTANTS
  Tasks,      \* how many tasks are registered
  MaxRounds,  \* bound: rounds that are asked for
  Ttl,        \* zombieTtlMs in ticks of the clock
  None

VARIABLES
  round,    \* how many rounds were started
  running,  \* a round is under way
  next,     \* the task the round comes to
  awaited,  \* the run the round waits for, or None
  runs,     \* the task runs that have not ended
  zombies,  \* zombieRuns: runs that took too long, with their age
  expired   \* history: runs that were too old to be waited for

vars == <<round, running, next, awaited, runs, zombies, expired>>

Runs == [round : 1..MaxRounds, task : 1..Tasks]
TypeOK ==
  /\ round \in 0..MaxRounds /\ running \in BOOLEAN
  /\ next \in 1..Tasks + 1 /\ awaited \in Runs \cup {None}
  /\ {runs, expired} \subseteq SUBSET Runs
  /\ zombies \subseteq [run : Runs, age : 0..Ttl]

Init ==
  /\ round = 0 /\ running = FALSE /\ next = 1 /\ awaited = None
  /\ runs = {} /\ zombies = {} /\ expired = {}

Stale(z) == z.age = Ttl
Fresh == {z \in zombies : ~Stale(z)}
-----------------------------------------------------------------------------
\* expireStaleZombies
Expire ==
  /\ zombies' = Fresh
  /\ expired' = expired \cup {z.run : z \in zombies \ Fresh}

\* BUG: the zombies of earlier rounds are not looked at.
RunAllBeside ==
  /\ ~running /\ round < MaxRounds /\ Expire
  /\ running' = TRUE /\ round' = round + 1 /\ next' = 1
  /\ UNCHANGED <<awaited, runs>>

\* A round that is under way, or a zombie, makes runAll return.
RunAll ==
  /\ ~running /\ round < MaxRounds /\ Expire
  /\ IF Fresh = {} THEN running' = TRUE /\ round' = round + 1 /\ next' = 1
                   ELSE UNCHANGED <<running, round, next>>
  /\ UNCHANGED <<awaited, runs>>

StartTask ==
  /\ running /\ awaited = None /\ next <= Tasks
  /\ awaited' = [round |-> round, task |-> next]
  /\ runs' = runs \cup {awaited'} /\ next' = next + 1
  /\ UNCHANGED <<round, running, zombies, expired>>

\* The task ends, or fails, in time.
FinishTask ==
  /\ awaited # None /\ runs' = runs \ {awaited} /\ awaited' = None
  /\ UNCHANGED <<round, running, next, zombies, expired>>

\* The timer of runWithTimeout.
TimeOut ==
  /\ awaited # None /\ zombies' = zombies \cup {[run |-> awaited, age |-> 0]}
  /\ awaited' = None
  /\ UNCHANGED <<round, running, next, runs, expired>>

EndRound ==
  /\ running /\ awaited = None /\ next > Tasks /\ running' = FALSE
  /\ UNCHANGED <<round, next, awaited, runs, zombies, expired>>

\* A run that was given up ends after all.
FinishZombie ==
  /\ \E r \in runs \ {awaited} :
       runs' = runs \ {r} /\ zombies' = {z \in zombies : z.run # r}
  /\ UNCHANGED <<round, running, next, awaited, expired>>

Tick ==
  /\ Fresh # {}
  /\ zombies' = {[z EXCEPT !.age = IF Stale(z) THEN @ ELSE @ + 1] : z \in zombies}
  /\ UNCHANGED <<round, running, next, awaited, runs, expired>>

Round == StartTask \/ FinishTask \/ TimeOut \/ EndRound
Next == RunAll \/ Round \/ FinishZombie \/ Tick

\* The timers fire and the clock goes on; a task need not end.
Fairness == WF_vars(Round) /\ WF_vars(Tick) /\ WF_vars(RunAll)

Spec == Init /\ [][Next]_vars /\ Fairness
-----------------------------------------------------------------------------
(***************************************************************************)
(* The runs of two rounds overlap only when the older one was given up for *)
(* its age.  (Within a round the next task does start beside a zombie.)    *)
(***************************************************************************)
OnceAtATime ==
  \A r, s \in runs : r.round < s.round => r \in expired

(***************************************************************************)
(* A task that never ends stops neither its round nor, for ever, the ones  *)
(* asked for later.                                                        *)
(***************************************************************************)
RoundsGoOn == /\ running ~> ~running
              /\ round < MaxRounds ~> running
=============================================================================
