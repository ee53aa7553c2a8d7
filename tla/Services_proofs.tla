-------------------------- MODULE Services_proofs --------------------------
(***************************************************************************)
(* The smaller services, for any number of calls, callers, revisions,      *)
(* tasks and days.  Each service has an inductive invariant of its own;    *)
(* the composition takes a step of one of them or leaves it alone.         *)
(***************************************************************************)
EXTENDS MCServices, NumberLemmas, SequenceTheorems, TLAPS

(***************************************************************************)
(* The first owner.  The token is what excludes: a call that has taken it  *)
(* is the only one that redeems, and gives it back only once its own row   *)
(* is gone.                                                                *)
(***************************************************************************)

\* The call has taken the token; its row is not in the table, or may be.
Without == {"creating", "restoring"}
Within == {"saving", "undoing", "removing"}
Redeeming == Without \cup Within

OneRedeems ==
  /\ \A c \in Calls : pc[c] \in Redeeming => token = None
  /\ \A c, d \in Calls : pc[c] \in Redeeming /\ pc[d] \in Redeeming => c = d

NothingWhileDown == ~up => token = None /\ \A c \in Calls : pc[c] \notin Redeeming

RowFollowsCall ==
  ~orphaned => \A c \in Calls : /\ pc[c] \in Without => owners = {}
                                /\ pc[c] \in Within => owners \subseteq {c}

OwnerGuarded == /\ pc \in [Calls -> Owner!Places]
        /\ OneRedeems /\ NothingWhileDown /\ RowFollowsCall /\ Owner!OneOwner

LEMMA InitOwner == Owner!Init => OwnerGuarded
  BY DEF Owner!Init, OwnerGuarded, OneRedeems, NothingWhileDown, RowFollowsCall,
         Owner!OneOwner, Owner!Places, Without, Within, Redeeming

LEMMA ProcessKeepsOwner ==
  ASSUME OwnerGuarded, Owner!Start \/ Owner!Crash
  PROVE  OwnerGuarded'
<1> USE DEF OwnerGuarded, Owner!Places, Without, Within, Redeeming
<1>1. CASE Owner!Start
  BY <1>1 DEF Owner!Start, OneRedeems, NothingWhileDown, RowFollowsCall, Owner!OneOwner
<1>2. CASE Owner!Crash
  <2>1. \A c \in Calls : pc'[c] \in {"idle", "done"} BY <1>2 DEF Owner!Crash
  <2>2. pc' \in [Calls -> Owner!Places] BY <1>2 DEF Owner!Crash
  <2>3. Owner!OneOwner' BY <1>2 DEF Owner!Crash, Owner!OneOwner
  <2> QED
    BY <1>2, <2>1, <2>2, <2>3 DEF Owner!Crash, OneRedeems, NothingWhileDown, RowFollowsCall
<1> QED BY <1>1, <1>2

LEMMA CallKeepsOwner ==
  ASSUME NEW c \in Calls, OwnerGuarded,
         Owner!CheckOwner(c) \/ Owner!TakeToken(c) \/ Owner!CreateUser(c) \/ Owner!SaveAdminUser(c)
         \/ Owner!RollbackAuthUser(c) \/ Owner!RestoreToken(c) \/ Owner!RemoveTokenFile(c)
  PROVE  OwnerGuarded'
<1> USE DEF OwnerGuarded, Owner!Places, Without, Within, Redeeming, Owner!Goto
<1>1. CASE Owner!CheckOwner(c)
  BY <1>1 DEF Owner!CheckOwner, OneRedeems, NothingWhileDown, RowFollowsCall, Owner!OneOwner
\* With the token there is no owner, so the one to come is alone.
<1>2. CASE Owner!TakeToken(c)
  <2>1. CASE pc' = [pc EXCEPT ![c] = "done"] /\ UNCHANGED <<token, expected>>
    BY <1>2, <2>1
    DEF Owner!TakeToken, OneRedeems, NothingWhileDown, RowFollowsCall, Owner!OneOwner
  <2>2. CASE token # None /\ pc' = [pc EXCEPT ![c] = "creating"] /\ token' = None
    <3>1. \A d \in Calls : pc[d] \notin Redeeming BY <2>2 DEF OneRedeems
    <3>2. ~orphaned => owners = {} BY <2>2 DEF Owner!OneOwner
    <3> QED
      BY <1>2, <2>2, <3>1, <3>2
      DEF Owner!TakeToken, OneRedeems, NothingWhileDown, RowFollowsCall, Owner!OneOwner
  <2> QED BY <1>2, <2>1, <2>2 DEF Owner!TakeToken
\* From here on the call is alone in redeeming, and the token is None.
<1>3. CASE Owner!CreateUser(c)
  BY <1>3 DEF Owner!CreateUser, OneRedeems, NothingWhileDown, RowFollowsCall, Owner!OneOwner
<1>4. CASE Owner!SaveAdminUser(c)
  BY <1>4
  DEF Owner!SaveAdminUser, OneRedeems, NothingWhileDown, RowFollowsCall, Owner!OneOwner
<1>5. CASE Owner!RollbackAuthUser(c)
  <2>1. /\ pc[c] \in Within /\ owners' \subseteq owners
        /\ UNCHANGED <<up, token>>
        /\ \/ pc' = [pc EXCEPT ![c] = "undoing"]
           \/ pc' = [pc EXCEPT ![c] = "restoring"]
    BY <1>5 DEF Owner!RollbackAuthUser
  <2>2. ~orphaned' => ~orphaned
    BY <1>5 DEF Owner!RollbackAuthUser
  <2>3. ~orphaned' /\ pc'[c] = "restoring" => c \notin owners'
    BY <1>5 DEF Owner!RollbackAuthUser
  <2>4. OneRedeems' /\ NothingWhileDown' BY <1>5, <2>1
                                         DEF Owner!RollbackAuthUser, OneRedeems,
                                             NothingWhileDown
  <2> QED BY <2>1, <2>2, <2>3, <2>4 DEF OneRedeems, RowFollowsCall, Owner!OneOwner
<1>6. CASE Owner!RestoreToken(c)
  BY <1>6 DEF Owner!RestoreToken, OneRedeems, NothingWhileDown, RowFollowsCall, Owner!OneOwner
<1>7. CASE Owner!RemoveTokenFile(c)
  BY <1>7
  DEF Owner!RemoveTokenFile, OneRedeems, NothingWhileDown, RowFollowsCall, Owner!OneOwner
<1> QED BY <1>1, <1>2, <1>3, <1>4, <1>5, <1>6, <1>7

LEMMA OwnerStep == OwnerGuarded /\ [Owner!Next]_ofOwner => OwnerGuarded'
<1> SUFFICES ASSUME OwnerGuarded, [Owner!Next]_ofOwner PROVE OwnerGuarded'
  OBVIOUS
<1>1. CASE UNCHANGED ofOwner
  BY <1>1
  DEF ofOwner, OwnerGuarded, OneRedeems, NothingWhileDown, RowFollowsCall, Owner!OneOwner
<1>2. CASE Owner!Next
  BY <1>2, ProcessKeepsOwner, CallKeepsOwner DEF Owner!Next
<1> QED BY <1>1, <1>2

(***************************************************************************)
(* initOwner leaves one owner at most and none beside a token that can be  *)
(* redeemed, for any number of calls and any crashes, unless a row could   *)
(* not be taken back.                                                      *)
(***************************************************************************)
THEOREM SpecOneOwner == Spec => []OneOwner
<1>1. Init => OwnerGuarded
  <2>1. OwnerRests => OwnerGuarded
    BY DEF OwnerRests, OwnerGuarded, OneRedeems, NothingWhileDown, RowFollowsCall,
           Owner!OneOwner, Owner!Places, Without, Within, Redeeming
  <2> QED BY <2>1, InitOwner DEF Init
<1>2. OwnerGuarded /\ [Next]_vars => OwnerGuarded'
  BY OwnerStep DEF Next, vars
<1>3. OwnerGuarded => OneOwner
  BY DEF OwnerGuarded, OneOwner
<1> QED BY <1>1, <1>2, <1>3, PTL DEF Spec

-----------------------------------------------------------------------------
(***************************************************************************)
(* The rebuild.  While the binary is being replaced, its copy is what      *)
(* fits: the invariant says of each step which of the two does.            *)
(***************************************************************************)

Replacing == {"build", "migrate", "restore"}

RevisionsOrdered == schema \in Nat /\ source \in Nat /\ schema <= source /\ source <= branch
                    /\ branch \in 1..LastRevision /\ schema >= 1

Fits(b) == b \in Build!Revisions /\ b <= schema

CopyFits ==
  ~unsafe => /\ step \notin Replacing => Fits(binary)
             /\ step \in Replacing => Fits(previous)
             /\ step = "migrate" => binary = source

BuildGuarded == RevisionsOrdered /\ CopyFits /\ Build!Undisturbed

LEMMA InitBuild == Build!Init => BuildGuarded
<1> SUFFICES ASSUME Build!Init PROVE BuildGuarded OBVIOUS
<1> USE ServicesAssumption
<1>1. ~unsafe => binary = 1 BY DEF Build!Init
<1>2. RevisionsOrdered /\ Build!Undisturbed BY DEF Build!Init, RevisionsOrdered,
                                                   Build!Undisturbed
<1>3. step = "none" /\ 1 \in Build!Revisions /\ 1 <= schema BY DEF Build!Init, Build!Revisions
<1> QED BY <1>1, <1>2, <1>3 DEF BuildGuarded, CopyFits, Fits, Replacing

LEMMA PipelineKeepsPair ==
  ASSUME BuildGuarded, Build!Pipeline
  PROVE  BuildGuarded'
<1> USE ServicesAssumption DEF BuildGuarded, Replacing, Build!Proceed, Fits, Build!Revisions
<1>1. CASE Build!FailStep \/ Build!VerifyPinnedRevision \/ Build!InstallDependencies \/ Build!EndFailed
  BY <1>1
  DEF Build!FailStep, Build!VerifyPinnedRevision, Build!InstallDependencies, Build!EndFailed,
      RevisionsOrdered, CopyFits, Build!Undisturbed
<1>2. CASE Build!GitPull
  BY <1>2 DEF Build!GitPull, RevisionsOrdered, CopyFits, Build!Undisturbed
\* The copy is one of the binary that fits.
<1>3. CASE Build!BackupBinary
  BY <1>3 DEF Build!BackupBinary, RevisionsOrdered, CopyFits, Build!Undisturbed
<1>4. CASE Build!BuildBinary
  BY <1>4 DEF Build!BuildBinary, RevisionsOrdered, CopyFits, Build!Undisturbed
\* The schema only grows, so the copy still fits when a migration fails.
<1>5. CASE Build!RunMigrations
  <2>1. RevisionsOrdered' /\ schema <= schema'
    BY <1>5 DEF Build!RunMigrations, RevisionsOrdered
  <2>2. CopyFits'
    BY <1>5, <2>1 DEF Build!RunMigrations, RevisionsOrdered, CopyFits
  <2> QED BY <1>5, <2>1, <2>2 DEF Build!RunMigrations, Build!Undisturbed
<1>6. CASE Build!RestoreBinary
  BY <1>6 DEF Build!RestoreBinary, RevisionsOrdered, CopyFits, Build!Undisturbed
<1>7. CASE Build!Finish
  BY <1>7 DEF Build!Finish, RevisionsOrdered, CopyFits, Build!Undisturbed
<1> QED BY <1>1, <1>2, <1>3, <1>4, <1>5, <1>6, <1>7 DEF Build!Pipeline

LEMMA ServerKeepsPair ==
  ASSUME BuildGuarded,
         Build!Push \/ Build!StartRebuild \/ Build!RestartServer \/ Build!Shutdown \/ Build!Terminate \/ Build!Exit \/ Build!Start
  PROVE  BuildGuarded'
<1> USE ServicesAssumption DEF BuildGuarded, Replacing, Build!Proceed, Fits, Build!Revisions, Build!memory
<1>1. CASE Build!Push
  BY <1>1 DEF Build!Push, RevisionsOrdered, CopyFits, Build!Undisturbed
<1>2. CASE Build!StartRebuild \/ Build!RestartServer \/ Build!Shutdown \/ Build!Terminate \/ Build!Start
  BY <1>2
  DEF Build!StartRebuild, Build!RestartServer, Build!Shutdown, Build!Terminate, Build!Start,
      RevisionsOrdered, CopyFits, Build!Undisturbed
<1>3. CASE Build!Exit
  BY <1>3 DEF Build!Exit, Build!Forget, RevisionsOrdered, CopyFits, Build!Undisturbed
<1> QED BY <1>1, <1>2, <1>3

LEMMA BuildStep == BuildGuarded /\ [Build!Next]_ofBuild => BuildGuarded'
<1> SUFFICES ASSUME BuildGuarded, [Build!Next]_ofBuild PROVE BuildGuarded'
  OBVIOUS
<1>1. CASE UNCHANGED ofBuild
  BY <1>1 DEF ofBuild, BuildGuarded, RevisionsOrdered, CopyFits, Fits, Build!Undisturbed
<1>2. CASE Build!Next
  BY <1>2, PipelineKeepsPair, ServerKeepsPair DEF Build!Next
<1> QED BY <1>1, <1>2

(***************************************************************************)
(* Outside a rebuild the binary is whole and not newer than the schema,    *)
(* for any number of revisions: a step that fails brings the copy back,    *)
(* and the copy is of the binary that ran.  restartServer and a rebuild    *)
(* exclude each other, for as long as either is under way.                 *)
(***************************************************************************)
THEOREM SpecPairKept == Spec => []PairKept
<1>1. Init => BuildGuarded
  <2>1. BuildRests => BuildGuarded
    BY ServicesAssumption
    DEF BuildRests, BuildGuarded, RevisionsOrdered, CopyFits, Fits, Replacing,
        Build!Revisions, Build!Undisturbed
  <2> QED BY <2>1, InitBuild DEF Init
<1>2. BuildGuarded /\ [Next]_vars => BuildGuarded'
  BY BuildStep DEF Next, vars
<1>3. BuildGuarded => PairKept
  BY DEF BuildGuarded, CopyFits, Fits, Replacing, PairKept, Build!PairKept
<1> QED BY <1>1, <1>2, <1>3, PTL DEF Spec

-----------------------------------------------------------------------------
(***************************************************************************)
(* Scheduled tasks.  A run that has not ended is awaited, counted as a     *)
(* zombie or given up, so a round that finds no zombie leaves only those   *)
(* behind that were given up.                                              *)
(***************************************************************************)

AnyRun == [round : Nat, task : Nat]

TasksTyped == round \in Nat /\ next \in Nat /\ runs \subseteq AnyRun

AwaitedRuns == awaited # None => rounding /\ awaited \in runs /\ awaited.round = round

Counted == {z.run : z \in zombies}

NoneForgotten == \A r \in runs : r = awaited \/ r \in Counted \/ r \in expired

OldGivenUp == \A r \in runs : r.round <= round /\ (r.round < round => r \in expired)

RoundsGuarded == TasksTyped /\ AwaitedRuns /\ NoneForgotten /\ OldGivenUp

LEMMA InitRounds == Rounds!Init => RoundsGuarded
  BY DEF Rounds!Init, RoundsGuarded, TasksTyped, AwaitedRuns, NoneForgotten, OldGivenUp

\* expireStaleZombies: what is dropped from the zombies was given up.
LEMMA ExpireKeeps ==
  ASSUME NoneForgotten, Rounds!Expire, runs' = runs, awaited' = awaited
  PROVE  expired \subseteq expired' /\ NoneForgotten'
  BY DEF NoneForgotten, Rounds!Expire, Counted, Rounds!Fresh

LEMMA RunAllKeeps ==
  ASSUME RoundsGuarded, Rounds!RunAll
  PROVE  RoundsGuarded'
<1> USE ServicesAssumption DEF RoundsGuarded
<1>1. NoneForgotten' /\ expired \subseteq expired' BY ExpireKeeps DEF Rounds!RunAll
<1>2. awaited = None /\ awaited' = None /\ runs' = runs BY DEF Rounds!RunAll, AwaitedRuns
<1>3. CASE Rounds!Fresh = {}
  <2>1. Counted' = {} BY <1>3 DEF Rounds!RunAll, Rounds!Expire, Counted
  <2>2. \A r \in runs' : r \in expired'
    BY <1>1, <1>2, <2>1 DEF NoneForgotten, TasksTyped, AnyRun
  <2>3. round' = round + 1 /\ next' = 1 BY <1>3 DEF Rounds!RunAll
  <2>4. TasksTyped' BY <1>2, <2>3 DEF TasksTyped
  <2>5. OldGivenUp'
    <3> SUFFICES ASSUME NEW r \in runs PROVE r.round <= round' BY <1>2, <2>2 DEF OldGivenUp
    <3>1. r.round \in Nat BY DEF TasksTyped, AnyRun
    <3> QED BY <2>3, <3>1 DEF OldGivenUp, TasksTyped
  <2> QED BY <1>1, <1>2, <2>4, <2>5 DEF AwaitedRuns
<1>4. CASE Rounds!Fresh # {}
  BY <1>1, <1>2, <1>4 DEF Rounds!RunAll, TasksTyped, AwaitedRuns, OldGivenUp
<1> QED BY <1>3, <1>4

\* Nobody looks at a run that the round waits for: only the round ends it.
LEMMA RoundKeepsCount ==
  ASSUME RoundsGuarded, Rounds!Round
  PROVE  RoundsGuarded'
<1> USE ServicesAssumption DEF RoundsGuarded
<1>1. CASE Rounds!StartTask
  <2> DEFINE run == [round |-> round, task |-> next]
  <2>1. /\ run \in AnyRun /\ run.round = round
        /\ awaited' = run /\ runs' = runs \cup {run} /\ next' = next + 1
        /\ rounding /\ UNCHANGED <<round, rounding, zombies, expired>>
        /\ awaited = None
    BY <1>1 DEF Rounds!StartTask, TasksTyped, AnyRun
  <2> HIDE DEF run
  <2>2. \A r \in runs : r \in Counted \/ r \in expired
    BY <2>1 DEF NoneForgotten, TasksTyped, AnyRun
  <2>3. TasksTyped' /\ AwaitedRuns' BY <2>1 DEF TasksTyped, AwaitedRuns
  <2>4. NoneForgotten' BY <2>1, <2>2 DEF NoneForgotten, Counted
  <2>5. OldGivenUp' BY <2>1 DEF OldGivenUp, TasksTyped
  <2> QED BY <2>3, <2>4, <2>5
<1>2. CASE Rounds!FinishTask
  BY <1>2 DEF Rounds!FinishTask, TasksTyped, AwaitedRuns, NoneForgotten, Counted, OldGivenUp
<1>3. CASE Rounds!TimeOut
  <2>1. awaited \in Counted' /\ Counted \subseteq Counted'
    <3> DEFINE z == [run |-> awaited, age |-> 0]
    <3>1. z.run = awaited /\ zombies' = zombies \cup {z} BY <1>3 DEF Rounds!TimeOut
    <3> HIDE DEF z
    <3> QED BY <3>1 DEF Counted
  <2>2. NoneForgotten' BY <1>3, <2>1 DEF Rounds!TimeOut, NoneForgotten
  <2> QED BY <1>3, <2>2 DEF Rounds!TimeOut, TasksTyped, AwaitedRuns, OldGivenUp
<1>4. CASE Rounds!EndRound
  BY <1>4 DEF Rounds!EndRound, TasksTyped, AwaitedRuns, NoneForgotten, Counted, OldGivenUp
<1> QED BY <1>1, <1>2, <1>3, <1>4 DEF Rounds!Round

LEMMA ZombiesKeep ==
  ASSUME RoundsGuarded, Rounds!FinishZombie \/ Rounds!Tick
  PROVE  RoundsGuarded'
<1> USE ServicesAssumption DEF RoundsGuarded
<1>1. CASE Rounds!FinishZombie
  <2>1. PICK r \in runs \ {awaited} :
          runs' = runs \ {r} /\ zombies' = {z \in zombies : z.run # r}
    BY <1>1 DEF Rounds!FinishZombie
  <2>2. \A s \in Counted : s = r \/ s \in Counted' BY <2>1 DEF Counted
  <2>3. UNCHANGED <<round, rounding, next, awaited, expired>> BY <1>1 DEF Rounds!FinishZombie
  <2>4. NoneForgotten' BY <2>1, <2>2, <2>3 DEF NoneForgotten
  <2> QED BY <2>1, <2>3, <2>4 DEF TasksTyped, AwaitedRuns, OldGivenUp
<1>2. CASE Rounds!Tick
  <2> DEFINE older(z) == [z EXCEPT !.age = IF Rounds!Stale(z) THEN @ ELSE @ + 1]
  <2>1. \A z \in zombies : older(z).run = z.run /\ older(z) \in zombies'
    BY <1>2 DEF Rounds!Tick
  <2>2. Counted \subseteq Counted' BY <2>1 DEF Counted
  <2>3. UNCHANGED <<round, rounding, next, awaited, runs, expired>> BY <1>2 DEF Rounds!Tick
  <2>4. NoneForgotten' BY <2>2, <2>3 DEF NoneForgotten
  <2> QED BY <2>3, <2>4 DEF TasksTyped, AwaitedRuns, OldGivenUp
<1> QED BY <1>1, <1>2

LEMMA RoundsStep == RoundsGuarded /\ [Rounds!Next]_ofRounds => RoundsGuarded'
<1> SUFFICES ASSUME RoundsGuarded, [Rounds!Next]_ofRounds PROVE RoundsGuarded'
  OBVIOUS
<1>1. CASE UNCHANGED ofRounds
  BY <1>1
  DEF ofRounds, RoundsGuarded, TasksTyped, AwaitedRuns, NoneForgotten, Counted, OldGivenUp
<1>2. CASE Rounds!Next
  BY <1>2, RunAllKeeps, RoundKeepsCount, ZombiesKeep DEF Rounds!Next
<1> QED BY <1>1, <1>2

LEMMA RoundsApart == RoundsGuarded => Rounds!OnceAtATime
<1> SUFFICES ASSUME RoundsGuarded, NEW r \in runs, NEW s \in runs, r.round < s.round
             PROVE  r \in expired
  BY DEF Rounds!OnceAtATime
<1>1. r.round \in Nat /\ s.round \in Nat /\ round \in Nat
  BY DEF RoundsGuarded, TasksTyped, AnyRun
<1>2. s.round <= round
  BY DEF RoundsGuarded, OldGivenUp
<1> QED BY <1>1, <1>2 DEF RoundsGuarded, OldGivenUp

-----------------------------------------------------------------------------
(***************************************************************************)
(* Checks of the game server.  Who began the check that is pending is the  *)
(* one who forgets it, and the only one who does.                          *)
(***************************************************************************)
Phases == {"idle", "asked", "waiting", "clearing", "answered", "refused"}

ChecksTyped ==
  /\ caller \in [Callers -> Phases] /\ joined \in [Callers -> Nat \cup {None}]
  /\ checks \in Nat /\ {pending, cached} \subseteq Nat \cup {None}

OnlyPending == open \cup saving \subseteq {pending} \ {None}

OneClears ==
  /\ \A c \in Callers : caller[c] = "clearing" => pending # None /\ joined[c] = pending
  /\ \A c, d \in Callers : caller[c] = "clearing" /\ caller[d] = "clearing" => c = d

StatusGuarded == ChecksTyped /\ OnlyPending /\ OneClears

LEMMA CallerKeeps ==
  ASSUME StatusGuarded, NEW c \in Callers,
         Status!Ask(c) \/ Status!Resume(c) \/ Status!Return(c) \/ Status!Again(c)
  PROVE  StatusGuarded'
<1> USE ServicesAssumption
        DEF StatusGuarded, ChecksTyped, OnlyPending, OneClears, Phases, Status!Goto,
            Status!Join
<1>1. CASE Status!Ask(c)
  BY <1>1 DEF Status!Ask
\* Nobody is to forget a check when none is pending, so the new one is alone.
<1>2. CASE Status!Resume(c)
  <2>1. CASE /\ pending = None
             /\ checks' = checks + 1 /\ open' = open \cup {checks'} /\ pending' = checks'
             /\ caller' = [caller EXCEPT ![c] = "clearing"]
             /\ joined' = [joined EXCEPT ![c] = checks']
    <3>1. open \cup saving = {} /\ \A d \in Callers : caller[d] # "clearing"
      BY <2>1
    <3>2. checks' \in Nat /\ checks' # None
      BY <2>1
    <3> QED BY <1>2, <2>1, <3>1, <3>2 DEF Status!Resume
  <2>2. CASE /\ UNCHANGED <<checks, open, pending>>
             /\ \/ caller' = [caller EXCEPT ![c] = "waiting"] /\ joined' = [joined EXCEPT ![c] = pending]
                \/ caller' = [caller EXCEPT ![c] = "refused"] /\ joined' = joined
    BY <1>2, <2>2 DEF Status!Resume
  <2> QED BY <1>2, <2>1, <2>2 DEF Status!Resume, Status!Promised
\* The one who forgets the check waits until it has ended.
<1>3. CASE Status!Return(c)
  <2>1. /\ UNCHANGED <<joined, checks, open, saving, cached>>
        /\ \E to \in {"refused", "answered"} : caller' = [caller EXCEPT ![c] = to]
        /\ pending' = IF caller[c] = "clearing" THEN None ELSE pending
        /\ joined[c] \notin open \cup saving
    BY <1>3 DEF Status!Return
  <2>2. CASE caller[c] = "clearing"
    <3>1. joined[c] = pending /\ \A d \in Callers : caller'[d] # "clearing"
      BY <2>1, <2>2
    <3>2. open \cup saving = {}
      BY <2>1, <3>1
    <3> QED BY <2>1, <2>2, <3>1, <3>2
  <2>3. CASE caller[c] # "clearing"
    BY <2>1, <2>3
  <2> QED BY <2>2, <2>3
<1>4. CASE Status!Again(c)
  BY <1>4 DEF Status!Again
<1> QED BY <1>1, <1>2, <1>3, <1>4

LEMMA StatusStep == StatusGuarded /\ [Status!Next]_ofStatus => StatusGuarded'
<1> SUFFICES ASSUME StatusGuarded, [Status!Next]_ofStatus PROVE StatusGuarded'
  OBVIOUS
<1>1. CASE UNCHANGED ofStatus \/ Status!Tick \/ Status!Expire
  BY <1>1 DEF ofStatus, Status!Tick, Status!Expire,
              StatusGuarded, ChecksTyped, OnlyPending, OneClears
<1>2. CASE Status!Reply \/ Status!Save
  <2>1. /\ open' \cup saving' \subseteq open \cup saving
        /\ cached' \in saving \cup {cached} /\ UNCHANGED <<caller, joined, checks, pending>>
    BY <1>2 DEF Status!Reply, Status!Save
  <2> QED BY <2>1 DEF StatusGuarded, ChecksTyped, OnlyPending, OneClears
<1> QED BY <1>1, <1>2, CallerKeeps DEF Status!Next

LEMMA OneCheckHolds == StatusGuarded => Status!OneCheck
<1> SUFFICES ASSUME StatusGuarded PROVE Status!OneCheck
  OBVIOUS
<1> DEFINE busy == open \cup saving
<1>1. busy \subseteq {pending} /\ (busy = {} \/ busy = {pending})
  BY DEF StatusGuarded, OnlyPending
<1>2. Cardinality(busy) = 0 \/ Cardinality(busy) = 1
  <2> HIDE DEF busy
  <2> QED BY <1>1, FS_EmptySet, FS_Singleton
<1>3. Cardinality(busy) <= 1
  <2> HIDE DEF busy
  <2> QED BY <1>2
<1>4. Status!Cardinality(busy) = Cardinality(busy)
  BY DEF Status!Cardinality, Cardinality, Status!IsFiniteSet, IsFiniteSet
<1> QED BY <1>1, <1>3, <1>4 DEF Status!OneCheck

(***************************************************************************)
(* What several callers ask for at a time is done once: runAll never       *)
(* starts a round beside the tasks of an older one that were not given up, *)
(* and a check of the game server begins only when none is under way or    *)
(* about to be cached, for any number of tasks, rounds and callers.        *)
(***************************************************************************)
THEOREM SpecOnceAtATime == Spec => []OnceAtATime
<1>1. Init => RoundsGuarded /\ StatusGuarded
  <2>1. Rounds!Init \/ RoundsRest => RoundsGuarded
    BY InitRounds, ServicesAssumption
       DEF RoundsRest, RoundsGuarded, TasksTyped, AwaitedRuns, NoneForgotten, OldGivenUp
  <2>2. Status!Init \/ StatusRests => StatusGuarded
    BY DEF Status!Init, StatusRests, StatusGuarded, ChecksTyped, OnlyPending, OneClears,
           Phases
  <2> QED BY <2>1, <2>2 DEF Init
<1>2. RoundsGuarded /\ StatusGuarded /\ [Next]_vars => (RoundsGuarded /\ StatusGuarded)'
  BY RoundsStep, StatusStep DEF Next, vars
<1>3. RoundsGuarded /\ StatusGuarded => OnceAtATime
  BY RoundsApart, OneCheckHolds DEF OnceAtATime
<1> QED BY <1>1, <1>2, <1>3, PTL DEF Spec

-----------------------------------------------------------------------------
(***************************************************************************)
(* The log.  A file of the day that is there is the one the stream has     *)
(* open, so a check that finds a file finds that of the stream.            *)
(***************************************************************************)
AnyStream == [day : 1..Days, file : Nat \cup {None}]

LogTyped ==
  /\ {today, date} \subseteq 1..Days /\ begun \in Nat
  /\ logs \in [1..Days -> Nat \cup {None}]
  /\ stream \in AnyStream /\ stream.day = date
  /\ writing # None => /\ writing = date /\ target \in AnyStream /\ target.day = date
                       /\ stream = target \/ stream = Log!Opened(date)

OneFile == logs[date] # None /\ stream.file # None => logs[date] = stream.file

\* After a check the stream writes into the file of the day.
CheckedStream == checked /\ ~broken /\ stream.file # None => logs[date] = stream.file

SoundTarget == writing # None /\ sound /\ target.file # None => logs[date] = target.file

LogGuarded == LogTyped /\ OneFile /\ CheckedStream /\ SoundTarget /\ ~lost

LEMMA OpenedType ==
  ASSUME NEW d \in 1..Days
  PROVE  Log!Opened(d) \in AnyStream /\ Log!Opened(d).day = d /\ Log!Opened(d).file = None
BY DEF Log!Opened, AnyStream

LEMMA WriteKeepsLog == ASSUME LogGuarded, Log!Write PROVE LogGuarded'
<1> USE DEF LogGuarded, LogTyped
<1>1. /\ writing = None /\ writing' = today /\ target' = stream' /\ date' = today
      /\ UNCHANGED <<today, logs, begun, lost>> /\ ~broken'
      /\ stream' = IF today # date \/ broken THEN Log!Opened(today) ELSE stream
      /\ sound' = (checked \/ today # date \/ broken) /\ checked' = sound'
  BY DEF Log!Write
<1>2. Log!Opened(today) \in AnyStream /\ Log!Opened(today).day = today
      /\ Log!Opened(today).file = None
  BY OpenedType
<1>3. LogTyped'
  BY <1>1, <1>2
<1>4. CASE today # date \/ broken
  BY <1>1, <1>2, <1>3, <1>4 DEF OneFile, CheckedStream, SoundTarget
<1>5. CASE today = date /\ ~broken
  BY <1>1, <1>3, <1>5 DEF OneFile, CheckedStream, SoundTarget
<1> QED BY <1>4, <1>5

LEMMA WrittenKeepsLog == ASSUME LogGuarded, Log!Written PROVE LogGuarded'
<1> USE DEF LogGuarded, LogTyped
<1> DEFINE f == Log!FileOf(target)
<1>1. /\ writing = date /\ target \in AnyStream /\ target.day = date
      /\ stream = target \/ stream = Log!Opened(date)
      /\ writing' = None /\ UNCHANGED <<today, date, broken, checked>>
      /\ logs' = IF f > begun THEN [logs EXCEPT ![date] = f] ELSE logs
      /\ begun' = IF f > begun THEN f ELSE begun
      /\ stream' = IF stream = target THEN [stream EXCEPT !.file = f] ELSE stream
      /\ lost' = (lost \/ (sound /\ logs'[date] # f))
  BY DEF Log!Written
<1>2. /\ f = IF target.file # None THEN target.file
             ELSE IF logs[date] # None THEN logs[date] ELSE begun + 1
      /\ date \in 1..Days /\ target.file \in Nat \cup {None} /\ f \in Nat
  BY <1>1 DEF Log!FileOf, AnyStream
<1>3. target.file = None \/ sound => logs'[date] = f
  <2> SUFFICES ASSUME target.file = None \/ sound PROVE logs'[date] = f
    OBVIOUS
  <2>1. writing # None
    BY <1>1, ServicesAssumption
  <2>2. logs[date] = f \/ f > begun
    BY <1>1, <1>2, <2>1 DEF SoundTarget
  <2> HIDE DEF f
  <2> QED BY <1>1, <1>2, <2>2
<1>4. ~lost'
  BY <1>1, <1>3
<1>5. stream'.day = date /\ stream' \in AnyStream
      /\ (stream'.file = IF stream = target THEN f ELSE stream.file)
  <2> HIDE DEF f
  <2> QED BY <1>1, <1>2 DEF AnyStream
<1>6. LogTyped'
  <2> HIDE DEF f
  <2> QED BY <1>1, <1>2, <1>5
<1>7. logs' = logs \/ logs'[date] = f
  <2> HIDE DEF f
  <2> QED BY <1>1, <1>2
<1>8. OneFile' /\ CheckedStream'
  <2>1. CASE stream # target
    BY <1>1, <1>5, <2>1, OpenedType DEF OneFile, CheckedStream
  <2>2. CASE stream = target /\ target.file = None
    BY <1>1, <1>3, <1>5, <2>2 DEF OneFile, CheckedStream
  <2>3. CASE stream = target /\ target.file # None
    <3>1. f = stream.file
      BY <1>2, <2>3
    <3> HIDE DEF f
    <3> QED BY <1>1, <1>5, <1>7, <2>3, <3>1, ServicesAssumption DEF OneFile, CheckedStream
  <2> QED BY <2>1, <2>2, <2>3
<1>9. SoundTarget'
  BY <1>1 DEF SoundTarget
<1> QED BY <1>4, <1>6, <1>8, <1>9

LEMMA LogStep == LogGuarded /\ [Log!Next]_ofLog => LogGuarded'
<1> SUFFICES ASSUME LogGuarded, [Log!Next]_ofLog PROVE LogGuarded'
  OBVIOUS
<1> USE ServicesAssumption DEF LogGuarded, LogTyped
<1>1. CASE UNCHANGED ofLog
  BY <1>1 DEF ofLog, OneFile, CheckedStream, SoundTarget
<1>2. CASE Log!Midnight
  BY <1>2 DEF Log!Midnight, Log!ofLoss, OneFile, CheckedStream, SoundTarget
<1>3. CASE Log!Remove
  BY <1>3 DEF Log!Remove, OneFile, CheckedStream, SoundTarget
<1>4. CASE Log!WriteFails
  BY <1>4 DEF Log!WriteFails, OneFile, CheckedStream, SoundTarget
<1>5. CASE Log!Look
  BY <1>5 DEF Log!Look, OneFile, CheckedStream, SoundTarget
<1>6. CASE Log!Present
  BY <1>6, OpenedType DEF Log!Present, Log!Looked, OneFile, CheckedStream, SoundTarget
<1>7. CASE Log!Missing
  BY <1>7 DEF Log!Missing, Log!Looked, OneFile, CheckedStream, SoundTarget
<1> QED BY <1>1, <1>2, <1>3, <1>4, <1>5, <1>6, <1>7, WriteKeepsLog, WrittenKeepsLog
        DEF Log!Next

(***************************************************************************)
(* A record written after a check, or to a new stream, is in the file of   *)
(* its day unless that was removed since, for any number of days, files    *)
(* and failures.  (createLogStream)                                        *)
(***************************************************************************)
THEOREM SpecLogKept == Spec => []LogKept
<1>1. Init => LogGuarded
  <2>1. Log!Init => LogGuarded
    <3> SUFFICES ASSUME Log!Init PROVE LogGuarded
      OBVIOUS
    <3>1. 1 \in 1..Days
      BY ServicesAssumption
    <3> QED BY <3>1, OpenedType DEF Log!Init, LogGuarded, LogTyped, OneFile, CheckedStream,
             SoundTarget
  <2> QED BY <2>1 DEF Init
<1>2. LogGuarded /\ [Next]_vars => LogGuarded'
  BY LogStep DEF Next, vars
<1>3. LogGuarded => LogKept
  BY DEF LogGuarded, LogKept, Log!LossBounded
<1> QED BY <1>1, <1>2, <1>3, PTL DEF Spec

-----------------------------------------------------------------------------
(***************************************************************************)
(* The manifest.  Of a file that is not astray every change is known: the  *)
(* last event tells whether it is there, and when all are told either the  *)
(* hashing of the newest is under way or its hash is in the manifest and   *)
(* no other hashing can replace it unnoticed.                              *)
(***************************************************************************)
Job == [name : Names, by : {"scan", "event"}, number : Nat,
        before : Nat \cup {None}, hash : Nat \cup {None}]

FilesTyped ==
  /\ disk \in [Names -> Nat \cup {None}] /\ index \in [Names -> Nat \cup {None}]
  /\ written \in [Names -> Nat] /\ reported \in [Names -> Nat] /\ applied \in [Names -> Nat]
  /\ watching \in BOOLEAN /\ astray \subseteq Names
  /\ events \in [Names -> Seq({"change", "unlink"})]
  /\ hashing \subseteq Job

\* A content is never written again, so a scan that finds the one it began
\* with has read that.
NoneReturns ==
  /\ \A n \in Names : disk[n] # None => disk[n] <= written[n]
  /\ \A h \in hashing : h.by = "scan" =>
       /\ h.before # None /\ h.before <= written[h.name]
       /\ h.hash # None /\ h.before = disk[h.name] => h.hash = h.before

\* The hashings for events have numbers of their own.
Ordered ==
  /\ \A n \in Names : applied[n] <= reported[n]
  /\ \A h \in hashing : h.number <= reported[h.name]
  /\ \A h, k \in hashing :
       h.by = "event" /\ k.by = "event" /\ h.name = k.name /\ h.number = k.number => h = k

Scanned(n) ==
  /\ events[n] = <<>> /\ \A h \in hashing : h.by = "scan"
  /\ n \in astray \/ index[n] = disk[n] \/ \E h \in hashing : h.name = n /\ h.before = disk[n]

LastTold(n) ==
  n \notin astray /\ events[n] # <<>> =>
    (events[n][Len(events[n])] = "unlink" <=> disk[n] = None)

Right(h) == h.hash \in {None, disk[h.name]}
Newest(h) == h.by = "event" /\ h.number = reported[h.name] /\ Right(h)
Harmless(h) == h.by = "event" => h.number < applied[h.name] \/ Right(h)

AllTold(n) ==
  n \notin astray /\ events[n] = <<>> =>
    \/ disk[n] # None /\ \E h \in hashing : h.name = n /\ Newest(h)
    \/ /\ index[n] = disk[n]
       /\ disk[n] # None => \A h \in hashing : h.name = n => Harmless(h)

FilesGuarded ==
  /\ FilesTyped /\ NoneReturns /\ Ordered
  /\ \A n \in Names : /\ ~watching => Scanned(n)
                      /\ watching => LastTold(n) /\ AllTold(n)

LEMMA TailFacts ==
  ASSUME NEW S, NEW s \in Seq(S), s # <<>>
  PROVE  /\ Tail(s) \in Seq(S)
         /\ Tail(s) = <<>> => Head(s) = s[Len(s)]
         /\ Tail(s) # <<>> => Tail(s)[Len(Tail(s))] = s[Len(s)]
<1> DEFINE t == Tail(s)
<1>1. t \in Seq(S) /\ Len(t) = Len(s) - 1 /\ \A i \in 1..Len(t) : t[i] = s[i+1]
  BY HeadTailProperties
<1>2. Len(s) \in Nat /\ Len(t) \in Nat /\ Head(s) = s[1]
  BY <1>1
<1> HIDE DEF t
<1>3. CASE t = <<>>
  <2>1. Len(t) = 0
    BY <1>3
  <2>2. Len(s) = 1
    BY <1>1, <1>2, <2>1
  <2> QED BY <1>1, <1>2, <1>3, <2>2 DEF t
<1>4. CASE t # <<>>
  <2>1. Len(t) # 0
    BY <1>1, <1>4
  <2>2. t[Len(t)] = s[Len(s)]
    BY <1>1, <1>2, <2>1
  <2> QED BY <1>1, <1>4, <2>2 DEF t
<1> QED BY <1>3, <1>4

LEMMA WriteKeepsFiles ==
  ASSUME FilesGuarded, NEW n \in Names, Files!Write(n)
  PROVE  FilesGuarded'
<1>1. /\ written' = [written EXCEPT ![n] = @ + 1]
      /\ disk' = [disk EXCEPT ![n] = written'[n]]
      /\ \/ watching /\ events' = [events EXCEPT ![n] = Append(@, "change")] /\ UNCHANGED astray
         \/ astray' = astray \cup {n} /\ UNCHANGED events
      /\ UNCHANGED <<index, watching, hashing, reported, applied>>
  BY DEF Files!Write, Files!See
<1>2. /\ written'[n] = written[n] + 1 /\ disk'[n] = written[n] + 1
      /\ written[n] \in Nat
      /\ \A m \in Names \ {n} : /\ written'[m] = written[m] /\ disk'[m] = disk[m]
                                /\ events'[m] = events[m]
  BY <1>1 DEF FilesGuarded, FilesTyped
<1>3. FilesTyped'
  <2>1. Append(events[n], "change") \in Seq({"change", "unlink"})
    BY DEF FilesGuarded, FilesTyped
  <2>2. events' \in [Names -> Seq({"change", "unlink"})]
    BY <1>1, <2>1 DEF FilesGuarded, FilesTyped
  <2>3. disk' = [disk EXCEPT ![n] = written[n] + 1]
    BY <1>1, <1>2
  <2>4. disk' \in [Names -> Nat \cup {None}] /\ written' \in [Names -> Nat]
    BY <1>1, <1>2, <2>3 DEF FilesGuarded, FilesTyped
  <2>5. astray' \subseteq Names
    BY <1>1 DEF FilesGuarded, FilesTyped
  <2> QED BY <1>1, <2>2, <2>4, <2>5 DEF FilesGuarded, FilesTyped
<1>4. NoneReturns'
  BY <1>1, <1>2, ServicesAssumption, SMTT(40) DEF FilesGuarded, FilesTyped, NoneReturns, Job
<1>5. Ordered'
  BY <1>1 DEF FilesGuarded, Ordered
<1>6. ASSUME NEW m \in Names PROVE (~watching => Scanned(m))' /\ (watching => LastTold(m) /\ AllTold(m))'
  <2>1. CASE m # n
    BY <1>1, <1>2, <2>1
    DEF FilesGuarded, FilesTyped, Job, Scanned, LastTold, AllTold, Newest, Harmless, Right
  <2>2. CASE m = n /\ m \in astray'
    BY <1>1, <1>2, <2>2 DEF FilesGuarded, Scanned, LastTold, AllTold
  <2>3. CASE m = n /\ m \notin astray'
    <3>1. watching /\ events'[m] = Append(events[m], "change") /\ events[m] \in Seq({"change", "unlink"})
          /\ disk'[n] # None
      BY <1>1, <1>2, <2>3, ServicesAssumption DEF FilesGuarded, FilesTyped
    <3>2. events'[m] # <<>> /\ events'[m][Len(events'[m])] = "change"
      BY <3>1
    <3> QED BY <1>1, <2>3, <3>1, <3>2 DEF LastTold, AllTold
  <2> QED BY <2>1, <2>2, <2>3
<1> QED BY <1>3, <1>4, <1>5, <1>6 DEF FilesGuarded

LEMMA RemoveKeepsFiles ==
  ASSUME FilesGuarded, NEW n \in Names, Files!Remove(n)
  PROVE  FilesGuarded'
<1>1. /\ disk' = [disk EXCEPT ![n] = None]
      /\ \/ watching /\ events' = [events EXCEPT ![n] = Append(@, "unlink")] /\ UNCHANGED astray
         \/ astray' = astray \cup {n} /\ UNCHANGED events
      /\ UNCHANGED <<written, index, watching, hashing, reported, applied>>
  BY DEF Files!Remove, Files!See
<1>2. /\ disk'[n] = None
      /\ \A m \in Names \ {n} : disk'[m] = disk[m] /\ events'[m] = events[m]
  BY <1>1 DEF FilesGuarded, FilesTyped
<1>3. FilesTyped'
  <2>1. Append(events[n], "unlink") \in Seq({"change", "unlink"})
    BY DEF FilesGuarded, FilesTyped
  <2>2. events' \in [Names -> Seq({"change", "unlink"})]
    BY <1>1, <2>1 DEF FilesGuarded, FilesTyped
  <2> QED BY <1>1, <1>2, <2>2 DEF FilesGuarded, FilesTyped
<1>4. NoneReturns'
  BY <1>1, <1>2, ServicesAssumption DEF FilesGuarded, FilesTyped, NoneReturns, Job
<1>5. Ordered'
  BY <1>1 DEF FilesGuarded, Ordered
<1>6. ASSUME NEW m \in Names
      PROVE  (~watching => Scanned(m))' /\ (watching => LastTold(m) /\ AllTold(m))'
  <2>1. CASE m # n
    BY <1>1, <1>2, <2>1
       DEF FilesGuarded, FilesTyped, Job, Scanned, LastTold, AllTold, Newest, Harmless, Right
  <2>2. CASE m = n /\ m \in astray'
    BY <1>1, <1>2, <2>2 DEF FilesGuarded, Scanned, LastTold, AllTold
  <2>3. CASE m = n /\ m \notin astray'
    <3>1. /\ watching /\ events'[m] = Append(events[m], "unlink")
          /\ events[m] \in Seq({"change", "unlink"})
      BY <1>1, <1>2, <2>3 DEF FilesGuarded, FilesTyped
    <3>2. events'[m] # <<>> /\ events'[m][Len(events'[m])] = "unlink"
      BY <3>1
    <3> QED BY <1>1, <1>2, <2>3, <3>1, <3>2 DEF LastTold, AllTold
  <2> QED BY <2>1, <2>2, <2>3
<1> QED BY <1>3, <1>4, <1>5, <1>6 DEF FilesGuarded

LEMMA ReportKeepsFiles ==
  ASSUME FilesGuarded, NEW n \in Names, Files!Report(n)
  PROVE  FilesGuarded'
<1> DEFINE job == [name |-> n, by |-> "event", number |-> reported[n] + 1,
                   before |-> None, hash |-> None]
<1>1. /\ events[n] # <<>> /\ events' = [events EXCEPT ![n] = Tail(@)]
      /\ \/ /\ Head(events[n]) = "unlink" /\ index' = [index EXCEPT ![n] = None]
            /\ UNCHANGED <<hashing, reported>>
         \/ /\ Head(events[n]) # "unlink" /\ UNCHANGED index
            /\ reported' = [reported EXCEPT ![n] = @ + 1] /\ hashing' = hashing \cup {job}
      /\ UNCHANGED <<disk, written, watching, applied, astray>>
  <2>1. reported' = [reported EXCEPT ![n] = @ + 1] => reported'[n] = reported[n] + 1
    BY DEF FilesGuarded, FilesTyped
  <2> QED BY <2>1 DEF Files!Report
<1>2. watching /\ events[n] \in Seq({"change", "unlink"})
  BY <1>1 DEF FilesGuarded, FilesTyped, Scanned
<1>3. Tail(events[n]) \in Seq({"change", "unlink"}) /\ events'[n] = Tail(events[n])
      /\ \A m \in Names \ {n} : events'[m] = events[m]
  BY <1>1, <1>2, TailFacts DEF FilesGuarded, FilesTyped
<1>4. job \in Job /\ reported[n] \in Nat /\ job.name = n /\ job.by = "event" /\ job.hash = None
      /\ job.number = reported[n] + 1
  BY DEF FilesGuarded, FilesTyped, Job
<1> HIDE DEF job
<1>5. FilesTyped'
  <2>1. events' \in [Names -> Seq({"change", "unlink"})]
    BY <1>1, <1>3 DEF FilesGuarded, FilesTyped
  <2>2. hashing' \subseteq Job
    BY <1>1, <1>4 DEF FilesGuarded, FilesTyped
  <2>3. reported' \in [Names -> Nat]
    BY <1>1, <1>4 DEF FilesGuarded, FilesTyped
  <2>4. index' \in [Names -> Nat \cup {None}]
    BY <1>1 DEF FilesGuarded, FilesTyped
  <2> QED BY <1>1, <2>1, <2>2, <2>3, <2>4 DEF FilesGuarded, FilesTyped
<1>6. NoneReturns'
  BY <1>1, <1>4 DEF FilesGuarded, FilesTyped, NoneReturns, Job
<1>7. Ordered'
  <2>1. CASE UNCHANGED <<hashing, reported>>
    BY <1>1, <2>1 DEF FilesGuarded, Ordered
  <2>2. CASE hashing' = hashing \cup {job} /\ reported' = [reported EXCEPT ![n] = @ + 1]
    <3>1. /\ reported'[n] = reported[n] + 1
          /\ \A m \in Names : reported'[m] \in Nat /\ reported[m] <= reported'[m]
      BY <1>4, <2>2 DEF FilesGuarded, FilesTyped
    <3>2. \A h \in hashing : /\ h.name \in Names /\ h.number \in Nat
                              /\ h.number <= reported[h.name]
      BY DEF FilesGuarded, FilesTyped, Ordered, Job
    <3>3. \A h \in hashing : h.name = n => h.number # job.number
      BY <1>4, <3>2
    <3> QED BY <1>1, <1>4, <2>2, <3>1, <3>2, <3>3 DEF FilesGuarded, FilesTyped, Ordered
  <2> QED BY <1>1, <2>1, <2>2
<1>8. ASSUME NEW m \in Names PROVE LastTold(m)' /\ AllTold(m)'
  <2>1. CASE m # n
    <3>1. /\ events'[m] = events[m] /\ index'[m] = index[m] /\ reported'[m] = reported[m]
          /\ disk' = disk /\ applied' = applied /\ astray' = astray
      BY <1>1, <1>3, <2>1 DEF FilesGuarded, FilesTyped
    <3>2. \A h \in hashing' : h.name = m => h \in hashing
      BY <1>1, <1>4, <2>1
    <3>3. \A h \in hashing : h \in hashing'
      BY <1>1
    <3>4. LastTold(m) /\ AllTold(m)
      BY <1>2 DEF FilesGuarded
    <3>5. \A h \in hashing : h.name = m =>
            (Newest(h) => Newest(h)') /\ (Harmless(h) => Harmless(h)')
      BY <3>1 DEF Newest, Harmless, Right
    <3>6. LastTold(m)'
      BY <3>1, <3>4 DEF LastTold
    <3>7. AllTold(m)'
      BY <3>1, <3>2, <3>3, <3>4, <3>5 DEF AllTold
    <3> QED BY <3>6, <3>7
  <2>2. CASE m = n /\ m \notin astray
    <3>1. CASE Tail(events[n]) # <<>>
      <4>1. events'[n][Len(events'[n])] = events[n][Len(events[n])]
        BY <1>1, <1>2, <1>3, <3>1, TailFacts
      <4> QED BY <1>3, <3>1, <1>1, <1>2, <2>2, <4>1 DEF FilesGuarded, LastTold, AllTold
    <3>2. CASE Tail(events[n]) = <<>>
      <4>1. events'[n] = <<>> /\ Head(events[n]) = events[n][Len(events[n])]
        BY <1>1, <1>2, <1>3, <3>2, TailFacts
      <4>2. Head(events[n]) = "unlink" <=> disk[n] = None
        BY <1>1, <1>2, <2>2, <4>1 DEF FilesGuarded, LastTold
      <4> QED BY <1>1, <1>4, <2>2, <4>1, <4>2
              DEF FilesGuarded, FilesTyped, LastTold, AllTold, Newest, Right
    <3> QED BY <3>1, <3>2
  <2> QED BY <1>1, <2>1, <2>2 DEF LastTold, AllTold
<1> QED BY <1>1, <1>2, <1>5, <1>6, <1>7, <1>8 DEF FilesGuarded

LEMMA WatchKeepsFiles == ASSUME FilesGuarded, Files!StartWatching PROVE FilesGuarded'
<1>1. /\ ~watching /\ watching' /\ hashing = {}
      /\ UNCHANGED <<disk, written, index, events, hashing, reported, applied, astray>>
  BY DEF Files!StartWatching
<1>2. FilesTyped' /\ NoneReturns' /\ Ordered'
  BY <1>1 DEF Files!StartWatching, FilesGuarded, FilesTyped, NoneReturns, Ordered
<1>3. ASSUME NEW n \in Names PROVE LastTold(n)' /\ AllTold(n)'
  BY <1>1 DEF FilesGuarded, Scanned, LastTold, AllTold
<1> QED BY <1>1, <1>2, <1>3 DEF FilesGuarded

\* The hashing of a file that is there becomes that of its content.
LEMMA ReadKeepsFiles ==
  ASSUME FilesGuarded, NEW m \in Names, Files!ReadHash(m)
  PROVE  FilesGuarded'
<1>1. PICK h \in hashing :
        /\ h.hash = None
        /\ hashing' = (hashing \ {h})
             \cup (IF disk[h.name] = None THEN {} ELSE {[h EXCEPT !.hash = disk[h.name]]})
        /\ UNCHANGED <<disk, written, index, watching, events, reported, applied, astray>>
  BY DEF Files!ReadHash
<1>2. PICK read : read = [h EXCEPT !.hash = disk[h.name]]
  OBVIOUS
<1>3. /\ h \in Job /\ read \in Job /\ read.name = h.name /\ read.by = h.by
      /\ read.number = h.number /\ read.before = h.before /\ read.hash = disk[h.name]
  BY <1>2 DEF FilesGuarded, FilesTyped, Job
<1>4. IF disk[h.name] = None THEN hashing' = hashing \ {h}
                            ELSE hashing' = (hashing \ {h}) \cup {read}
  BY <1>1, <1>2
<1>5. FilesTyped'
  BY <1>1, <1>3, <1>4 DEF FilesGuarded, FilesTyped
<1>6. NoneReturns'
  BY <1>1, <1>3, <1>4 DEF FilesGuarded, NoneReturns
<1>7. Ordered'
  BY <1>1, <1>3, <1>4 DEF FilesGuarded, Ordered
<1>8. ASSUME NEW n \in Names, ~watching PROVE Scanned(n)'
  <2>1. events[n] = <<>> /\ \A k \in hashing : k.by = "scan"
    BY <1>8 DEF FilesGuarded, Scanned
  <2>2. \A k \in hashing' : k.by = "scan"
    BY <1>3, <1>4, <2>1
  <2>3. ASSUME NEW k \in hashing, k.name = n, k.before = disk[n]
        PROVE  \E j \in hashing' : j.name = n /\ j.before = disk[n]
    <3>1. disk[n] # None
      BY <2>1, <2>3 DEF FilesGuarded, NoneReturns
    <3> QED BY <1>3, <1>4, <2>3, <3>1
  <2> QED BY <1>1, <1>8, <2>1, <2>2, <2>3 DEF FilesGuarded, Scanned
<1>9. ASSUME NEW n \in Names, watching PROVE LastTold(n)' /\ AllTold(n)'
  <2>1. LastTold(n) /\ AllTold(n)
    BY <1>9 DEF FilesGuarded
  <2>2. LastTold(n)'
    BY <1>1, <2>1 DEF LastTold
  <2>3. \A k \in hashing : (Newest(k) <=> Newest(k)') /\ (Harmless(k) <=> Harmless(k)')
    BY <1>1 DEF Newest, Harmless, Right
  <2>4. /\ Newest(h) => Newest(read)'
        /\ Harmless(read)'
    BY <1>1, <1>3 DEF Newest, Harmless, Right
  <2>5. ASSUME NEW k \in hashing, k.name = n, Newest(k), disk[n] # None
        PROVE  \E j \in hashing' : j.name = n /\ Newest(j)'
    BY <1>3, <1>4, <2>3, <2>4, <2>5
  <2>6. ASSUME \A k \in hashing : k.name = n => Harmless(k)
        PROVE  \A k \in hashing' : k.name = n => Harmless(k)'
    BY <1>4, <2>3, <2>4, <2>6
  <2>7. AllTold(n)'
    BY <1>1, <2>1, <2>5, <2>6 DEF AllTold
  <2> QED BY <2>2, <2>7
<1> QED BY <1>1, <1>5, <1>6, <1>7, <1>8, <1>9 DEF FilesGuarded

\* The file of a hashing that fails is astray; of others nothing changes.
LEMMA FailKeepsFiles ==
  ASSUME FilesGuarded, NEW m \in Names, Files!FailHash(m)
  PROVE  FilesGuarded'
<1>1. PICK h \in hashing :
        /\ h.name = m /\ hashing' = hashing \ {h} /\ astray' = astray \cup {m}
        /\ UNCHANGED <<disk, written, index, watching, events, reported, applied>>
  BY DEF Files!FailHash
<1>2. FilesTyped' /\ NoneReturns' /\ Ordered'
  BY <1>1 DEF FilesGuarded, FilesTyped, NoneReturns, Ordered
<1>3. ASSUME NEW n \in Names, ~watching PROVE Scanned(n)'
  BY <1>1, <1>3 DEF FilesGuarded, Scanned
<1>4. ASSUME NEW n \in Names, watching PROVE LastTold(n)' /\ AllTold(n)'
  <2>1. LastTold(n) /\ AllTold(n)
    BY <1>4 DEF FilesGuarded
  <2>2. \A k \in hashing : (Newest(k) <=> Newest(k)') /\ (Harmless(k) <=> Harmless(k)')
    BY <1>1 DEF Newest, Harmless, Right
  <2> QED BY <1>1, <2>1, <2>2 DEF LastTold, AllTold
<1> QED BY <1>1, <1>2, <1>3, <1>4 DEF FilesGuarded

\* A hash that replaces that of the newest content puts the file astray, and one
\* of its content with nothing else on its way brings it back.
LEMMA SetKeepsFiles == ASSUME FilesGuarded, Files!SetHash PROVE FilesGuarded'
<1>1. PICK h \in hashing :
        /\ h.hash # None /\ hashing' = hashing \ {h}
        /\ IF Files!Steady(h)
           THEN /\ index' = [index EXCEPT ![h.name] = h.hash]
                /\ applied' = [applied EXCEPT ![h.name] = IF h.number > @ THEN h.number ELSE @]
                /\ astray' = IF Files!Alone(h) /\ h.hash = disk[h.name] THEN astray \ {h.name}
                             ELSE IF h.by = "event" /\ h.number < applied[h.name]
                                  THEN astray \cup {h.name}
                             ELSE astray
           ELSE UNCHANGED <<index, applied, astray>>
        /\ UNCHANGED <<disk, written, watching, events, reported>>
  BY DEF Files!SetHash
<1>2. PICK n \in Names : n = h.name
  BY DEF FilesGuarded, FilesTyped, Job
<1>3. /\ h.by \in {"scan", "event"} /\ h.number \in Nat /\ h.number <= reported[n]
      /\ h.hash \in Nat \cup {None} /\ applied[n] \in Nat /\ reported[n] \in Nat
      /\ applied[n] <= reported[n]
  BY <1>2 DEF FilesGuarded, FilesTyped, Ordered, Job
<1>4. h.by = "scan" /\ h.before = disk[n] => h.hash = disk[n] /\ disk[n] # None
  BY <1>1, <1>2 DEF FilesGuarded, NoneReturns
<1>5. CASE ~Files!Steady(h)
  <2>1. UNCHANGED <<index, applied, astray, disk, written, watching, events, reported>>
        /\ hashing' = hashing \ {h}
    BY <1>1, <1>5
  <2>2. FilesTyped' /\ NoneReturns' /\ Ordered'
    BY <2>1 DEF FilesGuarded, FilesTyped, NoneReturns, Ordered
  <2>3. ASSUME NEW m \in Names, ~watching PROVE Scanned(m)'
    BY <1>2, <1>4, <1>5, <2>1, <2>3 DEF FilesGuarded, Scanned, Files!Steady
  <2>4. ASSUME NEW m \in Names, watching PROVE LastTold(m)' /\ AllTold(m)'
    <3>1. \A k : (Newest(k) <=> Newest(k)') /\ (Harmless(k) <=> Harmless(k)')
      BY <2>1 DEF Newest, Harmless, Right
    <3>2. ~(disk[n] # None /\ Newest(h))
      BY <1>2, <1>5 DEF Newest, Files!Steady
    <3> QED BY <1>2, <2>1, <2>4, <3>1, <3>2 DEF FilesGuarded, LastTold, AllTold
  <2> QED BY <2>1, <2>2, <2>3, <2>4 DEF FilesGuarded
<1>6. CASE Files!Steady(h)
  <2>1. /\ index' = [index EXCEPT ![n] = h.hash] /\ disk[n] # None
        /\ applied' = [applied EXCEPT ![n] = IF h.number > @ THEN h.number ELSE @]
        /\ hashing' = hashing \ {h} /\ UNCHANGED <<disk, written, watching, events, reported>>
        /\ h.by = "scan" => h.hash = disk[n]
        /\ \/ n \notin astray' => ~(h.by = "event" /\ h.number < applied[n])
           \/ h.hash = disk[n] /\ \A k \in hashing' : k.name # n
        /\ n \notin astray' /\ n \in astray =>
             h.hash = disk[n] /\ events[n] = <<>> /\ \A k \in hashing' : k.name # n
        /\ astray' \subseteq Names /\ \A m \in Names \ {n} : m \in astray' <=> m \in astray
        /\ ~watching => astray \subseteq astray'
    BY <1>1, <1>2, <1>4, <1>6 DEF Files!Steady, Files!Alone, FilesGuarded, FilesTyped
  <2>2. /\ index'[n] = h.hash
        /\ applied'[n] = IF h.number > applied[n] THEN h.number ELSE applied[n]
        /\ \A m \in Names \ {n} : index'[m] = index[m] /\ applied'[m] = applied[m]
    BY <1>3, <2>1 DEF FilesGuarded, FilesTyped
  <2>3. FilesTyped'
    <3>1. index' \in [Names -> Nat \cup {None}]
      BY <1>3, <2>1 DEF FilesGuarded, FilesTyped
    <3>2. applied' \in [Names -> Nat]
      BY <1>3, <2>1 DEF FilesGuarded, FilesTyped
    <3> QED BY <2>1, <3>1, <3>2 DEF FilesGuarded, FilesTyped
  <2>4. NoneReturns'
    BY <2>1 DEF FilesGuarded, NoneReturns
  <2>5. Ordered'
    BY <1>3, <2>1, <2>2 DEF FilesGuarded, Ordered
  <2>6. ASSUME NEW m \in Names, ~watching PROVE Scanned(m)'
    <3>1. events[m] = <<>> /\ (\A k \in hashing : k.by = "scan") /\ Scanned(m)
      BY <2>6 DEF FilesGuarded, Scanned
    <3>2. m \in astray => m \in astray'
      BY <2>1, <2>6
    <3>3. CASE m = n
      BY <2>1, <2>2, <3>1, <3>3 DEF Scanned
    <3>4. CASE m # n
      BY <1>2, <2>1, <2>2, <3>1, <3>2, <3>4 DEF Scanned
    <3> QED BY <3>3, <3>4
  <2>7. ASSUME NEW m \in Names, watching PROVE LastTold(m)' /\ AllTold(m)'
    <3>1. LastTold(m) /\ AllTold(m)
      BY <2>7 DEF FilesGuarded
    <3>2. \A k \in hashing : Newest(k) => Newest(k)'
      BY <2>1 DEF Newest, Right
    <3>3. \A k \in hashing : k.name \in Names /\ k.number \in Nat
      BY DEF FilesGuarded, FilesTyped, Job
    <3>4. \A k \in Names : applied[k] \in Nat /\ applied'[k] \in Nat /\ applied[k] <= applied'[k]
      <4>1. \A k \in Names : applied[k] \in Nat
        BY DEF FilesGuarded, FilesTyped
      <4>2. applied[n] <= applied'[n] /\ applied'[n] \in Nat
        BY <1>3, <2>2
      <4> QED BY <2>2, <4>1, <4>2
    <3>5. \A k \in hashing : Harmless(k) => Harmless(k)'
      BY <2>1, <3>3, <3>4 DEF Harmless, Right
    <3>6. LastTold(m)'
      BY <2>1, <3>1 DEF LastTold
    <3>7. CASE m # n
      BY <1>2, <2>1, <2>2, <3>1, <3>2, <3>5, <3>6, <3>7 DEF AllTold
    <3>8. CASE m = n /\ m \in astray
      BY <1>2, <2>1, <2>2, <3>6, <3>8 DEF AllTold
    <3>9. CASE m = n /\ m \notin astray /\ m \notin astray' /\ events[m] = <<>>
      <4>0. CASE h.hash = disk[n] /\ \A k \in hashing' : k.name # n
        BY <2>1, <2>2, <3>6, <3>9, <4>0 DEF AllTold
      <4>1. CASE Newest(h)
        <5>1. h.hash = disk[n] /\ applied'[n] = reported[n]
          BY <1>1, <1>2, <1>3, <2>2, <4>1 DEF Newest, Right
        <5>2. \A k \in hashing' : k.name = n => Harmless(k)'
          <6> SUFFICES ASSUME NEW k \in hashing', k.name = n, k.by = "event"
                       PROVE  Harmless(k)'
            BY DEF Harmless
          <6>1. k \in hashing /\ k # h /\ k.number <= reported[n] /\ k.number \in Nat
            BY <2>1, <3>3 DEF FilesGuarded, Ordered
          <6>2. k.number # h.number
            BY <1>2, <4>1, <6>1 DEF FilesGuarded, Ordered, Newest
          <6>3. k.number < applied'[n]
            BY <1>2, <1>3, <4>1, <5>1, <6>1, <6>2 DEF Newest
          <6> QED BY <6>3 DEF Harmless
        <5> QED BY <2>1, <2>2, <3>6, <3>9, <5>1, <5>2 DEF AllTold
      <4>2. CASE ~Newest(h) /\ \E k \in hashing : k.name = n /\ Newest(k)
        <5>1. PICK k \in hashing' : k.name = n /\ Newest(k)'
          BY <2>1, <3>2, <4>2
        <5> QED BY <2>1, <3>6, <3>9, <5>1 DEF AllTold
      <4>3. CASE /\ \A k \in hashing : k.name = n => Harmless(k)
                 /\ ~(h.by = "event" /\ h.number < applied[n])
        <5>1. h.hash = disk[n]
          BY <1>1, <1>2, <1>3, <2>1, <3>9, <4>3 DEF Harmless, Right
        <5>2. \A k \in hashing' : k.name = n => Harmless(k)'
          BY <2>1, <3>5, <4>3
        <5> QED BY <2>1, <2>2, <3>6, <3>9, <5>1, <5>2 DEF AllTold
      <4> QED BY <2>1, <3>1, <3>6, <3>9, <4>0, <4>1, <4>2, <4>3 DEF AllTold
    <3> QED BY <2>1, <3>6, <3>7, <3>8, <3>9 DEF AllTold
  <2> QED BY <2>1, <2>3, <2>4, <2>5, <2>6, <2>7 DEF FilesGuarded
<1> QED BY <1>5, <1>6

LEMMA ReconcileKeepsFiles == ASSUME FilesGuarded, Files!Reconcile PROVE FilesGuarded'
<1>1. /\ watching /\ UNCHANGED <<disk, written, watching, events, reported, applied, astray>>
      /\ index' = [n \in Names |-> IF n \in Files!Phantoms THEN None ELSE index[n]]
      /\ hashing' = hashing \cup
           {[name |-> n, by |-> "scan", number |-> 0, before |-> disk[n], hash |-> None]
              : n \in Files!Missing}
  BY DEF Files!Reconcile
<1>2. /\ hashing \subseteq hashing'
      /\ \A h \in hashing' \ hashing :
           /\ h \in Job /\ h.by = "scan" /\ h.number = 0 /\ h.hash = None
           /\ h.before = disk[h.name] /\ disk[h.name] # None
  BY <1>1 DEF Files!Missing, FilesGuarded, FilesTyped, Job
<1>3. FilesTyped'
  BY <1>1, <1>2 DEF FilesGuarded, FilesTyped
<1>4. NoneReturns'
  BY <1>1, <1>2 DEF FilesGuarded, FilesTyped, NoneReturns, Job
<1>5. Ordered'
  BY <1>1, <1>2 DEF FilesGuarded, FilesTyped, Ordered, Job
<1>6. ASSUME NEW n \in Names PROVE LastTold(n)' /\ AllTold(n)'
  <2>1. LastTold(n) /\ AllTold(n)
    BY <1>1 DEF FilesGuarded
  <2>2. \A h : (Newest(h) => Newest(h)') /\ (Harmless(h) => Harmless(h)')
    BY <1>1 DEF Newest, Harmless, Right
  <2>3. \A h \in hashing' \ hashing : Harmless(h)'
    BY <1>2 DEF Harmless
  <2>4. index[n] = disk[n] => index'[n] = disk[n]
    BY <1>1 DEF Files!Phantoms
  <2> QED BY <1>1, <1>2, <2>1, <2>2, <2>3, <2>4 DEF LastTold, AllTold
<1> QED BY <1>1, <1>3, <1>4, <1>5, <1>6 DEF FilesGuarded

LEMMA InitFiles == Files!Init => FilesGuarded
<1> SUFFICES ASSUME Files!Init PROVE FilesGuarded
  OBVIOUS
<1>1. /\ disk \in [Names -> {1, None}] /\ written = [n \in Names |-> 1] /\ ~watching
      /\ index = [n \in Names |-> None] /\ events = [n \in Names |-> <<>>] /\ astray = {}
      /\ reported = [n \in Names |-> 0] /\ applied = [n \in Names |-> 0] /\ watching \in BOOLEAN
      /\ \A h \in hashing : /\ h \in Job /\ h.by = "scan" /\ h.number = 0 /\ h.hash = None
                            /\ h.before = disk[h.name] /\ disk[h.name] # None
      /\ \A n \in Names : disk[n] = None \/ \E h \in hashing : h.name = n /\ h.before = disk[n]
  <2>1. \A h \in hashing : \E n \in Names :
          /\ disk[n] # None /\ disk \in [Names -> {1, None}]
          /\ h = [name |-> n, by |-> "scan", number |-> 0, before |-> disk[n], hash |-> None]
    BY DEF Files!Init
  <2>2. \A h \in hashing : /\ h \in Job /\ h.by = "scan" /\ h.number = 0 /\ h.hash = None
                            /\ h.before = disk[h.name] /\ disk[h.name] # None
    BY <2>1 DEF Job
  <2>3. ASSUME NEW n \in Names, disk[n] # None
        PROVE  \E h \in hashing : h.name = n /\ h.before = disk[n]
    <3>1. [name |-> n, by |-> "scan", number |-> 0, before |-> disk[n], hash |-> None] \in hashing
      BY <2>3 DEF Files!Init
    <3> QED BY <3>1
  <2> QED BY <2>2, <2>3 DEF Files!Init
<1>2. FilesTyped
  BY <1>1 DEF FilesTyped
<1>3. NoneReturns /\ Ordered /\ \A n \in Names : Scanned(n)
  BY <1>1, <1>2, ServicesAssumption DEF FilesTyped, NoneReturns, Ordered, Scanned, Job
<1> QED BY <1>1, <1>2, <1>3 DEF FilesGuarded

LEMMA FilesStep == FilesGuarded /\ [Files!Next]_ofFiles => FilesGuarded'
<1> SUFFICES ASSUME FilesGuarded, [Files!Next]_ofFiles PROVE FilesGuarded'
  OBVIOUS
<1>1. CASE UNCHANGED ofFiles
  BY <1>1 DEF ofFiles, FilesGuarded, FilesTyped, NoneReturns, Ordered, Scanned, LastTold,
              AllTold, Newest, Harmless, Right
<1>2. CASE \E n \in Names : \/ Files!Write(n) \/ Files!Remove(n) \/ Files!Report(n)
                            \/ Files!ReadHash(n) \/ Files!FailHash(n)
  BY <1>2, WriteKeepsFiles, RemoveKeepsFiles, ReportKeepsFiles, ReadKeepsFiles, FailKeepsFiles
<1>3. CASE Files!StartWatching \/ Files!SetHash \/ Files!Reconcile
  BY <1>3, WatchKeepsFiles, SetKeepsFiles, ReconcileKeepsFiles
<1> QED BY <1>1, <1>2, <1>3 DEF Files!Next

(***************************************************************************)
(* The configuration.                                                      *)
(***************************************************************************)
ConfigGuarded ==
  /\ queue \in Seq({"change", "unlink"})
  /\ phase # "watching" => queue = <<>>
  /\ phase = "loaded" /\ ~unnoticed => config = Config!Parsed(content)
  /\ queue # <<>> => (queue[Len(queue)] = "unlink" <=> content = None)
  /\ Config!ConfigCurrent

LEMMA ConfigStep ==
  ConfigGuarded /\ changes \in Nat /\ [Config!Next]_ofConfig
    => ConfigGuarded' /\ changes' \in Nat
<1> SUFFICES ASSUME ConfigGuarded, changes \in Nat, [Config!Next]_ofConfig
             PROVE  ConfigGuarded' /\ changes' \in Nat
  OBVIOUS
<1> USE DEF ConfigGuarded, Config!ConfigCurrent, Config!Parsed
<1>1. CASE UNCHANGED ofConfig
  BY <1>1 DEF ofConfig
<1>2. CASE Config!Change
  <2>1. CASE content' = changes' /\ queue' = Append(queue, "change")
    BY <1>2, <2>1, ServicesAssumption DEF Config!Change
  <2>2. CASE content' = None /\ queue' = Append(queue, "unlink")
    BY <1>2, <2>2 DEF Config!Change
  <2> QED BY <1>2, <2>1, <2>2 DEF Config!Change
<1>3. CASE Config!ChangeUnseen
  <2>1. /\ phase # "watching" /\ UNCHANGED <<phase, queue, config>> /\ changes' = changes + 1
        /\ unnoticed' = (phase = "loaded")
    BY <1>3 DEF Config!ChangeUnseen
  <2>2. queue' = <<>> /\ phase' # "watching" /\ ~(phase' = "loaded" /\ ~unnoticed')
    BY <2>1
  <2> QED BY <2>1, <2>2
<1>4. CASE Config!Load
  BY <1>4 DEF Config!Load, Config!LoadConfig
<1>5. CASE Config!Watch
  BY <1>5 DEF Config!Watch
<1>6. CASE Config!Handle
  <2>1. /\ Tail(queue) \in Seq({"change", "unlink"})
        /\ Tail(queue) = <<>> => Head(queue) = queue[Len(queue)]
        /\ Tail(queue) # <<>> => Tail(queue)[Len(Tail(queue))] = queue[Len(queue)]
    BY <1>6, TailFacts DEF Config!Handle
  <2> QED BY <1>6, <2>1 DEF Config!Handle, Config!LoadConfig
<1> QED BY <1>1, <1>2, <1>3, <1>4, <1>5, <1>6 DEF Config!Next

(***************************************************************************)
(* When every event is handled the manifest has the hash of every file     *)
(* that is not astray, and the launcher the configuration in its file, for *)
(* any number of files, changes and interleavings of scans and events.     *)
(* (FilesService, LauncherService)                                         *)
(***************************************************************************)
THEOREM SpecManifestCurrent == Spec => []ManifestCurrent
<1>1. Init => FilesGuarded /\ ConfigGuarded /\ changes \in Nat
  <2>1. FilesRest => FilesGuarded
    BY ServicesAssumption
       DEF FilesRest, Nowhere, Never, FilesGuarded, FilesTyped, NoneReturns, Ordered,
           LastTold, AllTold
  <2>2. Config!Init \/ ConfigRests => ConfigGuarded /\ changes \in Nat
    <3> SUFFICES ASSUME Config!Init \/ ConfigRests PROVE ConfigGuarded /\ changes \in Nat
      OBVIOUS
    <3>1. queue = <<>> /\ phase = "boot" /\ changes = 0
      BY DEF Config!Init, ConfigRests
    <3> QED BY <3>1 DEF ConfigGuarded, Config!ConfigCurrent
  <2> QED BY <2>1, <2>2, InitFiles DEF Init
<1>2. FilesGuarded /\ ConfigGuarded /\ changes \in Nat /\ [Next]_vars
        => (FilesGuarded /\ ConfigGuarded /\ changes \in Nat)'
  BY FilesStep, ConfigStep DEF Next, vars
<1>3. FilesGuarded /\ ConfigGuarded => ManifestCurrent
  BY DEF FilesGuarded, LastTold, AllTold, Newest, ConfigGuarded, ManifestCurrent,
         Files!ManifestCurrent, Files!Quiet
<1> QED BY <1>1, <1>2, <1>3, PTL DEF Spec

(***************************************************************************)
(* Statements.  Arguments are numbered as they come, so value n is argument *)
(* n; what has to be kept is that each number in the text is the one that   *)
(* was meant, that it has a value, and that no value is left over.          *)
(***************************************************************************)

\* The greatest number of a sequence is its last value's.
Reaches(s, n) == /\ \A i \in DOMAIN s : s[i] \in 1..n
                 /\ n = 0 \/ \E i \in DOMAIN s : s[i] = n

SqlTyped == text \in Seq(Nat) /\ values \in Seq(Nat)
ValuesNumbered == \A i \in DOMAIN values : values[i] = i
TextReaches ==
  IF statement = "insert" /\ built = None THEN text = <<>> ELSE Reaches(text, Len(values))
FirstCondition == statement = "delete" /\ conditions = 0 => values = <<>>
BuiltIsText ==
  built \notin {None, Sql!Error} =>
    /\ built = [text |-> text, values |-> values]
    /\ statement \in {"update", "delete"} => conditions > 0

SqlGuarded == SqlTyped /\ text = meant /\ ValuesNumbered /\ TextReaches /\ FirstCondition
              /\ BuiltIsText

LEMMA ArityReached ==
  ASSUME NEW s \in Seq(Nat), NEW n \in Nat, Reaches(s, n)
  PROVE  Sql!Arity(s) = n
<1>1. CASE s = <<>>
  BY <1>1 DEF Reaches, Sql!Arity
<1>2. CASE s # <<>>
  <2>1. PICK i \in DOMAIN s : s[i] = n
    <3>1. 1 \in DOMAIN s BY <1>2
    <3> QED BY <3>1 DEF Reaches
  <2> DEFINE S == Sql!ToSet(s)
  <2>2. n \in S /\ \A y \in S : y \in Nat /\ n >= y
    BY <2>1 DEF Reaches, Sql!ToSet
  <2>3. \A x \in S : (\A y \in S : x >= y) => x = n
    <3> HIDE DEF S
    <3> QED BY <2>2
  <2>4. Sql!Max(S) = n
    <3> HIDE DEF S
    <3> QED BY <2>2, <2>3 DEF Sql!Max
  <2> QED BY <1>2, <2>4 DEF Sql!Arity
<1> QED BY <1>1, <1>2

\* Each of the conditions reaches its arity.
LEMMA ConditionReaches ==
  ASSUME NEW c \in Conditions
  PROVE  c \in Seq(Nat) /\ Sql!Arity(c) \in Nat /\ Reaches(c, Sql!Arity(c))
<1>1. \E n \in 0..2 : c \in Seq(Nat) /\ Reaches(c, n)
  <2>1. CASE c = <<>> BY <2>1 DEF Reaches
  <2>2. CASE c = <<1>>
    <3>1. Reaches(c, 1) BY <2>2 DEF Reaches
    <3> QED BY <2>2, <3>1
  <2>3. CASE c = <<1, 2>>
    <3>1. c[2] = 2 /\ DOMAIN c = {1, 2} /\ c \in Seq(Nat) BY <2>3
    <3>2. \A i \in DOMAIN c : c[i] \in 1..2 BY <2>3
    <3>3. Reaches(c, 2) BY <3>1, <3>2 DEF Reaches
    <3> QED BY <3>1, <3>3
  <2>4. CASE c = <<2, 1>>
    <3>1. c[1] = 2 /\ DOMAIN c = {1, 2} /\ c \in Seq(Nat) BY <2>4
    <3>2. \A i \in DOMAIN c : c[i] \in 1..2 BY <2>4
    <3>3. Reaches(c, 2) BY <3>1, <3>2 DEF Reaches
    <3> QED BY <3>1, <3>3
  <2>5. CASE c = <<1, 1>>
    <3>1. Reaches(c, 1) BY <2>5 DEF Reaches
    <3> QED BY <2>5, <3>1
  <2> QED BY <2>1, <2>2, <2>3, <2>4, <2>5 DEF Conditions
<1>2. PICK n \in 0..2 : c \in Seq(Nat) /\ Reaches(c, n) BY <1>1
<1>3. Sql!Arity(c) = n BY <1>2, ArityReached
<1> QED BY <1>2, <1>3

IsJoined(r, s, t) ==
  /\ r \in Seq(Nat) /\ Len(r) = Len(s) + Len(t)
  /\ \A i \in 1..Len(s) : r[i] = s[i]
  /\ \A i \in 1..Len(t) : r[Len(s) + i] = t[i]

LEMMA Joined == \A s, t \in Seq(Nat) : IsJoined(s \o t, s, t)
  BY DEF IsJoined

\* Another part of the text, numbered on, reaches as far as the values do.
LEMMA AddedReaches ==
  ASSUME NEW n \in Nat, NEW s \in Seq(Nat), Reaches(s, Len(values)),
         NEW c \in Seq(Nat), Reaches(c, n), SqlTyped, ValuesNumbered
  PROVE  LET shown == [i \in DOMAIN c |-> Len(values) + c[i]]
             more == values \o Sql!Following(n) IN
         /\ s \o shown \in Seq(Nat) /\ more \in Seq(Nat)
         /\ \A i \in DOMAIN more : more[i] = i
         /\ Reaches(s \o shown, Len(more))
<1> DEFINE k == Len(values)
           shown == [i \in DOMAIN c |-> k + c[i]]
           more == values \o Sql!Following(n)
<1>1. k \in Nat BY DEF SqlTyped
<1>2. /\ Sql!Following(n) \in Seq(Nat) /\ Len(Sql!Following(n)) = n
      /\ \A i \in 1..n : Sql!Following(n)[i] = k + i
  BY <1>1 DEF Sql!Following
<1>3. more \in Seq(Nat) /\ Len(more) = k + n /\ \A i \in DOMAIN more : more[i] = i
  <2> values \in Seq(Nat) BY DEF SqlTyped
  <2>1. /\ more \in Seq(Nat) /\ Len(more) = k + n
        /\ \A i \in 1..k : more[i] = values[i]
        /\ \A i \in 1..n : more[k + i] = Sql!Following(n)[i]
    <3>1. IsJoined(more, values, Sql!Following(n))
      BY <1>2, Joined
    <3> QED BY <1>2, <3>1 DEF IsJoined
  <2>2. \A i \in 1..k : more[i] = i BY <2>1 DEF ValuesNumbered
  <2>3. \A i \in k+1..k+n : i - k \in 1..n /\ i = k + (i - k) BY <1>1
  <2> HIDE DEF more, k
  <2>4. \A i \in k+1..k+n : more[i] = i BY <1>1, <1>2, <2>1, <2>3
  <2>5. \A i \in 1..k+n : i \in 1..k \/ i \in k+1..k+n BY <1>1
  <2>6. DOMAIN more = 1..k+n BY <2>1
  <2> QED BY <2>1, <2>2, <2>4, <2>5, <2>6
<1>4. shown \in Seq(Nat) /\ Len(shown) = Len(c) /\ \A i \in 1..Len(c) : shown[i] = k + c[i]
  <2> HIDE DEF k
  <2>1. DOMAIN c = 1..Len(c) /\ Len(c) \in Nat /\ \A i \in 1..Len(c) : k + c[i] \in Nat
    BY <1>1
  <2> QED BY <2>1
<1>5. /\ s \o shown \in Seq(Nat) /\ Len(s \o shown) = Len(s) + Len(c)
      /\ \A i \in 1..Len(s) : (s \o shown)[i] = s[i]
      /\ \A i \in 1..Len(c) : (s \o shown)[Len(s) + i] = shown[i]
  <2> HIDE DEF shown
  <2>1. IsJoined(s \o shown, s, shown) BY <1>4, Joined
  <2> QED BY <1>4, <2>1 DEF IsJoined
<1>6. \A i \in 1..Len(s) : (s \o shown)[i] = s[i]
  BY <1>5
<1>7. \A i \in 1..Len(c) : (s \o shown)[Len(s) + i] = k + c[i]
  <2> HIDE DEF shown
  <2> QED BY <1>4, <1>5
<1>8. \A i \in DOMAIN (s \o shown) : (s \o shown)[i] \in 1..(k + n)
  <2> HIDE DEF shown
  <2> SUFFICES ASSUME NEW i \in 1..(Len(s) + Len(c)) PROVE (s \o shown)[i] \in 1..(k + n)
    BY <1>5, SMTT(40)
  <2>1. CASE i <= Len(s) BY <2>1, <1>1, <1>6 DEF Reaches
  <2>2. CASE i > Len(s)
    <3> DEFINE j == i - Len(s)
    <3>1. j \in 1..Len(c) /\ i = Len(s) + j BY <2>2
    <3> HIDE DEF j
    <3>2. c[j] \in 1..n BY <3>1 DEF Reaches
    <3>3. (s \o shown)[i] = k + c[j] BY <1>7, <3>1
    <3> HIDE DEF k
    <3> QED BY <1>1, <3>2, <3>3, SMTT(40)
  <2>3. Len(s) \in Nat /\ i \in Int BY <1>4
  <2>4. i <= Len(s) \/ i > Len(s) BY <2>3
  <2> QED BY <2>1, <2>2, <2>4, Zenon
<1>9. k + n = 0 \/ \E i \in DOMAIN (s \o shown) : (s \o shown)[i] = k + n
  <2> HIDE DEF shown
  <2>1. CASE n # 0
    <3>1. PICK i \in 1..Len(c) : c[i] = n BY <2>1 DEF Reaches
    <3>2. Len(s) + i \in DOMAIN (s \o shown) BY <1>5
    <3> QED BY <1>7, <3>1, <3>2
  <2>2. CASE n = 0 /\ k # 0
    <3>1. PICK i \in 1..Len(s) : s[i] = k BY <2>2 DEF Reaches
    <3>2. i \in DOMAIN (s \o shown) BY <1>5
    <3> QED BY <1>1, <1>6, <2>2, <3>1, <3>2
  <2> QED BY <1>1, <2>1, <2>2
<1> HIDE DEF shown, more
<1>10. Reaches(s \o shown, Len(more)) BY <1>3, <1>8, <1>9 DEF Reaches
<1> QED BY <1>3, <1>5, <1>10 DEF shown, more

LEMMA InitSql == Sql!Init \/ SqlRests => SqlGuarded
<1> SUFFICES ASSUME Sql!Init \/ SqlRests PROVE SqlGuarded
  OBVIOUS
<1>1. text = <<>> /\ values = <<>> /\ meant = <<>> /\ built = None
  BY DEF Sql!Init, SqlRests
<1>2. Len(values) = 0 /\ text \in Seq(Nat) /\ values \in Seq(Nat)
  BY <1>1
<1>3. Reaches(text, Len(values))
  BY <1>1, <1>2 DEF Reaches
<1> QED
  BY <1>1, <1>2, <1>3
     DEF SqlGuarded, SqlTyped, ValuesNumbered, TextReaches, FirstCondition, BuiltIsText

\* A call of where, and or set puts its numbers behind those that are there.
LEMMA CallKeepsSql ==
  ASSUME SqlGuarded, Sql!Set \/ Sql!WhereUpdate \/ Sql!WhereDelete \/ Sql!WhereMore
  PROVE  SqlGuarded'
<1>1. /\ statement # "insert" /\ built = None /\ UNCHANGED <<statement, built>>
      /\ SqlTyped /\ text = meant /\ ValuesNumbered /\ Reaches(text, Len(values))
  BY DEF SqlGuarded, TextReaches, Sql!Set, Sql!WhereUpdate, Sql!WhereDelete, Sql!WhereMore,
         Sql!Call, Sql!AddWhere
<1>2. \E c \in Seq(Nat), n \in Nat :
        /\ Reaches(c, n) /\ text' = text \o [i \in DOMAIN c |-> Len(values) + c[i]]
        /\ meant' = text' /\ values' = values \o Sql!Following(n)
  <2>0. Len(values) \in Nat BY <1>1 DEF SqlTyped
  <2>1. CASE Sql!Set
    <3>1. Reaches(<<1>>, 1) BY DEF Reaches
    <3>2. Sql!Following(1) = <<Len(values) + 1>>
      BY <2>0 DEF Sql!Following
    <3>3. [i \in DOMAIN <<1>> |-> Len(values) + <<1>>[i]] = <<Len(values) + 1>>
      BY <2>0
    <3>4. text' = Append(text, Len(values) + 1) /\ meant' = text \o <<Len(values) + 1>>
          /\ values' = values \o Sql!Following(1)
      BY <1>1, <2>1, <3>2 DEF Sql!Set
    <3>5. Append(text, Len(values) + 1) = text \o <<Len(values) + 1>>
      BY <1>1, <2>0 DEF SqlTyped
    <3>6. <<1>> \in Seq(Nat) OBVIOUS
    <3> QED BY <3>1, <3>3, <3>4, <3>5, <3>6
  <2>2. CASE Sql!WhereUpdate
    <3>1. PICK c \in Conditions : Sql!AddWhere(c, Sql!Renumbered(c))
      BY <2>2 DEF Sql!WhereUpdate
    <3>2. c \in Seq(Nat) /\ Sql!Arity(c) \in Nat /\ Reaches(c, Sql!Arity(c))
      BY ConditionReaches
    <3>3. Sql!Renumbered(c) = [i \in DOMAIN c |-> Len(values) + c[i]]
      BY <2>0, <3>2 DEF Sql!Renumbered
    <3> QED BY <1>1, <3>1, <3>2, <3>3 DEF Sql!AddWhere
  <2>3. CASE Sql!WhereDelete
    <3>1. PICK c \in Conditions : Sql!AddWhere(c, c)
      BY <2>3 DEF Sql!WhereDelete
    <3>2. c \in Seq(Nat) /\ Sql!Arity(c) \in Nat /\ Reaches(c, Sql!Arity(c))
      BY ConditionReaches
    <3>3. Len(values) = 0
      BY <2>3 DEF SqlGuarded, FirstCondition, Sql!WhereDelete
    <3>4. c = [i \in DOMAIN c |-> Len(values) + c[i]]
      BY <3>2, <3>3
    <3> QED BY <1>1, <3>1, <3>2, <3>4 DEF Sql!AddWhere
  <2>4. CASE Sql!WhereMore
    <3>1. PICK c \in Conditions : Sql!AddWhere(c, [i \in DOMAIN c |-> Len(values) + c[i]])
      BY <2>4 DEF Sql!WhereMore
    <3>2. c \in Seq(Nat) /\ Sql!Arity(c) \in Nat /\ Reaches(c, Sql!Arity(c))
      BY ConditionReaches
    <3> QED BY <1>1, <3>1, <3>2 DEF Sql!AddWhere
  <2> QED BY <2>1, <2>2, <2>3, <2>4
<1>3. PICK c \in Seq(Nat), n \in Nat :
        /\ Reaches(c, n) /\ text' = text \o [i \in DOMAIN c |-> Len(values) + c[i]]
        /\ meant' = text' /\ values' = values \o Sql!Following(n)
  BY <1>2
<1>4. /\ text' \in Seq(Nat) /\ values' \in Seq(Nat)
      /\ \A i \in DOMAIN values' : values'[i] = i
      /\ Reaches(text', Len(values'))
  <2>1. text \in Seq(Nat) BY <1>1 DEF SqlTyped
  <2> QED BY <1>1, <1>3, <2>1, AddedReaches
<1>5. statement = "delete" => conditions' # 0
  BY DEF Sql!Set, Sql!WhereUpdate, Sql!WhereDelete, Sql!WhereMore
<1> QED
  BY <1>1, <1>3, <1>4, <1>5
     DEF SqlGuarded, SqlTyped, ValuesNumbered, TextReaches, Reaches, FirstCondition, BuiltIsText

LEMMA ValuesKeepSql == SqlGuarded /\ Sql!Values => SqlGuarded'
<1> SUFFICES ASSUME SqlGuarded, Sql!Values PROVE SqlGuarded'
  OBVIOUS
<1>1. /\ statement = "insert" /\ built = None /\ text = <<>>
      /\ UNCHANGED <<statement, conditions, text, meant, built>>
  BY DEF SqlGuarded, TextReaches, Sql!Values, Sql!Call
<1>2. PICK n \in 0..2 : values' = values \o Sql!Following(n)
  BY DEF Sql!Values
<1>3. values' \in Seq(Nat) /\ \A i \in DOMAIN values' : values'[i] = i
  <2>1. Reaches(<<>>, 0) BY DEF Reaches
  <2>2. values \in Seq(Nat) /\ Len(values) \in Nat BY DEF SqlGuarded, SqlTyped
  <2>3. Sql!Following(n) \in Seq(Nat) /\ Len(Sql!Following(n)) = n
        /\ \A i \in 1..n : Sql!Following(n)[i] = Len(values) + i
    BY <2>2 DEF Sql!Following
  <2>4. \A i \in 1..Len(values) : values'[i] = i
    BY <1>2, <2>2, <2>3 DEF SqlGuarded, ValuesNumbered
  <2>5. \A i \in Len(values)+1..Len(values)+n : values'[i] = i
    BY <1>2, <2>2, <2>3
  <2>6. values' \in Seq(Nat) /\ Len(values') = Len(values) + n
    BY <1>2, <2>2, <2>3
  <2> QED BY <2>2, <2>4, <2>5, <2>6
<1> QED
  BY <1>1, <1>3
     DEF SqlGuarded, SqlTyped, ValuesNumbered, TextReaches, FirstCondition, BuiltIsText

LEMMA BuildKeepsSql ==
  ASSUME SqlGuarded,
         Sql!BuildInsert \/ Sql!BuildSelect \/ Sql!BuildUpdate \/ Sql!BuildDelete
  PROVE  SqlGuarded'
<1>1. built = None /\ UNCHANGED <<statement, conditions, values>> /\ text' = meant'
  BY DEF SqlGuarded, Sql!BuildInsert, Sql!BuildSelect, Sql!BuildUpdate, Sql!BuildDelete,
         Sql!Built
<1>2. text' \in Seq(Nat) /\ Reaches(text', Len(values))
  <2>1. CASE Sql!BuildInsert
    <3>1. text' = [i \in 1..Len(values) |-> i] /\ Len(values) \in Nat
      BY <2>1 DEF SqlGuarded, SqlTyped, Sql!BuildInsert
    <3> QED BY <3>1 DEF Reaches
  <2>2. CASE Sql!BuildSelect \/ Sql!BuildUpdate \/ Sql!BuildDelete
    BY <2>2 DEF SqlGuarded, SqlTyped, TextReaches, Sql!BuildSelect, Sql!BuildUpdate,
                Sql!BuildDelete
  <2> QED BY <2>1, <2>2
<1>3. /\ built' \in {[text |-> text', values |-> values], Sql!Error}
      /\ statement \in {"update", "delete"} /\ built' # Sql!Error => conditions > 0
  <2>1. CASE Sql!BuildInsert \/ Sql!BuildSelect
    BY <2>1 DEF Sql!BuildInsert, Sql!BuildSelect, Sql!Built
  <2>2. CASE Sql!BuildUpdate \/ Sql!BuildDelete
    BY <2>2 DEF Sql!BuildUpdate, Sql!BuildDelete, Sql!Built, Sql!HasWhere
  <2> QED BY <2>1, <2>2
<1>4. TextReaches'
  <2>1. values \in Seq(Nat) BY DEF SqlGuarded, SqlTyped
  <2>2. built' # None BY <1>2, <1>3, <2>1, OutcomeAssumption DEF Sql!Query
  <2> QED BY <1>1, <1>2, <2>2 DEF TextReaches
<1> QED
  BY <1>1, <1>2, <1>3, <1>4
     DEF SqlGuarded, SqlTyped, ValuesNumbered, FirstCondition, BuiltIsText, Sql!Error

LEMMA SqlStep == SqlGuarded /\ [Sql!Next]_ofSql => SqlGuarded'
<1> SUFFICES ASSUME SqlGuarded, [Sql!Next]_ofSql PROVE SqlGuarded'
  OBVIOUS
<1>1. CASE UNCHANGED ofSql
  BY <1>1 DEF ofSql, SqlGuarded, SqlTyped, ValuesNumbered, TextReaches, Reaches, FirstCondition,
              BuiltIsText
<1>2. CASE Sql!Set \/ Sql!WhereUpdate \/ Sql!WhereDelete \/ Sql!WhereMore
  BY <1>2, CallKeepsSql
<1>3. CASE Sql!Values
  BY <1>3, ValuesKeepSql
<1>4. CASE Sql!BuildInsert \/ Sql!BuildSelect \/ Sql!BuildUpdate \/ Sql!BuildDelete
  BY <1>4, BuildKeepsSql
<1> QED BY <1>1, <1>2, <1>3, <1>4 DEF Sql!Next

LEMMA GuardedIsBound == SqlGuarded => Sql!BoundAsMeant
<1> SUFFICES ASSUME SqlGuarded, built \notin {None, Sql!Error}
             PROVE  /\ Sql!Postgres(built) = meant
                    /\ Sql!MariaDb(built) = meant
                    /\ statement \in {"update", "delete"} => conditions > 0
  BY DEF Sql!BoundAsMeant
<1>1. built = [text |-> text, values |-> values] /\ text = meant
      /\ text \in Seq(Nat) /\ values \in Seq(Nat)
  BY DEF SqlGuarded, BuiltIsText, SqlTyped
<1>2. Reaches(text, Len(values))
  BY DEF SqlGuarded, TextReaches
<1>3. \A i \in DOMAIN text : values[text[i]] = text[i]
  <2>1. DOMAIN values = 1..Len(values) BY <1>1
  <2> QED BY <1>2, <2>1 DEF Reaches, SqlGuarded, ValuesNumbered
<1>4. [i \in DOMAIN text |-> values[text[i]]] = text
  <2>1. text = [i \in DOMAIN text |-> text[i]] BY <1>1
  <2> QED BY <1>3, <2>1
<1>5. Sql!Arity(text) = Len(values)
  <2>1. Len(values) \in Nat BY <1>1
  <2> QED BY <1>1, <1>2, <2>1, ArityReached
<1>6. built.text = text /\ built.values = values BY <1>1
<1> QED BY <1>1, <1>4, <1>5, <1>6 DEF Sql!Postgres, Sql!MariaDb, SqlGuarded, BuiltIsText

(***************************************************************************)
(* Whatever calls made a statement, and however many, each place of its    *)
(* text is bound to the argument that was meant, with either database, and *)
(* a write has a condition; the conditions are those of MCServices.        *)
(* (updateQuery, selectQuery, deleteQuery, insertQuery, toClientQuery)     *)
(***************************************************************************)
THEOREM SpecBoundAsMeant == Spec => []BoundAsMeant
<1>1. Init => SqlGuarded
  BY InitSql DEF Init
<1>2. SqlGuarded /\ [Next]_vars => SqlGuarded'
  BY SqlStep DEF Next, vars
<1>3. SqlGuarded => BoundAsMeant
  BY GuardedIsBound DEF BoundAsMeant
<1> QED BY <1>1, <1>2, <1>3, PTL DEF Spec

(***************************************************************************)
(* The limit on logins.  A hit that was within the limit counts from then  *)
(* on, whether its request is admitted later or not; what has to be kept   *)
(* is that the store has all of those that are recent, so that its count   *)
(* is not too small, and that a key which is evicted has MaxKeys others    *)
(* that were hit since.                                                    *)
(***************************************************************************)

\* The hits of a key that were within its limit and may still count.
AllowedHits(k) ==
  admitted[k] \cup {<<r, since[r]>> : r \in {q \in 1..Requests : within[q] /\ user[q] = k}}

LimitTyped ==
  /\ now \in 0..MaxTime
  /\ request \in [1..Requests -> {"coming", "counted", "done"}]
  /\ user \in [1..Requests -> Users \cup {None}]
  /\ address \in [1..Requests -> Addresses \cup {None}]
  /\ within \in [1..Requests -> BOOLEAN] /\ since \in [1..Requests -> 0..MaxTime]
  /\ \A r \in 1..Requests :
       request[r] = "counted" => user[r] \in Users /\ address[r] \in Addresses
  /\ hits \in [Limit!Keys -> SUBSET Limit!Hits]
  /\ admitted \in [Limit!Keys -> SUBSET Limit!Hits]
  /\ behind \in [Limit!Keys -> SUBSET Limit!Keys]
  /\ seen \in [Limit!Keys -> SUBSET Limit!Keys]

HitsPast == \A k \in Limit!Keys : \A h \in AllowedHits(k) : h[2] <= now
RecentRecorded ==
  \A k \in Limit!Keys \ excused : Limit!Recent(AllowedHits(k)) \subseteq hits[k]
AllowedFew ==
  \A k \in Limit!Keys \ excused, last \in 0..now :
    Cardinality(Limit!During(AllowedHits(k), last)) <= Limit!Limit(k)
SeenFollows ==
  \A k \in Limit!Keys : IsFiniteSet(seen[k]) /\ (~redis => behind[k] \subseteq seen[k])

LimitGuarded == LimitTyped /\ HitsPast /\ RecentRecorded /\ AllowedFew /\ SeenFollows

LEMMA LimitCounts == \A S : Limit!Cardinality(S) = Cardinality(S)
  BY DEF Limit!Cardinality, Cardinality

LEMMA HitsFinite ==
  ASSUME NEW S, S \subseteq Limit!Hits
  PROVE  IsFiniteSet(S) /\ Cardinality(S) \in Nat
<1>1. IsFiniteSet(1..Requests) /\ IsFiniteSet(0..MaxTime)
  BY FS_Interval, LimitsAssumption
<1>2. IsFiniteSet(Limit!Hits)
  BY <1>1, FS_Product DEF Limit!Hits
<1> QED BY <1>2, FS_Subset, FS_CardinalityType

LEMMA FewerHits ==
  ASSUME NEW S, NEW T, T \subseteq Limit!Hits, S \subseteq T, NEW k,
         Cardinality(T) <= Limit!Limit(k)
  PROVE  Cardinality(S) <= Limit!Limit(k)
<1>1. Limit!Limit(k) \in Nat
  BY LimitsAssumption DEF Limit!Limit
<1>2. Cardinality(S) <= Cardinality(T)
  BY HitsFinite, FS_Subset
<1>3. Cardinality(S) \in Nat /\ Cardinality(T) \in Nat
  BY HitsFinite
<1> QED BY <1>1, <1>2, <1>3

LEMMA LimitNatural == \A k : Limit!Limit(k) \in Nat
  BY LimitsAssumption DEF Limit!Limit

LEMMA AllowedTyped ==
  ASSUME LimitTyped, NEW k \in Limit!Keys
  PROVE  AllowedHits(k) \subseteq Limit!Hits /\ \A h \in AllowedHits(k) : h[2] \in 0..MaxTime
<1>1. AllowedHits(k) \subseteq Limit!Hits
  BY DEF LimitTyped, AllowedHits, Limit!Hits
<1> QED BY <1>1 DEF Limit!Hits

\* What one hit does: the others that are not excused keep their hits, and the
\* count has all of the recent ones.
LEMMA HitRecords ==
  ASSUME LimitGuarded, NEW k \in Limit!Keys, NEW r \in 1..Requests, NEW allowed \in BOOLEAN,
         Limit!Hit(k, r, allowed), redis' = redis
  PROVE  /\ excused \subseteq excused' /\ SeenFollows'
         /\ hits' \in [Limit!Keys -> SUBSET Limit!Hits]
         /\ behind' \in [Limit!Keys -> SUBSET Limit!Keys]
         /\ seen' \in [Limit!Keys -> SUBSET Limit!Keys]
         /\ \A j \in Limit!Keys \ excused' : j # k => hits'[j] = hits[j]
         /\ k \notin excused' =>
              /\ hits'[k] = Limit!Recent(hits[k]) \cup {<<r, now>>}
              /\ allowed => Cardinality(hits'[k]) <= Limit!Limit(k)
<1> DEFINE hit == <<r, now>>
<1>0. hit \in Limit!Hits
  BY DEF LimitGuarded, LimitTyped, Limit!Hits
<1>1. seen' = [j \in Limit!Keys |-> IF redis \/ j = k THEN {} ELSE seen[j] \cup {k}]
  BY DEF Limit!Hit
<1>2. seen' \in [Limit!Keys -> SUBSET Limit!Keys] /\ \A j \in Limit!Keys : IsFiniteSet(seen'[j])
  <2>1. \A j \in Limit!Keys : IsFiniteSet(seen'[j])
    BY <1>1, FS_EmptySet, FS_AddElement DEF LimitGuarded, SeenFollows
  <2> QED BY <1>1, <2>1 DEF LimitGuarded, LimitTyped
<1>3. \A j \in Limit!Keys : ~redis =>
        Limit!Touched(k)[j] \subseteq seen'[j] /\ Limit!Touched(k)[j] \subseteq Limit!Keys
  BY <1>1 DEF Limit!Touched, LimitGuarded, LimitTyped, SeenFollows
<1>4. k \notin Limit!Evicted(k)
  <2>1. Limit!Touched(k)[k] = {} BY DEF Limit!Touched
  <2> QED BY <2>1, FS_EmptySet, LimitCounts, LimitsAssumption DEF Limit!Evicted
<1>5. ASSUME Limit!Record(k, hit)
      PROVE  /\ hits' \in [Limit!Keys -> SUBSET Limit!Hits]
             /\ behind' \in [Limit!Keys -> SUBSET Limit!Keys]
             /\ hits'[k] = Limit!Recent(hits[k]) \cup {hit}
             /\ \A j \in Limit!Keys : j # k /\ j \notin Limit!Evicted(k) => hits'[j] = hits[j]
             /\ \A j \in Limit!Keys : ~redis => behind'[j] \subseteq seen'[j]
  <2>1. Limit!Recent(hits[k]) \cup {hit} \subseteq Limit!Hits
    BY <1>0 DEF LimitGuarded, LimitTyped, Limit!Recent
  <2>2. hits' = [j \in Limit!Keys |->
                   IF j = k THEN Limit!Recent(hits[j]) \cup {hit}
                   ELSE IF j \in Limit!Evicted(k) THEN {} ELSE hits[j]]
    BY <1>5 DEF Limit!Record
  <2>3. behind' = IF redis THEN behind
                  ELSE [j \in Limit!Keys |-> IF j \in Limit!Evicted(k) THEN {}
                                             ELSE Limit!Touched(k)[j] \ Limit!Evicted(k)]
    BY <1>5 DEF Limit!Record
  <2>4. hits' \in [Limit!Keys -> SUBSET Limit!Hits]
    BY <2>1, <2>2 DEF LimitGuarded, LimitTyped
  <2>5. behind' \in [Limit!Keys -> SUBSET Limit!Keys]
    BY <1>3, <2>3 DEF LimitGuarded, LimitTyped
  <2> QED BY <1>3, <2>2, <2>3, <2>4, <2>5
<1>6. CASE allowed = (Limit!Count(k, hit) <= Limit!Limit(k)) /\ Limit!Record(k, hit)
           /\ excused' = excused \cup
                (IF redis THEN {}
                 ELSE {j \in Limit!Keys \ {k} : Limit!Cardinality(seen'[j]) >= MaxKeys})
  <2>1. \A j \in Limit!Keys : j # k /\ j \in Limit!Evicted(k) => j \in excused'
    <3> SUFFICES ASSUME NEW j \in Limit!Keys, j # k, j \in Limit!Evicted(k)
                 PROVE  j \in excused'
      OBVIOUS
    <3>1. ~redis /\ Cardinality(Limit!Touched(k)[j]) >= MaxKeys
      BY LimitCounts DEF Limit!Evicted
    <3>2. /\ Cardinality(Limit!Touched(k)[j]) <= Cardinality(seen'[j])
          /\ Cardinality(Limit!Touched(k)[j]) \in Nat /\ Cardinality(seen'[j]) \in Nat
      BY <1>2, <1>3, <3>1, FS_Subset, FS_CardinalityType
    <3>3. Cardinality(seen'[j]) >= MaxKeys
      BY <3>1, <3>2, LimitsAssumption
    <3> QED BY <1>6, <3>1, <3>3, LimitCounts
  <2>2. Limit!Count(k, hit) = Cardinality(hits'[k])
    BY <1>5, <1>6, LimitCounts DEF Limit!Count
  <2>3. SeenFollows'
    BY <1>2, <1>5, <1>6 DEF SeenFollows
  <2> QED BY <1>2, <1>5, <1>6, <2>1, <2>2, <2>3
<1>7. CASE redis /\ excused' = excused \cup {k}
           /\ (Limit!Record(k, hit) \/ UNCHANGED <<hits, behind>>)
  <2>1. CASE Limit!Record(k, hit)
    <3>1. Limit!Evicted(k) = {} BY <1>7 DEF Limit!Evicted
    <3>2. SeenFollows' BY <1>2, <1>7 DEF SeenFollows
    <3> QED BY <1>2, <1>5, <1>7, <2>1, <3>1, <3>2
  <2>2. CASE UNCHANGED <<hits, behind>>
    <3>1. SeenFollows' BY <1>2, <1>7 DEF SeenFollows
    <3> QED BY <1>2, <1>7, <2>2, <3>1 DEF LimitGuarded, LimitTyped
  <2> QED BY <1>7, <2>1, <2>2
<1> QED BY <1>6, <1>7 DEF Limit!Hit

\* A window that ends now has no hits but those that are recent.
LEMMA RecentDuring ==
  ASSUME NEW S, \A h \in S : h[2] <= now
  PROVE  Limit!During(S, now) = Limit!Recent(S)
  BY DEF Limit!During, Limit!Recent, Limit!Time

\* When one hit was recorded, and its key counts it if it was within the limit.
LEMMA HitKeepsLimit ==
  ASSUME LimitGuarded, LimitTyped', NEW k \in Limit!Keys, NEW r \in 1..Requests,
         NEW allowed \in BOOLEAN, now' = now,
         excused \subseteq excused',
         \A j \in Limit!Keys \ excused' : j # k => hits'[j] = hits[j],
         k \notin excused' => /\ hits'[k] = Limit!Recent(hits[k]) \cup {<<r, now>>}
                              /\ allowed => Cardinality(hits'[k]) <= Limit!Limit(k),
         \A j \in Limit!Keys : AllowedHits(j)' \subseteq
            AllowedHits(j) \cup (IF allowed /\ j = k THEN {<<r, now>>} ELSE {})
  PROVE  HitsPast' /\ RecentRecorded' /\ AllowedFew'
<1>0. now \in Nat BY LimitsAssumption DEF LimitGuarded, LimitTyped
<1>1. HitsPast'
  BY <1>0 DEF LimitGuarded, HitsPast
<1>2. RecentRecorded'
  <2> SUFFICES ASSUME NEW j \in Limit!Keys \ excused', NEW h \in AllowedHits(j)',
                      h[2] + Window > now
               PROVE  h \in hits'[j]
    BY DEF RecentRecorded, Limit!Recent, Limit!Time
  <2>1. h \in AllowedHits(j) => h \in hits[j]
    BY DEF LimitGuarded, RecentRecorded, Limit!Recent, Limit!Time
  <2>2. CASE j # k BY <2>1, <2>2
  <2>3. CASE j = k BY <2>1, <2>3 DEF Limit!Recent, Limit!Time
  <2> QED BY <2>2, <2>3
<1>3. AllowedFew'
  <2> SUFFICES ASSUME NEW j \in Limit!Keys \ excused', NEW last \in 0..now
               PROVE  Cardinality(Limit!During(AllowedHits(j)', last)) <= Limit!Limit(j)
    BY DEF AllowedFew, Limit!During, Limit!Limit, Limit!Time
  <2> DEFINE A == AllowedHits(j)
             B == AllowedHits(j)'
  <2>0. A \subseteq Limit!Hits /\ Cardinality(Limit!During(A, last)) <= Limit!Limit(j)
    BY AllowedTyped DEF LimitGuarded, AllowedFew
  <2>1. CASE Limit!During(B, last) \subseteq Limit!During(A, last)
    <3>1. Limit!During(A, last) \subseteq Limit!Hits
      <4> HIDE DEF A
      <4> QED BY <2>0 DEF Limit!During
    <3>2. Cardinality(Limit!During(B, last)) <= Limit!Limit(j)
      <4> HIDE DEF A, B
      <4> QED BY <2>0, <2>1, <3>1, FewerHits
    <3> QED BY <3>2
  <2>2. CASE ~(Limit!During(B, last) \subseteq Limit!During(A, last))
    <3>1. allowed /\ j = k /\ last = now
      <4>1. PICK h \in Limit!During(B, last) : h \notin Limit!During(A, last) BY <2>2
      <4>2. h \in B /\ h \notin A /\ h[2] <= last
        BY <4>1 DEF Limit!During, Limit!Time
      <4>3. h = <<r, now>> /\ allowed /\ j = k BY <4>2
      <4> QED BY <1>0, <4>2, <4>3
    <3>2. Limit!During(B, now) \subseteq hits'[k]
      <4>1. \A h \in B : h[2] <= now BY <1>1 DEF HitsPast
      <4>2. Limit!During(B, now) = Limit!Recent(B)
        <5> HIDE DEF B
        <5> QED BY <4>1, RecentDuring
      <4>3. Limit!Recent(B) \subseteq hits'[j]
        BY <1>2 DEF RecentRecorded, Limit!Recent
      <4> QED BY <3>1, <4>2, <4>3
    <3>3. hits'[k] \subseteq Limit!Hits BY DEF LimitTyped
    <3>4. Cardinality(hits'[k]) <= Limit!Limit(k) BY <3>1
    <3>5. Cardinality(Limit!During(B, now)) <= Limit!Limit(k)
      <4> HIDE DEF B
      <4> QED BY <3>2, <3>3, <3>4, FewerHits
    <3> QED BY <3>1, <3>5
  <2> QED BY <2>1, <2>2
<1> QED BY <1>1, <1>2, <1>3

LEMMA CountUserKeepsLimit ==
  ASSUME LimitGuarded, NEW r \in 1..Requests, Limit!CountUser(r)
  PROVE  LimitGuarded'
<1>1. PICK u \in Users, a \in Addresses, allowed \in BOOLEAN :
        /\ Limit!Hit(u, r, allowed) /\ within' = [within EXCEPT ![r] = allowed]
        /\ user' = [user EXCEPT ![r] = u] /\ address' = [address EXCEPT ![r] = a]
  BY DEF Limit!CountUser
<1>2. /\ request' = [request EXCEPT ![r] = "counted"] /\ since' = [since EXCEPT ![r] = now]
      /\ UNCHANGED <<redis, now, admitted>>
  BY DEF Limit!CountUser
<1>3. u \in Limit!Keys BY DEF Limit!Keys
<1>4. LimitTyped /\ HitsPast BY DEF LimitGuarded
<1>5. /\ excused \subseteq excused' /\ SeenFollows'
      /\ hits' \in [Limit!Keys -> SUBSET Limit!Hits]
      /\ behind' \in [Limit!Keys -> SUBSET Limit!Keys]
      /\ seen' \in [Limit!Keys -> SUBSET Limit!Keys]
      /\ \A j \in Limit!Keys \ excused' : j # u => hits'[j] = hits[j]
      /\ u \notin excused' =>
           /\ hits'[u] = Limit!Recent(hits[u]) \cup {<<r, now>>}
           /\ allowed => Cardinality(hits'[u]) <= Limit!Limit(u)
  BY <1>1, <1>2, <1>3, HitRecords
<1>6. LimitTyped'
  BY <1>1, <1>2, <1>4, <1>5 DEF LimitTyped
<1>7. \A j \in Limit!Keys : AllowedHits(j)' \subseteq
            AllowedHits(j) \cup (IF allowed /\ j = u THEN {<<r, now>>} ELSE {})
  BY <1>1, <1>2, <1>4 DEF LimitTyped, AllowedHits
<1>8. HitsPast' /\ RecentRecorded' /\ AllowedFew'
  BY <1>2, <1>3, <1>5, <1>6, <1>7, HitKeepsLimit
<1> QED BY <1>5, <1>6, <1>8 DEF LimitGuarded

LEMMA CountAddressKeepsLimit ==
  ASSUME LimitGuarded, NEW r \in 1..Requests, Limit!CountAddress(r)
  PROVE  LimitGuarded'
<1> DEFINE u == user[r]
           a == address[r]
<1>1. PICK allowed \in BOOLEAN :
        /\ Limit!Hit(a, r, allowed)
        /\ admitted' = IF within[r] /\ allowed
                       THEN [admitted EXCEPT ![u] = @ \cup {<<r, since[r]>>},
                                             ![a] = @ \cup {<<r, now>>}]
                       ELSE admitted
  BY DEF Limit!CountAddress
<1>2. /\ request' = [request EXCEPT ![r] = "done"] /\ since' = [since EXCEPT ![r] = 0]
      /\ user' = [user EXCEPT ![r] = None] /\ address' = [address EXCEPT ![r] = None]
      /\ within' = [within EXCEPT ![r] = FALSE]
      /\ UNCHANGED <<redis, now>>
  BY DEF Limit!CountAddress
<1>4. LimitTyped /\ HitsPast BY DEF LimitGuarded
<1>3. u \in Limit!Keys /\ a \in Limit!Keys BY <1>4 DEF Limit!Keys, Limit!CountAddress, LimitTyped
<1>5. /\ excused \subseteq excused' /\ SeenFollows'
      /\ hits' \in [Limit!Keys -> SUBSET Limit!Hits]
      /\ behind' \in [Limit!Keys -> SUBSET Limit!Keys]
      /\ seen' \in [Limit!Keys -> SUBSET Limit!Keys]
      /\ \A j \in Limit!Keys \ excused' : j # a => hits'[j] = hits[j]
      /\ a \notin excused' =>
           /\ hits'[a] = Limit!Recent(hits[a]) \cup {<<r, now>>}
           /\ allowed => Cardinality(hits'[a]) <= Limit!Limit(a)
  BY <1>1, <1>2, <1>3, HitRecords
<1>6. /\ admitted' \in [Limit!Keys -> SUBSET Limit!Hits]
      /\ \A j \in Limit!Keys : admitted'[j] \subseteq
           admitted[j] \cup (IF within[r] /\ j = u THEN {<<r, since[r]>>} ELSE {})
                       \cup (IF allowed /\ j = a THEN {<<r, now>>} ELSE {})
  <2>1. <<r, since[r]>> \in Limit!Hits /\ <<r, now>> \in Limit!Hits
    BY <1>4 DEF LimitTyped, Limit!Hits
  <2>2. admitted \in [Limit!Keys -> SUBSET Limit!Hits] BY <1>4 DEF LimitTyped
  <2> HIDE DEF u, a
  <2>3. CASE within[r] /\ allowed
    <3> DEFINE h == <<r, since[r]>>
               i == <<r, now>>
    <3>1. admitted' = [admitted EXCEPT ![u] = @ \cup {h}, ![a] = @ \cup {i}]
      BY <1>1, <2>3
    <3>2. h \in Limit!Hits /\ i \in Limit!Hits BY <2>1
    <3> HIDE DEF h, i
    <3>3. /\ admitted' \in [Limit!Keys -> SUBSET Limit!Hits]
          /\ \A j \in Limit!Keys : admitted'[j] \subseteq
               admitted[j] \cup (IF j = u THEN {h} ELSE {}) \cup (IF j = a THEN {i} ELSE {})
      BY <1>3, <2>2, <3>1, <3>2
    <3> QED BY <2>3, <3>3 DEF h, i
  <2>4. CASE ~(within[r] /\ allowed)
    BY <1>1, <2>2, <2>4
  <2> QED BY <2>3, <2>4
<1>7. LimitTyped'
  <2>1. \A q \in 1..Requests : request'[q] = "counted" =>
          q # r /\ user'[q] \in Users /\ address'[q] \in Addresses
    BY <1>2, <1>4 DEF LimitTyped
  <2>2. /\ request' \in [1..Requests -> {"coming", "counted", "done"}]
        /\ user' \in [1..Requests -> Users \cup {None}]
        /\ address' \in [1..Requests -> Addresses \cup {None}]
        /\ within' \in [1..Requests -> BOOLEAN] /\ since' \in [1..Requests -> 0..MaxTime]
    <3>1. 0 \in 0..MaxTime BY LimitsAssumption
    <3> QED BY <1>2, <1>4, <3>1 DEF LimitTyped
  <2> QED BY <1>2, <1>4, <1>5, <1>6, <2>1, <2>2 DEF LimitTyped
<1>8. \A j \in Limit!Keys : AllowedHits(j)' \subseteq
            AllowedHits(j) \cup (IF allowed /\ j = a THEN {<<r, now>>} ELSE {})
  <2> SUFFICES ASSUME NEW j \in Limit!Keys, NEW h \in AllowedHits(j)'
               PROVE  h \in AllowedHits(j) \cup (IF allowed /\ j = a THEN {<<r, now>>} ELSE {})
    OBVIOUS
  <2>1. CASE h \in admitted'[j]
    BY <1>6, <2>1 DEF AllowedHits
  <2>2. CASE h \notin admitted'[j]
    <3>1. PICK q \in 1..Requests : within'[q] /\ user'[q] = j /\ h = <<q, since'[q]>>
      BY <2>2 DEF AllowedHits
    <3>2. q # r BY <1>2, <1>4, <3>1 DEF LimitTyped
    <3>3. within[q] /\ user[q] = j /\ h = <<q, since[q]>>
      BY <1>2, <1>4, <3>1, <3>2 DEF LimitTyped
    <3> QED BY <3>3 DEF AllowedHits
  <2> QED BY <2>1, <2>2
<1>9. HitsPast' /\ RecentRecorded' /\ AllowedFew'
  <2> HIDE DEF a, u
  <2> QED BY <1>2, <1>3, <1>5, <1>7, <1>8, HitKeepsLimit
<1> QED BY <1>5, <1>7, <1>9 DEF LimitGuarded

LEMMA TickKeepsLimit ==
  ASSUME LimitGuarded, Limit!Tick
  PROVE  LimitGuarded'
<1>1. /\ now' = now + 1 /\ now < MaxTime /\ now \in Nat
      /\ UNCHANGED <<redis, request, user, address, within, since, hits, behind, seen, excused,
                     admitted>>
  BY LimitsAssumption DEF Limit!Tick, LimitGuarded, LimitTyped
<1>2. LimitTyped'
  BY <1>1, LimitsAssumption DEF LimitGuarded, LimitTyped
<1>3. \A k : AllowedHits(k)' = AllowedHits(k)
  BY <1>1 DEF AllowedHits
<1>4. \A k \in Limit!Keys : \A h \in AllowedHits(k) : h[2] \in Nat /\ h[2] <= now
  BY AllowedTyped, LimitsAssumption DEF LimitGuarded, HitsPast
<1>5. HitsPast'
  BY <1>1, <1>3, <1>4 DEF HitsPast
<1>6. RecentRecorded'
  BY <1>1, <1>3, <1>4, LimitsAssumption
     DEF LimitGuarded, RecentRecorded, Limit!Recent, Limit!Time
<1>7. AllowedFew'
  <2> SUFFICES ASSUME NEW k \in Limit!Keys \ excused, NEW last \in 0..(now + 1)
               PROVE  Cardinality(Limit!During(AllowedHits(k), last)) <= Limit!Limit(k)
    BY <1>1, <1>3 DEF AllowedFew, Limit!During, Limit!Limit, Limit!Time
  <2> DEFINE A == AllowedHits(k)
  <2>1. CASE last <= now
    BY <1>1, <2>1 DEF LimitGuarded, AllowedFew
  <2>2. CASE last = now + 1
    <3>1. Limit!During(A, last) \subseteq Limit!During(A, now)
      BY <1>1, <1>4, <2>2, LimitsAssumption DEF Limit!During, Limit!Time
    <3>2. A \subseteq Limit!Hits BY AllowedTyped DEF LimitGuarded
    <3>3. Cardinality(Limit!During(A, now)) <= Limit!Limit(k)
      BY <1>1 DEF LimitGuarded, AllowedFew
    <3>4. Cardinality(Limit!During(A, last)) <= Limit!Limit(k)
      <4> HIDE DEF A
      <4>1. Limit!During(A, now) \subseteq Limit!Hits BY <3>2 DEF Limit!During
      <4> QED BY <3>1, <3>3, <4>1, FewerHits
    <3> QED BY <3>4
  <2> QED BY <1>1, <2>1, <2>2
<1>8. SeenFollows'
  BY <1>1 DEF LimitGuarded, SeenFollows
<1> QED BY <1>2, <1>5, <1>6, <1>7, <1>8 DEF LimitGuarded

LEMMA InitLimit == Limit!Init => LimitGuarded
<1> SUFFICES ASSUME Limit!Init PROVE LimitGuarded
  OBVIOUS
<1> USE DEF Limit!Init
<1>1. LimitTyped
  BY LimitsAssumption DEF LimitTyped
<1>2. \A k \in Limit!Keys : AllowedHits(k) = {}
  BY DEF AllowedHits
<1>3. HitsPast /\ RecentRecorded
  BY <1>2 DEF HitsPast, RecentRecorded, Limit!Recent
<1>4. AllowedFew
  <2>1. \A last : Limit!During({}, last) = {} BY DEF Limit!During
  <2>2. \A k : Cardinality({}) <= Limit!Limit(k) BY FS_EmptySet, LimitNatural
  <2> SUFFICES ASSUME NEW k \in Limit!Keys, NEW last \in 0..now
               PROVE  Cardinality(Limit!During(AllowedHits(k), last)) <= Limit!Limit(k)
    BY DEF AllowedFew
  <2>3. Limit!During(AllowedHits(k), last) = {} BY <1>2, <2>1
  <2> QED BY <2>2, <2>3
<1>5. SeenFollows
  BY FS_EmptySet DEF SeenFollows
<1> QED BY <1>1, <1>3, <1>4, <1>5 DEF LimitGuarded

LEMMA LimitStep == LimitGuarded /\ [Limit!Next]_ofLimit => LimitGuarded'
<1> SUFFICES ASSUME LimitGuarded, [Limit!Next]_ofLimit PROVE LimitGuarded'
  OBVIOUS
<1>1. CASE UNCHANGED ofLimit
  <2>1. \A k : AllowedHits(k)' = AllowedHits(k)
    BY <1>1 DEF AllowedHits, ofLimit
  <2>2. AllowedFew' /\ RecentRecorded'
    BY <1>1, <2>1
       DEF ofLimit, LimitGuarded, AllowedFew, RecentRecorded, Limit!During, Limit!Recent,
           Limit!Limit, Limit!Time
  <2> QED
    BY <1>1, <2>1, <2>2 DEF ofLimit, LimitGuarded, LimitTyped, HitsPast, SeenFollows
<1>2. CASE Limit!Tick
  BY <1>2, TickKeepsLimit
<1>3. CASE \E r \in 1..Requests : Limit!CountUser(r) \/ Limit!CountAddress(r)
  BY <1>3, CountUserKeepsLimit, CountAddressKeepsLimit
<1> QED BY <1>1, <1>2, <1>3 DEF Limit!Next

LEMMA GuardedIsLimited == LimitGuarded => Limit!LimitHolds
<1> SUFFICES ASSUME LimitGuarded, NEW k \in Limit!Keys \ excused, NEW last \in 0..now
             PROVE  Cardinality(Limit!During(admitted[k], last)) <= Limit!Limit(k)
  BY LimitCounts DEF Limit!LimitHolds
<1>1. AllowedHits(k) \subseteq Limit!Hits
  BY AllowedTyped DEF LimitGuarded
<1>2. Limit!During(admitted[k], last) \subseteq Limit!During(AllowedHits(k), last)
  BY DEF Limit!During, AllowedHits
<1>3. Limit!During(AllowedHits(k), last) \subseteq Limit!Hits
  BY <1>1 DEF Limit!During
<1>4. Cardinality(Limit!During(AllowedHits(k), last)) <= Limit!Limit(k)
  BY DEF LimitGuarded, AllowedFew
<1> QED BY <1>2, <1>3, <1>4, FewerHits

(***************************************************************************)
(* The cache of one process.  The order of the map is that of the last     *)
(* uses, so those behind an entry were used since, and what an eviction    *)
(* takes has as many behind it as the map may hold.                        *)
(***************************************************************************)

\* The keys behind each key of S, as its order.
LinearOn(b, S) ==
  \A k \in S :
    /\ b[k] \subseteq S \ {k}
    /\ \A j \in S : j # k => j \in b[k] \/ k \in b[j]
    /\ \A j \in b[k] : b[j] \subseteq b[k]

CacheTyped ==
  /\ clock \in 0..MaxClock
  /\ record \in [CacheKeys -> Cache!Record \cup {None}]
  /\ put \in [CacheKeys -> Cache!Record \cup {None}]
  /\ later \in [CacheKeys -> SUBSET CacheKeys] /\ others \in [CacheKeys -> SUBSET CacheKeys]
  /\ IsFiniteSet(Cache!Entries) /\ \A k \in CacheKeys : IsFiniteSet(others[k])

EntriesPut == \A k \in Cache!Entries : put[k] = record[k]
EntriesOrdered == LinearOn(later, Cache!Entries)
UsedSince == \A k \in Cache!Entries : later[k] \subseteq others[k]

CacheGuarded ==
  CacheTyped /\ EntriesPut /\ EntriesOrdered /\ UsedSince /\ Cache!RecentKept

LEMMA CacheCounts == \A S : Cache!Cardinality(S) = Cardinality(S)
  BY DEF Cache!Cardinality, Cardinality

\* Of an order those that have fewer than n behind them are at most n.
LEMMA LastFew ==
  ASSUME NEW S, IsFiniteSet(S), NEW b, NEW n \in Nat,
         \A k, j \in S : j # k => j \in b[k] \/ k \in b[j],
         \A k \in S : k \notin b[k],
         \A k \in S : \A j \in b[k] : b[j] \subseteq b[k]
  PROVE  /\ IsFiniteSet({k \in S : Cardinality(b[k] \cap S) < n})
         /\ Cardinality({k \in S : Cardinality(b[k] \cap S) < n}) <= n
<1> DEFINE L(k) == b[k] \cap S
           K == {k \in S : Cardinality(L(k)) < n}
<1>1. /\ \A k \in S : IsFiniteSet(L(k)) /\ Cardinality(L(k)) \in Nat
      /\ IsFiniteSet(K) /\ Cardinality(K) \in Nat
  BY FS_Subset, FS_CardinalityType
<1>2. CASE K = {}
  <2> HIDE DEF K
  <2>1. Cardinality(K) <= n BY <1>2, FS_EmptySet
  <2> QED BY <1>1, <2>1 DEF K
<1>3. CASE K # {}
  <2> DEFINE T == {n - Cardinality(L(k)) : k \in K}
  <2>1. T \subseteq Nat /\ T # {}
    <3>1. \A k \in K : k \in S /\ Cardinality(L(k)) < n OBVIOUS
    <3> HIDE DEF K, L
    <3> QED BY <1>1, <1>3, <3>1
  <2>2. PICK v \in T : \A w \in T : v <= w
    <3> HIDE DEF T
    <3> QED BY <2>1, SmallestNumber
  <2>3. PICK j \in K : v = n - Cardinality(L(j))
    OBVIOUS
  <2>4. \A i \in K : Cardinality(L(i)) <= Cardinality(L(j))
    <3> SUFFICES ASSUME NEW i \in K PROVE Cardinality(L(i)) <= Cardinality(L(j))
      OBVIOUS
    <3>1. v <= n - Cardinality(L(i)) BY <2>2
    <3>2. i \in S /\ j \in S BY <2>3
    <3> HIDE DEF L, K, T
    <3>3. Cardinality(L(i)) \in Nat /\ Cardinality(L(j)) \in Nat BY <1>1, <3>2
    <3> QED BY <2>3, <3>1, <3>3
  <2>5. K \subseteq L(j) \cup {j}
    <3> SUFFICES ASSUME NEW i \in K, i # j, i \notin L(j) PROVE FALSE
      OBVIOUS
    <3>1. i \in S /\ j \in S /\ j \in b[i] BY <2>3
    <3>2. L(j) \cup {j} \subseteq L(i) BY <3>1
    <3>3. j \notin L(j) BY <3>1
    <3> HIDE DEF L, K
    <3>4. Cardinality(L(j) \cup {j}) = Cardinality(L(j)) + 1
      BY <1>1, <3>1, <3>3, FS_AddElement
    <3>5. Cardinality(L(j) \cup {j}) <= Cardinality(L(i))
      BY <1>1, <3>1, <3>2, FS_Subset
    <3>6. Cardinality(L(i)) <= Cardinality(L(j)) BY <2>4
    <3>7. Cardinality(L(i)) \in Nat /\ Cardinality(L(j)) \in Nat BY <1>1, <3>1
    <3> QED BY <3>4, <3>5, <3>6, <3>7
  <2>6. j \in S /\ Cardinality(L(j)) < n BY <2>3
  <2>7. Cardinality(K) <= n
    <3> HIDE DEF L, K
    <3>1. IsFiniteSet(L(j) \cup {j}) /\ Cardinality(L(j) \cup {j}) <= Cardinality(L(j)) + 1
          /\ Cardinality(L(j)) \in Nat
      <4>1. IsFiniteSet(L(j)) /\ Cardinality(L(j)) \in Nat BY <1>1, <2>6
      <4>2. /\ IsFiniteSet(L(j) \cup {j})
            /\ Cardinality(L(j) \cup {j}) = IF j \in L(j) THEN Cardinality(L(j))
                                            ELSE Cardinality(L(j)) + 1
        BY <4>1, FS_AddElement
      <4> QED BY <4>1, <4>2
    <3>2. Cardinality(L(j) \cup {j}) \in Nat BY <3>1, FS_CardinalityType
    <3>3. Cardinality(K) <= Cardinality(L(j) \cup {j}) BY <2>5, <3>1, FS_Subset
    <3> QED BY <1>1, <2>6, <3>1, <3>2, <3>3
  <2> QED BY <1>1, <2>7
<1> QED BY <1>2, <1>3

\* A key goes to the end of those that are left.
LEMMA TouchKeepsOrder ==
  ASSUME NEW S, NEW ks \in SUBSET S, NEW k \in CacheKeys, S \subseteq CacheKeys,
         LinearOn(later, S), later \in [CacheKeys -> SUBSET CacheKeys],
         Cache!TouchEntry(ks, k)
  PROVE  /\ LinearOn(later', ks \cup {k}) /\ later' \in [CacheKeys -> SUBSET CacheKeys]
         /\ \A j \in CacheKeys : j # k => later'[j] \subseteq later[j] \cup {k}
         /\ later'[k] = {}
<1>1. later' = [j \in CacheKeys |-> IF j \in ks \ {k} THEN ((later[j] \cap ks) \ {k}) \cup {k}
                                    ELSE {}]
  BY DEF Cache!TouchEntry
<1>2. /\ later' \in [CacheKeys -> SUBSET CacheKeys]
      /\ \A j \in CacheKeys : j # k => later'[j] \subseteq later[j] \cup {k}
      /\ later'[k] = {}
  BY <1>1
<1>3. \A j \in ks \ {k} : later'[j] = ((later[j] \cap ks) \ {k}) \cup {k}
  BY <1>1
<1>4. LinearOn(later', ks \cup {k})
  <2> SUFFICES ASSUME NEW j \in ks \cup {k}
               PROVE  /\ later'[j] \subseteq (ks \cup {k}) \ {j}
                      /\ \A i \in ks \cup {k} : i # j => i \in later'[j] \/ j \in later'[i]
                      /\ \A i \in later'[j] : later'[i] \subseteq later'[j]
    BY DEF LinearOn
  <2>1. CASE j = k
    <3>1. \A i \in ks \cup {k} : i # k => k \in later'[i] BY <1>3
    <3> QED BY <1>2, <2>1, <3>1
  <2>2. CASE j # k
    <3>1. later'[j] \subseteq (ks \cup {k}) \ {j}
      BY <1>3, <2>2 DEF LinearOn
    <3>2. \A i \in ks \cup {k} : i # j => i \in later'[j] \/ j \in later'[i]
      BY <1>3, <2>2 DEF LinearOn
    <3>3. \A i \in later'[j] : later'[i] \subseteq later'[j]
      BY <1>2, <1>3, <2>2 DEF LinearOn
    <3> QED BY <3>1, <3>2, <3>3
  <2> QED BY <2>1, <2>2
<1> QED BY <1>2, <1>4

LEMMA LeaveKeepsOrder ==
  ASSUME NEW S, NEW ks \in SUBSET S, S \subseteq CacheKeys,
         LinearOn(later, S), later \in [CacheKeys -> SUBSET CacheKeys],
         Cache!Leave(ks)
  PROVE  /\ LinearOn(later', ks) /\ later' \in [CacheKeys -> SUBSET CacheKeys]
         /\ \A j \in CacheKeys : later'[j] \subseteq later[j]
<1>1. later' = [j \in CacheKeys |-> IF j \in ks THEN later[j] \cap ks ELSE {}]
  BY DEF Cache!Leave
<1>2. \A j \in ks : later'[j] = later[j] \cap ks
  BY <1>1
<1>3. LinearOn(later', ks)
  BY <1>2 DEF LinearOn
<1> QED BY <1>1, <1>3

LEMMA EntriesAre ==
  /\ Cache!Entries \subseteq CacheKeys
  /\ \A k \in CacheKeys : k \in Cache!Entries <=> record[k] # None
  BY DEF Cache!Entries

LEMMA LeaveKeepsCache ==
  ASSUME CacheGuarded, NEW k \in CacheKeys, Cache!Leave(Cache!Entries \ {k}),
         put' \in [CacheKeys -> Cache!Record \cup {None}],
         \A j \in CacheKeys \ {k} : put'[j] = put[j],
         UNCHANGED <<clock, others>>
  PROVE  /\ CacheTyped' /\ EntriesPut' /\ EntriesOrdered' /\ UsedSince'
         /\ Cache!Entries' = Cache!Entries \ {k}
         /\ Cardinality(Cache!Entries') <= MaxEntries
<1> DEFINE E == Cache!Entries
<1>1. record' = [j \in CacheKeys |-> IF j \in E \ {k} THEN record[j] ELSE None]
  BY DEF Cache!Leave
<1>2. Cache!Entries' = E \ {k}
  BY <1>1 DEF Cache!Entries
<1>3. E \subseteq CacheKeys /\ IsFiniteSet(E) /\ CacheTyped
  BY EntriesAre DEF CacheGuarded, CacheTyped
<1>4. /\ LinearOn(later', E \ {k}) /\ later' \in [CacheKeys -> SUBSET CacheKeys]
      /\ \A j \in CacheKeys : later'[j] \subseteq later[j]
  <2>1. LinearOn(later, E) /\ later \in [CacheKeys -> SUBSET CacheKeys]
    BY DEF CacheGuarded, CacheTyped, EntriesOrdered
  <2>2. E \ {k} \in SUBSET E OBVIOUS
  <2> HIDE DEF E
  <2>3. Cache!Leave(E \ {k}) BY DEF E
  <2> QED BY <1>3, <2>1, <2>2, <2>3, LeaveKeepsOrder
<1>5. /\ IsFiniteSet(E \ {k}) /\ Cardinality(E \ {k}) <= Cardinality(E)
      /\ Cardinality(E) \in Nat /\ Cardinality(E \ {k}) \in Nat
  BY <1>3, FS_Subset, FS_CardinalityType
<1>6. Cardinality(E) <= MaxEntries
  BY CacheCounts DEF CacheGuarded, Cache!RecentKept
<1>7. record' \in [CacheKeys -> Cache!Record \cup {None}]
  BY <1>1, <1>3 DEF CacheTyped
<1>8. CacheTyped'
  BY <1>2, <1>3, <1>4, <1>5, <1>7 DEF CacheTyped
<1>9. EntriesPut'
  BY <1>1, <1>2, <1>3 DEF CacheGuarded, EntriesPut
<1>10. UsedSince'
  BY <1>2, <1>3, <1>4 DEF CacheGuarded, UsedSince
<1>11. EntriesOrdered'
  BY <1>2, <1>4 DEF EntriesOrdered
<1>12. Cardinality(E \ {k}) <= MaxEntries
  BY <1>5, <1>6, LimitsAssumption
<1> QED BY <1>2, <1>8, <1>9, <1>10, <1>11, <1>12

\* What was used goes to the end, and the others have one more behind them.
LEMMA UseKeepsOrder ==
  ASSUME CacheGuarded, NEW k \in CacheKeys, NEW ks \in SUBSET Cache!Entries,
         Cache!TouchEntry(ks, k), Cache!Used(k), Cache!Entries' = ks \cup {k}
  PROVE  /\ later' \in [CacheKeys -> SUBSET CacheKeys]
         /\ others' \in [CacheKeys -> SUBSET CacheKeys]
         /\ \A j \in CacheKeys : IsFiniteSet(others'[j])
         /\ IsFiniteSet(Cache!Entries')
         /\ EntriesOrdered' /\ UsedSince'
         /\ \A j \in CacheKeys : j # k => others'[j] = others[j] \cup {k}
<1> DEFINE E == Cache!Entries
<1>1. CacheTyped /\ E \subseteq CacheKeys /\ LinearOn(later, E)
  BY EntriesAre DEF CacheGuarded, EntriesOrdered
<1>2. /\ LinearOn(later', ks \cup {k}) /\ later' \in [CacheKeys -> SUBSET CacheKeys]
      /\ \A j \in CacheKeys : j # k => later'[j] \subseteq later[j] \cup {k}
      /\ later'[k] = {}
  <2>1. ks \in SUBSET E /\ later \in [CacheKeys -> SUBSET CacheKeys]
    BY <1>1 DEF CacheTyped
  <2> HIDE DEF E
  <2> QED BY <1>1, <2>1, TouchKeepsOrder
<1>3. others' = [j \in CacheKeys |-> IF j = k THEN {} ELSE others[j] \cup {k}]
  BY DEF Cache!Used
<1>4. \A j \in CacheKeys : IsFiniteSet(others'[j])
  BY <1>1, <1>3, FS_EmptySet, FS_AddElement DEF CacheTyped
<1>5. IsFiniteSet(Cache!Entries')
  <2>1. IsFiniteSet(ks) BY <1>1, FS_Subset DEF CacheTyped
  <2>2. IsFiniteSet(ks \cup {k}) BY <2>1, FS_AddElement
  <2> QED BY <2>2
<1>6. others' \in [CacheKeys -> SUBSET CacheKeys]
  BY <1>1, <1>3 DEF CacheTyped
<1>7. \A j \in ks \cup {k} : later'[j] \subseteq others'[j]
  BY <1>1, <1>2, <1>3 DEF CacheGuarded, UsedSince
<1>8. EntriesOrdered' /\ UsedSince'
  BY <1>2, <1>7 DEF EntriesOrdered, UsedSince
<1> QED BY <1>2, <1>3, <1>4, <1>5, <1>6, <1>8

\* When fewer were used since, fewer were used since before as well.
LEMMA FewerUsed ==
  ASSUME NEW S, IsFiniteSet(S), NEW x, Cardinality(S \cup {x}) < MaxEntries
  PROVE  Cardinality(S) < MaxEntries
<1>1. Cardinality(S) <= Cardinality(S \cup {x}) /\ Cardinality(S) \in Nat
      /\ Cardinality(S \cup {x}) \in Nat
  <2>1. IsFiniteSet(S \cup {x}) BY FS_AddElement
  <2>2. S \subseteq S \cup {x} OBVIOUS
  <2> QED BY <2>1, <2>2, FS_Subset, FS_CardinalityType
<1> QED BY <1>1, LimitsAssumption

LEMMA GetKeepsCache ==
  ASSUME CacheGuarded, NEW k \in CacheKeys, Cache!Get(k)
  PROVE  CacheGuarded'
<1>1. CacheTyped /\ UNCHANGED <<clock, put>>
  BY DEF CacheGuarded, Cache!Get
<1>2. \A j \in CacheKeys :
        put[j] # None /\ put[j].expires > clock /\ Cardinality(others[j]) < MaxEntries
          => j \in Cache!Entries
  BY CacheCounts DEF CacheGuarded, Cache!RecentKept
<1>3. CASE k \notin Cache!Entries /\ UNCHANGED <<record, later, others>>
           /\ answer' = [key |-> k, value |-> None]
  <2>1. Cache!Entries' = Cache!Entries BY <1>3 DEF Cache!Entries
  <2>2. Cardinality(Cache!Entries) <= MaxEntries
    BY CacheCounts DEF CacheGuarded, Cache!RecentKept
  <2>3. Cache!RecentKept'
    BY <1>1, <1>2, <1>3, <2>1, <2>2, CacheCounts DEF Cache!RecentKept
  <2> QED
    BY <1>1, <1>3, <2>1, <2>3
       DEF CacheGuarded, CacheTyped, EntriesPut, EntriesOrdered, UsedSince
<1>4. CASE k \in Cache!Entries /\ Cache!EntryExpired(k) /\ Cache!Leave(Cache!Entries \ {k})
           /\ UNCHANGED others /\ answer' = [key |-> k, value |-> None]
  <2>1. /\ CacheTyped' /\ EntriesPut' /\ EntriesOrdered' /\ UsedSince'
        /\ Cache!Entries' = Cache!Entries \ {k}
        /\ Cardinality(Cache!Entries') <= MaxEntries
    BY <1>1, <1>4, LeaveKeepsCache DEF CacheTyped
  <2>2. ~(put[k].expires > clock)
    <3>1. put[k] = record[k] /\ record[k] # None
      BY <1>4, EntriesAre DEF CacheGuarded, EntriesPut
    <3>2. record[k] \in Cache!Record BY <1>1, <3>1 DEF CacheTyped
    <3>3. record[k].expires \in Nat /\ clock \in Nat
      BY <1>1, <3>2, LimitsAssumption DEF Cache!Record, CacheTyped
    <3> QED BY <1>4, <3>1, <3>3 DEF Cache!EntryExpired
  <2>3. Cache!RecentKept'
    BY <1>1, <1>2, <1>4, <2>1, <2>2, CacheCounts DEF Cache!RecentKept
  <2> QED BY <2>1, <2>3 DEF CacheGuarded
<1>5. CASE k \in Cache!Entries /\ ~Cache!EntryExpired(k) /\ UNCHANGED record
           /\ Cache!TouchEntry(Cache!Entries, k) /\ Cache!Used(k)
           /\ answer' = [key |-> k, value |-> record[k].value]
  <2>1. Cache!Entries' = Cache!Entries BY <1>5 DEF Cache!Entries
  <2>2. Cache!Entries' = Cache!Entries \cup {k} BY <1>5, <2>1
  <2>3. /\ later' \in [CacheKeys -> SUBSET CacheKeys]
        /\ others' \in [CacheKeys -> SUBSET CacheKeys]
        /\ \A j \in CacheKeys : IsFiniteSet(others'[j])
        /\ IsFiniteSet(Cache!Entries')
        /\ EntriesOrdered' /\ UsedSince'
        /\ \A j \in CacheKeys : j # k => others'[j] = others[j] \cup {k}
    BY <1>5, <2>2, UseKeepsOrder
  <2>4. CacheTyped'
    BY <1>1, <1>5, <2>3 DEF CacheTyped
  <2>5. EntriesPut'
    BY <1>1, <1>5, <2>1 DEF CacheGuarded, EntriesPut
  <2>6. Cardinality(Cache!Entries) <= MaxEntries
    BY CacheCounts DEF CacheGuarded, Cache!RecentKept
  <2>7. \A j \in CacheKeys :
          put[j] # None /\ put[j].expires > clock /\ Cardinality(others'[j]) < MaxEntries
            => j \in Cache!Entries
    <3> SUFFICES ASSUME NEW j \in CacheKeys, j # k, put[j] # None, put[j].expires > clock,
                        Cardinality(others'[j]) < MaxEntries
                 PROVE  j \in Cache!Entries
      BY <1>5
    <3>1. Cardinality(others[j] \cup {k}) < MaxEntries BY <2>3
    <3>2. Cardinality(others[j]) < MaxEntries BY <1>1, <3>1, FewerUsed DEF CacheTyped
    <3> QED BY <1>2, <3>2
  <2>8. put[k] # None /\ put[k].value = record[k].value /\ put[k].expires > clock
    <3>1. put[k] = record[k] /\ record[k] # None
      BY <1>5, EntriesAre DEF CacheGuarded, EntriesPut
    <3>2. record[k] \in Cache!Record BY <1>1, <3>1 DEF CacheTyped
    <3>3. record[k].expires \in Nat /\ clock \in Nat
      BY <1>1, <3>2, LimitsAssumption DEF Cache!Record, CacheTyped
    <3> QED BY <1>5, <3>1, <3>3 DEF Cache!EntryExpired
  <2>9. Cache!RecentKept'
    BY <1>1, <1>5, <2>1, <2>6, <2>7, <2>8, CacheCounts DEF Cache!RecentKept
  <2> QED BY <2>3, <2>4, <2>5, <2>9 DEF CacheGuarded
<1> QED BY <1>3, <1>4, <1>5 DEF Cache!Get

\* What stays for a new entry leaves a place for it.
LEMMA EvictLeavesPlace ==
  ASSUME CacheGuarded, NEW k \in CacheKeys
  PROVE  /\ Cache!Evict(k) \subseteq Cache!Entries
         /\ IsFiniteSet(Cache!Evict(k) \cup {k})
         /\ Cardinality(Cache!Evict(k) \cup {k}) <= MaxEntries
<1> DEFINE E == Cache!Entries
           P == Cache!PurgeExpired
<1>1. CacheTyped /\ IsFiniteSet(E) /\ Cardinality(E) \in Nat /\ Cardinality(E) <= MaxEntries
  BY CacheCounts, FS_CardinalityType DEF CacheGuarded, CacheTyped, Cache!RecentKept
<1>2. CASE k \in E
  <2>1. Cache!Evict(k) = E BY <1>2 DEF Cache!Evict
  <2>2. E \cup {k} = E BY <1>2
  <2> HIDE DEF E
  <2> QED BY <1>1, <2>1, <2>2 DEF E
<1>3. CASE k \notin E /\ Cardinality(E) < MaxEntries
  <2>1. Cache!Evict(k) = E BY <1>3, CacheCounts DEF Cache!Evict
  <2> HIDE DEF E
  <2>2. IsFiniteSet(E \cup {k}) /\ Cardinality(E \cup {k}) = Cardinality(E) + 1
    BY <1>1, <1>3, FS_AddElement
  <2> QED BY <1>1, <1>3, <2>1, <2>2, LimitsAssumption DEF E
<1>4. CASE k \notin E /\ ~(Cardinality(E) < MaxEntries)
  <2> DEFINE n == MaxEntries - 1
             K == {j \in P : Cardinality(later[j] \cap P) < n}
  <2>1. Cache!Evict(k) = K BY <1>4, CacheCounts DEF Cache!Evict
  <2>2. P \subseteq E BY DEF Cache!PurgeExpired
  <2>3. IsFiniteSet(P) BY <1>1, <2>2, FS_Subset
  <2>4. n \in Nat BY LimitsAssumption
  <2>5. LinearOn(later, E) BY DEF CacheGuarded, EntriesOrdered
  <2>6. /\ \A i, j \in P : j # i => j \in later[i] \/ i \in later[j]
        /\ \A i \in P : i \notin later[i]
        /\ \A i \in P : \A j \in later[i] : later[j] \subseteq later[i]
    <3> HIDE DEF P, E
    <3> QED BY <2>2, <2>5 DEF LinearOn
  <2>7. IsFiniteSet(K) /\ Cardinality(K) <= n
    <3> HIDE DEF P, n
    <3> QED BY <2>3, <2>4, <2>6, LastFew, SMTT(40)
  <2>8. K \subseteq E BY <2>2
  <2>9. IsFiniteSet(K \cup {k}) /\ Cardinality(K \cup {k}) <= MaxEntries
    <3> HIDE DEF K
    <3>1. IsFiniteSet(K \cup {k}) /\ Cardinality(K \cup {k}) <= Cardinality(K) + 1
          /\ Cardinality(K) \in Nat /\ Cardinality(K \cup {k}) \in Nat
      BY <2>7, FS_AddElement, FS_CardinalityType
    <3> QED BY <2>4, <2>7, <3>1, LimitsAssumption
  <2> QED BY <2>1, <2>8, <2>9
<1> QED BY <1>2, <1>3, <1>4

\* What is evicted before it expires had as many used since as the map holds.
LEMMA EvictedUsedSince ==
  ASSUME CacheGuarded, NEW k \in CacheKeys, NEW j \in Cache!Entries, j # k,
         j \notin Cache!Evict(k), put[j].expires > clock
  PROVE  ~(Cardinality(others[j] \cup {k}) < MaxEntries)
<1> DEFINE E == Cache!Entries
           P == Cache!PurgeExpired
<1>1. CacheTyped /\ k \notin E
  BY CacheCounts DEF CacheGuarded, Cache!Evict
<1>2. j \in P
  <2>1. put[j] = record[j] /\ record[j] # None /\ j \in CacheKeys
    BY EntriesAre DEF CacheGuarded, EntriesPut
  <2>2. record[j] \in Cache!Record BY <1>1, <2>1 DEF CacheTyped
  <2>3. record[j].expires \in Nat /\ clock \in Nat
    BY <1>1, <2>2, LimitsAssumption DEF Cache!Record, CacheTyped
  <2> QED BY <2>1, <2>3 DEF Cache!PurgeExpired, Cache!EntryExpired
<1>3. ~(Cardinality(later[j] \cap P) < MaxEntries - 1)
  BY <1>2, CacheCounts DEF Cache!Evict
<1> DEFINE L == later[j] \cap P
<1>4. L \subseteq others[j] /\ k \notin L
  <2>1. P \subseteq E BY DEF Cache!PurgeExpired
  <2> QED BY <1>1, <2>1 DEF CacheGuarded, UsedSince
<1>5. IsFiniteSet(others[j]) BY <1>1, EntriesAre DEF CacheTyped
<1> HIDE DEF L
<1>6. IsFiniteSet(L) /\ IsFiniteSet(others[j] \cup {k}) BY <1>4, <1>5, FS_Subset, FS_AddElement
<1>7. Cardinality(L \cup {k}) = Cardinality(L) + 1 BY <1>4, <1>6, FS_AddElement
<1>8. L \cup {k} \subseteq others[j] \cup {k} BY <1>4
<1>9. Cardinality(L \cup {k}) <= Cardinality(others[j] \cup {k})
  BY <1>6, <1>8, FS_Subset
<1>10. Cardinality(L) \in Nat /\ Cardinality(others[j] \cup {k}) \in Nat
  BY <1>6, FS_CardinalityType
<1>11. ~(Cardinality(L) < MaxEntries - 1) BY <1>3 DEF L
<1> QED BY <1>7, <1>9, <1>10, <1>11, LimitsAssumption

LEMMA SetKeepsCache ==
  ASSUME CacheGuarded, NEW k \in CacheKeys, Cache!Set(k)
  PROVE  CacheGuarded'
<1> DEFINE ks == Cache!Evict(k)
<1>1. PICK r \in Cache!Record :
        /\ record' = [j \in CacheKeys |-> IF j = k THEN r ELSE IF j \in ks THEN record[j] ELSE None]
        /\ put' = [put EXCEPT ![k] = r]
  <2>1. PICK v \in CacheValues, life \in Lifetimes :
          LET r == [value |-> v, expires |-> clock + life] IN
          /\ record' = [j \in CacheKeys |-> IF j = k THEN r
                                            ELSE IF j \in Cache!Evict(k) THEN record[j] ELSE None]
          /\ put' = [put EXCEPT ![k] = r]
    BY DEF Cache!Set
  <2>2. clock \in Nat /\ life \in Nat
    BY LimitsAssumption DEF CacheGuarded, CacheTyped
  <2>3. [value |-> v, expires |-> clock + life] \in Cache!Record
    BY <2>2 DEF Cache!Record
  <2> QED BY <2>1, <2>3
<1>2. /\ Cache!TouchEntry(ks, k) /\ Cache!Used(k) /\ answer' = None /\ UNCHANGED clock
  BY DEF Cache!Set
<1>3. /\ ks \subseteq Cache!Entries /\ IsFiniteSet(ks \cup {k})
      /\ Cardinality(ks \cup {k}) <= MaxEntries
  BY EvictLeavesPlace
<1>4. r # None BY OutcomeAssumption
<1>5. CacheTyped BY DEF CacheGuarded
<1>6. Cache!Entries' = ks \cup {k}
  BY <1>1, <1>3, <1>4 DEF Cache!Entries
<1>7. /\ later' \in [CacheKeys -> SUBSET CacheKeys]
      /\ others' \in [CacheKeys -> SUBSET CacheKeys]
      /\ \A j \in CacheKeys : IsFiniteSet(others'[j])
      /\ IsFiniteSet(Cache!Entries')
      /\ EntriesOrdered' /\ UsedSince'
      /\ \A j \in CacheKeys : j # k => others'[j] = others[j] \cup {k}
  <2> HIDE DEF ks
  <2>1. ks \in SUBSET Cache!Entries BY <1>3
  <2> QED BY <1>2, <1>6, <2>1, UseKeepsOrder
<1>8. CacheTyped'
  <2>1. record' \in [CacheKeys -> Cache!Record \cup {None}]
    BY <1>1, <1>5 DEF CacheTyped
  <2>2. put' \in [CacheKeys -> Cache!Record \cup {None}]
    BY <1>1, <1>5 DEF CacheTyped
  <2> QED BY <1>2, <1>5, <1>7, <2>1, <2>2 DEF CacheTyped
<1>9. EntriesPut'
  <2>1. \A j \in ks \cup {k} : put'[j] = record'[j]
    <3> HIDE DEF ks
    <3>1. \A j \in ks : put[j] = record[j] /\ j \in CacheKeys
      BY <1>3, EntriesAre DEF CacheGuarded, EntriesPut
    <3> QED BY <1>1, <1>5, <3>1 DEF CacheTyped
  <2> QED BY <1>6, <2>1 DEF EntriesPut
<1>10. \A j \in CacheKeys :
         put'[j] # None /\ put'[j].expires > clock /\ Cardinality(others'[j]) < MaxEntries
           => j \in Cache!Entries'
  <2> SUFFICES ASSUME NEW j \in CacheKeys, j # k, j \notin ks,
                      put[j] # None, put[j].expires > clock,
                      Cardinality(others[j] \cup {k}) < MaxEntries
               PROVE  FALSE
    BY <1>1, <1>5, <1>6, <1>7 DEF CacheTyped
  <2>1. Cardinality(others[j]) < MaxEntries BY <1>5, FewerUsed DEF CacheTyped
  <2>2. j \in Cache!Entries
    BY <2>1, CacheCounts DEF CacheGuarded, Cache!RecentKept
  <2> QED BY <2>2, EvictedUsedSince
<1>11. Cache!RecentKept'
  BY <1>2, <1>3, <1>6, <1>10, CacheCounts DEF Cache!RecentKept
<1> QED BY <1>7, <1>8, <1>9, <1>11 DEF CacheGuarded

LEMMA DeleteKeepsCache ==
  ASSUME CacheGuarded, NEW k \in CacheKeys, Cache!Delete(k)
  PROVE  CacheGuarded'
<1>1. /\ Cache!Leave(Cache!Entries \ {k}) /\ put' = [put EXCEPT ![k] = None]
      /\ answer' = None /\ UNCHANGED <<clock, others>> /\ CacheTyped
  BY DEF CacheGuarded, Cache!Delete
<1>2. /\ put' \in [CacheKeys -> Cache!Record \cup {None}] /\ put'[k] = None
      /\ \A j \in CacheKeys \ {k} : put'[j] = put[j]
  BY <1>1 DEF CacheTyped
<1>3. /\ CacheTyped' /\ EntriesPut' /\ EntriesOrdered' /\ UsedSince'
      /\ Cache!Entries' = Cache!Entries \ {k}
      /\ Cardinality(Cache!Entries') <= MaxEntries
  BY <1>1, <1>2, LeaveKeepsCache
<1>4. \A j \in CacheKeys :
        put[j] # None /\ put[j].expires > clock /\ Cardinality(others[j]) < MaxEntries
          => j \in Cache!Entries
  BY CacheCounts DEF CacheGuarded, Cache!RecentKept
<1>5. Cache!RecentKept'
  BY <1>1, <1>2, <1>3, <1>4, CacheCounts DEF Cache!RecentKept
<1> QED BY <1>3, <1>5 DEF CacheGuarded

LEMMA TickKeepsCache ==
  ASSUME CacheGuarded, Cache!Tick
  PROVE  CacheGuarded'
<1>1. /\ clock' = clock + 1 /\ clock < MaxClock /\ answer' = None
      /\ UNCHANGED <<record, later, put, others>> /\ CacheTyped
  BY DEF CacheGuarded, Cache!Tick
<1>2. Cache!Entries' = Cache!Entries BY <1>1 DEF Cache!Entries
<1>3. clock \in Nat BY <1>1, LimitsAssumption DEF CacheTyped
<1>4. CacheTyped' BY <1>1, <1>2, <1>3, LimitsAssumption DEF CacheTyped
<1>5. \A k \in CacheKeys : put[k] # None /\ put[k].expires > clock' => put[k].expires > clock
  <2> SUFFICES ASSUME NEW k \in CacheKeys, put[k] # None, put[k].expires > clock'
               PROVE  put[k].expires > clock
    OBVIOUS
  <2>1. put[k].expires \in Nat BY <1>1 DEF CacheTyped, Cache!Record
  <2> QED BY <1>1, <1>3, <2>1
<1>6. /\ Cardinality(Cache!Entries) <= MaxEntries
      /\ \A j \in CacheKeys :
           put[j] # None /\ put[j].expires > clock /\ Cardinality(others[j]) < MaxEntries
             => j \in Cache!Entries
  BY CacheCounts DEF CacheGuarded, Cache!RecentKept
<1>7. Cache!RecentKept'
  BY <1>1, <1>2, <1>5, <1>6, CacheCounts DEF Cache!RecentKept
<1> QED
  BY <1>1, <1>2, <1>4, <1>7 DEF CacheGuarded, EntriesPut, EntriesOrdered, UsedSince

LEMMA InitCache == Cache!Init => CacheGuarded
<1> SUFFICES ASSUME Cache!Init PROVE CacheGuarded
  OBVIOUS
<1>1. /\ clock = 0 /\ answer = None /\ record = [k \in CacheKeys |-> None] /\ put = record
      /\ later = [k \in CacheKeys |-> {}] /\ others = later
  BY DEF Cache!Init
<1>2. Cache!Entries = {} BY <1>1 DEF Cache!Entries
<1>3. CacheTyped
  BY <1>1, <1>2, FS_EmptySet, LimitsAssumption DEF CacheTyped
<1>4. Cache!RecentKept
  <2>1. Cardinality(Cache!Entries) <= MaxEntries
    BY <1>2, FS_EmptySet, LimitsAssumption
  <2> QED BY <1>1, <2>1, CacheCounts DEF Cache!RecentKept
<1> QED
  BY <1>2, <1>3, <1>4 DEF CacheGuarded, EntriesPut, EntriesOrdered, LinearOn, UsedSince

LEMMA CacheStep == CacheGuarded /\ [Cache!Next]_ofCache => CacheGuarded'
<1> SUFFICES ASSUME CacheGuarded, [Cache!Next]_ofCache PROVE CacheGuarded'
  OBVIOUS
<1>1. CASE UNCHANGED ofCache
  <2>1. Cache!Entries' = Cache!Entries BY <1>1 DEF ofCache, Cache!Entries
  <2> QED
    BY <1>1, <2>1
       DEF ofCache, CacheGuarded, CacheTyped, EntriesPut, EntriesOrdered, UsedSince,
           Cache!RecentKept
<1>2. CASE Cache!Tick BY <1>2, TickKeepsCache
<1>3. CASE \E k \in CacheKeys : Cache!Get(k) \/ Cache!Set(k) \/ Cache!Delete(k)
  BY <1>3, GetKeepsCache, SetKeepsCache, DeleteKeepsCache
<1> QED BY <1>1, <1>2, <1>3 DEF Cache!Next

(***************************************************************************)
(* No window has more admitted requests of a user name or an address than  *)
(* the limit, whatever number of requests interleave between their two     *)
(* counts, and the cache of a process keeps its bound and what was used    *)
(* last.  (SlidingWindowRateLimiter, registerAuthRateLimit, CacheMapStore) *)
(***************************************************************************)
THEOREM SpecLimitHolds == Spec => []LimitHolds
<1>1. Init => LimitGuarded /\ CacheGuarded
  BY InitLimit, InitCache DEF Init, LimitRests
<1>2. LimitGuarded /\ CacheGuarded /\ [Next]_vars => (LimitGuarded /\ CacheGuarded)'
  BY LimitStep, CacheStep DEF Next, vars
<1>3. LimitGuarded /\ CacheGuarded => LimitHolds
  BY GuardedIsLimited DEF LimitHolds, CacheGuarded
<1> QED BY <1>1, <1>2, <1>3, PTL DEF Spec

(***************************************************************************)
(* The console.  The server has sent its answer to the password, of one or *)
(* two packets, the packets of the output and perhaps the sentinel; the    *)
(* client has the bodies of those it has read since it was let in, which   *)
(* may have been before the last packet of the password.                   *)
(***************************************************************************)
RconPacket == [kind : {"auth", "value", "sentinel"}, body : Nat]

RconTyped ==
  /\ total \in Nat /\ given \in 0..total
  /\ sent \in Seq(RconPacket) /\ output \in Seq(Nat)
  /\ arrived \in 0..2 * Len(sent) /\ taken \in Nat /\ 2 * taken <= arrived

\* A packet behind the one that lets the client in is an empty value.
Entering ==
  at \in {"connect", "auth"} =>
    /\ given = 0 /\ output = <<>> /\ Len(sent) <= 2
    /\ Len(sent) = 2 =>
         sent[2] = Rcon!Value(0) \/ (sent[1].kind = "value" /\ sent[2].kind = "auth")

ReadFrom(lead, from) ==
  /\ from <= lead /\ lead <= from + 1 /\ (from < lead => sent[lead] = Rcon!Value(0))
  /\ Len(sent) = lead + given \/ Len(sent) = lead + given + 1
  /\ \A i \in 1..given : sent[lead + i] = Rcon!Value(i)
  /\ Len(sent) = lead + given + 1 => sent[Len(sent)] = Rcon!Sentinel /\ given = total
  /\ taken = from + Len(output) /\ taken <= lead + given
  /\ \A i \in 1..Len(output) : output[i] = sent[from + i].body

OutputRead ==
  at \in {"write", "pause", "read"} => \E lead \in 1..2, from \in 0..2 : ReadFrom(lead, from)

RconGuarded ==
  /\ RconTyped /\ Entering /\ OutputRead /\ Rcon!OutputWhole
  /\ at # "done" => result = None

LEMMA InitRcon == Rcon!Init \/ RconRests => RconGuarded
<1> SUFFICES ASSUME Rcon!Init \/ RconRests PROVE RconGuarded
  OBVIOUS
<1>1. /\ given = 0 /\ sent = <<>> /\ output = <<>> /\ arrived = 0 /\ taken = 0
      /\ total \in Nat /\ at \in {"connect", "done"} /\ result # "ok"
      /\ at = "connect" => result = None
  BY PiecesAssumption DEF Rcon!Init, RconRests
<1> QED BY <1>1 DEF RconGuarded, RconTyped, Entering, OutputRead, Rcon!OutputWhole

\* The server.
LEMMA ServerKeepsRcon ==
  ASSUME RconGuarded, Rcon!ServerAuth \/ Rcon!ServerAnswer \/ Rcon!ServerSentinel
  PROVE  RconGuarded'
<1> USE DEF RconGuarded
<1>0. /\ total' = total /\ arrived' = arrived /\ taken' = taken /\ at' = at /\ output' = output
      /\ result' = result /\ at # "done"
  BY DEF Rcon!ServerAuth, Rcon!ServerAnswer, Rcon!ServerSentinel
<1>1. Rcon!OutputWhole' BY <1>0, PiecesAssumption DEF Rcon!OutputWhole
<1>2. CASE Rcon!ServerAuth
  <2>1. PICK good \in BOOLEAN :
          sent' \in {<<Rcon!Auth(good)>>, <<Rcon!Value(0), Rcon!Auth(good)>>,
                     <<Rcon!Auth(good), Rcon!Value(0)>>}
    BY <1>2 DEF Rcon!ServerAuth
  <2> DEFINE a == Rcon!Auth(good)
             v == Rcon!Value(0)
  <2>0. a \in RconPacket /\ v \in RconPacket /\ a.kind = "auth" /\ v.kind = "value"
    BY DEF Rcon!Auth, Rcon!Value, RconPacket
  <2>c. sent' = <<a>> \/ sent' = <<v, a>> \/ sent' = <<a, v>>
    BY <2>1
  <2>e. Rcon!Value(0) = v OBVIOUS
  <2> HIDE DEF a, v
  <2>d. sent' \in Seq(RconPacket) /\ 1 <= Len(sent') /\ Len(sent') <= 2
    <3>1. CASE sent' = <<a>> BY <2>0, <3>1
    <3>2. CASE sent' = <<v, a>> BY <2>0, <3>2
    <3>3. CASE sent' = <<a, v>> BY <2>0, <3>3
    <3> QED BY <2>c, <3>1, <3>2, <3>3
  <2>f. Len(sent') = 2 => sent'[2] = v \/ (sent'[1].kind = "value" /\ sent'[2].kind = "auth")
    BY <2>0, <2>c
  <2>2. sent' \in Seq(RconPacket) /\ sent = <<>> /\ given' = given /\ at = "auth"
    BY <1>2, <2>d DEF Rcon!ServerAuth
  <2>3. RconTyped' BY <1>0, <2>2, <2>d DEF RconTyped
  <2>4. Entering'
    <3>a. given = 0 /\ output = <<>> BY <2>2 DEF Entering
    <3>b. Len(sent') <= 2 BY <2>d
    <3>1. given' = 0 /\ output' = <<>> /\ Len(sent') <= 2 BY <1>0, <2>2, <3>a, <3>b
    <3>2. Len(sent') = 2 =>
            sent'[2] = Rcon!Value(0) \/ (sent'[1].kind = "value" /\ sent'[2].kind = "auth")
      BY <2>e, <2>f
    <3> QED BY <3>1, <3>2 DEF Entering, Rcon!Value
  <2> QED BY <1>0, <1>1, <2>2, <2>3, <2>4 DEF OutputRead
<1>3. CASE Rcon!ServerAnswer \/ Rcon!ServerSentinel
  <2>1. at \in {"pause", "read"} BY <1>3 DEF Rcon!ServerAnswer, Rcon!ServerSentinel
  <2>2. PICK lead \in 1..2, from \in 0..2 : ReadFrom(lead, from)
    BY <2>1 DEF OutputRead
  <2>3. ReadFrom(lead, from) BY <2>2
  <2>4. PICK p \in RconPacket : /\ sent' = Append(sent, p)
                                /\ \/ p = Rcon!Value(given + 1) /\ given' = given + 1 /\ given < total
                                   \/ p = Rcon!Sentinel /\ given' = given /\ given = total
                                      /\ sent[Len(sent)] # Rcon!Sentinel
    BY <1>3 DEF Rcon!ServerAnswer, Rcon!ServerSentinel, RconPacket, Rcon!Value, Rcon!Sentinel,
                RconTyped
  <2>5. /\ Len(sent) = lead + given /\ Len(sent') = Len(sent) + 1 /\ sent'[Len(sent')] = p
        /\ \A i \in 1..Len(sent) : sent'[i] = sent[i]
        /\ sent' \in Seq(RconPacket)
    BY <2>3, <2>4 DEF RconTyped, ReadFrom
  <2>6. RconTyped' BY <1>0, <2>4, <2>5 DEF RconTyped
  <2>7. Entering' BY <1>0, <2>1 DEF Entering
  <2>8. from <= lead /\ lead <= from + 1 /\ (from < lead => sent'[lead] = Rcon!Value(0))
    BY <2>3, <2>5 DEF RconTyped, ReadFrom
  <2>12. /\ Len(sent') = lead + given' \/ Len(sent') = lead + given' + 1
         /\ Len(sent') = lead + given' + 1 => sent'[Len(sent')] = Rcon!Sentinel /\ given' = total'
         /\ taken' = from + Len(output') /\ taken' <= lead + given'
    BY <1>0, <2>3 , <2>4, <2>5, SMTT(40) DEF RconTyped, ReadFrom
  <2>9. ASSUME NEW i \in 1..given' PROVE sent'[lead + i] = Rcon!Value(i)
    <3>1. CASE i <= given
      <4>1. lead + i \in 1..Len(sent) BY <2>5, <3>1 DEF RconTyped, ReadFrom
      <4> QED BY <2>3, <2>5, <3>1, <4>1 DEF RconTyped, ReadFrom
    <3>2. CASE i > given
      <4>1. i = given + 1 /\ given' = given + 1 BY <2>4, <3>2 DEF RconTyped, ReadFrom
      <4>2. p = Rcon!Value(i) /\ Len(sent') = lead + i BY <2>3, <2>4, <2>5, <4>1 DEF RconTyped, ReadFrom
      <4> QED BY <2>5, <4>2
    <3> QED BY <3>1, <3>2 DEF RconTyped, ReadFrom
  <2>10. ASSUME NEW i \in 1..Len(output') PROVE output'[i] = sent'[from + i].body
    <3>1. i \in 1..Len(output) /\ output'[i] = output[i] BY <1>0
    <3>2. from + i \in 1..Len(sent) BY <2>3, <2>5, <3>1 DEF RconTyped, ReadFrom
    <3> QED BY <2>3, <2>5, <3>1, <3>2 DEF ReadFrom
  <2>14. /\ \A i \in 1..given' : sent'[lead + i] = Rcon!Value(i)
         /\ \A i \in 1..Len(output') : output'[i] = sent'[from + i].body
    BY <2>9, <2>10
  <2>11. ReadFrom(lead, from)'
    <3>1. ReadFrom(lead, from)' <=>
            /\ from <= lead /\ lead <= from + 1 /\ (from < lead => sent'[lead] = Rcon!Value(0))
            /\ Len(sent') = lead + given' \/ Len(sent') = lead + given' + 1
            /\ \A i \in 1..given' : sent'[lead + i] = Rcon!Value(i)
            /\ Len(sent') = lead + given' + 1 =>
                 sent'[Len(sent')] = Rcon!Sentinel /\ given' = total'
            /\ taken' = from + Len(output') /\ taken' <= lead + given'
            /\ \A i \in 1..Len(output') : output'[i] = sent'[from + i].body
      BY DEF ReadFrom, Rcon!Value, Rcon!Sentinel
    <3> QED BY <2>8, <2>12, <2>14, <3>1
  <2>13. OutputRead' BY <2>11 DEF OutputRead
  <2> QED BY <1>0, <1>1, <2>6, <2>7, <2>13
<1> QED BY <1>2, <1>3

\* What leaves packets and output alone.
LEMMA WireKeepsRcon ==
  ASSUME RconGuarded,
         Rcon!Arrive \/ Rcon!Lose \/ Rcon!Connect \/ Rcon!WriteCommand \/ Rcon!WriteSentinel
  PROVE  RconGuarded'
<1> USE DEF RconGuarded
<1>1. /\ total' = total /\ given' = given /\ sent' = sent /\ taken' = taken /\ output' = output
      /\ at # "done" /\ (at' = "done" => result' = "error") /\ (at' # "done" => result' = result)
      /\ at' \in {"connect", "auth"} => at \in {"connect", "auth"}
      /\ at' \in {"write", "pause", "read"} => at \in {"write", "pause", "read"}
  BY DEF Rcon!Arrive, Rcon!Lose, Rcon!Connect, Rcon!WriteCommand, Rcon!WriteSentinel, Rcon!Finish
<1>2. arrived' \in 0..2 * Len(sent) /\ arrived <= arrived'
  BY DEF Rcon!Arrive, Rcon!Lose, Rcon!Connect, Rcon!WriteCommand, Rcon!WriteSentinel, RconTyped
<1>3. RconTyped' BY <1>1, <1>2 DEF RconTyped
<1>4. Entering' BY <1>1 DEF Entering
<1>5. OutputRead' BY <1>1 DEF OutputRead, ReadFrom, Rcon!Value, Rcon!Sentinel
<1>6. Rcon!OutputWhole'
  BY <1>1, PiecesAssumption DEF Rcon!OutputWhole
<1> QED BY <1>1, <1>3, <1>4, <1>5, <1>6

\* A session that has only begun.
LEMMA ReadAuthKeepsRcon ==
  ASSUME RconGuarded, Rcon!ReadAuth
  PROVE  RconGuarded'
<1> USE DEF RconGuarded
<1>1. /\ total' = total /\ given' = given /\ sent' = sent /\ output' = output
      /\ arrived' = arrived /\ task' = task /\ failure' = failure /\ at = "auth"
      /\ given = 0 /\ output = <<>> /\ result = None
  BY DEF Rcon!ReadAuth, Entering
<1>2. CASE ~Rcon!Buffered
  <2>1. taken' = taken /\ at' = "done" /\ result' = "error"
    BY <1>2 DEF Rcon!ReadAuth, Rcon!Finish
  <2> QED BY <1>1, <2>1 DEF RconTyped, Entering, OutputRead, Rcon!OutputWhole
<1>3. CASE Rcon!Buffered
  <2> DEFINE p == sent[taken + 1]
  <2>1. taken + 1 \in 1..Len(sent) /\ 2 * (taken + 1) <= arrived /\ 1 <= Len(sent) /\ Len(sent) <= 2
    <3>1. Len(sent) \in Nat /\ arrived \in 0..2 * Len(sent) /\ taken \in Nat BY DEF RconTyped
    <3>2. Len(sent) <= 2 BY <1>1 DEF Entering
    <3>3. 2 * (taken + 1) <= arrived BY <1>3 DEF Rcon!Buffered
    <3>4. 1 <= Len(sent) /\ Len(sent) <= 2 BY <3>1, <3>2, <3>3
    <3>5. taken + 1 \in 1..Len(sent) BY <3>1, <3>3
    <3> QED BY <3>3, <3>4, <3>5
  <2>2. \/ taken' = taken + 1 /\ at' = "auth" /\ result' = result
        \/ taken' = taken + 1 /\ at' = "done" /\ result' = "error"
        \/ /\ p.kind = "auth" /\ taken' = Rcon!Drained(taken + 1)
           /\ \/ at' = "done" /\ task = "check"
              \/ at' = "write" /\ result' = result
    BY <1>1, <1>3 DEF Rcon!ReadAuth, Rcon!Finish, Rcon!Auth
  <2>3. Rcon!OutputWhole' BY <1>1, <2>2, PiecesAssumption DEF Rcon!OutputWhole
  <2>4. CASE taken' = taken + 1 /\ at' \in {"auth", "done"}
    <3>1. RconTyped' BY <1>1, <2>1, <2>4 DEF RconTyped
    <3> QED BY <1>1, <2>2, <2>3, <2>4, <3>1 DEF Entering, OutputRead
  <2>5. CASE /\ p.kind = "auth" /\ taken' = Rcon!Drained(taken + 1)
             /\ at' \in {"write", "done"} /\ (at' = "write" => result' = result)
    <3> DEFINE complete == arrived \div 2
    <3>0. complete \in taken + 1..Len(sent) /\ 2 * complete <= arrived
      BY <2>1 DEF RconTyped
    <3>1. Len(sent) = 2 /\ taken = 0 => sent[2] = Rcon!Value(0) BY <1>1, <2>5 DEF Entering
    <3>2. Rcon!Drained(taken + 1) = complete
      <4>1. ASSUME NEW i \in (taken + 1) + 1..complete PROVE sent[i].kind = "value"
        <5>0. taken \in Nat /\ complete \in Nat /\ Len(sent) \in Nat BY <3>0 DEF RconTyped
        <5> HIDE DEF complete
        <5> DEFINE n == Len(sent)
        <5>2. n \in Nat /\ n <= 2 /\ complete <= n /\ taken + 1 <= complete BY <2>1, <3>0, <5>0
        <5> HIDE DEF n
        <5>3. i = 2 /\ n = 2 /\ taken = 0 BY <5>0, <5>2
        <5>1. i = 2 /\ Len(sent) = 2 /\ taken = 0 BY <5>3 DEF n
        <5> QED BY <3>1, <5>1 DEF Rcon!Value
      <4>2. {i \in (taken + 1) + 1..complete : sent[i].kind # "value"} = {} BY <4>1
      <4> QED BY <4>2 DEF Rcon!Drained
    <3>3. /\ taken' \in taken + 1..Len(sent) /\ 2 * taken' <= arrived
      BY <2>5, <3>0, <3>2
    <3>t. taken \in Nat /\ arrived \in Nat /\ Len(sent) \in Nat BY DEF RconTyped
    <3>v. taken' \in Nat BY <3>3, <3>t
    <3>4. RconTyped' BY <1>1, <3>3, <3>v DEF RconTyped
    <3>6. /\ 1 <= Len(sent) /\ Len(sent) <= 2 /\ taken' \in 0..2 /\ taken' <= Len(sent) /\ Len(sent) <= taken' + 1
          /\ (taken' < Len(sent) => sent[Len(sent)] = Rcon!Value(0))
      <4>1. taken' \in 1..Len(sent) BY <3>3, <3>t, <3>v
      <4> DEFINE n == Len(sent)
      <4>3. n \in Nat /\ n <= 2 /\ taken + 1 <= taken' /\ taken' <= n BY <2>1, <3>3, <3>t, <3>v
      <4> HIDE DEF n
      <4>4. taken' < n => n = 2 /\ taken = 0 BY <4>3, <3>t, <3>v
      <4>2. taken' < Len(sent) => Len(sent) = 2 /\ taken = 0 BY <4>4 DEF n
      <4> QED BY <2>1, <3>1, <4>1, <4>2
    <3>7. Len(output') = 0 /\ 1..given' = {} /\ given' = 0 BY <1>1
    <3>8. \E l \in 1..2, f \in 0..2 : l = Len(sent) /\ f = taken'
      <4> DEFINE n == Len(sent)
      <4>2. n \in Nat /\ 1 <= n /\ n <= 2 BY <3>6, <3>t
      <4> HIDE DEF n
      <4>3. n = 1 \/ n = 2 BY <4>2
      <4>1. Len(sent) = 1 \/ Len(sent) = 2 BY <4>3 DEF n
      <4> QED BY <3>6, <4>1
    <3>9. PICK l \in 1..2, f \in 0..2 : l = Len(sent) /\ f = taken' BY <3>8
    <3>10. /\ f <= l /\ l <= f + 1 /\ (f < l => sent'[l] = Rcon!Value(0))
           /\ Len(sent') = l + given' \/ Len(sent') = l + given' + 1
           /\ Len(sent') # l + given' + 1
           /\ taken' = f + Len(output') /\ taken' <= l + given'
      <4>1. f <= l /\ l <= f + 1 /\ (f < l => sent'[l] = Rcon!Value(0))
        BY <1>1, <3>6, <3>9, <3>v
      <4>2. Len(sent') = l /\ l \in Nat BY <1>1, <3>9
      <4>3. taken' = f + Len(output') /\ taken' <= l + given' 
        <5> DEFINE m == Len(output')
        <5>1. m = 0 /\ given' = 0 /\ f = taken' /\ f \in Nat /\ l \in Nat BY <3>7, <3>9, <3>v
        <5>2. taken' <= l BY <3>6, <3>9
        <5> HIDE DEF m
        <5>5. f + 0 = f OBVIOUS
        <5>6. l + 0 = l OBVIOUS
        <5>4. f + m = f /\ l + given' = l BY <5>1, <5>5, <5>6
        <5>3. taken' = f + m /\ taken' <= l + given' BY <5>1, <5>2, <5>4
        <5> QED BY <5>3 DEF m
      <4> QED BY <3>7, <4>1, <4>2, <4>3
    <3>12. \A i \in 1..Len(output') : output'[i] = sent'[f + i].body BY <3>7
    <3>13. \A i \in 1..given' : sent'[l + i] = Rcon!Value(i) BY <3>7
    <3>14. ReadFrom(l, f)' BY <3>10, <3>12, <3>13 DEF ReadFrom, Rcon!Value
    <3>11. OutputRead' BY <3>14 DEF OutputRead
    <3> QED BY <1>1, <2>3, <2>5, <3>4, <3>11 DEF Entering
  <2> QED BY <2>2, <2>4, <2>5
<1> QED BY <1>2, <1>3

LEMMA ReadAnswerKeepsRcon ==
  ASSUME RconGuarded, Rcon!ReadAnswer
  PROVE  RconGuarded'
<1> USE DEF RconGuarded
<1>1. /\ total' = total /\ given' = given /\ sent' = sent /\ arrived' = arrived
      /\ task' = task /\ failure' = failure /\ at = "read" /\ at' \in {"read", "done"}
  BY DEF Rcon!ReadAnswer, Rcon!Finish
<1>2. PICK lead \in 1..2, from \in 0..2 : ReadFrom(lead, from)
  BY <1>1 DEF OutputRead
<1>3. ReadFrom(lead, from) BY <1>2
<1>4. /\ Len(output) \in Nat /\ Len(sent) \in Nat /\ given \in Nat /\ taken \in Nat
      /\ from <= lead /\ lead <= from + 1
      /\ Len(sent) = lead + given \/ Len(sent) = lead + given + 1
      /\ taken = from + Len(output) /\ taken <= lead + given
  BY <1>3 DEF RconTyped, ReadFrom
\* What was read is the output from its beginning, behind one empty body at most.
<1>5. ASSUME NEW i \in 1..Len(output)
      PROVE  output[i] = IF i <= lead - from THEN 0 ELSE i - (lead - from)
  <2>1. output[i] = sent[from + i].body BY <1>3 DEF ReadFrom
  <2>2. CASE i <= lead - from
    <3>1. from + i = lead /\ from < lead BY <1>4, <2>2
    <3> QED BY <1>3, <2>1, <2>2, <3>1 DEF Rcon!Value, ReadFrom
  <2>3. CASE i > lead - from
    <3> DEFINE j == i - (lead - from)
    <3>1. j \in 1..given /\ from + i = lead + j BY <1>4, <2>3
    <3>2. sent[lead + j] = Rcon!Value(j) BY <1>3, <3>1 DEF ReadFrom
    <3> QED BY <2>1, <2>3, <3>1, <3>2 DEF Rcon!Value
  <2> QED BY <1>4, <2>2, <2>3
<1>6. lead - from \in 0..1 BY <1>4
<1>7. CASE ~Rcon!Buffered
  <2>1. /\ taken' = taken /\ output' = output /\ at' = "done"
        /\ result' = "ok" => failure = "transport"
    BY <1>7 DEF Rcon!ReadAnswer, Rcon!Finish
  <2>2. RconTyped' BY <1>1, <2>1 DEF RconTyped
  <2>3. DOMAIN output' = 1..Len(output) BY <2>1 DEF RconTyped
  <2>4. Rcon!OutputWhole' BY <1>1, <1>5, <1>6, <2>1, <2>3 DEF Rcon!OutputWhole
  <2> QED BY <2>1, <2>2, <2>4 DEF Entering, OutputRead
<1>8. CASE Rcon!Buffered
  <2> DEFINE p == sent[taken + 1]
  <2>1. /\ taken' = taken + 1
        /\ \/ p.kind = "sentinel" /\ at' = "done" /\ result' = "ok" /\ output' = output
           \/ p.kind # "sentinel" /\ at' = at /\ result' = result /\ output' = Append(output, p.body)
    BY <1>8 DEF Rcon!ReadAnswer, Rcon!Finish, Rcon!Ends
  <2>2. taken + 1 \in 1..Len(sent) /\ 2 * (taken + 1) <= arrived
    BY <1>8 DEF Rcon!Buffered, RconTyped
  <2>3. p \in RconPacket /\ p.body \in Nat
    <3>1. p \in RconPacket BY <2>2 DEF RconTyped
    <3> HIDE DEF p
    <3> QED BY <3>1 DEF RconPacket
  <2>4. CASE p.kind = "sentinel"
    <3>1. taken + 1 = lead + given + 1
      <4>1. taken + 1 # lead \/ from = lead BY <1>3, <1>4, <2>4 DEF Rcon!Value, ReadFrom
      <4>2. ASSUME taken + 1 > lead, taken + 1 <= lead + given PROVE FALSE
        <5> DEFINE k == taken + 1 - lead
        <5>1. k \in 1..given /\ lead + k = taken + 1 BY <1>4, <4>2
        <5> HIDE DEF k
        <5>2. sent[lead + k] = Rcon!Value(k) BY <1>3, <5>1 DEF ReadFrom
        <5>3. p.kind = "value" BY <5>1, <5>2 DEF Rcon!Value
        <5> QED BY <2>4, <5>3
      <4> QED BY <1>4, <2>2, <4>1, <4>2
    <3>2. given = total /\ Len(output) = total + (lead - from)
      <4>1. Len(sent) = lead + given + 1 BY <1>4, <2>2, <3>1
      <4>2. given = total BY <1>3, <4>1 DEF ReadFrom
      <4> QED BY <1>4, <3>1, <4>2
    <3>3. RconTyped' BY <1>1, <2>1, <2>2, <2>4 DEF RconTyped
    <3>4. DOMAIN output' = 1..Len(output) BY <2>1, <2>4 DEF RconTyped
    <3>5. Rcon!OutputWhole' BY <1>1, <1>5, <1>6, <2>1, <2>4, <3>2, <3>4 DEF Rcon!OutputWhole
    <3> QED BY <2>1, <2>4, <3>3, <3>5 DEF Entering, OutputRead
  <2>5. CASE p.kind # "sentinel"
    <3>1. at' = "read" /\ result' = None /\ output' = Append(output, p.body)
      BY <1>1, <2>1, <2>5
    <3>2. /\ Len(output') = Len(output) + 1 /\ output' \in Seq(Nat)
          /\ \A i \in 1..Len(output) : output'[i] = output[i]
          /\ output'[Len(output) + 1] = p.body
      BY <2>3, <3>1 DEF RconTyped
    <3>3. RconTyped' BY <1>1, <2>1, <2>2, <3>2 DEF RconTyped
    <3>4. taken + 1 <= lead + given
      <4>1. Len(sent) = lead + given + 1 => sent[Len(sent)].kind = "sentinel"
        BY <1>3 DEF Rcon!Sentinel, ReadFrom
      <4> QED BY <1>4, <2>2, <2>5, <4>1, SMTT(40)
    <3>5. taken' = from + Len(output') /\ taken' <= lead + given
      BY <1>4, <2>1, <3>2, <3>4
    <3>6. ASSUME NEW i \in 1..Len(output') PROVE output'[i] = sent[from + i].body
      <4>1. CASE i \in 1..Len(output) BY <1>3, <3>2, <4>1 DEF ReadFrom
      <4>2. CASE i = Len(output) + 1
        <5>1. from + i = taken + 1 BY <1>4, <4>2
        <5> QED BY <3>2, <4>2, <5>1
      <4> QED BY <1>4, <3>2, <4>1, <4>2
    <3>7. ReadFrom(lead, from)'
      BY <1>1, <1>3, <3>5, <3>6 DEF ReadFrom, Rcon!Value, Rcon!Sentinel
    <3>8. OutputRead' BY <3>7 DEF OutputRead
    <3> QED BY <3>1, <3>3, <3>8, PiecesAssumption DEF Entering, Rcon!OutputWhole
  <2> QED BY <2>4, <2>5
<1> QED BY <1>7, <1>8

LEMMA RconStep == RconGuarded /\ [Rcon!Next]_ofRcon => RconGuarded'
<1> SUFFICES ASSUME RconGuarded, [Rcon!Next]_ofRcon PROVE RconGuarded'
  OBVIOUS
<1>1. CASE UNCHANGED ofRcon
  BY <1>1, SMTT(40) DEF ofRcon, RconGuarded, RconTyped, Entering, OutputRead, ReadFrom, Rcon!OutputWhole,
              Rcon!Value, Rcon!Sentinel
<1>2. CASE Rcon!Next
  BY <1>2, ServerKeepsRcon, WireKeepsRcon, ReadAuthKeepsRcon, ReadAnswerKeepsRcon
     DEF Rcon!Next, Rcon!Client
<1> QED BY <1>1, <1>2

(***************************************************************************)
(* The answer of the game server.  Every packet of a server begins with    *)
(* the same length, of one or two bytes; once these have come the total is *)
(* known, and before that it is not.                                       *)
(***************************************************************************)
AnyByte == Bytes \cup Players \cup Nat
Lead == Answer!WriteVarInt(4)
LeadLength == IF Base > 4 THEN 1 ELSE 2

LeadsIn(bytes) == \A i \in 1..Len(bytes) : i <= LeadLength => bytes[i] = Lead[i]

AnswerGuarded ==
  /\ received \in Seq(AnyByte)
  /\ outcome = None /\ LeadsIn(received) =>
       expectedTotal = IF Len(received) < LeadLength THEN None ELSE LeadLength + 4
  /\ Answer!AnswerWhole

LEMMA LeadBytes ==
  /\ Base > 4 => Lead = <<4>>
  /\ Base = 4 => Lead = <<4, 1>>
  /\ Base = 3 => Lead = <<4, 1>>
  /\ Base > 4 \/ Base = 4 \/ Base = 3
<1>1. 4 % 4 = 0 /\ 4 \div 4 = 1 /\ 4 % 3 = 1 /\ 4 \div 3 = 1 OBVIOUS
<1>2. Base \in Nat /\ Base > 2 BY PiecesAssumption
<1> QED BY <1>1, <1>2 DEF Lead, Answer!WriteVarInt

LEMMA Remainder == ASSUME NEW a \in Nat, NEW m \in Nat, a < m PROVE a % m = a
  OBVIOUS

\* A digit that no other follows.
LEMMA ReadOne ==
  ASSUME NEW bytes \in Seq(AnyByte), NEW offset \in Nat, offset < Len(bytes),
         NEW v \in Nat, v < Base, v < Sign, bytes[offset + 1] = v
  PROVE  Answer!ReadVarInt(bytes, offset) = [value |-> v, offset |-> offset + 1]
<1>1. Base \in Nat /\ Base > 2 /\ Sign \in Nat /\ MaxVarInt \in Nat /\ 3 <= MaxVarInt
  BY PiecesAssumption
<1>2. Answer!Ends(bytes, offset) = {1}
  <2>1. ~Answer!More(bytes[offset + 1]) BY <1>1 DEF Answer!More
  <2>2. ASSUME NEW n \in Answer!Ends(bytes, offset) PROVE n = 1
    BY <1>1, <2>1 DEF Answer!Ends
  <2>3. 1 \in Answer!Ends(bytes, offset)
    BY <1>1, <2>1 DEF Answer!Ends
  <2> QED BY <2>2, <2>3
<1>3. (CHOOSE k \in Answer!Ends(bytes, offset) : TRUE) = 1 BY <1>2
<1>4. Answer!Weighted(bytes, offset, 1) = v
  <2>1. Answer!Digit(bytes[offset + 1]) = v BY <1>1, Remainder DEF Answer!Digit
  <2>2. Base * 0 = 0 BY <1>1
  <2>3. 0 + Base * 0 = 0 BY <1>1
  <2> QED BY <1>1, <2>1, <2>2, <2>3 DEF Answer!Weighted
<1>5. v % (2 * Sign) = v BY <1>1, Remainder
<1> QED BY <1>1, <1>2, <1>3, <1>4, <1>5 DEF Answer!ReadVarInt

\* The length of a packet, of one byte or two.
LEMMA ReadLead ==
  ASSUME NEW bytes \in Seq(AnyByte), LeadLength <= Len(bytes), LeadsIn(bytes)
  PROVE  Answer!ReadVarInt(bytes, 0) = [value |-> 4, offset |-> LeadLength]
<1>1. Base \in Nat /\ Base > 2 /\ Sign \in Nat /\ Sign > 4 /\ MaxVarInt \in Nat /\ 3 <= MaxVarInt
  BY PiecesAssumption
<1>2. CASE Base > 4
  <2>1. bytes[1] = 4 /\ LeadLength = 1 BY <1>2, LeadBytes DEF LeadsIn, LeadLength
  <2> QED BY <1>1, <1>2, <2>1, ReadOne
<1>3. CASE Base = 3 \/ Base = 4
  <2>1. bytes[1] = 4 /\ bytes[2] = 1 /\ LeadLength = 2 BY <1>3, LeadBytes DEF LeadsIn, LeadLength
  <2>2. Answer!Ends(bytes, 0) = {2}
    <3>1. Answer!More(bytes[0 + 1]) /\ ~Answer!More(bytes[0 + 2])
      BY <1>3, <2>1 DEF Answer!More
    <3>2. ASSUME NEW n \in Answer!Ends(bytes, 0) PROVE n = 2
      BY <1>1, <3>1 DEF Answer!Ends
    <3>3. 2 \in Answer!Ends(bytes, 0)
      BY <1>1, <2>1, <3>1 DEF Answer!Ends
    <3> QED BY <3>2, <3>3
  <2>3. (CHOOSE k \in Answer!Ends(bytes, 0) : TRUE) = 2 BY <2>2
  <2>4. Answer!Weighted(bytes, 0, 2) = 4
    <3>1. Answer!Digit(bytes[0 + 1]) + Base * Answer!Digit(bytes[0 + 2]) = 4
      <4>1. 4 % 4 = 0 /\ 1 % 4 = 1 /\ 4 % 3 = 1 /\ 1 % 3 = 1 OBVIOUS
      <4> QED BY <1>3, <2>1, <4>1 DEF Answer!Digit
    <3>2. Answer!Digit(bytes[0 + 2]) = 1
      <4>1. 1 % 4 = 1 /\ 1 % 3 = 1 OBVIOUS
      <4> QED BY <1>3, <2>1, <4>1 DEF Answer!Digit
    <3>3. Base * 0 = 0 /\ 0 + Base * 0 = 0 BY <1>1
    <3>4. 1 + Base * 0 = 1 BY <1>1
    <3> QED BY <1>1, <3>1, <3>2, <3>3, <3>4 DEF Answer!Weighted
  <2>5. 4 % (2 * Sign) = 4 BY <1>1, Remainder
  <2>6. Answer!ReadVarInt(bytes, 0) = [value |-> 4, offset |-> 0 + 2]
    <3>1. Answer!Ends(bytes, 0) # {} BY <2>2
    <3>2. ~(4 >= Sign) BY <1>1
    <3> QED BY <2>3, <2>4, <2>5, <3>1, <3>2 DEF Answer!ReadVarInt
  <2>7. 0 + 2 = LeadLength BY <2>1
  <2> QED BY <2>6, <2>7
<1> QED BY <1>2, <1>3, LeadBytes

\* readResponseHeader knows the total once the length is there.
LEMMA HeaderOfLead ==
  ASSUME NEW bytes \in Seq(AnyByte), Len(bytes) > 0, LeadsIn(bytes)
  PROVE  Answer!ReadResponseHeader(bytes) =
           IF Len(bytes) < LeadLength THEN None ELSE [total |-> LeadLength + 4]
<1>1. Base \in Nat /\ Base > 2 /\ MaxVarInt \in Nat /\ 3 <= MaxVarInt /\ MaxResponse \in Nat
      /\ MaxResponse > 3
  BY PiecesAssumption
<1>2. CASE LeadLength <= Len(bytes)
  <2>1. Answer!ReadVarInt(bytes, 0) = [value |-> 4, offset |-> LeadLength] BY <1>2, ReadLead
  <2>2. LeadLength \in Nat BY DEF LeadLength
  <2>3. [value |-> 4, offset |-> LeadLength] # None BY <2>2, AnswerAssumption
  <2>4. ~(Len(bytes) < LeadLength) BY <1>2, <2>2
  <2> QED BY <1>1, <2>1, <2>2, <2>3, <2>4 DEF Answer!ReadResponseHeader
<1>3. CASE Len(bytes) < LeadLength
  <2>0. Len(bytes) \in Nat OBVIOUS
  <2>1. Len(bytes) = 1 /\ LeadLength = 2 /\ ~(Base > 4)
    <3>1. CASE Base > 4 BY <1>3, <2>0, <3>1 DEF LeadLength
    <3>2. CASE ~(Base > 4)
      <4>1. LeadLength = 2 BY <3>2 DEF LeadLength
      <4> DEFINE n == Len(bytes)
      <4>2. n \in Nat /\ n > 0 /\ n < 2 BY <1>3, <2>0, <4>1
      <4> HIDE DEF n
      <4>3. n = 1 BY <4>2
      <4> QED BY <3>2, <4>1, <4>3 DEF n
    <3> QED BY <3>1, <3>2
  <2>2. bytes[1] = 4 /\ Base <= 4 BY <1>1, <2>1, LeadBytes DEF LeadsIn
  <2>3. Answer!Ends(bytes, 0) = {}
    <3>1. Answer!More(bytes[0 + 1]) BY <1>1, <2>2 DEF Answer!More
    <3> QED BY <1>1, <2>1, <3>1 DEF Answer!Ends
  <2>4. Answer!ReadVarInt(bytes, 0) = None BY <2>3 DEF Answer!ReadVarInt
  <2> QED BY <1>1, <1>3, <2>1, <2>4 DEF Answer!ReadResponseHeader
<1> QED BY <1>2, <1>3 DEF LeadLength
LEMMA JoinedBytes ==
  ASSUME NEW s \in Seq(AnyByte), NEW t \in Seq(AnyByte)
  PROVE  /\ s \o t \in Seq(AnyByte) /\ Len(s \o t) = Len(s) + Len(t)
         /\ \A i \in 1..Len(s) : (s \o t)[i] = s[i]
         /\ \A i \in 1..Len(t) : (s \o t)[Len(s) + i] = t[i]
  OBVIOUS

LEMMA PartOfBytes ==
  ASSUME NEW s \in Seq(AnyByte), NEW m \in 1..Len(s), NEW n \in 1..Len(s), m <= n
  PROVE  /\ SubSeq(s, m, n) \in Seq(AnyByte) /\ Len(SubSeq(s, m, n)) = n - m + 1
         /\ \A i \in 1..(n - m + 1) : SubSeq(s, m, n)[i] = s[m + i - 1]
  OBVIOUS

\* The packet of a server, byte by byte.
LEMMA PacketBytes ==
  ASSUME NEW s \in Answer!Status
  PROVE  /\ Answer!Packet(s) \in Seq(AnyByte) /\ Len(Answer!Packet(s)) = LeadLength + 4
         /\ LeadsIn(Answer!Packet(s))
         /\ Answer!Packet(s)[LeadLength + 1] = 0 /\ Answer!Packet(s)[LeadLength + 2] = 2
         /\ Answer!Packet(s)[LeadLength + 3] = s.online /\ Answer!Packet(s)[LeadLength + 4] = s.max
<1>1. Base \in Nat /\ Base > 2 BY PiecesAssumption
<1>2. Answer!WriteVarInt(0) = <<0>> /\ Answer!WriteVarInt(2) = <<2>> BY <1>1 DEF Answer!WriteVarInt
<1> DEFINE body == Answer!WriteVarInt(0) \o Answer!WriteVarInt(2) \o <<s.online, s.max>>
<1>3. s.online \in AnyByte /\ s.max \in AnyByte /\ 0 \in AnyByte /\ 2 \in AnyByte
      /\ 4 \in AnyByte /\ 1 \in AnyByte
  BY DEF Answer!Status, AnyByte
<1>4. /\ <<0>> \in Seq(AnyByte) /\ <<2>> \in Seq(AnyByte)
      /\ <<s.online, s.max>> \in Seq(AnyByte)
  BY <1>3
<1>5. /\ body \in Seq(AnyByte) /\ Len(body) = 4
      /\ body[1] = 0 /\ body[2] = 2 /\ body[3] = s.online /\ body[4] = s.max
  <2> DEFINE first == <<0>> \o <<2>>
             last == <<s.online, s.max>>
  <2>1. first \in Seq(AnyByte) /\ Len(first) = 2 /\ first[1] = 0 /\ first[2] = 2 BY <1>4
  <2>2. last \in Seq(AnyByte) /\ Len(last) = 2 /\ last[1] = s.online /\ last[2] = s.max BY <1>4
  <2>3. body = first \o last BY <1>2
  <2> HIDE DEF first, last
  <2>4. /\ first \o last \in Seq(AnyByte) /\ Len(first \o last) = Len(first) + Len(last)
        /\ \A i \in 1..Len(first) : (first \o last)[i] = first[i]
        /\ \A i \in 1..Len(last) : (first \o last)[Len(first) + i] = last[i]
    BY <2>1, <2>2, JoinedBytes
  <2> HIDE DEF body
  <2>5. Len(body) = 4 BY <2>1, <2>2, <2>3, <2>4
  <2>6. body[1] = 0 /\ body[2] = 2 BY <2>1, <2>3, <2>4
  <2>7. body[2 + 1] = s.online /\ body[2 + 2] = s.max BY <2>1, <2>2, <2>3, <2>4
  <2> QED BY <2>3, <2>4, <2>5, <2>6, <2>7
<1>6. Answer!Packet(s) = Lead \o body
  BY <1>5 DEF Answer!Packet, Lead
<1>7. /\ Lead \in Seq(AnyByte) /\ Len(Lead) = LeadLength
  <2>1. <<4>> \in Seq(AnyByte) /\ <<4, 1>> \in Seq(AnyByte) BY <1>3
  <2>2. CASE Base > 4 BY <2>1, <2>2, LeadBytes DEF LeadLength
  <2>3. CASE Base = 4 BY <2>1, <2>3, LeadBytes DEF LeadLength
  <2>4. CASE Base = 3 BY <2>1, <2>4, LeadBytes DEF LeadLength
  <2> QED BY <2>2, <2>3, <2>4, LeadBytes
<1> HIDE DEF body
<1>8. LeadLength \in Nat BY DEF LeadLength
<1>9. /\ Answer!Packet(s) \in Seq(AnyByte) /\ Len(Answer!Packet(s)) = LeadLength + 4
      /\ \A i \in 1..LeadLength : Answer!Packet(s)[i] = Lead[i]
      /\ \A i \in 1..4 : Answer!Packet(s)[LeadLength + i] = body[i]
  <2>1. /\ Lead \o body \in Seq(AnyByte) /\ Len(Lead \o body) = Len(Lead) + Len(body)
        /\ \A i \in 1..Len(Lead) : (Lead \o body)[i] = Lead[i]
        /\ \A i \in 1..Len(body) : (Lead \o body)[Len(Lead) + i] = body[i]
    BY <1>5, <1>7, JoinedBytes
  <2> QED BY <1>5, <1>6, <1>7, <2>1
<1>10. LeadsIn(Answer!Packet(s)) BY <1>8, <1>9, SMTT(40) DEF LeadsIn
<1> QED BY <1>5, <1>9, <1>10

\* What a packet gives, whatever comes behind it.
LEMMA ParsedPacket ==
  ASSUME NEW s \in Answer!Status, s.online <= s.max, NEW bytes \in Seq(AnyByte), LeadsIn(bytes),
         Len(bytes) >= LeadLength + 4, bytes[LeadLength + 1] = 0, bytes[LeadLength + 2] = 2,
         bytes[LeadLength + 3] = s.online, bytes[LeadLength + 4] = s.max
  PROVE  Answer!Parsed(bytes) = [online |-> s.online, max |-> s.max]
<1>1. Base \in Nat /\ Base > 2 /\ Sign \in Nat /\ Sign > 4 BY PiecesAssumption
<1>2. LeadLength \in Nat /\ Len(bytes) \in Nat BY DEF LeadLength
<1> DEFINE packet == SubSeq(bytes, LeadLength + 1, LeadLength + 4)
<1>3. Answer!ReadVarInt(bytes, 0) = [value |-> 4, offset |-> LeadLength] BY <1>2, ReadLead
<1>4. packet \in Seq(AnyByte) /\ Len(packet) = 4
  BY <1>2, SubSeqProperties
<1>5. packet[1] = 0 /\ packet[2] = 2 /\ packet[3] = s.online /\ packet[4] = s.max
  BY <1>2, SubSeqProperties
<1> DEFINE json == SubSeq(packet, 3, 4)
<1>6. json \in Seq(AnyByte) /\ Len(json) = 2 /\ json[1] = s.online /\ json[2] = s.max
  <2> HIDE DEF packet
  <2>1. 3 \in 1..Len(packet) + 1 /\ 4 \in 0..Len(packet) /\ 4 - 3 + 1 = 2 BY <1>4
  <2>2. /\ SubSeq(packet, 3, 4) \in Seq(AnyByte) /\ Len(SubSeq(packet, 3, 4)) = 2
        /\ \A i \in 1..2 : SubSeq(packet, 3, 4)[i] = packet[3 + i - 1]
    <3>1. 3 \in 1..Len(packet) /\ 4 \in 1..Len(packet) /\ 3 <= 4 BY <1>4
    <3>2. Len(SubSeq(packet, 3, 4)) = 4 - 3 + 1 /\ SubSeq(packet, 3, 4) \in Seq(AnyByte)
          /\ \A i \in 1..(4 - 3 + 1) : SubSeq(packet, 3, 4)[i] = packet[3 + i - 1]
      BY <1>4, <3>1, PartOfBytes, Zenon
    <3> QED BY <3>2
  <2>3. SubSeq(packet, 3, 4)[1] = packet[3] /\ SubSeq(packet, 3, 4)[2] = packet[4] BY <2>2
  <2> QED BY <1>5, <2>2, <2>3
<1>7. Answer!Valid(json)
  <2> HIDE DEF json
  <2>1. DOMAIN json = {1, 2} BY <1>6
  <2>2. Answer!ToSet(json) = {s.online, s.max} BY <1>6, <2>1 DEF Answer!ToSet
  <2> QED BY <1>6, <2>2 DEF Answer!Valid, Answer!Status
<1>8. Answer!ReadVarInt(packet, 0) = [value |-> 0, offset |-> 1]
  <2> HIDE DEF packet
  <2>1. packet[0 + 1] = 0 /\ 0 < Len(packet) BY <1>4, <1>5
  <2>2. Answer!ReadVarInt(packet, 0) = [value |-> 0, offset |-> 0 + 1]
    <3>1. 0 \in Nat /\ 0 < Base /\ 0 < Sign BY <1>1
    <3> QED BY <1>4, <2>1, <3>1, ReadOne
  <2> QED BY <2>2
<1>9. Answer!ReadVarInt(packet, 1) = [value |-> 2, offset |-> 2]
  <2> HIDE DEF packet
  <2>1. packet[1 + 1] = 2 /\ 1 < Len(packet) BY <1>4, <1>5
  <2>2. Answer!ReadVarInt(packet, 1) = [value |-> 2, offset |-> 1 + 1]
    <3>1. 2 \in Nat /\ 2 < Base /\ 2 < Sign /\ 1 \in Nat BY <1>1
    <3> QED BY <1>4, <2>1, <3>1, ReadOne
  <2> QED BY <2>2
<1>10. /\ [value |-> 0, offset |-> 1] # None /\ [value |-> 2, offset |-> 2] # None
  BY AnswerAssumption
<1>11. /\ Answer!Fits(4, Len(bytes) - LeadLength) /\ Answer!Fits(2, Len(packet) - 2)
  <2> HIDE DEF packet
  <2> QED BY <1>2, <1>4 DEF Answer!Fits
<1> DEFINE prefix == Answer!ReadVarInt(bytes, 0)
           id == Answer!ReadVarInt(packet, 0)
           string == Answer!ReadVarInt(packet, 1)
<1>12. prefix.value = 4 /\ prefix.offset = LeadLength BY <1>3
<1>13. SubSeq(bytes, prefix.offset + 1, prefix.offset + prefix.value) = packet BY <1>12
<1> HIDE DEF packet, json, prefix
<1>14. id.value = 0 /\ id.offset = 1 /\ id # None BY <1>8, <1>10
<1>15. string.value = 2 /\ string.offset = 2 /\ string # None BY <1>9, <1>10
<1>16. SubSeq(packet, string.offset + 1, string.offset + string.value) = json BY <1>15 DEF json
<1>17. Answer!ReadVarInt(packet, id.offset) = string BY <1>14
<1> HIDE DEF id, string
<1>18. Answer!Fits(prefix.value, Len(bytes) - prefix.offset) /\ Answer!Fits(string.value, Len(packet) - string.offset)
  BY <1>11, <1>12, <1>15
<1> QED
  BY <1>6, <1>7, <1>13, <1>14, <1>15, <1>16, <1>17, <1>18 DEF Answer!Parsed, prefix, id

\* Nothing gives more players than there is room for.
LEMMA ParsedFits ==
  ASSUME NEW bytes, Answer!Parsed(bytes) \in Answer!Status
  PROVE  Answer!Parsed(bytes).online <= Answer!Parsed(bytes).max
<1>1. Answer!Error \notin Answer!Status
  <2>1. "error" \in DOMAIN Answer!Error BY DEF Answer!Error
  <2>2. \A s \in Answer!Status : DOMAIN s = {"online", "max"} BY SMTT(40) DEF Answer!Status
  <2> QED BY <2>1, <2>2
<1>2. \E json : /\ Answer!Parsed(bytes) = [online |-> json[1], max |-> json[2]]
                /\ Answer!Valid(json)
  BY <1>1 DEF Answer!Parsed
<1> QED BY <1>2 DEF Answer!Valid

\* A prefix, byte by byte.
LEMMA PrefixBytes ==
  ASSUME NEW s \in Seq(AnyByte), NEW t \in Seq(AnyByte), Answer!IsPrefix(s, t)
  PROVE  Len(s) <= Len(t) /\ \A i \in 1..Len(s) : s[i] = t[i]
  BY DEF Answer!IsPrefix

LEMMA StrictIsShorter ==
  ASSUME NEW s \in Seq(AnyByte), NEW t \in Seq(AnyByte), Answer!IsStrictPrefix(s, t)
  PROVE  Len(s) < Len(t)
<1>1. Len(s) <= Len(t) /\ (\A i \in 1..Len(s) : s[i] = t[i]) /\ s # t
  BY PrefixBytes DEF Answer!IsStrictPrefix
<1>2. CASE Len(s) = Len(t) BY <1>1, <1>2
<1>3. CASE Len(s) # Len(t) BY <1>1, <1>3
<1> QED BY <1>2, <1>3

\* Chunks are not empty, and none takes a packet that has begun over the limit.
LEMMA DataKeepsAnswer ==
  ASSUME NEW chunk \in Seq(AnyByte), Len(chunk) = 1 \/ Len(chunk) = 2, AnswerGuarded,
         Answer!Data(chunk)
  PROVE  AnswerGuarded'
<1> DEFINE bytes == received \o chunk
           found == IF expectedTotal # None THEN [total |-> expectedTotal]
                     ELSE Answer!ReadResponseHeader(bytes)
<1>1. /\ bytes \in Seq(AnyByte) /\ Len(bytes) = Len(received) + Len(chunk)
      /\ \A i \in 1..Len(received) : bytes[i] = received[i]
  BY JoinedBytes DEF AnswerGuarded
<1>2. /\ received \in Seq(AnyByte) /\ Len(received) \in Nat /\ Len(bytes) \in Nat /\ Len(bytes) > 0
      /\ Len(received) <= Len(bytes) /\ Len(bytes) <= Len(received) + 2 /\ outcome = None
  <2>1. received \in Seq(AnyByte) /\ outcome = None BY DEF AnswerGuarded, Answer!Data
  <2>2. Len(received) \in Nat /\ Len(bytes) \in Nat BY <1>1, <2>1
  <2> HIDE DEF bytes
  <2> DEFINE n == Len(received)
             m == Len(bytes)
             c == Len(chunk)
  <2>3. n \in Nat /\ m \in Nat /\ m = n + c /\ (c = 1 \/ c = 2) BY <1>1, <2>2
  <2> HIDE DEF n, m, c
  <2>4. m > 0 /\ n <= m /\ m <= n + 2 BY <2>3
  <2> QED BY <2>1, <2>2, <2>4 DEF n, m
<1>3. LeadLength \in Nat /\ LeadLength <= 2 /\ MaxResponse \in Nat /\ MaxResponse > 3
      /\ MaxVarInt \in Nat /\ MaxVarInt > 2
  BY PiecesAssumption DEF LeadLength
<1>4. /\ None \notin Answer!Status /\ Answer!Error # None
      /\ \A n \in Nat : [total |-> n] # None
  BY AnswerAssumption
<1>5. \A n : Answer!Error # [total |-> n]
  <2>1. "error" \in DOMAIN Answer!Error BY DEF Answer!Error
  <2>2. \A n : "error" \notin DOMAIN [total |-> n] OBVIOUS
  <2> QED BY <2>1, <2>2
<1>6. Answer!Error \notin Answer!Status
  <2>1. "error" \in DOMAIN Answer!Error BY DEF Answer!Error
  <2>2. \A s \in Answer!Status : DOMAIN s = {"online", "max"} BY DEF Answer!Status
  <2> QED BY <2>1, <2>2
<1>7. LeadsIn(bytes) => LeadsIn(received) BY <1>1, <1>2 DEF LeadsIn
<1>8. CASE Len(bytes) > MaxResponse + MaxVarInt
  <2>1. received' = received /\ expectedTotal' = expectedTotal /\ outcome' = Answer!Error
    BY <1>8 DEF Answer!Data
  <2>2. ASSUME NEW s \in Answer!Status, s.online <= s.max
        PROVE  ~Answer!IsPrefix(Answer!Packet(s), received)
    BY <1>2, <1>4, <2>2 DEF AnswerGuarded, Answer!AnswerWhole, Answer!Status
  <2>3. ASSUME NEW s \in Answer!Status
        PROVE  ~Answer!IsStrictPrefix(received, Answer!Packet(s))
    <3>1. Answer!IsStrictPrefix(received, Answer!Packet(s)) => Len(received) < LeadLength + 4
      BY <1>2, PacketBytes, StrictIsShorter
    <3>2. Len(received) >= 6
      BY <1>2, <1>3, <1>8
    <3> QED BY <1>2, <1>3, <3>1, <3>2
  <2>4. Answer!AnswerWhole'
    BY <1>6, <2>1, <2>2, <2>3 DEF Answer!AnswerWhole, Answer!Status
  <2> QED BY <1>2, <1>4, <2>1, <2>4 DEF AnswerGuarded
<1>9. CASE ~(Len(bytes) > MaxResponse + MaxVarInt)
  <2>1. /\ received' = bytes
        /\ expectedTotal' = IF found \in {None, Answer!Error} THEN None ELSE found.total
        /\ outcome' = IF found = Answer!Error THEN Answer!Error
                      ELSE IF expectedTotal' = None \/ Len(bytes) < expectedTotal' THEN None
                      ELSE Answer!Parsed(bytes)
    BY <1>9 DEF Answer!Data
  <2>2. LeadsIn(bytes) => found = IF Len(bytes) < LeadLength THEN None ELSE [total |-> LeadLength + 4]
    <3> SUFFICES ASSUME LeadsIn(bytes)
                 PROVE  found = IF Len(bytes) < LeadLength THEN None ELSE [total |-> LeadLength + 4]
      OBVIOUS
    <3>1. CASE expectedTotal = None BY <1>1, <1>2, <3>1, HeaderOfLead
    <3>2. CASE expectedTotal # None
      <4>1. ~(Len(received) < LeadLength) /\ expectedTotal = LeadLength + 4
        BY <1>2, <1>7, <3>2 DEF AnswerGuarded
      <4>2. ~(Len(bytes) < LeadLength) BY <1>2, <1>3, <4>1
      <4> QED BY <3>2, <4>1, <4>2
    <3> QED BY <3>1, <3>2
  <2> HIDE DEF found
  <2>3. LeadsIn(bytes) => /\ found # Answer!Error
                          /\ expectedTotal' = IF Len(bytes) < LeadLength THEN None ELSE LeadLength + 4
    BY <1>3, <1>4, <1>5, <2>1, <2>2
  <2>4. ASSUME NEW s \in Answer!Status, s.online <= s.max
        PROVE  /\ Answer!IsPrefix(Answer!Packet(s), bytes) =>
                    outcome' = [online |-> s.online, max |-> s.max]
               /\ Answer!IsStrictPrefix(bytes, Answer!Packet(s)) => outcome' = None
    <3> DEFINE packet == Answer!Packet(s)
    <3>1. /\ packet \in Seq(AnyByte) /\ Len(packet) = LeadLength + 4 /\ LeadsIn(packet)
          /\ packet[LeadLength + 1] = 0 /\ packet[LeadLength + 2] = 2
          /\ packet[LeadLength + 3] = s.online /\ packet[LeadLength + 4] = s.max
      BY PacketBytes
    <3> HIDE DEF packet, bytes
    <3>2. CASE Answer!IsPrefix(packet, bytes)
      <4>1. Len(bytes) >= LeadLength + 4 /\ \A i \in 1..LeadLength + 4 : packet[i] = bytes[i]
        BY <1>1, <3>1, <3>2, PrefixBytes
      <4>2. LeadsIn(bytes) BY <1>2, <1>3, <3>1, <4>1 DEF LeadsIn
      <4>3. /\ bytes[LeadLength + 1] = 0 /\ bytes[LeadLength + 2] = 2
            /\ bytes[LeadLength + 3] = s.online /\ bytes[LeadLength + 4] = s.max
        BY <1>3, <3>1, <4>1
      <4>4. expectedTotal' = LeadLength + 4 /\ found # Answer!Error
        BY <1>2, <1>3, <2>3, <4>1, <4>2
      <4>5. LeadLength + 4 # None BY <1>3, ServicesAssumption
      <4>6. outcome' = Answer!Parsed(bytes)
        BY <1>2, <1>3, <2>1, <4>1, <4>4, <4>5
      <4>7. Answer!Parsed(bytes) = [online |-> s.online, max |-> s.max]
        BY <1>1, <2>4, <4>1, <4>2, <4>3, ParsedPacket
      <4>8. ~Answer!IsStrictPrefix(bytes, packet)
        BY <1>1, <1>2, <1>3, <3>1, <4>1, StrictIsShorter
      <4> QED BY <4>6, <4>7, <4>8 DEF packet
    <3>3. CASE Answer!IsStrictPrefix(bytes, packet)
      <4>1. Len(bytes) < LeadLength + 4 /\ \A i \in 1..Len(bytes) : bytes[i] = packet[i]
        BY <1>1, <3>1, <3>3, PrefixBytes, StrictIsShorter DEF Answer!IsStrictPrefix
      <4>2. LeadsIn(bytes) BY <1>2, <1>3, <3>1, <4>1 DEF LeadsIn
      <4>3. expectedTotal' = None \/ Len(bytes) < expectedTotal' BY <2>3, <4>1, <4>2
      <4>4. outcome' = None BY <2>1, <2>3, <4>2, <4>3
      <4>5. ~Answer!IsPrefix(packet, bytes) BY <1>1, <1>2, <1>3, <3>1, <4>1, PrefixBytes
      <4> QED BY <4>4, <4>5 DEF packet
    <3> QED BY <3>2, <3>3 DEF packet
  <2>5. outcome' \in Answer!Status => outcome'.online <= outcome'.max
    BY <1>4, <1>6, <2>1, ParsedFits
  <2>6. Answer!AnswerWhole'
    <3>1. ASSUME NEW s \in {t \in Answer!Status : t.online <= t.max}
          PROVE  /\ Answer!IsPrefix(Answer!Packet(s), received)' =>
                      outcome' = [online |-> s.online, max |-> s.max]
                 /\ Answer!IsStrictPrefix(received, Answer!Packet(s))' => outcome' = None
      BY <2>1, <2>4
    <3> QED BY <2>5, <3>1 DEF Answer!AnswerWhole
  <2>7. (LeadsIn(received) => expectedTotal = IF Len(received) < LeadLength THEN None ELSE LeadLength + 4)'
    BY <2>1, <2>3
  <2> QED BY <1>1, <2>1, <2>6, <2>7 DEF AnswerGuarded
<1> QED BY <1>8, <1>9

LEMMA InitAnswer == Answer!Init => AnswerGuarded
<1> SUFFICES ASSUME Answer!Init PROVE AnswerGuarded
  OBVIOUS
<1>1. received = <<>> /\ expectedTotal = None /\ outcome = None BY DEF Answer!Init
<1>2. received \in Seq(AnyByte) /\ Len(received) = 0 BY <1>1
<1>3. 0 < LeadLength BY DEF LeadLength
<1>4. ASSUME NEW s \in Answer!Status PROVE ~Answer!IsPrefix(Answer!Packet(s), received)
  <2>1. Answer!Packet(s) \in Seq(AnyByte) /\ Len(Answer!Packet(s)) = LeadLength + 4 BY PacketBytes
  <2>2. Answer!IsPrefix(Answer!Packet(s), received) => LeadLength + 4 <= 0
    BY <1>2, <2>1, PrefixBytes
  <2> QED BY <2>2 DEF LeadLength
<1>5. Answer!AnswerWhole
  BY <1>1, <1>4, AnswerAssumption DEF Answer!AnswerWhole
<1> QED BY <1>1, <1>2, <1>3, <1>5 DEF AnswerGuarded

LEMMA AnswerStep == AnswerGuarded /\ [Answer!Next]_ofAnswer => AnswerGuarded'
<1> SUFFICES ASSUME AnswerGuarded, [Answer!Next]_ofAnswer PROVE AnswerGuarded'
  OBVIOUS
<1>1. CASE UNCHANGED ofAnswer
  BY <1>1 DEF ofAnswer, AnswerGuarded, Answer!AnswerWhole, Answer!IsPrefix, Answer!IsStrictPrefix
<1>2. CASE Answer!Next
  <2>1. ASSUME NEW a \in Bytes PROVE <<a>> \in Seq(AnyByte) /\ Len(<<a>>) = 1
    BY DEF AnyByte
  <2>2. ASSUME NEW a \in Bytes, NEW b \in Bytes PROVE <<a, b>> \in Seq(AnyByte) /\ Len(<<a, b>>) = 2
    BY DEF AnyByte
  <2> QED BY <1>2, <2>1, <2>2, DataKeepsAnswer DEF Answer!Next
<1> QED BY <1>1, <1>2

(***************************************************************************)
(* The file sent to a client.  The event closes the handle of who listens  *)
(* to it; before that the call itself has to.                              *)
(***************************************************************************)
HandleKnown ==
  /\ serving = "open" => handle = "none" /\ ~listening
  /\ serving = "check" => handle = "open" /\ ~listening
  /\ serving \in {"stat", "sending"} => listening /\ (client = "there" => handle = "open")
  /\ serving = "done" /\ handle = "open" => listening
  /\ listening /\ client = "closed" => handle # "open"

ServeGuarded ==
  /\ size \in Nat /\ header \in [first : Nat \cup {None}, last : Nat \cup {None}]
  /\ HandleKnown
  /\ serving \in {"open", "check", "stat"} => status = 0
  /\ Serve!SentAsAsked /\ Serve!HandleClosed

LEMMA ServeCounts == \A S : Serve!Cardinality(S) = Cardinality(S)
  BY DEF Serve!Cardinality, Cardinality

LEMMA InitServe == Serve!Init \/ ServeRests => ServeGuarded
  BY DEF Serve!Init, ServeRests, Serve!Numbers, ServeGuarded, HandleKnown, Serve!SentAsAsked,
         Serve!HandleClosed

\* What a header asks for is empty or an interval.
LEMMA AskedIsRange ==
  ASSUME ServeGuarded
  PROVE  /\ Serve!Ignored => Serve!Asked = 0..(size - 1)
         /\ ~Serve!Ignored /\ Serve!Unsatisfiable => Serve!Asked = {}
         /\ ~Serve!Ignored /\ ~Serve!Unsatisfiable =>
              /\ Serve!Asked = Serve!ByteRange.start..Serve!ByteRange.end
              /\ Serve!ByteRange.start \in Nat /\ Serve!ByteRange.end \in Int
              /\ Serve!ByteRange.start <= Serve!ByteRange.end + 1
              /\ Serve!ByteRange.start <= Serve!ByteRange.end \/ size = 0
<1> USE ServicesAssumption DEF ServeGuarded
<1>1. CASE Serve!Ignored BY <1>1 DEF Serve!Asked
<1>2. CASE ~Serve!Ignored /\ header.first = None
  <2>1. header.last \in Nat BY <1>2 DEF Serve!Ignored
  <2>2. Serve!Asked = {i \in 0..(size - 1) : i >= size - header.last}
    BY <1>2 DEF Serve!Asked
  <2>3. Serve!Unsatisfiable <=> header.last = 0 BY <1>2 DEF Serve!Unsatisfiable
  <2>4. Serve!Max({0, size - header.last}) = IF size >= header.last THEN size - header.last ELSE 0
    BY <2>1 DEF Serve!Max
  <2>5. Serve!ByteRange = [start |-> IF size >= header.last THEN size - header.last ELSE 0,
                           end |-> size - 1]
    BY <1>2, <2>4 DEF Serve!ByteRange
  <2> QED BY <1>2, <2>1, <2>2, <2>3, <2>5
<1>3. CASE ~Serve!Ignored /\ header.first # None
  <2>1. header.first \in Nat /\ (header.last # None => header.last \in Nat) BY <1>3
  <2>2. Serve!Asked = {i \in 0..(size - 1) :
                         i >= header.first /\ (header.last # None => i <= header.last)}
    BY <1>3 DEF Serve!Asked
  <2>3. Serve!Unsatisfiable <=> header.first >= size BY <1>3 DEF Serve!Unsatisfiable
  <2>4. CASE header.last = None
    BY <1>3, <2>1, <2>2, <2>3, <2>4 DEF Serve!ByteRange
  <2>5. CASE header.last # None
    <3>1. Serve!Min({header.last, size - 1}) = IF header.last <= size - 1 THEN header.last ELSE size - 1
      BY <2>1, <2>5 DEF Serve!Min
    <3>2. header.first < size => header.first <= header.last
      BY <1>3, <2>1, <2>5 DEF Serve!Ignored
    <3>3. Serve!ByteRange = [start |-> header.first,
                             end |-> IF header.last <= size - 1 THEN header.last ELSE size - 1]
      BY <1>3, <2>5, <3>1 DEF Serve!ByteRange
    <3> QED BY <1>3, <2>1, <2>2, <2>3, <2>5, <3>2, <3>3
  <2> QED BY <2>4, <2>5
<1> QED BY <1>1, <1>2, <1>3

LEMMA AnswerKeepsServe ==
  ASSUME ServeGuarded, Serve!Answer
  PROVE  ServeGuarded'
<1> USE DEF ServeGuarded
<1>1. /\ size' = size /\ header' = header /\ client' = client /\ listening' = listening
      /\ serving = "stat" /\ serving' \in {"sending", "done"}
      /\ serving' = "sending" => handle' = handle
      /\ serving' = "done" => handle' = "closed"
  BY DEF Serve!Answer, Serve!Over
<1>2. Serve!Asked' = Serve!Asked BY <1>1 DEF Serve!Asked, Serve!Ignored
<1>3. HandleKnown' /\ Serve!HandleClosed'
  BY <1>1 DEF HandleKnown, Serve!HandleClosed
<1>4. Serve!SentAsAsked'
  <2>1. CASE ~Serve!Ignored /\ Serve!Unsatisfiable /\ Serve!Over(416)
    BY <1>2, <2>1, AskedIsRange DEF Serve!SentAsAsked, Serve!Over
  <2>2. CASE /\ ~Serve!Ignored /\ ~Serve!Unsatisfiable /\ status' = 206
             /\ length' = Serve!ByteRange.end - Serve!ByteRange.start + 1
             /\ places' = Serve!ByteRange.start..Serve!ByteRange.end
    <3> DEFINE a == Serve!ByteRange.start
               b == Serve!ByteRange.end
    <3>1. /\ Serve!Asked = a..b /\ a \in Nat /\ b \in Int /\ a <= b + 1
          /\ a <= b \/ size = 0
      BY <2>2, AskedIsRange
    <3>2. length' = b - a + 1 /\ places' = a..b BY <2>2
    <3> HIDE DEF a, b
    <3>3. Cardinality(a..b) = b - a + 1
      BY <3>1, FS_Interval
    <3>4. places' = Serve!Asked /\ length' = Serve!Cardinality(Serve!Asked)
      BY <3>1, <3>2, <3>3, ServeCounts
    <3>5. Serve!Asked # {} \/ size = 0 BY <3>1
    <3> QED BY <1>1, <1>2, <2>2, <3>4, <3>5 DEF Serve!SentAsAsked
  <2>3. CASE Serve!Ignored /\ status' = 200 /\ length' = size /\ places' = 0..(size - 1)
    <3>1. Cardinality(0..(size - 1)) = size
      BY FS_Interval
    <3> QED BY <1>2, <2>3, <3>1, AskedIsRange, ServeCounts DEF Serve!SentAsAsked
  <2> QED BY <2>1, <2>2, <2>3 DEF Serve!Answer
<1> QED BY <1>1, <1>3, <1>4

LEMMA ServeStep == ServeGuarded /\ [Serve!Next]_ofServe => ServeGuarded'
<1> SUFFICES ASSUME ServeGuarded, [Serve!Next]_ofServe PROVE ServeGuarded'
  OBVIOUS
<1> DEFINE Other == Serve!Open \/ Serve!Check \/ Serve!Fail \/ Serve!Sent \/ Serve!Leave \/ Serve!Close
<1>1. CASE Serve!Answer BY <1>1, AnswerKeepsServe
<1>2. CASE Other \/ UNCHANGED ofServe
  <2>1. /\ size' = size /\ header' = header /\ length' = length /\ places' = places
    BY <1>2 DEF Serve!Open, Serve!Check, Serve!Fail, Serve!Sent, Serve!Leave, Serve!Close, ofServe
  <2>2. Serve!Asked' = Serve!Asked BY <2>1 DEF Serve!Asked, Serve!Ignored
  <2>3. /\ status' = status \/ status' \in {0, 404, 500}
        /\ serving' \in {"open", "check", "stat"} => status' = 0
    BY <1>2
       DEF ServeGuarded, Serve!Open, Serve!Check, Serve!Fail, Serve!Sent, Serve!Leave,
           Serve!Close, Serve!Over, ofServe
  <2>4. Serve!SentAsAsked' BY <2>1, <2>2, <2>3 DEF ServeGuarded, Serve!SentAsAsked
  <2>5. HandleKnown' /\ Serve!HandleClosed'
    BY <1>2
       DEF ServeGuarded, Serve!Open, Serve!Check, Serve!Fail, Serve!Sent, Serve!Leave,
           Serve!Close, Serve!Over, ofServe, HandleKnown, Serve!HandleClosed
  <2> QED BY <2>1, <2>3, <2>4, <2>5 DEF ServeGuarded
<1> QED BY <1>1, <1>2 DEF Serve!Next

(***************************************************************************)
(* The output of a command is the server's from its beginning and in its   *)
(* order, and all of it unless the connection was lost; the answer of the  *)
(* game server is read whole however it is cut into pieces; of a file a    *)
(* client gets what it asked for, and the handle is closed when both have  *)
(* gone.  (RconConnection.execute, minecraft-slp.status, streamFileToReply) *)
(***************************************************************************)
THEOREM SpecOutputWhole == Spec => []OutputWhole
<1>1. Init => RconGuarded /\ AnswerGuarded /\ ServeGuarded
  BY InitRcon, InitAnswer, InitServe DEF Init
<1>2. RconGuarded /\ AnswerGuarded /\ ServeGuarded /\ [Next]_vars
        => (RconGuarded /\ AnswerGuarded /\ ServeGuarded)'
  BY RconStep, AnswerStep, ServeStep DEF Next, vars
<1>3. RconGuarded /\ AnswerGuarded /\ ServeGuarded => OutputWhole
  BY DEF OutputWhole, RconGuarded, AnswerGuarded, ServeGuarded
<1> QED BY <1>1, <1>2, <1>3, PTL DEF Spec

-----------------------------------------------------------------------------
(***************************************************************************)
(* Whatever makes others wait is taken back by somebody.                   *)
(***************************************************************************)
\* rebuildInProgress has a pipeline that is under way, or a shutdown that will
\* clear it; a shutdown that is scheduled has a process to end.
BuildLetsGo ==
  /\ inProgress => running /\ IF step = "none" THEN scheduled /\ onShutdown ELSE ~scheduled
  /\ scheduled => running

\* The task runs that keep a round away have not ended: a run that is awaited is
\* not a zombie as well, and a zombie is forgotten when it ends.
ZombiesRun == \A z \in zombies : z.run \in runs /\ z.run # awaited
RunsBehind == \A r \in runs : r.round = round => r.task < next

\* The check that callers join has a caller that will forget it.
CheckForgotten ==
  pending # None => \E c \in Callers : caller[c] = "clearing" /\ joined[c] = pending

\* A link that is down waits for a timer or for a callback that will set one, as
\* long as the client is in use; afterwards no timer brings it back.
Reconnects ==
  /\ ~closed => link # "down" \/ timer \/ ~told \/ rejected
  /\ closed => ~timer

NobodyShutOut == BuildLetsGo /\ ZombiesRun /\ CheckForgotten /\ Reconnects

LEMMA BuildLetsGoStep ==
  BuildLetsGo /\ Build!Undisturbed /\ [Build!Next]_ofBuild => BuildLetsGo'
<1> SUFFICES ASSUME BuildLetsGo, Build!Undisturbed, [Build!Next]_ofBuild PROVE BuildLetsGo'
  OBVIOUS
<1> USE DEF BuildLetsGo, Build!Undisturbed, Build!Proceed
<1>1. CASE UNCHANGED ofBuild
  BY <1>1 DEF ofBuild
<1>2. CASE Build!StartRebuild \/ Build!RestartServer \/ Build!Finish \/ Build!EndFailed
  BY <1>2 DEF Build!StartRebuild, Build!RestartServer, Build!Finish, Build!EndFailed
<1>3. CASE Build!FailStep \/ Build!GitPull \/ Build!VerifyPinnedRevision
           \/ Build!InstallDependencies \/ Build!BackupBinary
  BY <1>3 DEF Build!FailStep, Build!GitPull, Build!VerifyPinnedRevision,
              Build!InstallDependencies, Build!BackupBinary
<1>4. CASE Build!BuildBinary \/ Build!RunMigrations \/ Build!RestoreBinary
  BY <1>4 DEF Build!BuildBinary, Build!RunMigrations, Build!RestoreBinary
<1>5. CASE Build!Push \/ Build!Terminate \/ Build!Start
  BY <1>5 DEF Build!Push, Build!Terminate, Build!Start, Build!memory
<1>6. CASE Build!Shutdown
  BY <1>6 DEF Build!Shutdown
<1>7. CASE Build!Exit
  BY <1>7 DEF Build!Exit, Build!Forget
<1> QED BY <1>1, <1>2, <1>3, <1>4, <1>5, <1>6, <1>7 DEF Build!Next, Build!Pipeline

LEMMA ZombiesRunStep ==
  RoundsGuarded /\ ZombiesRun /\ RunsBehind /\ [Rounds!Next]_ofRounds
    => (ZombiesRun /\ RunsBehind)'
<1> SUFFICES ASSUME RoundsGuarded, ZombiesRun, RunsBehind, [Rounds!Next]_ofRounds
             PROVE  ZombiesRun' /\ RunsBehind'
  OBVIOUS
<1> USE ServicesAssumption DEF RoundsGuarded
<1>1. CASE UNCHANGED ofRounds
  BY <1>1 DEF ofRounds, ZombiesRun, RunsBehind
<1>2. CASE Rounds!RunAll
  <2>1. zombies' \subseteq zombies /\ UNCHANGED <<awaited, runs>>
    BY <1>2 DEF Rounds!RunAll, Rounds!Expire, Rounds!Fresh
  <2>2. (round' = round /\ next' = next) \/ round' = round + 1
    BY <1>2 DEF Rounds!RunAll
  <2>3. \A r \in runs : r.round \in Nat /\ r.round <= round /\ round \in Nat
    BY DEF TasksTyped, AnyRun, OldGivenUp
  <2> QED BY <2>1, <2>2, <2>3 DEF ZombiesRun, RunsBehind
<1>3. CASE Rounds!StartTask
  <2> DEFINE run == [round |-> round, task |-> next]
  <2>1. /\ awaited' = run /\ runs' = runs \cup {run} /\ next' = next + 1
        /\ UNCHANGED <<round, zombies>>
    BY <1>3 DEF Rounds!StartTask
  <2>2. run.round = round /\ run.task = next /\ next \in Nat
    BY DEF TasksTyped
  <2>3. \A r \in runs : r.task \in Nat
    BY DEF TasksTyped, AnyRun
  <2>4. run \notin runs
    BY <2>2 DEF RunsBehind
  <2> HIDE DEF run
  <2> QED BY <2>1, <2>2, <2>3, <2>4 DEF ZombiesRun, RunsBehind
<1>4. CASE Rounds!FinishTask
  BY <1>4 DEF Rounds!FinishTask, ZombiesRun, RunsBehind, TasksTyped, AnyRun
<1>5. CASE Rounds!TimeOut
  <2> DEFINE z == [run |-> awaited, age |-> 0]
  <2>1. z.run = awaited /\ awaited # None /\ zombies' = zombies \cup {z} /\ awaited' = None
        /\ UNCHANGED <<round, next, runs>>
    BY <1>5 DEF Rounds!TimeOut
  <2>2. awaited \in runs /\ None \notin runs
    BY <2>1 DEF AwaitedRuns, TasksTyped, AnyRun
  <2> HIDE DEF z
  <2> QED BY <2>1, <2>2 DEF ZombiesRun, RunsBehind
<1>6. CASE Rounds!EndRound
  BY <1>6 DEF Rounds!EndRound, ZombiesRun, RunsBehind
<1>7. CASE Rounds!FinishZombie
  BY <1>7 DEF Rounds!FinishZombie, ZombiesRun, RunsBehind
<1>8. CASE Rounds!Tick
  <2> DEFINE older(z) == [z EXCEPT !.age = IF Rounds!Stale(z) THEN @ ELSE @ + 1]
  <2>1. \A z \in zombies : older(z).run = z.run
    OBVIOUS
  <2>2. zombies' = {older(z) : z \in zombies} /\ UNCHANGED <<round, next, awaited, runs>>
    BY <1>8 DEF Rounds!Tick
  <2> QED BY <2>1, <2>2 DEF ZombiesRun, RunsBehind
<1> QED BY <1>1, <1>2, <1>3, <1>4, <1>5, <1>6, <1>7, <1>8 DEF Rounds!Next, Rounds!Round

LEMMA CheckForgottenStep ==
  StatusGuarded /\ CheckForgotten /\ [Status!Next]_ofStatus => CheckForgotten'
<1> SUFFICES ASSUME StatusGuarded, CheckForgotten, [Status!Next]_ofStatus PROVE CheckForgotten'
  OBVIOUS
<1> USE DEF StatusGuarded, ChecksTyped, CheckForgotten, Status!Goto, Status!Join
<1>1. CASE UNCHANGED ofStatus \/ Status!Tick \/ Status!Expire \/ Status!Reply \/ Status!Save
  BY <1>1 DEF ofStatus, Status!Tick, Status!Expire, Status!Reply, Status!Save
<1>2. ASSUME NEW c \in Callers,
             Status!Ask(c) \/ Status!Resume(c) \/ Status!Return(c) \/ Status!Again(c)
      PROVE  CheckForgotten'
  <2>1. CASE Status!Ask(c)
    BY <2>1 DEF Status!Ask
  <2>2. CASE Status!Resume(c)
    BY <2>2 DEF Status!Resume, Status!Promised
  <2>3. CASE Status!Return(c)
    BY <2>3 DEF Status!Return, OneClears
  <2>4. CASE Status!Again(c)
    BY <2>4 DEF Status!Again
  <2> QED BY <1>2, <2>1, <2>2, <2>3, <2>4
<1> QED BY <1>1, <1>2 DEF Status!Next

LEMMA ReconnectsStep == Reconnects /\ [Redis!Next]_ofRedis => Reconnects'
<1> SUFFICES ASSUME Reconnects, [Redis!Next]_ofRedis PROVE Reconnects'
  OBVIOUS
<1> USE DEF Reconnects, Redis!ScheduleReconnect, Redis!ClearReconnectTimer
<1>1. CASE UNCHANGED ofRedis \/ Redis!Lose \/ Redis!Return \/ Redis!Command
  BY <1>1 DEF ofRedis, Redis!Lose, Redis!Return, Redis!Command
<1>2. CASE Redis!Break
  BY <1>2 DEF Redis!Break, Redis!GoDown
<1>3. CASE Redis!OnClose
  BY <1>3 DEF Redis!OnClose
<1>4. CASE Redis!FireTimer
  BY <1>4 DEF Redis!FireTimer
<1>5. CASE Redis!Open
  BY <1>5 DEF Redis!Open
<1>6. CASE Redis!OpenFails
  BY <1>6 DEF Redis!OpenFails
<1>8. CASE Redis!OnRejected
  BY <1>8 DEF Redis!OnRejected
<1>7. CASE Redis!Dispose
  BY <1>7 DEF Redis!Dispose
<1> QED BY <1>1, <1>2, <1>3, <1>4, <1>5, <1>6, <1>7, <1>8 DEF Redis!Next, Redis!Client

THEOREM SpecNobodyShutOut == Spec => []NobodyShutOut
<1> DEFINE Guarded == BuildGuarded /\ RoundsGuarded /\ RunsBehind /\ StatusGuarded /\ NobodyShutOut
<1>1. Init => Guarded
  <2>1. Build!Init \/ BuildRests => BuildGuarded /\ BuildLetsGo
    <3>1. BuildRests => BuildGuarded
      BY ServicesAssumption
      DEF BuildRests, BuildGuarded, RevisionsOrdered, CopyFits, Fits, Replacing,
          Build!Revisions, Build!Undisturbed
    <3> QED BY <3>1, InitBuild DEF Build!Init, BuildRests, BuildLetsGo
  <2>2. Rounds!Init \/ RoundsRest => RoundsGuarded /\ RunsBehind /\ ZombiesRun
    BY InitRounds, ServicesAssumption
       DEF Rounds!Init, RoundsRest, RoundsGuarded, TasksTyped, AwaitedRuns, NoneForgotten, OldGivenUp,
           RunsBehind, ZombiesRun
  <2>3. Status!Init \/ StatusRests => StatusGuarded /\ CheckForgotten
    BY DEF Status!Init, StatusRests, StatusGuarded, ChecksTyped, OnlyPending, OneClears,
           Phases, CheckForgotten
  <2>4. Redis!Init \/ RedisRests => Reconnects
    BY DEF Redis!Init, RedisRests, Reconnects
  <2> QED BY <2>1, <2>2, <2>3, <2>4 DEF Init, NobodyShutOut
<1>2. Guarded /\ [Next]_vars => Guarded'
  <2> SUFFICES ASSUME Guarded, [Next]_vars PROVE Guarded'
    OBVIOUS
  <2>1. /\ [Build!Next]_ofBuild /\ [Rounds!Next]_ofRounds
        /\ [Status!Next]_ofStatus /\ [Redis!Next]_ofRedis
    BY DEF Next, vars
  <2>2. Build!Undisturbed
    BY DEF BuildGuarded
  <2> QED BY <2>1, <2>2, BuildStep, BuildLetsGoStep, RoundsStep, ZombiesRunStep, StatusStep,
             CheckForgottenStep, ReconnectsStep DEF NobodyShutOut
<1>3. Guarded => NobodyShutOut
  OBVIOUS
<1> HIDE DEF Guarded
<1> QED BY <1>1, <1>2, <1>3, PTL DEF Spec
=============================================================================
