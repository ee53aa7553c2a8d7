---------------------------- MODULE PanelDeploy ----------------------------
(***************************************************************************)
(* Deployment of the admin panel by scripts/panel-deploy.ts                *)
(* (TechnicalPanelDeployService, panel-deploy-dirs, technical-steps), and  *)
(* what a server that starts does to the same directories (main.ts and     *)
(* StartupSweepService).  Every deployment is a process of its own; they   *)
(* share the checkout of the panel and the directory public, and may stop  *)
(* between any two calls of the file system or of git and bun.             *)
(*                                                                         *)
(* A build of the panel is named by the deployment that made it.  A lock   *)
(* grows stale only when its holder has stopped: the timeouts of all steps *)
(* together are shorter than PANEL_DEPLOY_LOCK_STALE_MS.  A removal of a   *)
(* directory takes many calls: others see what it has left so far, and it  *)
(* may break off there.                                                    *)
(***************************************************************************)
EXTENDS Naturals, FiniteSets

CONSTANTS
  Deploys,    \* runs of the script
  Starters,   \* servers that start meanwhile
  First,      \* the panel at the beginning
  EmptyDir,   \* a directory with nothing in it
  None

VARIABLES
  panel,    \* public/panel
  backup,   \* backup[p]: public/.panel.old-<uuid>
  moving,   \* moving[p]: public/.panel.move-<uuid>
  repo,     \* the checkout: absent, broken by a clone that was cut off, or valid
  output,   \* .output/public in the checkout
  builtAt,  \* builtAt[v]: the order of the builds, as their mtime has it
  lock,     \* the lock directory
  pc,       \* where an actor is
  todo,     \* todo[a]: the backup an actor has chosen, or the entries it still sweeps
  had,      \* had[p]: panelExists of swapPanelDirectory
  current,  \* history: the build that was put in place last
  robbed,   \* history: somebody stole the lock of a deployment that runs
  crossed    \* history: one process undid what another did to the panel, see below

files == <<panel, backup, moving, repo, output, builtAt>>
history == <<current, robbed, crossed>>
vars == <<files, lock, pc, todo, had, history>>

Actors == Deploys \cup Starters
Builds == Deploys \cup {First}
NoLock == [held |-> FALSE, token |-> None]
Partial == "partial"
Damaged == "damaged"   \* what a removal has left, perhaps an empty directory
Contents == Builds \cup {EmptyDir, Damaged, None}
Entries == {"backup", "moving"} \X Deploys

Pcs == {"idle", "steal", "token", "recover", "choose", "rename", "sync", "clone", "fetch", "install", "build",
        "aside", "move", "copy", "place", "source", "clear", "restore", "rmBackup", "unlock",
        "rmLock", "cleanup", "list", "remove", "ok", "failed", "crashed"}

TypeOK ==
  /\ panel \in Contents
  /\ backup \in [Deploys -> Contents]
  /\ moving \in [Deploys -> Builds \cup {Partial, None}]
  /\ repo \in {"absent", "broken", "valid"}
  /\ output \in Builds \cup {None}
  /\ builtAt \in [Builds -> Nat]
  /\ lock \in [held : BOOLEAN, token : Deploys \cup {None}]
  /\ pc \in [Actors -> Pcs]
  /\ todo \in [Actors -> SUBSET Entries]
  /\ had \in [Deploys -> BOOLEAN]
  /\ current \in Builds \cup {None}
  /\ robbed \in BOOLEAN /\ crossed \in BOOLEAN

Init ==
  /\ panel \in {First, None} /\ current = panel
  /\ backup = [p \in Deploys |-> None]
  /\ moving = [p \in Deploys |-> None]
  /\ repo = "absent" /\ output = None
  /\ builtAt = [v \in Builds |-> 0]
  /\ lock = NoLock
  /\ pc = [p \in Actors |-> "idle"]
  /\ todo = [p \in Actors |-> {}]
  /\ had = [p \in Deploys |-> FALSE]
  /\ robbed = FALSE /\ crossed = FALSE
-----------------------------------------------------------------------------
Goto(p, where) == pc' = [pc EXCEPT ![p] = where]
Step(p, from, to) == pc[p] = from /\ Goto(p, to)

Do(a, entries) == todo' = [todo EXCEPT ![a] = entries]

Running(p) == pc[p] \notin {"idle", "steal", "ok", "failed", "crashed"}
Newer(v, w) == builtAt[v] > builtAt[w]

(***************************************************************************)
(* acquirePanelDeployLock                                                  *)
(***************************************************************************)
MakeLock(p) ==
  /\ ~lock.held /\ Step(p, "idle", "token")
  /\ lock' = [held |-> TRUE, token |-> None]
  /\ UNCHANGED <<files, todo, had, history>>

Refuse(p) ==
  /\ lock.held /\ Step(p, "idle", "failed")
  /\ UNCHANGED <<files, lock, todo, had, history>>

Holder(p) == lock.token = p \/ (lock.token = None /\ pc[p] = "token")

\* stealStalePanelDeployLock looks at the age ...
FindStale(p) ==
  /\ lock.held /\ \A q \in Deploys : Holder(q) => ~Running(q)
  /\ Step(p, "idle", "steal")
  /\ UNCHANGED <<files, lock, todo, had, history>>

\* ... and moves away what is there by then.
Steal(p) ==
  /\ Step(p, "steal", "idle")
  /\ robbed' = (robbed \/ \E q \in Deploys : Running(q) /\ lock.held /\ Holder(q))
  /\ lock' = NoLock
  /\ UNCHANGED <<files, todo, had, current, crossed>>

WriteToken(p) ==
  /\ \/ lock.held /\ lock' = [lock EXCEPT !.token = p] /\ Step(p, "token", "recover")
     \/ lock' \in {lock, NoLock} /\ Step(p, "token", "failed")
  /\ UNCHANGED <<files, todo, had, history>>

(***************************************************************************)
(* recoverPanelBackups, of a deployment and of a start.                    *)
(***************************************************************************)
Backups == {q \in Deploys : backup[q] # None}

\* BUG: the first backup of the listing is taken.
NewestAny(q) == q \in Backups

\* newestPanelBackup; an empty directory is as old as the start that made it, and
\* one that was removed in part as old as that, so either may be the newest.
Newest(q) ==
  q \in Backups /\ ~\E r \in Backups :
                     {backup[q], backup[r]} \subseteq Builds /\ Newer(backup[r], backup[q])

\* A directory can be renamed to the panel's place when that is empty.
Vacant == panel \in {None, EmptyDir, Damaged}

Restore(q) == panel' = backup[q] /\ backup' = [backup EXCEPT ![q] = None]

Recovered(a) == IF a \in Deploys THEN "sync" ELSE "cleanup"

LookForPanel(a) ==
  /\ Step(a, "recover", IF panel = None THEN "choose" ELSE Recovered(a))
  /\ UNCHANGED <<files, lock, todo, had, history>>

\* A start leaves a backup alone that is fresh, a deployment takes any.
ChooseBackup(a) ==
  /\ \/ \E q \in Deploys : Newest(q) /\ Do(a, {<<"backup", q>>}) /\ Step(a, "choose", "rename")
     \/ (a \in Deploys => Backups = {}) /\ Step(a, "choose", Recovered(a)) /\ UNCHANGED todo
  /\ UNCHANGED <<files, lock, had, history>>

\* A rename that fails is logged.
RestoreChosen(a) ==
  /\ Step(a, "rename", Recovered(a)) /\ Do(a, {})
  /\ \/ \E q \in Backups :
          /\ <<"backup", q>> \in todo[a] /\ Vacant /\ Restore(q)
          /\ crossed' = (crossed \/ ~Newest(q))
     \/ UNCHANGED <<panel, backup, crossed>>
  /\ UNCHANGED <<moving, repo, output, builtAt, lock, had, current, robbed>>

(***************************************************************************)
(* syncRepository, installDependencies and the scripts.  runCommand ends   *)
(* the step when it fails or its time is over, with the group of its       *)
(* process, so nothing of it goes on behind the next step.                 *)
(***************************************************************************)
FailStep(p) ==
  /\ pc[p] \in {"fetch", "install", "build"}
  /\ Goto(p, "unlock")
  /\ UNCHANGED <<files, lock, todo, had, history>>

\* A checkout that is not valid is removed and cloned again.
Sync(p) ==
  /\ Step(p, "sync", IF repo = "valid" THEN "fetch" ELSE "clone")
  /\ repo' = IF repo = "broken" THEN "absent" ELSE repo
  /\ output' = IF repo = "broken" THEN None ELSE output
  /\ UNCHANGED <<panel, backup, moving, builtAt, lock, todo, had, history>>

\* git clone, which leaves a part of a checkout when it is cut off.
Clone(p) ==
  /\ \/ repo' = "valid" /\ Step(p, "clone", "fetch")
     \/ repo' \in {"absent", "broken"} /\ Step(p, "clone", "unlock")
     \/ repo' = "broken" /\ Step(p, "clone", "crashed")
  /\ UNCHANGED <<panel, backup, moving, output, builtAt, lock, todo, had, history>>

Fetch(p) ==
  /\ Step(p, "fetch", "install")
  /\ UNCHANGED <<files, lock, todo, had, history>>

Install(p) ==
  /\ Step(p, "install", "build")
  /\ UNCHANGED <<files, lock, todo, had, history>>

\* The build and verifyBuildOutput.
Build(p) ==
  /\ Step(p, "build", "aside")
  /\ output' = p
  /\ builtAt' = [builtAt EXCEPT ![p] = Cardinality({v \in Deploys : builtAt[v] > 0}) + 1]
  /\ UNCHANGED <<panel, backup, moving, repo, lock, todo, had, history>>

(***************************************************************************)
(* swapPanelDirectory and moveDirectory                                    *)
(***************************************************************************)
SetAside(p) ==
  /\ \/ /\ Step(p, "aside", "move")
        /\ had' = [had EXCEPT ![p] = panel # None]
        /\ backup' = [backup EXCEPT ![p] = panel]
        /\ panel' = None
     \/ panel # None /\ Step(p, "aside", "unlock") /\ UNCHANGED <<had, backup, panel>>
  /\ UNCHANGED <<moving, repo, output, builtAt, lock, todo, history>>

Put(p, v) == panel' = v /\ current' = v

\* What goes wrong from here on is undone by restorePanelBackup.
FailMove(p) ==
  /\ pc[p] \in {"move", "copy", "place", "source"}
  /\ moving' \in {moving, [moving EXCEPT ![p] = None]}
  /\ Goto(p, IF had[p] /\ backup[p] # None THEN "clear" ELSE "unlock")
  /\ UNCHANGED <<panel, backup, repo, output, builtAt, lock, todo, had, history>>

\* One rename when both lie on one file system; a target with files in it makes it fail.
Move(p) ==
  /\ Step(p, "move", "rmBackup")
  /\ output # None /\ Vacant
  /\ Put(p, output) /\ output' = None
  /\ UNCHANGED <<backup, moving, repo, builtAt, lock, todo, had, robbed, crossed>>

\* BUG: the files are copied to where they are served.
MoveInPlace(p) ==
  /\ Step(p, "move", "copy")
  /\ panel' = EmptyDir
  /\ moving' = [moving EXCEPT ![p] = Partial]
  /\ UNCHANGED <<backup, repo, output, builtAt, lock, todo, had, history>>

\* Across file systems the files are copied beside the panel first.
MoveAcross(p) ==
  /\ Step(p, "move", "copy")
  /\ moving' = [moving EXCEPT ![p] = Partial]
  /\ UNCHANGED <<panel, backup, repo, output, builtAt, lock, todo, had, history>>

Copy(p) ==
  /\ Step(p, "copy", "place")
  /\ output # None
  /\ moving' = [moving EXCEPT ![p] = output]
  /\ UNCHANGED <<panel, backup, repo, output, builtAt, lock, todo, had, history>>

Place(p) ==
  /\ Step(p, "place", "source")
  /\ moving[p] \in Builds /\ Vacant
  /\ Put(p, moving[p])
  /\ moving' = [moving EXCEPT ![p] = None]
  /\ UNCHANGED <<backup, repo, output, builtAt, lock, todo, had, robbed, crossed>>

RemoveSource(p) ==
  /\ Step(p, "source", "rmBackup")
  /\ output' = None
  /\ UNCHANGED <<panel, backup, moving, repo, builtAt, lock, todo, had, history>>

\* restorePanelBackup: what is there goes, and the backup comes back.  When the
\* backup has gone or was damaged since it was looked for, a whole panel goes for it.
GiveUpPanel(p) ==
  IF panel \notin Builds THEN UNCHANGED <<current, crossed>>
  ELSE IF backup[p] \in Builds THEN current' = backup[p] /\ UNCHANGED crossed
  ELSE crossed' = TRUE /\ UNCHANGED current

\* A part of the panel has been removed.
DamagePanel(p) ==
  /\ pc[p] = "clear" /\ panel \in Builds
  /\ panel' = Damaged /\ GiveUpPanel(p)
  /\ UNCHANGED <<backup, moving, repo, output, builtAt, lock, pc, todo, had, robbed>>

ClearPanel(p) ==
  /\ Step(p, "clear", "restore")
  /\ panel' = None /\ GiveUpPanel(p)
  /\ UNCHANGED <<backup, moving, repo, output, builtAt, lock, todo, had, robbed>>

ClearFails(p) ==
  /\ Step(p, "clear", "unlock")
  /\ UNCHANGED <<files, lock, todo, had, history>>

RestoreBackup(p) ==
  /\ Step(p, "restore", "unlock")
  /\ \/ backup[p] # None /\ Vacant /\ Restore(p)
     \/ UNCHANGED <<panel, backup>>
  /\ UNCHANGED <<moving, repo, output, builtAt, lock, todo, had, history>>

\* A part of the backup q has been removed.
Damage(q) == backup[q] \in Builds /\ backup' = [backup EXCEPT ![q] = Damaged]

\* A backup that cannot be removed stays, whole or not.
RemoveBackup(p) ==
  /\ \/ Damage(p) /\ pc[p] = "rmBackup" /\ UNCHANGED pc
     \/ backup' \in {backup, [backup EXCEPT ![p] = None]} /\ Step(p, "rmBackup", "unlock")
  /\ UNCHANGED <<panel, moving, repo, output, builtAt, lock, todo, had, history>>

\* releasePanelDeployLock
ReadToken(p) ==
  /\ Step(p, "unlock", IF lock.token = p THEN "rmLock" ELSE "ok")
  /\ UNCHANGED <<files, lock, todo, had, history>>

RemoveLock(p) ==
  /\ Step(p, "rmLock", "ok")
  /\ lock' \in {NoLock, [lock EXCEPT !.token = None], lock}
  /\ robbed' = (robbed \/ (lock' # lock /\
                 \E q \in Deploys \ {p} : Running(q) /\ lock.held /\ Holder(q)))
  /\ UNCHANGED <<files, todo, had, current, crossed>>

(***************************************************************************)
(* A server starts: bootstrap makes the directory it serves, then the      *)
(* sweep restores and removes backups that are not fresh.  A backup has    *)
(* the age of the panel that was set aside, whatever that is; the copy     *)
(* that a deployment makes is fresh as long as it runs.                    *)
(***************************************************************************)
MakePanelDir(s) ==
  /\ Step(s, "idle", "recover")
  /\ panel' = IF panel = None THEN EmptyDir ELSE panel
  /\ crossed' = (crossed \/ panel = None)
  /\ UNCHANGED <<backup, moving, repo, output, builtAt, lock, todo, had, current, robbed>>

\* cleanupPanelBackups looks for the panel ...
SweepCheck(s) ==
  /\ Step(s, "cleanup", IF panel = None THEN "ok" ELSE "list")
  /\ UNCHANGED <<files, lock, todo, had, history>>

\* ... lists the directory ...
SweepList(s) ==
  /\ Step(s, "list", "remove")
  /\ Do(s, ({"backup"} \X Backups) \cup {"moving"} \X {q \in Deploys : moving[q] # None})
  /\ UNCHANGED <<files, lock, had, history>>

\* ... and removes what is in the listing, whatever has become of the panel.
SweepBackup(s, q) ==
  /\ \/ Damage(q) /\ UNCHANGED todo
     \/ backup' = [backup EXCEPT ![q] = None] /\ Do(s, todo[s] \ {<<"backup", q>>})
  /\ crossed' = (crossed \/ panel \notin Builds)
  /\ UNCHANGED moving

SweepMoving(s, q) ==
  /\ ~Running(q) /\ moving' = [moving EXCEPT ![q] = None]
  /\ Do(s, todo[s] \ {<<"moving", q>>})
  /\ UNCHANGED <<backup, crossed>>

Sweep(s) ==
  /\ pc[s] = "remove"
  /\ \E e \in todo[s] :
       \/ e[1] = "backup" /\ SweepBackup(s, e[2])
       \/ e[1] = "moving" /\ SweepMoving(s, e[2])
       \/ Do(s, todo[s] \ {e}) /\ UNCHANGED <<backup, moving, crossed>>
  /\ UNCHANGED <<panel, repo, output, builtAt, lock, pc, had, current, robbed>>

Crash(p) ==
  /\ Running(p) /\ Goto(p, "crashed") /\ Do(p, {})
  /\ UNCHANGED <<files, lock, had, history>>

Next ==
  \/ \E p \in Deploys :
       \/ MakeLock(p) \/ Refuse(p) \/ FindStale(p) \/ Steal(p) \/ WriteToken(p)
       \/ Sync(p) \/ Clone(p) \/ Fetch(p) \/ Install(p) \/ Build(p) \/ FailStep(p)
       \/ SetAside(p) \/ Move(p) \/ MoveAcross(p) \/ Copy(p) \/ Place(p) \/ RemoveSource(p)
       \/ FailMove(p) \/ DamagePanel(p) \/ ClearPanel(p) \/ ClearFails(p) \/ RestoreBackup(p)
       \/ RemoveBackup(p) \/ ReadToken(p) \/ RemoveLock(p) \/ Crash(p)
  \/ \E s \in Starters : MakePanelDir(s) \/ SweepCheck(s) \/ SweepList(s) \/ Sweep(s)
  \/ \E a \in Actors : LookForPanel(a) \/ ChooseBackup(a) \/ RestoreChosen(a)

Spec == Init /\ [][Next]_vars
-----------------------------------------------------------------------------
(***************************************************************************)
(* A panel that was there is never lost, whoever stops where: it is served *)
(* or a backup of a panel is left.                                         *)
(***************************************************************************)
PanelKeptAtStart ==
  current # None => panel \in Builds \/ \E p \in Deploys : backup[p] \in Builds

(***************************************************************************)
(* PanelKept leaves out what breaks PanelKeptAtStart: a server that starts *)
(* while no panel is there makes an empty directory and then sweeps the    *)
(* backups; a start that has found a panel, or what a removal left of one, *)
(* sweeps the backup that a deployment has made since, or could not put    *)
(* back; and a deployment that fails removes a whole panel for a backup    *)
(* that has gone or was damaged since it looked for it.                    *)
(***************************************************************************)
PanelKept == ~crossed => PanelKeptAtStart

(***************************************************************************)
(* As long as no lock is stolen from a deployment that runs, none of that  *)
(* happens and no start puts back a backup that has been overtaken since   *)
(* it was chosen: an older panel than the one put in place last is never   *)
(* served, and while there is none it is not an older one that the next    *)
(* deployment restores, also when older backups could not be removed.      *)
(* What a removal has left of a directory may be found instead: it may be  *)
(* the newest entry of the listing.                                        *)
(***************************************************************************)
LastDeployedServed ==
  ~robbed /\ ~crossed /\ current # None =>
    IF panel = None THEN \A q \in Deploys : Newest(q) => backup[q] \in {current, Damaged}
    ELSE panel \in {current, Damaged}
=============================================================================
