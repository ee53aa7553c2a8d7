--------------------------- MODULE ReleasePublish ---------------------------
(***************************************************************************)
(* Publication of one version of the launcher: ReleasePublishService, the  *)
(* recovery and cleanup of its service directories (release-service-dirs)  *)
(* and the sweep a process makes when it starts (StartupSweepService).     *)
(*                                                                         *)
(* The processes share nothing but the directory public/releases, and may  *)
(* stop between any two calls of the file system.  Within a process all of *)
(* a publication after the lock is one turn, so a publication stands for a *)
(* process here.  A directory holds, for every platform, the publication   *)
(* that uploaded its artifact and signature.  A removal of a directory     *)
(* takes many calls: it may break off, and others see what is left so far, *)
(* which stands here as a directory without files.                         *)
(***************************************************************************)
EXTENDS Naturals, FiniteSets

CONSTANTS
  Publications,  \* calls of publish
  Starters,      \* processes that start meanwhile
  Platforms,     \* platforms of the updater
  First,         \* what the release holds at the beginning, if it is there
  None

VARIABLES
  release,   \* public/releases/<version>
  staging,   \* staging[p]: .staging-<uuid> of a publication
  backup,    \* backup[p]: .old-<version>-<uuid> of a publication
  lock,      \* .lock-<version>: whether it is there, and the token in it
  pc,        \* where an actor is
  todo,      \* todo[p]: the entries a loop of an actor has left
  files,     \* files[p]: the platforms a publication uploads
  latest,    \* history: who published each platform last
  robbed,    \* history: a lock was lost between its last check and the swap
  swept,     \* history: a start has removed files that were staged by others
  ambiguous  \* history: a publication met a backup that it had not restored, see below

dirs == <<release, staging, backup>>
history == <<latest, robbed, swept, ambiguous>>
vars == <<dirs, lock, pc, todo, files, history>>

Actors == Publications \cup Starters
Uploads == Publications \cup {First, None}
Dir == [Platforms -> Uploads]
Empty == [f \in Platforms |-> None]
NoLock == [held |-> FALSE, token |-> None]

Entries == ({"staging", "backup", "doomed"} \X Publications) \cup {<<"lock", None>>}
Pcs == {"idle", "steal", "token", "ensure", "recover", "cleanup", "stage",
        "check", "aside", "swap", "putBack", "abort", "clean", "unlock", "rmLock", "ended"}

TypeOK ==
  /\ release \in Dir \cup {None}
  /\ staging \in [Publications -> Dir \cup {None}]
  /\ backup \in [Publications -> Dir \cup {None}]
  /\ lock \in [held : BOOLEAN, token : Publications \cup {None}]
  /\ pc \in [Actors -> Pcs]
  /\ todo \in [Actors -> SUBSET (Entries \cup Platforms)]
  /\ files \in [Publications -> SUBSET Platforms]
  /\ latest \in Dir
  /\ {robbed, swept, ambiguous} \subseteq BOOLEAN

Init ==
  /\ latest \in {Empty, [f \in Platforms |-> First]}
  /\ release = IF latest = Empty THEN None ELSE latest
  /\ staging = [p \in Publications |-> None]
  /\ backup = [p \in Publications |-> None]
  /\ lock = NoLock
  /\ pc = [p \in Actors |-> "idle"]
  /\ todo = [p \in Actors |-> {}]
  /\ files = [p \in Publications |-> {}]
  /\ robbed = FALSE /\ swept = FALSE /\ ambiguous = FALSE
-----------------------------------------------------------------------------
Goto(p, where) == pc' = [pc EXCEPT ![p] = where]
Do(p, entries) == todo' = [todo EXCEPT ![p] = entries]

\* The calls between the last check of the lock and the end of swapReleaseDir.
Swapping(p) == pc[p] \in {"aside", "swap", "putBack"}

\* The lock directory changes; a publication that swaps may lose its lock by it.
SetLock(l) ==
  /\ lock' = l
  /\ robbed' = (robbed \/ \E q \in Publications :
                            Swapping(q) /\ lock.token = q /\ l.token # q)

(***************************************************************************)
(* acquirePublishLock                                                      *)
(***************************************************************************)
MakeLock(p) ==
  /\ pc[p] = "idle" /\ ~lock.held
  /\ SetLock([held |-> TRUE, token |-> None])
  /\ Goto(p, "token")
  /\ UNCHANGED <<dirs, todo, files, latest, swept, ambiguous>>

\* The deadline passes while somebody else has the lock.
Refuse(p) ==
  /\ pc[p] = "idle" /\ lock.held
  /\ Goto(p, "ended")
  /\ UNCHANGED <<dirs, lock, todo, files, history>>

\* stealStaleLock looks at the age of the directory: five minutes may have passed
\* at any time ...
FindStale(p) ==
  /\ pc[p] = "idle" /\ lock.held
  /\ Goto(p, "steal")
  /\ UNCHANGED <<dirs, lock, todo, files, history>>

\* ... and renames what is there by then.
Steal(p) ==
  /\ pc[p] = "steal"
  /\ SetLock(NoLock)
  /\ Goto(p, "idle")
  /\ UNCHANGED <<dirs, todo, files, latest, swept, ambiguous>>

\* The token goes into whatever lock directory is there; without one, or when
\* the write fails, the directory is removed.
WriteToken(p) ==
  /\ pc[p] = "token"
  /\ \/ lock.held /\ SetLock([lock EXCEPT !.token = p]) /\ Goto(p, "ensure")
     \/ SetLock(NoLock) /\ Goto(p, "ended")
  /\ UNCHANGED <<dirs, todo, files, latest, swept, ambiguous>>

(***************************************************************************)
(* recoverReleaseBackups and cleanupReleaseServiceDirs                     *)
(***************************************************************************)
Backups == {<<"backup", p>> : p \in {q \in Publications : backup[q] # None}}
ServiceDirs == Backups
               \cup {<<"staging", p>> : p \in {q \in Publications : staging[q] # None}}
               \cup {e \in {<<"lock", None>>} : lock.held}

\* ensurePublishLockOwned, and the staging directory is made.
Ensure(p) ==
  /\ pc[p] = "ensure"
  /\ \/ /\ lock.token = p
        /\ staging' = [staging EXCEPT ![p] = Empty]
        /\ Do(p, Backups) /\ Goto(p, "recover")
     \/ Goto(p, "unlock") /\ UNCHANGED <<staging, todo>>
  /\ UNCHANGED <<release, backup, lock, files, history>>

StartUp(s) ==
  /\ s \in Starters /\ pc[s] = "idle"
  /\ Do(s, Backups) /\ Goto(s, "recover")
  /\ UNCHANGED <<dirs, lock, files, history>>

\* BUG: a backup is put back although there is a release.
RestoreOver(q) ==
  /\ release' = backup[q]
  /\ backup' = [backup EXCEPT ![q] = None]

Restore(q) ==
  /\ release = None /\ backup[q] # None
  /\ release' = backup[q]
  /\ backup' = [backup EXCEPT ![q] = None]

\* The entries come in the order of the directory, which is any order.  A rename
\* that fails is logged.
Recover(p) == \E e \in todo[p] :
  /\ pc[p] = "recover"
  /\ Restore(e[2]) \/ UNCHANGED <<release, backup>>
  /\ Do(p, todo[p] \ {e})
  /\ UNCHANGED <<staging, lock, pc, files, history>>

Recovered(p) ==
  /\ pc[p] = "recover" /\ todo[p] = {}
  /\ Do(p, ServiceDirs \ {<<"staging", p>>}) /\ Goto(p, "cleanup")
  /\ UNCHANGED <<dirs, lock, files, history>>

(***************************************************************************)
(* A process that starts removes every other entry, a publication those    *)
(* that are an hour old: a backup has the age of its release, so it may be *)
(* at once.  An entry that cannot be removed stays.                        *)
(***************************************************************************)
Doomed(p) == {e \in todo[p] : e[1] = "doomed"}

\* A backup is removed if its release was there when it was looked at.
Doom(p) == \E q \in Publications :
  /\ pc[p] = "cleanup" /\ Doomed(p) = {}
  /\ <<"backup", q>> \in todo[p] /\ release # None
  /\ Do(p, (todo[p] \ {<<"backup", q>>}) \cup {<<"doomed", q>>})
  /\ UNCHANGED <<dirs, lock, pc, files, history>>

\* Files of the backup q have been removed, or all of it.
Damage(q) == backup[q] # None /\ backup' = [backup EXCEPT ![q] = Empty]

Staging(q) == pc[q] \in {"recover", "cleanup", "stage", "check", "aside", "swap"}

\* What is left in the staging directory of q matters while q still uses it.
Unstage(q) ==
  /\ staging[q] # None
  /\ \E c \in {None} \cup (IF Staging(q) THEN {Empty} ELSE {}) :
       staging' = [staging EXCEPT ![q] = c]
  /\ swept' = (swept \/ Staging(q))

RemoveEntry(e) ==
  \/ /\ e[1] = "doomed" /\ (Damage(e[2]) \/ backup' = [backup EXCEPT ![e[2]] = None])
     /\ UNCHANGED <<staging, lock, robbed, swept>>
  \/ /\ e[1] = "staging" /\ Unstage(e[2])
     /\ UNCHANGED <<backup, lock, robbed>>
  \/ /\ e[1] = "lock" /\ (SetLock(NoLock))
     /\ UNCHANGED <<staging, backup, swept>>

Cleanup(p) ==
  /\ pc[p] = "cleanup"
  /\ \E e \in IF Doomed(p) = {} THEN todo[p] ELSE Doomed(p) :
       /\ Do(p, todo[p] \ {e})
       /\ RemoveEntry(e) \/ UNCHANGED <<staging, backup, lock, robbed, swept>>
  /\ UNCHANGED <<release, pc, files, latest, ambiguous>>

Cleaned(p) ==
  /\ pc[p] = "cleanup" /\ todo[p] = {}
  /\ IF p \in Starters THEN Goto(p, "ended") /\ UNCHANGED todo
     ELSE /\ Goto(p, "stage")
          /\ Do(p, IF release = None THEN {} ELSE {f \in Platforms : release[f] # None})
  /\ ambiguous' = (ambiguous \/ (p \in Publications /\ release = None /\ Backups # {}))
  /\ UNCHANGED <<dirs, lock, files, latest, robbed, swept>>

(***************************************************************************)
(* publish                                                                 *)
(***************************************************************************)
\* stageExistingFiles: a file that is gone ends the publication.
StageExisting(p) == \E f \in todo[p] :
  /\ pc[p] = "stage"
  /\ \/ /\ release # None /\ staging[p] # None
        /\ staging' = [staging EXCEPT ![p][f] = release[f]]
        /\ Do(p, todo[p] \ {f}) /\ UNCHANGED pc
     \/ Goto(p, "abort") /\ Do(p, {}) /\ UNCHANGED staging
  /\ UNCHANGED <<release, backup, lock, files, history>>

\* commitPlatform for every platform; any of them may fail.
Commit(p) ==
  /\ pc[p] = "stage" /\ todo[p] = {}
  /\ \/ \E given \in (SUBSET Platforms) \ {{}} :
          /\ staging[p] # None
          /\ staging' = [staging EXCEPT ![p] =
               [f \in Platforms |-> IF f \in given THEN p ELSE staging[p][f]]]
          /\ files' = [files EXCEPT ![p] = given]
          /\ Goto(p, "check")
     \/ Goto(p, "abort") /\ UNCHANGED <<staging, files>>
  /\ UNCHANGED <<release, backup, lock, todo, history>>

\* BUG: a lock that somebody has stolen is not noticed.
CheckNothing(p) ==
  /\ pc[p] = "check" /\ Goto(p, "aside")
  /\ UNCHANGED <<dirs, lock, todo, files, history>>

\* ensurePublishLockOwned
Check(p) ==
  /\ pc[p] = "check"
  /\ Goto(p, IF lock.token = p THEN "aside" ELSE "abort")
  /\ UNCHANGED <<dirs, lock, todo, files, history>>

\* A directory can be renamed to the place of the release when that is empty.
Vacant == release \in {None, Empty}

\* swapReleaseDir sets the release aside ...
SetAside(p) ==
  /\ pc[p] = "aside"
  /\ \/ /\ backup' = [backup EXCEPT ![p] = release]
        /\ release' = None
        /\ ambiguous' = (ambiguous \/ (release # None /\ Backups # {}))
        /\ Goto(p, "swap")
     \/ release # None /\ Goto(p, "abort") /\ UNCHANGED <<release, backup, ambiguous>>
  /\ UNCHANGED <<staging, lock, todo, files, latest, robbed, swept>>

\* ... and puts the staging directory in its place, which fails when one of them
\* is not as expected, or for a reason of the file system.
Swap(p) ==
  /\ pc[p] = "swap"
  /\ \/ /\ staging[p] # None /\ Vacant
        /\ release' = staging[p]
        /\ latest' = [f \in Platforms |-> IF f \in files[p] THEN p ELSE latest[f]]
        /\ staging' = [staging EXCEPT ![p] = None]
        /\ Goto(p, "clean")
     \/ Goto(p, "putBack") /\ UNCHANGED <<release, latest, staging>>
  /\ UNCHANGED <<backup, lock, todo, files, robbed, swept, ambiguous>>

PutBack(p) ==
  /\ pc[p] = "putBack"
  /\ \/ /\ backup[p] # None /\ Vacant
        /\ release' = backup[p]
        /\ backup' = [backup EXCEPT ![p] = None]
     \/ UNCHANGED <<release, backup>>
  /\ Goto(p, "abort")
  /\ UNCHANGED <<staging, lock, todo, files, history>>

\* removeDirQuietly: a directory that cannot be removed stays, whole or not.
RemoveBackup(p) ==
  /\ pc[p] = "clean"
  /\ Damage(p) \/ backup' \in {backup, [backup EXCEPT ![p] = None]}
  /\ Goto(p, "unlock")
  /\ UNCHANGED <<release, staging, lock, todo, files, history>>

Abort(p) ==
  /\ pc[p] = "abort"
  /\ staging' = [staging EXCEPT ![p] = None]
  /\ Goto(p, "unlock")
  /\ UNCHANGED <<release, backup, lock, todo, files, history>>

\* releasePublishLock reads the token ...
ReadToken(p) ==
  /\ pc[p] = "unlock"
  /\ Goto(p, IF lock.token = p THEN "rmLock" ELSE "ended")
  /\ UNCHANGED <<dirs, lock, todo, files, history>>

\* ... and removes what is there by then.
RemoveLock(p) ==
  /\ pc[p] = "rmLock"
  /\ SetLock(NoLock)
  /\ Goto(p, "ended")
  /\ UNCHANGED <<dirs, todo, files, latest, swept, ambiguous>>

Crash(p) ==
  /\ pc[p] \notin {"idle", "ended"}
  /\ Goto(p, "ended") /\ Do(p, {})
  /\ UNCHANGED <<dirs, lock, files, history>>

Next ==
  \/ \E p \in Publications :
       \/ MakeLock(p) \/ Refuse(p) \/ FindStale(p) \/ Steal(p) \/ WriteToken(p)
       \/ Ensure(p) \/ StageExisting(p) \/ Commit(p) \/ Check(p)
       \/ SetAside(p) \/ Swap(p) \/ PutBack(p) \/ RemoveBackup(p) \/ Abort(p)
       \/ ReadToken(p) \/ RemoveLock(p) \/ Crash(p)
  \/ \E s \in Starters : StartUp(s)
  \/ \E p \in Actors :
       Recover(p) \/ Recovered(p) \/ Doom(p) \/ Cleanup(p) \/ Cleaned(p)

Spec == Init /\ [][Next]_vars
-----------------------------------------------------------------------------
Published == latest # Empty
Copies == (IF release = None THEN {} ELSE {release})
          \cup {backup[p] : p \in {q \in Publications : backup[q] # None}}
\* What a start finds: the release, or the backups it may restore.
Found == IF release # None THEN {release} ELSE Copies

(***************************************************************************)
(* Whatever stops where and whoever steals whose lock: once a release was  *)
(* published, it or a backup the next start restores is there, and what    *)
(* that start finds is not a directory without files.  swept leaves out a  *)
(* start that removes the staged files of a publication under way, and     *)
(* ambiguous a publication whose recovery left a backup beside it: it      *)
(* found no release, so it stages nothing, or it swapped the release while *)
(* an older backup, perhaps not whole, lay there.                          *)
(***************************************************************************)
NothingLost ==
  Published => /\ Copies # {}
               /\ ~swept /\ ~ambiguous => \A c \in Found : c # Empty

(***************************************************************************)
(* As long as, besides, no lock is stolen from a publication that is past  *)
(* its last check: the release has, for every platform, what was published *)
(* last, and while it is set aside so has every backup that a start would  *)
(* restore.  Concurrent publications of one version lose no platform.      *)
(***************************************************************************)
PublishedStays ==
  Published /\ ~robbed /\ ~swept /\ ~ambiguous => \A c \in Found : c = latest
=============================================================================
