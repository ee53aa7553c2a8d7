------------------------------ MODULE Rebuild -------------------------------
(***************************************************************************)
(* Rebuild and restart of the server from the panel:                       *)
(* TechnicalRebuildService, TechnicalRestartService and the steps they run *)
(* (technical-steps).  A revision of the sources is a number; the binary   *)
(* has the number of the sources it was built from and the schema that of  *)
(* the last migration applied, of which every revision brings one.         *)
(*                                                                         *)
(* A step is a command in a process group of its own.  It fails when the   *)
(* command does, when its time is over and when the server stops, and then *)
(* nothing of it runs on; what it has done by then stays.                  *)
(***************************************************************************)
EXTENDS Naturals

CONSTANTS
  LastRevision,  \* how far the branch gets
  Damaged,       \* a binary that was not written to its end
  None

VARIABLES
  branch,      \* the newest revision upstream
  source,      \* the revision of the checkout
  binary,      \* dist/Limacina
  previous,    \* dist/Limacina.previous
  schema,      \* the last migration in the database
  pinned,      \* DEPLOY_PINNED_REVISION
  running,     \* the server process is there
  stopping,    \* SIGTERM came, the process shuts down
  inProgress,  \* rebuildInProgress
  scheduled,   \* shutdownScheduled
  onShutdown,  \* the scheduled shutdown ends a rebuild
  step,        \* where the pipeline is
  unsafe       \* history: the pair was left to itself, see below

memory == <<inProgress, scheduled, onShutdown, step>>
vars == <<branch, source, binary, previous, schema, pinned, running, stopping, memory, unsafe>>

Revisions == 1..LastRevision
Steps == {"none", "pull", "verify", "install", "backup", "build", "restore", "migrate", "fail",
          "finish"}

TypeOK ==
  /\ {branch, source, schema} \subseteq Revisions
  /\ {binary, previous} \subseteq Revisions \cup {Damaged, None}
  /\ pinned \in Revisions \cup {None}
  /\ {running, stopping, inProgress, scheduled, onShutdown, unsafe} \subseteq BOOLEAN
  /\ step \in Steps

\* The first binary was built by hand, without a copy; a server that runs from
\* the sources has none.
Init ==
  /\ branch = 1 /\ source = 1 /\ schema = 1
  /\ binary \in {1, None} /\ previous = None
  /\ pinned \in Revisions \cup {None}
  /\ running = TRUE /\ stopping = FALSE
  /\ inProgress = FALSE /\ scheduled = FALSE /\ onShutdown = FALSE
  /\ step = "none" /\ unsafe = (binary = None)
-----------------------------------------------------------------------------
Proceed(from, to) == running /\ step = from /\ step' = to

\* Somebody pushes to the branch.
Push ==
  /\ branch < LastRevision /\ branch' = branch + 1
  /\ UNCHANGED <<source, binary, previous, schema, pinned, running, stopping, memory, unsafe>>

StartRebuild ==
  /\ ~scheduled /\ ~inProgress /\ Proceed("none", "pull")
  /\ inProgress' = TRUE
  /\ UNCHANGED <<branch, source, binary, previous, schema, pinned, running, stopping,
                 scheduled, onShutdown, unsafe>>

\* A step before the build fails; a copy may be left unfinished.
FailStep ==
  /\ \/ \E from \in {"pull", "verify", "install", "backup"} : Proceed(from, "fail") /\ UNCHANGED previous
     \/ binary # None /\ Proceed("backup", "fail") /\ previous' = Damaged
  /\ UNCHANGED <<branch, source, binary, schema, pinned, running, stopping,
                 inProgress, scheduled, onShutdown, unsafe>>

GitPull ==
  /\ Proceed("pull", "verify") /\ source' = branch
  /\ UNCHANGED <<branch, binary, previous, schema, pinned, running, stopping,
                 inProgress, scheduled, onShutdown, unsafe>>

VerifyPinnedRevision ==
  /\ pinned \in {None, source} /\ Proceed("verify", "install")
  /\ UNCHANGED <<branch, source, binary, previous, schema, pinned, running, stopping,
                 inProgress, scheduled, onShutdown, unsafe>>

InstallDependencies ==
  /\ Proceed("install", "backup")
  /\ UNCHANGED <<branch, source, binary, previous, schema, pinned, running, stopping,
                 inProgress, scheduled, onShutdown, unsafe>>

\* BUG: the copy that is there is taken for a copy of this binary.
BackupOnce ==
  /\ Proceed("backup", "build")
  /\ previous' = IF previous = None THEN binary ELSE previous
  /\ UNCHANGED <<branch, source, binary, schema, pinned, running, stopping,
                 inProgress, scheduled, onShutdown, unsafe>>

\* Without a binary there is nothing to copy, and an older copy stays.
BackupBinary ==
  /\ Proceed("backup", "build")
  /\ previous' = IF binary = None THEN previous ELSE binary
  /\ UNCHANGED <<branch, source, binary, schema, pinned, running, stopping,
                 inProgress, scheduled, onShutdown, unsafe>>

BuildBinary ==
  /\ \/ binary' = source /\ Proceed("build", "migrate")
     \/ binary' \in {binary, Damaged} /\ Proceed("build", "restore")
  /\ UNCHANGED <<branch, source, previous, schema, pinned, running, stopping,
                 inProgress, scheduled, onShutdown, unsafe>>

\* The command may have applied any number of migrations before it fails.
RunMigrations ==
  /\ \/ schema' = source /\ Proceed("migrate", "finish")
     \/ schema' \in schema..source /\ Proceed("migrate", "restore")
  /\ UNCHANGED <<branch, source, binary, previous, pinned, running, stopping,
                 inProgress, scheduled, onShutdown, unsafe>>

\* The copy comes back when there is one; that it cannot is logged, no more.
RestoreBinary ==
  /\ Proceed("restore", "fail")
  /\ \/ binary' = (IF previous = None THEN binary ELSE previous) /\ UNCHANGED unsafe
     \/ binary' \in {binary, Damaged} /\ unsafe' = TRUE
  /\ UNCHANGED <<branch, source, previous, schema, pinned, running, stopping,
                 inProgress, scheduled, onShutdown>>

EndFailed ==
  /\ Proceed("fail", "none") /\ inProgress' = FALSE
  /\ UNCHANGED <<branch, source, binary, previous, schema, pinned, running, stopping,
                 scheduled, onShutdown, unsafe>>

\* scheduleShutdown by the pipeline ...
Finish ==
  /\ Proceed("finish", "none")
  /\ IF scheduled THEN inProgress' = FALSE /\ UNCHANGED <<scheduled, onShutdown>>
     ELSE scheduled' = TRUE /\ onShutdown' = TRUE /\ UNCHANGED inProgress
  /\ UNCHANGED <<branch, source, binary, previous, schema, pinned, running, stopping, unsafe>>

\* ... and by restartServer.
RestartServer ==
  /\ running /\ ~inProgress /\ ~scheduled
  /\ scheduled' = TRUE /\ onShutdown' = FALSE
  /\ UNCHANGED <<branch, source, binary, previous, schema, pinned, running, stopping,
                 inProgress, step, unsafe>>

\* The timer: the process signals itself.
Shutdown ==
  /\ running /\ scheduled
  /\ stopping' = TRUE /\ scheduled' = FALSE /\ onShutdown' = FALSE
  /\ inProgress' = (inProgress /\ ~onShutdown)
  /\ UNCHANGED <<branch, source, binary, previous, schema, pinned, running, step, unsafe>>

\* Somebody else signals it.
Terminate ==
  /\ running /\ ~stopping /\ stopping' = TRUE
  /\ UNCHANGED <<branch, source, binary, previous, schema, pinned, running, memory, unsafe>>

Forget ==
  /\ inProgress' = FALSE /\ scheduled' = FALSE /\ onShutdown' = FALSE /\ step' = "none"

\* The process is gone, by itself or killed; what was being written may be left
\* unfinished.
Exit ==
  /\ running /\ running' = FALSE /\ stopping' = FALSE /\ Forget
  /\ binary' \in {binary} \cup (IF step \in {"build", "restore"} THEN {Damaged} ELSE {})
  /\ previous' \in {previous} \cup (IF step = "backup" THEN {Damaged} ELSE {})
  /\ unsafe' = (unsafe \/ step \in {"build", "restore", "migrate"})
  /\ UNCHANGED <<branch, source, schema, pinned>>

\* pm2 starts it again.
Start ==
  /\ ~running /\ running' = TRUE
  /\ UNCHANGED <<branch, source, binary, previous, schema, pinned, stopping, memory, unsafe>>

Pipeline ==
  \/ FailStep \/ GitPull \/ VerifyPinnedRevision \/ InstallDependencies \/ BackupBinary
  \/ BuildBinary \/ RunMigrations \/ RestoreBinary \/ EndFailed \/ Finish

Next ==
  \/ Push \/ StartRebuild \/ Pipeline \/ RestartServer \/ Shutdown \/ Terminate \/ Exit \/ Start

\* Every step has a timeout, and the timer of the shutdown fires.
Fairness == WF_vars(Pipeline) /\ WF_vars(Shutdown)

Spec == Init /\ [][Next]_vars /\ Fairness
-----------------------------------------------------------------------------
(***************************************************************************)
(* Binary and schema fit: outside a pipeline the binary is whole and never *)
(* newer than the schema, however steps fail.  unsafe leaves out what the  *)
(* code cannot repair: no binary to copy at first, a copy that cannot be   *)
(* restored, and a process that ends between the build and the end of the  *)
(* migrations.                                                             *)
(***************************************************************************)
PairKept ==
  ~unsafe /\ step \notin {"build", "migrate", "restore"}
    => binary \in Revisions /\ binary <= schema

(* No restart comes between the steps of a rebuild. *)
Undisturbed == step # "none" => inProgress /\ ~scheduled

(* A rebuild ends, whatever its steps do. *)
RebuildEnds == inProgress ~> ~inProgress
=============================================================================
