-------------------------------- MODULE Mods --------------------------------
(***************************************************************************)
(* The mods of the launcher: ModsService.  An upload moves its staged      *)
(* files into the directory one by one, the replaced ones aside, and takes *)
(* everything back when one fails; the list is cached.  All of that runs   *)
(* in one turn under one lock, so nothing but the end of the process comes *)
(* between its steps.  The content of a file is the number of its upload.  *)
(***************************************************************************)
EXTENDS Naturals, FiniteSets

CONSTANTS
  Names,
  MaxUploads,  \* bound: uploads that are staged
  None

VARIABLES
  uploads,     \* how many uploads there were
  disk,        \* public/launcher/mods
  promised,    \* what the acknowledged requests have made of it
  turn,        \* the upload whose turn it is, or None
  cached,      \* the cached list, or None
  dropping,    \* mutations that have yet to drop the cached list
  unfinished,  \* history: an upload could not be taken back, or was cut off
  outdated     \* history: a change that did not reach the cached list

vars == <<uploads, disk, promised, turn, cached, dropping, unfinished, outdated>>

Directory == [Names -> 1..MaxUploads \cup {None}]
Turns == [upload : 1..MaxUploads, left : SUBSET Names, committed : SUBSET Names,
          backups : Directory, step : {"put", "undo", "clean"}, failed : BOOLEAN]

TypeOK ==
  /\ uploads \in 0..MaxUploads
  /\ {disk, promised} \subseteq Directory
  /\ turn \in Turns \cup {None}
  /\ cached \in Directory \cup {None}
  /\ dropping \in 0..MaxUploads + Cardinality(Names)
  /\ {unfinished, outdated} \subseteq BOOLEAN

Nothing == [n \in Names |-> None]
Init ==
  /\ uploads = 0 /\ disk = Nothing /\ promised = Nothing /\ turn = None
  /\ cached = None /\ dropping = 0 /\ unfinished = FALSE /\ outdated = FALSE

Backups == {n \in Names : turn.backups[n] # None}
-----------------------------------------------------------------------------
StartUpload ==
  /\ turn = None /\ uploads < MaxUploads /\ uploads' = uploads + 1
  /\ \E names \in (SUBSET Names) \ {{}} :
       turn' = [upload |-> uploads', left |-> names, committed |-> {}, backups |-> Nothing,
                step |-> "put", failed |-> FALSE]
  /\ UNCHANGED <<disk, promised, cached, dropping, unfinished, outdated>>

\* backupExistingMod; it may fail, like the rename that follows it.
BackupExisting(n) ==
  /\ turn # None /\ turn.step = "put" /\ n \in turn.left /\ disk[n] # None
  /\ turn.left \cap Backups = {}
  /\ disk' = [disk EXCEPT ![n] = None] /\ turn' = [turn EXCEPT !.backups[n] = disk[n]]
  /\ UNCHANGED <<uploads, promised, cached, dropping, unfinished, outdated>>

Put(n) ==
  /\ turn # None /\ turn.step = "put" /\ n \in turn.left /\ disk[n] = None
  /\ turn.left \cap Backups \subseteq {n}
  /\ disk' = [disk EXCEPT ![n] = turn.upload]
  /\ LET left == turn.left \ {n} IN
     turn' = [turn EXCEPT !.left = left, !.committed = @ \cup {n},
                          !.step = IF left = {} THEN "clean" ELSE "put"]
  /\ UNCHANGED <<uploads, promised, cached, dropping, unfinished, outdated>>

PutFails ==
  /\ turn # None /\ turn.step = "put"
  /\ turn' = [turn EXCEPT !.step = "undo", !.failed = TRUE]
  /\ UNCHANGED <<uploads, disk, promised, cached, dropping, unfinished, outdated>>

\* BUG: the replaced mods come back before the new ones are removed.
RestoreThenRemove(removed, restored) ==
  [n \in Names |-> IF n \in removed THEN None
                   ELSE IF n \in restored THEN turn.backups[n] ELSE disk[n]]

\* rollbackMods, when removed are those it can remove and restored those it can
\* bring back.
RemoveThenRestore(removed, restored) ==
  [n \in Names |-> IF n \in restored THEN turn.backups[n]
                   ELSE IF n \in removed THEN None ELSE disk[n]]

\* What cannot be taken back is logged.
Rollback ==
  /\ turn # None /\ turn.step = "undo" /\ turn' = [turn EXCEPT !.step = "clean"]
  /\ \E removed \in SUBSET turn.committed, restored \in SUBSET Backups :
       LET whole == restored = Backups /\ turn.committed \ Backups \subseteq removed IN
       /\ disk' = RemoveThenRestore(removed, restored)
       /\ unfinished' = (unfinished \/ ~whole)
       /\ outdated' = (outdated \/ ~whole)
  /\ UNCHANGED <<uploads, promised, cached, dropping>>

\* The backups go, and those of a failed rollback with them; a failed upload
\* leaves the cached list alone.
EndUpload ==
  /\ turn # None /\ turn.step = "clean" /\ turn' = None
  /\ IF turn.failed THEN UNCHANGED <<promised, dropping>>
     ELSE /\ dropping' = dropping + 1
          /\ promised' = [n \in Names |-> IF n \in turn.committed THEN turn.upload ELSE promised[n]]
  /\ UNCHANGED <<uploads, disk, cached, unfinished, outdated>>

DeleteMod(n) ==
  /\ turn = None /\ disk[n] # None /\ dropping <= MaxUploads
  /\ disk' = [disk EXCEPT ![n] = None] /\ promised' = [promised EXCEPT ![n] = None]
  /\ dropping' = dropping + 1
  /\ UNCHANGED <<uploads, turn, cached, unfinished, outdated>>

\* invalidateCache; Redis may fail to delete, and only logs it.
InvalidateCache ==
  /\ turn = None /\ dropping > 0 /\ dropping' = dropping - 1
  /\ \/ cached' = None /\ outdated' = FALSE
     \/ UNCHANGED cached /\ outdated' = (cached # None)
  /\ UNCHANGED <<uploads, disk, promised, turn, unfinished>>

\* getMods: what is cached is answered; what is read is cached in the same turn.
GetMods ==
  /\ turn = None /\ cached = None /\ cached' = disk /\ outdated' = FALSE
  /\ UNCHANGED <<uploads, disk, promised, turn, dropping, unfinished>>

\* The time of the cached list is over, or another entry takes its place.
ExpireList ==
  /\ turn = None /\ cached # None /\ cached' = None /\ outdated' = FALSE
  /\ UNCHANGED <<uploads, disk, promised, turn, dropping, unfinished>>

\* The process ends; the list stays when it is in Redis, and the startup sweep
\* removes the backups.
Crash ==
  /\ turn' = None /\ dropping' = 0
  /\ unfinished' = (unfinished \/ disk # promised)
  /\ \/ cached' = None /\ outdated' = FALSE
     \/ UNCHANGED cached /\ outdated' = (outdated \/ turn # None \/ dropping > 0)
  /\ UNCHANGED <<uploads, disk, promised>>

Next ==
  \/ StartUpload \/ PutFails \/ Rollback \/ EndUpload \/ InvalidateCache \/ GetMods
  \/ ExpireList \/ Crash
  \/ \E n \in Names : BackupExisting(n) \/ Put(n) \/ DeleteMod(n)

Spec == Init /\ [][Next]_vars
-----------------------------------------------------------------------------
(***************************************************************************)
(* Uploads are all or nothing: between the turns the directory is what the *)
(* acknowledged requests made of it.  unfinished leaves out the upload     *)
(* that meets a second failure, of its rollback or of the process: the     *)
(* code removes the backups then, too.                                     *)
(***************************************************************************)
ModsKept == turn = None /\ ~unfinished => disk = promised

(***************************************************************************)
(* A list that stays in the cache is the directory's, once the mutations   *)
(* have dropped the older one.                                             *)
(***************************************************************************)
ListCurrent == turn = None /\ dropping = 0 /\ ~outdated => cached \in {None, disk}
=============================================================================
