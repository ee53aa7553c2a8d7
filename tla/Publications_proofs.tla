------------------------- MODULE Publications_proofs -------------------------
(***************************************************************************)
(* What is put in place under public/, for any number of publications,     *)
(* deployments, servers that start, platforms, mods and parts of a         *)
(* request, whoever stops where.                                           *)
(***************************************************************************)
EXTENDS MCPublications, Sequences, FiniteSetTheorems, TLAPS

(***************************************************************************)
(* The panel.  A deployment removes its backup only once it has put a      *)
(* panel in place, but by then another one, which stole the lock, may have *)
(* set that aside.  So the invariant asks for a copy that nobody is about  *)
(* to remove.                                                              *)
(***************************************************************************)

\* Before a deployment sets the panel aside it has no backup.
Early == {"idle", "steal", "token", "recover", "choose", "rename", "sync", "clone", "fetch",
          "install", "build", "aside"}

\* From here on a deployment removes its backup.
Removing == {"source", "rmBackup"}

CopiesTyped ==
  /\ pc \in [Panel!Actors -> Panel!Pcs]
  /\ panel \in Panel!Contents
  /\ backup \in [Deploys -> Panel!Contents]
  /\ output \in Panel!Builds \cup {None}
  /\ crossed \in BOOLEAN

NoEarlyBackup == \A p \in Deploys : pc[p] \in Early => backup[p] = None

NoEmptyDir ==
  ~crossed => /\ panel \in Panel!Contents \ {EmptyDir}
              /\ \A p \in Deploys : backup[p] \in Panel!Contents \ {EmptyDir}

SafeCopy ==
  panel \in Panel!Builds \/ \E p \in Deploys : backup[p] \in Panel!Builds /\ pc[p] \notin Removing

PanelGuarded ==
  /\ CopiesTyped /\ NoEarlyBackup /\ NoEmptyDir
  /\ ~crossed /\ current # None => SafeCopy

-----------------------------------------------------------------------------
LEMMA InitPanel == Panel!Init => PanelGuarded
  BY PublicationsAssumption
  DEF Panel!Init, PanelGuarded, CopiesTyped, NoEarlyBackup, NoEmptyDir, SafeCopy,
      Panel!Actors, Panel!Builds, Panel!Contents, Panel!Pcs

\* Steps that touch neither the panel nor a backup.
Apart(p) ==
  \/ Panel!MakeLock(p) \/ Panel!Refuse(p) \/ Panel!FindStale(p) \/ Panel!Steal(p)
  \/ Panel!WriteToken(p) \/ Panel!Sync(p) \/ Panel!Clone(p) \/ Panel!Fetch(p)
  \/ Panel!Install(p) \/ Panel!Build(p) \/ Panel!FailStep(p) \/ Panel!MoveAcross(p)
  \/ Panel!Copy(p) \/ Panel!FailMove(p) \/ Panel!ClearFails(p) \/ Panel!ReadToken(p)
  \/ Panel!RemoveLock(p) \/ Panel!Crash(p)

LEMMA ApartKeeps ==
  ASSUME NEW p \in Deploys, PanelGuarded, Apart(p)
  PROVE  PanelGuarded'
<1> USE DEF PanelGuarded, CopiesTyped, Panel!Goto, Panel!Step, Panel!Actors
<1>1. /\ UNCHANGED <<panel, backup, current, crossed>>
      /\ pc' = [pc EXCEPT ![p] = pc'[p]]
      /\ pc'[p] \in Panel!Pcs \ Removing
      /\ pc[p] \in Early \/ pc'[p] \notin Early
  BY DEF Apart, Panel!MakeLock, Panel!Refuse, Panel!FindStale, Panel!Steal, Panel!WriteToken,
         Panel!Sync, Panel!Clone, Panel!Fetch, Panel!Install, Panel!Build, Panel!FailStep,
         Panel!MoveAcross, Panel!Copy, Panel!FailMove, Panel!ClearFails, Panel!ReadToken,
         Panel!RemoveLock, Panel!Crash, Panel!files, Panel!history, Panel!Running, Early,
         Removing, Panel!Pcs
<1>2. output' \in Panel!Builds \cup {None}
  BY DEF Apart, Panel!MakeLock, Panel!Refuse, Panel!FindStale, Panel!Steal, Panel!WriteToken,
         Panel!Sync, Panel!Clone, Panel!Fetch, Panel!Install, Panel!Build, Panel!FailStep,
         Panel!MoveAcross, Panel!Copy, Panel!FailMove, Panel!ClearFails, Panel!ReadToken,
         Panel!RemoveLock, Panel!Crash, Panel!files, Panel!Builds
<1> QED BY <1>1, <1>2 DEF NoEarlyBackup, NoEmptyDir, SafeCopy

\* A backup is put back only where no whole panel is.
LEMMA RestoreKeeps ==
  ASSUME NEW p \in Panel!Actors, NEW q \in Deploys, PanelGuarded,
         pc' = [pc EXCEPT ![p] = pc'[p]], pc'[p] \in Panel!Pcs \ Removing,
         pc[p] \in Early \/ pc'[p] \notin Early,
         backup[q] # None, Panel!Vacant, Panel!Restore(q), crossed \in BOOLEAN,
         crossed => crossed', crossed' \in BOOLEAN, UNCHANGED <<output, current>>
  PROVE  PanelGuarded'
<1>1. CopiesTyped' BY DEF PanelGuarded, CopiesTyped, Panel!Restore, Panel!Contents
<1>2. NoEarlyBackup'
  <2> SUFFICES ASSUME NEW r \in Deploys, pc'[r] \in Early PROVE backup'[r] = None
    BY DEF NoEarlyBackup
  <2>1. pc[r] \in Early BY DEF PanelGuarded, CopiesTyped, Panel!Actors
  <2> QED BY <2>1 DEF PanelGuarded, CopiesTyped, NoEarlyBackup, Panel!Restore
<1>3. NoEmptyDir'
  BY PublicationsAssumption
  DEF PanelGuarded, CopiesTyped, NoEmptyDir, Panel!Restore, Panel!Contents
<1>4. ASSUME ~crossed', current' # None PROVE SafeCopy'
  <2>1. PICK r \in Deploys : backup[r] \in Panel!Builds /\ pc[r] \notin Removing
    BY <1>4, PublicationsAssumption DEF PanelGuarded, SafeCopy, Panel!Vacant, Panel!Builds
  <2>2. CASE r = q BY <2>1, <2>2 DEF SafeCopy, Panel!Restore
  <2>3. CASE r # q
    BY <2>1, <2>3 DEF PanelGuarded, CopiesTyped, SafeCopy, Panel!Restore, Panel!Actors
  <2> QED BY <2>2, <2>3
<1> QED BY <1>1, <1>2, <1>3, <1>4 DEF PanelGuarded

Recovers(a) == Panel!LookForPanel(a) \/ Panel!ChooseBackup(a) \/ Panel!RestoreChosen(a)

LEMMA RecoverKeeps ==
  ASSUME NEW a \in Panel!Actors, PanelGuarded, Recovers(a)
  PROVE  PanelGuarded'
<1>1. /\ pc' = [pc EXCEPT ![a] = pc'[a]]
      /\ pc[a] \in Early \/ pc'[a] \notin Early
      /\ pc'[a] \in Panel!Pcs \ Removing
  BY DEF Recovers, Panel!LookForPanel, Panel!ChooseBackup, Panel!RestoreChosen, Panel!Step,
         Panel!Goto, Panel!Recovered, PanelGuarded, CopiesTyped, Panel!Pcs, Removing, Early
<1>2. CASE UNCHANGED <<panel, backup, output, current, crossed>>
  BY <1>1, <1>2
  DEF PanelGuarded, CopiesTyped, NoEarlyBackup, NoEmptyDir, SafeCopy, Panel!Actors
<1>3. CASE \E q \in Panel!Backups : Panel!Vacant /\ Panel!Restore(q)
  <2>1. PICK q \in Panel!Backups : Panel!Vacant /\ Panel!Restore(q) BY <1>3
  <2>2. CASE Panel!RestoreChosen(a)
    <3>1. crossed \in BOOLEAN /\ crossed' \in BOOLEAN /\ (crossed => crossed')
      <4>1. crossed \in BOOLEAN BY DEF PanelGuarded, CopiesTyped
      <4>2. crossed' = crossed \/ \E r \in Deploys : crossed' = (crossed \/ ~Panel!Newest(r))
        BY <2>2 DEF Panel!RestoreChosen, Panel!Backups
      <4> QED BY <4>1, <4>2
    <3>2. q \in Deploys /\ backup[q] # None /\ UNCHANGED <<output, current>>
      BY <2>2 DEF Panel!RestoreChosen, Panel!Backups
    <3> QED BY <1>1, <2>1, <3>1, <3>2, RestoreKeeps
  <2>3. CASE Panel!LookForPanel(a) \/ Panel!ChooseBackup(a)
    BY <1>2, <2>3 DEF Panel!LookForPanel, Panel!ChooseBackup, Panel!files, Panel!history
  <2> QED BY <2>2, <2>3 DEF Recovers
<1> QED
  BY <1>2, <1>3
  DEF Recovers, Panel!LookForPanel, Panel!ChooseBackup, Panel!RestoreChosen, Panel!files,
      Panel!history

LEMMA GiveUpKeeps ==
  ASSUME NEW p \in Deploys, PanelGuarded, pc[p] = "clear", pc'[p] \in {"clear", "restore"},
         pc' = [pc EXCEPT ![p] = pc'[p]], panel' \in {Panel!Damaged, None},
         Panel!GiveUpPanel(p), UNCHANGED <<backup, output>>
  PROVE  PanelGuarded'
<1>1. CopiesTyped'
  BY DEF PanelGuarded, CopiesTyped, Panel!Pcs, Panel!Actors, Panel!Contents, Panel!GiveUpPanel
<1>2. NoEarlyBackup' /\ NoEmptyDir'
  BY PublicationsAssumption
  DEF PanelGuarded, CopiesTyped, NoEarlyBackup, NoEmptyDir, Early, Panel!Actors,
      Panel!Contents, Panel!GiveUpPanel
<1>3. ASSUME ~crossed', current' # None PROVE SafeCopy'
  <2>1. CASE panel \in Panel!Builds
    BY <1>3, <2>1
    DEF PanelGuarded, CopiesTyped, SafeCopy, Removing, Panel!Actors, Panel!GiveUpPanel
  <2>2. CASE panel \notin Panel!Builds
    BY <1>3, <2>2
    DEF PanelGuarded, CopiesTyped, SafeCopy, Removing, Panel!Actors, Panel!GiveUpPanel
  <2> QED BY <2>1, <2>2
<1> QED BY <1>1, <1>2, <1>3 DEF PanelGuarded

\* What a deployment does from the swap on.
Moves(p) ==
  \/ Panel!SetAside(p) \/ Panel!Move(p) \/ Panel!Place(p) \/ Panel!RemoveSource(p)
  \/ Panel!DamagePanel(p) \/ Panel!ClearPanel(p) \/ Panel!RestoreBackup(p)
  \/ Panel!RemoveBackup(p)

LEMMA MoveKeeps ==
  ASSUME NEW p \in Deploys, PanelGuarded, Moves(p)
  PROVE  PanelGuarded'
<1> USE DEF Panel!Goto, Panel!Step
<1>1. CASE Panel!SetAside(p)
  <2>1. CopiesTyped' /\ NoEmptyDir'
    BY <1>1, PublicationsAssumption
    DEF Panel!SetAside, Panel!history, PanelGuarded, CopiesTyped, NoEmptyDir, Panel!Actors,
        Panel!Pcs, Panel!Contents
  <2>2. NoEarlyBackup'
    BY <1>1 DEF Panel!SetAside, PanelGuarded, CopiesTyped, NoEarlyBackup, Panel!Actors, Early
  <2> QED
    BY <1>1, <2>1, <2>2, PublicationsAssumption
    DEF Panel!SetAside, Panel!history, PanelGuarded, CopiesTyped, NoEmptyDir, NoEarlyBackup,
        SafeCopy, Early, Removing, Panel!Actors, Panel!Builds
<1>2. CASE Panel!Move(p) \/ Panel!Place(p)
  BY <1>2, PublicationsAssumption
  DEF Panel!Move, Panel!Place, Panel!Put, PanelGuarded, CopiesTyped, NoEmptyDir,
      NoEarlyBackup, SafeCopy, Early, Panel!Actors, Panel!Pcs, Panel!Contents, Panel!Builds
<1>3. CASE Panel!RemoveSource(p)
  BY <1>3
  DEF Panel!RemoveSource, Panel!history, PanelGuarded, CopiesTyped, NoEmptyDir,
      NoEarlyBackup, SafeCopy, Early, Removing, Panel!Actors, Panel!Pcs
<1>4. CASE Panel!DamagePanel(p) \/ Panel!ClearPanel(p)
  <2>1. /\ pc'[p] \in {"clear", "restore"} /\ pc' = [pc EXCEPT ![p] = pc'[p]]
        /\ pc[p] = "clear" /\ panel' \in {Panel!Damaged, None}
        /\ Panel!GiveUpPanel(p) /\ UNCHANGED <<backup, output>>
    BY <1>4 DEF Panel!DamagePanel, Panel!ClearPanel, PanelGuarded, CopiesTyped, Panel!Actors
  <2> QED BY <2>1, GiveUpKeeps
<1>5. CASE Panel!RestoreBackup(p)
  <2>1. CASE backup[p] # None /\ Panel!Vacant /\ Panel!Restore(p)
    BY <1>5, <2>1, RestoreKeeps
    DEF Panel!RestoreBackup, Panel!history, Panel!Pcs, Removing, Early, Panel!Actors,
        PanelGuarded, CopiesTyped
  <2>2. CASE UNCHANGED <<panel, backup>>
    BY <1>5, <2>2
    DEF Panel!RestoreBackup, Panel!history, PanelGuarded, CopiesTyped, NoEarlyBackup,
        NoEmptyDir, SafeCopy, Panel!Pcs, Removing, Early, Panel!Actors
  <2> QED BY <1>5, <2>1, <2>2 DEF Panel!RestoreBackup
<1>6. CASE Panel!RemoveBackup(p)
  <2>1. /\ pc[p] = "rmBackup" /\ pc' = [pc EXCEPT ![p] = pc'[p]]
        /\ pc'[p] \in {"rmBackup", "unlock"}
        /\ backup' = [backup EXCEPT ![p] = backup'[p]]
        /\ backup'[p] \in {backup[p], Panel!Damaged, None}
        /\ UNCHANGED <<panel, output, current, crossed>>
    BY <1>6
    DEF Panel!RemoveBackup, Panel!Damage, Panel!history, PanelGuarded, CopiesTyped,
        Panel!Actors
  <2>2. CopiesTyped' /\ NoEarlyBackup' /\ NoEmptyDir'
    BY <2>1, PublicationsAssumption
    DEF PanelGuarded, CopiesTyped, NoEarlyBackup, NoEmptyDir, Panel!Actors, Panel!Pcs,
        Panel!Contents, Early
  <2>3. \A q \in Deploys : pc[q] \notin Removing => q # p
    BY <2>1 DEF Removing
  <2> QED
    BY <2>1, <2>2, <2>3
    DEF PanelGuarded, CopiesTyped, SafeCopy, Removing, Panel!Actors
<1> QED BY <1>1, <1>2, <1>3, <1>4, <1>5, <1>6 DEF Moves

Starting(s) ==
  Panel!MakePanelDir(s) \/ Panel!SweepCheck(s) \/ Panel!SweepList(s) \/ Panel!Sweep(s)

LEMMA StartKeeps ==
  ASSUME NEW s \in Starters, PanelGuarded, Starting(s)
  PROVE  PanelGuarded'
<1> USE DEF Panel!Goto, Panel!Step
<1>1. /\ pc' \in [Panel!Actors -> Panel!Pcs]
      /\ \A p \in Deploys : pc'[p] \in {pc[p], "recover", "ok", "list", "remove"}
      /\ \A p \in Deploys : pc'[p] \in Early => pc[p] \in Early
      /\ \A p \in Deploys : pc[p] \notin Removing => pc'[p] \notin Removing
  BY DEF Starting, Panel!MakePanelDir, Panel!SweepCheck, Panel!SweepList, Panel!Sweep,
         PanelGuarded, CopiesTyped, Panel!Actors, Panel!Pcs, Early, Removing
<1>2. CASE Panel!MakePanelDir(s)
  BY <1>1, <1>2
  DEF Panel!MakePanelDir, PanelGuarded, CopiesTyped, NoEmptyDir, NoEarlyBackup, SafeCopy,
      Panel!Contents
<1>3. CASE Panel!SweepCheck(s) \/ Panel!SweepList(s)
  BY <1>1, <1>3
  DEF Panel!SweepCheck, Panel!SweepList, Panel!files, Panel!history, PanelGuarded,
      CopiesTyped, NoEmptyDir, NoEarlyBackup, SafeCopy
<1>4. CASE Panel!Sweep(s)
  <2>1. UNCHANGED <<panel, output, current>> BY <1>4 DEF Panel!Sweep
  <2>2. CASE UNCHANGED <<backup, crossed>>
    BY <1>1, <2>1, <2>2
    DEF PanelGuarded, CopiesTyped, NoEmptyDir, NoEarlyBackup, SafeCopy
  <2>3. ASSUME NEW q, Panel!SweepBackup(s, q) PROVE PanelGuarded'
    <3>1. /\ backup' \in [Deploys -> Panel!Contents]
          /\ \A p \in Deploys : backup'[p] \in {backup[p], Panel!Damaged, None}
          /\ \A p \in Deploys : backup[p] = None => backup'[p] = None
      BY <2>3, PublicationsAssumption
      DEF Panel!SweepBackup, Panel!Damage, PanelGuarded, CopiesTyped, Panel!Contents,
          Panel!Builds
    <3>2. crossed' = (crossed \/ panel \notin Panel!Builds) BY <2>3 DEF Panel!SweepBackup
    <3> QED
      BY <1>1, <2>1, <3>1, <3>2, PublicationsAssumption
      DEF PanelGuarded, CopiesTyped, NoEmptyDir, NoEarlyBackup, SafeCopy, Panel!Contents
  <2> QED BY <1>4, <2>2, <2>3 DEF Panel!Sweep, Panel!SweepMoving
<1> QED BY <1>2, <1>3, <1>4 DEF Starting

LEMMA PanelStep ==
  ASSUME PanelGuarded, Panel!Next \/ UNCHANGED <<ofBoth, ofPanel>> PROVE PanelGuarded'
<1>1. CASE UNCHANGED <<ofBoth, ofPanel>>
  BY <1>1 DEF ofBoth, ofPanel, PanelGuarded, CopiesTyped, NoEarlyBackup, NoEmptyDir, SafeCopy
<1>2. ASSUME NEW p \in Deploys, Apart(p) PROVE PanelGuarded'
  BY <1>2, ApartKeeps
<1>3. ASSUME NEW p \in Deploys, Moves(p) PROVE PanelGuarded'
  BY <1>3, MoveKeeps
<1>4. ASSUME NEW s \in Starters, Starting(s) PROVE PanelGuarded'
  BY <1>4, StartKeeps
<1>5. ASSUME NEW a \in Panel!Actors, Recovers(a) PROVE PanelGuarded'
  BY <1>5, RecoverKeeps
<1> QED BY <1>1, <1>2, <1>3, <1>4, <1>5 DEF Panel!Next, Apart, Moves, Starting, Recovers

LEMMA SpecPanelGuarded == Spec => [](part = "panel" => PanelGuarded)
<1>1. Init => (part = "panel" => PanelGuarded)
  BY InitPanel DEF Init
<1>2. (part = "panel" => PanelGuarded) /\ [Next]_vars => (part = "panel" => PanelGuarded)'
  <2> SUFFICES ASSUME part = "panel" => PanelGuarded, [Next]_vars, part' = "panel"
               PROVE  PanelGuarded'
    OBVIOUS
  <2>1. part = "panel" /\ (Panel!Next \/ UNCHANGED <<ofBoth, ofPanel>>)
    BY DEF Next, vars
  <2> QED BY <2>1, PanelStep
<1> QED BY <1>1, <1>2, PTL DEF Spec

\* The panel that was put in place is served or has a backup, for any number
\* of deployments and servers, stops, stolen locks and broken removals, unless one
\* of the things happens that Panel!PanelKept names: swapPanelDirectory and the
\* recovery never remove the only copy.
THEOREM SpecPanelKept == Spec => []PanelKept
<1>1. (part = "panel" => PanelGuarded) => PanelKept
  BY PublicationsAssumption
     DEF PanelGuarded, SafeCopy, PanelKept, Panel!PanelKept, Panel!PanelKeptAtStart
<1> QED BY <1>1, SpecPanelGuarded, PTL

-----------------------------------------------------------------------------
(***************************************************************************)
(* Mods.  While an upload puts its files in place, the directory that a    *)
(* rollback would bring back is the one the acknowledged requests made,    *)
(* and it is the one a cached list shows.                                  *)
(***************************************************************************)
Before == [n \in Names |-> IF n \in turn.committed \cup Stock!Backups
                           THEN turn.backups[n] ELSE disk[n]]
TakenBack == turn = None \/ (turn.step = "clean" /\ turn.failed)
Standing == IF TakenBack THEN disk ELSE Before

ModsTyped ==
  /\ uploads \in Nat /\ dropping \in Nat
  /\ disk \in Stock!Directory /\ promised \in Stock!Directory
  /\ turn \in Stock!Turns \cup {None}

Putting == turn.step = "put" \/ (turn.step = "clean" /\ ~turn.failed)

\* The files go one by one; a replaced one is aside until its successor is in place.
InOrder ==
  turn # None =>
    /\ turn.step = "put" => ~turn.failed
    /\ turn.step = "undo" => turn.failed
    /\ Putting => /\ turn.committed \cap turn.left = {}
                  /\ Stock!Backups \subseteq turn.committed \cup turn.left
                  /\ \A n \in turn.committed : disk[n] = turn.upload
                  /\ turn.step = "clean" => turn.left = {}

ModsGuarded ==
  /\ ModsTyped /\ InOrder
  /\ ~unfinished => Standing = promised
  /\ dropping = 0 /\ ~outdated => cached \in {None, Standing}

LEMMA InitMods == Stock!Init => ModsGuarded
  BY PublicationsAssumption
     DEF Stock!Init, Stock!Nothing, Stock!Directory, ModsGuarded, ModsTyped, InOrder,
         Standing, TakenBack

\* A step that changes neither what stands nor the acknowledged requests.
LEMMA StandingKeeps ==
  ASSUME ModsGuarded, ModsTyped', InOrder', Standing' = Standing,
         UNCHANGED <<promised, unfinished, outdated, cached, dropping>>
  PROVE  ModsGuarded'
  BY DEF ModsGuarded

LEMMA StartUploadKeeps == ASSUME ModsGuarded, Stock!StartUpload PROVE ModsGuarded'
<1>1. PICK names \in (SUBSET Names) \ {{}} :
        turn' = [upload |-> uploads', left |-> names, committed |-> {},
                 backups |-> Stock!Nothing, step |-> "put", failed |-> FALSE]
  BY DEF Stock!StartUpload
<1>2. turn = None /\ uploads' = uploads + 1 /\ uploads' \in 1..MaxUploads
      /\ UNCHANGED <<disk, promised, cached, dropping, unfinished, outdated>>
  BY PublicationsAssumption DEF Stock!StartUpload, ModsGuarded, ModsTyped
<1>3. Stock!Nothing \in Stock!Directory /\ \A n \in Names : Stock!Nothing[n] = None
  BY DEF Stock!Nothing, Stock!Directory
<1>4. turn' \in Stock!Turns
  BY <1>1, <1>2, <1>3 DEF Stock!Turns
<1>5. turn' # None
  BY <1>4, PublicationsAssumption
<1>6. Stock!Backups' = {}
  BY <1>1, <1>3 DEF Stock!Backups
<1>7. ModsTyped' /\ InOrder'
  BY <1>1, <1>2, <1>4, <1>6 DEF ModsGuarded, ModsTyped, InOrder
<1>8. Standing' = Standing
  <2>1. disk = [n \in Names |-> disk[n]]
    BY DEF ModsGuarded, ModsTyped, Stock!Directory
  <2>2. Standing = disk
    BY <1>2 DEF Standing, TakenBack
  <2>3. Standing' = Before'
    BY <1>1, <1>5 DEF Standing, TakenBack
  <2>4. Before' = disk
    BY <1>1, <1>2, <1>6, <2>1 DEF Before
  <2> QED BY <2>2, <2>3, <2>4
<1> QED BY <1>2, <1>7, <1>8, StandingKeeps

LEMMA BackupKeeps ==
  ASSUME NEW n \in Names, ModsGuarded, Stock!BackupExisting(n) PROVE ModsGuarded'
<1>1. /\ turn \in Stock!Turns /\ turn # None /\ turn.step = "put"
      /\ n \in turn.left /\ disk[n] # None /\ disk \in Stock!Directory
      /\ disk' = [disk EXCEPT ![n] = None]
      /\ turn' = [turn EXCEPT !.backups[n] = disk[n]]
      /\ turn.left \cap Stock!Backups = {}
      /\ UNCHANGED <<uploads, promised, cached, dropping, unfinished, outdated>>
  BY DEF Stock!BackupExisting, ModsGuarded, ModsTyped
<1>2. /\ turn'.upload = turn.upload /\ turn'.left = turn.left
      /\ turn'.committed = turn.committed /\ turn'.step = "put"
      /\ turn'.failed = turn.failed
      /\ turn'.backups = [turn.backups EXCEPT ![n] = disk[n]]
  BY <1>1 DEF Stock!Turns
<1>3. disk' \in Stock!Directory /\ turn'.backups \in Stock!Directory
  BY <1>1, <1>2 DEF Stock!Directory, Stock!Turns
<1>4. turn' \in Stock!Turns
  BY <1>1, <1>2, <1>3 DEF Stock!Turns
<1>5. turn' # None
  BY <1>4, PublicationsAssumption
<1>6. Stock!Backups' = Stock!Backups \cup {n}
  BY <1>1, <1>2 DEF Stock!Backups, Stock!Turns, Stock!Directory
<1>7. n \notin turn.committed
  BY <1>1 DEF ModsGuarded, InOrder, Putting
<1>8. InOrder'
  BY <1>1, <1>2, <1>6, <1>7 DEF ModsGuarded, InOrder, Putting, Stock!Directory, Stock!Turns
<1>9. Standing' = Standing
  <2>1. Standing = Before /\ Standing' = Before'
    BY <1>1, <1>2, <1>5 DEF Standing, TakenBack
  <2>2. Before' = Before
    BY <1>1, <1>2, <1>6, <1>7 DEF Before, Stock!Directory, Stock!Turns
  <2> QED BY <2>1, <2>2
<1> QED BY <1>1, <1>3, <1>4, <1>8, <1>9, StandingKeeps DEF ModsGuarded, ModsTyped

LEMMA PutKeeps ==
  ASSUME NEW n \in Names, ModsGuarded, Stock!Put(n) PROVE ModsGuarded'
<1>1. /\ turn \in Stock!Turns /\ turn # None /\ turn.step = "put"
      /\ n \in turn.left /\ disk[n] = None /\ disk \in Stock!Directory
      /\ disk' = [disk EXCEPT ![n] = turn.upload]
      /\ turn.left \cap Stock!Backups \subseteq {n}
      /\ UNCHANGED <<uploads, promised, cached, dropping, unfinished, outdated>>
  BY DEF Stock!Put, ModsGuarded, ModsTyped
<1>2. /\ turn'.upload = turn.upload /\ turn'.left = turn.left \ {n}
      /\ turn'.committed = turn.committed \cup {n}
      /\ turn'.step = IF turn.left \ {n} = {} THEN "clean" ELSE "put"
      /\ turn'.failed = turn.failed /\ turn'.backups = turn.backups
      /\ turn' = [turn EXCEPT !.left = turn.left \ {n}, !.committed = turn.committed \cup {n},
                              !.step = IF turn.left \ {n} = {} THEN "clean" ELSE "put"]
  BY <1>1 DEF Stock!Put, Stock!Turns
<1>3. disk' \in Stock!Directory
  BY <1>1 DEF Stock!Directory, Stock!Turns
<1>4. turn' \in Stock!Turns
  BY <1>1, <1>2 DEF Stock!Turns
<1>5. turn' # None
  BY <1>4, PublicationsAssumption
<1>6. Stock!Backups' = Stock!Backups
  BY <1>2 DEF Stock!Backups
<1>7. InOrder'
  BY <1>1, <1>2, <1>6 DEF ModsGuarded, InOrder, Putting, Stock!Directory, Stock!Turns
<1>8. Standing' = Standing
  <2>1. Standing = Before /\ Standing' = Before'
    BY <1>1, <1>2, <1>5 DEF Standing, TakenBack, ModsGuarded, InOrder, Putting
  <2>2. Before' = Before
    BY <1>1, <1>2, <1>6 DEF Before, Stock!Backups, Stock!Directory, Stock!Turns
  <2> QED BY <2>1, <2>2
<1> QED BY <1>1, <1>3, <1>4, <1>7, <1>8, StandingKeeps DEF ModsGuarded, ModsTyped

LEMMA PutFailsKeeps == ASSUME ModsGuarded, Stock!PutFails PROVE ModsGuarded'
<1>1. /\ turn \in Stock!Turns /\ turn # None /\ turn.step = "put"
      /\ turn' = [turn EXCEPT !.step = "undo", !.failed = TRUE]
      /\ UNCHANGED <<uploads, disk, promised, cached, dropping, unfinished, outdated>>
  BY DEF Stock!PutFails, ModsGuarded, ModsTyped
<1>2. /\ turn' \in Stock!Turns /\ turn'.step = "undo"
      /\ turn'.committed = turn.committed /\ turn'.backups = turn.backups
  BY <1>1 DEF Stock!Turns
<1>3. turn' # None
  BY <1>2, PublicationsAssumption
<1>4. Standing' = Standing
  BY <1>1, <1>2, <1>3 DEF Standing, TakenBack, Before, Stock!Backups
<1> QED
  BY <1>1, <1>2, <1>4, StandingKeeps DEF ModsGuarded, ModsTyped, InOrder, Putting

LEMMA RollbackKeeps == ASSUME ModsGuarded, Stock!Rollback PROVE ModsGuarded'
<1>1. PICK removed \in SUBSET turn.committed, restored \in SUBSET Stock!Backups :
        /\ disk' = Stock!RemoveThenRestore(removed, restored)
        /\ LET whole == restored = Stock!Backups
                        /\ turn.committed \ Stock!Backups \subseteq removed
           IN  /\ unfinished' = (unfinished \/ ~whole)
               /\ outdated' = (outdated \/ ~whole)
  BY DEF Stock!Rollback
<1>2. /\ turn \in Stock!Turns /\ turn # None /\ turn.step = "undo"
      /\ turn' = [turn EXCEPT !.step = "clean"]
      /\ disk \in Stock!Directory
      /\ UNCHANGED <<uploads, promised, cached, dropping>>
  BY DEF Stock!Rollback, ModsGuarded, ModsTyped
<1>3. turn' \in Stock!Turns /\ turn'.step = "clean" /\ turn'.failed = turn.failed
  BY <1>2 DEF Stock!Turns
<1>4. turn' # None
  BY <1>3, PublicationsAssumption
<1>5. disk' \in Stock!Directory
  BY <1>1, <1>2 DEF Stock!RemoveThenRestore, Stock!Backups, Stock!Directory, Stock!Turns
<1>6. turn.failed
  BY <1>2 DEF ModsGuarded, InOrder
<1>7. Standing' = disk' /\ Standing = Before
  BY <1>2, <1>3, <1>4, <1>6 DEF Standing, TakenBack
<1>8. ~unfinished' \/ ~outdated' => disk' = Before
  <2> SUFFICES ASSUME restored = Stock!Backups, turn.committed \ Stock!Backups \subseteq removed
               PROVE  disk' = Before
    BY <1>1
  <2>1. \A n \in Names : /\ n \in turn.committed \ Stock!Backups => turn.backups[n] = None
                         /\ n \in removed => n \in turn.committed
    BY DEF Stock!Backups
  <2> QED BY <1>1, <2>1 DEF Stock!RemoveThenRestore, Before
<1>9. (~unfinished' => ~unfinished) /\ (~outdated' => ~outdated)
  BY <1>1
<1> QED
  BY <1>2, <1>3, <1>4, <1>5, <1>6, <1>7, <1>8, <1>9
  DEF ModsGuarded, ModsTyped, InOrder, Putting

LEMMA EndUploadKeeps == ASSUME ModsGuarded, Stock!EndUpload PROVE ModsGuarded'
<1>1. /\ turn \in Stock!Turns /\ turn # None /\ turn.step = "clean" /\ turn' = None
      /\ disk \in Stock!Directory /\ promised \in Stock!Directory
      /\ UNCHANGED <<uploads, disk, cached, unfinished, outdated>>
  BY DEF Stock!EndUpload, ModsGuarded, ModsTyped
<1>2. Standing' = disk
  BY <1>1 DEF Standing, TakenBack
<1>3. CASE turn.failed
  <2>1. UNCHANGED <<promised, dropping>> /\ Standing = disk
    BY <1>1, <1>3 DEF Stock!EndUpload, Standing, TakenBack
  <2> QED BY <1>1, <1>2, <2>1, StandingKeeps DEF ModsGuarded, ModsTyped, InOrder
<1>4. CASE ~turn.failed
  <2>1. /\ dropping' = dropping + 1
        /\ promised' = [n \in Names |-> IF n \in turn.committed THEN turn.upload
                                        ELSE promised[n]]
    BY <1>4 DEF Stock!EndUpload
  <2>2. promised' \in Stock!Directory
    BY <1>1, <2>1 DEF Stock!Directory, Stock!Turns
  <2>3. Standing = Before
    BY <1>1, <1>4 DEF Standing, TakenBack
  <2>4. /\ Stock!Backups \subseteq turn.committed
        /\ \A n \in turn.committed : disk[n] = turn.upload
    BY <1>1, <1>4 DEF ModsGuarded, InOrder, Putting
  <2>5. ASSUME ~unfinished PROVE disk = promised'
    <3>1. Before = promised
      BY <2>3, <2>5 DEF ModsGuarded
    <3>2. \A n \in Names : n \notin turn.committed => promised[n] = disk[n]
      BY <2>4, <3>1 DEF Before
    <3>3. \A n \in Names : disk[n] = promised'[n]
      BY <2>1, <2>4, <3>2
    <3> QED BY <1>1, <2>2, <3>3 DEF Stock!Directory
  <2> QED
    BY <1>1, <1>2, <2>1, <2>2, <2>5 DEF ModsGuarded, ModsTyped, InOrder
<1> QED BY <1>3, <1>4

LEMMA DeleteKeeps ==
  ASSUME NEW n \in Names, ModsGuarded, Stock!DeleteMod(n) PROVE ModsGuarded'
<1>1. /\ turn = None /\ disk \in Stock!Directory /\ promised \in Stock!Directory
      /\ disk' = [disk EXCEPT ![n] = None] /\ promised' = [promised EXCEPT ![n] = None]
      /\ dropping' = dropping + 1 /\ dropping \in Nat
      /\ UNCHANGED <<uploads, turn, cached, unfinished, outdated>>
  BY DEF Stock!DeleteMod, ModsGuarded, ModsTyped
<1>2. disk' \in Stock!Directory /\ promised' \in Stock!Directory
  BY <1>1 DEF Stock!Directory
<1>3. Standing = disk /\ Standing' = disk'
  BY <1>1 DEF Standing, TakenBack
<1>4. ModsTyped' /\ InOrder' /\ dropping' # 0
  BY <1>1, <1>2 DEF ModsGuarded, ModsTyped, InOrder
<1>5. ~unfinished' => disk' = promised'
  BY <1>1, <1>3 DEF ModsGuarded
<1> QED BY <1>3, <1>4, <1>5 DEF ModsGuarded

\* The list and the end of the process.
LEMMA ListKeeps ==
  ASSUME ModsGuarded,
         Stock!InvalidateCache \/ Stock!GetMods \/ Stock!ExpireList \/ Stock!Crash
  PROVE  ModsGuarded'
<1>1. /\ turn' = None /\ UNCHANGED <<uploads, disk, promised>>
      /\ dropping' \in Nat
  BY DEF Stock!InvalidateCache, Stock!GetMods, Stock!ExpireList, Stock!Crash,
         ModsGuarded, ModsTyped
<1>2. ModsTyped' /\ InOrder'
  BY <1>1 DEF ModsGuarded, ModsTyped, InOrder
<1>3. Standing' = disk
  BY <1>1 DEF Standing, TakenBack
<1>4. ~unfinished' => disk' = promised'
  <2>1. CASE Stock!Crash
    BY <1>1, <2>1 DEF Stock!Crash
  <2>2. CASE ~Stock!Crash
    BY <1>1, <2>2
    DEF Stock!InvalidateCache, Stock!GetMods, Stock!ExpireList, ModsGuarded, Standing,
        TakenBack
  <2> QED BY <2>1, <2>2
<1>5. dropping' = 0 /\ ~outdated' => cached' \in {None, disk}
  <2>1. CASE Stock!InvalidateCache
    BY <2>1 DEF Stock!InvalidateCache
  <2>2. CASE Stock!GetMods
    BY <2>2 DEF Stock!GetMods
  <2>3. CASE Stock!ExpireList
    BY <2>3 DEF Stock!ExpireList
  <2>4. CASE Stock!Crash
    <3>1. SUFFICES ASSUME UNCHANGED cached, ~outdated, turn = None, ~(dropping > 0)
                   PROVE  cached \in {None, disk}
      BY <2>4 DEF Stock!Crash
    <3>2. dropping = 0 /\ Standing = disk
      BY <3>1 DEF ModsGuarded, ModsTyped, Standing, TakenBack
    <3> QED BY <3>1, <3>2 DEF ModsGuarded
  <2> QED BY <2>1, <2>2, <2>3, <2>4
<1> QED BY <1>1, <1>2, <1>3, <1>4, <1>5 DEF ModsGuarded

LEMMA ModsStep ==
  ASSUME ModsGuarded, Stock!Next \/ UNCHANGED ofMods PROVE ModsGuarded'
<1>1. CASE UNCHANGED ofMods
  BY <1>1
  DEF ofMods, ModsGuarded, ModsTyped, InOrder, Putting, Standing, TakenBack, Before,
      Stock!Backups
<1>2. ASSUME NEW n \in Names,
             Stock!BackupExisting(n) \/ Stock!Put(n) \/ Stock!DeleteMod(n)
      PROVE  ModsGuarded'
  BY <1>2, BackupKeeps, PutKeeps, DeleteKeeps
<1> QED
  BY <1>1, <1>2, StartUploadKeeps, PutFailsKeeps, RollbackKeeps, EndUploadKeeps, ListKeeps
  DEF Stock!Next

LEMMA SpecModsGuarded == Spec => [](part = "mods" => ModsGuarded)
<1>1. Init => (part = "mods" => ModsGuarded)
  BY InitMods DEF Init
<1>2. (part = "mods" => ModsGuarded) /\ [Next]_vars => (part = "mods" => ModsGuarded)'
  <2> SUFFICES ASSUME part = "mods" => ModsGuarded, [Next]_vars, part' = "mods"
               PROVE  ModsGuarded'
    OBVIOUS
  <2>1. part = "mods" /\ (Stock!Next \/ UNCHANGED ofMods)
    BY DEF Next, vars
  <2> QED BY <2>1, ModsStep
<1> QED BY <1>1, <1>2, PTL DEF Spec

LEMMA ModsAsPromised == ModsGuarded => Stock!ModsKept /\ Stock!ListCurrent
  BY DEF ModsGuarded, Standing, TakenBack, Stock!ModsKept, Stock!ListCurrent

-----------------------------------------------------------------------------
(***************************************************************************)
(* Uploads.  The temporary files are those of the files that were read and *)
(* of the one that is being read, and the parser knows them all: so it     *)
(* leaves none, wherever it throws.                                        *)
(***************************************************************************)
Whole ==
  /\ DOMAIN held \subseteq Upload!Slots
  /\ \A s \in DOMAIN held :
       s \in DOMAIN sent /\ held[s] = sent[s] /\ held[s] <= Upload!ReadLimit(s)

AtNext ==
  at = "next" => /\ tmp = IF Upload!ToDisk THEN held ELSE Upload!NoFiles
                 /\ listed = IF Upload!ToDisk THEN DOMAIN held ELSE {}

AtStream ==
  at = "stream" =>
    /\ slot \in Upload!Slots \ DOMAIN held
    /\ slot \in DOMAIN sent /\ sent[slot] \in Nat
    /\ written \in Nat /\ written <= Upload!ReadLimit(slot)
    /\ tmp = IF Upload!ToDisk THEN Upload!With(held, slot, written) ELSE Upload!NoFiles
    /\ listed = IF kind = "release" THEN DOMAIN held \cup {slot}
                ELSE IF Upload!ToDisk THEN DOMAIN held ELSE {}

AtParsed ==
  at = "parsed" => Upload!Complete /\ tmp = IF Upload!ToDisk THEN held ELSE Upload!NoFiles

UploadGuarded ==
  /\ at \in {"next", "stream", "parsed"} => Whole
  /\ AtNext /\ AtStream /\ AtParsed
  /\ Upload!NothingLeft /\ Upload!Paired

LEMMA WithoutAll ==
  ASSUME NEW f, NEW ss, DOMAIN f \subseteq ss PROVE Upload!Without(f, ss) = Upload!NoFiles
  BY DEF Upload!Without, Upload!NoFiles

LEMMA LimitsAreNat == \A s : Upload!ReadLimit(s) \in Nat
  BY PublicationsAssumption DEF Upload!ReadLimit

LEMMA InitUpload == Upload!Init => UploadGuarded
  BY DEF Upload!Init, Upload!NoFiles, UploadGuarded, Whole, AtNext, AtStream, AtParsed,
         Upload!NothingLeft, Upload!Paired

\* The parser throws.
LEMMA RefuseKeeps ==
  ASSUME UploadGuarded, NEW removed, Upload!Refuse(removed), at \in {"next", "stream"},
         at = "stream" => removed = {slot}, UNCHANGED <<kind, taken>>
  PROVE  UploadGuarded'
<1>1. DOMAIN tmp \subseteq removed \cup listed
  BY DEF UploadGuarded, AtNext, AtStream, Upload!With, Upload!NoFiles, Upload!ToDisk
<1>2. tmp' = Upload!NoFiles /\ at' = "refused"
  BY <1>1, WithoutAll DEF Upload!Refuse
<1>3. UNCHANGED Upload!NoFiles
  BY DEF Upload!NoFiles
<1> QED
  BY <1>2, <1>3
  DEF UploadGuarded, AtNext, AtStream, AtParsed, Upload!NothingLeft, Upload!Paired

LEMMA PartKeeps ==
  ASSUME UploadGuarded, Upload!Field \/ Upload!RefusePart \/ Upload!Fail PROVE UploadGuarded'
<1>1. /\ at = "next"
      /\ Upload!Refuse({}) \/ UNCHANGED <<at, tmp>>
      /\ UNCHANGED <<kind, slot, sent, written, listed, held, taken>>
  BY DEF Upload!Field, Upload!RefusePart, Upload!Fail, Upload!NextPart
<1>2. CASE Upload!Refuse({})
  BY <1>1, <1>2, RefuseKeeps
<1>3. CASE UNCHANGED <<at, tmp>>
  BY <1>1, <1>3
  DEF UploadGuarded, Whole, AtNext, AtStream, AtParsed, Upload!NothingLeft, Upload!Paired,
      Upload!Slots, Upload!ReadLimit, Upload!ToDisk, Upload!NoFiles
<1> QED BY <1>1, <1>2, <1>3

LEMMA BeginKeeps ==
  ASSUME UploadGuarded, NEW s \in Upload!Slots, Upload!Begin(s) PROVE UploadGuarded'
<1>1. /\ at = "next" /\ at' = "stream" /\ slot' = s /\ written' = 0 /\ s \notin DOMAIN held
      /\ UNCHANGED <<kind, held, taken>>
      /\ tmp' = IF Upload!ToDisk THEN Upload!With(tmp, s, 0) ELSE tmp
      /\ listed' = IF kind = "release" THEN listed \cup {s} ELSE listed
  BY DEF Upload!Begin, Upload!NextPart
<1>2. PICK n \in Upload!Sizes : sent' = Upload!With(sent, s, n)
  BY DEF Upload!Begin
<1>3. n \in Nat
  BY <1>2, PublicationsAssumption DEF Upload!Sizes
<1>4. UNCHANGED <<Upload!Slots, Upload!ToDisk, Upload!NoFiles>>
      /\ \A x : Upload!ReadLimit(x)' = Upload!ReadLimit(x)
  BY <1>1 DEF Upload!Slots, Upload!ReadLimit, Upload!ToDisk, Upload!NoFiles
<1>5. /\ DOMAIN sent' = DOMAIN sent \cup {s} /\ sent'[s] = n
      /\ \A x \in DOMAIN sent : x # s => sent'[x] = sent[x]
  BY <1>2 DEF Upload!With
<1>6. Whole'
  BY <1>1, <1>4, <1>5 DEF UploadGuarded, Whole
<1>7. AtStream'
  <2>1. tmp' = IF Upload!ToDisk THEN Upload!With(held, s, 0) ELSE Upload!NoFiles
    BY <1>1 DEF UploadGuarded, AtNext
  <2>2. listed' = IF kind = "release" THEN DOMAIN held \cup {s}
                  ELSE IF Upload!ToDisk THEN DOMAIN held ELSE {}
    BY <1>1 DEF UploadGuarded, AtNext, Upload!ToDisk
  <2>3. Upload!With(held, slot, written)' = Upload!With(held, s, 0)
    BY <1>1 DEF Upload!With
  <2>4. 0 \in Nat /\ 0 <= Upload!ReadLimit(s)
    BY LimitsAreNat
  <2> QED BY <1>1, <1>3, <1>4, <1>5, <2>1, <2>2, <2>3, <2>4 DEF AtStream
<1> QED
  BY <1>1, <1>6, <1>7 DEF UploadGuarded, AtNext, AtParsed, Upload!NothingLeft, Upload!Paired

LEMMA ReadKeeps == ASSUME UploadGuarded, Upload!Read PROVE UploadGuarded'
<1>1. /\ at = "stream" /\ at' = "stream" /\ written < Upload!ReadLimit(slot)
      /\ written' = written + 1
      /\ tmp' = IF Upload!ToDisk THEN [tmp EXCEPT ![slot] = written'] ELSE tmp
      /\ UNCHANGED <<kind, slot, sent, listed, held, taken>>
  BY DEF Upload!Read
<1>2. UNCHANGED <<Upload!Slots, Upload!ToDisk, Upload!NoFiles>>
      /\ \A x : Upload!ReadLimit(x)' = Upload!ReadLimit(x)
  BY <1>1 DEF Upload!Slots, Upload!ReadLimit, Upload!ToDisk, Upload!NoFiles
<1>3. written \in Nat /\ written' \in Nat /\ written' <= Upload!ReadLimit(slot)
  BY <1>1, LimitsAreNat DEF UploadGuarded, AtStream
<1>4. tmp' = IF Upload!ToDisk THEN Upload!With(held, slot, written') ELSE Upload!NoFiles
  BY <1>1 DEF UploadGuarded, AtStream, Upload!With
<1>5. Upload!With(held, slot, written)' = Upload!With(held, slot, written')
  BY <1>1 DEF Upload!With
<1>6. Whole'
  BY <1>1, <1>2 DEF UploadGuarded, Whole
<1>7. AtStream'
  BY <1>1, <1>2, <1>3, <1>4, <1>5 DEF UploadGuarded, AtStream
<1> QED
  BY <1>1, <1>6, <1>7 DEF UploadGuarded, AtNext, AtParsed, Upload!NothingLeft, Upload!Paired

LEMMA KeepKeeps == ASSUME UploadGuarded, Upload!Keep PROVE UploadGuarded'
<1>1. /\ at = "stream" /\ at' = "next" /\ sent[slot] <= StreamLimit
      /\ written = Upload!Received(slot)
      /\ held' = Upload!With(held, slot, written)
      /\ listed' = IF Upload!ToDisk THEN listed \cup {slot} ELSE listed
      /\ UNCHANGED <<kind, sent, tmp, taken>>
  BY DEF Upload!Keep
<1>2. UNCHANGED <<Upload!Slots, Upload!ToDisk, Upload!NoFiles>>
      /\ \A x : Upload!ReadLimit(x)' = Upload!ReadLimit(x)
  BY <1>1 DEF Upload!Slots, Upload!ReadLimit, Upload!ToDisk, Upload!NoFiles
<1>3. slot \in Upload!Slots /\ slot \in DOMAIN sent /\ sent[slot] \in Nat
      /\ written <= Upload!ReadLimit(slot)
  BY <1>1 DEF UploadGuarded, AtStream
<1>4. written = sent[slot]
  BY <1>1, <1>3, PublicationsAssumption DEF Upload!Received
<1>5. /\ DOMAIN held' = DOMAIN held \cup {slot} /\ held'[slot] = written
      /\ \A x \in DOMAIN held : x # slot => held'[x] = held[x]
  BY <1>1 DEF Upload!With
<1>6. Whole'
  BY <1>1, <1>2, <1>3, <1>4, <1>5 DEF UploadGuarded, Whole
<1>7. AtNext'
  BY <1>1, <1>2, <1>5 DEF UploadGuarded, AtStream, AtNext, Upload!ToDisk
<1> QED
  BY <1>1, <1>6, <1>7 DEF UploadGuarded, AtStream, AtParsed, Upload!NothingLeft, Upload!Paired

LEMMA ParsedKeeps == ASSUME UploadGuarded, Upload!Parsed PROVE UploadGuarded'
<1>1. /\ at = "next" /\ at' = "parsed" /\ Upload!Complete
      /\ UNCHANGED <<kind, parts, field, slot, sent, written, tmp, listed, held, taken>>
  BY DEF Upload!Parsed
<1>2. UNCHANGED <<Upload!Slots, Upload!ToDisk, Upload!NoFiles, Upload!Complete>>
      /\ \A x : Upload!ReadLimit(x)' = Upload!ReadLimit(x)
  BY <1>1 DEF Upload!Slots, Upload!ReadLimit, Upload!ToDisk, Upload!NoFiles, Upload!Complete
<1> QED
  BY <1>1, <1>2
  DEF UploadGuarded, Whole, AtNext, AtStream, AtParsed, Upload!NothingLeft, Upload!Paired

LEMMA HandOverKeeps == ASSUME UploadGuarded, Upload!HandOver PROVE UploadGuarded'
<1>1. /\ at = "parsed" /\ at' = "done" /\ tmp' = Upload!Without(tmp, DOMAIN held)
      /\ UNCHANGED <<kind, held>>
      /\ \/ (kind = "release" => Upload!Publishable) /\ taken' = held
         \/ UNCHANGED taken
  BY DEF Upload!HandOver
<1>2. DOMAIN tmp \subseteq DOMAIN held
  BY <1>1 DEF UploadGuarded, AtParsed, Upload!NoFiles
<1>3. tmp' = Upload!NoFiles'
  BY <1>1, <1>2, WithoutAll DEF Upload!NoFiles
<1>4. Upload!Paired'
  <2>1. CASE UNCHANGED taken
    BY <1>1, <2>1 DEF UploadGuarded, Upload!Paired
  <2>2. CASE kind = "release" /\ Upload!Publishable /\ taken' = held
    <3> DEFINE ks == {k \in Names : <<k, "artifact">> \in DOMAIN held}
    <3>1. /\ DOMAIN held \subseteq Names \X {"artifact", "signature"}
          /\ \A k \in Names : <<k, "artifact">> \in DOMAIN held
                                 <=> <<k, "signature">> \in DOMAIN held
      BY <1>1, <2>2 DEF UploadGuarded, Whole, AtParsed, Upload!Slots, Upload!Complete
    <3>2. DOMAIN held = ks \X {"artifact", "signature"}
      <4>1. ASSUME NEW s \in DOMAIN held PROVE s \in ks \X {"artifact", "signature"}
        <5>1. PICK k \in Names, r \in {"artifact", "signature"} : s = <<k, r>>
          BY <3>1
        <5>2. k \in ks
          BY <3>1, <5>1
        <5> QED BY <5>1, <5>2
      <4>2. ASSUME NEW s \in ks \X {"artifact", "signature"} PROVE s \in DOMAIN held
        <5>1. PICK k \in ks, r \in {"artifact", "signature"} : s = <<k, r>>
          OBVIOUS
        <5> QED BY <3>1, <5>1
      <4> QED BY <4>1, <4>2
    <3>3. \A k \in ks : held[<<k, "signature">>] > 0
      BY <2>2, <3>1 DEF Upload!Publishable
    <3>4. ks \in SUBSET Names
      OBVIOUS
    <3> HIDE DEF ks
    <3> QED BY <2>2, <3>2, <3>3, <3>4 DEF Upload!Paired
  <2> QED BY <1>1, <2>1, <2>2 DEF Upload!Paired
<1> QED
  BY <1>1, <1>3, <1>4 DEF UploadGuarded, AtNext, AtStream, AtParsed, Upload!NothingLeft

LEMMA UploadStep ==
  ASSUME UploadGuarded, Upload!Next \/ UNCHANGED ofParts PROVE UploadGuarded'
<1>1. CASE UNCHANGED ofParts
  BY <1>1
  DEF ofParts, UploadGuarded, Whole, AtNext, AtStream, AtParsed, Upload!NothingLeft,
      Upload!Paired, Upload!Slots, Upload!ReadLimit, Upload!ToDisk, Upload!NoFiles,
      Upload!With, Upload!Complete
<1>2. CASE Upload!Break \/ Upload!Truncated
  BY <1>2, RefuseKeeps DEF Upload!Break, Upload!Truncated
<1>3. CASE Upload!Stop \/ Upload!SweepUploadTmp
  BY <1>3
  DEF Upload!Stop, Upload!SweepUploadTmp, UploadGuarded, AtNext, AtStream, AtParsed,
      Upload!NothingLeft, Upload!Paired, Upload!NoFiles
<1> QED
  BY <1>1, <1>2, <1>3, PartKeeps, BeginKeeps, ReadKeeps, KeepKeeps, ParsedKeeps, HandOverKeeps
  DEF Upload!Next

LEMMA SpecUploadGuarded == Spec => [](part = "upload" => UploadGuarded)
<1>1. Init => (part = "upload" => UploadGuarded)
  BY InitUpload DEF Init
<1>2. (part = "upload" => UploadGuarded) /\ [Next]_vars => (part = "upload" => UploadGuarded)'
  <2> SUFFICES ASSUME part = "upload" => UploadGuarded, [Next]_vars, part' = "upload"
               PROVE  UploadGuarded'
    OBVIOUS
  <2>1. part = "upload" /\ (Upload!Next \/ UNCHANGED ofParts)
    BY DEF Next, vars
  <2> QED BY <2>1, UploadStep
<1> QED BY <1>1, <1>2, PTL DEF Spec

\* Between the turns, the mods are what the acknowledged requests made of them and
\* a cached list shows them, for any number of names and uploads, whatever fails
\* and whenever the process ends; and no parser leaves a file or hands on a part of one.
THEOREM SpecModsServed == Spec => []ModsServed
<1>1. (part = "mods" => ModsGuarded) /\ (part = "upload" => UploadGuarded) => ModsServed
  BY ModsAsPromised
     DEF ModsServed, UploadGuarded, Whole, AtParsed, Upload!AllWhole
<1> QED BY <1>1, SpecModsGuarded, SpecUploadGuarded, PTL

-----------------------------------------------------------------------------
(***************************************************************************)
(* Releases.  The release is there, or a backup of it that nobody is about *)
(* to remove.  While there is none, no backup is being removed: so, unless *)
(* one was left over, there is one at most, and it is what was published   *)
(* last.  A publication that has the lock knows, once it has been through  *)
(* recovery and cleanup, that without a release there is no backup either; *)
(* so what it stages is what was published last, and stays that until it   *)
(* is in place, unless its lock is stolen meanwhile.                       *)
(***************************************************************************)

\* Before a publication sets the release aside it has no backup.
BeforeSwap == {"idle", "steal", "token", "ensure", "recover", "cleanup", "stage", "check",
               "aside"}

\* An actor has seen the backup of q, and it has looked for the release since.
Seen(a, q) ==
  pc[a] \in {"recover", "cleanup"} /\ {<<"backup", q>>, <<"doomed", q>>} \cap todo[a] # {}
Condemned(a, q) == pc[a] = "cleanup" /\ <<"doomed", q>> \in todo[a]
Spared(q) == pc[q] # "clean" /\ \A a \in Release!Actors : ~Condemned(a, q)

TodoFits ==
  \A p \in Release!Actors :
    /\ pc[p] = "recover" => todo[p] \subseteq {"backup"} \X Publications
    /\ pc[p] = "cleanup" => todo[p] \subseteq Release!Entries
    /\ pc[p] = "stage" => todo[p] \subseteq Platforms

NoneYet ==
  \A q \in Publications :
    pc[q] \in BeforeSwap => backup[q] = None /\ \A a \in Release!Actors : ~Seen(a, q)

SafeRelease == release # None \/ \E p \in Publications : backup[p] # None /\ Spared(p)
NoBackup == \A p \in Publications : backup[p] = None

OneBackup ==
  ~ambiguous /\ release = None =>
    \A p, q \in Publications : backup[p] # None /\ backup[q] # None => p = q /\ Spared(q)

AsPublished(c) == c # Release!Empty /\ (~robbed => c = latest)
FoundAsPublished ==
  Release!Published /\ ~swept /\ ~ambiguous =>
    IF release # None THEN AsPublished(release)
    ELSE \A q \in Publications : backup[q] # None => AsPublished(backup[q])

ReleaseKept ==
  /\ IF Release!Published THEN SafeRelease ELSE release = None /\ NoBackup
  /\ OneBackup /\ FoundAsPublished

\* What a publication has staged, which it brings up to date file by file.
Staged(p) ==
  /\ pc[p] \in {"recover", "cleanup"} => staging[p] = Release!Empty
  /\ pc[p] = "stage" => \A f \in Platforms \ todo[p] : staging[p][f] = latest[f]
  /\ pc[p] \in {"check", "aside", "swap"} =>
       staging[p] = [f \in Platforms |-> IF f \in files[p] THEN p ELSE latest[f]]

Own(p) ==
  /\ pc[p] \in {"check", "aside", "swap"} =>
       files[p] # {} /\ (~swept => \A f \in files[p] : staging[p][f] = p)
  /\ ~swept /\ Release!Staging(p) => staging[p] # None
  /\ ~robbed /\ Release!Swapping(p) => lock.token = p
  /\ ~robbed /\ ~ambiguous /\ lock.token = p =>
       /\ pc[p] \in {"stage", "check", "aside"} => release # None \/ NoBackup
       /\ ~swept => Staged(p)

ReleaseGuarded ==
  /\ Release!TypeOK /\ TodoFits /\ NoneYet /\ ReleaseKept
  /\ \A p \in Publications : Own(p)

-----------------------------------------------------------------------------
LEMMA EmptyTyped ==
  /\ Release!Empty \in Release!Dir /\ None # Release!Empty
  /\ Release!Empty' = Release!Empty
  BY PublicationsAssumption DEF Release!Empty, Release!Dir, Release!Uploads

LEMMA InitRelease == Release!Init => ReleaseGuarded
<1> SUFFICES ASSUME Release!Init PROVE ReleaseGuarded
  OBVIOUS
<1> USE PublicationsAssumption
<1>1. Release!TypeOK /\ TodoFits /\ NoneYet
  BY DEF Release!Init, Release!TypeOK, TodoFits, NoneYet, Seen, Release!Dir, Release!Uploads,
         Release!Empty, Release!NoLock, Release!Pcs, Release!Actors
<1>2. ReleaseKept
  <2>1. /\ \A p \in Publications : backup[p] = None
        /\ release = IF latest = Release!Empty THEN None ELSE latest
    BY DEF Release!Init
  <2>2. CASE latest = Release!Empty
    BY <2>1, <2>2 DEF ReleaseKept, NoBackup, OneBackup, FoundAsPublished, Release!Published
  <2>3. CASE latest # Release!Empty
    <3>1. release # None /\ release = latest
      BY <1>1, <2>1, <2>3 DEF Release!TypeOK
    <3> QED
      BY <2>3, <3>1
      DEF ReleaseKept, SafeRelease, OneBackup, FoundAsPublished, AsPublished,
          Release!Published
  <2> QED BY <2>2, <2>3
<1>3. \A p \in Publications : Own(p)
  BY DEF Release!Init, Own, Release!Swapping, Release!Staging, Staged, Release!Actors
<1> QED BY <1>1, <1>2, <1>3 DEF ReleaseGuarded

\* A publication elsewhere has nothing to claim.
LEMMA PlainOwn ==
  ASSUME NEW p \in Publications,
         pc[p]' \notin {"recover", "cleanup", "stage", "check", "aside", "swap", "putBack"}
  PROVE  Own(p)'
  BY DEF Own, Release!Swapping, Release!Staging, Staged

\* What an actor may do to the others.
Others(p) ==
  \A q \in Publications \ {p} :
    /\ files'[q] = files[q]
    /\ ~swept' /\ Release!Staging(q) => staging'[q] = staging[q]
    /\ lock'.token = q => lock.token = q
    /\ ~robbed' /\ Release!Swapping(q) => lock'.token = q
    /\ ~robbed' /\ lock'.token = q =>
         /\ UNCHANGED latest
         /\ release # None => release' # None
         /\ release' # None \/ \A r \in Publications : backup'[r] # None => backup[r] # None

\* One actor moves.
Turn(p) ==
  /\ pc' = [pc EXCEPT ![p] = pc'[p]] /\ todo' = [todo EXCEPT ![p] = todo'[p]]
  /\ pc'[p] = "recover" => todo'[p] \subseteq {"backup"} \X Publications
  /\ pc'[p] = "cleanup" => todo'[p] \subseteq Release!Entries
  /\ pc'[p] = "stage" => todo'[p] \subseteq Platforms
  /\ pc'[p] \in BeforeSwap => pc[p] \in BeforeSwap
  /\ \A q \in Publications : Seen(p, q)' => Seen(p, q) \/ backup[q] # None

\* A publication that another one, or a server, does not touch.
LEMMA BystanderOwn ==
  ASSUME NEW p, NEW q \in Publications \ {p}, Own(q),
         pc'[q] = pc[q], todo'[q] = todo[q], Others(p),
         robbed => robbed', swept => swept', ambiguous => ambiguous'
  PROVE  Own(q)'
<1>1. pc'[q] \in {"check", "aside", "swap"} =>
        files'[q] # {} /\ (~swept' => \A f \in files'[q] : staging'[q][f] = q)
  BY DEF Own, Others, Release!Staging
<1>2. ~swept' /\ Release!Staging(q)' => staging'[q] # None
  BY DEF Own, Others, Release!Staging
<1>3. ~robbed' /\ Release!Swapping(q)' => lock'.token = q
  BY DEF Release!Swapping, Others
<1>4. ASSUME ~robbed', ~ambiguous', lock'.token = q
      PROVE  pc'[q] \in {"stage", "check", "aside"} => release' # None \/ NoBackup'
  BY <1>4 DEF Own, Others, NoBackup
<1>5. ASSUME ~robbed', ~ambiguous', lock'.token = q, ~swept' PROVE Staged(q)'
  <2>1. Staged(q) /\ UNCHANGED latest /\ files'[q] = files[q]
    BY <1>5 DEF Own, Others
  <2>2. Release!Staging(q) => staging'[q] = staging[q]
    BY <1>5 DEF Others
  <2> QED BY <2>1, <2>2 DEF Staged, Release!Staging, Release!Empty
<1> QED BY <1>1, <1>2, <1>3, <1>4, <1>5 DEF Own

LEMMA ActorKeeps ==
  ASSUME NEW p \in Release!Actors, ReleaseGuarded, Release!TypeOK', ReleaseKept',
         Turn(p), Others(p), p \in Publications => Own(p)',
         robbed => robbed', swept => swept', ambiguous => ambiguous',
         \A q \in Publications :
           backup'[q] # None => backup[q] # None \/ (q = p /\ pc'[p] \notin BeforeSwap)
  PROVE  ReleaseGuarded'
<1>1. \A q \in Release!Actors \ {p} : pc'[q] = pc[q] /\ todo'[q] = todo[q]
  BY DEF ReleaseGuarded, Release!TypeOK, Turn
<1>2. TodoFits'
  BY <1>1 DEF ReleaseGuarded, TodoFits, Turn, Release!Actors, Release!Entries
<1>3. NoneYet'
  <2> SUFFICES ASSUME NEW q \in Publications, pc'[q] \in BeforeSwap
               PROVE  backup'[q] = None /\ \A a \in Release!Actors : ~Seen(a, q)'
    BY DEF NoneYet, Release!Actors
  <2>1. pc[q] \in BeforeSwap
    BY <1>1 DEF Turn, Release!Actors
  <2>2. backup[q] = None /\ \A a \in Release!Actors : ~Seen(a, q)
    BY <2>1 DEF ReleaseGuarded, NoneYet
  <2>3. ASSUME NEW a \in Release!Actors PROVE ~Seen(a, q)'
    <3>1. CASE a = p
      BY <2>2, <3>1 DEF Turn
    <3>2. CASE a # p
      BY <1>1, <2>2, <3>2 DEF Seen
    <3> QED BY <3>1, <3>2
  <2> QED BY <2>2, <2>3
<1>4. ASSUME NEW q \in Publications \ {p} PROVE Own(q)'
  <2>1. Own(q) /\ q \in Release!Actors \ {p}
    BY DEF ReleaseGuarded, Release!Actors
  <2> QED BY <1>1, <2>1, BystanderOwn
<1> QED BY <1>2, <1>3, <1>4 DEF ReleaseGuarded

\* Neither the release nor a backup is touched, nor is a backup condemned while
\* there is no release.
LEMMA QuietStep ==
  ASSUME NEW p \in Release!Actors, ReleaseGuarded, Release!TypeOK',
         Turn(p), Others(p), p \in Publications => Own(p)',
         UNCHANGED <<release, backup, latest>>,
         robbed => robbed', swept => swept', ambiguous => ambiguous',
         release # None \/ /\ pc'[p] # "clean"
                           /\ \A q \in Publications : Condemned(p, q)' => Condemned(p, q)
  PROVE  ReleaseGuarded'
<1>1. UNCHANGED <<Release!Published, Release!Empty>>
  BY DEF Release!Published, Release!Empty
<1>2. ASSUME release = None, NEW q \in Publications, Spared(q) PROVE Spared(q)'
  <2>1. \A a \in Release!Actors \ {p} : pc'[a] = pc[a] /\ todo'[a] = todo[a]
    BY DEF ReleaseGuarded, Release!TypeOK, Turn
  <2>2. pc'[q] # "clean"
    BY <1>2, <2>1 DEF Spared, Release!Actors
  <2>3. ASSUME NEW a \in Release!Actors PROVE ~Condemned(a, q)'
    <3>1. CASE a = p
      BY <1>2, <3>1 DEF Spared
    <3>2. CASE a # p
      BY <1>2, <2>1, <3>2 DEF Spared, Condemned
    <3> QED BY <3>1, <3>2
  <2> QED BY <2>2, <2>3 DEF Spared, Release!Actors
<1>3. IF Release!Published' THEN SafeRelease' ELSE release' = None /\ NoBackup'
  BY <1>1, <1>2 DEF ReleaseGuarded, ReleaseKept, SafeRelease, NoBackup
<1>4. OneBackup'
  BY <1>2 DEF ReleaseGuarded, ReleaseKept, OneBackup
<1>5. FoundAsPublished'
  BY <1>1 DEF ReleaseGuarded, ReleaseKept, FoundAsPublished, AsPublished
<1>6. ReleaseKept' BY <1>3, <1>4, <1>5 DEF ReleaseKept
<1> QED BY <1>6, ActorKeeps

\* An actor that keeps away from the lock and from what others stage.
LEMMA OthersKept ==
  ASSUME NEW p, ReleaseGuarded, UNCHANGED <<lock, robbed>>,
         \A q \in Publications \ {p} : files'[q] = files[q] /\ staging'[q] = staging[q],
         \A q \in Publications \ {p} : ~robbed /\ lock.token = q =>
           /\ UNCHANGED latest
           /\ release # None => release' # None
           /\ release' # None \/ \A r \in Publications : backup'[r] # None => backup[r] # None
  PROVE  Others(p)
  BY DEF ReleaseGuarded, Own, Others

LEMMA LoopStep ==
  ASSUME NEW p \in Release!Actors, ReleaseGuarded, Turn(p),
         pc'[p] \in Release!Pcs, todo'[p] \in SUBSET (Release!Entries \cup Platforms),
         UNCHANGED <<release, backup, lock, latest, robbed, swept>>,
         ambiguous' \in BOOLEAN, ambiguous => ambiguous',
         \/ UNCHANGED <<staging, files>>
         \/ /\ p \in Publications
            /\ staging' = [staging EXCEPT ![p] = staging'[p]]
            /\ staging'[p] \in Release!Dir \cup {None}
            /\ files' = [files EXCEPT ![p] = files'[p]] /\ files'[p] \subseteq Platforms,
         release # None \/ /\ pc'[p] # "clean"
                           /\ \A q \in Publications : Condemned(p, q)' => Condemned(p, q),
         p \in Publications => Own(p)'
  PROVE  ReleaseGuarded'
<1>1. /\ pc' \in [Release!Actors -> Release!Pcs]
      /\ todo' \in [Release!Actors -> SUBSET (Release!Entries \cup Platforms)]
  BY DEF ReleaseGuarded, Release!TypeOK, Turn
<1>2. /\ staging' \in [Publications -> Release!Dir \cup {None}]
      /\ files' \in [Publications -> SUBSET Platforms]
      /\ \A q \in Publications \ {p} : files'[q] = files[q] /\ staging'[q] = staging[q]
  BY DEF ReleaseGuarded, Release!TypeOK
<1>3. Release!TypeOK'
  BY <1>1, <1>2 DEF ReleaseGuarded, Release!TypeOK
<1>4. Others(p)
  BY <1>2, OthersKept
<1> QED BY <1>3, <1>4, QuietStep

-----------------------------------------------------------------------------
\* A publication that swaps while the lock goes elsewhere is robbed.
LEMMA SetLockMarks ==
  ASSUME ReleaseGuarded, NEW l, Release!SetLock(l)
  PROVE  /\ lock' = l /\ robbed' \in BOOLEAN /\ (robbed => robbed')
         /\ \A q \in Publications : ~robbed' /\ Release!Swapping(q) => l.token = q
<1>1. robbed \in BOOLEAN
  BY DEF ReleaseGuarded, Release!TypeOK
<1>2. robbed' = (robbed \/ \E q \in Publications :
                              Release!Swapping(q) /\ lock.token = q /\ l.token # q)
  BY DEF Release!SetLock
<1>3. robbed' \in BOOLEAN /\ (robbed => robbed')
  BY <1>1, <1>2
<1>4. ASSUME NEW q \in Publications, ~robbed', Release!Swapping(q) PROVE l.token = q
  <2>1. ~robbed
    BY <1>3, <1>4
  <2>2. lock.token = q
    BY <1>4, <2>1 DEF ReleaseGuarded, Own
  <2> QED BY <1>2, <1>4, <2>2
<1> QED BY <1>3, <1>4 DEF Release!SetLock

LEMMA LocksTyped ==
  ASSUME Release!TypeOK, NEW p \in Publications,
         NEW l \in {lock, [held |-> TRUE, token |-> None],
                    Release!NoLock, [lock EXCEPT !.token = p]}
  PROVE  /\ l \in [held : BOOLEAN, token : Publications \cup {None}]
         /\ l.token \in {None, p, lock.token}
<1> DEFINE Locks == [held : BOOLEAN, token : Publications \cup {None}]
<1>1. lock \in Locks
  BY DEF Release!TypeOK
<1>2. [lock EXCEPT !.token = p] \in Locks /\ [lock EXCEPT !.token = p].token = p
  BY <1>1
<1>3. /\ [held |-> TRUE, token |-> None] \in Locks
      /\ [held |-> TRUE, token |-> None].token = None
      /\ Release!NoLock \in Locks /\ Release!NoLock.token = None
  BY DEF Release!NoLock
<1> SUFFICES l \in Locks /\ l.token \in {None, p, lock.token}
  OBVIOUS
<1> HIDE DEF Locks
<1>4. CASE l = lock
  BY <1>1, <1>4
<1>5. CASE l = [held |-> TRUE, token |-> None]
  BY <1>3, <1>5
<1>6. CASE l = Release!NoLock
  BY <1>3, <1>6
<1>7. CASE l = [lock EXCEPT !.token = p]
  BY <1>2, <1>7
<1> QED BY <1>4, <1>5, <1>6, <1>7

\* Steps of a publication that touch neither directories nor a loop.
LEMMA LockStepKeeps ==
  ASSUME NEW p \in Publications, ReleaseGuarded,
         \/ Release!MakeLock(p) \/ Release!Refuse(p) \/ Release!FindStale(p)
         \/ Release!Steal(p) \/ Release!WriteToken(p) \/ Release!ReadToken(p)
         \/ Release!RemoveLock(p)
  PROVE  ReleaseGuarded'
<1> USE DEF Release!Goto
<1>1. /\ UNCHANGED <<release, staging, backup, todo, files, latest, swept, ambiguous>>
      /\ pc' = [pc EXCEPT ![p] = pc'[p]]
      /\ pc'[p] \in {"token", "ended", "steal", "idle", "ensure", "rmLock"}
      /\ pc'[p] \in {"token", "steal", "idle", "ensure"} =>
           pc[p] \in {"idle", "steal", "token"}
  BY DEF ReleaseGuarded, Release!TypeOK, Release!Actors, Release!MakeLock, Release!Refuse,
         Release!FindStale, Release!Steal, Release!WriteToken, Release!ReadToken,
         Release!RemoveLock, Release!dirs, Release!history
<1>2. PICK l \in {lock, [held |-> TRUE, token |-> None],
                  Release!NoLock, [lock EXCEPT !.token = p]} :
        Release!SetLock(l) \/ (l = lock /\ UNCHANGED <<lock, robbed>>)
  BY DEF Release!MakeLock, Release!Refuse, Release!FindStale, Release!Steal,
         Release!WriteToken, Release!ReadToken, Release!RemoveLock, Release!history
<1>3. /\ lock' = l /\ robbed' \in BOOLEAN /\ (robbed => robbed')
      /\ \A q \in Publications : ~robbed' /\ Release!Swapping(q) => lock'.token = q
  <2>1. CASE Release!SetLock(l)
    BY <2>1, SetLockMarks
  <2>2. CASE l = lock /\ UNCHANGED <<lock, robbed>>
    BY <2>2 DEF ReleaseGuarded, Release!TypeOK, Own
  <2> QED BY <1>2, <2>1, <2>2
<1>4. /\ lock' \in [held : BOOLEAN, token : Publications \cup {None}]
      /\ lock'.token \in {None, p, lock.token}
  BY <1>3, LocksTyped DEF ReleaseGuarded
<1>5. Release!TypeOK'
  BY <1>1, <1>3, <1>4 DEF ReleaseGuarded, Release!TypeOK, Release!Actors, Release!Pcs
<1>6. p \in Release!Actors /\ todo' = [todo EXCEPT ![p] = todo'[p]]
  BY <1>1 DEF ReleaseGuarded, Release!TypeOK, Release!Actors
<1>7. Turn(p)
  BY <1>1, <1>6 DEF Turn, BeforeSwap, Seen
<1>8. Own(p)'
  BY <1>1, PlainOwn
<1>9. Others(p)
  BY <1>1, <1>3, <1>4, PublicationsAssumption DEF Others
<1>10. \A q \in Publications : ~Condemned(p, q)'
  BY <1>1 DEF Condemned
<1> QED BY <1>1, <1>3, <1>5, <1>6, <1>7, <1>8, <1>9, <1>10, QuietStep

LEMMA CrashKeeps ==
  ASSUME NEW p \in Publications, ReleaseGuarded, Release!Crash(p) PROVE ReleaseGuarded'
<1>1. /\ pc' = [pc EXCEPT ![p] = "ended"] /\ todo' = [todo EXCEPT ![p] = {}]
      /\ UNCHANGED <<release, staging, backup, lock, files, latest, robbed, swept, ambiguous>>
  BY DEF Release!Crash, Release!Goto, Release!Do, Release!dirs, Release!history
<1>2. p \in Release!Actors /\ pc'[p] = "ended" /\ todo'[p] = {} /\ "ended" \in Release!Pcs
  BY <1>1 DEF ReleaseGuarded, Release!TypeOK, Release!Actors, Release!Pcs
<1>3. Turn(p)
  BY <1>1, <1>2 DEF Turn, BeforeSwap, Seen
<1>4. Own(p)'
  BY <1>2, PlainOwn
<1>5. ambiguous \in BOOLEAN
  BY DEF ReleaseGuarded, Release!TypeOK
<1> QED BY <1>1, <1>2, <1>3, <1>4, <1>5, LoopStep DEF Condemned

LEMMA BackupsNamed ==
  /\ Release!Backups \subseteq {"backup"} \X Publications
  /\ \A q \in Publications : backup[q] # None <=> <<"backup", q>> \in Release!Backups
  /\ \A q \in Publications : <<"doomed", q>> \notin Release!Backups
  BY DEF Release!Backups

\* The staging directory is made.
LEMMA EnsureKeeps ==
  ASSUME NEW p \in Publications, ReleaseGuarded, Release!Ensure(p) PROVE ReleaseGuarded'
<1> USE DEF Release!Goto, Release!Do
<1>1. /\ UNCHANGED <<release, backup, lock, files, latest, robbed, swept, ambiguous>>
      /\ pc[p] = "ensure"
      /\ \/ /\ lock.token = p /\ staging' = [staging EXCEPT ![p] = Release!Empty]
            /\ todo' = [todo EXCEPT ![p] = Release!Backups]
            /\ pc' = [pc EXCEPT ![p] = "recover"]
         \/ pc' = [pc EXCEPT ![p] = "unlock"] /\ UNCHANGED <<staging, todo>>
  BY DEF Release!Ensure, Release!history
<1>2. /\ p \in Release!Actors /\ {"recover", "unlock"} \subseteq Release!Pcs
      /\ pc \in [Release!Actors -> Release!Pcs]
      /\ todo \in [Release!Actors -> SUBSET (Release!Entries \cup Platforms)]
      /\ staging \in [Publications -> Release!Dir \cup {None}]
      /\ files = [files EXCEPT ![p] = files[p]] /\ files[p] \subseteq Platforms
      /\ ambiguous \in BOOLEAN
  BY DEF ReleaseGuarded, Release!TypeOK, Release!Actors, Release!Pcs
<1>3. CASE /\ staging' = [staging EXCEPT ![p] = Release!Empty]
           /\ todo' = [todo EXCEPT ![p] = Release!Backups]
           /\ pc' = [pc EXCEPT ![p] = "recover"]
  <2>1. pc'[p] = "recover" /\ todo'[p] = Release!Backups /\ staging'[p] = Release!Empty
    BY <1>2, <1>3
  <2>2. Turn(p)
    <3>1. \A q \in Publications : Seen(p, q)' => backup[q] # None
      BY <2>1, BackupsNamed DEF Seen
    <3> QED BY <1>1, <1>3, <2>1, <3>1, BackupsNamed DEF Turn, BeforeSwap
  <2>3. Own(p)'
    BY <2>1, EmptyTyped DEF Own, Release!Swapping, Staged
  <2>4. todo'[p] \in SUBSET (Release!Entries \cup Platforms)
    BY <2>1, BackupsNamed DEF Release!Entries
  <2>5. \A q \in Publications : ~Condemned(p, q)' /\ pc'[p] # "clean"
    BY <2>1 DEF Condemned
  <2>6. staging' = [staging EXCEPT ![p] = staging'[p]] /\ staging'[p] \in Release!Dir
    BY <1>3, <2>1, EmptyTyped
  <2> QED BY <1>1, <1>2, <2>1, <2>2, <2>3, <2>4, <2>5, <2>6, LoopStep
<1>4. CASE pc' = [pc EXCEPT ![p] = "unlock"] /\ UNCHANGED <<staging, todo>>
  <2>1. pc'[p] = "unlock" /\ todo'[p] = todo[p] /\ todo' = [todo EXCEPT ![p] = todo'[p]]
    BY <1>2, <1>4
  <2>2. Turn(p) /\ Own(p)'
    BY <1>4, <2>1, PlainOwn DEF Turn, BeforeSwap, Seen
  <2>3. \A q \in Publications : ~Condemned(p, q)' /\ pc'[p] # "clean"
    BY <2>1 DEF Condemned
  <2> QED BY <1>1, <1>2, <1>4, <2>1, <2>2, <2>3, LoopStep
<1> QED BY <1>1, <1>3, <1>4

LEMMA StartUpKeeps ==
  ASSUME NEW s \in Starters, ReleaseGuarded, Release!StartUp(s) PROVE ReleaseGuarded'
<1>1. /\ pc[s] = "idle" /\ pc' = [pc EXCEPT ![s] = "recover"]
      /\ todo' = [todo EXCEPT ![s] = Release!Backups]
      /\ UNCHANGED <<release, staging, backup, lock, files, latest, robbed, swept, ambiguous>>
  BY DEF Release!StartUp, Release!Goto, Release!Do, Release!dirs, Release!history
<1>2. s \in Release!Actors /\ s \notin Publications /\ "recover" \in Release!Pcs
  BY PublicationsAssumption DEF Release!Actors, Release!Pcs
<1>3. /\ pc' = [pc EXCEPT ![s] = pc'[s]] /\ todo' = [todo EXCEPT ![s] = todo'[s]]
      /\ pc'[s] = "recover" /\ todo'[s] = Release!Backups
  BY <1>1, <1>2 DEF ReleaseGuarded, Release!TypeOK
<1>4. Turn(s)
  <2>1. \A q \in Publications : Seen(s, q)' => backup[q] # None
    BY <1>3, BackupsNamed DEF Seen
  <2> QED BY <1>1, <1>3, <2>1, BackupsNamed DEF Turn, BeforeSwap
<1>5. todo'[s] \in SUBSET (Release!Entries \cup Platforms)
  BY <1>3, BackupsNamed DEF Release!Entries
<1>6. ambiguous \in BOOLEAN
  BY DEF ReleaseGuarded, Release!TypeOK
<1>7. \A q \in Publications : ~Condemned(s, q)' /\ pc'[s] # "clean"
  BY <1>3 DEF Condemned
<1> QED BY <1>1, <1>2, <1>3, <1>4, <1>5, <1>6, <1>7, LoopStep

-----------------------------------------------------------------------------
\* A backup that is put back, by the recovery or by the publication that made it.
LEMMA Restored ==
  ASSUME NEW b \in Publications, ReleaseGuarded, Release!Vacant, backup[b] # None,
         release' = backup[b], backup' = [backup EXCEPT ![b] = None],
         UNCHANGED <<latest, robbed, swept, ambiguous>>
  PROVE  /\ ReleaseKept' /\ release' \in Release!Dir /\ release' # None
         /\ backup' \in [Publications -> Release!Dir \cup {None}]
         /\ \A q \in Publications : backup'[q] # None => backup[q] # None
<1>1. /\ release' \in Release!Dir /\ release' # None
      /\ backup' \in [Publications -> Release!Dir \cup {None}]
      /\ \A q \in Publications : backup'[q] # None => backup[q] # None
  BY DEF ReleaseGuarded, Release!TypeOK
<1>2. Release!Published /\ UNCHANGED <<Release!Published, Release!Empty>>
  BY DEF ReleaseGuarded, ReleaseKept, NoBackup, Release!Published, Release!Empty
<1>3. ~swept /\ ~ambiguous => AsPublished(backup[b])
  BY <1>2 DEF ReleaseGuarded, ReleaseKept, FoundAsPublished, AsPublished, Release!Vacant
<1>4. FoundAsPublished'
  BY <1>1, <1>2, <1>3 DEF FoundAsPublished, AsPublished
<1> QED BY <1>1, <1>2, <1>4 DEF ReleaseKept, SafeRelease, OneBackup

\* One entry of the recovery.
LEMMA RecoverReleaseKeeps ==
  ASSUME NEW p \in Release!Actors, ReleaseGuarded, Release!Recover(p) PROVE ReleaseGuarded'
<1>1. PICK e \in todo[p] :
        /\ pc[p] = "recover"
        /\ Release!Restore(e[2]) \/ UNCHANGED <<release, backup>>
        /\ todo' = [todo EXCEPT ![p] = todo[p] \ {e}]
        /\ UNCHANGED <<staging, lock, pc, files, latest, robbed, swept, ambiguous>>
  BY DEF Release!Recover, Release!Do, Release!history
<1>2. PICK b \in Publications : e = <<"backup", b>>
  BY <1>1 DEF ReleaseGuarded, TodoFits
<1>3. /\ pc' = [pc EXCEPT ![p] = pc'[p]] /\ todo' = [todo EXCEPT ![p] = todo'[p]]
      /\ pc'[p] = "recover" /\ "recover" \in Release!Pcs /\ todo'[p] = todo[p] \ {e}
      /\ todo[p] \subseteq {"backup"} \X Publications
      /\ todo'[p] \in SUBSET (Release!Entries \cup Platforms)
      /\ ambiguous \in BOOLEAN
  BY <1>1 DEF ReleaseGuarded, Release!TypeOK, TodoFits, Release!Pcs
<1>4. Turn(p)
  BY <1>1, <1>3 DEF Turn, Seen
<1>5. CASE Release!Restore(b)
  <2>1. /\ release = None /\ backup[b] # None
        /\ release' = backup[b] /\ backup' = [backup EXCEPT ![b] = None]
    BY <1>5 DEF Release!Restore
  <2>2. /\ ReleaseKept' /\ release' \in Release!Dir /\ release' # None
        /\ backup' \in [Publications -> Release!Dir \cup {None}]
        /\ \A q \in Publications : backup'[q] # None => backup[q] # None
    BY <1>1, <2>1, Restored DEF Release!Vacant
  <2>3. Release!TypeOK'
    BY <1>1, <1>3, <2>2 DEF ReleaseGuarded, Release!TypeOK
  <2>4. ASSUME p \in Publications PROVE Own(p)'
    <3>1. Own(p) BY <2>4 DEF ReleaseGuarded
    <3> QED
      BY <1>1, <1>3, <3>1
      DEF Own, Release!Swapping, Release!Staging, Staged, Release!Empty
  <2>5. Others(p)
    BY <1>1, <2>2, OthersKept
  <2> QED BY <1>1, <1>4, <2>2, <2>3, <2>4, <2>5, ActorKeeps
<1>6. CASE UNCHANGED <<release, backup>>
  <2>1. ASSUME p \in Publications PROVE Own(p)'
    <3>1. Own(p) BY <2>1 DEF ReleaseGuarded
    <3> QED
      BY <1>1, <1>3, <3>1
      DEF Own, Release!Swapping, Release!Staging, Staged, Release!Empty
  <2>2. \A q \in Publications : ~Condemned(p, q)' /\ pc'[p] # "clean"
    BY <1>3 DEF Condemned
  <2> QED BY <1>1, <1>3, <1>4, <1>6, <2>1, <2>2, LoopStep
<1> QED BY <1>1, <1>2, <1>5, <1>6

LEMMA RecoveredKeeps ==
  ASSUME NEW p \in Release!Actors, ReleaseGuarded, Release!Recovered(p) PROVE ReleaseGuarded'
<1> DEFINE listing == Release!ServiceDirs \ {<<"staging", p>>}
<1>1. /\ pc[p] = "recover" /\ todo' = [todo EXCEPT ![p] = listing]
      /\ pc' = [pc EXCEPT ![p] = "cleanup"]
      /\ UNCHANGED <<release, staging, backup, lock, files, latest, robbed, swept, ambiguous>>
  BY DEF Release!Recovered, Release!Do, Release!Goto, Release!dirs, Release!history
<1>2. /\ listing \subseteq Release!Entries
      /\ \A q \in Publications : <<"backup", q>> \in listing => backup[q] # None
      /\ \A q \in Publications : <<"doomed", q>> \notin listing
  BY BackupsNamed DEF Release!ServiceDirs, Release!Entries
<1> HIDE DEF listing
<1>3. /\ pc' = [pc EXCEPT ![p] = pc'[p]] /\ todo' = [todo EXCEPT ![p] = todo'[p]]
      /\ pc'[p] = "cleanup" /\ todo'[p] = listing /\ "cleanup" \in Release!Pcs
      /\ ambiguous \in BOOLEAN
  BY <1>1 DEF ReleaseGuarded, Release!TypeOK, Release!Pcs
<1>4. Turn(p)
  BY <1>1, <1>2, <1>3 DEF Turn, Seen, BeforeSwap
<1>5. ASSUME p \in Publications PROVE Own(p)'
  <2>1. Own(p) BY <1>5 DEF ReleaseGuarded
  <2> QED
    BY <1>1, <1>3, <2>1
    DEF Own, Release!Swapping, Release!Staging, Staged, Release!Empty
<1>6. \A q \in Publications : ~Condemned(p, q)' /\ pc'[p] # "clean"
  BY <1>2, <1>3 DEF Condemned
<1> QED BY <1>1, <1>2, <1>3, <1>4, <1>5, <1>6, LoopStep

\* A backup is condemned while the release is there.
LEMMA DoomKeeps ==
  ASSUME NEW p \in Release!Actors, ReleaseGuarded, Release!Doom(p) PROVE ReleaseGuarded'
<1>1. PICK q \in Publications :
        /\ pc[p] = "cleanup" /\ <<"backup", q>> \in todo[p] /\ release # None
        /\ todo' = [todo EXCEPT ![p] = (todo[p] \ {<<"backup", q>>}) \cup {<<"doomed", q>>}]
        /\ UNCHANGED <<release, staging, backup, lock, pc, files, latest, robbed, swept>>
        /\ UNCHANGED ambiguous
  BY DEF Release!Doom, Release!Do, Release!dirs, Release!history
<1>2. /\ pc' = [pc EXCEPT ![p] = pc'[p]] /\ todo' = [todo EXCEPT ![p] = todo'[p]]
      /\ pc'[p] = "cleanup" /\ "cleanup" \in Release!Pcs
      /\ todo'[p] = (todo[p] \ {<<"backup", q>>}) \cup {<<"doomed", q>>}
      /\ todo[p] \subseteq Release!Entries /\ ambiguous \in BOOLEAN
  BY <1>1 DEF ReleaseGuarded, Release!TypeOK, Release!Pcs, TodoFits
<1>3. <<"doomed", q>> \in Release!Entries
  BY DEF Release!Entries
<1>4. Turn(p)
  BY <1>1, <1>2, <1>3 DEF Turn, Seen
<1>5. ASSUME p \in Publications PROVE Own(p)'
  <2>1. Own(p) BY <1>5 DEF ReleaseGuarded
  <2> QED
    BY <1>1, <1>2, <2>1
    DEF Own, Release!Swapping, Release!Staging, Staged, Release!Empty
<1> QED BY <1>1, <1>2, <1>3, <1>4, <1>5, LoopStep

\* What the removal of an entry does to the lock and to what others stage.
LEMMA RemovalSpares ==
  ASSUME NEW e \in Release!Entries, ReleaseGuarded,
         Release!RemoveEntry(e) \/ UNCHANGED <<staging, backup, lock, robbed, swept>>
  PROVE  /\ robbed' \in BOOLEAN /\ (robbed => robbed')
         /\ swept' \in BOOLEAN /\ (swept => swept')
         /\ \A q \in Publications : ~robbed' /\ Release!Swapping(q) => lock'.token = q
         /\ lock' \in [held : BOOLEAN, token : Publications \cup {None}]
         /\ \A q \in Publications : lock'.token = q => lock.token = q
         /\ staging' \in [Publications -> Release!Dir \cup {None}]
         /\ \A q \in Publications :
              ~swept' /\ Release!Staging(q) => staging'[q] = staging[q]
<1>1. /\ robbed' \in BOOLEAN /\ (robbed => robbed')
      /\ \A q \in Publications : ~robbed' /\ Release!Swapping(q) => lock'.token = q
      /\ lock' \in {lock, Release!NoLock}
  <2>1. CASE UNCHANGED <<lock, robbed>>
    BY <2>1 DEF ReleaseGuarded, Release!TypeOK, Own
  <2>2. CASE Release!SetLock(Release!NoLock)
    BY <2>2, SetLockMarks
  <2> QED BY <2>1, <2>2 DEF Release!RemoveEntry
<1>2. /\ lock' \in [held : BOOLEAN, token : Publications \cup {None}]
      /\ \A q \in Publications : lock'.token = q => lock.token = q
  <2>1. CASE lock' = lock
    BY <2>1 DEF ReleaseGuarded, Release!TypeOK
  <2>2. CASE lock' = Release!NoLock
    BY <2>2, PublicationsAssumption DEF Release!NoLock
  <2> QED BY <1>1, <2>1, <2>2
<1>3. CASE UNCHANGED <<staging, swept>>
  BY <1>1, <1>2, <1>3 DEF ReleaseGuarded, Release!TypeOK
<1>4. CASE e[1] = "staging" /\ Release!Unstage(e[2])
  <2>1. PICK q \in Publications : e[2] = q
    BY <1>4 DEF Release!Entries
  <2>2. PICK c \in {None, Release!Empty} : staging' = [staging EXCEPT ![q] = c]
    BY <1>4, <2>1 DEF Release!Unstage
  <2>3. swept' = (swept \/ Release!Staging(q)) /\ swept \in BOOLEAN
    BY <1>4, <2>1 DEF Release!Unstage, ReleaseGuarded, Release!TypeOK
  <2>4. swept' \in BOOLEAN /\ (swept => swept') /\ (~swept' => ~Release!Staging(q))
    BY <2>3
  <2>5. staging' \in [Publications -> Release!Dir \cup {None}]
    BY <2>2, EmptyTyped DEF ReleaseGuarded, Release!TypeOK
  <2> QED BY <1>1, <1>2, <2>2, <2>4, <2>5 DEF ReleaseGuarded, Release!TypeOK
<1> QED BY <1>3, <1>4 DEF Release!RemoveEntry

\* One entry of the cleanup: a backup goes only when it is condemned.
LEMMA CleanupKeeps ==
  ASSUME NEW p \in Release!Actors, ReleaseGuarded, Release!Cleanup(p) PROVE ReleaseGuarded'
<1>1. PICK e \in todo[p] :
        /\ pc[p] = "cleanup" /\ todo' = [todo EXCEPT ![p] = todo[p] \ {e}]
        /\ Release!RemoveEntry(e) \/ UNCHANGED <<staging, backup, lock, robbed, swept>>
        /\ UNCHANGED <<release, pc, files, latest, ambiguous>>
  BY DEF Release!Cleanup, Release!Do, Release!Doomed
<1>2. /\ pc' = [pc EXCEPT ![p] = pc'[p]] /\ todo' = [todo EXCEPT ![p] = todo'[p]]
      /\ pc'[p] = "cleanup" /\ todo'[p] = todo[p] \ {e}
      /\ todo[p] \subseteq Release!Entries /\ e \in Release!Entries
      /\ todo' \in [Release!Actors -> SUBSET (Release!Entries \cup Platforms)]
  BY <1>1 DEF ReleaseGuarded, Release!TypeOK, TodoFits
<1>3. /\ robbed' \in BOOLEAN /\ (robbed => robbed')
      /\ swept' \in BOOLEAN /\ (swept => swept')
      /\ \A q \in Publications : ~robbed' /\ Release!Swapping(q) => lock'.token = q
      /\ lock' \in [held : BOOLEAN, token : Publications \cup {None}]
      /\ \A q \in Publications : lock'.token = q => lock.token = q
      /\ staging' \in [Publications -> Release!Dir \cup {None}]
      /\ \A q \in Publications :
           ~swept' /\ Release!Staging(q) => staging'[q] = staging[q]
  BY <1>1, <1>2, RemovalSpares
<1>4. /\ backup' \in [Publications -> Release!Dir \cup {None}]
      /\ \A q \in Publications : backup'[q] # None => backup[q] # None
      /\ \A q \in Publications : Spared(q) => backup'[q] = backup[q]
  <2>1. CASE UNCHANGED backup
    BY <2>1 DEF ReleaseGuarded, Release!TypeOK
  <2>2. CASE /\ e[1] = "doomed"
             /\ Release!Damage(e[2]) \/ backup' = [backup EXCEPT ![e[2]] = None]
    <3>1. PICK q \in Publications : e = <<"doomed", q>>
      BY <1>2, <2>2 DEF Release!Entries
    <3>2. ~Spared(q)
      BY <1>1, <3>1 DEF Spared, Condemned
    <3>3. PICK c \in {None, Release!Empty} :
            backup' = [backup EXCEPT ![q] = c] /\ (backup[q] = None => c = None)
      BY <2>2, <3>1 DEF Release!Damage
    <3> QED BY <3>2, <3>3, EmptyTyped DEF ReleaseGuarded, Release!TypeOK
  <2> QED BY <1>1, <2>1, <2>2 DEF Release!RemoveEntry
<1>5. Release!TypeOK'
  BY <1>1, <1>2, <1>3, <1>4 DEF ReleaseGuarded, Release!TypeOK
<1>6. Turn(p)
  BY <1>1, <1>2 DEF Turn, Seen
<1>7. ASSUME NEW q \in Publications, Spared(q) PROVE Spared(q)'
  <2>1. \A a \in Release!Actors : todo'[a] \subseteq todo[a]
    BY <1>2 DEF ReleaseGuarded, Release!TypeOK
  <2> QED BY <1>1, <1>7, <2>1 DEF Spared, Condemned, Release!Actors
<1>8. ReleaseKept'
  <2>1. UNCHANGED <<Release!Published, Release!Empty>>
    BY <1>1 DEF Release!Published, Release!Empty
  <2>2. IF Release!Published' THEN SafeRelease' ELSE release' = None /\ NoBackup'
    BY <1>1, <1>4, <1>7, <2>1 DEF ReleaseGuarded, ReleaseKept, SafeRelease, NoBackup
  <2>3. OneBackup'
    BY <1>1, <1>4, <1>7 DEF ReleaseGuarded, ReleaseKept, OneBackup
  <2>4. FoundAsPublished'
    <3> SUFFICES ASSUME Release!Published, ~swept', ~ambiguous
                 PROVE  IF release # None THEN AsPublished(release)'
                        ELSE \A q \in Publications :
                               backup'[q] # None => AsPublished(backup[q])'
      BY <1>1, <2>1 DEF FoundAsPublished
    <3>1. CASE release # None
      BY <1>1, <1>3, <2>1, <3>1
      DEF ReleaseGuarded, ReleaseKept, FoundAsPublished, AsPublished
    <3>2. CASE release = None
      <4>1. \A q \in Publications : backup[q] # None => backup'[q] = backup[q]
        BY <1>4, <3>2 DEF ReleaseGuarded, ReleaseKept, OneBackup
      <4> QED
        BY <1>1, <1>3, <1>4, <2>1, <3>2, <4>1
        DEF ReleaseGuarded, ReleaseKept, FoundAsPublished, AsPublished
    <3> QED BY <3>1, <3>2
  <2> QED BY <2>2, <2>3, <2>4 DEF ReleaseKept
<1>9. ASSUME p \in Publications PROVE Own(p)'
  <2>1. Own(p)
    BY <1>9 DEF ReleaseGuarded
  <2>2. ~swept' => staging'[p] = staging[p] /\ staging[p] # None
    BY <1>1, <1>3, <1>9, <2>1 DEF Own, Release!Staging
  <2>3. ~robbed' /\ ~ambiguous /\ lock'.token = p /\ ~swept' => staging'[p] = Release!Empty
    BY <1>1, <1>3, <1>9, <2>1, <2>2 DEF Own, Staged
  <2> QED
    BY <1>1, <1>2, <2>2, <2>3, EmptyTyped
    DEF Own, Release!Swapping, Release!Staging, Staged
<1>10. Others(p)
  BY <1>1, <1>3, <1>4 DEF Others
<1> QED BY <1>1, <1>3, <1>4, <1>5, <1>6, <1>8, <1>9, <1>10, ActorKeeps

\* What is to be staged is what the release has; without one there is nothing.
LEMMA CleanedKeeps ==
  ASSUME NEW p \in Release!Actors, ReleaseGuarded, Release!Cleaned(p) PROVE ReleaseGuarded'
<1> DEFINE left == IF release = None THEN {} ELSE {f \in Platforms : release[f] # None}
<1>1. /\ pc[p] = "cleanup" /\ todo[p] = {}
      /\ IF p \in Starters THEN pc' = [pc EXCEPT ![p] = "ended"] /\ UNCHANGED todo
         ELSE /\ pc' = [pc EXCEPT ![p] = "stage"] /\ todo' = [todo EXCEPT ![p] = left]
      /\ ambiguous' = (ambiguous \/ (p \in Publications /\ release = None
                                     /\ Release!Backups # {}))
      /\ UNCHANGED <<release, staging, backup, lock, files, latest, robbed, swept>>
  BY DEF Release!Cleaned, Release!Do, Release!Goto, Release!dirs
<1>2. left \subseteq Platforms
  OBVIOUS
<1>3. /\ pc \in [Release!Actors -> Release!Pcs]
      /\ todo \in [Release!Actors -> SUBSET (Release!Entries \cup Platforms)]
      /\ ambiguous \in BOOLEAN /\ {"ended", "stage"} \subseteq Release!Pcs
  BY DEF ReleaseGuarded, Release!TypeOK, Release!Pcs
<1>4. /\ pc' = [pc EXCEPT ![p] = pc'[p]] /\ todo' = [todo EXCEPT ![p] = todo'[p]]
      /\ pc'[p] \in {"ended", "stage"} /\ todo'[p] \subseteq Platforms
      /\ p \in Publications => pc'[p] = "stage" /\ todo'[p] = left
  <2> HIDE DEF left
  <2>1. CASE p \in Starters
    BY <1>1, <1>3, <2>1, PublicationsAssumption
  <2>2. CASE p \notin Starters
    BY <1>1, <1>2, <1>3, <2>2
  <2> QED BY <2>1, <2>2
<1>5. ambiguous' \in BOOLEAN /\ (ambiguous => ambiguous')
  BY <1>1, <1>3
<1>6. Turn(p)
  BY <1>1, <1>4 DEF Turn, Seen, BeforeSwap
<1>7. ASSUME p \in Publications PROVE Own(p)'
  <2>1. Own(p) /\ pc'[p] = "stage"
    BY <1>4, <1>7 DEF ReleaseGuarded
  <2>2. ~ambiguous' => release # None \/ NoBackup
    BY <1>1, <1>7, BackupsNamed DEF NoBackup
  <2>3. ASSUME ~robbed, lock.token = p, ~ambiguous', ~swept, NEW f \in Platforms \ left
        PROVE  staging[p][f] = latest[f]
    <3>1. staging[p] = Release!Empty
      BY <1>1, <1>5, <2>1, <2>3 DEF Own, Staged
    <3>2. CASE release = None
      <4>1. latest = Release!Empty
        BY <2>2, <2>3, <3>2
        DEF ReleaseGuarded, ReleaseKept, SafeRelease, NoBackup, Release!Published
      <4> QED BY <3>1, <4>1
    <3>3. CASE release # None
      <4>1. release = latest
        BY <1>5, <2>3, <3>3
        DEF ReleaseGuarded, ReleaseKept, FoundAsPublished, AsPublished
      <4>2. release[f] = None
        BY <2>3, <3>3
      <4> QED BY <3>1, <4>1, <4>2 DEF Release!Empty
    <3> QED BY <3>2, <3>3
  <2>4. ~swept => staging[p] # None
    BY <1>1, <2>1 DEF Own, Release!Staging
  <2> HIDE DEF left
  <2>5. todo'[p] = left
    BY <1>4, <1>7
  <2> QED
    BY <1>1, <2>1, <2>2, <2>3, <2>4, <2>5
    DEF Own, Release!Swapping, Staged, NoBackup
<1>8. \A q \in Publications : ~Condemned(p, q)' /\ pc'[p] # "clean"
  BY <1>4 DEF Condemned
<1>9. pc'[p] \in Release!Pcs /\ todo'[p] \in SUBSET (Release!Entries \cup Platforms)
  BY <1>3, <1>4
<1> QED BY <1>1, <1>4, <1>5, <1>6, <1>7, <1>8, <1>9, LoopStep

-----------------------------------------------------------------------------
\* A step of a publication that changes only what it has staged.
LEMMA StagingKeeps ==
  ASSUME NEW p \in Publications, ReleaseGuarded,
         pc' = [pc EXCEPT ![p] = pc'[p]],
         pc'[p] \in Release!Pcs \ {"clean", "recover", "cleanup"},
         pc'[p] \in BeforeSwap => pc[p] \in BeforeSwap,
         pc'[p] = "stage" => pc[p] = "stage",
         todo' = [todo EXCEPT ![p] = todo'[p]], todo'[p] \subseteq todo[p],
         staging' = [staging EXCEPT ![p] = staging'[p]],
         staging'[p] \in Release!Dir \cup {None},
         files' = [files EXCEPT ![p] = files'[p]], files'[p] \subseteq Platforms,
         UNCHANGED <<release, backup, lock, latest, robbed, swept, ambiguous>>,
         Own(p)'
  PROVE  ReleaseGuarded'
<1>1. p \in Release!Actors /\ todo'[p] \in SUBSET (Release!Entries \cup Platforms)
  BY DEF ReleaseGuarded, Release!TypeOK, Release!Actors
<1>2. pc'[p] = "stage" => todo'[p] \subseteq Platforms
  BY <1>1 DEF ReleaseGuarded, TodoFits
<1>3. Turn(p)
  BY <1>2 DEF Turn, Seen
<1>4. pc'[p] # "clean" /\ \A q \in Publications : ~Condemned(p, q)'
  BY DEF Condemned
<1>5. ambiguous \in BOOLEAN
  BY DEF ReleaseGuarded, Release!TypeOK
<1> QED BY <1>1, <1>3, <1>4, <1>5, LoopStep

LEMMA StagesTyped ==
  ASSUME NEW p \in Publications, ReleaseGuarded
  PROVE  /\ Own(p) /\ p \in Release!Actors
         /\ pc \in [Release!Actors -> Release!Pcs]
         /\ todo \in [Release!Actors -> SUBSET (Release!Entries \cup Platforms)]
         /\ todo = [todo EXCEPT ![p] = todo[p]]
         /\ staging \in [Publications -> Release!Dir \cup {None}]
         /\ staging = [staging EXCEPT ![p] = staging[p]]
         /\ staging[p] \in Release!Dir \cup {None}
         /\ backup \in [Publications -> Release!Dir \cup {None}]
         /\ files \in [Publications -> SUBSET Platforms]
         /\ files = [files EXCEPT ![p] = files[p]] /\ files[p] \subseteq Platforms
         /\ release \in Release!Dir \cup {None} /\ latest \in Release!Dir
         /\ {robbed, swept, ambiguous} \subseteq BOOLEAN
         /\ {"check", "aside", "swap", "putBack", "clean", "abort", "unlock"}
              \subseteq Release!Pcs
  BY DEF ReleaseGuarded, Release!TypeOK, Release!Actors, Release!Pcs

\* A publication that gives up.
LEMMA AbortKeeps ==
  ASSUME NEW p \in Publications, ReleaseGuarded,
         pc' = [pc EXCEPT ![p] = "abort"] \/ pc' = [pc EXCEPT ![p] = "unlock"],
         todo' = todo \/ todo' = [todo EXCEPT ![p] = {}],
         staging' = staging \/ staging' = [staging EXCEPT ![p] = None],
         UNCHANGED <<release, backup, lock, files, latest, robbed, swept, ambiguous>>
  PROVE  ReleaseGuarded'
<1>1. pc'[p] \in {"abort", "unlock"} /\ pc' = [pc EXCEPT ![p] = pc'[p]]
  BY StagesTyped
<1>2. todo' = [todo EXCEPT ![p] = todo'[p]] /\ todo'[p] \subseteq todo[p]
  BY StagesTyped
<1>3. /\ staging' = [staging EXCEPT ![p] = staging'[p]]
      /\ staging'[p] \in Release!Dir \cup {None}
  BY StagesTyped
<1>4. Own(p)'
  BY <1>1, PlainOwn
<1>5. files' = [files EXCEPT ![p] = files'[p]] /\ files'[p] \subseteq Platforms
  BY StagesTyped
<1>6. pc'[p] \in Release!Pcs \ {"clean", "recover", "cleanup"} /\ pc'[p] \notin BeforeSwap
  BY <1>1, StagesTyped DEF BeforeSwap
<1> QED BY <1>1, <1>2, <1>3, <1>4, <1>5, <1>6, StagingKeeps

LEMMA StageKeeps ==
  ASSUME NEW p \in Publications, ReleaseGuarded, Release!StageExisting(p) PROVE ReleaseGuarded'
<1>1. PICK f \in todo[p] :
        /\ pc[p] = "stage"
        /\ \/ /\ release # None /\ staging[p] # None
              /\ staging' = [staging EXCEPT ![p][f] = release[f]]
              /\ todo' = [todo EXCEPT ![p] = todo[p] \ {f}] /\ UNCHANGED pc
           \/ /\ pc' = [pc EXCEPT ![p] = "abort"] /\ todo' = [todo EXCEPT ![p] = {}]
              /\ UNCHANGED staging
        /\ UNCHANGED <<release, backup, lock, files, latest, robbed, swept, ambiguous>>
  BY DEF Release!StageExisting, Release!Goto, Release!Do, Release!history
<1>2. f \in Platforms
  BY <1>1, StagesTyped DEF ReleaseGuarded, TodoFits
<1>3. CASE /\ pc' = [pc EXCEPT ![p] = "abort"] /\ todo' = [todo EXCEPT ![p] = {}]
           /\ UNCHANGED staging
  BY <1>1, <1>3, AbortKeeps
<1>4. CASE /\ release # None /\ staging[p] # None
           /\ staging' = [staging EXCEPT ![p][f] = release[f]]
           /\ todo' = [todo EXCEPT ![p] = todo[p] \ {f}] /\ UNCHANGED pc
  <2>1. staging'[p] = [staging[p] EXCEPT ![f] = release[f]]
    BY <1>4, StagesTyped
  <2>2. staging'[p] \in Release!Dir
    BY <1>2, <1>4, <2>1, StagesTyped DEF Release!Dir
  <2>3. todo'[p] = todo[p] \ {f} /\ pc'[p] = "stage" /\ "stage" \in Release!Pcs
    BY <1>1, <1>4, StagesTyped DEF Release!Pcs
  <2>4. ASSUME ~robbed, lock.token = p, ~ambiguous, ~swept, NEW g \in Platforms \ todo'[p]
        PROVE  staging'[p][g] = latest[g]
    <3>1. CASE g = f
      <4>1. release = latest
        BY <1>4, <2>4 DEF ReleaseGuarded, ReleaseKept, FoundAsPublished, AsPublished
      <4> QED BY <1>2, <1>4, <2>1, <3>1, <4>1, StagesTyped DEF Release!Dir
    <3>2. CASE g # f
      <4>1. staging[p][g] = latest[g]
        BY <1>1, <1>4, <2>3, <2>4, <3>2, StagesTyped DEF Own, Staged
      <4> QED BY <1>2, <1>4, <2>1, <3>2, <4>1, StagesTyped DEF Release!Dir
    <3> QED BY <3>1, <3>2
  <2>5. staging'[p] # None
    BY <2>2, PublicationsAssumption
  <2>6. Own(p)'
    BY <1>1, <1>4, <2>3, <2>4, <2>5, StagesTyped
    DEF Own, Release!Swapping, Staged, NoBackup
  <2>7. pc' = [pc EXCEPT ![p] = pc'[p]] /\ todo' = [todo EXCEPT ![p] = todo'[p]]
    BY <1>4, <2>3, StagesTyped
  <2>8. staging' = [staging EXCEPT ![p] = staging'[p]]
    BY <1>4, <2>1, StagesTyped
  <2> QED BY <1>1, <2>2, <2>3, <2>6, <2>7, <2>8, StagesTyped, StagingKeeps
<1> QED BY <1>1, <1>3, <1>4

LEMMA CommitKeeps ==
  ASSUME NEW p \in Publications, ReleaseGuarded, Release!Commit(p) PROVE ReleaseGuarded'
<1>1. /\ pc[p] = "stage" /\ todo[p] = {}
      /\ UNCHANGED <<release, backup, lock, todo, latest, robbed, swept, ambiguous>>
  BY DEF Release!Commit, Release!history
<1>2. CASE pc' = [pc EXCEPT ![p] = "abort"] /\ UNCHANGED <<staging, files>>
  BY <1>1, <1>2, AbortKeeps
<1>3. CASE \E given \in (SUBSET Platforms) \ {{}} :
             /\ staging[p] # None
             /\ staging' = [staging EXCEPT ![p] =
                  [f \in Platforms |-> IF f \in given THEN p ELSE staging[p][f]]]
             /\ files' = [files EXCEPT ![p] = given]
             /\ pc' = [pc EXCEPT ![p] = "check"]
  <2>1. PICK given \in (SUBSET Platforms) \ {{}} :
          /\ staging[p] # None
          /\ staging' = [staging EXCEPT ![p] =
               [f \in Platforms |-> IF f \in given THEN p ELSE staging[p][f]]]
          /\ files' = [files EXCEPT ![p] = given]
          /\ pc' = [pc EXCEPT ![p] = "check"]
    BY <1>3
  <2> DEFINE committed == [f \in Platforms |-> IF f \in given THEN p ELSE staging[p][f]]
  <2>2. committed \in Release!Dir
    BY <2>1, StagesTyped DEF Release!Dir, Release!Uploads
  <2>3. staging'[p] = committed /\ pc'[p] = "check" /\ files'[p] = given
    BY <2>1, StagesTyped
  <2>4. (\A f \in given : committed[f] = p) /\ committed # None
    BY <2>2, PublicationsAssumption
  <2>5. ASSUME ~robbed, lock.token = p, ~ambiguous, ~swept
        PROVE  committed = [f \in Platforms |-> IF f \in given THEN p ELSE latest[f]]
    BY <1>1, <2>5, StagesTyped DEF Own, Staged
  <2>6. /\ pc' = [pc EXCEPT ![p] = pc'[p]] /\ staging' = [staging EXCEPT ![p] = staging'[p]]
        /\ files' = [files EXCEPT ![p] = files'[p]]
    BY <2>1, <2>3
  <2> HIDE DEF committed
  <2>7. Own(p)'
    BY <1>1, <2>3, <2>4, <2>5, StagesTyped, ZenonT(60) DEF Own, Release!Swapping, Staged, NoBackup
  <2>8. "check" \in Release!Pcs /\ todo' = [todo EXCEPT ![p] = todo'[p]]
    BY <1>1, StagesTyped
  <2> QED BY <1>1, <2>2, <2>3, <2>6, <2>7, <2>8, StagingKeeps DEF BeforeSwap
<1> QED BY <1>2, <1>3 DEF Release!Commit, Release!Goto

\* The check of the lock, and the end of a publication that failed.
LEMMA CheckKeeps ==
  ASSUME NEW p \in Publications, ReleaseGuarded, Release!Check(p) \/ Release!Abort(p)
  PROVE  ReleaseGuarded'
<1>1. CASE Release!Check(p) /\ lock.token = p
  <2>1. /\ pc[p] = "check" /\ pc' = [pc EXCEPT ![p] = "aside"]
        /\ UNCHANGED <<release, staging, backup, lock, todo, files, latest>>
        /\ UNCHANGED <<robbed, swept, ambiguous>>
    BY <1>1 DEF Release!Check, Release!Goto, Release!dirs, Release!history
  <2>2. pc'[p] = "aside" /\ pc' = [pc EXCEPT ![p] = pc'[p]] /\ "aside" \in Release!Pcs
    BY <2>1, StagesTyped
  <2>3. Own(p)'
    BY <1>1, <2>1, <2>2, StagesTyped
    DEF Own, Release!Swapping, Release!Staging, Staged, NoBackup
  <2>4. /\ todo' = [todo EXCEPT ![p] = todo'[p]] /\ staging' = [staging EXCEPT ![p] = staging'[p]]
        /\ files' = [files EXCEPT ![p] = files'[p]] /\ files'[p] \subseteq Platforms
        /\ staging'[p] \in Release!Dir \cup {None}
    BY <2>1, StagesTyped
  <2> QED BY <2>1, <2>2, <2>3, <2>4, StagingKeeps DEF BeforeSwap
<1>2. CASE Release!Check(p) /\ lock.token # p
  BY <1>2, AbortKeeps DEF Release!Check, Release!Goto, Release!dirs, Release!history
<1>3. CASE Release!Abort(p)
  BY <1>3, AbortKeeps DEF Release!Abort, Release!Goto, Release!history
<1> QED BY <1>1, <1>2, <1>3

-----------------------------------------------------------------------------
\* swapReleaseDir.  The steps of a publication that changes the release or a backup.
LEMMA SwapStep ==
  ASSUME NEW p \in Publications, ReleaseGuarded, Release!Swapping(p) \/ pc[p] = "clean",
         pc' = [pc EXCEPT ![p] = pc'[p]], pc'[p] \in {"swap", "clean", "abort", "unlock"},
         pc[p] = "clean" => release' = release /\ latest' = latest,
         release' \in Release!Dir \cup {None}, latest' \in Release!Dir,
         backup' = [backup EXCEPT ![p] = backup'[p]],
         backup'[p] \in Release!Dir \cup {None},
         pc[p] = "clean" => (backup'[p] # None => backup[p] # None),
         staging' = [staging EXCEPT ![p] = staging'[p]],
         staging'[p] \in Release!Dir \cup {None},
         ambiguous' \in BOOLEAN, ambiguous => ambiguous',
         UNCHANGED <<lock, todo, files, robbed, swept>>,
         ReleaseKept', Own(p)'
  PROVE  ReleaseGuarded'
<1>1. Release!TypeOK'
  <2>1. pc' \in [Release!Actors -> Release!Pcs]
    BY StagesTyped
  <2>2. /\ staging' \in [Publications -> Release!Dir \cup {None}]
        /\ backup' \in [Publications -> Release!Dir \cup {None}]
    BY StagesTyped
  <2> QED BY <2>1, <2>2 DEF ReleaseGuarded, Release!TypeOK
<1>2. /\ \A q \in Publications \ {p} : staging'[q] = staging[q]
      /\ \A q \in Publications \ {p} : backup'[q] = backup[q]
      /\ todo' = [todo EXCEPT ![p] = todo'[p]]
  BY StagesTyped
<1>3. ASSUME NEW q \in Publications \ {p}, ~robbed, lock.token = q
      PROVE  /\ release' = release /\ latest' = latest
             /\ \A r \in Publications : backup'[r] # None => backup[r] # None
  <2>1. pc[p] = "clean"
    BY <1>3 DEF ReleaseGuarded, Own
  <2> QED BY <1>2, <2>1
<1>4. Others(p)
  BY <1>2, <1>3, OthersKept
<1>5. Turn(p)
  BY <1>2 DEF Turn, Seen, BeforeSwap
<1>6. p \in Release!Actors /\ pc'[p] \notin BeforeSwap
  BY StagesTyped DEF BeforeSwap
<1> QED BY <1>1, <1>2, <1>4, <1>5, <1>6, ActorKeeps

\* No backup that is listed anywhere is one of a publication before its swap.
LEMMA NewBackupSpared ==
  ASSUME NEW p \in Publications, ReleaseGuarded, pc[p] = "aside",
         pc' = [pc EXCEPT ![p] = "swap"], UNCHANGED todo
  PROVE  /\ backup[p] = None /\ Spared(p)'
         /\ \A q \in Publications : Spared(q) => Spared(q)'
<1>1. \A a \in Release!Actors : pc'[a] = IF a = p THEN "swap" ELSE pc[a]
  BY StagesTyped
<1>2. backup[p] = None /\ \A a \in Release!Actors : ~Seen(a, p)
  BY DEF ReleaseGuarded, NoneYet, BeforeSwap
<1> QED BY <1>1, <1>2 DEF Spared, Condemned, Seen, Release!Actors

LEMMA SetAsideKeeps ==
  ASSUME NEW p \in Publications, ReleaseGuarded, Release!SetAside(p) PROVE ReleaseGuarded'
<1>1. /\ pc[p] = "aside"
      /\ UNCHANGED <<staging, lock, todo, files, latest, robbed, swept>>
  BY DEF Release!SetAside
<1>2. CASE pc' = [pc EXCEPT ![p] = "abort"] /\ UNCHANGED <<release, backup, ambiguous>>
  BY <1>1, <1>2, AbortKeeps
<1>3. CASE /\ backup' = [backup EXCEPT ![p] = release]
           /\ release' = None
           /\ ambiguous' = (ambiguous \/ (release # None /\ Release!Backups # {}))
           /\ pc' = [pc EXCEPT ![p] = "swap"]
  <2>1. /\ backup[p] = None /\ Spared(p)'
        /\ \A q \in Publications : Spared(q) => Spared(q)'
    BY <1>1, <1>3, NewBackupSpared
  <2>2. /\ backup'[p] = release
        /\ \A q \in Publications \ {p} : backup'[q] = backup[q]
        /\ pc'[p] = "swap" /\ UNCHANGED <<Release!Published, Release!Empty>>
        /\ backup' = [backup EXCEPT ![p] = backup'[p]]
        /\ backup'[p] \in Release!Dir \cup {None}
        /\ pc' = [pc EXCEPT ![p] = pc'[p]]
    BY <1>1, <1>3, StagesTyped DEF Release!Published, Release!Empty
  <2>3. /\ ambiguous' \in BOOLEAN /\ (ambiguous => ambiguous')
        /\ ~ambiguous' /\ release # None => \A q \in Publications : backup[q] = None
    BY <1>3, StagesTyped, BackupsNamed
  <2>4. IF Release!Published' THEN SafeRelease' ELSE release' = None /\ NoBackup'
    <3>1. CASE release = None
      BY <1>3, <2>1, <2>2, <3>1 DEF ReleaseGuarded, ReleaseKept, SafeRelease, NoBackup
    <3>2. CASE release # None
      BY <2>1, <2>2, <3>2 DEF ReleaseGuarded, ReleaseKept, SafeRelease
    <3> QED BY <3>1, <3>2
  <2>5. OneBackup'
    <3>1. CASE release = None
      BY <2>1, <2>2, <2>3, <3>1 DEF ReleaseGuarded, ReleaseKept, OneBackup
    <3>2. CASE release # None
      BY <2>1, <2>2, <2>3, <3>2 DEF OneBackup
    <3> QED BY <3>1, <3>2
  <2>6. FoundAsPublished'
    <3>1. CASE release = None
      BY <1>1, <1>3, <2>1, <2>2, <2>3, <3>1
      DEF ReleaseGuarded, ReleaseKept, FoundAsPublished, AsPublished
    <3>2. CASE release # None
      BY <1>1, <1>3, <2>2, <2>3, <3>2
      DEF ReleaseGuarded, ReleaseKept, FoundAsPublished, AsPublished
    <3> QED BY <3>1, <3>2
  <2>7. Own(p)'
    BY <1>1, <2>2, <2>3, StagesTyped DEF Own, Release!Swapping, Release!Staging, Staged
  <2>8. staging' = [staging EXCEPT ![p] = staging'[p]] /\ staging'[p] \in Release!Dir \cup {None}
    BY <1>1, StagesTyped
  <2>9. ReleaseKept'
    BY <2>4, <2>5, <2>6 DEF ReleaseKept
  <2> QED
    BY <1>1, <1>3, <2>2, <2>3, <2>7, <2>8, <2>9, StagesTyped, SwapStep DEF Release!Swapping
<1> QED BY <1>2, <1>3 DEF Release!SetAside, Release!Goto

LEMMA SwapKeeps ==
  ASSUME NEW p \in Publications, ReleaseGuarded, Release!Swap(p) PROVE ReleaseGuarded'
<1>1. pc[p] = "swap" /\ UNCHANGED <<backup, lock, todo, files, robbed, swept, ambiguous>>
  BY DEF Release!Swap
<1>2. CASE pc' = [pc EXCEPT ![p] = "putBack"] /\ UNCHANGED <<release, latest, staging>>
  <2>1. pc'[p] = "putBack" /\ pc' = [pc EXCEPT ![p] = pc'[p]] /\ "putBack" \in Release!Pcs
    BY <1>2, StagesTyped
  <2>2. Own(p)'
    BY <1>1, <2>1, StagesTyped DEF Own, Release!Swapping, Release!Staging, Staged
  <2>3. /\ todo' = [todo EXCEPT ![p] = todo'[p]]
        /\ staging' = [staging EXCEPT ![p] = staging'[p]]
        /\ files' = [files EXCEPT ![p] = files'[p]] /\ files'[p] \subseteq Platforms
        /\ staging'[p] \in Release!Dir \cup {None}
    BY <1>1, <1>2, StagesTyped
  <2> QED BY <1>1, <1>2, <2>1, <2>2, <2>3, StagingKeeps DEF BeforeSwap
<1>3. CASE /\ staging[p] # None
           /\ release' = staging[p]
           /\ latest' = [f \in Platforms |-> IF f \in files[p] THEN p ELSE latest[f]]
           /\ staging' = [staging EXCEPT ![p] = None]
           /\ pc' = [pc EXCEPT ![p] = "clean"]
  <2>1. /\ pc'[p] = "clean" /\ staging'[p] = None /\ release' \in Release!Dir /\ release' # None
        /\ pc' = [pc EXCEPT ![p] = pc'[p]] /\ staging' = [staging EXCEPT ![p] = staging'[p]]
    BY <1>3, StagesTyped
  <2>2. latest' \in Release!Dir
    BY <1>3, StagesTyped DEF Release!Dir, Release!Uploads
  <2>3. PICK f \in Platforms : f \in files[p]
    BY <1>1, StagesTyped DEF Own
  <2>4. latest'[f] = p /\ Release!Empty[f] = None /\ p # None
    BY <1>3, <2>3, PublicationsAssumption DEF Release!Empty
  <2>5. Release!Published' /\ (~swept => release' # Release!Empty)
    BY <1>1, <1>3, <2>3, <2>4, EmptyTyped, StagesTyped DEF Own, Release!Published
  <2>6. ASSUME ~robbed, ~ambiguous, ~swept PROVE release' = latest'
    <3>1. lock.token = p
      BY <1>1, <2>6, StagesTyped DEF Own, Release!Swapping
    <3> QED BY <1>1, <1>3, <2>6, <3>1, StagesTyped DEF Own, Staged
  <2>7. ReleaseKept'
    BY <1>1, <2>1, <2>5, <2>6, EmptyTyped
    DEF ReleaseKept, SafeRelease, OneBackup, FoundAsPublished, AsPublished
  <2>8. Own(p)'
    BY <2>1, PlainOwn
  <2>9. backup' = [backup EXCEPT ![p] = backup'[p]] /\ backup'[p] \in Release!Dir \cup {None}
    BY <1>1, StagesTyped
  <2> QED
    BY <1>1, <1>3, <2>1, <2>2, <2>7, <2>8, <2>9, StagesTyped, SwapStep DEF Release!Swapping
<1> QED BY <1>2, <1>3 DEF Release!Swap, Release!Goto

LEMMA PutBackKeeps ==
  ASSUME NEW p \in Publications, ReleaseGuarded, Release!PutBack(p) PROVE ReleaseGuarded'
<1>1. /\ pc[p] = "putBack" /\ pc' = [pc EXCEPT ![p] = "abort"]
      /\ UNCHANGED <<staging, lock, todo, files, latest, robbed, swept, ambiguous>>
  BY DEF Release!PutBack, Release!Goto, Release!history
<1>2. CASE UNCHANGED <<release, backup>>
  BY <1>1, <1>2, AbortKeeps
<1>3. CASE /\ backup[p] # None /\ Release!Vacant
           /\ release' = backup[p] /\ backup' = [backup EXCEPT ![p] = None]
  <2>1. ReleaseKept' /\ release' \in Release!Dir
    BY <1>1, <1>3, Restored
  <2>2. pc'[p] = "abort" /\ pc' = [pc EXCEPT ![p] = pc'[p]]
    BY <1>1, StagesTyped
  <2>3. Own(p)'
    BY <2>2, PlainOwn
  <2>4. /\ backup' = [backup EXCEPT ![p] = backup'[p]]
        /\ backup'[p] \in Release!Dir \cup {None}
        /\ staging' = [staging EXCEPT ![p] = staging'[p]]
        /\ staging'[p] \in Release!Dir \cup {None}
    BY <1>1, <1>3, StagesTyped
  <2> QED
    BY <1>1, <2>1, <2>2, <2>3, <2>4, StagesTyped, SwapStep DEF Release!Swapping
<1> QED BY <1>2, <1>3 DEF Release!PutBack

LEMMA RemoveKeeps ==
  ASSUME NEW p \in Publications, ReleaseGuarded, Release!RemoveBackup(p) PROVE ReleaseGuarded'
<1>1. /\ pc[p] = "clean" /\ pc' = [pc EXCEPT ![p] = "unlock"]
      /\ UNCHANGED <<release, staging, lock, todo, files, latest, robbed, swept, ambiguous>>
  BY DEF Release!RemoveBackup, Release!Goto, Release!history
<1>2. PICK c \in {backup[p], Release!Empty, None} :
        backup' = [backup EXCEPT ![p] = c] /\ (backup[p] = None => c = None)
  BY StagesTyped DEF Release!RemoveBackup, Release!Damage
<1>3. /\ pc'[p] = "unlock" /\ pc' = [pc EXCEPT ![p] = pc'[p]]
      /\ \A q \in Publications \ {p} : backup'[q] = backup[q]
      /\ \A a \in Release!Actors \ {p} : pc'[a] = pc[a]
      /\ backup'[p] = c /\ c \in Release!Dir \cup {None}
      /\ backup' = [backup EXCEPT ![p] = backup'[p]]
      /\ UNCHANGED <<Release!Published, Release!Empty>>
  <2>1. UNCHANGED <<Release!Published, Release!Empty>>
    BY <1>1 DEF Release!Published, Release!Empty
  <2>2. c \in Release!Dir \cup {None} /\ backup' = [backup EXCEPT ![p] = c]
    BY <1>2, EmptyTyped, StagesTyped
  <2> QED BY <1>1, <2>1, <2>2, StagesTyped
<1>4. ~Spared(p) /\ \A q \in Publications : Spared(q) => Spared(q)' /\ q # p
  BY <1>1, <1>3 DEF Spared, Condemned, Release!Actors
<1>5. ReleaseKept'
  <2>1. IF Release!Published' THEN SafeRelease' ELSE release' = None /\ NoBackup'
    BY <1>1, <1>2, <1>3, <1>4 DEF ReleaseGuarded, ReleaseKept, SafeRelease, NoBackup
  <2>2. ~ambiguous /\ release = None => backup[p] = None
    BY <1>4 DEF ReleaseGuarded, ReleaseKept, OneBackup
  <2>3. OneBackup'
    BY <1>1, <1>2, <1>3, <1>4, <2>2 DEF ReleaseGuarded, ReleaseKept, OneBackup
  <2>4. FoundAsPublished'
    BY <1>1, <1>2, <1>3, <2>2
    DEF ReleaseGuarded, ReleaseKept, FoundAsPublished, AsPublished
  <2> QED BY <2>1, <2>3, <2>4 DEF ReleaseKept
<1>6. Own(p)'
  BY <1>3, PlainOwn
<1>7. /\ staging' = [staging EXCEPT ![p] = staging'[p]]
      /\ staging'[p] \in Release!Dir \cup {None}
  BY <1>1, StagesTyped
<1> QED BY <1>1, <1>2, <1>3, <1>5, <1>6, <1>7, StagesTyped, SwapStep

LEMMA ReleaseStep ==
  ASSUME ReleaseGuarded, Release!Next \/ UNCHANGED <<ofBoth, ofRelease>>
  PROVE  ReleaseGuarded'
<1>1. CASE UNCHANGED <<ofBoth, ofRelease>>
  <2>1. /\ UNCHANGED <<backup, lock, pc, robbed, release, staging, todo, files, latest>>
        /\ UNCHANGED <<swept, ambiguous>>
    BY <1>1 DEF ofBoth, ofRelease
  <2>2. Release!TypeOK' /\ TodoFits' /\ NoneYet'
    BY <2>1 DEF ReleaseGuarded, Release!TypeOK, TodoFits, NoneYet, Seen
  <2>3. ReleaseKept'
    BY <2>1
    DEF ReleaseGuarded, ReleaseKept, SafeRelease, NoBackup, Spared, Condemned, OneBackup,
        FoundAsPublished, AsPublished, Release!Published, Release!Empty
  <2>4. ASSUME NEW p \in Publications PROVE Own(p)'
    <3>1. Own(p) BY DEF ReleaseGuarded
    <3> QED
      BY <2>1, <3>1
      DEF Own, Staged, NoBackup, Release!Staging, Release!Swapping, Release!Empty
  <2> QED BY <2>2, <2>3, <2>4 DEF ReleaseGuarded
<1>2. ASSUME NEW p \in Publications,
             \/ Release!MakeLock(p) \/ Release!Refuse(p) \/ Release!FindStale(p)
             \/ Release!Steal(p) \/ Release!WriteToken(p) \/ Release!ReadToken(p)
             \/ Release!RemoveLock(p)
      PROVE  ReleaseGuarded'
  BY <1>2, LockStepKeeps
<1>3. ASSUME NEW p \in Publications,
             \/ Release!Ensure(p) \/ Release!StageExisting(p) \/ Release!Commit(p)
             \/ Release!Check(p) \/ Release!Abort(p) \/ Release!Crash(p)
      PROVE  ReleaseGuarded'
  BY <1>3, EnsureKeeps, StageKeeps, CommitKeeps, CheckKeeps, CrashKeeps
<1>4. ASSUME NEW p \in Publications,
             \/ Release!SetAside(p) \/ Release!Swap(p) \/ Release!PutBack(p)
             \/ Release!RemoveBackup(p)
      PROVE  ReleaseGuarded'
  BY <1>4, SetAsideKeeps, SwapKeeps, PutBackKeeps, RemoveKeeps
<1>5. ASSUME NEW p \in Release!Actors,
             \/ Release!Recover(p) \/ Release!Recovered(p) \/ Release!Doom(p)
             \/ Release!Cleanup(p) \/ Release!Cleaned(p)
      PROVE  ReleaseGuarded'
  BY <1>5, RecoverReleaseKeeps, RecoveredKeeps, DoomKeeps, CleanupKeeps, CleanedKeeps
<1> QED
  BY <1>1, <1>2, <1>3, <1>4, <1>5, StartUpKeeps DEF Release!Next

LEMMA SpecReleaseGuarded == Spec => [](part = "release" => ReleaseGuarded)
<1>1. Init => (part = "release" => ReleaseGuarded)
  BY InitRelease DEF Init
<1>2. (part = "release" => ReleaseGuarded) /\ [Next]_vars
      => (part = "release" => ReleaseGuarded)'
  <2> SUFFICES ASSUME part = "release" => ReleaseGuarded, [Next]_vars, part' = "release"
               PROVE  ReleaseGuarded'
    OBVIOUS
  <2>1. part = "release" /\ (Release!Next \/ UNCHANGED <<ofBoth, ofRelease>>)
    BY DEF Next, vars
  <2> QED BY <2>1, ReleaseStep
<1> QED BY <1>1, <1>2, PTL DEF Spec

\* Whatever publications and starts stop where, whoever steals whose lock and whatever
\* cannot be restored or removed, for any number of them: a published release is there
\* or a backup of it; and unless one of the things happens that Release!NothingLost and
\* Release!PublishedStays name, what a start finds has what was published last on
\* every platform.
THEOREM SpecReleasesStay == Spec => []ReleasesStay
<1>1. ReleaseGuarded => Release!NothingLost /\ Release!PublishedStays
  <2> SUFFICES ASSUME ReleaseGuarded, Release!Published
               PROVE  Release!NothingLost /\ Release!PublishedStays
    BY DEF Release!NothingLost, Release!PublishedStays
  <2>1. Release!Copies # {}
    BY DEF ReleaseGuarded, ReleaseKept, SafeRelease, Release!Copies
  <2>2. ASSUME ~swept, ~ambiguous PROVE \A c \in Release!Found : AsPublished(c)
    BY <2>2
    DEF ReleaseGuarded, ReleaseKept, FoundAsPublished, Release!Found, Release!Copies
  <2> QED BY <2>1, <2>2 DEF AsPublished, Release!NothingLost, Release!PublishedStays
<1>2. (part = "release" => ReleaseGuarded) => ReleasesStay
  BY <1>1 DEF ReleasesStay
<1> QED BY <1>2, SpecReleaseGuarded, PTL

-----------------------------------------------------------------------------
(***************************************************************************)
(* The panel that is served.  While no lock was stolen, one deployment     *)
(* runs at a time, so its build is newer than everything that was put in   *)
(* place before; what was put in place last is therefore newer than any    *)
(* other whole panel in a backup.  It is served, or it is a backup, and    *)
(* then it or what is left of a removal is what Newest finds.              *)
(***************************************************************************)
BeforeBuild == Early \ {"aside"}
Swapping == {"aside", "move", "copy", "place", "source"}
Built == {v \in Deploys : builtAt[v] > 0}

ServedTyped ==
  /\ builtAt \in [Panel!Builds -> Nat]
  /\ moving \in [Deploys -> Panel!Builds \cup {Panel!Partial, None}]
  /\ lock \in [held : BOOLEAN, token : Deploys \cup {None}]
  /\ current \in Panel!Builds \cup {None} /\ robbed \in BOOLEAN

Sole ==
  ~robbed => \A p \in Deploys : Panel!Running(p) =>
               /\ lock.held /\ Panel!Holder(p)
               /\ \A q \in Deploys \ {p} : ~Panel!Running(q)

Ordered ==
  /\ builtAt[First] = 0
  /\ \A v \in Deploys : builtAt[v] <= Cardinality(Built)
  /\ \A p \in Deploys : pc[p] \in BeforeBuild => builtAt[p] = 0

\* Nothing is anywhere before it was built.
StoredBuilt ==
  \A p \in Deploys : builtAt[p] = 0 =>
    /\ p \notin {panel, output, current}
    /\ \A q \in Deploys : p \notin {backup[q], moving[q]}

OutputNewest ==
  ~robbed => \A p \in Deploys : pc[p] \in Swapping =>
               /\ output = p
               /\ \A v \in Panel!Builds \ {p} : builtAt[v] < builtAt[p]
               /\ moving[p] \in Panel!Builds /\ pc[p] = "place" => moving[p] = p

\* v is newer than every other panel in a backup.
Above(v) ==
  \A q \in Deploys : backup[q] \in Panel!Builds \ {v} => builtAt[backup[q]] < builtAt[v]

Undoable(p) ==
  /\ pc[p] \in {"move", "copy", "place", "source", "clear"} /\ backup[p] \in Panel!Builds =>
       Above(backup[p])
  /\ pc[p] = "restore" => backup[p] \in {None, Panel!Damaged, current}
  /\ pc[p] \in {"source", "rmBackup"} => panel \in Panel!Builds

InPlace ==
  IF current = None THEN panel = None /\ \A q \in Deploys : backup[q] = None
  ELSE /\ Above(current)
       /\ panel \in {None, Panel!Damaged, current}
       /\ panel # current => \E q \in Deploys : backup[q] = current

Served == ~robbed /\ ~crossed => InPlace /\ \A p \in Deploys : Undoable(p)

ServedGuarded ==
  /\ PanelGuarded /\ ServedTyped /\ Sole /\ Ordered /\ StoredBuilt /\ OutputNewest /\ Served

Acts(p) == Apart(p) \/ Moves(p) \/ Recovers(p)
Starts(s) == Starting(s) \/ Recovers(s)

LEMMA InitServed == Panel!Init => ServedGuarded
<1> SUFFICES ASSUME Panel!Init PROVE ServedGuarded
  OBVIOUS
<1> USE PublicationsAssumption
<1>1. PanelGuarded
  BY InitPanel
<1>2. ServedTyped
  BY DEF Panel!Init, ServedTyped, Panel!NoLock, Panel!Builds
<1>3. /\ \A p \in Deploys : /\ pc[p] = "idle" /\ ~Panel!Running(p)
                            /\ backup[p] = None /\ moving[p] = None
      /\ \A v \in Panel!Builds : builtAt[v] = 0
      /\ panel \in {First, None} /\ current = panel /\ output = None
  BY DEF Panel!Init, Panel!Running, Panel!Actors
<1>4. Sole /\ OutputNewest
  BY <1>3 DEF Sole, OutputNewest, Swapping
<1>5. Ordered
  <2>1. Built = {}
    BY <1>3 DEF Built, Panel!Builds
  <2>2. Cardinality(Built) = 0
    BY <2>1, FS_EmptySet
  <2> QED BY <1>3, <2>2 DEF Ordered, Panel!Builds
<1>6. StoredBuilt
  BY <1>3 DEF StoredBuilt, Panel!Builds
<1>7. Served
  BY <1>3 DEF Served, InPlace, Above, Undoable, Panel!Builds
<1> QED BY <1>1, <1>2, <1>4, <1>5, <1>6, <1>7 DEF ServedGuarded

LEMMA CountsSame == \A S : Panel!Cardinality(S) = Cardinality(S)
  BY DEF Panel!Cardinality, Cardinality, Panel!IsFiniteSet, IsFiniteSet

LEMMA BuiltFinite == IsFiniteSet(Built) /\ Cardinality(Built) \in Nat
<1>1. Built \subseteq Deploys
  BY DEF Built
<1>2. IsFiniteSet(Built)
  BY <1>1, PublicationsAssumption, FS_Subset
<1> QED BY <1>2, FS_CardinalityType

\* A build is newer than all that were before.
LEMMA BuildCounts ==
  ASSUME NEW p \in Deploys, ServedTyped, Ordered, Panel!Build(p)
  PROVE  /\ builtAt' \in [Panel!Builds -> Nat] /\ builtAt'[p] = Cardinality(Built) + 1
         /\ \A v \in Panel!Builds \ {p} : builtAt'[v] = builtAt[v] /\ builtAt'[v] < builtAt'[p]
         /\ Cardinality(Built') = Cardinality(Built) + 1
<1>1. /\ builtAt' = [builtAt EXCEPT ![p] = Cardinality(Built) + 1]
      /\ pc[p] = "build"
  BY CountsSame DEF Panel!Build, Panel!Step, Built
<1>2. p \in Panel!Builds /\ Cardinality(Built) \in Nat /\ builtAt \in [Panel!Builds -> Nat]
  BY BuiltFinite DEF Panel!Builds, ServedTyped
<1>3. /\ builtAt' \in [Panel!Builds -> Nat] /\ builtAt'[p] = Cardinality(Built) + 1
      /\ \A v \in Panel!Builds \ {p} : builtAt'[v] = builtAt[v]
  BY <1>1, <1>2
<1>4. \A v \in Panel!Builds \ {p} : builtAt'[v] < builtAt'[p]
  BY <1>2, <1>3 DEF Ordered, Panel!Builds
<1>5. builtAt[p] = 0
  BY <1>1 DEF Ordered, BeforeBuild, Early
<1>6. Built' = Built \cup {p} /\ p \notin Built
  BY <1>2, <1>3, <1>5 DEF Built, Panel!Builds
<1>7. Cardinality(Built') = Cardinality(Built) + 1
  BY <1>6, BuiltFinite, FS_AddElement
<1> QED BY <1>3, <1>4, <1>7

\* The crossing that a step of the recovery or of a removal marks is never taken back.
LEMMA CrossedStays ==
  ASSUME PanelGuarded,
         \/ crossed' = crossed
         \/ \E p \in Deploys : Panel!GiveUpPanel(p)
         \/ \E a \in Panel!Actors : Panel!RestoreChosen(a)
         \/ \E s \in Starters : Starting(s)
  PROVE  crossed => crossed'
<1>1. CASE \E s \in Starters : Starting(s)
  BY <1>1
  DEF Starting, Panel!MakePanelDir, Panel!SweepCheck, Panel!SweepList, Panel!Sweep,
      Panel!SweepBackup, Panel!SweepMoving, Panel!history
<1>2. CASE \E a \in Panel!Actors : Panel!RestoreChosen(a)
  <2>1. crossed' = crossed \/ \E q \in Deploys : crossed' = (crossed \/ ~Panel!Newest(q))
    BY <1>2 DEF Panel!RestoreChosen, Panel!Backups
  <2> QED BY <2>1
<1> QED BY <1>1, <1>2 DEF Panel!GiveUpPanel

\* What every step of a deployment has in common.
LEMMA ActFrame ==
  ASSUME NEW p \in Deploys, PanelGuarded, ServedTyped, Acts(p)
  PROVE  /\ pc' = [pc EXCEPT ![p] = pc'[p]]
         /\ pc'[p] \in BeforeBuild => pc[p] \in BeforeBuild
         /\ robbed' \in BOOLEAN /\ (robbed => robbed')
         /\ crossed => crossed'
<1> USE DEF Acts, Apart, Moves, Recovers, Panel!Goto, Panel!Step
<1>1. pc' = [pc EXCEPT ![p] = pc'[p]] /\ pc[p] \in Panel!Pcs
      /\ (pc'[p] \in BeforeBuild => pc[p] \in BeforeBuild)
  <2>1. pc \in [Panel!Actors -> Panel!Pcs] /\ p \in Panel!Actors
    BY DEF PanelGuarded, CopiesTyped, Panel!Actors
  <2> QED
    BY <2>1
    DEF Panel!MakeLock, Panel!Refuse, Panel!FindStale, Panel!Steal, Panel!WriteToken,
        Panel!Sync, Panel!Clone, Panel!Fetch, Panel!Install, Panel!Build, Panel!FailStep,
        Panel!MoveAcross, Panel!Copy, Panel!FailMove, Panel!ClearFails, Panel!ReadToken,
        Panel!RemoveLock, Panel!Crash, Panel!SetAside, Panel!Move, Panel!Place,
        Panel!RemoveSource, Panel!DamagePanel, Panel!ClearPanel, Panel!RestoreBackup,
        Panel!RemoveBackup, Panel!LookForPanel, Panel!ChooseBackup, Panel!RestoreChosen,
        Panel!Recovered, BeforeBuild, Early, Panel!Running
<1>2. robbed' = robbed \/ Panel!Steal(p) \/ Panel!RemoveLock(p)
  BY DEF Panel!MakeLock, Panel!Refuse, Panel!FindStale, Panel!Steal, Panel!WriteToken,
         Panel!Sync, Panel!Clone, Panel!Fetch, Panel!Install, Panel!Build, Panel!FailStep,
         Panel!MoveAcross, Panel!Copy, Panel!FailMove, Panel!ClearFails, Panel!ReadToken,
         Panel!RemoveLock, Panel!Crash, Panel!SetAside, Panel!Move, Panel!Place,
         Panel!RemoveSource, Panel!DamagePanel, Panel!ClearPanel, Panel!RestoreBackup,
         Panel!RemoveBackup, Panel!LookForPanel, Panel!ChooseBackup, Panel!RestoreChosen,
         Panel!history
<1>3. crossed' = crossed \/ Panel!GiveUpPanel(p) \/ Panel!RestoreChosen(p)
  BY DEF Panel!MakeLock, Panel!Refuse, Panel!FindStale, Panel!Steal, Panel!WriteToken,
         Panel!Sync, Panel!Clone, Panel!Fetch, Panel!Install, Panel!Build, Panel!FailStep,
         Panel!MoveAcross, Panel!Copy, Panel!FailMove, Panel!ClearFails, Panel!ReadToken,
         Panel!RemoveLock, Panel!Crash, Panel!SetAside, Panel!Move, Panel!Place,
         Panel!RemoveSource, Panel!DamagePanel, Panel!ClearPanel, Panel!RestoreBackup,
         Panel!RemoveBackup, Panel!LookForPanel, Panel!ChooseBackup, Panel!history
<1>4. robbed' \in BOOLEAN /\ (robbed => robbed')
  <2>1. CASE robbed' = robbed
    BY <2>1 DEF ServedTyped
  <2>2. CASE Panel!Steal(p)
    BY <2>2 DEF Panel!Steal, ServedTyped
  <2>3. CASE Panel!RemoveLock(p)
    BY <2>3 DEF Panel!RemoveLock, ServedTyped
  <2> QED BY <1>2, <2>1, <2>2, <2>3
<1>5. crossed => crossed'
  BY <1>3, CrossedStays DEF Panel!Actors
<1> QED BY <1>1, <1>4, <1>5

LEMMA StartFrame ==
  ASSUME NEW s \in Starters, PanelGuarded, ServedTyped, Starts(s)
  PROVE  /\ \A p \in Deploys : pc'[p] = pc[p]
         /\ UNCHANGED <<output, builtAt, lock, current, robbed>>
         /\ crossed => crossed'
         /\ moving' \in [Deploys -> Panel!Builds \cup {Panel!Partial, None}]
         /\ \A p \in Deploys : moving'[p] \in {moving[p], None}
<1> USE DEF Starts, Starting, Recovers
<1>1. s \notin Deploys /\ s \in Panel!Actors /\ pc \in [Panel!Actors -> Panel!Pcs]
  BY PublicationsAssumption DEF PanelGuarded, CopiesTyped, Panel!Actors
<1>2. pc' = [pc EXCEPT ![s] = pc'[s]]
  BY <1>1
  DEF Panel!MakePanelDir, Panel!SweepCheck, Panel!SweepList, Panel!Sweep, Panel!LookForPanel,
      Panel!ChooseBackup, Panel!RestoreChosen, Panel!Step, Panel!Goto
<1>3. UNCHANGED <<output, builtAt, lock, current, robbed>>
  BY DEF Panel!MakePanelDir, Panel!SweepCheck, Panel!SweepList, Panel!Sweep,
         Panel!LookForPanel, Panel!ChooseBackup, Panel!RestoreChosen, Panel!files,
         Panel!history
<1>4. crossed => crossed'
  <2>1. crossed' = crossed \/ Starting(s) \/ Panel!RestoreChosen(s)
    BY DEF Panel!LookForPanel, Panel!ChooseBackup, Panel!history
  <2> QED BY <1>1, <2>1, CrossedStays
<1>5. /\ moving' \in [Deploys -> Panel!Builds \cup {Panel!Partial, None}]
      /\ \A p \in Deploys : moving'[p] \in {moving[p], None}
  <2>1. moving' = moving \/ \E q : moving' = [moving EXCEPT ![q] = None]
    BY DEF Panel!MakePanelDir, Panel!SweepCheck, Panel!SweepList, Panel!Sweep,
           Panel!SweepBackup, Panel!SweepMoving, Panel!LookForPanel, Panel!ChooseBackup,
           Panel!RestoreChosen, Panel!files
  <2> QED BY <2>1 DEF ServedTyped
<1>6. \A p \in Deploys : pc'[p] = pc[p]
  BY <1>1, <1>2 DEF Panel!Actors
<1> QED BY <1>3, <1>4, <1>5, <1>6

\* Where nobody runs yet, and nothing but the lock is touched.
Waits(p) == Panel!MakeLock(p) \/ Panel!Refuse(p) \/ Panel!FindStale(p) \/ Panel!Steal(p)

LEMMA WaitsFrame ==
  ASSUME NEW p \in Deploys, Waits(p)
  PROVE  /\ ~Panel!Running(p) /\ UNCHANGED <<panel, backup, moving, output, builtAt, current>>
         /\ UNCHANGED crossed /\ pc[p] \in {"idle", "steal"}
  BY DEF Waits, Panel!MakeLock, Panel!Refuse, Panel!FindStale, Panel!Steal, Panel!Step,
         Panel!Running, Panel!files, Panel!history

LEMMA RunsOtherwise ==
  ASSUME NEW p \in Deploys, Acts(p), ~Waits(p) PROVE Panel!Running(p)
  BY DEF Acts, Apart, Moves, Recovers, Waits, Panel!Step, Panel!Running, Panel!WriteToken,
         Panel!Sync, Panel!Clone, Panel!Fetch, Panel!Install, Panel!Build, Panel!FailStep,
         Panel!MoveAcross, Panel!Copy, Panel!FailMove, Panel!ClearFails, Panel!ReadToken,
         Panel!RemoveLock, Panel!Crash, Panel!SetAside, Panel!Move, Panel!Place,
         Panel!RemoveSource, Panel!DamagePanel, Panel!ClearPanel, Panel!RestoreBackup,
         Panel!RemoveBackup, Panel!LookForPanel, Panel!ChooseBackup, Panel!RestoreChosen

LEMMA SoleKeeps ==
  ASSUME NEW p \in Deploys, ServedGuarded, Acts(p) PROVE Sole'
<1>1. /\ pc' = [pc EXCEPT ![p] = pc'[p]] /\ (robbed => robbed')
      /\ pc \in [Panel!Actors -> Panel!Pcs] /\ p \in Panel!Actors
  BY ActFrame DEF ServedGuarded, PanelGuarded, CopiesTyped, Panel!Actors
<1>2. \A q \in Deploys \ {p} : pc'[q] = pc[q]
  BY <1>1 DEF Panel!Actors
<1>3. CASE Panel!MakeLock(p)
  <2>1. /\ ~lock.held /\ lock'.held /\ lock'.token = None
        /\ pc'[p] = "token" /\ UNCHANGED robbed
    BY <1>1, <1>3 DEF Panel!MakeLock, Panel!Step, Panel!Goto, Panel!history
  <2>2. ~robbed => \A q \in Deploys : ~Panel!Running(q)
    BY <2>1 DEF ServedGuarded, Sole
  <2> QED BY <1>2, <2>1, <2>2 DEF Sole, Panel!Running, Panel!Holder
<1>4. CASE Panel!Steal(p)
  <2>1. pc'[p] = "idle"
    BY <1>1, <1>4 DEF Panel!Steal, Panel!Step, Panel!Goto
  <2>2. robbed' = (robbed \/ \E q \in Deploys : Panel!Running(q) /\ lock.held /\ Panel!Holder(q))
    BY <1>4 DEF Panel!Steal
  <2>3. ~robbed' => \A q \in Deploys : ~Panel!Running(q)
    BY <1>1, <2>2 DEF ServedGuarded, Sole
  <2> QED BY <1>2, <2>1, <2>3 DEF Sole, Panel!Running
<1>5. CASE Panel!WriteToken(p)
  <2>1. Panel!Running(p) /\ UNCHANGED robbed
    BY <1>5, RunsOtherwise
       DEF Panel!WriteToken, Panel!Step, Panel!Running, Panel!history
  <2>2. ~robbed => \A q \in Deploys \ {p} : ~Panel!Running(q)
    BY <2>1 DEF ServedGuarded, Sole
  <2>3. \/ pc'[p] = "failed"
        \/ lock'.held /\ lock'.token = p
    BY <1>1, <1>5
    DEF Panel!WriteToken, Panel!Step, Panel!Goto, ServedGuarded, ServedTyped
  <2> QED BY <1>2, <2>1, <2>2, <2>3 DEF Sole, Panel!Running, Panel!Holder
<1>6. CASE Panel!RemoveLock(p)
  <2>1. pc'[p] = "ok" /\ Panel!Running(p)
    BY <1>1, <1>6 DEF Panel!RemoveLock, Panel!Step, Panel!Goto, Panel!Running
  <2>2. ~robbed => \A q \in Deploys \ {p} : ~Panel!Running(q)
    BY <2>1 DEF ServedGuarded, Sole
  <2> QED BY <1>1, <1>2, <2>1, <2>2 DEF Sole, Panel!Running
<1>7. CASE ~(\/ Panel!MakeLock(p) \/ Panel!Steal(p) \/ Panel!WriteToken(p)
             \/ Panel!RemoveLock(p))
  <2>1. /\ UNCHANGED <<lock, robbed>>
        /\ Panel!Running(p)' => Panel!Running(p) /\ pc[p] # "token"
    <3>1. UNCHANGED <<lock, robbed>>
      BY <1>7
      DEF Acts, Apart, Moves, Recovers, Panel!Refuse, Panel!FindStale, Panel!Sync,
          Panel!Clone, Panel!Fetch, Panel!Install, Panel!Build, Panel!FailStep,
          Panel!MoveAcross, Panel!Copy, Panel!FailMove, Panel!ClearFails, Panel!ReadToken,
          Panel!Crash, Panel!SetAside, Panel!Move, Panel!Place, Panel!RemoveSource,
          Panel!DamagePanel, Panel!ClearPanel, Panel!RestoreBackup, Panel!RemoveBackup,
          Panel!LookForPanel, Panel!ChooseBackup, Panel!RestoreChosen, Panel!history
    <3>2. ASSUME pc'[p] \notin {"idle", "steal", "ok", "failed", "crashed"}
          PROVE  pc[p] \notin {"idle", "steal", "ok", "failed", "crashed", "token"}
      BY <1>1, <1>7, <3>2
      DEF Acts, Apart, Moves, Recovers, Panel!Step, Panel!Goto, Panel!Refuse,
          Panel!FindStale, Panel!Sync, Panel!Clone, Panel!Fetch, Panel!Install, Panel!Build,
          Panel!FailStep, Panel!MoveAcross, Panel!Copy, Panel!FailMove, Panel!ClearFails,
          Panel!ReadToken, Panel!Crash, Panel!SetAside, Panel!Move, Panel!Place,
          Panel!RemoveSource, Panel!DamagePanel, Panel!ClearPanel, Panel!RestoreBackup,
          Panel!RemoveBackup, Panel!LookForPanel, Panel!ChooseBackup, Panel!RestoreChosen
    <3> QED BY <3>1, <3>2 DEF Panel!Running
  <2>2. \A q \in Deploys \ {p} : Panel!Running(q)' => Panel!Running(q)
    BY <1>2 DEF Panel!Running
  <2>3. ASSUME ~robbed', NEW q \in Deploys, Panel!Running(q)' PROVE lock'.held /\ Panel!Holder(q)'
    <3>1. ~robbed /\ Panel!Running(q) /\ lock.held /\ Panel!Holder(q)
      BY <2>1, <2>2, <2>3 DEF ServedGuarded, Sole
    <3>2. CASE q = p
      BY <2>1, <2>3, <3>1, <3>2 DEF Panel!Holder
    <3>3. CASE q # p
      BY <1>2, <2>1, <3>1, <3>3 DEF Panel!Holder
    <3> QED BY <3>2, <3>3
  <2>4. ASSUME ~robbed', NEW q \in Deploys, Panel!Running(q)', NEW r \in Deploys \ {q}
        PROVE  ~Panel!Running(r)'
    <3>1. ~robbed /\ Panel!Running(q) /\ ~Panel!Running(r)
      BY <2>1, <2>2, <2>4 DEF ServedGuarded, Sole
    <3> QED BY <2>1, <2>2, <3>1
  <2> QED BY <2>3, <2>4 DEF Sole
<1> QED BY <1>3, <1>4, <1>5, <1>6, <1>7

LEMMA OrderedKeeps ==
  ASSUME NEW p \in Deploys, ServedGuarded, Acts(p)
  PROVE  builtAt' \in [Panel!Builds -> Nat] /\ Ordered'
<1>1. /\ pc' = [pc EXCEPT ![p] = pc'[p]] /\ (pc'[p] \in BeforeBuild => pc[p] \in BeforeBuild)
      /\ pc \in [Panel!Actors -> Panel!Pcs] /\ p \in Panel!Actors
  BY ActFrame DEF ServedGuarded, PanelGuarded, CopiesTyped, Panel!Actors
<1>2. \A q \in Deploys : pc'[q] \in BeforeBuild => pc[q] \in BeforeBuild
  BY <1>1 DEF Panel!Actors
<1>3. CASE Panel!Build(p)
  <2>1. /\ builtAt' \in [Panel!Builds -> Nat] /\ builtAt'[p] = Cardinality(Built) + 1
        /\ \A v \in Panel!Builds \ {p} : builtAt'[v] = builtAt[v] /\ builtAt'[v] < builtAt'[p]
        /\ Cardinality(Built') = Cardinality(Built) + 1
    BY <1>3, BuildCounts DEF ServedGuarded
  <2>2. First \in Panel!Builds \ {p}
    BY PublicationsAssumption DEF Panel!Builds
  <2>3. ASSUME NEW v \in Deploys PROVE builtAt'[v] <= Cardinality(Built')
    <3>1. v \in Panel!Builds /\ builtAt'[v] \in Nat
      BY <2>1 DEF Panel!Builds
    <3> QED BY <2>1, <3>1, BuiltFinite DEF ServedGuarded, Ordered
  <2>4. pc'[p] = "aside"
    BY <1>1, <1>3 DEF Panel!Build, Panel!Step, Panel!Goto
  <2>5. ASSUME NEW q \in Deploys, pc'[q] \in BeforeBuild PROVE builtAt'[q] = 0
    <3>1. q \in Panel!Builds \ {p}
      BY <2>4, <2>5 DEF BeforeBuild, Panel!Builds
    <3> QED BY <1>2, <2>1, <2>5, <3>1 DEF ServedGuarded, Ordered
  <2> QED BY <2>1, <2>2, <2>3, <2>5 DEF ServedGuarded, Ordered
<1>4. CASE ~Panel!Build(p)
  <2>1. UNCHANGED builtAt
    BY <1>4
    DEF Acts, Apart, Moves, Recovers, Panel!MakeLock, Panel!Refuse, Panel!FindStale,
        Panel!Steal, Panel!WriteToken, Panel!Sync, Panel!Clone, Panel!Fetch, Panel!Install,
        Panel!FailStep, Panel!MoveAcross, Panel!Copy, Panel!FailMove, Panel!ClearFails,
        Panel!ReadToken, Panel!RemoveLock, Panel!Crash, Panel!SetAside, Panel!Move,
        Panel!Place, Panel!RemoveSource, Panel!DamagePanel, Panel!ClearPanel,
        Panel!RestoreBackup, Panel!RemoveBackup, Panel!LookForPanel, Panel!ChooseBackup,
        Panel!RestoreChosen, Panel!files
  <2>2. Built' = Built
    BY <2>1 DEF Built
  <2> QED BY <1>2, <2>1, <2>2 DEF ServedGuarded, ServedTyped, Ordered
<1> QED BY <1>3, <1>4

LEMMA TypedKeeps ==
  ASSUME NEW p \in Deploys, ServedGuarded, Acts(p) PROVE ServedTyped'
<1>1. builtAt' \in [Panel!Builds -> Nat] /\ robbed' \in BOOLEAN
  BY OrderedKeeps, ActFrame DEF ServedGuarded
<1>2. lock' \in [held : BOOLEAN, token : Deploys \cup {None}]
  <2> DEFINE Locks == [held : BOOLEAN, token : Deploys \cup {None}]
  <2>1. lock \in Locks /\ Panel!NoLock \in Locks /\ [held |-> TRUE, token |-> None] \in Locks
        /\ [lock EXCEPT !.token = p] \in Locks /\ [lock EXCEPT !.token = None] \in Locks
    BY DEF ServedGuarded, ServedTyped, Panel!NoLock
  <2>2. lock' \in {lock, Panel!NoLock, [held |-> TRUE, token |-> None],
                   [lock EXCEPT !.token = p], [lock EXCEPT !.token = None]}
    BY DEF Acts, Apart, Moves, Recovers, Panel!MakeLock, Panel!Refuse, Panel!FindStale,
           Panel!Steal, Panel!WriteToken, Panel!Sync, Panel!Clone, Panel!Fetch,
           Panel!Install, Panel!Build, Panel!FailStep, Panel!MoveAcross, Panel!Copy,
           Panel!FailMove, Panel!ClearFails, Panel!ReadToken, Panel!RemoveLock, Panel!Crash,
           Panel!SetAside, Panel!Move, Panel!Place, Panel!RemoveSource, Panel!DamagePanel,
           Panel!ClearPanel, Panel!RestoreBackup, Panel!RemoveBackup, Panel!LookForPanel,
           Panel!ChooseBackup, Panel!RestoreChosen
  <2> HIDE DEF Locks
  <2>3. lock' \in Locks
    BY <2>1, <2>2
  <2> QED BY <2>3 DEF Locks
<1>3. current' \in Panel!Builds \cup {None}
  <2>1. CASE Panel!Move(p) \/ Panel!Place(p)
    BY <2>1
    DEF Panel!Move, Panel!Place, Panel!Put, ServedGuarded, PanelGuarded, CopiesTyped
  <2>2. CASE Panel!GiveUpPanel(p)
    BY <2>2 DEF Panel!GiveUpPanel, ServedGuarded, ServedTyped
  <2>3. CASE ~(Panel!Move(p) \/ Panel!Place(p) \/ Panel!GiveUpPanel(p))
    BY <2>3
    DEF Acts, Apart, Moves, Recovers, Panel!MakeLock, Panel!Refuse, Panel!FindStale,
        Panel!Steal, Panel!WriteToken, Panel!Sync, Panel!Clone, Panel!Fetch, Panel!Install,
        Panel!Build, Panel!FailStep, Panel!MoveAcross, Panel!Copy, Panel!FailMove,
        Panel!ClearFails, Panel!ReadToken, Panel!RemoveLock, Panel!Crash, Panel!SetAside,
        Panel!RemoveSource, Panel!DamagePanel, Panel!ClearPanel, Panel!RestoreBackup,
        Panel!RemoveBackup, Panel!LookForPanel, Panel!ChooseBackup, Panel!RestoreChosen,
        Panel!history, ServedGuarded, ServedTyped
  <2> QED BY <2>1, <2>2, <2>3
<1>4. moving' \in [Deploys -> Panel!Builds \cup {Panel!Partial, None}]
  <2>1. \/ moving' = moving
        \/ moving' = [moving EXCEPT ![p] = None]
        \/ moving' = [moving EXCEPT ![p] = Panel!Partial]
        \/ moving' = [moving EXCEPT ![p] = output] /\ output # None
    BY DEF Acts, Apart, Moves, Recovers, Panel!MakeLock, Panel!Refuse, Panel!FindStale,
           Panel!Steal, Panel!WriteToken, Panel!Sync, Panel!Clone, Panel!Fetch,
           Panel!Install, Panel!Build, Panel!FailStep, Panel!MoveAcross, Panel!Copy,
           Panel!FailMove, Panel!ClearFails, Panel!ReadToken, Panel!RemoveLock, Panel!Crash,
           Panel!SetAside, Panel!Move, Panel!Place, Panel!RemoveSource, Panel!DamagePanel,
           Panel!ClearPanel, Panel!RestoreBackup, Panel!RemoveBackup, Panel!LookForPanel,
           Panel!ChooseBackup, Panel!RestoreChosen, Panel!files
  <2> QED BY <2>1 DEF ServedGuarded, ServedTyped, PanelGuarded, CopiesTyped
<1> QED BY <1>1, <1>2, <1>3, <1>4 DEF ServedTyped

\* The steps in which a deployment touches the panel, a backup or a build.
Stores(p) ==
  \/ Panel!Sync(p) \/ Panel!Build(p) \/ Panel!MoveAcross(p) \/ Panel!Copy(p)
  \/ Panel!FailMove(p) \/ Moves(p) \/ Panel!RestoreChosen(p)

LEMMA StoresOtherwise ==
  ASSUME NEW p \in Deploys, Acts(p), ~Stores(p)
  PROVE  UNCHANGED <<panel, backup, moving, output, builtAt, current, crossed>>
  BY DEF Acts, Apart, Recovers, Stores, Panel!files, Panel!history, Panel!MakeLock,
         Panel!Refuse, Panel!FindStale, Panel!Steal, Panel!WriteToken, Panel!Clone,
         Panel!Fetch, Panel!Install, Panel!FailStep, Panel!ClearFails, Panel!ReadToken,
         Panel!RemoveLock, Panel!Crash, Panel!LookForPanel, Panel!ChooseBackup

LEMMA StoredKeeps ==
  ASSUME NEW p \in Deploys, ServedGuarded, Acts(p) PROVE StoredBuilt'
<1> SUFFICES ASSUME NEW v \in Deploys, builtAt'[v] = 0
             PROVE  /\ v \notin {panel', output', current'}
                    /\ \A q \in Deploys : v \notin {backup'[q], moving'[q]}
  BY DEF StoredBuilt
<1>1. CASE ~Stores(p)
  BY <1>1, StoresOtherwise DEF ServedGuarded, StoredBuilt
<1>2. CASE Panel!Build(p)
  <2>1. v # p /\ builtAt[v] = 0
    BY <1>2, BuildCounts, BuiltFinite DEF ServedGuarded, Panel!Builds
  <2> QED BY <1>2, <2>1 DEF Panel!Build, Panel!history, ServedGuarded, StoredBuilt
<1>3. ASSUME Stores(p), ~Panel!Build(p)
      PROVE  /\ v \notin {panel', output', current'}
             /\ \A q \in Deploys : v \notin {backup'[q], moving'[q]}
  <2>1. UNCHANGED builtAt
    BY <1>3
    DEF Stores, Moves, Panel!Sync, Panel!MoveAcross, Panel!Copy, Panel!FailMove,
        Panel!SetAside, Panel!Move, Panel!Place, Panel!RemoveSource, Panel!DamagePanel,
        Panel!ClearPanel, Panel!RestoreBackup, Panel!RemoveBackup, Panel!RestoreChosen
  <2>2. /\ v \notin {panel, output, current, None, EmptyDir, Panel!Partial, Panel!Damaged}
        /\ \A q \in Deploys : v # backup[q] /\ v # moving[q]
        /\ backup \in [Deploys -> Panel!Contents]
        /\ moving \in [Deploys -> Panel!Builds \cup {Panel!Partial, None}]
    BY <2>1, PublicationsAssumption
    DEF ServedGuarded, ServedTyped, StoredBuilt, Panel!Builds, PanelGuarded, CopiesTyped
  <2>3. v # panel' /\ \A q \in Deploys : v # backup'[q]
    BY <1>3, <2>2
    DEF Stores, Moves, Panel!Sync, Panel!MoveAcross, Panel!Copy, Panel!FailMove,
        Panel!SetAside, Panel!Move, Panel!Place, Panel!RemoveSource, Panel!DamagePanel,
        Panel!ClearPanel, Panel!RestoreBackup, Panel!RemoveBackup, Panel!RestoreChosen,
        Panel!Backups, Panel!Restore, Panel!Put, Panel!Damage
  <2>4. v # output' /\ \A q \in Deploys : v # moving'[q]
    BY <1>3, <2>2
    DEF Stores, Moves, Panel!Sync, Panel!MoveAcross, Panel!Copy, Panel!FailMove,
        Panel!SetAside, Panel!Move, Panel!Place, Panel!RemoveSource, Panel!DamagePanel,
        Panel!ClearPanel, Panel!RestoreBackup, Panel!RemoveBackup, Panel!RestoreChosen
  <2>5. v # current'
    BY <1>3, <2>2
    DEF Stores, Moves, Panel!Sync, Panel!MoveAcross, Panel!Copy, Panel!FailMove,
        Panel!SetAside, Panel!Move, Panel!Place, Panel!RemoveSource, Panel!DamagePanel,
        Panel!ClearPanel, Panel!RestoreBackup, Panel!RemoveBackup, Panel!RestoreChosen,
        Panel!Put, Panel!GiveUpPanel, Panel!history
  <2> QED BY <2>3, <2>4, <2>5
<1> QED BY <1>1, <1>2, <1>3

LEMMA OutputKeeps ==
  ASSUME NEW p \in Deploys, ServedGuarded, Acts(p) PROVE OutputNewest'
<1>1. /\ pc' = [pc EXCEPT ![p] = pc'[p]] /\ (robbed => robbed')
      /\ pc \in [Panel!Actors -> Panel!Pcs] /\ p \in Panel!Actors
      /\ moving \in [Deploys -> Panel!Builds \cup {Panel!Partial, None}]
  BY ActFrame DEF ServedGuarded, ServedTyped, PanelGuarded, CopiesTyped, Panel!Actors
<1> SUFFICES ASSUME ~robbed', NEW q \in Deploys, pc'[q] \in Swapping
             PROVE  /\ output' = q
                    /\ \A v \in Panel!Builds \ {q} : builtAt'[v] < builtAt'[q]
                    /\ moving'[q] \in Panel!Builds /\ pc'[q] = "place" => moving'[q] = q
  BY DEF OutputNewest
<1>2. CASE q # p
  <2>1. pc[q] = pc'[q] /\ Panel!Running(q)
    BY <1>1, <1>2 DEF Panel!Actors, Swapping, Panel!Running
  <2>2. ~Panel!Running(p)
    BY <1>1, <1>2, <2>1 DEF ServedGuarded, Sole
  <2>3. UNCHANGED <<moving, output, builtAt>>
    BY <2>2, RunsOtherwise, WaitsFrame
  <2> QED BY <1>1, <2>1, <2>3 DEF ServedGuarded, OutputNewest
<1>3. CASE q = p
  <2>1. CASE Panel!Build(p)
    <3>1. pc'[p] = "aside" /\ output' = p
      BY <1>1, <2>1 DEF Panel!Build, Panel!Step, Panel!Goto
    <3> QED BY <1>3, <2>1, <3>1, BuildCounts DEF ServedGuarded
  <2>2. CASE Panel!SetAside(p) \/ Panel!MoveAcross(p)
    <3>1. /\ pc'[p] # "place" /\ pc[p] \in Swapping /\ UNCHANGED <<output, builtAt>>
      BY <1>1, <2>2 DEF Panel!SetAside, Panel!MoveAcross, Panel!Step, Panel!Goto, Swapping
    <3> QED BY <1>1, <1>3, <3>1 DEF ServedGuarded, OutputNewest
  <2>3. CASE Panel!Copy(p)
    <3>1. pc[p] \in Swapping /\ UNCHANGED <<output, builtAt>> /\ moving'[p] = output
      BY <1>1, <2>3 DEF Panel!Copy, Panel!Step, Panel!Goto, Swapping
    <3> QED BY <1>1, <1>3, <3>1 DEF ServedGuarded, OutputNewest
  <2>4. CASE Panel!Place(p)
    <3>1. pc'[p] # "place" /\ pc[p] \in Swapping /\ UNCHANGED <<output, builtAt>>
      BY <1>1, <2>4 DEF Panel!Place, Panel!Step, Panel!Goto, Swapping
    <3> QED BY <1>1, <1>3, <3>1 DEF ServedGuarded, OutputNewest
  <2>5. ASSUME ~(\/ Panel!Build(p) \/ Panel!SetAside(p) \/ Panel!MoveAcross(p)
                 \/ Panel!Copy(p) \/ Panel!Place(p))
        PROVE  pc'[p] \notin Swapping
    BY <1>1, <2>5
    DEF Acts, Apart, Moves, Recovers, Swapping, Panel!Step, Panel!Goto, Panel!MakeLock,
        Panel!Refuse, Panel!FindStale, Panel!Steal, Panel!WriteToken, Panel!Sync,
        Panel!Clone, Panel!Fetch, Panel!Install, Panel!FailStep, Panel!FailMove,
        Panel!ClearFails, Panel!ReadToken, Panel!RemoveLock, Panel!Crash, Panel!Move,
        Panel!RemoveSource, Panel!DamagePanel, Panel!ClearPanel, Panel!RestoreBackup,
        Panel!RemoveBackup, Panel!LookForPanel, Panel!ChooseBackup, Panel!RestoreChosen,
        Panel!Recovered
  <2> QED BY <1>3, <2>1, <2>2, <2>3, <2>4, <2>5
<1> QED BY <1>2, <1>3

\* What the directories of an undisturbed deployment can be.
LEMMA WholeOrDamaged ==
  ASSUME ServedGuarded, ~crossed
  PROVE  /\ panel \in Panel!Builds \cup {Panel!Damaged, None}
         /\ \A q \in Deploys : backup[q] \in Panel!Builds \cup {Panel!Damaged, None}
         /\ None \notin Panel!Builds /\ Panel!Damaged \notin Panel!Builds
         /\ None # Panel!Damaged
  BY PublicationsAssumption DEF ServedGuarded, PanelGuarded, NoEmptyDir, Panel!Contents

\* The newest backup is that of the panel that was put in place last, or a damaged one.
LEMMA NewestIsCurrent ==
  ASSUME ServedGuarded, ~robbed, ~crossed, panel \notin Panel!Builds,
         NEW q \in Deploys, Panel!Newest(q)
  PROVE  backup[q] \in {current, Panel!Damaged} /\ backup[q] # None
<1>1. backup[q] # None /\ backup[q] \in Panel!Builds \cup {Panel!Damaged}
  BY WholeOrDamaged DEF Panel!Newest, Panel!Backups
<1>2. current \in Panel!Builds
  BY <1>1 DEF ServedGuarded, ServedTyped, Served, InPlace
<1>3. PICK r \in Deploys : backup[r] = current
  BY <1>2, WholeOrDamaged DEF ServedGuarded, Served, InPlace
<1> SUFFICES ASSUME backup[q] \in Panel!Builds, backup[q] # current PROVE FALSE
  BY <1>1
<1>4. ~(builtAt[backup[r]] > builtAt[backup[q]])
  BY <1>2, <1>3, WholeOrDamaged DEF Panel!Newest, Panel!Backups, Panel!Newer
<1>5. builtAt[backup[q]] < builtAt[current]
  BY <1>2, WholeOrDamaged DEF ServedGuarded, Served, InPlace, Above
<1>6. builtAt[backup[q]] \in Nat /\ builtAt[current] \in Nat
  BY <1>2 DEF ServedGuarded, ServedTyped
<1> QED BY <1>3, <1>4, <1>5, <1>6

\* Backups may go while a panel is there, and the panel may come back.
LEMMA BackupsGo ==
  ASSUME ServedGuarded, ~robbed, ~crossed, UNCHANGED <<builtAt, current>>,
         \A q \in Deploys : backup'[q] \in {backup[q], Panel!Damaged, None},
         \/ panel' = panel /\ (panel \notin Panel!Builds => UNCHANGED backup)
         \/ /\ panel \notin Panel!Builds /\ current # None
            /\ panel' \in {current, Panel!Damaged}
            /\ panel' # current => \E q \in Deploys : backup'[q] = current
  PROVE  InPlace' /\ \A p \in Deploys : pc'[p] = pc[p] => Undoable(p)'
<1>1. InPlace /\ \A p \in Deploys : Undoable(p)
  BY DEF ServedGuarded, Served
<1>2. ASSUME NEW v, Above(v)
      PROVE \A q \in Deploys : backup'[q] \in Panel!Builds \ {v} => builtAt[backup'[q]] < builtAt[v]
  BY <1>2, WholeOrDamaged DEF Above
<1>3. InPlace'
  <2>1. CASE current = None
    BY <1>1, <2>1, WholeOrDamaged DEF InPlace
  <2>2. CASE current # None
    <3>1. Above(current)'
      BY <1>1, <1>2, <2>2 DEF InPlace, Above
    <3>2. panel' \in {None, Panel!Damaged, current}
      BY <1>1, <2>2 DEF InPlace
    <3>3. panel' # current => \E q \in Deploys : backup'[q] = current
      <4>1. CASE panel' = panel /\ panel # current
        BY <1>1, <2>2, <4>1, WholeOrDamaged DEF InPlace
      <4>2. CASE panel' # panel
        BY <4>2
      <4> QED BY <4>1, <4>2
    <3> QED BY <2>2, <3>1, <3>2, <3>3 DEF InPlace
  <2> QED BY <2>1, <2>2
<1>4. ASSUME NEW p \in Deploys, pc'[p] = pc[p] PROVE Undoable(p)'
  <2>1. ASSUME pc[p] \in {"move", "copy", "place", "source", "clear"},
               backup'[p] \in Panel!Builds
        PROVE  Above(backup[p])' /\ backup'[p] = backup[p]
    <3>1. backup'[p] = backup[p] /\ Above(backup[p])
      BY <1>1, <2>1, WholeOrDamaged DEF Undoable
    <3>2. \A q \in Deploys : backup'[q] \in Panel!Builds \ {backup[p]} =>
                               builtAt[backup'[q]] < builtAt[backup[p]]
      BY <1>2, <3>1
    <3> QED BY <3>1, <3>2 DEF Above
  <2>2. pc[p] = "restore" => backup'[p] \in {None, Panel!Damaged, current}
    BY <1>1 DEF Undoable
  <2>3. pc[p] \in {"source", "rmBackup"} => panel' \in Panel!Builds
    BY <1>1 DEF Undoable
  <2> QED BY <1>4, <2>1, <2>2, <2>3 DEF Undoable
<1> QED BY <1>3, <1>4

LEMMA PutBack ==
  ASSUME ServedGuarded, ~robbed, ~crossed, UNCHANGED <<builtAt, current>>,
         NEW q \in Deploys, backup[q] \in {current, Panel!Damaged}, backup[q] # None,
         Panel!Vacant, Panel!Restore(q)
  PROVE  InPlace' /\ \A p \in Deploys : pc'[p] = pc[p] => Undoable(p)'
<1>1. panel \notin Panel!Builds
  BY WholeOrDamaged, PublicationsAssumption DEF Panel!Vacant
<1>2. /\ panel' = backup[q] /\ backup \in [Deploys -> Panel!Contents]
      /\ backup' = [backup EXCEPT ![q] = None]
  BY DEF Panel!Restore, ServedGuarded, PanelGuarded, CopiesTyped
<1>3. current \in Panel!Builds
  BY DEF ServedGuarded, ServedTyped, Served, InPlace
<1>4. PICK r \in Deploys : backup[r] = current
  BY <1>1, <1>3 DEF ServedGuarded, Served, InPlace
<1>5. panel' # current => backup'[r] = current
  BY <1>2, <1>3, <1>4
<1>6. current # None
  BY <1>3, WholeOrDamaged
<1>7. \A p \in Deploys : backup'[p] \in {backup[p], Panel!Damaged, None}
  BY <1>2
<1> QED BY <1>1, <1>2, <1>5, <1>6, <1>7, BackupsGo

\* The recovery brings the panel back that was put in place last, or what is left of a
\* removal, and then that one is still a backup.
LEMMA ChosenServed ==
  ASSUME NEW a \in Panel!Actors, ServedGuarded, Panel!RestoreChosen(a),
         ~robbed, ~crossed, ~crossed'
  PROVE  InPlace' /\ \A p \in Deploys : pc'[p] = pc[p] => Undoable(p)'
<1>1. UNCHANGED <<builtAt, current>>
  BY DEF Panel!RestoreChosen
<1>2. CASE UNCHANGED <<panel, backup>>
  BY <1>1, <1>2, BackupsGo
<1>3. CASE ~UNCHANGED <<panel, backup>>
  <2>1. PICK q \in Deploys : Panel!Newest(q) /\ Panel!Vacant /\ Panel!Restore(q)
    BY <1>3 DEF Panel!RestoreChosen, Panel!Backups
  <2>2. panel \notin Panel!Builds
    BY <2>1, WholeOrDamaged, PublicationsAssumption DEF Panel!Vacant
  <2>3. backup[q] \in {current, Panel!Damaged} /\ backup[q] # None
    BY <2>1, <2>2, NewestIsCurrent
  <2> QED BY <1>1, <2>1, <2>3, PutBack
<1> QED BY <1>2, <1>3

LEMMA ServedOfStart ==
  ASSUME NEW s \in Starters, ServedGuarded, Starts(s) PROVE Served'
<1>1. /\ \A p \in Deploys : pc'[p] = pc[p]
      /\ UNCHANGED <<builtAt, current, robbed>> /\ (crossed => crossed')
  BY StartFrame DEF ServedGuarded
<1> SUFFICES ASSUME ~robbed, ~crossed, ~crossed'
             PROVE  InPlace' /\ \A p \in Deploys : Undoable(p)'
  BY <1>1 DEF Served
<1>2. CASE Panel!RestoreChosen(s)
  BY <1>1, <1>2, ChosenServed DEF Panel!Actors
<1>3. CASE Starts(s) /\ ~Panel!RestoreChosen(s)
  <2>1. CASE UNCHANGED <<panel, backup>>
    BY <1>1, <2>1, BackupsGo
  <2>2. CASE Panel!MakePanelDir(s)
    <3>1. UNCHANGED <<panel, backup>>
      BY <2>2 DEF Panel!MakePanelDir
    <3> QED BY <2>1, <3>1
  <2>3. ASSUME NEW q, Panel!SweepBackup(s, q), UNCHANGED panel
        PROVE  InPlace' /\ \A p \in Deploys : Undoable(p)'
    <3>1. panel \in Panel!Builds
      BY <2>3 DEF Panel!SweepBackup
    <3>2. \A p \in Deploys : backup'[p] \in {backup[p], Panel!Damaged, None}
      BY <2>3
      DEF Panel!SweepBackup, Panel!Damage, ServedGuarded, PanelGuarded, CopiesTyped
    <3> QED BY <1>1, <2>3, <3>1, <3>2, BackupsGo
  <2> QED
    BY <1>3, <2>1, <2>2, <2>3
    DEF Starts, Starting, Recovers, Panel!SweepCheck, Panel!SweepList, Panel!Sweep,
        Panel!SweepMoving, Panel!LookForPanel, Panel!ChooseBackup, Panel!files
<1> QED BY <1>2, <1>3

\* While a deployment runs there is nothing to undo for another one.
LEMMA OthersUndoable ==
  ASSUME NEW p \in Deploys, ServedGuarded, Acts(p), ~robbed, Panel!Running(p),
         NEW q \in Deploys \ {p}
  PROVE  Undoable(q)'
<1>1. pc'[q] = pc[q]
  BY ActFrame DEF ServedGuarded, PanelGuarded, CopiesTyped, Panel!Actors
<1>2. ~Panel!Running(q)
  BY DEF ServedGuarded, Sole
<1> QED BY <1>1, <1>2 DEF Undoable, Panel!Running

\* Neither a panel nor a build is touched.
LEMMA ServedOfRest ==
  ASSUME NEW p \in Deploys, ServedGuarded, Acts(p),
         UNCHANGED <<panel, backup, builtAt, current, crossed>>,
         ~Panel!SetAside(p), ~Panel!Move(p), ~Panel!Place(p), ~Panel!ClearPanel(p)
  PROVE  Served'
<1>1. /\ pc' = [pc EXCEPT ![p] = pc'[p]] /\ (robbed => robbed')
      /\ pc \in [Panel!Actors -> Panel!Pcs] /\ p \in Panel!Actors
  BY ActFrame DEF ServedGuarded, PanelGuarded, CopiesTyped, Panel!Actors
<1>2. /\ pc'[p] \in {"move", "copy", "place", "source", "clear"} =>
           pc[p] \in {"move", "copy", "place", "source", "clear"}
      /\ pc'[p] # "restore"
      /\ pc'[p] \in {"source", "rmBackup"} => pc[p] \in {"source", "rmBackup"}
  BY <1>1
  DEF Acts, Apart, Moves, Recovers, Panel!Step, Panel!Goto, Panel!MakeLock, Panel!Refuse,
      Panel!FindStale, Panel!Steal, Panel!WriteToken, Panel!Sync, Panel!Clone, Panel!Fetch,
      Panel!Install, Panel!Build, Panel!FailStep, Panel!MoveAcross, Panel!Copy,
      Panel!FailMove, Panel!ClearFails, Panel!ReadToken, Panel!RemoveLock, Panel!Crash,
      Panel!RemoveSource, Panel!DamagePanel, Panel!RestoreBackup, Panel!RemoveBackup,
      Panel!LookForPanel, Panel!ChooseBackup, Panel!RestoreChosen, Panel!Recovered
<1> SUFFICES ASSUME ~robbed, ~crossed PROVE InPlace' /\ \A q \in Deploys : Undoable(q)'
  BY <1>1 DEF Served
<1>3. InPlace /\ \A q \in Deploys : Undoable(q)
  BY DEF ServedGuarded, Served
<1>4. UNCHANGED InPlace /\ \A v : Above(v)' <=> Above(v)
  BY DEF InPlace, Above
<1>5. ASSUME NEW q \in Deploys PROVE Undoable(q)'
  <2>1. Above(backup[q])' <=> Above(backup[q])
    BY DEF Above
  <2>2. q # p => pc'[q] = pc[q]
    BY <1>1 DEF Panel!Actors
  <2> QED BY <1>2, <1>3, <2>1, <2>2 DEF Undoable
<1> QED BY <1>3, <1>4, <1>5

LEMMA ServedOfBuild ==
  ASSUME NEW p \in Deploys, ServedGuarded, Panel!Build(p) PROVE Served'
<1>1. Acts(p) /\ Panel!Running(p)
  BY DEF Acts, Apart, Panel!Build, Panel!Step, Panel!Running
<1>2. /\ pc[p] = "build" /\ pc'[p] = "aside"
      /\ UNCHANGED <<panel, backup, current, robbed, crossed>>
  BY DEF Panel!Build, Panel!Step, Panel!Goto, Panel!history, ServedGuarded, PanelGuarded,
         CopiesTyped, Panel!Actors
<1> SUFFICES ASSUME ~robbed, ~crossed PROVE InPlace' /\ \A q \in Deploys : Undoable(q)'
  BY <1>2 DEF Served
<1>3. InPlace /\ Undoable(p)
  BY DEF ServedGuarded, Served
<1>4. ASSUME NEW v \in Panel!Builds, Above(v) PROVE Above(v)'
  <2> SUFFICES ASSUME NEW q \in Deploys, backup[q] \in Panel!Builds \ {v}
               PROVE  builtAt'[backup[q]] < builtAt'[v]
    BY <1>2 DEF Above
  <2>1. backup[q] # p
    BY <1>2 DEF ServedGuarded, Ordered, StoredBuilt, BeforeBuild, Early
  <2>2. /\ builtAt'[backup[q]] = builtAt[backup[q]]
        /\ builtAt'[backup[q]] < builtAt'[p]
        /\ v # p => builtAt'[v] = builtAt[v]
    BY <2>1, BuildCounts DEF ServedGuarded
  <2>3. v # p => builtAt[backup[q]] < builtAt[v]
    BY <1>4 DEF Above
  <2> QED BY <2>2, <2>3
<1>5. InPlace'
  <2>1. current # None => Above(current)'
    <3> SUFFICES ASSUME current # None PROVE Above(current)'
      OBVIOUS
    <3>1. current \in Panel!Builds /\ Above(current)
      BY <1>3 DEF InPlace, ServedGuarded, ServedTyped
    <3>2. PICK v \in Panel!Builds : v = current
      BY <3>1
    <3>3. Above(v)'
      BY <1>4, <3>1, <3>2
    <3> QED BY <1>2, <3>2, <3>3 DEF Above
  <2> QED BY <1>2, <1>3, <2>1 DEF InPlace
<1>6. Undoable(p)'
  BY <1>2 DEF Undoable
<1> QED BY <1>1, <1>5, <1>6, OthersUndoable

LEMMA ServedOfRecover ==
  ASSUME NEW p \in Deploys, ServedGuarded, Panel!RestoreChosen(p) PROVE Served'
<1>1. Acts(p) /\ Panel!Running(p)
  BY DEF Acts, Recovers, Panel!RestoreChosen, Panel!Step, Panel!Running
<1>2. /\ pc[p] = "rename" /\ pc'[p] = "sync" /\ robbed' = robbed /\ (crossed => crossed')
      /\ p \in Panel!Actors
  BY <1>1, ActFrame
  DEF Panel!RestoreChosen, Panel!Step, Panel!Goto, Panel!Recovered, ServedGuarded,
      PanelGuarded, CopiesTyped, Panel!Actors
<1> SUFFICES ASSUME ~robbed, ~crossed, ~crossed'
             PROVE  InPlace' /\ \A q \in Deploys : Undoable(q)'
  BY <1>2 DEF Served
<1>3. InPlace' /\ Undoable(p)'
  BY <1>2, ChosenServed DEF Undoable
<1> QED BY <1>1, <1>3, OthersUndoable

LEMMA ServedOfSetAside ==
  ASSUME NEW p \in Deploys, ServedGuarded, Panel!SetAside(p) PROVE Served'
<1>1. Acts(p) /\ Panel!Running(p)
  BY DEF Acts, Moves, Panel!SetAside, Panel!Step, Panel!Running
<1>2. /\ pc[p] = "aside" /\ UNCHANGED <<builtAt, current, robbed, crossed>>
      /\ backup \in [Deploys -> Panel!Contents]
      /\ \/ pc'[p] = "move" /\ backup' = [backup EXCEPT ![p] = panel] /\ panel' = None
         \/ pc'[p] = "unlock" /\ UNCHANGED <<backup, panel>>
  BY DEF Panel!SetAside, Panel!Step, Panel!Goto, Panel!history, ServedGuarded, PanelGuarded,
         CopiesTyped, Panel!Actors
<1> SUFFICES ASSUME ~robbed, ~crossed PROVE InPlace' /\ \A q \in Deploys : Undoable(q)'
  BY <1>2 DEF Served
<1>3. InPlace
  BY DEF ServedGuarded, Served
<1>4. CASE pc'[p] = "move"
  <2>1. backup[p] = None
    BY <1>2 DEF ServedGuarded, PanelGuarded, NoEarlyBackup, Early
  <2>2. backup'[p] = panel /\ panel' = None /\ \A q \in Deploys \ {p} : backup'[q] = backup[q]
    BY <1>2, <1>4
  <2>3. backup'[p] \in {None, Panel!Damaged, current}
    BY <1>3, <2>2 DEF InPlace
  <2>4. current # None => Above(current)'
    BY <1>2, <1>3, <2>2, <2>3, WholeOrDamaged DEF InPlace, Above
  <2>5. current # None => \E q \in Deploys : backup'[q] = current
    <3> SUFFICES ASSUME current # None, panel # current
                 PROVE  \E q \in Deploys : backup'[q] = current
      BY <2>2
    <3>1. PICK r \in Deploys : backup[r] = current
      BY <1>3 DEF InPlace
    <3> QED BY <2>1, <2>2, <3>1
  <2>6. InPlace'
    BY <1>2, <1>3, <2>2, <2>4, <2>5 DEF InPlace
  <2>7. Undoable(p)'
    <3>1. backup'[p] \in Panel!Builds => Above(backup[p])'
      BY <1>2, <2>3, <2>4, WholeOrDamaged DEF Above
    <3> QED BY <1>4, <3>1 DEF Undoable
  <2> QED BY <1>1, <2>6, <2>7, OthersUndoable
<1>5. CASE pc'[p] = "unlock"
  <2>1. InPlace' /\ Undoable(p)'
    BY <1>2, <1>3, <1>5 DEF InPlace, Above, Undoable
  <2> QED BY <1>1, <2>1, OthersUndoable
<1> QED BY <1>2, <1>4, <1>5

LEMMA ServedOfPut ==
  ASSUME NEW p \in Deploys, ServedGuarded, Panel!Move(p) \/ Panel!Place(p) PROVE Served'
<1>1. Acts(p) /\ Panel!Running(p)
  BY DEF Acts, Moves, Panel!Move, Panel!Place, Panel!Step, Panel!Running
<1>2. /\ UNCHANGED <<backup, builtAt, robbed, crossed>>
      /\ \/ pc[p] = "move" /\ pc'[p] = "rmBackup" /\ panel' = output /\ current' = output
         \/ /\ pc[p] = "place" /\ pc'[p] = "source" /\ moving[p] \in Panel!Builds
            /\ panel' = moving[p] /\ current' = moving[p]
  BY DEF Panel!Move, Panel!Place, Panel!Put, Panel!Step, Panel!Goto, ServedGuarded,
         PanelGuarded, CopiesTyped, Panel!Actors
<1> SUFFICES ASSUME ~robbed, ~crossed PROVE InPlace' /\ \A q \in Deploys : Undoable(q)'
  BY <1>2 DEF Served
<1>3. Undoable(p)
  BY DEF ServedGuarded, Served
<1>4. /\ panel' = p /\ current' = p
      /\ \A v \in Panel!Builds \ {p} : builtAt[v] < builtAt[p]
  BY <1>2 DEF ServedGuarded, OutputNewest, Swapping
<1>5. p # None /\ p \in Panel!Builds
  BY PublicationsAssumption DEF Panel!Builds
<1>6. Above(current)'
  BY <1>2, <1>4 DEF Above
<1>7. InPlace'
  BY <1>4, <1>5, <1>6 DEF InPlace
<1>8. Undoable(p)'
  <2>1. Above(backup[p])' <=> Above(backup[p])
    BY <1>2 DEF Above
  <2> QED BY <1>2, <1>3, <1>4, <1>5, <2>1 DEF Undoable
<1> QED BY <1>1, <1>7, <1>8, OthersUndoable

LEMMA ServedOfClear ==
  ASSUME NEW p \in Deploys, ServedGuarded, Panel!DamagePanel(p) \/ Panel!ClearPanel(p)
  PROVE  Served'
<1>1. Acts(p) /\ Panel!Running(p)
  BY DEF Acts, Moves, Panel!DamagePanel, Panel!ClearPanel, Panel!Step, Panel!Running
<1>2. /\ UNCHANGED <<backup, builtAt, robbed>> /\ (crossed => crossed')
      /\ pc[p] = "clear" /\ pc'[p] \in {"clear", "restore"}
      /\ panel' = None \/ (panel' = Panel!Damaged /\ panel \in Panel!Builds)
      /\ Panel!GiveUpPanel(p)
  BY <1>1, ActFrame
  DEF Panel!DamagePanel, Panel!ClearPanel, Panel!Step, Panel!Goto, ServedGuarded,
      PanelGuarded, CopiesTyped, Panel!Actors
<1> SUFFICES ASSUME ~robbed, ~crossed, ~crossed'
             PROVE  InPlace' /\ \A q \in Deploys : Undoable(q)'
  BY <1>2 DEF Served
<1>3. /\ InPlace
      /\ backup[p] \in Panel!Builds => Above(backup[p])
      /\ \A v : Above(v)' <=> /\ \A q \in Deploys : backup[q] \in Panel!Builds \ {v} =>
                                                      builtAt[backup[q]] < builtAt[v]
  BY <1>2 DEF ServedGuarded, Served, Undoable, Above
<1>4. CASE panel \in Panel!Builds
  <2>1. backup[p] \in Panel!Builds /\ current' = backup[p]
    BY <1>2, <1>4 DEF Panel!GiveUpPanel
  <2>2. Above(current)'
    BY <1>2, <1>3, <2>1 DEF Above
  <2>3. InPlace'
    BY <1>2, <2>1, <2>2, WholeOrDamaged DEF InPlace
  <2>4. Undoable(p)'
    BY <1>2, <2>1, <2>2 DEF Undoable, Above
  <2> QED BY <1>1, <2>3, <2>4, OthersUndoable
<1>5. CASE panel \notin Panel!Builds
  <2>1. current' = current /\ panel' = None
    BY <1>2, <1>5 DEF Panel!GiveUpPanel
  <2>2. InPlace'
    <3>1. current # None => current \in Panel!Builds
      BY DEF ServedGuarded, ServedTyped
    <3> QED BY <1>2, <1>3, <1>5, <2>1, <3>1 DEF InPlace, Above
  <2>3. backup[p] \in {None, Panel!Damaged, current}
    <3> SUFFICES ASSUME backup[p] \in Panel!Builds, backup[p] # current PROVE FALSE
      BY WholeOrDamaged
    <3>1. current \in Panel!Builds
      BY <1>3, WholeOrDamaged DEF InPlace, ServedGuarded, ServedTyped
    <3>2. PICK r \in Deploys : backup[r] = current
      BY <1>3, <1>5, <3>1, WholeOrDamaged DEF InPlace
    <3>3. builtAt[backup[p]] < builtAt[current] /\ builtAt[current] < builtAt[backup[p]]
      BY <1>3, <3>1, <3>2, WholeOrDamaged DEF InPlace, Above
    <3>4. builtAt[backup[p]] \in Nat /\ builtAt[current] \in Nat
      BY <3>1 DEF ServedGuarded, ServedTyped
    <3> QED BY <3>3, <3>4
  <2>4. Undoable(p)'
    BY <1>2, <1>3, <2>1, <2>3 DEF Undoable, Above
  <2> QED BY <1>1, <2>2, <2>4, OthersUndoable
<1> QED BY <1>4, <1>5

LEMMA ServedOfRestore ==
  ASSUME NEW p \in Deploys, ServedGuarded, Panel!RestoreBackup(p) \/ Panel!RemoveBackup(p)
  PROVE  Served'
<1>1. Acts(p) /\ Panel!Running(p)
  BY DEF Acts, Moves, Panel!RestoreBackup, Panel!RemoveBackup, Panel!Step, Panel!Running
<1>2. /\ UNCHANGED <<builtAt, current, robbed, crossed>>
      /\ pc'[p] \in {pc[p], "unlock"} \/ Panel!RestoreBackup(p)
      /\ Panel!RestoreBackup(p) => pc'[p] = "unlock"
  BY DEF Panel!RestoreBackup, Panel!RemoveBackup, Panel!Step, Panel!Goto, Panel!history,
         ServedGuarded, PanelGuarded, CopiesTyped, Panel!Actors
<1> SUFFICES ASSUME ~robbed, ~crossed PROVE InPlace' /\ \A q \in Deploys : Undoable(q)'
  BY <1>2 DEF Served
<1>3. InPlace' /\ (pc'[p] = pc[p] => Undoable(p)')
  <2>1. CASE UNCHANGED <<panel, backup>>
    BY <1>2, <2>1, BackupsGo
  <2>2. CASE Panel!RestoreBackup(p) /\ ~UNCHANGED <<panel, backup>>
    <3>1. pc[p] = "restore" /\ backup[p] # None /\ Panel!Vacant /\ Panel!Restore(p)
      BY <2>2 DEF Panel!RestoreBackup, Panel!Step
    <3>2. backup[p] \in {current, Panel!Damaged}
      BY <3>1 DEF ServedGuarded, Served, Undoable
    <3> QED BY <1>2, <3>1, <3>2, PutBack
  <2>3. CASE Panel!RemoveBackup(p)
    <3>1. /\ pc[p] = "rmBackup" /\ UNCHANGED panel
          /\ \A q \in Deploys : backup'[q] \in {backup[q], Panel!Damaged, None}
      BY <2>3
      DEF Panel!RemoveBackup, Panel!Damage, Panel!Step, ServedGuarded, PanelGuarded,
          CopiesTyped
    <3>2. panel \in Panel!Builds
      BY <3>1 DEF ServedGuarded, Served, Undoable
    <3> QED BY <1>2, <3>1, <3>2, BackupsGo
  <2> QED BY <2>1, <2>2, <2>3
<1>4. pc'[p] = "unlock" => Undoable(p)'
  BY DEF Undoable
<1> QED BY <1>1, <1>2, <1>3, <1>4, OthersUndoable

LEMMA ServedStep ==
  ASSUME ServedGuarded, Panel!Next \/ UNCHANGED <<ofBoth, ofPanel>> PROVE ServedGuarded'
<1>1. PanelGuarded'
  BY PanelStep DEF ServedGuarded
<1>2. ASSUME NEW p \in Deploys, Acts(p) PROVE ServedGuarded'
  <2>1. ServedTyped' /\ Sole' /\ Ordered' /\ StoredBuilt' /\ OutputNewest'
    BY <1>2, TypedKeeps, SoleKeeps, OrderedKeeps, StoredKeeps, OutputKeeps
  <2>2. CASE \/ Panel!Build(p) \/ Panel!RestoreChosen(p) \/ Panel!SetAside(p)
             \/ Panel!Move(p) \/ Panel!Place(p) \/ Panel!DamagePanel(p)
             \/ Panel!ClearPanel(p) \/ Panel!RestoreBackup(p) \/ Panel!RemoveBackup(p)
    <3>1. Served'
      BY <2>2, ServedOfBuild, ServedOfRecover, ServedOfSetAside, ServedOfPut, ServedOfClear,
         ServedOfRestore
    <3> QED BY <1>1, <2>1, <3>1 DEF ServedGuarded
  <2>3. CASE ~(\/ Panel!Build(p) \/ Panel!RestoreChosen(p) \/ Panel!SetAside(p)
               \/ Panel!Move(p) \/ Panel!Place(p) \/ Panel!DamagePanel(p)
               \/ Panel!ClearPanel(p) \/ Panel!RestoreBackup(p) \/ Panel!RemoveBackup(p))
    <3>1. UNCHANGED <<panel, backup, builtAt, current, crossed>>
      <4>1. CASE ~Stores(p)
        BY <1>2, <4>1, StoresOtherwise
      <4>2. CASE Stores(p)
        BY <2>3, <4>2
        DEF Stores, Moves, Panel!Sync, Panel!MoveAcross, Panel!Copy, Panel!FailMove,
            Panel!RemoveSource, Panel!history
      <4> QED BY <4>1, <4>2
    <3>2. Served'
      BY <1>2, <2>3, <3>1, ServedOfRest
    <3> QED BY <1>1, <2>1, <3>2 DEF ServedGuarded
  <2> QED BY <2>2, <2>3
<1>3. ASSUME NEW s \in Starters, Starts(s) PROVE ServedGuarded'
  <2>1. /\ \A p \in Deploys : pc'[p] = pc[p] /\ moving'[p] \in {moving[p], None}
        /\ moving' \in [Deploys -> Panel!Builds \cup {Panel!Partial, None}]
        /\ UNCHANGED <<output, builtAt, lock, current, robbed>>
    BY <1>3, StartFrame DEF ServedGuarded
  <2>2. ServedTyped' /\ Ordered'
    BY <2>1 DEF ServedGuarded, ServedTyped, Ordered, Built
  <2>3. Sole'
    BY <2>1 DEF ServedGuarded, Sole, Panel!Running, Panel!Holder
  <2>4. OutputNewest'
    BY <2>1, PublicationsAssumption DEF ServedGuarded, OutputNewest
  <2>5. StoredBuilt'
    <3> SUFFICES ASSUME NEW v \in Deploys, builtAt[v] = 0
                 PROVE  /\ v \notin {panel', output', current'}
                        /\ \A q \in Deploys : v \notin {backup'[q], moving'[q]}
      BY <2>1 DEF StoredBuilt
    <3>1. /\ v \notin {panel, output, current, None, EmptyDir, Panel!Damaged}
          /\ \A q \in Deploys : v # backup[q] /\ v # moving[q]
          /\ backup \in [Deploys -> Panel!Contents]
      BY PublicationsAssumption
      DEF ServedGuarded, StoredBuilt, Panel!Builds, PanelGuarded, CopiesTyped
    <3>2. v # panel' /\ \A q \in Deploys : v # backup'[q]
      BY <1>3, <3>1
      DEF Starts, Starting, Recovers, Panel!MakePanelDir, Panel!SweepCheck, Panel!SweepList,
          Panel!Sweep, Panel!SweepBackup, Panel!SweepMoving, Panel!Damage,
          Panel!LookForPanel, Panel!ChooseBackup, Panel!RestoreChosen, Panel!Backups,
          Panel!Restore, Panel!files
    <3> QED BY <2>1, <3>1, <3>2
  <2>6. Served'
    BY <1>3, ServedOfStart
  <2> QED BY <1>1, <2>2, <2>3, <2>4, <2>5, <2>6 DEF ServedGuarded
<1>4. CASE UNCHANGED <<ofBoth, ofPanel>>
  <2>1. UNCHANGED <<panel, backup, moving, output, builtAt, lock, pc, current, robbed, crossed>>
    BY <1>4 DEF ofBoth, ofPanel
  <2>2. ServedTyped' /\ Ordered' /\ StoredBuilt' /\ OutputNewest'
    BY <2>1 DEF ServedGuarded, ServedTyped, Ordered, Built, StoredBuilt, OutputNewest
  <2>3. Sole'
    BY <2>1 DEF ServedGuarded, Sole, Panel!Running, Panel!Holder
  <2>4. Served'
    BY <2>1 DEF ServedGuarded, Served, InPlace, Undoable, Above
  <2> QED BY <1>1, <2>2, <2>3, <2>4 DEF ServedGuarded
<1> QED
  BY <1>2, <1>3, <1>4
  DEF Panel!Next, Panel!Actors, Acts, Apart, Moves, Recovers, Starts, Starting

LEMMA SpecServedGuarded == Spec => [](part = "panel" => ServedGuarded)
<1>1. Init => (part = "panel" => ServedGuarded)
  BY InitServed DEF Init
<1>2. (part = "panel" => ServedGuarded) /\ [Next]_vars => (part = "panel" => ServedGuarded)'
  <2> SUFFICES ASSUME part = "panel" => ServedGuarded, [Next]_vars, part' = "panel"
               PROVE  ServedGuarded'
    OBVIOUS
  <2>1. part = "panel" /\ (Panel!Next \/ UNCHANGED <<ofBoth, ofPanel>>)
    BY DEF Next, vars
  <2> QED BY <2>1, ServedStep
<1> QED BY <1>1, <1>2, PTL DEF Spec

\* As long as no lock is stolen from a deployment that runs, and none of the things
\* happens that Panel!PanelKept and Panel!LastDeployedServed name, no panel is served but
\* the one that was put in place last, and recoverPanelBackups prefers no other whole
\* panel to it: for any number of deployments and servers, whatever removals broke off.
THEOREM SpecLastDeployedServed == Spec => []LastDeployedServed
<1>1. ServedGuarded => Panel!LastDeployedServed
  BY NewestIsCurrent, WholeOrDamaged
  DEF Panel!LastDeployedServed, ServedGuarded, Served, InPlace
<1>2. (part = "panel" => ServedGuarded) => LastDeployedServed
  BY <1>1 DEF LastDeployedServed
<1> QED BY <1>2, SpecServedGuarded, PTL

(***************************************************************************)
(* Textures.  What sanitizePng puts together of a valid file is a header,  *)
(* perhaps a palette, perhaps a transparency, an image and an end; from    *)
(* that shape follows all that validatePngStructure asks of it, and that   *)
(* it is left alone the next time.                                         *)
(***************************************************************************)
LEMMA Sizes == \A S : Png!Cardinality(S) = Cardinality(S)
  BY DEF Png!Cardinality, Cardinality

LEMMA UpTo == ASSUME NEW n \in Nat PROVE IsFiniteSet(1..n) /\ Cardinality(1..n) = n
<1>1. 1 \in Int /\ n \in Int
  OBVIOUS
<1>2. IsFiniteSet(1..n) /\ Cardinality(1..n) = (IF 1 > n THEN 0 ELSE n - 1 + 1)
  BY <1>1, FS_Interval
<1> QED BY <1>2

\* A file that was read chunk by chunk.
Cut(f) == f \in Png!Files /\ f.chunks # <<>>

LEMMA OnlyOne ==
  ASSUME NEW f, Cut(f), NEW type, NEW i \in Png!Places(f, type),
         \A j \in Png!Places(f, type) : j = i
  PROVE  Png!Find(f, type) = <<f.chunks[i]>>
<1>1. i \in Nat /\ Png!Places(f, type) = {i}
  BY DEF Cut, Png!Files, Png!Places
<1>2. \A k \in Png!Places(f, type) : (\A j \in Png!Places(f, type) : k <= j) <=> k = i
  BY <1>1
<1>3. (CHOOSE k \in Png!Places(f, type) : \A j \in Png!Places(f, type) : k <= j) = i
  BY <1>1, <1>2
<1> QED BY <1>1, <1>3 DEF Png!Find

\* No two chunks of a valid file are of these types.
LEMMA NoSecond ==
  ASSUME NEW f, Cut(f), Png!Valid(f), NEW type \in {"IHDR", "PLTE", "tRNS"},
         NEW i \in Png!Places(f, type), NEW j \in Png!Places(f, type)
  PROVE  j = i
<1>1. /\ i \in 1..Len(f.chunks) /\ j \in 1..Len(f.chunks)
      /\ f.chunks[i].type = type /\ f.chunks[j].type = type
  BY DEF Cut, Png!Files, Png!Places
<1>2. Png!ChunkValid(f, i) /\ Png!ChunkValid(f, j)
  BY <1>1 DEF Png!Valid, Cut, Png!Files
<1>3. CASE type = "IHDR"
  BY <1>1, <1>2, <1>3 DEF Png!ChunkValid
<1>4. CASE type # "IHDR"
  <2>1. ~Png!Before(f, i, type) /\ ~Png!Before(f, j, type)
    BY <1>1, <1>2, <1>4 DEF Png!ChunkValid
  <2>2. ~(i < j) /\ ~(j < i)
    BY <1>1, <2>1 DEF Png!Before
  <2> QED BY <1>1, <2>2
<1> QED BY <1>3, <1>4

\* What chunks.find returns of a valid file.
LEMMA FoundOrNot ==
  ASSUME NEW f, Cut(f), Png!Valid(f), NEW type \in {"IHDR", "PLTE", "tRNS"}
  PROVE  \/ Png!Places(f, type) = {} /\ Png!Find(f, type) = <<>>
         \/ \E i \in DOMAIN f.chunks : /\ f.chunks[i].type = type /\ Png!ChunkValid(f, i)
                                       /\ Png!Find(f, type) = <<f.chunks[i]>>
<1>1. CASE Png!Places(f, type) = {}
  BY <1>1 DEF Png!Find
<1>2. ASSUME NEW i \in Png!Places(f, type)
      PROVE  /\ i \in DOMAIN f.chunks /\ f.chunks[i].type = type /\ Png!ChunkValid(f, i)
             /\ Png!Find(f, type) = <<f.chunks[i]>>
  BY OnlyOne, NoSecond, ZenonT(60) DEF Png!Places, Png!Valid
<1> QED BY <1>1, <1>2

LEMMA HeaderFound ==
  ASSUME NEW f, Cut(f), Png!Valid(f)
  PROVE  /\ 1 \in DOMAIN f.chunks /\ f.chunks[1].type = "IHDR"
         /\ Png!Find(f, "IHDR") = <<f.chunks[1]>>
<1>1. 1 \in 1..Len(f.chunks) /\ DOMAIN f.chunks = 1..Len(f.chunks)
  BY DEF Cut, Png!Files
<1>2. f.chunks[1].type = "IHDR"
  BY <1>1 DEF Png!Valid, Png!ChunkValid
<1>3. 1 \in Png!Places(f, "IHDR")
  BY <1>1, <1>2 DEF Png!Places
<1> QED BY <1>1, <1>2, <1>3, OnlyOne, NoSecond

\* A valid file has image data, and its units can be counted.
LEMMA HasImage ==
  ASSUME NEW f, Cut(f), Png!Valid(f)
  PROVE  /\ Png!Image(f) \in Nat /\ Png!Image(f) > 0
         /\ f.colour = 3 => Png!Places(f, "PLTE") # {}
<1>1. /\ Len(f.chunks) \in Nat /\ DOMAIN f.chunks = 1..Len(f.chunks) /\ Len(f.chunks) > 0
      /\ \A i \in DOMAIN f.chunks : f.chunks[i].length \in Nat
  <2>1. f.chunks \in Seq(Png!Chunks) /\ f.chunks # <<>>
    BY DEF Cut, Png!Files
  <2>2. \A c \in Png!Chunks : c.length \in Nat
    BY DEF Png!Chunks
  <2> QED BY <2>1, <2>2
<1>2. PICK i \in DOMAIN f.chunks : f.chunks[i].type = "IDAT"
  <2>1. Png!ChunkValid(f, Len(f.chunks)) /\ f.chunks[Len(f.chunks)].type = "IEND"
    BY <1>1 DEF Png!Valid
  <2>2. Png!Before(f, Len(f.chunks), "IDAT")
    BY <2>1 DEF Png!ChunkValid
  <2> QED BY <1>1, <2>2 DEF Png!Before
<1>3. f.chunks[i].length > 0 /\ (f.colour = 3 => Png!Before(f, i, "PLTE"))
  BY <1>1, <1>2 DEF Png!Valid, Png!ChunkValid
<1>4. f.colour = 3 => Png!Places(f, "PLTE") # {}
  BY <1>1, <1>3 DEF Png!Before, Png!Places
<1>5. IsFiniteSet(Png!Units(f))
  <2> DEFINE unitsOf(k) == {k} \X (1..f.chunks[k].length)
             places == Png!Places(f, "IDAT")
  <2>1. IsFiniteSet(places)
    <3>1. Len(f.chunks) \in Nat /\ places \subseteq 1..Len(f.chunks)
      BY <1>1 DEF Png!Places
    <3>2. IsFiniteSet(1..Len(f.chunks))
      BY <3>1, UpTo
    <3> QED BY <3>1, <3>2, FS_Subset
  <2>2. \A k \in places : IsFiniteSet(unitsOf(k))
    <3> SUFFICES ASSUME NEW k \in places PROVE IsFiniteSet(unitsOf(k))
      OBVIOUS
    <3>1. f.chunks[k].length \in Nat
      BY <1>1 DEF Png!Places
    <3>2. IsFiniteSet({k}) /\ IsFiniteSet(1..f.chunks[k].length)
      BY <3>1, FS_Singleton, UpTo
    <3> QED BY <3>2, FS_Product
  <2>3. IsFiniteSet({unitsOf(k) : k \in places})
    <3> DEFINE all == {unitsOf(k) : k \in places}
               g == [k \in places |-> unitsOf(k)]
    <3>1. g \in Surjection(places, all)
      BY DEF Surjection
    <3> HIDE DEF g, all
    <3>2. IsFiniteSet(all)
      BY <2>1, <3>1, FS_Surjection
    <3> QED BY <3>2 DEF all
  <2>4. Png!Units(f) = UNION {unitsOf(k) : k \in places}
    BY DEF Png!Units
  <2> QED BY <2>2, <2>3, <2>4, FS_UNION, ZenonT(60)
<1>6. <<i, 1>> \in Png!Units(f)
  <2>1. i \in Png!Places(f, "IDAT") /\ 1 \in 1..f.chunks[i].length
    BY <1>1, <1>2, <1>3 DEF Png!Places
  <2> QED BY <2>1 DEF Png!Units
<1>7. Cardinality(Png!Units(f)) \in Nat /\ Cardinality(Png!Units(f)) # 0
  BY <1>5, <1>6, FS_CardinalityType, FS_EmptySet
<1> QED BY <1>4, <1>7, Sizes DEF Png!Image

\* The types and lengths of the chunks of a file that was put together, and no other.
Shape(g, a, b, n) ==
  /\ g \in Png!Files /\ Len(g.chunks) = 3 + a + b
  /\ g.chunks[1].type = "IHDR"
  /\ a = 1 => g.chunks[2].type = "PLTE"
  /\ b = 1 => g.chunks[2 + a].type = "tRNS" /\ g.chunks[2 + a].length = 1
  /\ g.chunks[2 + a + b].type = "IDAT" /\ g.chunks[2 + a + b].length = n
  /\ g.chunks[3 + a + b].type = "IEND"

\* The type of the chunk at i of such a file.
TypeAt(i, a, b) ==
  IF i = 1 THEN "IHDR"
  ELSE IF i = 3 + a + b THEN "IEND"
  ELSE IF i = 2 + a + b THEN "IDAT"
  ELSE IF a = 1 /\ i = 2 THEN "PLTE" ELSE "tRNS"

LEMMA ShapeTypes ==
  ASSUME NEW g, NEW a \in {0, 1}, NEW b \in {0, 1}, NEW n, Shape(g, a, b, n)
  PROVE  /\ DOMAIN g.chunks = 1..3 + a + b
         /\ \A i \in DOMAIN g.chunks : g.chunks[i].type = TypeAt(i, a, b)
<1>1. DOMAIN g.chunks = 1..3 + a + b
  BY DEF Shape, Png!Files
<1>2. CASE a = 0 /\ b = 0
  BY <1>1, <1>2 DEF Shape, TypeAt
<1>3. CASE a = 1 /\ b = 0
  BY <1>1, <1>3 DEF Shape, TypeAt
<1>4. CASE a = 0 /\ b = 1
  BY <1>1, <1>4 DEF Shape, TypeAt
<1>5. CASE a = 1 /\ b = 1
  BY <1>1, <1>5 DEF Shape, TypeAt
<1> QED BY <1>1, <1>2, <1>3, <1>4, <1>5

LEMMA ShapeValid ==
  ASSUME NEW g, NEW a \in {0, 1}, NEW b \in {0, 1}, NEW n \in Nat, n > 0, g.inflates,
         Shape(g, a, b, n), g.colour = 3 <=> a = 1, b = 1 => g.colour \in {0, 2, 3}
  PROVE  Png!Valid(g) /\ Cut(g) /\ Png!Clean(g) /\ Png!Image(g) = n
<1>1. /\ g \in Png!Files /\ DOMAIN g.chunks = 1..3 + a + b /\ Len(g.chunks) = 3 + a + b
      /\ g.chunks # <<>>
  BY DEF TypeAt, Shape, Png!Files
<1>2. \A i \in DOMAIN g.chunks : g.chunks[i].type = TypeAt(i, a, b)
  BY ShapeTypes
<1>3. ASSUME NEW i \in DOMAIN g.chunks PROVE Png!ChunkValid(g, i)
  <2>1. CASE i = 1
    BY <1>1, <1>2, <2>1 DEF TypeAt, Png!ChunkValid
  <2>2. CASE i = 3 + a + b
    <3>1. g.chunks[i].type = "IEND" /\ i # 1 /\ i = Len(g.chunks)
      BY <1>1, <1>2, <2>2 DEF TypeAt
    <3>2. 2 + a + b \in 1..i - 1 /\ g.chunks[2 + a + b].type = "IDAT"
      BY <1>1, <2>2 DEF Shape
    <3>3. Png!Before(g, i, "IDAT")
      BY <3>2 DEF Png!Before
    <3> QED BY <3>1, <3>3 DEF Png!ChunkValid
  <2>3. CASE i = 2 + a + b
    BY <1>1, <1>2, <2>3 DEF TypeAt, Shape, Png!ChunkValid, Png!Before
  <2>4. CASE i # 1 /\ i < 2 + a + b
    <3>1. CASE a = 1 /\ i = 2
      BY <1>1, <1>2, <2>4, <3>1 DEF TypeAt, Shape, Png!ChunkValid, Png!Before
    <3>2. CASE b = 1 /\ i = 2 + a /\ ~(a = 1 /\ i = 2)
      BY <1>1, <1>2, <2>4, <3>2 DEF TypeAt, Shape, Png!ChunkValid, Png!Before
    <3> QED BY <1>1, <2>4, <3>1, <3>2
  <2> QED BY <1>1, <2>1, <2>2, <2>3, <2>4
<1>4. Png!Valid(g)
  <2>1. Len(g.chunks) \in DOMAIN g.chunks
    BY <1>1
  <2> QED BY <1>1, <1>2, <1>3, <2>1 DEF TypeAt, Png!Valid
<1>5. Png!Places(g, "IDAT") = {2 + a + b}
  BY <1>1, <1>2 DEF TypeAt, Png!Places
<1>6. Png!Clean(g)
  <2>1. Cardinality({2 + a + b}) = 1
    BY FS_Singleton
  <2>2. \A i \in DOMAIN g.chunks : ~Png!Foreign(g, g.chunks[i])
    BY <1>1, <1>2 DEF TypeAt, Png!Foreign
  <2> QED BY <1>5, <2>1, <2>2, Sizes DEF Png!Clean
<1>7. Png!Image(g) = n
  <2> DEFINE image == 2 + a + b
  <2>1. g.chunks[image].length = n
    BY DEF Shape
  <2>2. Png!Units(g) = {image} \X (1..n)
    <3>1. {{i} \X (1..g.chunks[i].length) : i \in {image}} = {{image} \X (1..n)}
      BY <2>1
    <3> QED BY <1>5, <3>1 DEF Png!Units
  <2> HIDE DEF image
  <2>3. /\ IsFiniteSet({image}) /\ Cardinality({image}) = 1
        /\ IsFiniteSet(1..n) /\ Cardinality(1..n) = n
    BY FS_Singleton, UpTo
  <2>4. Cardinality({image} \X (1..n)) = 1 * n
    BY <2>3, FS_Product
  <2> QED BY <2>2, <2>4, Sizes DEF Png!Image
<1> QED BY <1>1, <1>4, <1>6, <1>7 DEF Cut

\* What chunks.find returns of such a file.
LEMMA ShapeFinds ==
  ASSUME NEW g, NEW a \in {0, 1}, NEW b \in {0, 1}, NEW n, Shape(g, a, b, n), Cut(g)
  PROVE  /\ Png!Find(g, "PLTE") = IF a = 1 THEN <<g.chunks[2]>> ELSE <<>>
         /\ Png!Find(g, "tRNS") = IF b = 1 THEN <<g.chunks[2 + a]>> ELSE <<>>
         /\ Png!Places(g, "tEXt") = {}
<1>1. /\ DOMAIN g.chunks = 1..3 + a + b
      /\ \A i \in DOMAIN g.chunks : g.chunks[i].type = TypeAt(i, a, b)
  BY ShapeTypes
<1>2. Png!Places(g, "PLTE") = (IF a = 1 THEN {2} ELSE {})
  BY <1>1 DEF TypeAt, Png!Places
<1>3. Png!Places(g, "tRNS") = (IF b = 1 THEN {2 + a} ELSE {})
  BY <1>1 DEF TypeAt, Png!Places
<1>4. Png!Places(g, "tEXt") = {}
  BY <1>1 DEF TypeAt, Png!Places
<1>5. Png!Find(g, "PLTE") = IF a = 1 THEN <<g.chunks[2]>> ELSE <<>>
  <2>1. CASE a = 1
    BY <1>2, <2>1, OnlyOne
  <2>2. CASE a # 1
    BY <1>2, <2>2 DEF Png!Find
  <2> QED BY <2>1, <2>2
<1>6. Png!Find(g, "tRNS") = IF b = 1 THEN <<g.chunks[2 + a]>> ELSE <<>>
  <2>1. CASE b = 1
    <3> DEFINE i == 2 + a
    <3>1. i \in Png!Places(g, "tRNS") /\ \A j \in Png!Places(g, "tRNS") : j = i
      BY <1>3, <2>1
    <3> HIDE DEF i
    <3>2. Png!Find(g, "tRNS") = <<g.chunks[i]>>
      BY <3>1, OnlyOne
    <3> QED BY <2>1, <3>2 DEF i
  <2>2. CASE b # 1
    BY <1>3, <2>2 DEF Png!Find
  <2> QED BY <2>1, <2>2
<1> QED BY <1>4, <1>5, <1>6

\* The chunks of a file that is put together.
LEMMA JoinTwo ==
  ASSUME NEW s \in Seq(Png!Chunks), NEW t \in Seq(Png!Chunks)
  PROVE  /\ s \o t \in Seq(Png!Chunks) /\ Len(s \o t) = Len(s) + Len(t)
         /\ \A i \in 1..Len(s) : (s \o t)[i] = s[i]
         /\ \A i \in 1..Len(t) : (s \o t)[Len(s) + i] = t[i]
  OBVIOUS
Together(c, h, p, t, d, e) ==
  /\ c \in Seq(Png!Chunks) /\ Len(c) = 3 + Len(p) + Len(t) /\ c[1] = h
  /\ Len(p) = 1 => c[2] = p[1]
  /\ Len(t) = 1 => c[2 + Len(p)] = t[1]
  /\ c[2 + Len(p) + Len(t)] = d /\ c[3 + Len(p) + Len(t)] = e

LEMMA Joined ==
  ASSUME NEW h \in Png!Chunks, NEW p \in Seq(Png!Chunks), NEW t \in Seq(Png!Chunks),
         NEW d \in Png!Chunks, NEW e \in Png!Chunks,
         Len(p) \in {0, 1}, Len(t) \in {0, 1}
  PROVE  Together(<<h>> \o p \o t \o <<d, e>>, h, p, t, d, e)
<1> SUFFICES ASSUME NEW a \in {0, 1}, Len(p) = a, NEW b \in {0, 1}, Len(t) = b,
                    NEW c, c = <<h>> \o p \o t \o <<d, e>>
             PROVE  Together(c, h, p, t, d, e)
  OBVIOUS
<1> DEFINE r == <<h>> \o p
           s == r \o t
           v == <<d, e>>
<1>0. c = s \o v
  OBVIOUS
<1>1. /\ r \in Seq(Png!Chunks) /\ Len(r) = 1 + a /\ r[1] = h /\ (a = 1 => r[2] = p[1])
  <2> DEFINE hh == <<h>>
  <2>1. hh \in Seq(Png!Chunks) /\ Len(hh) = 1 /\ hh[1] = h
    OBVIOUS
  <2> HIDE DEF hh
  <2>2. /\ hh \o p \in Seq(Png!Chunks) /\ Len(hh \o p) = 1 + a
        /\ (hh \o p)[1] = h /\ (a = 1 => (hh \o p)[2] = p[1])
    <3> DEFINE k == hh \o p
    <3>1. /\ k \in Seq(Png!Chunks) /\ Len(k) = Len(hh) + Len(p)
          /\ \A i \in 1..Len(hh) : k[i] = hh[i]
          /\ \A i \in 1..Len(p) : k[Len(hh) + i] = p[i]
      BY <2>1, JoinTwo
    <3> HIDE DEF k
    <3>2. k[1] = h /\ (a = 1 => k[2] = p[1])
      BY <2>1, <3>1
    <3> QED BY <2>1, <3>1, <3>2 DEF k
  <2> QED BY <2>2 DEF hh
<1> HIDE DEF r
<1>2. /\ s \in Seq(Png!Chunks) /\ Len(s) = 1 + a + b /\ s[1] = h /\ (a = 1 => s[2] = p[1])
      /\ b = 1 => s[2 + a] = t[1]
  BY <1>1, JoinTwo
<1> HIDE DEF s
<1>3. v \in Seq(Png!Chunks) /\ Len(v) = 2 /\ v[1] = d /\ v[2] = e
  OBVIOUS
<1> HIDE DEF v
<1>4. /\ c \in Seq(Png!Chunks) /\ Len(c) = 3 + a + b /\ c[1] = h
      /\ a = 1 => c[2] = p[1]
      /\ b = 1 => c[2 + a] = t[1]
      /\ c[2 + a + b] = d /\ c[3 + a + b] = e
  <2>0. s \in Seq(Png!Chunks) /\ v \in Seq(Png!Chunks)
    BY <1>2, <1>3
  <2>1. /\ c \in Seq(Png!Chunks) /\ Len(c) = Len(s) + Len(v)
        /\ \A i \in 1..Len(s) : c[i] = s[i]
        /\ \A i \in 1..Len(v) : c[Len(s) + i] = v[i]
    <3> DEFINE k == s \o v
    <3>1. /\ k \in Seq(Png!Chunks) /\ Len(k) = Len(s) + Len(v)
          /\ \A i \in 1..Len(s) : k[i] = s[i]
          /\ \A i \in 1..Len(v) : k[Len(s) + i] = v[i]
      BY <2>0, JoinTwo
    <3>2. c = k
      BY <1>0
    <3> HIDE DEF k
    <3> QED BY <3>1, <3>2
  <2>2. Len(c) = 3 + a + b /\ c[1] = h /\ (a = 1 => c[2] = p[1]) /\ (b = 1 => c[2 + a] = t[1])
    BY <1>2, <1>3, <2>1
  <2>3. c[Len(s) + 1] = d /\ c[Len(s) + 2] = e
    BY <1>3, <2>1
  <2>4. Len(s) + 1 = 2 + a + b /\ Len(s) + 2 = 3 + a + b
    BY <1>2
  <2>5. c[2 + a + b] = d /\ c[3 + a + b] = e
    BY <2>3, <2>4
  <2> QED BY <2>1, <2>2, <2>5
<1> QED BY <1>4 DEF Together

\* What sanitizePng puts together of a valid file has this shape.
LEMMA RebuiltShape ==
  ASSUME NEW f, Cut(f), Png!Valid(f)
  PROVE  \E a \in {0, 1}, b \in {0, 1} :
           /\ Shape(Png!Rebuilt(f), a, b, Png!Image(f))
           /\ f.colour = 3 <=> a = 1
           /\ b = 1 => f.colour \in {0, 2, 3}
           /\ Png!Palette(f) = IF a = 1 THEN <<Png!Rebuilt(f).chunks[2]>> ELSE <<>>
           /\ Png!Transparency(f) = IF b = 1 THEN <<Png!Rebuilt(f).chunks[2 + a]>> ELSE <<>>
<1> DEFINE g == Png!Rebuilt(f)
           n == Png!Image(f)
           h == f.chunks[1]
           d == Png!Chunk("IDAT", n)
           e == Png!Chunk("IEND", 1)
           p == Png!Palette(f)
           t == Png!Transparency(f)
           c == <<h>> \o p \o t \o <<d, e>>
<1>1. /\ f \in Png!Files
      /\ \A i \in DOMAIN f.chunks : f.chunks[i] \in Png!Chunks
  BY DEF Cut, Png!Files
<1>2. h \in Png!Chunks /\ h.type = "IHDR" /\ Png!Find(f, "IHDR") = <<h>>
  BY <1>1, HeaderFound
<1>3. n \in Nat
  BY HasImage
<1>4. d \in Png!Chunks /\ d.type = "IDAT" /\ d.length = n /\ e \in Png!Chunks /\ e.type = "IEND"
  BY <1>3 DEF Png!Chunk, Png!Chunks
<1>5. g = [f EXCEPT !.chunks = c]
  BY <1>2 DEF Png!Rebuilt, Png!Kept
<1>6. PICK a \in {0, 1} :
        /\ p \in Seq(Png!Chunks) /\ Len(p) = a /\ (f.colour = 3 <=> a = 1)
        /\ IF a = 1 THEN p = <<p[1]>> /\ p[1].type = "PLTE" ELSE p = <<>>
  <2>1. CASE f.colour = 3
    <3>1. PICK i \in DOMAIN f.chunks :
             f.chunks[i].type = "PLTE" /\ Png!Find(f, "PLTE") = <<f.chunks[i]>>
      BY <2>1, FoundOrNot, HasImage
    <3>2. p = <<f.chunks[i]>> /\ f.chunks[i] \in Png!Chunks
      BY <1>1, <2>1, <3>1 DEF Png!Palette
    <3> HIDE DEF p
    <3> QED BY <2>1, <3>1, <3>2
  <2>2. CASE f.colour # 3
    BY <2>2 DEF Png!Palette
  <2> QED BY <2>1, <2>2
<1>7. PICK b \in {0, 1} :
        /\ t \in Seq(Png!Chunks) /\ Len(t) = b /\ (b = 1 => f.colour \in {0, 2, 3})
        /\ IF b = 1 THEN t = <<t[1]>> /\ t[1].type = "tRNS" /\ t[1].length = 1 ELSE t = <<>>
  <2>1. CASE f.colour \in {0, 2, 3} /\ t # <<>>
    <3>1. PICK i \in DOMAIN f.chunks : /\ f.chunks[i].type = "tRNS" /\ Png!ChunkValid(f, i)
                                       /\ t = <<f.chunks[i]>>
      BY <2>1, FoundOrNot DEF Png!Transparency
    <3>2. f.chunks[i].length = 1
      BY <2>1, <3>1 DEF Png!ChunkValid
    <3>3. f.chunks[i] \in Png!Chunks
      BY <1>1
    <3> HIDE DEF t
    <3> QED BY <2>1, <3>1, <3>2, <3>3
  <2>2. CASE ~(f.colour \in {0, 2, 3} /\ t # <<>>)
    <3>1. t = <<>>
      BY <2>2 DEF Png!Transparency
    <3> HIDE DEF t
    <3> QED BY <3>1
  <2> QED BY <2>1, <2>2
<1> HIDE DEF n, h, d, e, p, t
<1>8. /\ c \in Seq(Png!Chunks) /\ Len(c) = 3 + a + b /\ c[1] = h
      /\ a = 1 => c[2] = p[1]
      /\ b = 1 => c[2 + a] = t[1]
      /\ c[2 + a + b] = d /\ c[3 + a + b] = e
  <2>1. /\ a \in {0, 1} /\ p \in Seq(Png!Chunks) /\ Len(p) = a
        /\ b \in {0, 1} /\ t \in Seq(Png!Chunks) /\ Len(t) = b
        /\ h \in Png!Chunks /\ d \in Png!Chunks /\ e \in Png!Chunks
    BY <1>2, <1>4, <1>6, <1>7
  <2>2. Together(c, h, p, t, d, e)
    BY <2>1, Joined
  <2> HIDE DEF c
  <2> QED BY <2>1, <2>2 DEF Together
<1> HIDE DEF g, c
<1>9. g \in Png!Files /\ g.chunks = c
  BY <1>1, <1>5, <1>8 DEF Png!Files
<1>10. Shape(g, a, b, n)
  BY <1>2, <1>4, <1>6, <1>7, <1>8, <1>9 DEF Shape
<1>11. /\ p = IF a = 1 THEN <<g.chunks[2]>> ELSE <<>>
       /\ t = IF b = 1 THEN <<g.chunks[2 + a]>> ELSE <<>>
  BY <1>6, <1>7, <1>8, <1>9
<1> QED BY <1>6, <1>7, <1>10, <1>11 DEF g, n, p, t

\* Of a file that was uploaded sanitizePng makes a clean one, and of that the same.
LEMMA SanitizedIsClean ==
  ASSUME NEW f, Cut(f), NEW g, g = Png!Sanitize(f), g # Reject
  PROVE  /\ Png!Valid(g) /\ g.colour = f.colour
         /\ Png!Image(g) = Png!Image(f)
         /\ Png!Cardinality(Png!Places(g, "IDAT")) = 1
         /\ Png!Places(g, "tEXt") = {}
         /\ Png!Find(g, "PLTE") = IF f.colour = 3 THEN Png!Find(f, "PLTE") ELSE <<>>
         /\ Png!Find(g, "tRNS") = IF f.colour = 6 THEN <<>> ELSE Png!Find(f, "tRNS")
         /\ Png!Sanitize(g) = g
<1>1. Png!Valid(f) /\ f.inflates /\ f \in Png!Files /\ f.colour \in {0, 2, 3, 6}
  BY DEF Png!Sanitize, Cut, Png!Files, Png!Colours
<1>2. CASE Png!Clean(f)
  <2>1. g = f
    BY <1>1, <1>2 DEF Png!Sanitize
  <2>2. Png!Cardinality(Png!Places(f, "IDAT")) = 1
    BY <1>2 DEF Png!Clean
  <2>3. \A i \in DOMAIN f.chunks : ~Png!Foreign(f, f.chunks[i])
    BY <1>2 DEF Png!Clean
  <2>4. /\ Png!Places(f, "tEXt") = {}
        /\ f.colour # 3 => Png!Places(f, "PLTE") = {}
        /\ f.colour = 6 => Png!Places(f, "tRNS") = {}
    BY <2>3 DEF Png!Foreign, Png!Places
  <2>5. /\ Png!Find(f, "PLTE") = IF f.colour = 3 THEN Png!Find(f, "PLTE") ELSE <<>>
        /\ Png!Find(f, "tRNS") = IF f.colour = 6 THEN <<>> ELSE Png!Find(f, "tRNS")
    BY <2>4 DEF Png!Find
  <2>6. Png!Sanitize(f) = f
    BY <2>1
  <2> QED BY <1>1, <2>1, <2>2, <2>4, <2>5, <2>6
<1>3. CASE ~Png!Clean(f)
  <2>1. g = Png!Rebuilt(f)
    BY <1>1, <1>3 DEF Png!Sanitize
  <2>2. g.colour = f.colour /\ g.inflates
    BY <1>1, <2>1 DEF Png!Rebuilt, Png!Files
  <2>3. PICK a \in {0, 1}, b \in {0, 1} :
           /\ Shape(g, a, b, Png!Image(f))
           /\ f.colour = 3 <=> a = 1
           /\ b = 1 => f.colour \in {0, 2, 3}
           /\ Png!Palette(f) = IF a = 1 THEN <<g.chunks[2]>> ELSE <<>>
           /\ Png!Transparency(f) = IF b = 1 THEN <<g.chunks[2 + a]>> ELSE <<>>
    BY <1>1, <2>1, RebuiltShape
  <2>4. Png!Image(f) \in Nat /\ Png!Image(f) > 0
    BY <1>1, HasImage
  <2>5. Png!Valid(g) /\ Cut(g) /\ Png!Clean(g) /\ Png!Image(g) = Png!Image(f)
    BY <2>2, <2>3, <2>4, ShapeValid
  <2>6. Png!Sanitize(g) = g
    BY <2>2, <2>5 DEF Png!Sanitize
  <2>7. /\ Png!Find(g, "PLTE") = Png!Palette(f) /\ Png!Find(g, "tRNS") = Png!Transparency(f)
        /\ Png!Places(g, "tEXt") = {}
    BY <2>3, <2>5, ShapeFinds
  <2> QED BY <1>1, <2>2, <2>5, <2>6, <2>7 DEF Png!Clean, Png!Palette, Png!Transparency
<1> QED BY <1>2, <1>3

-----------------------------------------------------------------------------
\* What is uploaded, and what is stored of it.
TextureGuarded == Cut(file) /\ (sanitized = None \/ sanitized = Png!Sanitize(file))

LEMMA InitTexture == Png!Init => TextureGuarded
<1> SUFFICES ASSUME Png!Init PROVE TextureGuarded
  OBVIOUS
<1>1. PICK colour \in Png!Colours, inflates \in BOOLEAN, n \in 0..MaxChunks :
        \E middle \in [1..n -> Png!Middle], end \in {<<>>, <<Png!Chunk("IEND", 1)>>} :
          file = [colour |-> colour, inflates |-> inflates,
                  chunks |-> <<Png!Chunk("IHDR", 1)>> \o middle \o end]
  BY DEF Png!Init
<1>2. PICK middle \in [1..n -> Png!Middle], end \in {<<>>, <<Png!Chunk("IEND", 1)>>} :
        file = [colour |-> colour, inflates |-> inflates,
                chunks |-> <<Png!Chunk("IHDR", 1)>> \o middle \o end]
  BY <1>1
<1>3. Png!Middle \subseteq Png!Chunks
  BY DEF Png!Middle, Png!Chunks, Png!Chunk
<1>4. Png!Chunk("IHDR", 1) \in Png!Chunks /\ Png!Chunk("IEND", 1) \in Png!Chunks
  BY DEF Png!Chunks, Png!Chunk
<1>5. middle \in Seq(Png!Chunks)
  BY <1>3
<1>6. end \in Seq(Png!Chunks) /\ <<Png!Chunk("IHDR", 1)>> \in Seq(Png!Chunks)
  <2>1. CASE end = <<>>
    BY <1>4, <2>1
  <2>2. CASE end = <<Png!Chunk("IEND", 1)>>
    BY <1>4, <2>2
  <2> QED BY <2>1, <2>2
<1>7. <<Png!Chunk("IHDR", 1)>> \o middle \o end \in Seq(Png!Chunks)
  BY <1>5, <1>6
<1>8. <<Png!Chunk("IHDR", 1)>> \o middle \o end # <<>>
  BY <1>5, <1>6
<1>9. Cut(file)
  BY <1>2, <1>7, <1>8 DEF Cut, Png!Files
<1> QED BY <1>9 DEF Png!Init, TextureGuarded

\* Of every file, of any number of chunks, what is stored is a valid file of the same image in
\* one chunk, with its palette and its transparency and nothing else, and uploaded again it
\* stays as it is.  (sanitizePng)
THEOREM SpecStoredIsClean == Spec => []StoredIsClean
<1>1. Init => (part = "texture" => TextureGuarded)
  BY InitTexture DEF Init
<1>2. (part = "texture" => TextureGuarded) /\ [Next]_vars => (part = "texture" => TextureGuarded)'
  BY DEF Next, vars, ofPng, TextureGuarded, Cut, Png!Next, Png!SanitizePng
<1>3. (part = "texture" => TextureGuarded) => StoredIsClean
  BY SanitizedIsClean DEF TextureGuarded, StoredIsClean, Png!StoredIsClean
<1> QED BY <1>1, <1>2, <1>3, PTL DEF Spec
=============================================================================
