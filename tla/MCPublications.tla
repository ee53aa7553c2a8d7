--------------------------- MODULE MCPublications ---------------------------
(***************************************************************************)
(* What is put in place under public/: releases of the launcher, the       *)
(* panel, mods and textures, and how uploads are read before that.  The    *)
(* parts share no state; a behaviour is one of one of them, as part says,  *)
(* and the variables that a part does not have are None in it.             *)
(***************************************************************************)
EXTENDS Naturals, FiniteSets, TLC

CONSTANTS
  Publications, Deploys, Starters, Platforms, First, EmptyDir,
  Names, MaxUploads, MaxChunks, Reject, StreamLimit, SmallLimit, MaxParts, None

VARIABLES part, backup, lock, pc, todo, robbed,
          release, staging, files, latest, swept, ambiguous,
          panel, moving, repo, output, builtAt, had, current, crossed,
          uploads, disk, promised, turn, cached, dropping, unfinished, outdated,
          file, sanitized,
          kind, at, parts, field, slot, sent, written, tmp, listed, held, taken

ofBoth == <<backup, lock, pc, todo, robbed>>
ofRelease == <<release, staging, files, latest, swept, ambiguous>>
ofPanel == <<panel, moving, repo, output, builtAt, had, current, crossed>>
ofMods == <<uploads, disk, promised, turn, cached, dropping, unfinished, outdated>>
ofPng == <<file, sanitized>>
ofParts == <<kind, at, parts, field, slot, sent, written, tmp, listed, held, taken>>
vars == <<part, ofBoth, ofRelease, ofPanel, ofMods, ofPng, ofParts>>

Release == INSTANCE ReleasePublish
Panel == INSTANCE PanelDeploy
Stock == INSTANCE Mods
Png == INSTANCE PngFile
Upload == INSTANCE UploadParts WITH Keys <- Names

ASSUME PublicationsAssumption ==
  /\ IsFiniteSet(Deploys)
  /\ (Publications \cup Deploys) \cap Starters = {}
  /\ First \notin Publications \cup Deploys
  /\ {EmptyDir, Panel!Partial, Panel!Damaged} \cap Panel!Builds = {}
  /\ EmptyDir # Panel!Damaged
  /\ {MaxUploads, StreamLimit, SmallLimit} \subseteq Nat
  /\ None \notin Publications \cup Panel!Builds \cup {EmptyDir, Panel!Damaged} \cup Nat
  /\ None \notin Release!Dir /\ None \notin Stock!Turns

Init ==
  /\ part \in {"release", "panel", "mods", "texture", "upload"}
  /\ IF part = "release" THEN Release!Init
     ELSE release = None /\ staging = None /\ files = None /\ latest = None
          /\ swept = None /\ ambiguous = None
  /\ IF part = "panel" THEN Panel!Init
     ELSE panel = None /\ moving = None /\ repo = None /\ output = None
          /\ builtAt = None /\ had = None /\ current = None /\ crossed = None
  /\ part \notin {"release", "panel"} =>
       backup = None /\ lock = None /\ pc = None /\ todo = None /\ robbed = None
  /\ IF part = "mods" THEN Stock!Init
     ELSE uploads = None /\ disk = None /\ promised = None /\ turn = None
          /\ cached = None /\ dropping = None /\ unfinished = None /\ outdated = None
  /\ IF part = "texture" THEN Png!Init ELSE file = None /\ sanitized = None
  /\ IF part = "upload" THEN Upload!Init
     ELSE kind = None /\ at = None /\ parts = None /\ field = None /\ slot = None /\ sent = None
          /\ written = None /\ tmp = None /\ listed = None /\ held = None /\ taken = None

Next ==
  /\ UNCHANGED part
  /\ \/ part = "release" /\ Release!Next /\ UNCHANGED <<ofPanel, ofMods, ofPng, ofParts>>
     \/ part = "panel" /\ Panel!Next /\ UNCHANGED <<ofRelease, ofMods, ofPng, ofParts>>
     \/ part = "mods" /\ Stock!Next /\ UNCHANGED <<ofBoth, ofRelease, ofPanel, ofPng, ofParts>>
     \/ part = "texture" /\ Png!Next /\ UNCHANGED <<ofBoth, ofRelease, ofPanel, ofMods, ofParts>>
     \/ part = "upload" /\ Upload!Next /\ UNCHANGED <<ofBoth, ofRelease, ofPanel, ofMods, ofPng>>

Spec == Init /\ [][Next]_vars

Symmetry == Permutations(Publications) \cup Permutations(Deploys) \cup Permutations(Platforms)
            \cup Permutations(Names)
-----------------------------------------------------------------------------
(* Something that was published is there or will be restored, and it is     *)
(* what was published last.                                                *)
ReleasesStay == part = "release" => Release!NothingLost /\ Release!PublishedStays

(* A panel is served or kept in a backup. *)
PanelKept == part = "panel" => Panel!PanelKept

(* The panel last put in place is what is served or restored. *)
LastDeployedServed == part = "panel" => Panel!LastDeployedServed

(* The mods are those of the acknowledged requests, and so is their list;  *)
(* an upload is handed on whole or leaves nothing.                         *)
ModsServed ==
  /\ part = "mods" => Stock!ModsKept /\ Stock!ListCurrent
  /\ part = "upload" => Upload!NothingLeft /\ Upload!AllWhole /\ Upload!Paired

(* A stored texture is a clean file of the image that was uploaded. *)
StoredIsClean == part = "texture" => Png!StoredIsClean
=============================================================================
