---------------------------- MODULE ContentFiles ----------------------------
(***************************************************************************)
(* Skins, capes and models of the users: rows in the content store, files  *)
(* under public/, the textures a Yggdrasil profile shows, and the requests *)
(* that change them (UserContentService and the texture endpoints of       *)
(* YggdrasilService).                                                      *)
(*                                                                         *)
(* A request is one HTTP call and happens once.  Every await of a store, a *)
(* file or a lock is a point where other requests run, so each is a step   *)
(* of its own; the checks a handler makes before its first change answer   *)
(* at once and appear as the guard of the start.  A file name is the hash  *)
(* of the content after the owner's name, so a URL is a directory, an      *)
(* owner and an image.  Users are neither removed nor renamed here.        *)
(***************************************************************************)
EXTENDS Naturals, FiniteSets

CONSTANTS
  Requests,      \* HTTP requests, each served once
  Owners,        \* users (uuid, profile and file prefix)
  Images,        \* distinct file contents
  Kinds,         \* the content kinds in use, of {"skin", "cape", "model"}
  Ops,           \* the operations in use
  PutKinds,      \* the textures uploaded through the Yggdrasil protocol
  MaxPerUser,    \* MAX_SKINS_PER_USER and its relatives
  DiskFaults,    \* writing or removing a file may fail
  StoreFaults,   \* updating the profile may fail
  UrlRank,       \* the order of URL strings
  NoUrl

ContentKinds == {"skin", "cape", "model"}
TextureKinds == {"skin", "cape"}
Operations == {"upload", "activate", "delete", "putTexture", "dropTexture"}

Directory == [skin |-> "textures", cape |-> "capes", model |-> "models"]
Urls == [dir : {"textures", "capes", "models"}, owner : Owners, image : Images]
MaybeUrl == Urls \cup {NoUrl}

ASSUME ContentAssumption ==
  /\ Owners # {} /\ Images # {}
  /\ Kinds \subseteq ContentKinds
  /\ Ops \subseteq Operations
  /\ PutKinds \subseteq TextureKinds
  /\ MaxPerUser \in Nat
  /\ DiskFaults \in BOOLEAN
  /\ StoreFaults \in BOOLEAN
  /\ NoUrl \notin Urls
  /\ UrlRank \in [Urls -> Nat]
  /\ \A u, v \in Urls : UrlRank[u] = UrlRank[v] => u = v

VARIABLES
  rows,       \* user_skins, user_capes and user_models
  active,     \* the ids of the skins whose active flag is set
  nextId,     \* the next id of each table
  texture,    \* texture[o][t]: the URL the profile of o shows, or NoUrl
  files,      \* the files that exist under public/
  holder,     \* holder[k]: who is inside the section of a path lock
  pc,         \* where a request is
  req         \* what a request has in its local variables

vars == <<rows, active, nextId, texture, files, holder, pc, req>>
store == <<rows, active, nextId>>

Row == [kind : ContentKinds, id : Nat, owner : Owners, image : Images]

\* op and arguments; id: the row; pick: the row to switch to, or the one that
\* was active (0: none); sync: the URL the profile is to show; prev: the URL it
\* showed; drop: the URL being released; used: other references were counted.
Request == [op : Operations, owner : Owners, kind : ContentKinds, image : Images,
            id : Nat, pick : Nat, used : BOOLEAN,
            sync : MaybeUrl, prev : MaybeUrl, drop : MaybeUrl]

Blank == [op |-> "upload", owner |-> CHOOSE o \in Owners : TRUE, kind |-> "skin",
          image |-> CHOOSE i \in Images : TRUE, id |-> 0, pick |-> 0,
          used |-> FALSE, sync |-> NoUrl, prev |-> NoUrl, drop |-> NoUrl]

TextureSteps == {"textureLock", "textureRead", "fileLocks", "textureUpdate",
                 "textureWrite", "textureRollback", "releaseRows"}

Pcs == {"idle", "done", "deleteFailed", "countRefs", "unlink",
        "uploadLock", "uploadSave", "uploadWrite", "uploadSync", "rollbackDelete",
        "activateLock", "activate", "activateSync", "activateRestore",
        "deleteLock", "deleteLockActive", "deleteRow", "deletePick",
        "deleteActivate", "deleteSync"} \cup TextureSteps

FileKey(u) == <<"file", u>>
ActiveKey(o) == <<"active-skin", o>>
TextureKey(o, t) == <<"yggdrasil-texture", <<o, t>>>>
LockKeys == {FileKey(u) : u \in Urls} \cup {ActiveKey(o) : o \in Owners}
              \cup {TextureKey(o, t) : o \in Owners, t \in TextureKinds}

Lock == INSTANCE KeyedMutex WITH Callers <- Requests, Keys <- LockKeys

ContentUrl(k, o, i) == [dir |-> Directory[k], owner |-> o, image |-> i]
RowUrl(r) == ContentUrl(r.kind, r.owner, r.image)
OwnUrl(p) == ContentUrl(req[p].kind, req[p].owner, req[p].image)
\* computeTextureTarget: the protocol keeps skins and capes in one directory.
TargetUrl(p) == [dir |-> "textures", owner |-> req[p].owner, image |-> req[p].image]

RowsOf(o, k) == {r \in rows : r.owner = o /\ r.kind = k}
RowsAt(u, k) == {r \in rows : r.kind = k /\ RowUrl(r) = u}
SkinIds(o) == {r.id : r \in RowsOf(o, "skin")}
HasSkin(o, n) == n \in SkinIds(o)
InProfile(u) == \E o \in Owners, t \in TextureKinds : texture[o][t] = u

-----------------------------------------------------------------------------
TypeOK ==
  /\ rows \subseteq Row
  /\ active \subseteq Nat
  /\ nextId \in [ContentKinds -> Nat \ {0}]
  /\ texture \in [Owners -> [TextureKinds -> MaybeUrl]]
  /\ files \subseteq Urls
  /\ holder \in [LockKeys -> SUBSET Requests]
  /\ pc \in [Requests -> Pcs]
  /\ req \in [Requests -> Request]
  /\ \A p \in Requests : pc[p] \in TextureSteps => req[p].kind \in TextureKinds

Init ==
  /\ rows = {}
  /\ active = {}
  /\ nextId = [k \in ContentKinds |-> 1]
  /\ texture = [o \in Owners |-> [t \in TextureKinds |-> NoUrl]]
  /\ files = {}
  /\ Lock!Init
  /\ pc = [p \in Requests |-> "idle"]
  /\ req = [p \in Requests |-> Blank]
-----------------------------------------------------------------------------
Goto(p, where) == pc' = [pc EXCEPT ![p] = where]
Continue(p, where) == Goto(p, where) /\ UNCHANGED holder
\* The handler returns or throws: every section it is inside ends.
Finish(p) == Goto(p, "done") /\ Lock!ReleaseAll(p)
FailDelete(p) == Goto(p, "deleteFailed") /\ Lock!ReleaseAll(p)

\* What the handler of p has in its local variables from here on.
Keep(p, r) == req' = [req EXCEPT ![p] = r]

Show(o, t, u) == texture' = [texture EXCEPT ![o][t] = u]
SetActive(o, ids) == active' = (active \ SkinIds(o)) \cup ids

(***************************************************************************)
(* The checks before the first change have passed.                         *)
(***************************************************************************)
Start(p, op, o, k, i, n, where) ==
  /\ pc[p] = "idle" /\ op \in Ops
  /\ Keep(p, [Blank EXCEPT !.op = op, !.owner = o, !.kind = k, !.image = i, !.id = n,
                 !.drop = IF where = "textureLock" THEN NoUrl ELSE ContentUrl(k, o, i)])
  /\ Continue(p, where)
  /\ UNCHANGED <<store, texture, files>>

StartUpload(p) == \E o \in Owners, k \in Kinds, i \in Images :
  Start(p, "upload", o, k, i, 0, "uploadLock")

\* findById found a row of the caller; nothing holds it there.
StartActivate(p) == \E r \in rows : /\ r.kind = "skin"
  /\ Start(p, "activate", r.owner, r.kind, r.image, r.id, "activateLock")

StartDelete(p) == \E r \in rows :
  Start(p, "delete", r.owner, r.kind, r.image, r.id, "deleteLock")

StartPutTexture(p) == \E o \in Owners, t \in PutKinds, i \in Images :
  Start(p, "putTexture", o, t, i, 0, "textureLock")

\* BUG: the texture type of the URL is not validated.
StartDropAnyKind(p) == \E o \in Owners, t \in ContentKinds :
  Start(p, "dropTexture", o, t, Blank.image, 0, "textureLock")

StartDropTexture(p) == \E o \in Owners, t \in TextureKinds \cap Kinds :
  Start(p, "dropTexture", o, t, Blank.image, 0, "textureLock")

(***************************************************************************)
(* Locks: withPathLock(url), withPathLock("active-skin:" + owner).         *)
(***************************************************************************)
\* BUG: no lock on the file.
LockNoFile(p) ==
  /\ pc[p] \in {"uploadLock", "deleteLock"}
  /\ Goto(p, IF pc[p] = "uploadLock" THEN "uploadSave"
             ELSE IF req[p].kind = "skin" THEN "deleteLockActive" ELSE "deleteRow")
  /\ UNCHANGED <<store, texture, files, req, holder>>

LockOwnFile(p) ==
  /\ pc[p] \in {"uploadLock", "deleteLock"}
  /\ Lock!Acquire(p, FileKey(OwnUrl(p)))
  /\ Goto(p, IF pc[p] = "uploadLock" THEN "uploadSave"
             ELSE IF req[p].kind = "skin" THEN "deleteLockActive" ELSE "deleteRow")
  /\ UNCHANGED <<store, texture, files, req>>

\* BUG: delete does not exclude other changes of the active skin.
LockActiveToActivate(p) ==
  /\ pc[p] \in {"activateLock", "deleteLockActive"}
  /\ IF pc[p] = "activateLock" THEN Lock!Acquire(p, ActiveKey(req[p].owner))
                               ELSE UNCHANGED holder
  /\ Goto(p, IF pc[p] = "activateLock" THEN "activate" ELSE "deleteRow")
  /\ UNCHANGED <<store, texture, files, req>>

LockActive(p) ==
  /\ pc[p] \in {"activateLock", "deleteLockActive"}
  /\ Lock!Acquire(p, ActiveKey(req[p].owner))
  /\ Goto(p, IF pc[p] = "activateLock" THEN "activate" ELSE "deleteRow")
  /\ UNCHANGED <<store, texture, files, req>>

(***************************************************************************)
(* upload                                                                  *)
(***************************************************************************)
\* BUG: the limit is compared with <=.
SaveOneTooMany(p) ==
  LET r == req[p] IN
  /\ pc[p] = "uploadSave"
  /\ IF Cardinality(RowsOf(r.owner, r.kind)) <= MaxPerUser
     THEN /\ rows' = rows \cup {[kind |-> r.kind, id |-> nextId[r.kind],
                                owner |-> r.owner, image |-> r.image]}
          /\ nextId' = [nextId EXCEPT ![r.kind] = @ + 1]
          /\ Keep(p, [r EXCEPT !.id = nextId[r.kind]])
          /\ Continue(p, "uploadWrite")
     ELSE Finish(p) /\ UNCHANGED <<rows, nextId, req>>
  /\ UNCHANGED <<active, texture, files>>

\* The count and the insert are one transaction (one turn in the map store).
SaveWithinLimit(p) ==
  LET r == req[p] IN
  /\ pc[p] = "uploadSave"
  /\ IF Cardinality(RowsOf(r.owner, r.kind)) < MaxPerUser
     THEN /\ rows' = rows \cup {[kind |-> r.kind, id |-> nextId[r.kind],
                                owner |-> r.owner, image |-> r.image]}
          /\ nextId' = [nextId EXCEPT ![r.kind] = @ + 1]
          /\ Keep(p, [r EXCEPT !.id = nextId[r.kind]])
          /\ Continue(p, "uploadWrite")
     ELSE Finish(p) /\ UNCHANGED <<rows, nextId, req>>
  /\ UNCHANGED <<active, texture, files>>

\* A write that fails may leave a file behind.
WriteUpload(p) ==
  /\ pc[p] = "uploadWrite"
  /\ \/ /\ files' = files \cup {OwnUrl(p)}
        /\ IF req[p].kind = "cape" THEN Continue(p, "uploadSync") ELSE Finish(p)
     \/ /\ DiskFaults
        /\ files' \in {files, files \cup {OwnUrl(p)}}
        /\ Continue(p, "rollbackDelete")
  /\ UNCHANGED <<store, texture, req>>

SyncUpload(p) ==
  /\ pc[p] = "uploadSync"
  /\ \/ Show(req[p].owner, "cape", OwnUrl(p)) /\ Finish(p)
     \/ StoreFaults /\ Continue(p, "rollbackDelete") /\ UNCHANGED texture
  /\ UNCHANGED <<store, files, req>>

(***************************************************************************)
(* delete and rollbackUpload                                               *)
(***************************************************************************)
\* BUG: the references are counted before the row is gone.
CountBeforeRemove(p) ==
  LET r == req[p]
      gone == {x \in rows : x.kind = r.kind /\ x.id = r.id}
      wasActive == r.kind = "skin" /\ r.id \in active
      switches == pc[p] = "deleteRow" /\ (r.kind = "cape" \/ wasActive)
  IN
  /\ pc[p] \in {"deleteRow", "rollbackDelete"}
  /\ IF gone = {}
     THEN Finish(p) /\ UNCHANGED <<rows, active, req>>
     ELSE /\ rows' = rows \ gone
          /\ active' = IF r.kind = "skin" THEN active \ {r.id} ELSE active
          /\ Keep(p, [r EXCEPT !.used = RowsAt(r.drop, r.kind) # {}])
          /\ Continue(p, IF switches THEN "deletePick" ELSE "countRefs")
  /\ UNCHANGED <<nextId, texture, files>>

\* deleteByIdAndCountRemaining; the row may have gone while the lock was
\* awaited.
RemoveRow(p) ==
  LET r == req[p]
      gone == {x \in rows : x.kind = r.kind /\ x.id = r.id}
      wasActive == r.kind = "skin" /\ r.id \in active
      switches == pc[p] = "deleteRow" /\ (r.kind = "cape" \/ wasActive)
  IN
  /\ pc[p] \in {"deleteRow", "rollbackDelete"}
  /\ IF gone = {}
     THEN Finish(p) /\ UNCHANGED <<rows, active, req>>
     ELSE /\ rows' = rows \ gone
          /\ active' = IF r.kind = "skin" THEN active \ {r.id} ELSE active
          /\ Keep(p, [r EXCEPT !.used = RowsAt(r.drop, r.kind) \ gone # {}])
          /\ Continue(p, IF switches THEN "deletePick" ELSE "countRefs")
  /\ UNCHANGED <<nextId, texture, files>>

\* syncProfileAfterDelete reads what is left and takes the row with the
\* largest id.
PickLatest(p) ==
  LET left == RowsOf(req[p].owner, req[p].kind) IN
  /\ pc[p] = "deletePick"
  /\ IF left = {}
     THEN Continue(p, "deleteSync") /\ UNCHANGED req
     ELSE \E r \in left :
            /\ \A x \in left : x.id <= r.id
            /\ Keep(p, [req[p] EXCEPT !.pick = r.id, !.sync = RowUrl(r)])
            /\ Continue(p, IF r.kind = "skin" THEN "deleteActivate" ELSE "deleteSync")
  /\ UNCHANGED <<store, texture, files>>

\* updateActiveSkin answers false when the row has gone: the profile is left.
ActivateLatest(p) ==
  LET r == req[p] IN
  /\ pc[p] = "deleteActivate"
  /\ IF HasSkin(r.owner, r.pick)
     THEN SetActive(r.owner, {r.pick}) /\ Continue(p, "deleteSync")
     ELSE UNCHANGED active /\ Continue(p, "countRefs")
  /\ UNCHANGED <<rows, nextId, texture, files, req>>

\* An error here leaves delete with the row gone and the file in place.
SyncDelete(p) ==
  /\ pc[p] = "deleteSync"
  /\ \/ Show(req[p].owner, req[p].kind, req[p].sync) /\ Continue(p, "countRefs")
     \/ StoreFaults /\ FailDelete(p) /\ UNCHANGED texture
  /\ UNCHANGED <<store, files, req>>

(***************************************************************************)
(* releaseContentFile                                                      *)
(***************************************************************************)
CountRefs(p) ==
  /\ pc[p] = "countRefs"
  /\ IF req[p].used \/ InProfile(req[p].drop) THEN Finish(p) ELSE Continue(p, "unlink")
  /\ UNCHANGED <<store, texture, files, req>>

Unlink(p) ==
  /\ pc[p] = "unlink"
  /\ \/ files' = files \ {req[p].drop}
     \/ DiskFaults /\ UNCHANGED files
  /\ Finish(p)
  /\ UNCHANGED <<store, texture, req>>

(***************************************************************************)
(* setActiveSkin                                                           *)
(***************************************************************************)
\* The previous active skin is read and the flags are changed under the lock
\* of the owner's active skin; only a rolled back upload can remove a row in
\* between, which ActivateRestore meets as well.
Activate(p) ==
  LET r == req[p]
      before == SkinIds(r.owner) \cap active
  IN
  /\ pc[p] = "activate"
  /\ IF HasSkin(r.owner, r.id)
     THEN /\ SetActive(r.owner, {r.id})
          /\ \E n \in IF before = {} THEN {0} ELSE before :
               Keep(p, [r EXCEPT !.pick = n])
          /\ Continue(p, "activateSync")
     ELSE Finish(p) /\ UNCHANGED <<active, req>>
  /\ UNCHANGED <<rows, nextId, texture, files>>

SyncActivate(p) ==
  /\ pc[p] = "activateSync"
  /\ \/ Show(req[p].owner, "skin", OwnUrl(p)) /\ Finish(p)
     \/ StoreFaults /\ Continue(p, "activateRestore") /\ UNCHANGED texture
  /\ UNCHANGED <<store, files, req>>

\* BUG: the flags are not restored.
RestoreNothing(p) ==
  /\ pc[p] = "activateRestore"
  /\ Finish(p)
  /\ UNCHANGED <<store, texture, files, req>>

RestoreActive(p) ==
  LET r == req[p] IN
  /\ pc[p] = "activateRestore"
  /\ IF r.id \in SkinIds(r.owner) \cap active /\ (r.pick = 0 \/ HasSkin(r.owner, r.pick))
     THEN SetActive(r.owner, {r.pick} \ {0})
     ELSE UNCHANGED active
  /\ Finish(p)
  /\ UNCHANGED <<rows, nextId, texture, files, req>>

(***************************************************************************)
(* uploadTexture and deleteTexture of the Yggdrasil protocol               *)
(***************************************************************************)
LockTexture(p) ==
  /\ pc[p] = "textureLock"
  /\ Lock!Acquire(p, TextureKey(req[p].owner, req[p].kind))
  /\ Goto(p, "textureRead")
  /\ UNCHANGED <<store, texture, files, req>>

\* The URL the profile is to show.
NewUrl(p) == IF req[p].op = "putTexture" THEN TargetUrl(p) ELSE NoUrl

NeededFiles(p, previousUrl) == {previousUrl, NewUrl(p)} \ {NoUrl}

\* The URL to replace is read before the locks of the files are taken.
ReadTexture(p) ==
  LET previousUrl == texture[req[p].owner][req[p].kind] IN
  /\ pc[p] = "textureRead"
  /\ Keep(p, [req[p] EXCEPT !.prev = previousUrl])
  /\ Continue(p, IF NeededFiles(p, previousUrl) = {} THEN "textureUpdate" ELSE "fileLocks")
  /\ UNCHANGED <<store, texture, files>>

Holds(p, u) == p \in holder[FileKey(u)]

\* BUG: the locks are taken in any order.
LockFileUnsorted(p) ==
  LET needed == NeededFiles(p, req[p].prev) IN
  /\ pc[p] = "fileLocks"
  /\ \E u \in needed :
       /\ Lock!Acquire(p, FileKey(u))
       /\ Goto(p, IF \A v \in needed \ {u} : Holds(p, v)
                  THEN "textureUpdate" ELSE "fileLocks")
  /\ UNCHANGED <<store, texture, files, req>>

\* withTextureFileLocks takes the two locks in the order of the URLs.
LockFile(p) ==
  LET needed == NeededFiles(p, req[p].prev) IN
  /\ pc[p] = "fileLocks"
  /\ \E u \in needed :
       /\ \A v \in needed : UrlRank[v] < UrlRank[u] => Holds(p, v)
       /\ Lock!Acquire(p, FileKey(u))
       /\ Goto(p, IF \A v \in needed \ {u} : Holds(p, v)
                  THEN "textureUpdate" ELSE "fileLocks")
  /\ UNCHANGED <<store, texture, files, req>>

\* releaseTextureFile(url) for a URL that may be null.
Release(p, u) ==
  /\ Keep(p, [req[p] EXCEPT !.drop = u])
  /\ IF u = NoUrl THEN Finish(p) ELSE Continue(p, "releaseRows")

UpdateTexture(p) ==
  LET r == req[p] IN
  /\ pc[p] = "textureUpdate"
  /\ \/ /\ Show(r.owner, r.kind, NewUrl(p))
        /\ IF r.op = "putTexture" THEN Continue(p, "textureWrite") /\ UNCHANGED req
                                  ELSE Release(p, r.prev)
     \/ StoreFaults /\ Finish(p) /\ UNCHANGED <<texture, req>>
  /\ UNCHANGED <<store, files>>

WriteTexture(p) ==
  /\ pc[p] = "textureWrite"
  /\ \/ files' = files \cup {TargetUrl(p)} /\ Release(p, req[p].prev)
     \/ /\ DiskFaults
        /\ files' \in {files, files \cup {TargetUrl(p)}}
        /\ Continue(p, "textureRollback") /\ UNCHANGED req
  /\ UNCHANGED <<store, texture>>

\* rollbackProfileTexture logs its own failure; a file left by the failed
\* write is released.
RollbackTexture(p) ==
  LET r == req[p] IN
  /\ pc[p] = "textureRollback"
  /\ \/ Show(r.owner, r.kind, r.prev)
     \/ StoreFaults /\ UNCHANGED texture
  /\ Release(p, IF TargetUrl(p) \in files THEN TargetUrl(p) ELSE NoUrl)
  /\ UNCHANGED <<store, files>>

\* releaseTextureFile counts the rows of its own kind only.
CountRows(p) ==
  /\ pc[p] = "releaseRows"
  /\ Keep(p, [req[p] EXCEPT !.used = RowsAt(req[p].drop, req[p].kind) # {}])
  /\ Continue(p, "countRefs")
  /\ UNCHANGED <<store, texture, files>>

-----------------------------------------------------------------------------
Begin(p) == \/ StartUpload(p) \/ StartActivate(p) \/ StartDelete(p)
            \/ StartPutTexture(p) \/ StartDropTexture(p)

Step(p) == \/ LockOwnFile(p) \/ LockActive(p) \/ SaveWithinLimit(p)
           \/ WriteUpload(p) \/ SyncUpload(p) \/ RemoveRow(p) \/ PickLatest(p)
           \/ ActivateLatest(p) \/ SyncDelete(p) \/ CountRefs(p) \/ Unlink(p)
           \/ Activate(p) \/ SyncActivate(p) \/ RestoreActive(p)
           \/ LockTexture(p) \/ ReadTexture(p) \/ LockFile(p) \/ UpdateTexture(p)
           \/ WriteTexture(p) \/ RollbackTexture(p) \/ CountRows(p)

Next == \E p \in Requests : Begin(p) \/ Step(p)

Spec == Init /\ [][Next]_vars

\* A request that was begun is carried on; nobody has to send one.
FairSpec == Spec /\ \A p \in Requests : WF_vars(Step(p))

-----------------------------------------------------------------------------
Over(p) == pc[p] \in {"done", "deleteFailed"}
Quiet == \A p \in Requests : pc[p] = "idle" \/ Over(p)

\* o used the panel only, and no delete broke off between its two stores.
Undisturbed(o) == \A p \in Requests : req[p].owner = o =>
  pc[p] # "deleteFailed" /\ req[p].op \notin {"putTexture", "dropTexture"}

BeingWritten(r) == \E p \in Requests :
  /\ pc[p] \in {"uploadWrite", "uploadSync", "rollbackDelete"}
  /\ req[p].kind = r.kind /\ req[p].id = r.id

\* A file is kept while a row refers to it: every row of the store, once its
\* upload has written the file, has its file.
RowHasFile == \A r \in rows : BeingWritten(r) \/ RowUrl(r) \in files

\* The file is on its way: a new row can be activated before its file is
\* written, and a texture upload shows the URL before it writes the file.
Coming(u) == \E p \in Requests :
  \/ pc[p] = "uploadWrite" /\ OwnUrl(p) = u
  \/ pc[p] \in {"textureWrite", "textureRollback"} /\ TargetUrl(p) = u

ProfileHasFile(t) == \A o \in Owners :
  texture[o][t] \in files \cup {NoUrl} \/ Coming(texture[o][t])

\* Removing content never breaks a profile: the skin it shows is on disk.
ProfileSkinHasFile == ProfileHasFile("skin")
\* The same for the cape.
ProfileCapeHasFile == ProfileHasFile("cape")

\* Parallel uploads do not get round the limit per user.
WithinLimit == \A o \in Owners, k \in ContentKinds :
  Cardinality(RowsOf(o, k)) <= MaxPerUser

\* When nothing is under way the profile shows the skin that is marked
\* active, of which there is at most one, and none when none is.  (setActiveSkin
\* with its rollback, syncProfileAfterDelete)
ActiveIsShown == Quiet => \A o \in {x \in Owners : Undisturbed(x)} :
  LET chosen == {r \in RowsOf(o, "skin") : r.id \in active} IN
  IF chosen = {} THEN texture[o]["skin"] = NoUrl
  ELSE \E r \in chosen : chosen = {r} /\ texture[o]["skin"] = RowUrl(r)

\* When nothing is under way every file has a row or a profile that needs it.
NoOrphan == Quiet => \A u \in files :
  Undisturbed(u.owner) => InProfile(u) \/ \E r \in rows : RowUrl(r) = u

\* Path locks are taken in one order, so no two requests wait for each other.
EveryRequestEnds == \A p \in Requests : pc[p] # "idle" ~> Over(p)

-----------------------------------------------------------------------------
(***************************************************************************)
(* Why a row keeps its file when no cape comes in through the Yggdrasil    *)
(* protocol (PutKinds \subseteq {"skin"}): the part of the state the       *)
(* argument needs, one conjunct per idea.                                  *)
(***************************************************************************)
OwnFileSteps == {"uploadSave", "uploadWrite", "uploadSync", "rollbackDelete",
                 "deleteLockActive", "deleteRow", "deletePick", "deleteActivate",
                 "deleteSync"}
CountedSteps == {"deletePick", "deleteActivate", "deleteSync", "countRefs"}
UploadSteps == {"uploadWrite", "uploadSync", "rollbackDelete"}

\* The lock of a file is held from before its row is touched until its
\* release is over.
HoldsLocks(p) ==
  /\ pc[p] \in OwnFileSteps => Holds(p, OwnUrl(p))
  /\ pc[p] \in OwnFileSteps \cup {"uploadLock", "deleteLock"} => req[p].drop = OwnUrl(p)
  /\ pc[p] \in {"countRefs", "unlink", "releaseRows"} =>
       req[p].drop # NoUrl /\ Holds(p, req[p].drop)
  /\ pc[p] \in {"textureUpdate", "textureWrite", "textureRollback"} =>
       \A u \in NeededFiles(p, req[p].prev) : Holds(p, u)

\* Once the rows were counted and none was left, none comes back.
NoRowAtDrop(p) ==
  pc[p] = "unlink" \/ (pc[p] \in CountedSteps /\ ~req[p].used)
    => \A r \in rows : RowUrl(r) # req[p].drop

\* The row an upload made is the row of its own image, and its file is there
\* before the profile is told.
UploadsOwnRow(p) ==
  /\ pc[p] \in UploadSteps =>
       /\ req[p].id < nextId[req[p].kind]
       /\ \A r \in rows : r.kind = req[p].kind /\ r.id = req[p].id => RowUrl(r) = OwnUrl(p)
  /\ pc[p] = "uploadSync" => req[p].kind = "cape" /\ OwnUrl(p) \in files

\* A texture of a kind comes from the directory of the kind, so counting the
\* rows of the kind counts every row at the URL.
OfKind(t, u) == u = NoUrl \/ u.dir = Directory[t]
ProfileDirectories == \A o \in Owners, t \in TextureKinds : OfKind(t, texture[o][t])

KindDirectories(p) ==
  /\ pc[p] \in {"activateLock", "activate", "activateSync"} => req[p].kind = "skin"
  /\ pc[p] \in OwnFileSteps \cup {"uploadLock", "deleteLock"} =>
       OfKind(req[p].kind, req[p].sync)
  /\ pc[p] \in TextureSteps =>
       /\ req[p].op = "putTexture" => req[p].kind = "skin"
       /\ OfKind(req[p].kind, req[p].prev) /\ OfKind(req[p].kind, req[p].drop)
  /\ pc[p] \in {"textureWrite", "textureRollback"} => req[p].op = "putTexture"

RowsKeyed ==
  /\ \A r \in rows : r.id < nextId[r.kind]
  /\ \A r, s \in rows : r.kind = s.kind /\ r.id = s.id => r = s

FilesGuarded ==
  /\ Lock!Exclusive
  /\ RowsKeyed
  /\ ProfileDirectories
  /\ \A p \in Requests : HoldsLocks(p) /\ NoRowAtDrop(p) /\ UploadsOwnRow(p)
                         /\ KindDirectories(p)
=============================================================================
