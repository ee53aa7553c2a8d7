------------------------- MODULE ContentFiles_proofs -------------------------
(***************************************************************************)
(* For any number of requests, users and images.                           *)
(***************************************************************************)
EXTENDS ContentFiles, NumberLemmas, TLAPS

LEMMA BlankType == Blank \in Request
<1>1. (CHOOSE o \in Owners : TRUE) \in Owners /\ (CHOOSE i \in Images : TRUE) \in Images
  BY ContentAssumption
<1> QED BY <1>1 DEF Blank, Request, Operations, ContentKinds, MaybeUrl

LEMMA UrlType ==
  ASSUME NEW k \in ContentKinds, NEW o \in Owners, NEW i \in Images
  PROVE  ContentUrl(k, o, i) \in Urls
BY DEF ContentUrl, Urls, Directory, ContentKinds

\* The local variables a step changes keep their types, and no step changes
\* the arguments of the request.
Alike(r) == {s \in Request : /\ s.op = r.op /\ s.owner = r.owner
                               /\ s.kind = r.kind /\ s.image = r.image}

LEMMA RequestUpdate ==
  ASSUME NEW r \in Request
  PROVE  /\ r.op \in Operations /\ r.owner \in Owners /\ r.kind \in ContentKinds
         /\ r.image \in Images /\ r.id \in Nat /\ r.pick \in Nat
         /\ r.sync \in MaybeUrl /\ r.prev \in MaybeUrl /\ r.drop \in MaybeUrl
         /\ r \in Alike(r)
         /\ \A n \in Nat : [r EXCEPT !.id = n] \in Alike(r) /\ [r EXCEPT !.pick = n] \in Alike(r)
         /\ \A b \in BOOLEAN : [r EXCEPT !.used = b] \in Alike(r)
         /\ \A u \in MaybeUrl : [r EXCEPT !.drop = u] \in Alike(r)
         /\ \A n \in Nat, u \in MaybeUrl : [r EXCEPT !.pick = n, !.sync = u] \in Alike(r)
         /\ \A u \in MaybeUrl : [r EXCEPT !.prev = u] \in Alike(r)
<1>1. \A n \in Nat : [r EXCEPT !.id = n] \in Alike(r)
  BY DEF Request, Alike
<1>2. \A n \in Nat : [r EXCEPT !.pick = n] \in Alike(r)
  BY DEF Request, Alike
<1>3. \A b \in BOOLEAN : [r EXCEPT !.used = b] \in Alike(r)
  BY DEF Request, Alike
<1>4. \A u \in MaybeUrl : [r EXCEPT !.drop = u] \in Alike(r)
  BY DEF Request, Alike
<1>5. \A n \in Nat, u \in MaybeUrl : [r EXCEPT !.pick = n, !.sync = u] \in Alike(r)
  BY DEF Request, Alike
<1>6. \A u \in MaybeUrl : [r EXCEPT !.prev = u] \in Alike(r)
  BY DEF Request, Alike
<1> QED BY <1>1, <1>2, <1>3, <1>4, <1>5, <1>6 DEF Request, Alike

LEMMA KeyType ==
  /\ \A u \in Urls : FileKey(u) \in LockKeys
  /\ \A o \in Owners : ActiveKey(o) \in LockKeys
  /\ \A o \in Owners, t \in TextureKinds : TextureKey(o, t) \in LockKeys
BY DEF LockKeys

\* What the local variables of a well-typed request are.
LEMMA LocalTypes ==
  ASSUME TypeOK, NEW p \in Requests
  PROVE  /\ req[p] \in Request /\ OwnUrl(p) \in Urls /\ TargetUrl(p) \in Urls
         /\ req[p].op \in Operations /\ req[p].owner \in Owners
         /\ req[p].kind \in ContentKinds /\ req[p].image \in Images
         /\ req[p].id \in Nat /\ req[p].pick \in Nat
         /\ req[p].sync \in MaybeUrl /\ req[p].prev \in MaybeUrl
         /\ req[p].drop \in MaybeUrl
         /\ nextId[req[p].kind] \in Nat \ {0}
         /\ FileKey(OwnUrl(p)) \in LockKeys /\ ActiveKey(req[p].owner) \in LockKeys
         /\ pc[p] \in TextureSteps =>
              /\ TextureKey(req[p].owner, req[p].kind) \in LockKeys
              /\ texture[req[p].owner][req[p].kind] \in MaybeUrl
<1>1. req[p] \in Request
  BY DEF TypeOK
<1>2. OwnUrl(p) \in Urls /\ TargetUrl(p) \in Urls
  BY <1>1, UrlType, RequestUpdate DEF OwnUrl, TargetUrl, Urls
<1>3. ASSUME pc[p] \in TextureSteps
      PROVE  /\ TextureKey(req[p].owner, req[p].kind) \in LockKeys
             /\ texture[req[p].owner][req[p].kind] \in MaybeUrl
  BY <1>1, <1>3, RequestUpdate, KeyType DEF TypeOK
<1>4. nextId[req[p].kind] \in Nat \ {0}
  BY <1>1, RequestUpdate DEF TypeOK
<1> QED BY <1>1, <1>2, <1>3, <1>4, RequestUpdate, KeyType

LEMMA RowTypes ==
  ASSUME TypeOK, NEW r \in rows
  PROVE  RowUrl(r) \in Urls /\ r.id \in Nat /\ r.owner \in Owners
         /\ r.kind \in ContentKinds /\ r.image \in Images
BY UrlType DEF TypeOK, Row, RowUrl

\* A step moves the request that takes it, and touches no other request, nor
\* the locks of another.
Moves(p) ==
  /\ \E w \in Pcs : pc' = [pc EXCEPT ![p] = w]
  /\ \E r \in Alike(req[p]) : req' = [req EXCEPT ![p] = r]
  /\ \/ UNCHANGED holder
     \/ Lock!ReleaseAll(p)
     \/ \E k \in LockKeys : Lock!Acquire(p, k)

LEMMA InitTypeOK == Init => TypeOK
BY BlankType DEF Init, TypeOK, Pcs, TextureSteps, Lock!Init, MaybeUrl

LEMMA StartType ==
  ASSUME TypeOK, NEW p \in Requests, NEW op \in Operations, NEW o \in Owners,
         NEW k \in ContentKinds, NEW i \in Images, NEW n \in Nat, NEW where \in Pcs,
         where \in TextureSteps => k \in TextureKinds,
         Start(p, op, o, k, i, n, where)
  PROVE  TypeOK'
<1>1. ContentUrl(k, o, i) \in MaybeUrl
  BY UrlType DEF MaybeUrl
<1>2. [Blank EXCEPT !.op = op, !.owner = o, !.kind = k, !.image = i, !.id = n,
         !.drop = IF where = "textureLock" THEN NoUrl ELSE ContentUrl(k, o, i)] \in Request
  BY <1>1, BlankType DEF Request, MaybeUrl
<1> QED BY <1>2 DEF Start, Continue, Goto, Keep, TypeOK, store

LEMMA BeginType == ASSUME TypeOK, NEW p \in Requests, Begin(p) PROVE TypeOK'
<1> USE ContentAssumption
<1>1. Blank.image \in Images
  BY BlankType DEF Request
<1>2. CASE StartUpload(p)
  BY <1>2, StartType DEF StartUpload, Pcs, TextureSteps, Operations
<1>3. CASE StartActivate(p)
  BY <1>3, StartType DEF StartActivate, Pcs, TextureSteps, Operations, TypeOK, Row
<1>4. CASE StartDelete(p)
  BY <1>4, StartType DEF StartDelete, Pcs, TextureSteps, Operations, TypeOK, Row
<1>5. CASE StartPutTexture(p)
  <2>1. "textureLock" \in Pcs /\ "putTexture" \in Operations /\ 0 \in Nat
    BY DEF Pcs, TextureSteps, Operations
  <2>2. \A t \in PutKinds : t \in TextureKinds /\ t \in ContentKinds
    BY DEF TextureKinds, ContentKinds
  <2> QED BY <1>5, <2>1, <2>2, StartType DEF StartPutTexture
<1>6. CASE StartDropTexture(p)
  BY <1>1, <1>6, StartType
  DEF StartDropTexture, Pcs, TextureSteps, Operations, TextureKinds, ContentKinds
<1> QED BY <1>2, <1>3, <1>4, <1>5, <1>6 DEF Begin

LEMMA StepMoves == ASSUME TypeOK, NEW p \in Requests, Step(p) PROVE Moves(p)
<1> USE DEF Goto, Continue, Finish, FailDelete, Keep, Moves
<1> DEFINE Same == \E r \in Alike(req[p]) : req' = [req EXCEPT ![p] = r]
<1>1. UNCHANGED req => Same
  <2>1. req[p] \in Alike(req[p]) /\ req = [req EXCEPT ![p] = req[p]]
    BY LocalTypes, RequestUpdate DEF TypeOK
  <2> QED BY <2>1
<1>2. \A r \in Alike(req[p]) : Keep(p, r) => Same
  OBVIOUS
<1> HIDE DEF Same, Keep
<1>4. CASE LockOwnFile(p)
  BY <1>1, <1>4, LocalTypes DEF LockOwnFile, Pcs, TextureSteps, Same
<1>5. CASE LockActive(p)
  BY <1>1, <1>5, LocalTypes DEF LockActive, Pcs, TextureSteps, Same
<1>6. CASE SaveWithinLimit(p)
  <2>1. Same
    BY <1>1, <1>2, <1>6, LocalTypes, RequestUpdate DEF SaveWithinLimit
  <2> QED BY <1>6, <2>1 DEF SaveWithinLimit, Pcs, TextureSteps, Same
<1>7. CASE WriteUpload(p)
  BY <1>1, <1>7 DEF WriteUpload, Pcs, TextureSteps, Same
<1>8. CASE SyncUpload(p)
  BY <1>1, <1>8 DEF SyncUpload, Pcs, TextureSteps, Same
<1>9. CASE RemoveRow(p)
  <2>1. Same
    BY <1>1, <1>2, <1>9, LocalTypes, RequestUpdate DEF RemoveRow
  <2> QED BY <1>9, <2>1 DEF RemoveRow, Pcs, TextureSteps, Same
<1>10. CASE PickLatest(p)
  <2>1. Same
    BY <1>1, <1>2, <1>10, LocalTypes, RowTypes, RequestUpdate DEF PickLatest, MaybeUrl, RowsOf
  <2> QED BY <1>10, <2>1 DEF PickLatest, Pcs, TextureSteps, Same
<1>11. CASE ActivateLatest(p)
  BY <1>1, <1>11 DEF ActivateLatest, Pcs, TextureSteps, Same
<1>12. CASE SyncDelete(p)
  BY <1>1, <1>12 DEF SyncDelete, Pcs, TextureSteps, Same
<1>13. CASE CountRefs(p)
  BY <1>1, <1>13 DEF CountRefs, Pcs, TextureSteps, Same
<1>14. CASE Unlink(p)
  BY <1>1, <1>14 DEF Unlink, Pcs, TextureSteps, Same
<1>15. CASE Activate(p)
  <2>1. \A n \in IF SkinIds(req[p].owner) \cap active = {} THEN {0}
              ELSE SkinIds(req[p].owner) \cap active : n \in Nat
    BY DEF TypeOK
  <2>2. Same
    BY <1>1, <1>2, <1>15, <2>1, LocalTypes, RequestUpdate DEF Activate
  <2> QED BY <1>15, <2>2 DEF Activate, Pcs, TextureSteps, Same
<1>16. CASE SyncActivate(p)
  BY <1>1, <1>16 DEF SyncActivate, Pcs, TextureSteps, Same
<1>17. CASE RestoreActive(p)
  BY <1>1, <1>17 DEF RestoreActive, Pcs, TextureSteps, Same
<1>18. CASE LockTexture(p)
  BY <1>1, <1>18, LocalTypes DEF LockTexture, Pcs, TextureSteps, Same
<1>19. CASE ReadTexture(p)
  <2>1. Same
    BY <1>1, <1>2, <1>19, LocalTypes, RequestUpdate DEF ReadTexture, MaybeUrl, TextureSteps
  <2> QED BY <1>19, <2>1 DEF ReadTexture, Pcs, TextureSteps, Same
<1>20. CASE LockFile(p)
  <2>1. PICK u \in NeededFiles(p, req[p].prev) : Lock!Acquire(p, FileKey(u))
    BY <1>20 DEF LockFile
  <2>2. FileKey(u) \in LockKeys
    BY LocalTypes, KeyType DEF NeededFiles, NewUrl, MaybeUrl
  <2>3. \E w \in Pcs : Goto(p, w)
    BY <1>20 DEF LockFile, Pcs, TextureSteps
  <2> QED BY <1>1, <1>20, <2>1, <2>2, <2>3 DEF LockFile, Same
<1>21. CASE UpdateTexture(p)
  <2>1. Same
    BY <1>1, <1>2, <1>21, LocalTypes, RequestUpdate DEF UpdateTexture, Release
  <2> QED BY <1>21, <2>1 DEF UpdateTexture, Release, Pcs, TextureSteps, Same
<1>22. CASE WriteTexture(p)
  <2>1. Same
    BY <1>1, <1>2, <1>22, LocalTypes, RequestUpdate DEF WriteTexture, Release
  <2> QED BY <1>22, <2>1 DEF WriteTexture, Release, Pcs, TextureSteps, Same
<1>23. CASE RollbackTexture(p)
  <2>1. Same
    BY <1>1, <1>2, <1>23, LocalTypes, RequestUpdate DEF RollbackTexture, Release, MaybeUrl
  <2> QED BY <1>23, <2>1 DEF RollbackTexture, Release, Pcs, TextureSteps, Same
<1>24. CASE CountRows(p)
  <2>1. Same
    BY <1>1, <1>2, <1>24, LocalTypes, RequestUpdate DEF CountRows
  <2> QED BY <1>24, <2>1 DEF CountRows, Pcs, TextureSteps, Same
<1> QED
  BY <1>4, <1>5, <1>6, <1>7, <1>8, <1>9, <1>10, <1>11, <1>12, <1>13, <1>14, <1>15,
     <1>16, <1>17, <1>18, <1>19, <1>20, <1>21, <1>22, <1>23, <1>24 DEF Step

\* The tables, the profiles and the directory keep their types.
LEMMA StepStore ==
  ASSUME TypeOK, NEW p \in Requests, Step(p)
  PROVE  /\ rows' \subseteq Row /\ active' \subseteq Nat
         /\ nextId' \in [ContentKinds -> Nat \ {0}]
         /\ texture' \in [Owners -> [TextureKinds -> MaybeUrl]]
         /\ files' \subseteq Urls
<1> DEFINE Goal == /\ rows' \subseteq Row /\ active' \subseteq Nat
                   /\ nextId' \in [ContentKinds -> Nat \ {0}]
                   /\ texture' \in [Owners -> [TextureKinds -> MaybeUrl]]
                   /\ files' \subseteq Urls
<1>1. ASSUME NEW o \in Owners, NEW t \in ContentKinds, NEW u \in MaybeUrl, Show(o, t, u)
      PROVE  texture' \in [Owners -> [TextureKinds -> MaybeUrl]]
  BY <1>1 DEF Show, TypeOK
<1>2. \A o \in Owners, ids \in SUBSET Nat : SetActive(o, ids) => active' \subseteq Nat
  BY DEF SetActive, TypeOK
<1>3. UNCHANGED <<rows, active, nextId, texture, files>> => Goal
  BY DEF TypeOK
<1>4. OwnUrl(p) \in MaybeUrl /\ "cape" \in ContentKinds /\ "skin" \in ContentKinds
  BY LocalTypes, SMTT(40) DEF MaybeUrl, ContentKinds
<1>5. CASE LockOwnFile(p) \/ LockActive(p) \/ PickLatest(p) \/ CountRefs(p)
           \/ LockTexture(p) \/ ReadTexture(p) \/ LockFile(p) \/ CountRows(p)
  BY <1>3, <1>5 DEF LockOwnFile, LockActive, PickLatest, CountRefs, LockTexture, ReadTexture,
                    LockFile, CountRows, store
<1>6. CASE SaveWithinLimit(p)
  <2>1. [kind |-> req[p].kind, id |-> nextId[req[p].kind], owner |-> req[p].owner,
         image |-> req[p].image] \in Row
    BY LocalTypes DEF Row
  <2>2. [nextId EXCEPT ![req[p].kind] = nextId[req[p].kind] + 1] \in [ContentKinds -> Nat \ {0}]
    <3>1. \A k \in ContentKinds : nextId[k] + 1 \in Nat \ {0}
      BY DEF TypeOK
    <3> QED BY <3>1, LocalTypes DEF TypeOK
  <2> QED BY <1>6, <2>1, <2>2 DEF SaveWithinLimit, TypeOK
<1>7. CASE WriteUpload(p) \/ Unlink(p)
  BY <1>7, LocalTypes DEF WriteUpload, Unlink, TypeOK, store
<1>8. CASE SyncUpload(p) \/ SyncActivate(p) \/ SyncDelete(p)
  BY <1>1, <1>4, <1>8, LocalTypes DEF SyncUpload, SyncActivate, SyncDelete, TypeOK, store
<1>9. CASE RemoveRow(p)
  BY <1>9 DEF RemoveRow, TypeOK
<1>10. CASE ActivateLatest(p) \/ Activate(p) \/ RestoreActive(p)
  BY <1>2, <1>10, LocalTypes DEF ActivateLatest, Activate, RestoreActive, TypeOK
<1>11. CASE UpdateTexture(p) \/ RollbackTexture(p)
  BY <1>1, <1>11, LocalTypes
  DEF UpdateTexture, NewUrl, MaybeUrl, RollbackTexture, TypeOK, store
<1>12. CASE WriteTexture(p)
  BY <1>12, LocalTypes DEF WriteTexture, TypeOK, store
<1> QED
  BY <1>5, <1>6, <1>7, <1>8, <1>9, <1>10, <1>11, <1>12 DEF Step

\* Only texture requests are inside the texture handlers.
LEMMA TextureStepsStay ==
  ASSUME TypeOK, NEW p \in Requests, Step(p), pc'[p] \in TextureSteps
  PROVE  pc[p] \in TextureSteps
<1> USE DEF Goto, Continue, Finish, FailDelete, TypeOK, TextureSteps
<1>1. CASE LockOwnFile(p) \/ LockActive(p) \/ SaveWithinLimit(p) \/ WriteUpload(p)
           \/ SyncUpload(p) \/ RemoveRow(p)
  BY <1>1 DEF LockOwnFile, LockActive, SaveWithinLimit, WriteUpload, SyncUpload, RemoveRow
<1>2. CASE PickLatest(p) \/ ActivateLatest(p) \/ SyncDelete(p) \/ CountRefs(p) \/ Unlink(p)
  BY <1>2 DEF PickLatest, ActivateLatest, SyncDelete, CountRefs, Unlink
<1>3. CASE Activate(p) \/ SyncActivate(p) \/ RestoreActive(p)
  BY <1>3 DEF Activate, SyncActivate, RestoreActive
<1>4. CASE LockTexture(p) \/ ReadTexture(p) \/ LockFile(p) \/ UpdateTexture(p)
           \/ WriteTexture(p) \/ RollbackTexture(p) \/ CountRows(p)
  BY <1>4 DEF LockTexture, ReadTexture, LockFile, UpdateTexture, WriteTexture,
              RollbackTexture, CountRows
<1> QED BY <1>1, <1>2, <1>3, <1>4 DEF Step

LEMMA StepType == ASSUME TypeOK, NEW p \in Requests, Step(p) PROVE TypeOK'
<1>1. Moves(p)
  BY StepMoves
<1>2. pc' \in [Requests -> Pcs] /\ req' \in [Requests -> Request]
  BY <1>1 DEF Moves, Alike, TypeOK
<1>3. holder' \in [LockKeys -> SUBSET Requests]
  BY <1>1 DEF Moves, TypeOK, Lock!ReleaseAll, Lock!Acquire
<1>4. ASSUME NEW q \in Requests, pc'[q] \in TextureSteps
      PROVE  req'[q].kind \in TextureKinds
  <2>1. pc[q] \in TextureSteps
    BY <1>1, <1>4, TextureStepsStay DEF Moves, TypeOK
  <2>2. req'[q].kind = req[q].kind
    BY <1>1 DEF Moves, Alike, TypeOK
  <2> QED BY <2>1, <2>2 DEF TypeOK
<1> QED BY <1>2, <1>3, <1>4, StepStore DEF TypeOK

\* Every reachable state is well typed; in particular no step of the texture
\* handlers is taken by a request for something else than a skin or a cape.
THEOREM SpecTypeOK == Spec => []TypeOK
<1>1. TypeOK /\ [Next]_vars => TypeOK'
  <2> SUFFICES ASSUME TypeOK, [Next]_vars PROVE TypeOK'
    OBVIOUS
  <2>1. CASE UNCHANGED vars
    BY <2>1 DEF TypeOK, vars
  <2>2. ASSUME NEW p \in Requests, Begin(p) \/ Step(p) PROVE TypeOK'
    BY <2>2, BeginType, StepType
  <2> QED BY <2>1, <2>2 DEF Next
<1> QED BY <1>1, InitTypeOK, PTL DEF Spec

-----------------------------------------------------------------------------
(***************************************************************************)
(* The lock of a file protects its row and its release.                    *)
(***************************************************************************)
LEMMA KeysApart ==
  /\ \A u, v \in Urls : FileKey(u) = FileKey(v) => u = v
  /\ \A u \in Urls, o \in Owners : FileKey(u) # ActiveKey(o)
  /\ \A u \in Urls, o \in Owners, t \in TextureKinds : FileKey(u) # TextureKey(o, t)
BY DEF FileKey, ActiveKey, TextureKey

\* A step leaves the other requests where they are, inside their locks.
LEMMA OthersStay ==
  ASSUME TypeOK, NEW p \in Requests, Moves(p), NEW q \in Requests, q # p
  PROVE  /\ pc'[q] = pc[q] /\ req'[q] = req[q]
         /\ \A u \in Urls : Holds(q, u) => Holds(q, u)'
<1>1. pc'[q] = pc[q] /\ req'[q] = req[q]
  BY DEF Moves, TypeOK
<1>2. ASSUME NEW u \in Urls, Holds(q, u) PROVE Holds(q, u)'
  <2>1. FileKey(u) \in LockKeys
    BY KeyType
  <2> QED BY <1>2, <2>1 DEF Moves, Holds, TypeOK, Lock!ReleaseAll, Lock!Acquire
<1> QED BY <1>1, <1>2

\* No step changes the arguments of the request that takes it.
LEMMA ArgumentsStay ==
  ASSUME TypeOK, NEW p \in Requests, Moves(p)
  PROVE  /\ req'[p].kind = req[p].kind /\ req'[p].op = req[p].op
         /\ req'[p].owner = req[p].owner /\ req'[p].image = req[p].image
         /\ OwnUrl(p)' = OwnUrl(p) /\ TargetUrl(p)' = TargetUrl(p) /\ NewUrl(p)' = NewUrl(p)
<1>1. /\ req'[p].kind = req[p].kind /\ req'[p].op = req[p].op
      /\ req'[p].owner = req[p].owner /\ req'[p].image = req[p].image
  BY DEF Moves, Alike, TypeOK
<1> QED BY <1>1 DEF OwnUrl, TargetUrl, NewUrl, ContentUrl

LEMMA ExclusiveStays ==
  ASSUME TypeOK, NEW p \in Requests, Moves(p), Lock!Exclusive
  PROVE  Lock!Exclusive'
BY DEF Moves, TypeOK, Lock!Exclusive, Lock!ReleaseAll, Lock!Acquire

\* What a step does to the tables and to the files, in one place: a new row is
\* the row of the file whose lock the step holds, and a file that goes is the
\* one being released.
Tables(p) ==
  /\ \A r \in rows' :
       \/ r \in rows
       \/ /\ pc[p] = "uploadSave"
          /\ RowUrl(r) = OwnUrl(p)
          /\ r.id = nextId[r.kind] /\ nextId'[r.kind] = nextId[r.kind] + 1
          /\ r.kind = req[p].kind /\ req'[p].id = r.id /\ pc'[p] = "uploadWrite"
          /\ \A s \in rows' : s \in rows \/ s = r
  /\ \A u \in files : u \in files' \/ (pc[p] = "unlink" /\ u = req[p].drop)
  /\ \A k \in ContentKinds : nextId'[k] \in Nat /\ nextId[k] \in Nat /\ nextId[k] <= nextId'[k]

LEMMA StepTables == ASSUME TypeOK, NEW p \in Requests, Step(p) PROVE Tables(p)
<1>1. (UNCHANGED nextId \/ \E k \in ContentKinds : nextId' = [nextId EXCEPT ![k] = @ + 1])
        => \A k \in ContentKinds : nextId'[k] \in Nat /\ nextId[k] \in Nat /\ nextId[k] <= nextId'[k]
  BY DEF TypeOK
<1>2. CASE SaveWithinLimit(p)
  <2> DEFINE new == [kind |-> req[p].kind, id |-> nextId[req[p].kind],
                     owner |-> req[p].owner, image |-> req[p].image]
             k == req[p].kind
  <2>1. k \in ContentKinds /\ req[p] \in Request
    BY LocalTypes
  <2>2. RowUrl(new) = OwnUrl(p) /\ new.kind = k /\ new.id = nextId[k]
    BY DEF RowUrl, OwnUrl
  <2>3. CASE Cardinality(RowsOf(req[p].owner, k)) < MaxPerUser
    <3>1. /\ rows' = rows \cup {new}
          /\ nextId' = [nextId EXCEPT ![k] = @ + 1]
          /\ Keep(p, [req[p] EXCEPT !.id = nextId[k]])
          /\ Goto(p, "uploadWrite") /\ files' = files /\ pc[p] = "uploadSave"
      BY <1>2, <2>3 DEF SaveWithinLimit, Continue
    <3>2. pc'[p] = "uploadWrite" /\ nextId'[k] = nextId[k] + 1
      BY <2>1, <3>1 DEF Goto, TypeOK
    <3>3. req'[p].id = nextId[k]
      BY <2>1, <3>1 DEF Keep, TypeOK, Request
    <3> HIDE DEF new, k
    <3> QED BY <1>1, <2>1, <2>2, <3>1, <3>2, <3>3 DEF Tables, k
  <2>4. CASE ~(Cardinality(RowsOf(req[p].owner, k)) < MaxPerUser)
    BY <1>1, <1>2, <2>4 DEF SaveWithinLimit, Tables
  <2> QED BY <2>3, <2>4
<1>3. CASE WriteUpload(p) \/ WriteTexture(p)
  BY <1>1, <1>3 DEF WriteUpload, WriteTexture, Tables, store
<1>4. CASE RemoveRow(p)
  BY <1>1, <1>4 DEF RemoveRow, Tables
<1>5. CASE Unlink(p)
  BY <1>1, <1>5 DEF Unlink, Tables, store
<1>6. ASSUME UNCHANGED <<rows, nextId, files>> PROVE Tables(p)
  BY <1>1, <1>6, SMTT(40) DEF Tables
<1>7. CASE LockOwnFile(p) \/ LockActive(p) \/ PickLatest(p) \/ CountRefs(p)
           \/ LockTexture(p) \/ ReadTexture(p) \/ LockFile(p) \/ CountRows(p)
  BY <1>6, <1>7 DEF LockOwnFile, LockActive, PickLatest, CountRefs, LockTexture, ReadTexture,
                    LockFile, CountRows, store
<1>8. CASE SyncUpload(p) \/ ActivateLatest(p) \/ SyncDelete(p) \/ Activate(p)
           \/ SyncActivate(p) \/ RestoreActive(p) \/ UpdateTexture(p) \/ RollbackTexture(p)
  BY <1>6, <1>8 DEF SyncUpload, ActivateLatest, SyncDelete, Activate, SyncActivate,
                    RestoreActive, UpdateTexture, RollbackTexture, store
<1> QED BY <1>2, <1>3, <1>4, <1>5, <1>7, <1>8 DEF Step

Guarded(p) == HoldsLocks(p) /\ NoRowAtDrop(p) /\ UploadsOwnRow(p) /\ KindDirectories(p)

LEMMA HeldByOne ==
  ASSUME TypeOK, Lock!Exclusive, NEW p \in Requests, NEW q \in Requests, NEW u \in Urls,
         Holds(p, u), Holds(q, u)
  PROVE  p = q
BY KeyType DEF Lock!Exclusive, Holds

\* What the locks of a request protect cannot be changed by another.
LEMMA OthersGuarded ==
  ASSUME TypeOK, FilesGuarded, NEW p \in Requests, Moves(p), Tables(p),
         NEW q \in Requests, q # p
  PROVE  Guarded(q)'
<1>1. /\ pc'[q] = pc[q] /\ req'[q] = req[q]
      /\ \A u \in Urls : Holds(q, u) => Holds(q, u)'
  BY OthersStay
<1>2. Guarded(q) /\ HoldsLocks(p) /\ Lock!Exclusive /\ RowsKeyed
  BY DEF FilesGuarded, Guarded
<1>3. OwnUrl(q)' = OwnUrl(q) /\ TargetUrl(q)' = TargetUrl(q) /\ NewUrl(q)' = NewUrl(q)
  BY <1>1 DEF OwnUrl, TargetUrl, NewUrl, ContentUrl
<1>4. /\ OwnUrl(q) \in Urls /\ req[q].drop \in MaybeUrl /\ req[q].prev \in MaybeUrl
      /\ NewUrl(q) \in MaybeUrl /\ req[q].kind \in ContentKinds /\ req[q].id \in Nat
  BY LocalTypes DEF NewUrl, MaybeUrl
<1>5. OwnUrl(p) \in Urls /\ req[p].drop \in MaybeUrl
  BY LocalTypes
<1>6. HoldsLocks(q)'
  <2>1. NeededFiles(q, req[q].prev)' = NeededFiles(q, req[q].prev)
    BY <1>1, <1>3 DEF NeededFiles
  <2>2. NeededFiles(q, req[q].prev) \subseteq Urls
    BY <1>4 DEF NeededFiles, MaybeUrl
  <2> HIDE DEF Holds
  <2> QED BY <1>1, <1>2, <1>3, <1>4, <2>1, <2>2 DEF Guarded, HoldsLocks, MaybeUrl
<1>7. NoRowAtDrop(q)'
  <2> SUFFICES ASSUME pc[q] = "unlink" \/ (pc[q] \in CountedSteps /\ ~req[q].used),
                      NEW r \in rows', RowUrl(r) = req[q].drop
               PROVE  FALSE
    BY <1>1 DEF NoRowAtDrop
  <2>1. req[q].drop \in Urls /\ Holds(q, req[q].drop)
    BY <1>2, <1>4 DEF Guarded, HoldsLocks, OwnFileSteps, CountedSteps, MaybeUrl
  <2>2. r \notin rows
    BY <1>2 DEF Guarded, NoRowAtDrop
  <2>3. pc[p] = "uploadSave" /\ RowUrl(r) = OwnUrl(p)
    BY <2>2 DEF Tables
  <2>4. Holds(p, OwnUrl(p))
    BY <1>2, <2>3 DEF HoldsLocks, OwnFileSteps
  <2> QED BY <1>2, <2>1, <2>3, <2>4, HeldByOne
<1>8. UploadsOwnRow(q)'
  <2>1. ASSUME pc[q] \in UploadSteps
        PROVE  /\ req[q].id < nextId'[req[q].kind]
               /\ \A r \in rows' : r.kind = req[q].kind /\ r.id = req[q].id
                                     => RowUrl(r) = OwnUrl(q)
    <3>1. req[q].id < nextId[req[q].kind]
      BY <1>2, <2>1 DEF Guarded, UploadsOwnRow
    <3>2. req[q].id < nextId'[req[q].kind]
      BY <1>4, <3>1 DEF Tables
    <3>3. ASSUME NEW r \in rows', r.kind = req[q].kind, r.id = req[q].id
          PROVE  RowUrl(r) = OwnUrl(q)
      <4>1. r \in rows
        BY <1>4, <3>1, <3>3 DEF Tables
      <4> QED BY <1>2, <2>1, <3>3, <4>1 DEF Guarded, UploadsOwnRow
    <3> QED BY <3>2, <3>3
  <2>2. ASSUME pc[q] = "uploadSync"
        PROVE  req[q].kind = "cape" /\ OwnUrl(q) \in files'
    <3>1. req[q].kind = "cape" /\ OwnUrl(q) \in files /\ Holds(q, OwnUrl(q))
      BY <1>2, <2>2 DEF Guarded, UploadsOwnRow, HoldsLocks, OwnFileSteps
    <3>2. ~(pc[p] = "unlink" /\ OwnUrl(q) = req[p].drop)
      BY <1>2, <1>4, <3>1, HeldByOne DEF HoldsLocks
    <3> QED BY <3>1, <3>2 DEF Tables
  <2> QED BY <1>1, <1>3, <2>1, <2>2 DEF UploadsOwnRow
<1>9. KindDirectories(q)'
  BY <1>1, <1>2 DEF Guarded, KindDirectories, OfKind
<1> QED BY <1>6, <1>7, <1>8, <1>9 DEF Guarded

LEMMA Arrives ==
  ASSUME TypeOK, NEW p \in Requests
  PROVE  /\ \A w \in Pcs : Goto(p, w) => pc'[p] = w
         /\ \A r \in Request : Keep(p, r) => req'[p] = r
         /\ UNCHANGED holder => \A u \in Urls : Holds(p, u) => Holds(p, u)'
         /\ \A k \in LockKeys, u \in Urls :
              Lock!Acquire(p, k) /\ Holds(p, u) => Holds(p, u)'
         /\ \A u \in Urls : Lock!Acquire(p, FileKey(u)) => Holds(p, u)'
<1>1. \A w \in Pcs : Goto(p, w) => pc'[p] = w
  BY DEF Goto, TypeOK
<1>2. \A r \in Request : Keep(p, r) => req'[p] = r
  BY DEF Keep, TypeOK
<1>3. UNCHANGED holder => \A u \in Urls : Holds(p, u) => Holds(p, u)'
  BY DEF Holds
<1>4. \A k \in LockKeys, u \in Urls : Lock!Acquire(p, k) /\ Holds(p, u) => Holds(p, u)'
  BY KeyType DEF Holds, Lock!Acquire, TypeOK
<1>5. \A u \in Urls : Lock!Acquire(p, FileKey(u)) => Holds(p, u)'
  BY KeyType DEF Holds, Lock!Acquire, TypeOK
<1> QED BY <1>1, <1>2, <1>3, <1>4, <1>5

\* A request that is at one of these points has nothing to keep.
LEMMA FreeGuarded ==
  ASSUME NEW p \in Requests, pc'[p] \in {"idle", "done", "deleteFailed"}
  PROVE  Guarded(p)'
BY DEF Guarded, HoldsLocks, NoRowAtDrop, UploadsOwnRow, KindDirectories, OwnFileSteps,
       CountedSteps, UploadSteps, TextureSteps

LEMMA UploadGuarded ==
  ASSUME TypeOK, FilesGuarded, NEW p \in Requests, Moves(p), Tables(p),
         \/ SaveWithinLimit(p) \/ WriteUpload(p) \/ SyncUpload(p)
  PROVE  Guarded(p)'
<1> USE DEF Guarded, HoldsLocks, NoRowAtDrop, UploadsOwnRow, KindDirectories, OwnFileSteps,
            CountedSteps, UploadSteps, TextureSteps
<1>1. Guarded(p) /\ RowsKeyed /\ "uploadWrite" \in Pcs /\ "uploadSync" \in Pcs
      /\ "rollbackDelete" \in Pcs /\ "done" \in Pcs
  BY DEF FilesGuarded, Pcs
<1>2. OwnUrl(p) \in Urls /\ req[p].kind \in ContentKinds /\ req[p] \in Request
      /\ nextId[req[p].kind] \in Nat
  BY LocalTypes
<1>3. CASE SaveWithinLimit(p)
  <2>1. CASE pc'[p] = "done"
    BY <2>1, FreeGuarded
  <2>2. CASE pc'[p] # "done"
    <3>1. /\ pc[p] = "uploadSave" /\ UNCHANGED holder /\ pc'[p] = "uploadWrite"
          /\ Keep(p, [req[p] EXCEPT !.id = nextId[req[p].kind]])
          /\ nextId' = [nextId EXCEPT ![req[p].kind] = @ + 1]
          /\ rows' = rows \cup {[kind |-> req[p].kind, id |-> nextId[req[p].kind],
                                owner |-> req[p].owner, image |-> req[p].image]}
      BY <1>1, <1>3, <2>2, Arrives DEF SaveWithinLimit, Continue, Finish
    <3>2. req'[p] = [req[p] EXCEPT !.id = nextId[req[p].kind]]
      BY <1>2, <3>1, RequestUpdate, Arrives DEF Alike
    <3>3. req'[p].id = nextId[req[p].kind] /\ req'[p].drop = req[p].drop
          /\ req'[p].kind = req[p].kind /\ req'[p].sync = req[p].sync
      BY <1>2, <3>2 DEF Request
    <3>4. nextId'[req[p].kind] = nextId[req[p].kind] + 1
      BY <1>2, <3>1 DEF TypeOK
    <3>5. ASSUME NEW r \in rows', r.kind = req[p].kind, r.id = nextId[req[p].kind]
          PROVE  RowUrl(r) = OwnUrl(p)
      <4>1. r \notin rows
        BY <1>1, <1>2, <3>5 DEF RowsKeyed
      <4> QED BY <4>1 DEF Tables
    <3>6. Holds(p, OwnUrl(p))' /\ OwnUrl(p)' = OwnUrl(p)
      BY <1>1, <1>2, <3>1, Arrives, ArgumentsStay
    <3> QED BY <1>1, <1>2, <3>1, <3>3, <3>4, <3>5, <3>6 DEF OfKind
  <2> QED BY <2>1, <2>2
<1>4. CASE WriteUpload(p)
  <2>1. CASE pc'[p] = "done"
    BY <2>1, FreeGuarded
  <2>2. CASE pc'[p] # "done"
    <3>1. /\ pc[p] = "uploadWrite" /\ UNCHANGED <<holder, req, rows, nextId>>
          /\ \/ pc'[p] = "rollbackDelete"
             \/ pc'[p] = "uploadSync" /\ req[p].kind = "cape" /\ OwnUrl(p) \in files'
      BY <1>1, <1>4, <2>2, Arrives DEF WriteUpload, Continue, Finish, store
    <3>2. Holds(p, OwnUrl(p))' /\ OwnUrl(p)' = OwnUrl(p)
      BY <1>1, <1>2, <3>1, Arrives, ArgumentsStay
    <3> QED BY <1>1, <3>1, <3>2 DEF OfKind
  <2> QED BY <2>1, <2>2
<1>5. CASE SyncUpload(p)
  <2>1. CASE pc'[p] = "done"
    BY <2>1, FreeGuarded
  <2>2. CASE pc'[p] # "done"
    <3>1. /\ pc[p] = "uploadSync" /\ UNCHANGED <<holder, req, rows, nextId>>
          /\ pc'[p] = "rollbackDelete"
      BY <1>1, <1>5, <2>2, Arrives DEF SyncUpload, Continue, Finish, store
    <3>2. Holds(p, OwnUrl(p))' /\ OwnUrl(p)' = OwnUrl(p)
      BY <1>1, <1>2, <3>1, Arrives, ArgumentsStay
    <3> QED BY <1>1, <3>1, <3>2 DEF OfKind
  <2> QED BY <2>1, <2>2
<1> QED BY <1>3, <1>4, <1>5

LEMMA DeleteGuarded ==
  ASSUME TypeOK, FilesGuarded, NEW p \in Requests, Moves(p),
         \/ LockOwnFile(p) \/ LockActive(p) \/ RemoveRow(p) \/ PickLatest(p)
         \/ ActivateLatest(p) \/ SyncDelete(p) \/ CountRefs(p) \/ Unlink(p)
  PROVE  Guarded(p)'
<1> USE DEF Guarded, HoldsLocks, NoRowAtDrop, UploadsOwnRow, KindDirectories, OwnFileSteps,
            CountedSteps, UploadSteps, TextureSteps
<1>1. Guarded(p) /\ \A w \in {"uploadSave", "deleteLockActive", "deleteRow", "activate",
                              "deletePick", "deleteActivate", "deleteSync", "countRefs",
                              "unlink", "done", "deleteFailed"} : w \in Pcs
  BY DEF FilesGuarded, Pcs
<1>2. OwnUrl(p) \in Urls /\ req[p].kind \in ContentKinds /\ req[p] \in Request
      /\ req[p].drop \in MaybeUrl
  BY LocalTypes
<1>3. OwnUrl(p)' = OwnUrl(p) /\ req'[p].kind = req[p].kind
  BY ArgumentsStay
<1>4. CASE pc'[p] \in {"done", "deleteFailed"}
  BY <1>4, FreeGuarded
<1>5. CASE LockOwnFile(p)
  <2>1. /\ pc[p] \in {"uploadLock", "deleteLock"} /\ UNCHANGED <<req, rows>>
        /\ pc'[p] \in {"uploadSave", "deleteLockActive", "deleteRow"}
    BY <1>1, <1>5, Arrives DEF LockOwnFile, store
  <2>2. Holds(p, OwnUrl(p))'
    BY <1>2, <1>3, <1>5, Arrives DEF LockOwnFile
  <2> QED BY <1>1, <1>3, <2>1, <2>2
<1>6. CASE LockActive(p)
  <2>1. /\ UNCHANGED <<req, rows>>
        /\ \/ pc[p] = "activateLock" /\ pc'[p] = "activate"
           \/ pc[p] = "deleteLockActive" /\ pc'[p] = "deleteRow"
    BY <1>1, <1>6, Arrives DEF LockActive, store
  <2>2. Holds(p, OwnUrl(p)) => Holds(p, OwnUrl(p))'
    BY <1>2, <1>3, <1>6, Arrives, LocalTypes DEF LockActive
  <2> QED BY <1>1, <1>3, <2>1, <2>2
<1>7. CASE RemoveRow(p) /\ pc'[p] # "done"
  <2> DEFINE gone == {x \in rows : x.kind = req[p].kind /\ x.id = req[p].id}
             left == RowsAt(req[p].drop, req[p].kind) \ gone
  <2>1. /\ pc[p] \in {"deleteRow", "rollbackDelete"} /\ UNCHANGED holder
        /\ Keep(p, [req[p] EXCEPT !.used = left # {}])
        /\ rows' = rows \ gone
        /\ pc'[p] \in {"deletePick", "countRefs"}
    BY <1>1, <1>7, Arrives DEF RemoveRow, Continue, Finish
  <2>2. req'[p] = [req[p] EXCEPT !.used = left # {}]
    BY <1>2, <2>1, RequestUpdate, Arrives DEF Alike
  <2>3. /\ req'[p].used = (left # {}) /\ req'[p].drop = req[p].drop
        /\ req'[p].sync = req[p].sync
    BY <1>2, <2>2 DEF Request
  <2>4. req[p].drop = OwnUrl(p) /\ Holds(p, OwnUrl(p))'
    BY <1>1, <1>2, <1>3, <2>1, Arrives
  <2>5. ASSUME ~req'[p].used, NEW r \in rows' PROVE RowUrl(r) # req[p].drop
    <3>1. r \in rows /\ r \notin gone /\ r \notin RowsAt(req[p].drop, req[p].kind)
      BY <2>1, <2>3, <2>5
    <3>2. CASE r.kind = req[p].kind
      BY <3>1, <3>2 DEF RowsAt
    <3>3. CASE r.kind # req[p].kind
      <4>1. Directory[r.kind] # Directory[req[p].kind]
        BY <1>2, <3>1, <3>3, RowTypes DEF Directory, ContentKinds
      <4> QED BY <2>4, <4>1 DEF RowUrl, OwnUrl, ContentUrl
    <3> QED BY <3>2, <3>3
  <2>6. req[p].drop # NoUrl
    BY <1>2, <2>4, ContentAssumption
  <2> HIDE DEF left, gone
  <2> QED BY <1>1, <1>3, <2>1, <2>3, <2>4, <2>5, <2>6 DEF OfKind
<1>8. CASE PickLatest(p)
  <2>1. pc[p] = "deletePick" /\ UNCHANGED <<holder, rows>>
        /\ pc'[p] \in {"deleteActivate", "deleteSync"}
    BY <1>1, <1>8, Arrives DEF PickLatest, Continue, store
  <2>2. /\ req'[p].used = req[p].used /\ req'[p].drop = req[p].drop
        /\ OfKind(req'[p].kind, req'[p].sync)
    <3>1. CASE UNCHANGED req
      BY <1>1, <2>1, <3>1
    <3>2. CASE ~UNCHANGED req
      <4>1. PICK r \in RowsOf(req[p].owner, req[p].kind) :
              Keep(p, [req[p] EXCEPT !.pick = r.id, !.sync = RowUrl(r)])
        BY <1>8, <3>2 DEF PickLatest
      <4>2. r.kind = req[p].kind /\ r.id \in Nat /\ RowUrl(r) \in MaybeUrl
        BY RowTypes DEF RowsOf, MaybeUrl
      <4>3. req'[p] = [req[p] EXCEPT !.pick = r.id, !.sync = RowUrl(r)]
        BY <1>2, <4>1, <4>2, RequestUpdate, Arrives DEF Alike
      <4>4. req'[p].used = req[p].used /\ req'[p].drop = req[p].drop /\ req'[p].sync = RowUrl(r)
        BY <1>2, <4>3 DEF Request
      <4> QED BY <1>3, <4>2, <4>4 DEF OfKind, RowUrl, ContentUrl
    <3> QED BY <3>1, <3>2
  <2>3. Holds(p, OwnUrl(p))'
    BY <1>1, <1>2, <1>3, <2>1, Arrives
  <2> QED BY <1>1, <1>3, <2>1, <2>2, <2>3
<1>9. CASE (ActivateLatest(p) \/ SyncDelete(p)) /\ pc'[p] # "deleteFailed"
  <2>1. pc[p] \in {"deleteActivate", "deleteSync"} /\ UNCHANGED <<holder, rows, req>>
        /\ pc'[p] \in {"countRefs", "deleteSync"}
    BY <1>1, <1>9, Arrives DEF ActivateLatest, SyncDelete, Continue, FailDelete, store
  <2>2. Holds(p, OwnUrl(p))' /\ req[p].drop # NoUrl
    BY <1>1, <1>2, <1>3, <2>1, Arrives, ContentAssumption
  <2> QED BY <1>1, <1>3, <2>1, <2>2 DEF OfKind
<1>10. CASE CountRefs(p) /\ pc'[p] # "done"
  <2>1. pc[p] = "countRefs" /\ UNCHANGED <<holder, rows, req>> /\ ~req[p].used
        /\ pc'[p] = "unlink"
    BY <1>1, <1>10, Arrives DEF CountRefs, Continue, Finish, store
  <2>2. Holds(p, req[p].drop)'
    BY <1>1, <1>2, <2>1, Arrives DEF MaybeUrl
  <2> QED BY <1>1, <2>1, <2>2
<1>11. CASE Unlink(p)
  BY <1>1, <1>4, <1>11, Arrives DEF Unlink, Finish
<1> QED BY <1>4, <1>5, <1>6, <1>7, <1>8, <1>9, <1>10, <1>11

LEMMA ActivateGuarded ==
  ASSUME TypeOK, FilesGuarded, NEW p \in Requests, Moves(p),
         Activate(p) \/ SyncActivate(p) \/ RestoreActive(p)
  PROVE  Guarded(p)'
<1>1. Guarded(p) /\ \A w \in {"activateSync", "activateRestore", "done"} : w \in Pcs
  BY DEF FilesGuarded, Guarded, Pcs
<1>2. CASE pc'[p] = "done"
  BY <1>2, FreeGuarded
<1>3. CASE pc'[p] # "done"
  <2>1. /\ pc'[p] \in {"activateSync", "activateRestore"}
        /\ pc[p] \in {"activate", "activateSync"}
    BY <1>1, <1>3, Arrives DEF Activate, SyncActivate, RestoreActive, Continue, Finish
  <2>2. req'[p].kind = req[p].kind
    BY ArgumentsStay
  <2> QED BY <1>1, <2>1, <2>2 DEF Guarded, HoldsLocks, NoRowAtDrop, UploadsOwnRow,
             KindDirectories, OwnFileSteps, CountedSteps, UploadSteps, TextureSteps
<1> QED BY <1>2, <1>3

LEMMA TextureGuarded ==
  ASSUME TypeOK, FilesGuarded, NEW p \in Requests, Moves(p),
         \/ LockTexture(p) \/ ReadTexture(p) \/ LockFile(p) \/ UpdateTexture(p)
         \/ WriteTexture(p) \/ RollbackTexture(p) \/ CountRows(p)
  PROVE  Guarded(p)'
<1> USE DEF Guarded, HoldsLocks, NoRowAtDrop, UploadsOwnRow, KindDirectories, OwnFileSteps,
            CountedSteps, UploadSteps
<1>1. Guarded(p) /\ \A w \in {"textureRead", "fileLocks", "textureUpdate", "textureWrite",
                              "textureRollback", "releaseRows", "countRefs", "done"} : w \in Pcs
  <2>1. Guarded(p)
    BY DEF FilesGuarded
  <2> QED BY <2>1 DEF Pcs, TextureSteps
<1>2. req[p] \in Request /\ req[p].prev \in MaybeUrl /\ TargetUrl(p) \in Urls
      /\ NewUrl(p) \in MaybeUrl /\ req[p].drop \in MaybeUrl
  BY LocalTypes DEF NewUrl, MaybeUrl
<1>3. NewUrl(p)' = NewUrl(p) /\ req'[p].kind = req[p].kind /\ req'[p].op = req[p].op
  BY ArgumentsStay
<1>4. CASE pc'[p] = "done"
  BY <1>4, FreeGuarded
<1>5. pc[p] \in TextureSteps => OfKind(req[p].kind, req[p].prev) /\ OfKind(req[p].kind, req[p].drop)
                                  /\ (req[p].op = "putTexture" => req[p].kind = "skin")
  BY <1>1
<1>6. CASE LockTexture(p)
  <2>1. pc[p] = "textureLock" /\ pc'[p] = "textureRead" /\ UNCHANGED req
    BY <1>1, <1>6, Arrives DEF LockTexture
  <2> QED BY <1>5, <2>1 DEF TextureSteps
<1>7. CASE ReadTexture(p)
  <2> DEFINE previousUrl == texture[req[p].owner][req[p].kind]
  <2>1. /\ pc[p] = "textureRead" /\ UNCHANGED holder
        /\ Keep(p, [req[p] EXCEPT !.prev = previousUrl])
        /\ Goto(p, IF NeededFiles(p, previousUrl) = {} THEN "textureUpdate" ELSE "fileLocks")
    BY <1>7 DEF ReadTexture, Continue
  <2>2. previousUrl \in MaybeUrl /\ OfKind(req[p].kind, previousUrl)
    <3>1. pc[p] \in TextureSteps
      BY <2>1 DEF TextureSteps
    <3>2. req[p].owner \in Owners /\ req[p].kind \in TextureKinds
      BY <3>1, LocalTypes, SMTT(40) DEF TypeOK
    <3> QED BY <3>1, <3>2, LocalTypes DEF FilesGuarded, ProfileDirectories
  <2>3. req'[p] = [req[p] EXCEPT !.prev = previousUrl]
    BY <1>2, <2>1, <2>2, RequestUpdate, Arrives DEF Alike
  <2>4. req'[p].prev = previousUrl /\ req'[p].drop = req[p].drop
    BY <1>2, <2>3 DEF Request
  <2>5. pc'[p] = IF NeededFiles(p, previousUrl) = {} THEN "textureUpdate" ELSE "fileLocks"
    BY <1>1, <2>1, Arrives
  <2>6. NeededFiles(p, req[p].prev)' = NeededFiles(p, previousUrl)
    BY <1>3, <2>4 DEF NeededFiles
  <2> HIDE DEF previousUrl
  <2> QED BY <1>3, <1>5, <2>1, <2>2, <2>4, <2>5, <2>6 DEF TextureSteps
<1>8. CASE LockFile(p)
  <2> DEFINE needed == NeededFiles(p, req[p].prev)
  <2>1. PICK u \in needed :
          /\ Lock!Acquire(p, FileKey(u))
          /\ Goto(p, IF \A v \in needed \ {u} : Holds(p, v) THEN "textureUpdate" ELSE "fileLocks")
    BY <1>8 DEF LockFile
  <2>2. needed \subseteq Urls /\ FileKey(u) \in LockKeys
    BY <1>2, KeyType DEF NeededFiles, MaybeUrl
  <2>3. pc'[p] = IF \A v \in needed \ {u} : Holds(p, v) THEN "textureUpdate" ELSE "fileLocks"
    BY <1>1, <2>1, Arrives
  <2>4. pc[p] = "fileLocks" /\ UNCHANGED req
    BY <1>8 DEF LockFile
  <2>5. NeededFiles(p, req[p].prev)' = needed
    BY <1>3, <2>4 DEF NeededFiles
  <2>6. pc'[p] = "textureUpdate" => \A v \in needed : Holds(p, v)'
    BY <2>1, <2>2, <2>3, Arrives
  <2> HIDE DEF needed
  <2> QED BY <1>3, <1>5, <2>3, <2>4, <2>5, <2>6 DEF TextureSteps
<1>9. ASSUME NEW u \in MaybeUrl, Release(p, u), OfKind(req[p].kind, u),
             u # NoUrl => Holds(p, u), pc[p] \in TextureSteps, pc'[p] # "done"
      PROVE  Guarded(p)'
  <2>1. u # NoUrl /\ UNCHANGED holder /\ pc'[p] = "releaseRows"
        /\ Keep(p, [req[p] EXCEPT !.drop = u])
    BY <1>1, <1>9, Arrives DEF Release, Continue, Finish
  <2>2. req'[p] = [req[p] EXCEPT !.drop = u]
    BY <1>2, <2>1, RequestUpdate, Arrives DEF Alike
  <2>3. req'[p].drop = u /\ req'[p].prev = req[p].prev
    BY <1>2, <2>2 DEF Request
  <2>4. Holds(p, u)'
    BY <1>9, <2>1, Arrives DEF MaybeUrl
  <2> QED BY <1>3, <1>5, <1>9, <2>1, <2>3, <2>4 DEF TextureSteps
<1>10. ASSUME pc[p] \in {"textureUpdate", "textureWrite", "textureRollback"}
       PROVE  /\ pc[p] \in TextureSteps /\ (req[p].prev # NoUrl => Holds(p, req[p].prev))
              /\ (NewUrl(p) # NoUrl => Holds(p, NewUrl(p)))
  BY <1>1, <1>10 DEF NeededFiles, TextureSteps
<1>11. ASSUME UNCHANGED <<holder, req>>, pc'[p] \in {"textureWrite", "textureRollback"},
              pc[p] \in {"textureUpdate", "textureWrite"}, req[p].op = "putTexture"
       PROVE  Guarded(p)'
  <2>1. NeededFiles(p, req[p].prev)' = NeededFiles(p, req[p].prev)
    BY <1>3, <1>11 DEF NeededFiles
  <2>2. \A u \in NeededFiles(p, req[p].prev) : Holds(p, u)'
    BY <1>1, <1>11 DEF Holds
  <2> QED BY <1>5, <1>10, <1>11, <2>1, <2>2 DEF TextureSteps
<1>12. CASE UpdateTexture(p) /\ pc'[p] # "done"
  <2>1. /\ pc[p] = "textureUpdate"
        /\ \/ Continue(p, "textureWrite") /\ UNCHANGED req /\ req[p].op = "putTexture"
           \/ Release(p, req[p].prev)
    BY <1>1, <1>12, Arrives DEF UpdateTexture, Finish
  <2> QED BY <1>1, <1>2, <1>5, <1>9, <1>10, <1>11, <1>12, <2>1, Arrives DEF Continue
<1>13. CASE WriteTexture(p) /\ pc'[p] # "done"
  <2>1. /\ pc[p] = "textureWrite"
        /\ \/ Continue(p, "textureRollback") /\ UNCHANGED req
           \/ Release(p, req[p].prev)
    BY <1>13 DEF WriteTexture
  <2> QED BY <1>1, <1>2, <1>5, <1>9, <1>10, <1>11, <1>13, <2>1, Arrives DEF Continue
<1>14. CASE RollbackTexture(p) /\ pc'[p] # "done"
  <2>1. pc[p] = "textureRollback"
        /\ Release(p, IF TargetUrl(p) \in files THEN TargetUrl(p) ELSE NoUrl)
    BY <1>14 DEF RollbackTexture
  <2>2. req[p].op = "putTexture" /\ req[p].kind = "skin"
    BY <1>1, <1>5, <1>10, <2>1
  <2>3. OfKind(req[p].kind, TargetUrl(p)) /\ Holds(p, TargetUrl(p))
    BY <1>2, <1>10, <2>1, <2>2, ContentAssumption DEF OfKind, TargetUrl, Directory, NewUrl
  <2>4. OfKind(req[p].kind, NoUrl) /\ NoUrl \in MaybeUrl /\ TargetUrl(p) \in MaybeUrl
    BY <1>2 DEF OfKind, MaybeUrl
  <2> QED BY <1>9, <1>10, <1>14, <2>1, <2>3, <2>4
<1>15. CASE CountRows(p)
  <2> DEFINE counted == RowsAt(req[p].drop, req[p].kind)
  <2>1. /\ pc[p] = "releaseRows" /\ UNCHANGED <<holder, rows>>
        /\ Keep(p, [req[p] EXCEPT !.used = counted # {}]) /\ pc'[p] = "countRefs"
    BY <1>1, <1>15, Arrives DEF CountRows, Continue, store
  <2>2. req'[p] = [req[p] EXCEPT !.used = counted # {}]
    BY <1>2, <2>1, RequestUpdate, Arrives DEF Alike
  <2>3. req'[p].used = (counted # {}) /\ req'[p].drop = req[p].drop
    BY <1>2, <2>2 DEF Request
  <2>4. req[p].drop # NoUrl /\ Holds(p, req[p].drop)'
    <3>1. req[p].drop # NoUrl /\ Holds(p, req[p].drop) /\ UNCHANGED holder
      BY <1>1, <2>1
    <3> QED BY <2>3, <3>1 DEF Holds
  <2>5. ASSUME NEW r \in rows, RowUrl(r) = req[p].drop PROVE r \in counted
    <3>1. Directory[r.kind] = Directory[req[p].kind]
      BY <1>5, <2>1, <2>4, <2>5 DEF TextureSteps, OfKind, RowUrl, ContentUrl
    <3>2. r.kind = req[p].kind
      BY <3>1, RowTypes, LocalTypes DEF Directory, ContentKinds
    <3> QED BY <2>5, <3>2 DEF RowsAt
  <2> HIDE DEF counted
  <2> QED BY <2>1, <2>3, <2>4, <2>5 DEF TextureSteps
<1> QED BY <1>4, <1>6, <1>7, <1>8, <1>12, <1>13, <1>14, <1>15

\* Where a new request is, and what it has in its local variables.
Entry == {"uploadLock", "activateLock", "deleteLock", "textureLock"}
EntryOf(w, r) ==
  /\ r \in Request /\ r.prev = NoUrl /\ r.sync = NoUrl
  /\ w \in {"uploadLock", "deleteLock"} => r.drop = ContentUrl(r.kind, r.owner, r.image)
  /\ w = "activateLock" => r.kind = "skin"
  /\ w = "textureLock" => r.drop = NoUrl /\ (r.op = "putTexture" => r.kind \in PutKinds)
Begun(p) ==
  /\ UNCHANGED <<rows, active, nextId, texture, files, holder>> /\ pc[p] = "idle"
  /\ \E w \in Entry, r \in Request : /\ pc' = [pc EXCEPT ![p] = w]
                                     /\ req' = [req EXCEPT ![p] = r]
                                     /\ EntryOf(w, r)

LEMMA StartBegun ==
  ASSUME NEW p \in Requests, NEW op \in Operations, NEW o \in Owners,
         NEW k \in ContentKinds, NEW i \in Images, NEW n \in Nat, NEW w \in Entry,
         w = "activateLock" => k = "skin",
         w = "textureLock" => (op = "putTexture" => k \in PutKinds),
         Start(p, op, o, k, i, n, w)
  PROVE  Begun(p)
<1> DEFINE r == [Blank EXCEPT !.op = op, !.owner = o, !.kind = k, !.image = i, !.id = n,
                   !.drop = IF w = "textureLock" THEN NoUrl ELSE ContentUrl(k, o, i)]
<1>1. r \in Request
  BY BlankType, UrlType DEF Request, MaybeUrl
<1>2. /\ r.op = op /\ r.owner = o /\ r.kind = k /\ r.image = i /\ r.sync = NoUrl /\ r.prev = NoUrl
      /\ r.drop = IF w = "textureLock" THEN NoUrl ELSE ContentUrl(k, o, i)
  BY BlankType DEF Request, Blank
<1>3. /\ req' = [req EXCEPT ![p] = r] /\ pc' = [pc EXCEPT ![p] = w] /\ pc[p] = "idle"
      /\ UNCHANGED <<rows, active, nextId, texture, files, holder>>
  BY DEF Start, Keep, Continue, Goto, store
<1> HIDE DEF r
<1>4. EntryOf(w, r)
  BY <1>1, <1>2 DEF EntryOf
<1> QED BY <1>1, <1>3, <1>4 DEF Begun

LEMMA BeginBegun == ASSUME TypeOK, NEW p \in Requests, Begin(p) PROVE Begun(p)
<1>1. /\ \A op \in {"upload", "activate", "delete", "putTexture", "dropTexture"} : op \in Operations
      /\ \A w \in {"uploadLock", "activateLock", "deleteLock", "textureLock"} : w \in Entry
      /\ 0 \in Nat /\ Blank.image \in Images
  BY BlankType DEF Operations, Entry, Request
<1>2. CASE StartUpload(p)
  <2>1. PICK o \in Owners, k \in ContentKinds, i \in Images :
          Start(p, "upload", o, k, i, 0, "uploadLock")
    BY <1>2, ContentAssumption DEF StartUpload
  <2> QED BY <1>1, <2>1, StartBegun
<1>3. CASE StartActivate(p)
  <2>1. PICK r \in rows : r.kind = "skin" /\
          Start(p, "activate", r.owner, r.kind, r.image, r.id, "activateLock")
    BY <1>3 DEF StartActivate
  <2> QED BY <1>1, <2>1, RowTypes, StartBegun
<1>4. CASE StartDelete(p)
  <2>1. PICK r \in rows : Start(p, "delete", r.owner, r.kind, r.image, r.id, "deleteLock")
    BY <1>4 DEF StartDelete
  <2> QED BY <1>1, <2>1, RowTypes, StartBegun
<1>5. CASE StartPutTexture(p)
  <2>1. PICK o \in Owners, t \in PutKinds, i \in Images :
          Start(p, "putTexture", o, t, i, 0, "textureLock")
    BY <1>5 DEF StartPutTexture
  <2>2. t \in ContentKinds
    BY ContentAssumption DEF TextureKinds, ContentKinds
  <2> QED BY <1>1, <2>1, <2>2, StartBegun
<1>6. CASE StartDropTexture(p)
  <2>1. PICK o \in Owners, t \in TextureKinds :
          Start(p, "dropTexture", o, t, Blank.image, 0, "textureLock")
    BY <1>6 DEF StartDropTexture
  <2>2. t \in ContentKinds
    BY DEF TextureKinds, ContentKinds
  <2> QED BY <1>1, <2>1, <2>2, StartBegun
<1> QED BY <1>2, <1>3, <1>4, <1>5, <1>6 DEF Begin

\* The profiles only show URLs of the directory of the kind.
LEMMA StepDirectories ==
  ASSUME TypeOK, FilesGuarded, NEW p \in Requests, Step(p)
  PROVE  ProfileDirectories'
<1>1. ASSUME NEW o \in Owners, NEW t \in ContentKinds, NEW u \in MaybeUrl, OfKind(t, u),
             Show(o, t, u)
      PROVE  ProfileDirectories'
  <2>1. ASSUME NEW n \in Owners, NEW s \in TextureKinds PROVE OfKind(s, texture'[n][s])
    <3>1. texture'[n][s] = texture[n][s] \/ (n = o /\ s = t /\ texture'[n][s] = u)
      BY <1>1 DEF Show, TypeOK
    <3> QED BY <1>1, <3>1 DEF FilesGuarded, ProfileDirectories
  <2> QED BY <2>1 DEF ProfileDirectories, OfKind
<1>2. UNCHANGED texture => ProfileDirectories'
  BY DEF FilesGuarded, ProfileDirectories, OfKind
<1>3. Guarded(p) /\ OwnUrl(p) \in MaybeUrl /\ req[p].owner \in Owners /\ req[p].kind \in ContentKinds
      /\ "cape" \in ContentKinds /\ "skin" \in ContentKinds /\ OfKind(req[p].kind, OwnUrl(p))
  BY LocalTypes DEF FilesGuarded, Guarded, MaybeUrl, ContentKinds, OfKind, OwnUrl, ContentUrl
<1>4. CASE SyncUpload(p)
  <2>1. req[p].kind = "cape"
    BY <1>3, <1>4 DEF SyncUpload, Guarded, UploadsOwnRow
  <2> QED BY <1>1, <1>2, <1>3, <1>4, <2>1 DEF SyncUpload
<1>5. CASE SyncActivate(p)
  <2>1. req[p].kind = "skin"
    BY <1>3, <1>5 DEF SyncActivate, Guarded, KindDirectories
  <2> QED BY <1>1, <1>2, <1>3, <1>5, <2>1 DEF SyncActivate
<1>6. CASE SyncDelete(p)
  <2>1. OfKind(req[p].kind, req[p].sync) /\ req[p].sync \in MaybeUrl
    BY <1>3, <1>6, LocalTypes DEF SyncDelete, Guarded, KindDirectories, OwnFileSteps
  <2> QED BY <1>1, <1>2, <1>3, <1>6, <2>1 DEF SyncDelete
<1>7. CASE UpdateTexture(p)
  <2>1. OfKind(req[p].kind, NewUrl(p)) /\ NewUrl(p) \in MaybeUrl
    BY <1>3, <1>7, LocalTypes
    DEF UpdateTexture, Guarded, KindDirectories, TextureSteps, NewUrl, TargetUrl, OfKind,
        Directory, MaybeUrl
  <2> QED BY <1>1, <1>2, <1>3, <1>7, <2>1 DEF UpdateTexture
<1>8. CASE RollbackTexture(p)
  <2>1. OfKind(req[p].kind, req[p].prev) /\ req[p].prev \in MaybeUrl
    BY <1>3, <1>8, LocalTypes, SMTT(40) DEF RollbackTexture, Guarded, KindDirectories, TextureSteps
  <2> QED BY <1>1, <1>2, <1>3, <1>8, <2>1 DEF RollbackTexture
<1>9. CASE LockOwnFile(p) \/ LockActive(p) \/ PickLatest(p) \/ CountRefs(p)
           \/ LockTexture(p) \/ ReadTexture(p) \/ LockFile(p) \/ CountRows(p)
  BY <1>2, <1>9 DEF LockOwnFile, LockActive, PickLatest, CountRefs, LockTexture, ReadTexture,
                    LockFile, CountRows
<1>10. CASE SaveWithinLimit(p) \/ WriteUpload(p) \/ RemoveRow(p) \/ ActivateLatest(p)
            \/ Unlink(p) \/ Activate(p) \/ RestoreActive(p) \/ WriteTexture(p)
  BY <1>2, <1>10
  DEF SaveWithinLimit, WriteUpload, RemoveRow, ActivateLatest, Unlink, Activate,
      RestoreActive, WriteTexture
<1> QED
  BY <1>4, <1>5, <1>6, <1>7, <1>8, <1>9, <1>10 DEF Step

LEMMA StepKeyed ==
  ASSUME TypeOK, RowsKeyed, NEW p \in Requests, Tables(p), TypeOK'
  PROVE  RowsKeyed'
<1>1. ASSUME NEW r \in rows' PROVE r.id < nextId'[r.kind]
  <2>1. r.id \in Nat /\ r.kind \in ContentKinds
    BY DEF TypeOK, Row
  <2> QED BY <2>1 DEF Tables, RowsKeyed
<1>2. ASSUME NEW r \in rows', NEW s \in rows', r.kind = s.kind, r.id = s.id PROVE r = s
  <2>1. r.id \in Nat /\ r.kind \in ContentKinds
    BY DEF TypeOK, Row
  <2>2. CASE r \in rows /\ s \in rows
    BY <1>2, <2>2 DEF RowsKeyed
  <2>3. CASE ~(r \in rows /\ s \in rows)
    BY <1>2, <2>1, <2>3 DEF Tables, RowsKeyed
  <2> QED BY <2>2, <2>3
<1> QED BY <1>1, <1>2 DEF RowsKeyed

LEMMA StepGuarded ==
  ASSUME TypeOK, FilesGuarded, NEW p \in Requests, Step(p)
  PROVE  FilesGuarded'
<1>1. Moves(p) /\ Tables(p) /\ TypeOK' /\ RowsKeyed /\ Lock!Exclusive
  BY StepMoves, StepTables, StepType DEF FilesGuarded
<1>2. Guarded(p)'
  BY <1>1, UploadGuarded, DeleteGuarded, ActivateGuarded, TextureGuarded DEF Step
<1>3. \A q \in Requests : Guarded(q)'
  BY <1>1, <1>2, OthersGuarded
<1>4. RowsKeyed' /\ Lock!Exclusive'
  BY <1>1, StepKeyed, ExclusiveStays
<1> QED BY <1>3, <1>4, StepDirectories DEF FilesGuarded, Guarded

LEMMA BeginGuarded ==
  ASSUME PutKinds \subseteq {"skin"}, TypeOK, FilesGuarded, NEW p \in Requests, Begin(p)
  PROVE  FilesGuarded'
<1>1. /\ UNCHANGED <<rows, active, nextId, texture, files, holder>> /\ pc[p] = "idle"
  BY BeginBegun DEF Begun
<1>2. PICK w \in Entry, r \in Request : /\ pc' = [pc EXCEPT ![p] = w]
                                        /\ req' = [req EXCEPT ![p] = r]
                                        /\ EntryOf(w, r)
  BY BeginBegun DEF Begun
<1>3. pc'[p] = w /\ req'[p] = r
  BY <1>2 DEF TypeOK
<1>4. Guarded(p)'
  <2>1. OwnUrl(p)' = ContentUrl(r.kind, r.owner, r.image)
    BY <1>3 DEF OwnUrl
  <2> QED BY <1>2, <1>3, <2>1
          DEF Guarded, HoldsLocks, NoRowAtDrop, UploadsOwnRow, KindDirectories, OwnFileSteps,
              CountedSteps, UploadSteps, TextureSteps, Entry, EntryOf, OfKind
<1>5. ASSUME NEW q \in Requests, q # p PROVE Guarded(q)'
  <2>1. pc'[q] = pc[q] /\ req'[q] = req[q]
    BY <1>2, <1>5 DEF TypeOK
  <2>2. OwnUrl(q)' = OwnUrl(q) /\ NewUrl(q)' = NewUrl(q) /\ \A u : Holds(q, u)' = Holds(q, u)
    BY <1>1, <2>1 DEF OwnUrl, NewUrl, TargetUrl, ContentUrl, Holds
  <2>3. HoldsLocks(q) /\ NoRowAtDrop(q) /\ UploadsOwnRow(q) /\ KindDirectories(q)
    BY DEF FilesGuarded
  <2>4. HoldsLocks(q)'
    BY <1>1, <2>1, <2>2, <2>3 DEF HoldsLocks, NeededFiles, Holds
  <2>5. NoRowAtDrop(q)' /\ KindDirectories(q)'
    BY <1>1, <2>1, <2>3 DEF NoRowAtDrop, KindDirectories, OfKind
  <2>6. UploadsOwnRow(q)'
    BY <1>1, <2>1, <2>2, <2>3 DEF UploadsOwnRow
  <2> QED BY <2>4, <2>5, <2>6 DEF Guarded
<1> QED BY <1>1, <1>4, <1>5
        DEF FilesGuarded, Guarded, RowsKeyed, ProfileDirectories, OfKind, Lock!Exclusive

LEMMA UploadStep ==
  ASSUME NEW p \in Requests, Step(p), pc[p] \in UploadSteps
  PROVE  WriteUpload(p) \/ SyncUpload(p) \/ RemoveRow(p)
<1> USE DEF UploadSteps
<1>1. ~LockOwnFile(p) /\ ~LockActive(p) /\ ~SaveWithinLimit(p) /\ ~PickLatest(p)
      /\ ~ActivateLatest(p) /\ ~SyncDelete(p) /\ ~CountRefs(p) /\ ~Unlink(p)
  BY DEF LockOwnFile, LockActive, SaveWithinLimit, PickLatest, ActivateLatest, SyncDelete,
         CountRefs, Unlink
<1>2. ~Activate(p) /\ ~SyncActivate(p) /\ ~RestoreActive(p) /\ ~LockTexture(p)
      /\ ~ReadTexture(p) /\ ~LockFile(p) /\ ~UpdateTexture(p) /\ ~WriteTexture(p)
      /\ ~RollbackTexture(p) /\ ~CountRows(p)
  BY DEF Activate, SyncActivate, RestoreActive, LockTexture, ReadTexture, LockFile,
         UpdateTexture, WriteTexture, RollbackTexture, CountRows
<1> QED BY <1>1, <1>2 DEF Step

\* An upload that stops being on its way leaves its row with the file, or
\* takes the row back.
LEMMA UploadEnds ==
  ASSUME TypeOK, FilesGuarded, NEW p \in Requests, Step(p), pc[p] \in UploadSteps,
         NEW r \in rows, r \in rows', r.kind = req[p].kind, r.id = req[p].id
  PROVE  \/ pc'[p] \in UploadSteps /\ req'[p] = req[p]
         \/ RowUrl(r) \in files'
<1>1. RowUrl(r) = OwnUrl(p) /\ (pc[p] = "uploadSync" => OwnUrl(p) \in files)
  BY DEF FilesGuarded, UploadsOwnRow
<1>2. "uploadSync" \in Pcs /\ "rollbackDelete" \in Pcs
  BY DEF Pcs
<1>3. CASE WriteUpload(p)
  <2>1. UNCHANGED req /\ (OwnUrl(p) \in files' \/ pc'[p] = "rollbackDelete")
    BY <1>2, <1>3, Arrives DEF WriteUpload, Continue
  <2> QED BY <1>1, <2>1 DEF UploadSteps
<1>4. CASE SyncUpload(p)
  <2>1. UNCHANGED <<req, files>> /\ pc[p] = "uploadSync"
    BY <1>4 DEF SyncUpload
  <2> QED BY <1>1, <2>1
<1>5. CASE RemoveRow(p)
  BY <1>5 DEF RemoveRow
<1> QED BY <1>3, <1>4, <1>5, UploadStep

LEMMA StepRowHasFile ==
  ASSUME TypeOK, FilesGuarded, RowHasFile, NEW p \in Requests, Step(p)
  PROVE  RowHasFile'
<1>1. Moves(p) /\ Tables(p)
  BY StepMoves, StepTables
<1> SUFFICES ASSUME NEW r \in rows' PROVE BeingWritten(r)' \/ RowUrl(r) \in files'
  BY DEF RowHasFile
<1>2. CASE r \notin rows
  <2>1. r.kind = req[p].kind /\ req'[p].id = r.id /\ pc'[p] = "uploadWrite"
    BY <1>1, <1>2 DEF Tables
  <2> QED BY <1>1, <2>1, ArgumentsStay DEF BeingWritten
<1>3. CASE r \in rows /\ RowUrl(r) \in files
  <2>1. ~(pc[p] = "unlink" /\ RowUrl(r) = req[p].drop)
    BY <1>3 DEF FilesGuarded, NoRowAtDrop
  <2> QED BY <1>1, <1>3, <2>1 DEF Tables
<1>4. CASE r \in rows /\ BeingWritten(r)
  <2>1. PICK q \in Requests : /\ pc[q] \in UploadSteps
                              /\ req[q].kind = r.kind /\ req[q].id = r.id
    BY <1>4 DEF BeingWritten, UploadSteps
  <2>2. CASE q # p
    BY <1>1, <2>1, <2>2, OthersStay DEF BeingWritten, UploadSteps
  <2>3. CASE q = p
    BY <1>4, <2>1, <2>3, UploadEnds DEF BeingWritten, UploadSteps
  <2> QED BY <2>2, <2>3
<1> QED BY <1>2, <1>3, <1>4 DEF RowHasFile

LEMMA BeginRowHasFile ==
  ASSUME TypeOK, RowHasFile, NEW p \in Requests, Begin(p)
  PROVE  RowHasFile'
<1>1. UNCHANGED <<rows, files>> /\ pc[p] = "idle"
      /\ \A q \in Requests \ {p} : pc'[q] = pc[q] /\ req'[q] = req[q]
  BY BeginBegun DEF Begun, TypeOK
<1>2. \A r \in rows : BeingWritten(r) => BeingWritten(r)'
  BY <1>1 DEF BeingWritten
<1> QED BY <1>1, <1>2 DEF RowHasFile

LEMMA InitGuarded == Init => FilesGuarded /\ RowHasFile
<1> SUFFICES ASSUME Init PROVE FilesGuarded /\ RowHasFile
  OBVIOUS
<1>1. rows = {} /\ \A p \in Requests : pc[p] = "idle"
  BY DEF Init
<1>2. Lock!Exclusive /\ ProfileDirectories
  BY DEF Init, Lock!Init, Lock!Exclusive, ProfileDirectories, OfKind
<1> QED BY <1>1, <1>2 DEF FilesGuarded, RowsKeyed, HoldsLocks, NoRowAtDrop, UploadsOwnRow,
      KindDirectories, OwnFileSteps, CountedSteps, UploadSteps, TextureSteps, RowHasFile

\* A file is kept while a row of the content store refers to it, whatever the
\* requests, their order and the failures of the disk and of the profile store
\* are, as long as the Yggdrasil protocol takes skins only.  (releaseContentFile
\* and the path locks of the content service)
THEOREM SpecRowHasFile ==
  ASSUME PutKinds \subseteq {"skin"}
  PROVE  Spec => [](RowHasFile /\ FilesGuarded)
<1> DEFINE IInv == TypeOK /\ FilesGuarded /\ RowHasFile
<1>1. Init => IInv
  BY InitTypeOK, InitGuarded
<1>2. IInv /\ [Next]_vars => IInv'
  <2> SUFFICES ASSUME IInv, [Next]_vars PROVE IInv'
    OBVIOUS
  <2>1. CASE UNCHANGED vars
    BY <2>1
    DEF vars, TypeOK, FilesGuarded, Lock!Exclusive, RowsKeyed, ProfileDirectories, OfKind,
        HoldsLocks, NoRowAtDrop, UploadsOwnRow, KindDirectories, RowHasFile, BeingWritten,
        Holds, OwnUrl, NeededFiles, NewUrl, TargetUrl
  <2>2. ASSUME NEW p \in Requests, Begin(p) PROVE IInv'
    BY <2>2, BeginType, BeginGuarded, BeginRowHasFile
  <2>3. ASSUME NEW p \in Requests, Step(p) PROVE IInv'
    BY <2>3, StepType, StepGuarded, StepRowHasFile
  <2> QED BY <2>1, <2>2, <2>3 DEF Next
<1> HIDE DEF IInv
<1>3. IInv => RowHasFile /\ FilesGuarded
  BY DEF IInv
<1> QED BY <1>1, <1>2, <1>3, PTL DEF Spec

-----------------------------------------------------------------------------
(***************************************************************************)
(* The limit per user.                                                     *)
(***************************************************************************)
LEMMA FewerRows ==
  ASSUME IsFiniteSet(rows), WithinLimit, TypeOK, IsFiniteSet(rows'),
         rows' \subseteq rows
  PROVE  WithinLimit'
<1> SUFFICES ASSUME NEW o \in Owners, NEW k \in ContentKinds
             PROVE  Cardinality(RowsOf(o, k)') <= MaxPerUser
  BY DEF WithinLimit
<1>1. RowsOf(o, k)' \subseteq RowsOf(o, k) /\ RowsOf(o, k) \subseteq rows
  BY DEF RowsOf
<1>2. IsFiniteSet(RowsOf(o, k)) /\ IsFiniteSet(RowsOf(o, k)')
  BY <1>1, FS_Subset
<1>3. Cardinality(RowsOf(o, k)') <= Cardinality(RowsOf(o, k))
      /\ Cardinality(RowsOf(o, k)') \in Nat /\ Cardinality(RowsOf(o, k)) \in Nat
  BY <1>1, <1>2, FS_Subset, FS_CardinalityType
<1>4. Cardinality(RowsOf(o, k)) <= MaxPerUser
  BY DEF WithinLimit
<1> QED BY <1>3, <1>4, ContentAssumption

LEMMA SaveLimit ==
  ASSUME TypeOK, IsFiniteSet(rows), WithinLimit, NEW p \in Requests, SaveWithinLimit(p)
  PROVE  IsFiniteSet(rows') /\ WithinLimit'
<1> DEFINE new == [kind |-> req[p].kind, id |-> nextId[req[p].kind],
                   owner |-> req[p].owner, image |-> req[p].image]
<1>1. CASE rows' = rows
  BY <1>1, FewerRows
<1>2. CASE rows' # rows
  <2>1. rows' = rows \cup {new} /\ Cardinality(RowsOf(req[p].owner, req[p].kind)) < MaxPerUser
    BY <1>2 DEF SaveWithinLimit
  <2>2. IsFiniteSet(rows')
    BY <2>1, FS_AddElement
  <2> SUFFICES ASSUME NEW o \in Owners, NEW k \in ContentKinds
               PROVE  Cardinality(RowsOf(o, k)') <= MaxPerUser
    BY <2>2 DEF WithinLimit
  <2>3. IsFiniteSet(RowsOf(o, k)) /\ Cardinality(RowsOf(o, k)) \in Nat
    <3>1. RowsOf(o, k) \subseteq rows
      BY DEF RowsOf
    <3> QED BY <3>1, FS_Subset, FS_CardinalityType
  <2>4. CASE o = req[p].owner /\ k = req[p].kind
    <3>1. RowsOf(o, k)' = RowsOf(o, k) \cup {new}
      BY <2>1, <2>4 DEF RowsOf
    <3>2. Cardinality(RowsOf(o, k)') <= Cardinality(RowsOf(o, k)) + 1
          /\ Cardinality(RowsOf(o, k)') \in Nat
      <4> HIDE DEF new
      <4>1. \/ Cardinality(RowsOf(o, k) \cup {new}) = Cardinality(RowsOf(o, k))
            \/ Cardinality(RowsOf(o, k) \cup {new}) = Cardinality(RowsOf(o, k)) + 1
        BY <2>3, FS_AddElement
      <4> QED BY <2>3, <3>1, <4>1
    <3> QED BY <2>1, <2>3, <2>4, <3>2, ContentAssumption
  <2>5. CASE ~(o = req[p].owner /\ k = req[p].kind)
    <3>1. RowsOf(o, k)' = RowsOf(o, k)
      BY <2>1, <2>5 DEF RowsOf
    <3> QED BY <3>1 DEF WithinLimit
  <2> QED BY <2>4, <2>5
<1> QED BY <1>1, <1>2

LEMMA StepRows ==
  ASSUME NEW p \in Requests, Step(p), ~SaveWithinLimit(p)
  PROVE  rows' \subseteq rows
<1> USE DEF store
<1>1. CASE RemoveRow(p)
  BY <1>1 DEF RemoveRow
<1>2. CASE LockOwnFile(p) \/ LockActive(p) \/ PickLatest(p) \/ CountRefs(p)
           \/ LockTexture(p) \/ ReadTexture(p) \/ LockFile(p) \/ CountRows(p)
  BY <1>2 DEF LockOwnFile, LockActive, PickLatest, CountRefs, LockTexture, ReadTexture,
              LockFile, CountRows
<1>3. CASE SyncUpload(p) \/ ActivateLatest(p) \/ SyncDelete(p) \/ Activate(p)
           \/ SyncActivate(p) \/ RestoreActive(p) \/ UpdateTexture(p) \/ RollbackTexture(p)
  BY <1>3 DEF SyncUpload, ActivateLatest, SyncDelete, Activate, SyncActivate,
              RestoreActive, UpdateTexture, RollbackTexture
<1>4. CASE WriteUpload(p) \/ Unlink(p) \/ WriteTexture(p)
  BY <1>4 DEF WriteUpload, Unlink, WriteTexture
<1> QED BY <1>1, <1>2, <1>3, <1>4 DEF Step

\* Whatever the number of parallel uploads and whatever fails: no user has more
\* rows of a kind than the limit.  (saveWithinLimit)
THEOREM SpecWithinLimit == Spec => []WithinLimit
<1> DEFINE IInv == TypeOK /\ IsFiniteSet(rows) /\ WithinLimit
<1>1. Init => IInv
  <2> SUFFICES ASSUME Init PROVE IInv
    OBVIOUS
  <2>1. rows = {} /\ IsFiniteSet(rows)
    BY FS_EmptySet DEF Init
  <2>2. \A o \in Owners, k \in ContentKinds : RowsOf(o, k) = {}
    BY <2>1 DEF RowsOf
  <2> QED BY <2>1, <2>2, InitTypeOK, FS_EmptySet, ContentAssumption DEF WithinLimit
<1>2. IInv /\ [Next]_vars => IInv'
  <2> SUFFICES ASSUME IInv, [Next]_vars PROVE IInv'
    OBVIOUS
  <2>1. TypeOK' /\ (UNCHANGED vars \/ \E p \in Requests : Begin(p) \/ Step(p))
    BY BeginType, StepType DEF Next, vars, TypeOK
  <2>2. ASSUME rows' \subseteq rows PROVE IInv'
    BY <2>1, <2>2, FewerRows, FS_Subset
  <2>3. CASE UNCHANGED vars
    BY <2>2, <2>3 DEF vars
  <2>4. ASSUME NEW p \in Requests, Begin(p) PROVE IInv'
    BY <2>2, <2>4, BeginBegun DEF Begun
  <2>5. ASSUME NEW p \in Requests, Step(p) PROVE IInv'
    <3>1. CASE SaveWithinLimit(p)
      BY <2>1, <3>1, SaveLimit
    <3>2. CASE ~SaveWithinLimit(p)
      BY <2>2, <2>5, <3>2, StepRows
    <3> QED BY <3>1, <3>2
  <2> QED BY <2>1, <2>3, <2>4, <2>5
<1> HIDE DEF IInv
<1>3. IInv => WithinLimit
  BY DEF IInv
<1> QED BY <1>1, <1>2, <1>3, PTL DEF Spec

-----------------------------------------------------------------------------
(***************************************************************************)
(* The skin a profile shows, when writing a file does not fail and no cape *)
(* comes in through the Yggdrasil protocol.  The lock of the active skin   *)
(* of a user keeps the row that a request is about to show: every delete   *)
(* of a skin takes it, and an upload is only taken back when a write       *)
(* failed.  What a request at a certain point can rely on is Relies; the   *)
(* profiles, the active flags and the files follow from it.                *)
(***************************************************************************)
ActivateSteps == {"activate", "activateSync", "activateRestore"}
SkinDeleteSteps == {"deleteRow", "deletePick", "deleteActivate", "deleteSync"}

HasActive(p, o) == p \in holder[ActiveKey(o)]
HoldsActive(p) ==
  pc[p] \in ActivateSteps \/ (pc[p] \in SkinDeleteSteps /\ req[p].kind = "skin")
    => HasActive(p, req[p].owner)

\* The row of an activation or a delete, while it is there, is of its image.
OwnRowSteps == {"activateLock", "deleteLock", "deleteLockActive"} \cup ActivateSteps
                 \cup SkinDeleteSteps
IsOwnRow(p) ==
  /\ req[p].id < nextId[req[p].kind]
  /\ \A r \in rows : r.kind = req[p].kind /\ r.id = req[p].id => RowUrl(r) = OwnUrl(p)
NamesOwnRow(p) == pc[p] \in OwnRowSteps => IsOwnRow(p)

\* Row n of o is a skin, at u.
SkinAt(o, n, u) == \E r \in rows : /\ r.kind = "skin" /\ r.owner = o /\ r.id = n
                                   /\ RowUrl(r) = u
RowAt(u) == \E r \in rows : RowUrl(r) = u

\* The rows a request goes by are there.
RowsStand(p) ==
  /\ pc[p] \in {"activateSync", "activateRestore"} =>
       SkinAt(req[p].owner, req[p].id, OwnUrl(p))
  /\ pc[p] = "deleteActivate" =>
       req[p].kind = "skin" /\ SkinAt(req[p].owner, req[p].pick, req[p].sync)
  /\ pc[p] = "deleteSync" /\ req[p].kind = "skin" /\ req[p].sync # NoUrl =>
       SkinAt(req[p].owner, req[p].pick, req[p].sync)
  /\ pc[p] = "uploadWrite" => RowAt(OwnUrl(p))
  /\ pc[p] \in CountedSteps /\ req[p].used => RowAt(req[p].drop)

\* Only a cape is taken back, and no texture.
NothingTakenBack(p) ==
  pc[p] # "textureRollback" /\ (pc[p] = "rollbackDelete" => req[p].kind = "cape")

\* A delete has picked no row before it looks for one.
NothingPicked(p) ==
  pc[p] \in {"deleteLock", "deleteLockActive", "deleteRow", "deletePick"}
    => req[p].sync = NoUrl

\* Who has not come is none of the protocol, and only the protocol is in its
\* handlers.
OpFits(p) == /\ pc[p] = "idle" => req[p].op = "upload"
             /\ pc[p] \in TextureSteps => req[p].op \in {"putTexture", "dropTexture"}

Relies(p) == HoldsActive(p) /\ NamesOwnRow(p) /\ RowsStand(p) /\ NothingTakenBack(p)
             /\ NothingPicked(p) /\ OpFits(p)

Reliable == \A p \in Requests : Relies(p)

\* What a new request has found out.
Found(p) ==
  /\ req'[p].sync = NoUrl /\ pc'[p] \in Entry
  /\ req'[p].kind \in Kinds \cup PutKinds \cup {r.kind : r \in rows}
  /\ pc'[p] \in {"activateLock", "deleteLock"} => IsOwnRow(p)'
  /\ pc'[p] = "textureLock" => req'[p].op \in {"putTexture", "dropTexture"}

LEMMA StartFound ==
  ASSUME TypeOK, NEW p \in Requests, NEW op \in Operations, NEW o \in Owners,
         NEW k \in ContentKinds, NEW i \in Images, NEW n \in Nat, NEW w \in Entry,
         k \in Kinds \cup PutKinds \cup {r.kind : r \in rows},
         w \in {"activateLock", "deleteLock"} =>
           /\ n < nextId[k]
           /\ \A r \in rows : r.kind = k /\ r.id = n => RowUrl(r) = ContentUrl(k, o, i),
         w = "textureLock" => op \in {"putTexture", "dropTexture"},
         Start(p, op, o, k, i, n, w)
  PROVE  Found(p)
<1> DEFINE r == [Blank EXCEPT !.op = op, !.owner = o, !.kind = k, !.image = i, !.id = n,
                   !.drop = IF w = "textureLock" THEN NoUrl ELSE ContentUrl(k, o, i)]
<1>1. r.op = op /\ r.owner = o /\ r.kind = k /\ r.image = i /\ r.sync = NoUrl /\ r.id = n
  BY BlankType DEF Request, Blank
<1>2. /\ req' = [req EXCEPT ![p] = r] /\ pc' = [pc EXCEPT ![p] = w]
      /\ UNCHANGED <<rows, nextId>>
  BY DEF Start, Keep, Continue, Goto, store
<1>3. req'[p] = r /\ pc'[p] = w
  BY <1>2 DEF TypeOK
<1> HIDE DEF r
<1>4. OwnUrl(p)' = ContentUrl(k, o, i)
  BY <1>1, <1>3 DEF OwnUrl
<1> QED BY <1>1, <1>2, <1>3, <1>4 DEF Found, IsOwnRow

LEMMA BeginFound == ASSUME TypeOK, RowsKeyed, NEW p \in Requests, Begin(p) PROVE Found(p)
<1>1. /\ \A op \in {"upload", "activate", "delete", "putTexture", "dropTexture"} : op \in Operations
      /\ \A w \in {"uploadLock", "activateLock", "deleteLock", "textureLock"} : w \in Entry
      /\ 0 \in Nat /\ Blank.image \in Images
  BY BlankType DEF Operations, Entry, Request
<1>2. ASSUME NEW r \in rows
      PROVE  /\ r.id < nextId[r.kind]
             /\ \A s \in rows : s.kind = r.kind /\ s.id = r.id
                  => RowUrl(s) = ContentUrl(r.kind, r.owner, r.image)
  BY DEF RowsKeyed, RowUrl
<1>3. CASE StartUpload(p)
  <2>1. PICK o \in Owners, k \in Kinds, i \in Images :
          Start(p, "upload", o, k, i, 0, "uploadLock")
    BY <1>3 DEF StartUpload
  <2> QED BY <1>1, <2>1, StartFound, ContentAssumption
<1>4. CASE StartActivate(p)
  <2>1. PICK r \in rows : r.kind = "skin" /\
          Start(p, "activate", r.owner, r.kind, r.image, r.id, "activateLock")
    BY <1>4 DEF StartActivate
  <2> QED BY <1>1, <1>2, <2>1, RowTypes, StartFound
<1>5. CASE StartDelete(p)
  <2>1. PICK r \in rows : Start(p, "delete", r.owner, r.kind, r.image, r.id, "deleteLock")
    BY <1>5 DEF StartDelete
  <2> QED BY <1>1, <1>2, <2>1, RowTypes, StartFound
<1>6. CASE StartPutTexture(p)
  <2>1. PICK o \in Owners, t \in PutKinds, i \in Images :
          Start(p, "putTexture", o, t, i, 0, "textureLock")
    BY <1>6 DEF StartPutTexture
  <2>2. t \in ContentKinds
    BY ContentAssumption DEF TextureKinds, ContentKinds
  <2> QED BY <1>1, <2>1, <2>2, StartFound
<1>7. CASE StartDropTexture(p)
  <2>1. PICK o \in Owners, t \in TextureKinds \cap Kinds :
          Start(p, "dropTexture", o, t, Blank.image, 0, "textureLock")
    BY <1>7 DEF StartDropTexture
  <2>2. t \in ContentKinds
    BY DEF TextureKinds, ContentKinds
  <2> QED BY <1>1, <2>1, <2>2, StartFound
<1> QED BY <1>3, <1>4, <1>5, <1>6, <1>7 DEF Begin

LEMMA BeginReliable ==
  ASSUME TypeOK, RowsKeyed, Reliable, NEW p \in Requests, Begin(p)
  PROVE  Reliable'
<1>1. UNCHANGED <<rows, nextId, holder>> /\ Found(p)
  BY BeginBegun, BeginFound DEF Begun
<1>2. Relies(p)'
  BY <1>1
  DEF Found, Entry, Relies, HoldsActive, NamesOwnRow, RowsStand, NothingTakenBack,
      NothingPicked, OpFits, OwnRowSteps, ActivateSteps, SkinDeleteSteps, CountedSteps,
      TextureSteps
<1>3. ASSUME NEW q \in Requests, q # p PROVE Relies(q)'
  <2>1. pc'[q] = pc[q] /\ req'[q] = req[q]
    BY <1>3, BeginBegun DEF Begun, TypeOK
  <2>2. OwnUrl(q)' = OwnUrl(q)
    BY <2>1 DEF OwnUrl
  <2> QED BY <1>1, <2>1, <2>2
          DEF Reliable, Relies, HoldsActive, HasActive, NamesOwnRow, IsOwnRow, RowsStand,
              SkinAt, RowAt, NothingTakenBack, NothingPicked, OpFits
<1> QED BY <1>2, <1>3 DEF Reliable

\* Only the delete of a row takes it, inside the locks of its file and, for a
\* skin, of the active skin of its owner.
Takes(p, r) ==
  /\ pc[p] \in {"deleteRow", "rollbackDelete"} /\ r.kind = req[p].kind /\ r.id = req[p].id
  /\ RowUrl(r) = OwnUrl(p) /\ r.owner = req[p].owner /\ Holds(p, OwnUrl(p))
  /\ r.kind = "skin" => pc[p] = "deleteRow" /\ HasActive(p, r.owner)

LEMMA StepTakes ==
  ASSUME FilesGuarded, NEW p \in Requests, Relies(p), Step(p), NEW r \in rows, r \notin rows'
  PROVE  RemoveRow(p) /\ Takes(p, r)
<1>1. RemoveRow(p)
  BY StepRows DEF SaveWithinLimit, Step, LockOwnFile, LockActive, WriteUpload, SyncUpload,
     PickLatest, ActivateLatest, SyncDelete, CountRefs, Unlink, Activate, SyncActivate,
     RestoreActive, LockTexture, ReadTexture, LockFile, UpdateTexture, WriteTexture,
     RollbackTexture, CountRows, store
<1>2. pc[p] \in {"deleteRow", "rollbackDelete"} /\ r.kind = req[p].kind /\ r.id = req[p].id
  BY <1>1 DEF RemoveRow
<1>3. RowUrl(r) = OwnUrl(p)
  <2>1. UploadsOwnRow(p)
    BY DEF FilesGuarded
  <2> QED BY <1>2, <2>1
          DEF UploadsOwnRow, UploadSteps, Relies, NamesOwnRow, IsOwnRow, OwnRowSteps,
              SkinDeleteSteps
<1>4. r.owner = req[p].owner
  BY <1>3 DEF RowUrl, OwnUrl, ContentUrl
<1>5. Holds(p, OwnUrl(p))
  BY <1>2 DEF FilesGuarded, HoldsLocks, OwnFileSteps
<1>6. r.kind = "skin" => pc[p] = "deleteRow" /\ HasActive(p, r.owner)
  BY <1>2, <1>4 DEF Relies, NothingTakenBack, HoldsActive, SkinDeleteSteps
<1> QED BY <1>1, <1>2, <1>3, <1>4, <1>5, <1>6, SMTT(40) DEF Takes

LEMMA ActiveStays ==
  ASSUME TypeOK, NEW p \in Requests, Moves(p), NEW q \in Requests, q # p, NEW o \in Owners,
         HasActive(q, o)
  PROVE  HasActive(q, o)'
<1>1. ActiveKey(o) \in LockKeys
  BY KeyType
<1> QED BY <1>1 DEF Moves, HasActive, TypeOK, Lock!ReleaseAll, Lock!Acquire

LEMMA ActiveByOne ==
  ASSUME Lock!Exclusive, NEW p \in Requests, NEW q \in Requests, NEW o \in Owners,
         HasActive(p, o), HasActive(q, o)
  PROVE  p = q
BY KeyType DEF Lock!Exclusive, HasActive

\* A row that another request goes by is not taken from it.
LEMMA RowsStay ==
  ASSUME TypeOK, FilesGuarded, NEW p \in Requests, Relies(p), Step(p),
         NEW q \in Requests, q # p
  PROVE  /\ \A o \in Owners, n \in Nat : \A u :
              HasActive(q, o) /\ SkinAt(o, n, u) => SkinAt(o, n, u)'
         /\ \A u \in Urls : Holds(q, u) /\ RowAt(u) => RowAt(u)'
<1>1. Lock!Exclusive
  BY DEF FilesGuarded
<1>2. ASSUME NEW o \in Owners, NEW n \in Nat, NEW u, HasActive(q, o),
             SkinAt(o, n, u)
      PROVE  SkinAt(o, n, u)'
  <2>1. PICK r \in rows : r.kind = "skin" /\ r.owner = o /\ r.id = n /\ RowUrl(r) = u
    BY <1>2 DEF SkinAt
  <2>2. r \in rows'
    BY <1>1, <1>2, <2>1, StepTakes, ActiveByOne DEF Takes
  <2> QED BY <2>1, <2>2 DEF SkinAt
<1>3. ASSUME NEW u \in Urls, Holds(q, u), RowAt(u) PROVE RowAt(u)'
  <2>1. PICK r \in rows : RowUrl(r) = u
    BY <1>3 DEF RowAt
  <2>2. r \in rows'
    BY <1>1, <1>3, <2>1, StepTakes, HeldByOne DEF Takes
  <2> QED BY <2>1, <2>2 DEF RowAt
<1> QED BY <1>2, <1>3

LEMMA SkinUrl ==
  ASSUME TypeOK, NEW o, NEW n, NEW u, SkinAt(o, n, u)
  PROVE  u \in Urls /\ u # NoUrl /\ RowAt(u) /\ HasSkin(o, n)
<1>1. PICK r \in rows : r.kind = "skin" /\ r.owner = o /\ r.id = n /\ RowUrl(r) = u
  BY DEF SkinAt
<1> QED BY <1>1, RowTypes, ContentAssumption DEF RowAt, HasSkin, SkinIds, RowsOf

LEMMA OthersRely ==
  ASSUME TypeOK, FilesGuarded, NEW p \in Requests, Relies(p), Step(p), Moves(p), Tables(p),
         NEW q \in Requests, q # p, Relies(q)
  PROVE  Relies(q)'
<1>1. pc'[q] = pc[q] /\ req'[q] = req[q]
  BY OthersStay
<1>2. OwnUrl(q)' = OwnUrl(q)
  BY <1>1 DEF OwnUrl
<1>3. /\ OwnUrl(q) \in Urls /\ req[q].owner \in Owners /\ req[q].kind \in ContentKinds
      /\ req[q].id \in Nat /\ req[q].pick \in Nat /\ req[q].drop \in MaybeUrl
  BY LocalTypes
<1>4. HoldsActive(q)'
  BY <1>1, <1>3, ActiveStays DEF Relies, HoldsActive
<1>5. NamesOwnRow(q)'
  <2> SUFFICES ASSUME pc[q] \in OwnRowSteps PROVE IsOwnRow(q)'
    BY <1>1 DEF NamesOwnRow
  <2>1. IsOwnRow(q)
    BY DEF Relies, NamesOwnRow
  <2>2. req[q].id < nextId'[req[q].kind]
    BY <1>3, <2>1 DEF IsOwnRow, Tables
  <2>3. ASSUME NEW r \in rows', r.kind = req[q].kind, r.id = req[q].id
        PROVE  RowUrl(r) = OwnUrl(q)
    <3>1. r \in rows
      BY <1>3, <2>1, <2>3 DEF IsOwnRow, Tables
    <3> QED BY <2>1, <2>3, <3>1 DEF IsOwnRow
  <2> QED BY <1>1, <1>2, <2>2, <2>3 DEF IsOwnRow
<1>6. RowsStand(q)'
  <2>1. /\ \A n \in Nat : \A u : HasActive(q, req[q].owner) /\ SkinAt(req[q].owner, n, u)
                               => SkinAt(req[q].owner, n, u)'
        /\ \A u \in Urls : Holds(q, u) /\ RowAt(u) => RowAt(u)'
    BY <1>1, <1>3, RowsStay
  <2>2. HoldsActive(q) /\ RowsStand(q) /\ HoldsLocks(q)
    BY DEF Relies, FilesGuarded
  <2>3. pc[q] \in {"activateSync", "activateRestore"} =>
          SkinAt(req[q].owner, req[q].id, OwnUrl(q))'
    BY <1>1, <1>2, <1>3, <2>1, <2>2 DEF HoldsActive, ActivateSteps, RowsStand
  <2>4. pc[q] = "deleteActivate" =>
          req[q].kind = "skin" /\ SkinAt(req[q].owner, req[q].pick, req[q].sync)'
    BY <1>1, <1>2, <1>3, <2>1, <2>2 DEF HoldsActive, SkinDeleteSteps, RowsStand
  <2>5. pc[q] = "deleteSync" /\ req[q].kind = "skin" /\ req[q].sync # NoUrl =>
          SkinAt(req[q].owner, req[q].pick, req[q].sync)'
    BY <1>1, <1>2, <1>3, <2>1, <2>2 DEF HoldsActive, SkinDeleteSteps, RowsStand
  <2>6. pc[q] = "uploadWrite" => RowAt(OwnUrl(q))'
    BY <1>1, <1>2, <1>3, <2>1, <2>2 DEF HoldsLocks, OwnFileSteps, RowsStand
  <2>7. ASSUME pc[q] \in CountedSteps, req[q].used PROVE RowAt(req[q].drop)'
    <3>1. RowAt(req[q].drop)
      BY <2>2, <2>7 DEF RowsStand
    <3>2. req[q].drop \in Urls /\ Holds(q, req[q].drop)
      BY <1>3, <2>2, <2>7 DEF HoldsLocks, CountedSteps, OwnFileSteps, MaybeUrl
    <3> QED BY <1>1, <2>1, <3>1, <3>2
  <2> QED BY <1>1, <1>2, <2>3, <2>4, <2>5, <2>6, <2>7 DEF RowsStand, SkinAt, RowAt
<1>7. NothingTakenBack(q)' /\ NothingPicked(q)' /\ OpFits(q)'
  BY <1>1 DEF Relies, NothingTakenBack, NothingPicked, OpFits
<1> QED BY <1>4, <1>5, <1>6, <1>7 DEF Relies

\* A request that is over, or inside the handlers of the protocol, relies on
\* nothing but being there rightly.
LEMMA FreeRelies ==
  ASSUME NEW p \in Requests,
         \/ pc'[p] \in {"done", "deleteFailed", "unlink", "uploadSave", "uploadSync"}
         \/ /\ pc'[p] \in TextureSteps \ {"textureRollback"}
            /\ pc[p] \in TextureSteps /\ OpFits(p) /\ req'[p].op = req[p].op
  PROVE  Relies(p)'
BY DEF Relies, HoldsActive, NamesOwnRow, RowsStand, NothingTakenBack, NothingPicked, OpFits,
       OwnRowSteps, ActivateSteps, SkinDeleteSteps, CountedSteps, TextureSteps

LEMMA UploadRelies ==
  ASSUME ~DiskFaults, TypeOK, FilesGuarded, NEW p \in Requests, Moves(p),
         SaveWithinLimit(p) \/ WriteUpload(p) \/ SyncUpload(p)
  PROVE  Relies(p)'
<1>1. /\ \A w \in {"uploadWrite", "uploadSync", "rollbackDelete", "done"} : w \in Pcs
      /\ OwnUrl(p)' = OwnUrl(p) /\ req'[p].kind = req[p].kind /\ UploadsOwnRow(p)
  BY ArgumentsStay DEF Pcs, FilesGuarded
<1>2. CASE pc'[p] \in {"done", "uploadSync"}
  BY <1>2, FreeRelies
<1>3. CASE pc'[p] \notin {"done", "uploadSync"}
  <2>1. \/ pc'[p] = "uploadWrite" /\ RowAt(OwnUrl(p))'
        \/ pc'[p] = "rollbackDelete" /\ req'[p].kind = "cape"
    <3>1. CASE SaveWithinLimit(p)
      <4> DEFINE new == [kind |-> req[p].kind, id |-> nextId[req[p].kind],
                         owner |-> req[p].owner, image |-> req[p].image]
      <4>1. pc'[p] = "uploadWrite" /\ rows' = rows \cup {new}
        BY <1>1, <1>3, <3>1, Arrives DEF SaveWithinLimit, Continue, Finish
      <4>2. RowUrl(new) = OwnUrl(p)
        BY DEF RowUrl, OwnUrl
      <4> HIDE DEF new
      <4> QED BY <1>1, <4>1, <4>2 DEF RowAt
    <3>2. CASE WriteUpload(p)
      BY <1>1, <1>3, <3>2, Arrives DEF WriteUpload, Continue, Finish
    <3>3. CASE SyncUpload(p)
      BY <1>1, <1>3, <3>3, Arrives DEF SyncUpload, Continue, Finish, UploadsOwnRow
    <3> QED BY <3>1, <3>2, <3>3
  <2> QED
    BY <2>1
    DEF Relies, HoldsActive, NamesOwnRow, RowsStand, NothingTakenBack, NothingPicked, OpFits,
        OwnRowSteps, ActivateSteps, SkinDeleteSteps, CountedSteps, TextureSteps
<1> QED BY <1>2, <1>3

\* While the tables and the request stay, the row of the request is its own.
LEMMA OwnRowStays ==
  ASSUME TypeOK, NEW p \in Requests, Moves(p), rows' \subseteq rows, UNCHANGED nextId,
         req'[p].id = req[p].id, IsOwnRow(p)
  PROVE  IsOwnRow(p)'
<1>1. OwnUrl(p)' = OwnUrl(p) /\ req'[p].kind = req[p].kind
  BY ArgumentsStay
<1> QED BY <1>1 DEF IsOwnRow

LEMMA LockRelies ==
  ASSUME TypeOK, FilesGuarded, NEW p \in Requests, Moves(p), Relies(p),
         LockOwnFile(p) \/ LockActive(p)
  PROVE  Relies(p)'
<1>1. \A w \in {"uploadSave", "deleteLockActive", "deleteRow", "activate"} : w \in Pcs
  BY DEF Pcs
<1>2. /\ UNCHANGED <<rows, nextId, req>> /\ ActiveKey(req[p].owner) \in LockKeys
      /\ req[p].owner \in Owners
  BY LocalTypes DEF LockOwnFile, LockActive, store
<1>3. \/ pc'[p] = "uploadSave"
      \/ pc[p] = "deleteLock" /\ pc'[p] = "deleteLockActive"
      \/ pc[p] = "deleteLock" /\ pc'[p] = "deleteRow" /\ req[p].kind # "skin"
      \/ pc[p] = "deleteLockActive" /\ pc'[p] = "deleteRow" /\ HasActive(p, req[p].owner)'
      \/ pc[p] = "activateLock" /\ pc'[p] = "activate" /\ HasActive(p, req[p].owner)'
  BY <1>1, <1>2, Arrives DEF LockOwnFile, LockActive, HasActive, Lock!Acquire, TypeOK
<1>4. pc'[p] # "uploadSave" => IsOwnRow(p)'
  BY <1>2, <1>3, OwnRowStays DEF Relies, NamesOwnRow, OwnRowSteps
<1> QED
  BY <1>2, <1>3, <1>4
  DEF Relies, HoldsActive, NamesOwnRow, RowsStand, NothingTakenBack, NothingPicked, OpFits,
      OwnRowSteps, ActivateSteps, SkinDeleteSteps, CountedSteps, TextureSteps

\* What the steps of a delete do to its local variables.
LEMMA RemoveLeads ==
  ASSUME TypeOK, NEW p \in Requests, RemoveRow(p), pc'[p] # "done"
  PROVE  /\ UNCHANGED <<nextId, holder>> /\ rows' \subseteq rows
         /\ req'[p].id = req[p].id /\ req'[p].drop = req[p].drop
         /\ req'[p].sync = req[p].sync
         /\ req'[p].used => RowAt(req[p].drop)'
         /\ \/ pc[p] = "deleteRow" /\ pc'[p] = "deletePick"
            \/ pc[p] \in {"deleteRow", "rollbackDelete"} /\ pc'[p] = "countRefs"
<1> DEFINE gone == {x \in rows : x.kind = req[p].kind /\ x.id = req[p].id}
           left == RowsAt(req[p].drop, req[p].kind) \ gone
<1>1. /\ UNCHANGED <<nextId, holder>> /\ rows' = rows \ gone
      /\ Keep(p, [req[p] EXCEPT !.used = left # {}])
      /\ \/ pc[p] = "deleteRow" /\ pc'[p] = "deletePick"
         \/ pc[p] \in {"deleteRow", "rollbackDelete"} /\ pc'[p] = "countRefs"
  BY Arrives DEF RemoveRow, Continue, Finish, Pcs
<1>2. req[p] \in Request
  BY LocalTypes
<1>3. req'[p] = [req[p] EXCEPT !.used = left # {}]
  BY <1>1, <1>2, RequestUpdate, Arrives DEF Alike
<1>4. /\ req'[p].used = (left # {}) /\ req'[p].drop = req[p].drop
      /\ req'[p].sync = req[p].sync /\ req'[p].id = req[p].id
  BY <1>2, <1>3 DEF Request
<1>5. \A r \in left : r \in rows' /\ RowUrl(r) = req[p].drop
  BY <1>1 DEF RowsAt
<1> HIDE DEF left, gone
<1>6. req'[p].used => RowAt(req[p].drop)'
  BY <1>4, <1>5 DEF RowAt
<1> QED BY <1>1, <1>4, <1>6 DEF gone

LEMMA PickLeads ==
  ASSUME TypeOK, NEW p \in Requests, PickLatest(p)
  PROVE  /\ UNCHANGED <<nextId, holder, rows>> /\ pc[p] = "deletePick"
         /\ req'[p].id = req[p].id /\ req'[p].drop = req[p].drop /\ req'[p].used = req[p].used
         /\ \/ UNCHANGED req /\ pc'[p] = "deleteSync"
            \/ \E r \in RowsOf(req[p].owner, req[p].kind) :
                 /\ req'[p].pick = r.id /\ req'[p].sync = RowUrl(r)
                 /\ pc'[p] = IF r.kind = "skin" THEN "deleteActivate" ELSE "deleteSync"
<1>1. "deleteActivate" \in Pcs /\ "deleteSync" \in Pcs /\ req[p] \in Request
  BY LocalTypes DEF Pcs
<1>2. pc[p] = "deletePick" /\ UNCHANGED <<nextId, holder, rows>>
  BY DEF PickLatest, Continue, store
<1>3. CASE UNCHANGED req /\ Goto(p, "deleteSync")
  BY <1>1, <1>2, <1>3, Arrives
<1>4. ASSUME NEW r \in RowsOf(req[p].owner, req[p].kind),
             Keep(p, [req[p] EXCEPT !.pick = r.id, !.sync = RowUrl(r)]),
             Goto(p, IF r.kind = "skin" THEN "deleteActivate" ELSE "deleteSync")
      PROVE  /\ req'[p].pick = r.id /\ req'[p].sync = RowUrl(r)
             /\ req'[p].used = req[p].used /\ req'[p].id = req[p].id
             /\ req'[p].drop = req[p].drop
             /\ pc'[p] = IF r.kind = "skin" THEN "deleteActivate" ELSE "deleteSync"
  <2>1. r.id \in Nat /\ RowUrl(r) \in MaybeUrl
    BY RowTypes DEF RowsOf, MaybeUrl
  <2>2. req'[p] = [req[p] EXCEPT !.pick = r.id, !.sync = RowUrl(r)]
    BY <1>1, <1>4, <2>1, RequestUpdate, Arrives DEF Alike
  <2>3. pc'[p] = IF r.kind = "skin" THEN "deleteActivate" ELSE "deleteSync"
    BY <1>1, <1>4, Arrives
  <2> QED BY <1>1, <2>2, <2>3 DEF Request
<1>5. \/ UNCHANGED req /\ Goto(p, "deleteSync")
      \/ \E r \in RowsOf(req[p].owner, req[p].kind) :
           /\ Keep(p, [req[p] EXCEPT !.pick = r.id, !.sync = RowUrl(r)])
           /\ Goto(p, IF r.kind = "skin" THEN "deleteActivate" ELSE "deleteSync")
  BY DEF PickLatest, Continue
<1> QED BY <1>2, <1>3, <1>4, <1>5

LEMMA ReleaseLeads ==
  ASSUME TypeOK, NEW p \in Requests, ActivateLatest(p) \/ SyncDelete(p) \/ CountRefs(p),
         pc'[p] \notin {"done", "deleteFailed"}
  PROVE  /\ UNCHANGED <<rows, nextId, req, holder>>
         /\ \/ /\ pc[p] = "deleteActivate" /\ HasSkin(req[p].owner, req[p].pick)
               /\ pc'[p] = "deleteSync"
            \/ pc[p] \in {"deleteActivate", "deleteSync"} /\ pc'[p] = "countRefs"
            \/ pc[p] = "countRefs" /\ pc'[p] = "unlink"
BY Arrives DEF ActivateLatest, SyncDelete, CountRefs, Continue, Finish, FailDelete, Pcs, store

LEMMA DeleteRelies ==
  ASSUME TypeOK, FilesGuarded, NEW p \in Requests, Moves(p), Relies(p),
         \/ RemoveRow(p) \/ PickLatest(p) \/ ActivateLatest(p) \/ SyncDelete(p) \/ CountRefs(p)
         \/ Unlink(p)
  PROVE  Relies(p)'
<1>1. CASE pc'[p] \in {"done", "deleteFailed", "unlink"}
  BY <1>1, FreeRelies
<1>2. CASE pc'[p] \notin {"done", "deleteFailed", "unlink"}
  <2>1. OwnUrl(p)' = OwnUrl(p) /\ req'[p].kind = req[p].kind /\ req'[p].owner = req[p].owner
    BY ArgumentsStay
  <2>2. RowsStand(p) /\ NothingPicked(p)
    BY DEF Relies
  <2>3. /\ UNCHANGED <<nextId, holder>> /\ rows' \subseteq rows
        /\ req'[p].id = req[p].id /\ RowsStand(p)' /\ NothingPicked(p)'
        /\ \/ pc[p] \in SkinDeleteSteps /\ pc'[p] \in SkinDeleteSteps
           \/ pc'[p] = "countRefs"
    <3>1. CASE RemoveRow(p)
      <4>1. /\ UNCHANGED <<nextId, holder>> /\ rows' \subseteq rows
            /\ req'[p].id = req[p].id /\ req'[p].sync = req[p].sync
            /\ req'[p].used => RowAt(req[p].drop)'
            /\ \/ pc[p] = "deleteRow" /\ pc'[p] = "deletePick"
               \/ pc[p] \in {"deleteRow", "rollbackDelete"} /\ pc'[p] = "countRefs"
        BY <1>2, <3>1, RemoveLeads
      <4> QED BY <2>2, <4>1 DEF RowsStand, NothingPicked, SkinDeleteSteps
    <3>2. CASE PickLatest(p)
      <4>1. pc[p] = "deletePick" /\ pc'[p] \in {"deleteSync", "deleteActivate"}
        BY <3>2, PickLeads
      <4>2. /\ UNCHANGED <<nextId, holder, rows>> /\ req'[p].id = req[p].id
            /\ req'[p].used => RowAt(req[p].drop)'
        BY <2>2, <3>2, PickLeads DEF RowsStand, CountedSteps, RowAt
      <4>3. CASE UNCHANGED req /\ pc'[p] = "deleteSync"
        BY <2>2, <4>1, <4>2, <4>3 DEF RowsStand, NothingPicked, CountedSteps, SkinDeleteSteps
      <4>4. ASSUME NEW r \in RowsOf(req[p].owner, req[p].kind),
                   req'[p].pick = r.id, req'[p].sync = RowUrl(r),
                   pc'[p] = IF r.kind = "skin" THEN "deleteActivate" ELSE "deleteSync"
            PROVE  RowsStand(p)' /\ NothingPicked(p)'
        <5>1. r \in rows' /\ r.kind = req[p].kind /\ r.owner = req[p].owner
          BY <4>2 DEF RowsOf
        <5> QED BY <2>1, <4>2, <4>4, <5>1
                DEF RowsStand, NothingPicked, CountedSteps, SkinAt
      <4> QED BY <3>2, <4>1, <4>2, <4>3, <4>4, PickLeads DEF SkinDeleteSteps
    <3>3. CASE ActivateLatest(p) \/ SyncDelete(p) \/ CountRefs(p)
      <4>1. /\ UNCHANGED <<rows, nextId, req, holder>>
            /\ \/ pc[p] = "deleteActivate" /\ pc'[p] = "deleteSync"
               \/ pc[p] \in {"deleteActivate", "deleteSync"} /\ pc'[p] = "countRefs"
        BY <1>2, <3>3, ReleaseLeads
      <4> QED BY <2>2, <4>1
              DEF RowsStand, NothingPicked, CountedSteps, RowAt, SkinAt, SkinDeleteSteps
    <3> QED BY <1>2, <3>1, <3>2, <3>3, Arrives DEF Unlink, Finish, Pcs
  <2>4. NamesOwnRow(p)'
    BY <2>3, OwnRowStays DEF Relies, NamesOwnRow, OwnRowSteps, ActivateSteps, SkinDeleteSteps
  <2>5. HoldsActive(p)'
    BY <2>1, <2>3 DEF Relies, HoldsActive, HasActive, ActivateSteps, SkinDeleteSteps
  <2>6. NothingTakenBack(p)' /\ OpFits(p)'
    BY <2>3 DEF NothingTakenBack, OpFits, SkinDeleteSteps, TextureSteps
  <2> QED BY <2>3, <2>4, <2>5, <2>6 DEF Relies
<1> QED BY <1>1, <1>2

\* What the steps of an activation do.
LEMMA ActivateLeads ==
  ASSUME TypeOK, NEW p \in Requests, Activate(p) \/ SyncActivate(p) \/ RestoreActive(p),
         pc'[p] # "done"
  PROVE  /\ UNCHANGED <<rows, nextId, holder>>
         /\ req'[p].id = req[p].id
         /\ \/ /\ Activate(p) /\ HasSkin(req[p].owner, req[p].id)
               /\ pc[p] = "activate" /\ pc'[p] = "activateSync"
            \/ SyncActivate(p) /\ pc[p] = "activateSync" /\ pc'[p] = "activateRestore"
<1>1. \A w \in {"activateSync", "activateRestore", "done"} : w \in Pcs
  BY DEF Pcs
<1>2. CASE Activate(p)
  <2> DEFINE before == SkinIds(req[p].owner) \cap active
  <2>1. /\ HasSkin(req[p].owner, req[p].id) /\ UNCHANGED <<rows, nextId, holder>>
        /\ pc[p] = "activate" /\ pc'[p] = "activateSync"
    BY <1>1, <1>2, Arrives DEF Activate, Continue, Finish
  <2>2. PICK n \in IF before = {} THEN {0} ELSE before : Keep(p, [req[p] EXCEPT !.pick = n])
    BY <1>2, <2>1 DEF Activate
  <2>3. n \in Nat /\ req[p] \in Request
    BY LocalTypes DEF TypeOK
  <2>4. req'[p] = [req[p] EXCEPT !.pick = n]
    BY <2>2, <2>3, RequestUpdate, Arrives DEF Alike
  <2>5. req'[p].id = req[p].id
    BY <2>3, <2>4 DEF Request
  <2> QED BY <1>2, <2>1, <2>5
<1>3. CASE SyncActivate(p) \/ RestoreActive(p)
  BY <1>1, <1>3, Arrives DEF SyncActivate, RestoreActive, Continue, Finish, store
<1> QED BY <1>2, <1>3

LEMMA ActivateRelies ==
  ASSUME TypeOK, FilesGuarded, NEW p \in Requests, Moves(p), Relies(p),
         Activate(p) \/ SyncActivate(p) \/ RestoreActive(p)
  PROVE  Relies(p)'
<1>1. CASE pc'[p] = "done"
  BY <1>1, FreeRelies
<1>2. CASE pc'[p] # "done"
  <2>1. OwnUrl(p)' = OwnUrl(p) /\ req'[p].kind = req[p].kind /\ req'[p].owner = req[p].owner
    BY ArgumentsStay
  <2>2. /\ UNCHANGED <<rows, nextId, holder>> /\ req'[p].id = req[p].id
        /\ pc[p] \in {"activate", "activateSync"} /\ pc'[p] \in {"activateSync", "activateRestore"}
        /\ \/ HasSkin(req[p].owner, req[p].id) \/ pc[p] = "activateSync"
    BY <1>2, ActivateLeads
  <2>3. HoldsActive(p)' /\ NamesOwnRow(p)'
    BY <2>1, <2>2, OwnRowStays
    DEF Relies, HoldsActive, HasActive, NamesOwnRow, OwnRowSteps, ActivateSteps, SkinDeleteSteps
  <2>4. SkinAt(req[p].owner, req[p].id, OwnUrl(p))
    <3>1. CASE HasSkin(req[p].owner, req[p].id)
      <4>1. req[p].kind = "skin" /\ IsOwnRow(p)
        BY <2>2 DEF FilesGuarded, KindDirectories, Relies, NamesOwnRow, OwnRowSteps,
                    HoldsLocks, RowsStand, ActivateSteps
      <4> QED BY <3>1, <4>1 DEF HasSkin, SkinIds, RowsOf, SkinAt, IsOwnRow
    <3>2. CASE pc[p] = "activateSync"
      BY <3>2 DEF Relies, RowsStand
    <3> QED BY <2>2, <3>1, <3>2
  <2>5. RowsStand(p)'
    BY <2>1, <2>2, <2>4 DEF RowsStand, CountedSteps, SkinAt
  <2>6. NothingTakenBack(p)' /\ NothingPicked(p)' /\ OpFits(p)'
    BY <2>2 DEF NothingTakenBack, NothingPicked, OpFits, TextureSteps
  <2> QED BY <2>3, <2>5, <2>6 DEF Relies
<1> QED BY <1>1, <1>2

LEMMA TextureRelies ==
  ASSUME ~DiskFaults, TypeOK, FilesGuarded, NEW p \in Requests, Moves(p), Relies(p),
         \/ LockTexture(p) \/ ReadTexture(p) \/ LockFile(p) \/ UpdateTexture(p)
         \/ WriteTexture(p) \/ RollbackTexture(p) \/ CountRows(p)
  PROVE  Relies(p)'
<1>1. req[p] \in Request /\ req'[p].op = req[p].op /\ OpFits(p) /\ NothingTakenBack(p)
  BY LocalTypes, ArgumentsStay DEF Relies
<1>2. CASE CountRows(p)
  <2> DEFINE counted == RowsAt(req[p].drop, req[p].kind)
  <2>1. /\ UNCHANGED rows /\ Keep(p, [req[p] EXCEPT !.used = counted # {}])
        /\ pc'[p] = "countRefs"
    BY <1>2, Arrives DEF CountRows, Continue, store, Pcs
  <2>2. req'[p] = [req[p] EXCEPT !.used = counted # {}]
    BY <1>1, <2>1, RequestUpdate, Arrives DEF Alike
  <2>3. req'[p].used = (counted # {}) /\ req'[p].drop = req[p].drop
    BY <1>1, <2>2 DEF Request
  <2>4. req'[p].used => RowAt(req[p].drop)'
    BY <2>1, <2>3 DEF RowAt, RowsAt
  <2> HIDE DEF counted
  <2> QED BY <2>1, <2>3, <2>4
    DEF Relies, HoldsActive, NamesOwnRow, RowsStand, NothingTakenBack, NothingPicked, OpFits,
        OwnRowSteps, ActivateSteps, SkinDeleteSteps, TextureSteps
<1>3. CASE ~CountRows(p)
  <2>1. pc[p] \in TextureSteps /\ pc'[p] \in (TextureSteps \ {"textureRollback"}) \cup {"done"}
    <3>1. CASE LockTexture(p) \/ ReadTexture(p) \/ LockFile(p)
      BY <3>1, Arrives DEF LockTexture, ReadTexture, LockFile, Continue, TextureSteps, Pcs
    <3>2. CASE UpdateTexture(p) \/ WriteTexture(p)
      BY <3>2, Arrives DEF UpdateTexture, WriteTexture, Release, Continue, Finish,
                           TextureSteps, Pcs
    <3>3. ~RollbackTexture(p)
      BY <1>1 DEF RollbackTexture, NothingTakenBack
    <3> QED BY <1>3, <3>1, <3>2, <3>3
  <2> QED BY <1>1, <2>1, FreeRelies
<1> QED BY <1>2, <1>3

LEMMA StepReliable ==
  ASSUME ~DiskFaults, TypeOK, FilesGuarded, Reliable, NEW p \in Requests, Step(p)
  PROVE  Reliable'
<1>1. Moves(p) /\ Tables(p) /\ Relies(p)
  BY StepMoves, StepTables DEF Reliable
<1>2. Relies(p)'
  BY <1>1, UploadRelies, LockRelies, DeleteRelies, ActivateRelies, TextureRelies DEF Step
<1>3. ASSUME NEW q \in Requests, q # p PROVE Relies(q)'
  BY <1>1, <1>3, OthersRely DEF Reliable
<1> QED BY <1>2, <1>3 DEF Reliable

-----------------------------------------------------------------------------
(* The files of the skins that are shown. *)

\* A file about to be removed is no skin of a profile.
NotShown(p) == pc[p] = "unlink" => \A o \in Owners : texture[o]["skin"] # req[p].drop

\* What a step shows as a skin is nothing, the URL of a row, or what a request
\* of the protocol is about to write in the lock of the file.
LEMMA ShownNext ==
  ASSUME TypeOK, FilesGuarded, NEW p \in Requests, Relies(p), Step(p), NEW o \in Owners
  PROVE  \/ texture'[o]["skin"] = texture[o]["skin"]
         \/ /\ req[p].owner = o
            /\ \/ texture'[o]["skin"] = NoUrl
               \/ /\ SyncActivate(p) /\ texture'[o]["skin"] = OwnUrl(p) /\ RowAt(OwnUrl(p))
                  /\ OwnUrl(p).dir = "textures"
               \/ /\ SyncDelete(p) /\ texture'[o]["skin"] = req[p].sync /\ RowAt(req[p].sync)
                  /\ req[p].sync.dir = "textures"
               \/ /\ UpdateTexture(p) /\ texture'[o]["skin"] = TargetUrl(p)
                  /\ Holds(p, TargetUrl(p)) /\ pc'[p] = "textureWrite"
<1>1. \A n \in Owners, t \in ContentKinds : \A u : Show(n, t, u) =>
        texture'[o]["skin"] = IF n = o /\ t = "skin" THEN u ELSE texture[o]["skin"]
  BY DEF Show, TypeOK, TextureKinds
<1>2. /\ req[p].owner \in Owners /\ req[p].kind \in ContentKinds /\ "cape" \in ContentKinds
      /\ "skin" \in ContentKinds /\ TargetUrl(p) \in Urls
  BY LocalTypes DEF ContentKinds
<1>3. CASE SyncActivate(p)
  <2>1. RowAt(OwnUrl(p)) /\ OwnUrl(p).dir = "textures"
    BY <1>3, SkinUrl DEF Relies, RowsStand, SyncActivate, FilesGuarded, KindDirectories,
                         OwnUrl, ContentUrl, Directory
  <2> QED BY <1>1, <1>2, <1>3, <2>1 DEF SyncActivate
<1>4. CASE SyncDelete(p)
  <2>1. ASSUME req[p].kind = "skin", req[p].sync # NoUrl
        PROVE  RowAt(req[p].sync) /\ req[p].sync.dir = "textures"
    <3>1. SkinAt(req[p].owner, req[p].pick, req[p].sync)
      BY <1>4, <2>1 DEF Relies, RowsStand, SyncDelete
    <3>2. PICK r \in rows : r.kind = "skin" /\ RowUrl(r) = req[p].sync
      BY <3>1 DEF SkinAt
    <3> QED BY <3>2 DEF RowAt, RowUrl, ContentUrl, Directory
  <2> QED BY <1>1, <1>2, <1>4, <2>1 DEF SyncDelete
<1>5. CASE UpdateTexture(p)
  <2>1. NewUrl(p) \in Urls => Holds(p, NewUrl(p))
    BY <1>5, ContentAssumption DEF UpdateTexture, FilesGuarded, HoldsLocks, NeededFiles
  <2>2. CASE UNCHANGED texture
    BY <2>2
  <2>3. CASE Show(req[p].owner, req[p].kind, NewUrl(p)) /\ req[p].op = "putTexture"
    <3>1. NewUrl(p) = TargetUrl(p) /\ Holds(p, TargetUrl(p))
      BY <1>2, <2>1, <2>3 DEF NewUrl
    <3>2. UNCHANGED texture \/ pc'[p] = "textureWrite"
      BY <1>5, <2>3, Arrives DEF UpdateTexture, Continue, Pcs, TextureSteps
    <3> QED BY <1>1, <1>2, <1>5, <2>3, <3>1, <3>2
  <2>4. CASE Show(req[p].owner, req[p].kind, NewUrl(p)) /\ req[p].op # "putTexture"
    BY <1>1, <1>2, <2>4 DEF NewUrl
  <2> QED BY <1>5, <2>2, <2>3, <2>4 DEF UpdateTexture
<1>6. CASE SyncUpload(p)
  BY <1>1, <1>2, <1>6 DEF SyncUpload
<1>7. ~RollbackTexture(p)
  BY SMTT(40) DEF Relies, NothingTakenBack, RollbackTexture
<1>8. CASE LockOwnFile(p) \/ LockActive(p) \/ PickLatest(p) \/ CountRefs(p)
           \/ LockTexture(p) \/ ReadTexture(p) \/ LockFile(p) \/ CountRows(p)
  BY <1>8 DEF LockOwnFile, LockActive, PickLatest, CountRefs, LockTexture, ReadTexture,
              LockFile, CountRows
<1>9. CASE SaveWithinLimit(p) \/ WriteUpload(p) \/ RemoveRow(p) \/ ActivateLatest(p)
            \/ Unlink(p) \/ Activate(p) \/ RestoreActive(p) \/ WriteTexture(p)
  BY <1>9 DEF SaveWithinLimit, WriteUpload, RemoveRow, ActivateLatest, Unlink, Activate,
              RestoreActive, WriteTexture
<1> QED BY <1>3, <1>4, <1>5, <1>6, <1>7, <1>8, <1>9 DEF Step

\* A row's file is there or on its way.
LEMMA RowsHaveFiles ==
  ASSUME FilesGuarded, RowHasFile, Reliable, NEW u, RowAt(u), u.dir = "textures"
  PROVE  u \in files \/ Coming(u)
<1>1. PICK r \in rows : RowUrl(r) = u
  BY DEF RowAt
<1>2. CASE BeingWritten(r)
  <2>1. PICK q \in Requests : /\ pc[q] \in UploadSteps
                              /\ req[q].kind = r.kind /\ req[q].id = r.id
    BY <1>2 DEF BeingWritten, UploadSteps
  <2>2. UploadsOwnRow(q) /\ NothingTakenBack(q)
    BY DEF FilesGuarded, Reliable, Relies
  <2>3. OwnUrl(q) = u /\ req[q].kind # "cape"
    BY <1>1, <2>1, <2>2 DEF UploadsOwnRow, RowUrl, ContentUrl, Directory
  <2>4. pc[q] = "uploadWrite"
    BY <2>1, <2>2, <2>3 DEF UploadsOwnRow, NothingTakenBack, UploadSteps
  <2> QED BY <2>3, <2>4 DEF Coming
<1> QED BY <1>1, <1>2 DEF RowHasFile

\* The step a request takes at these points.
LEMMA StepAt ==
  ASSUME TypeOK, NEW p \in Requests, Step(p)
  PROVE  /\ pc[p] = "uploadWrite" => WriteUpload(p)
         /\ pc[p] = "textureWrite" => WriteTexture(p)
         /\ pc[p] = "unlink" => Unlink(p)
         /\ pc'[p] = "unlink" => CountRefs(p)
         /\ pc[p] # "deleteFailed"
<1>1. CASE LockOwnFile(p) \/ LockActive(p) \/ SaveWithinLimit(p) \/ WriteUpload(p)
           \/ SyncUpload(p)
  BY <1>1, Arrives DEF LockOwnFile, LockActive, SaveWithinLimit, WriteUpload, SyncUpload,
                       Continue, Finish, Pcs
<1>2. CASE RemoveRow(p) \/ PickLatest(p) \/ ActivateLatest(p) \/ SyncDelete(p)
           \/ CountRefs(p) \/ Unlink(p)
  BY <1>2, Arrives DEF RemoveRow, PickLatest, ActivateLatest, SyncDelete, CountRefs, Unlink,
                       Continue, Finish, FailDelete, Pcs
<1>3. CASE Activate(p) \/ SyncActivate(p) \/ RestoreActive(p)
  BY <1>3, Arrives DEF Activate, SyncActivate, RestoreActive, Continue, Finish, Pcs
<1>4. CASE LockTexture(p) \/ ReadTexture(p) \/ LockFile(p) \/ CountRows(p)
  BY <1>4, Arrives DEF LockTexture, ReadTexture, LockFile, CountRows, Continue, Pcs, TextureSteps
<1>5. CASE UpdateTexture(p) \/ WriteTexture(p) \/ RollbackTexture(p)
  BY <1>5, Arrives DEF UpdateTexture, WriteTexture, RollbackTexture, Release, Continue,
                       Finish, Pcs, TextureSteps
<1> QED BY <1>1, <1>2, <1>3, <1>4, <1>5 DEF Step

LEMMA StepNotShown ==
  ASSUME TypeOK, FilesGuarded, Reliable, NEW p \in Requests, Step(p),
         \A q \in Requests : NotShown(q)
  PROVE  \A q \in Requests : NotShown(q)'
<1>1. Moves(p) /\ Relies(p) /\ Lock!Exclusive
  BY StepMoves DEF Reliable, FilesGuarded
<1>2. ASSUME NEW q \in Requests, NEW o \in Owners, pc'[q] = "unlink"
      PROVE  texture'[o]["skin"] # req'[q].drop
  <2>1. CASE q = p
    <3>1. CountRefs(p) /\ pc'[p] # "done"
      BY <1>2, <2>1, StepAt
    <3>2. ~InProfile(req[p].drop) /\ UNCHANGED <<texture, req>>
      BY <3>1, Arrives DEF CountRefs, Finish, Pcs
    <3> QED BY <2>1, <3>2 DEF InProfile, TextureKinds
  <2>2. CASE q # p
    <3>1. pc[q] = "unlink" /\ req'[q] = req[q]
      BY <1>1, <1>2, <2>2, OthersStay
    <3>2. req[q].drop \in Urls /\ req[q].drop # NoUrl /\ Holds(q, req[q].drop)
      BY <3>1, LocalTypes DEF FilesGuarded, HoldsLocks, MaybeUrl
    <3>3. ~RowAt(req[q].drop)
      BY <3>1 DEF FilesGuarded, NoRowAtDrop, RowAt
    <3>4. texture[o]["skin"] # req[q].drop
      BY <3>1 DEF NotShown
    <3> QED BY <1>1, <2>2, <3>1, <3>2, <3>3, <3>4, ShownNext, HeldByOne
  <2> QED BY <2>1, <2>2
<1> QED BY <1>2 DEF NotShown

LEMMA ComingNext ==
  ASSUME ~DiskFaults, TypeOK, Reliable, NEW p \in Requests, Step(p), NEW u, Coming(u)
  PROVE  Coming(u)' \/ u \in files'
<1>1. PICK q \in Requests : \/ pc[q] = "uploadWrite" /\ OwnUrl(q) = u
                            \/ pc[q] \in {"textureWrite", "textureRollback"} /\ TargetUrl(q) = u
  BY DEF Coming
<1>2. pc[q] # "textureRollback"
  BY DEF Reliable, Relies, NothingTakenBack
<1>3. CASE q = p
  BY <1>1, <1>2, <1>3, StepAt DEF WriteUpload, WriteTexture
<1>4. CASE q # p
  <2>1. pc'[q] = pc[q] /\ OwnUrl(q)' = OwnUrl(q) /\ TargetUrl(q)' = TargetUrl(q)
    BY <1>4, StepMoves, OthersStay DEF OwnUrl, TargetUrl
  <2> QED BY <1>1, <1>2, <2>1 DEF Coming
<1> QED BY <1>3, <1>4

LEMMA StepShown ==
  ASSUME ~DiskFaults, TypeOK, FilesGuarded, RowHasFile, Reliable, NEW p \in Requests, Step(p),
         ProfileSkinHasFile, \A q \in Requests : NotShown(q)
  PROVE  ProfileSkinHasFile'
<1> SUFFICES ASSUME NEW o \in Owners, NEW u, u = texture'[o]["skin"]
             PROVE  u \in files' \cup {NoUrl} \/ Coming(u)'
  BY DEF ProfileSkinHasFile, ProfileHasFile, Coming
<1>1. Relies(p) /\ Moves(p) /\ Tables(p)
  BY StepMoves, StepTables DEF Reliable
<1>2. CASE u = texture[o]["skin"]
  <2>1. u \in files \cup {NoUrl} \/ Coming(u)
    BY <1>2 DEF ProfileSkinHasFile, ProfileHasFile
  <2>2. ~(pc[p] = "unlink" /\ u = req[p].drop)
    BY <1>2 DEF NotShown
  <2> QED BY <1>1, <2>1, <2>2, ComingNext DEF Tables
<1>3. CASE RowAt(u) /\ u.dir = "textures"
  <2>1. u \in files \/ Coming(u)
    BY <1>3, RowsHaveFiles
  <2>2. ~(pc[p] = "unlink" /\ u = req[p].drop)
    BY <1>3 DEF FilesGuarded, NoRowAtDrop, RowAt
  <2> QED BY <1>1, <2>1, <2>2, ComingNext DEF Tables
<1>4. CASE u = TargetUrl(p) /\ pc'[p] = "textureWrite"
  <2>1. Coming(u)'
    BY <1>1, <1>4, ArgumentsStay DEF Coming
  <2> QED BY <2>1
<1> QED BY <1>1, <1>2, <1>3, <1>4, ShownNext

SkinsGuarded == ProfileSkinHasFile /\ \A p \in Requests : NotShown(p)

LEMMA BeginSkins ==
  ASSUME TypeOK, SkinsGuarded, NEW p \in Requests, Begin(p)
  PROVE  SkinsGuarded'
<1>1. /\ UNCHANGED <<texture, files>> /\ pc[p] = "idle" /\ pc'[p] # "unlink"
      /\ \A q \in Requests \ {p} : pc'[q] = pc[q] /\ req'[q] = req[q]
  BY BeginBegun DEF Begun, TypeOK, Entry
<1>2. ASSUME NEW u, Coming(u) PROVE Coming(u)'
  <2>1. PICK q \in Requests \ {p} :
          \/ pc[q] = "uploadWrite" /\ OwnUrl(q) = u
          \/ pc[q] \in {"textureWrite", "textureRollback"} /\ TargetUrl(q) = u
    BY <1>1, <1>2 DEF Coming
  <2>2. pc'[q] = pc[q] /\ OwnUrl(q)' = OwnUrl(q) /\ TargetUrl(q)' = TargetUrl(q)
    BY <1>1 DEF OwnUrl, TargetUrl
  <2> QED BY <2>1, <2>2 DEF Coming
<1>3. ProfileSkinHasFile'
  <2> SUFFICES ASSUME NEW o \in Owners
               PROVE  \/ texture[o]["skin"] \in files \cup {NoUrl}
                      \/ Coming(texture[o]["skin"])'
    BY <1>1 DEF ProfileSkinHasFile, ProfileHasFile
  <2> DEFINE u == texture[o]["skin"]
  <2>1. u \in files \cup {NoUrl} \/ Coming(u)
    BY DEF SkinsGuarded, ProfileSkinHasFile, ProfileHasFile
  <2>2. u' = u
    BY <1>1
  <2> HIDE DEF u
  <2>3. Coming(u) => Coming(u)'
    BY <1>2, <2>2
  <2> QED BY <2>1, <2>3 DEF u
<1>4. \A q \in Requests : NotShown(q)'
  BY <1>1 DEF SkinsGuarded, NotShown
<1> QED BY <1>3, <1>4 DEF SkinsGuarded

Base == TypeOK /\ FilesGuarded /\ RowHasFile /\ Reliable

LEMMA SpecBase ==
  ASSUME ~DiskFaults, PutKinds \subseteq {"skin"}
  PROVE  Spec => []Base
<1>1. Init => Reliable
  BY DEF Init, Blank, Reliable, Relies, HoldsActive, NamesOwnRow, RowsStand, NothingTakenBack,
         NothingPicked, OpFits, OwnRowSteps, ActivateSteps, SkinDeleteSteps, CountedSteps,
         TextureSteps
<1>2. Reliable /\ TypeOK /\ FilesGuarded /\ [Next]_vars => Reliable'
  <2> SUFFICES ASSUME Reliable, TypeOK, FilesGuarded, [Next]_vars PROVE Reliable'
    OBVIOUS
  <2>1. CASE UNCHANGED vars
    <3>1. /\ UNCHANGED <<rows, nextId, holder, pc, req>>
          /\ \A q \in Requests : OwnUrl(q)' = OwnUrl(q)
      BY <2>1 DEF vars, OwnUrl
    <3> QED BY <3>1
            DEF Reliable, Relies, HoldsActive, HasActive, NamesOwnRow, IsOwnRow, RowsStand,
                SkinAt, RowAt, NothingTakenBack, NothingPicked, OpFits
  <2>2. ASSUME NEW p \in Requests, Begin(p) \/ Step(p) PROVE Reliable'
    BY <2>2, BeginReliable, StepReliable DEF FilesGuarded
  <2> QED BY <2>1, <2>2 DEF Next
<1>3. Spec => [](RowHasFile /\ FilesGuarded)
  BY SpecRowHasFile
<1> QED BY <1>1, <1>2, <1>3, SpecTypeOK, PTL DEF Spec, Base

\* The skin that a profile shows is on disk or is about to be written, when
\* writes do not fail and capes come in through the panel only, whatever
\* uploads, activations, deletes and requests of the protocol interleave and
\* whichever updates of a profile fail.  (setActiveSkin, syncProfileAfterDelete,
\* releaseContentFile)
THEOREM SpecProfileSkinHasFile ==
  ASSUME ~DiskFaults, PutKinds \subseteq {"skin"}
  PROVE  Spec => []ProfileSkinHasFile
<1>1. Init => SkinsGuarded
  BY DEF Init, SkinsGuarded, ProfileSkinHasFile, ProfileHasFile, NotShown, TextureKinds
<1>2. Base /\ SkinsGuarded /\ [Next]_vars => SkinsGuarded'
  <2> SUFFICES ASSUME Base, SkinsGuarded, [Next]_vars PROVE SkinsGuarded'
    OBVIOUS
  <2>1. CASE UNCHANGED vars
    BY <2>1 DEF vars, SkinsGuarded, ProfileSkinHasFile, ProfileHasFile, Coming, NotShown,
                OwnUrl, TargetUrl
  <2>2. ASSUME NEW p \in Requests, Begin(p) PROVE SkinsGuarded'
    BY <2>2, BeginSkins DEF Base
  <2>3. ASSUME NEW p \in Requests, Step(p) PROVE SkinsGuarded'
    BY <2>3, StepShown, StepNotShown DEF Base, SkinsGuarded
  <2> QED BY <2>1, <2>2, <2>3 DEF Next
<1>3. Spec => []Base
  BY SpecBase
<1>4. SkinsGuarded => ProfileSkinHasFile
  BY DEF SkinsGuarded
<1> QED BY <1>1, <1>2, <1>3, <1>4, PTL DEF Spec

-----------------------------------------------------------------------------
(***************************************************************************)
(* The active flags.  While nobody switches the skin of a user, the flag   *)
(* and the profile agree; who switches holds the lock of the active skin,  *)
(* has set the flag and not yet told the profile.                          *)
(***************************************************************************)
\* The flag of o is at row n, or at none if n is no row.
Marked(o, n) == \A r \in RowsOf(o, "skin") : r.id \in active <=> r.id = n
Shows(o, u) == texture[o]["skin"] = u
Agrees(o) == \/ Marked(o, 0) /\ Shows(o, NoUrl)
             \/ \E n \in active : Marked(o, n) /\ \E u : Shows(o, u) /\ SkinAt(o, n, u)

Switching(p) == \/ pc[p] \in {"activateSync", "activateRestore"}
                \/ pc[p] \in {"deletePick", "deleteActivate", "deleteSync"} /\ req[p].kind = "skin"

\* The row that was active before.
Before(o, n) == \/ n = 0 /\ Shows(o, NoUrl)
                \/ \E u : Shows(o, u) /\ SkinAt(o, n, u)

Halfway(p) ==
  /\ pc[p] \in {"activateSync", "activateRestore"} =>
       Marked(req[p].owner, req[p].id) /\ Before(req[p].owner, req[p].pick)
  /\ pc[p] \in {"deletePick", "deleteActivate"} => Marked(req[p].owner, 0)
  /\ pc[p] = "deleteSync" => Marked(req[p].owner, IF req[p].sync = NoUrl THEN 0 ELSE req[p].pick)
  /\ pc[p] \in {"deletePick", "deleteActivate", "deleteSync"} => Shows(req[p].owner, OwnUrl(p))

FlagsHaveRows ==
  /\ \A r \in rows : r.id # 0
  /\ \A n \in active : \E r \in rows : r.kind = "skin" /\ r.id = n
Free(o) == \A p \in Requests : Switching(p) => req[p].owner # o
FlagsGuarded ==
  /\ FlagsHaveRows
  /\ \A o \in Owners : Undisturbed(o) /\ Free(o) => Agrees(o)
  /\ \A p \in Requests : Switching(p) /\ Undisturbed(req[p].owner) => Halfway(p)

\* The skins of o, their flags and the profile stay, but for a new row.
SameSkins(o) ==
  /\ \A r \in RowsOf(o, "skin") : r \in rows' /\ (r.id \in active' <=> r.id \in active)
  /\ \A r \in rows' : r.kind = "skin" /\ r.owner = o
                        => r \in rows \/ (r.id = nextId["skin"] /\ r.id \notin active')
  /\ texture'[o]["skin"] = texture[o]["skin"]

LEMMA SameMarked ==
  ASSUME TypeOK, RowsKeyed, NEW o \in Owners, SameSkins(o), NEW n
  PROVE  /\ n # nextId["skin"] /\ Marked(o, n) => Marked(o, n)'
         /\ \A u : SkinAt(o, n, u) => SkinAt(o, n, u)' /\ n \in Nat /\ n # nextId["skin"]
         /\ \A u : Shows(o, u)' = Shows(o, u)
<1>1. n # nextId["skin"] /\ Marked(o, n) => Marked(o, n)'
  BY DEF SameSkins, Marked, RowsOf
<1>2. ASSUME NEW u, SkinAt(o, n, u) PROVE SkinAt(o, n, u)' /\ n \in Nat /\ n # nextId["skin"]
  <2>1. PICK r \in rows : r.kind = "skin" /\ r.owner = o /\ r.id = n /\ RowUrl(r) = u
    BY <1>2 DEF SkinAt
  <2>2. r \in rows' /\ n < nextId["skin"] /\ n \in Nat /\ nextId["skin"] \in Nat
    BY <2>1, RowTypes DEF SameSkins, RowsOf, RowsKeyed, TypeOK
  <2> QED BY <2>1, <2>2 DEF SkinAt
<1> QED BY <1>1, <1>2 DEF Shows, SameSkins

LEMMA SameAgrees ==
  ASSUME TypeOK, RowsKeyed, NEW o \in Owners, SameSkins(o), Agrees(o)
  PROVE  Agrees(o)'
<1>1. CASE Marked(o, 0) /\ Shows(o, NoUrl)
  <2>1. 0 # nextId["skin"]
    BY DEF TypeOK, ContentKinds
  <2> QED BY <1>1, <2>1, SameMarked DEF Agrees
<1>2. ASSUME NEW n \in active, Marked(o, n), NEW u, Shows(o, u), SkinAt(o, n, u)
      PROVE  Agrees(o)'
  <2>1. Marked(o, n)' /\ Shows(o, u)' /\ SkinAt(o, n, u)'
    BY <1>2, SameMarked
  <2>2. n \in active'
    BY <1>2 DEF SkinAt, SameSkins, RowsOf
  <2> QED BY <2>1, <2>2 DEF Agrees
<1> QED BY <1>1, <1>2 DEF Agrees

LEMMA SameHalfway ==
  ASSUME TypeOK, RowsKeyed, NEW q \in Requests, Relies(q), Switching(q), Halfway(q),
         pc'[q] = pc[q], req'[q] = req[q], SameSkins(req[q].owner)
  PROVE  Halfway(q)'
<1>1. req[q].owner \in Owners /\ req[q].id \in Nat /\ OwnUrl(q)' = OwnUrl(q) /\ 0 # nextId["skin"]
  BY LocalTypes DEF OwnUrl, TypeOK, ContentKinds
<1>2. PICK o \in Owners : o = req[q].owner
  BY <1>1
<1>3. ASSUME NEW n, n = 0 \/ \E u : SkinAt(o, n, u)
      PROVE  Marked(o, n) => Marked(o, n)'
  BY <1>1, <1>2, <1>3, SameMarked
<1>4. ASSUME NEW n PROVE Before(o, n) => Before(o, n)'
  BY <1>2, SameMarked DEF Before
<1>5. CASE pc[q] \in {"activateSync", "activateRestore"}
  <2>1. Marked(o, req[q].id) /\ Before(o, req[q].pick) /\ SkinAt(o, req[q].id, OwnUrl(q))
    BY <1>2, <1>5 DEF Halfway, Relies, RowsStand
  <2> QED BY <1>1, <1>2, <1>3, <1>4, <1>5, <2>1 DEF Halfway
<1>6. CASE pc[q] \in {"deletePick", "deleteActivate", "deleteSync"}
  <2>1. Shows(o, OwnUrl(q))'
    BY <1>1, <1>2, <1>6, SameMarked DEF Halfway
  <2>2. CASE pc[q] \in {"deletePick", "deleteActivate"}
    BY <1>1, <1>2, <1>3, <2>1, <2>2 DEF Halfway
  <2>3. CASE pc[q] = "deleteSync"
    <3> DEFINE n == IF req[q].sync = NoUrl THEN 0 ELSE req[q].pick
    <3>1. Marked(o, n)
      BY <1>2, <2>3 DEF Halfway
    <3>2. n = 0 \/ \E u : SkinAt(o, n, u)
      BY <1>2, <2>3 DEF Relies, RowsStand, Switching
    <3>3. Marked(o, n)'
      BY <1>1, <1>3, <3>1, <3>2
    <3> QED BY <1>1, <1>2, <2>1, <2>3, <3>3 DEF Halfway
  <2> QED BY <1>6, <2>2, <2>3
<1> QED BY <1>5, <1>6 DEF Switching

\* Which steps concern the skins: those of an activation or a delete of a skin
\* inside the lock, and those of the protocol.
QuietStep(p) ==
  /\ UNCHANGED active /\ \A r \in rows : r.kind = "skin" => r \in rows'
  /\ \A o \in Owners : texture'[o]["skin"] = texture[o]["skin"]
SkinStep(p) ==
  \/ RemoveRow(p) /\ pc[p] = "deleteRow" /\ pc'[p] # "done"
  \/ PickLatest(p) \/ ActivateLatest(p) \/ SyncDelete(p)
  \/ Activate(p) /\ pc'[p] # "done"
  \/ SyncActivate(p) \/ RestoreActive(p)

LEMMA StepSkins ==
  ASSUME TypeOK, FilesGuarded, NEW p \in Requests, Relies(p), Step(p), Moves(p)
  PROVE  \/ QuietStep(p) /\ ~Switching(p) /\ ~Switching(p)'
         \/ UpdateTexture(p) /\ ~Switching(p) /\ ~Switching(p)'
         \/ SkinStep(p) /\ req[p].kind = "skin" /\ HasActive(p, req[p].owner)
<1>1. req'[p].kind = req[p].kind /\ req[p].owner \in Owners /\ req[p].kind \in ContentKinds
  BY LocalTypes, ArgumentsStay
<1>2. \A n \in Owners, t \in ContentKinds \ {"skin"} : \A u : Show(n, t, u) =>
        \A o \in Owners : texture'[o]["skin"] = texture[o]["skin"]
  BY DEF Show, TypeOK, TextureKinds
<1>3. CASE LockOwnFile(p) \/ LockActive(p) \/ SaveWithinLimit(p) \/ WriteUpload(p)
  BY <1>3, Arrives DEF LockOwnFile, LockActive, SaveWithinLimit, WriteUpload, Continue,
                       Finish, store, Pcs, QuietStep, Switching
<1>4. CASE SyncUpload(p)
  <2>1. UNCHANGED <<rows, active>> /\ pc[p] = "uploadSync"
        /\ (Show(req[p].owner, "cape", OwnUrl(p)) \/ UNCHANGED texture)
        /\ pc'[p] \in {"done", "rollbackDelete"}
    BY <1>4, Arrives DEF SyncUpload, Continue, Finish, store, Pcs
  <2>2. "cape" \in ContentKinds \ {"skin"}
    BY DEF ContentKinds
  <2> QED BY <1>1, <1>2, <2>1, <2>2 DEF QuietStep, Switching
<1>5. CASE CountRefs(p) \/ Unlink(p)
  BY <1>5, Arrives DEF CountRefs, Unlink, Continue, Finish, store, Pcs, QuietStep, Switching
<1>6. CASE LockTexture(p) \/ ReadTexture(p) \/ LockFile(p) \/ CountRows(p)
  BY <1>6, Arrives DEF LockTexture, ReadTexture, LockFile, CountRows, Continue, store, Pcs,
                       TextureSteps, QuietStep, Switching
<1>7. CASE WriteTexture(p)
  BY <1>7, Arrives DEF WriteTexture, Release, Continue, Finish, store, Pcs, TextureSteps,
                       QuietStep, Switching
<1>8. CASE UpdateTexture(p)
  BY <1>8, Arrives DEF UpdateTexture, Release, Continue, Finish, Pcs, TextureSteps, Switching
<1>9. ~RollbackTexture(p)
  BY DEF RollbackTexture, Relies, NothingTakenBack
<1>10. CASE RemoveRow(p) \/ PickLatest(p) \/ ActivateLatest(p) \/ SyncDelete(p)
  <2>1. CASE req[p].kind = "skin"
    <3>1. pc[p] \in SkinDeleteSteps
      BY <1>10, <2>1 DEF RemoveRow, PickLatest, ActivateLatest, SyncDelete, SkinDeleteSteps,
                         Relies, NothingTakenBack
    <3>2. HasActive(p, req[p].owner)
      BY <2>1, <3>1 DEF Relies, HoldsActive
    <3>3. CASE RemoveRow(p) /\ pc'[p] = "done"
      BY <3>3, Arrives DEF RemoveRow, Continue, Pcs, QuietStep, Switching
    <3> QED BY <1>10, <2>1, <3>1, <3>2, <3>3 DEF SkinStep, RemoveRow, SkinDeleteSteps
  <2>2. CASE req[p].kind # "skin"
    <3>1. ~ActivateLatest(p) /\ ~Switching(p)
      BY <1>10, <2>2 DEF ActivateLatest, Relies, RowsStand, Switching, RemoveRow, PickLatest,
                         SyncDelete
    <3>2. QuietStep(p)
      BY <1>1, <1>2, <1>10, <2>2, <3>1 DEF RemoveRow, PickLatest, SyncDelete, store, QuietStep
    <3>3. pc'[p] \notin {"activateSync", "activateRestore"}
      BY <1>10, <3>1, Arrives DEF RemoveRow, PickLatest, SyncDelete, Continue, Finish,
                                  FailDelete, Pcs
    <3> QED BY <1>1, <2>2, <3>1, <3>2, <3>3 DEF Switching
  <2> QED BY <2>1, <2>2
<1>11. CASE Activate(p) \/ SyncActivate(p) \/ RestoreActive(p)
  <2>1. pc[p] \in ActivateSteps /\ HasActive(p, req[p].owner)
    BY <1>11 DEF Activate, SyncActivate, RestoreActive, ActivateSteps, Relies, HoldsActive
  <2>2. req[p].kind = "skin"
    <3>1. CASE pc[p] \in {"activate", "activateSync"}
      BY <3>1 DEF FilesGuarded, KindDirectories
    <3>2. CASE pc[p] = "activateRestore"
      <4>1. PICK r \in rows : r.kind = "skin" /\ RowUrl(r) = OwnUrl(p)
        BY <3>2 DEF Relies, RowsStand, SkinAt
      <4>2. Directory["skin"] = Directory[req[p].kind]
        BY <4>1 DEF RowUrl, OwnUrl, ContentUrl
      <4> QED BY <1>1, <4>2 DEF Directory, ContentKinds
    <3> QED BY <2>1, <3>1, <3>2 DEF ActivateSteps
  <2>3. CASE Activate(p) /\ pc'[p] = "done"
    BY <2>3, Arrives DEF Activate, Continue, Pcs, QuietStep, Switching
  <2> QED BY <1>11, <2>1, <2>2, <2>3 DEF SkinStep
<1> QED BY <1>3, <1>4, <1>5, <1>6, <1>7, <1>8, <1>9, <1>10, <1>11 DEF Step

LEMMA QuietKeeps ==
  ASSUME TypeOK, RowsKeyed, FlagsHaveRows, NEW p \in Requests, Tables(p), QuietStep(p)
  PROVE  FlagsHaveRows' /\ \A o \in Owners : SameSkins(o)
<1>1. ASSUME NEW r \in rows', r \notin rows
      PROVE  r.id # 0 /\ r.id = nextId[r.kind] /\ (r.kind = "skin" => r.id \notin active)
  <2>1. r.id = nextId[r.kind] /\ r.kind = req[p].kind
    BY <1>1 DEF Tables
  <2>2. r.id \in Nat \ {0}
    BY <2>1, LocalTypes
  <2>3. ASSUME NEW s \in rows, s.kind = "skin", s.id = r.id, r.kind = "skin" PROVE FALSE
    <3>1. s.id < nextId["skin"]
      BY <2>3 DEF RowsKeyed
    <3> QED BY <2>1, <2>2, <2>3, <3>1
  <2> QED BY <2>1, <2>2, <2>3 DEF FlagsHaveRows
<1>2. FlagsHaveRows'
  BY <1>1 DEF FlagsHaveRows, QuietStep
<1>3. ASSUME NEW o \in Owners PROVE SameSkins(o)
  BY <1>1 DEF SameSkins, QuietStep, RowsOf
<1> QED BY <1>2, <1>3

LEMMA UpdateKeeps ==
  ASSUME TypeOK, FlagsHaveRows, NEW p \in Requests, UpdateTexture(p)
  PROVE  FlagsHaveRows' /\ \A o \in Owners : o # req[p].owner => SameSkins(o)
<1>1. /\ UNCHANGED <<rows, active>> /\ req[p].kind \in ContentKinds
      /\ \A o \in Owners : o # req[p].owner => texture'[o]["skin"] = texture[o]["skin"]
  BY LocalTypes DEF UpdateTexture, Show, TypeOK, store
<1> QED BY <1>1 DEF FlagsHaveRows, SameSkins, RowsOf

LEMMA SkinStepKeeps ==
  ASSUME TypeOK, FilesGuarded, FlagsHaveRows, NEW p \in Requests, Relies(p), Step(p),
         SkinStep(p), req[p].kind = "skin"
  PROVE  /\ FlagsHaveRows' /\ rows' \subseteq rows
         /\ \A o \in Owners : o # req[p].owner => SameSkins(o)
<1> DEFINE O == req[p].owner
<1>1. O \in Owners /\ RowsKeyed /\ req[p].id \in Nat /\ req[p].pick \in Nat
  BY LocalTypes DEF FilesGuarded
<1>2. \A r \in rows : r.kind = "skin" /\ r.owner # O => r.id \notin SkinIds(O)
  BY <1>1 DEF SkinIds, RowsOf, RowsKeyed
<1>3. ASSUME NEW ids \in SUBSET SkinIds(O), SetActive(O, ids), UNCHANGED <<rows, texture>>
      PROVE  FlagsHaveRows' /\ \A o \in Owners : o # O => SameSkins(o)
  <2>1. \A n \in SkinIds(O) : \E r \in rows : r.kind = "skin" /\ r.id = n
    BY DEF SkinIds, RowsOf
  <2>2. FlagsHaveRows'
    BY <1>3, <2>1 DEF FlagsHaveRows, SetActive
  <2>3. ASSUME NEW o \in Owners, o # O PROVE SameSkins(o)
    BY <1>2, <1>3, <2>3 DEF SameSkins, SetActive, RowsOf
  <2> QED BY <2>2, <2>3
<1>4. CASE RemoveRow(p) /\ pc[p] = "deleteRow" /\ pc'[p] # "done"
  <2> DEFINE gone == {x \in rows : x.kind = "skin" /\ x.id = req[p].id}
  <2>1. rows' = rows \ gone /\ active' = active \ {req[p].id} /\ UNCHANGED texture
    BY <1>4, Arrives DEF RemoveRow, Finish, Pcs
  <2>2. \A x \in gone : x.owner = O
    BY <1>4, <2>1, StepTakes DEF Takes
  <2>3. FlagsHaveRows'
    BY <2>1 DEF FlagsHaveRows
  <2>4. ASSUME NEW o \in Owners, o # O PROVE SameSkins(o)
    <3>1. ASSUME NEW r \in RowsOf(o, "skin") PROVE r \in rows' /\ r.id # req[p].id
      BY <2>1, <2>2, <2>4 DEF RowsOf
    <3>2. \A r \in rows' : r \in rows
      BY <2>1
    <3> QED BY <2>1, <3>1, <3>2 DEF SameSkins
  <2> QED BY <2>1, <2>3, <2>4
<1>5. CASE PickLatest(p) \/ SyncDelete(p) \/ SyncActivate(p)
  <2>1. /\ UNCHANGED <<rows, active>>
        /\ \A o \in Owners : o # O => texture'[o]["skin"] = texture[o]["skin"]
    BY <1>5 DEF PickLatest, SyncDelete, SyncActivate, Show, store, TypeOK
  <2> QED BY <2>1 DEF FlagsHaveRows, SameSkins, RowsOf
<1>6. CASE ActivateLatest(p)
  <2>1. HasSkin(O, req[p].pick)
    BY <1>6, SkinUrl DEF ActivateLatest, Relies, RowsStand
  <2>2. SetActive(O, {req[p].pick}) /\ UNCHANGED <<rows, texture>>
    BY <1>6, <2>1 DEF ActivateLatest
  <2> QED BY <1>3, <2>1, <2>2 DEF HasSkin
<1>7. CASE Activate(p) /\ pc'[p] # "done"
  <2>1. HasSkin(O, req[p].id) /\ SetActive(O, {req[p].id}) /\ UNCHANGED <<rows, texture>>
    BY <1>7, Arrives DEF Activate, Finish, Pcs
  <2> QED BY <1>3, <2>1 DEF HasSkin
<1>8. CASE RestoreActive(p)
  <2>1. UNCHANGED <<rows, texture>>
    BY <1>8 DEF RestoreActive
  <2>2. CASE UNCHANGED active
    BY <2>1, <2>2 DEF FlagsHaveRows, SameSkins, RowsOf
  <2>3. CASE ~UNCHANGED active
    <3>1. /\ req[p].pick = 0 \/ HasSkin(O, req[p].pick)
          /\ SetActive(O, {req[p].pick} \ {0})
      BY <1>8, <2>3 DEF RestoreActive
    <3>2. {req[p].pick} \ {0} \subseteq SkinIds(O)
      BY <3>1 DEF HasSkin
    <3> QED BY <1>3, <2>1, <3>1, <3>2
  <2> QED BY <2>2, <2>3
<1> QED BY <1>4, <1>5, <1>6, <1>7, <1>8 DEF SkinStep

\* What a step does to the flag of its own user.
LEMMA MarkOne ==
  ASSUME TypeOK, FlagsHaveRows, NEW o \in Owners, NEW ids,
         SetActive(o, ids), UNCHANGED rows
  PROVE  /\ \A n : ids = {n} => Marked(o, n)'
         /\ ids = {} => Marked(o, 0)'
<1>1. \A r \in RowsOf(o, "skin") : r.id # 0 /\ r.id \in SkinIds(o)
  BY DEF FlagsHaveRows, RowsOf, SkinIds
<1>2. \A r \in RowsOf(o, "skin") : r.id \in active' <=> r.id \in ids
  BY <1>1 DEF SetActive
<1> QED BY <1>1, <1>2 DEF Marked, RowsOf

\* The row that is shown is the row that is marked.
LEMMA AgreesWith ==
  ASSUME RowsKeyed, FlagsHaveRows, NEW o \in Owners, Agrees(o), NEW r \in rows,
         r.kind = "skin", r.owner = o
  PROVE  /\ r.id \in active => Marked(o, r.id) /\ Shows(o, RowUrl(r))
         /\ \/ Marked(o, 0) /\ Shows(o, NoUrl)
            \/ \E s \in rows : /\ s.kind = "skin" /\ s.owner = o /\ s.id \in active
                               /\ Marked(o, s.id) /\ Shows(o, RowUrl(s))
<1>1. \A s \in rows : s.kind = "skin" /\ s.owner = o => s \in RowsOf(o, "skin") /\ s.id # 0
  BY DEF RowsOf, FlagsHaveRows
<1>2. CASE Marked(o, 0) /\ Shows(o, NoUrl)
  BY <1>1, <1>2 DEF Marked
<1>3. ASSUME NEW n \in active, Marked(o, n), NEW u, Shows(o, u), SkinAt(o, n, u)
      PROVE  /\ r.id \in active => Marked(o, r.id) /\ Shows(o, RowUrl(r))
             /\ \E s \in rows : /\ s.kind = "skin" /\ s.owner = o /\ s.id \in active
                                /\ Marked(o, s.id) /\ Shows(o, RowUrl(s))
  <2>1. PICK s \in rows : s.kind = "skin" /\ s.owner = o /\ s.id = n /\ RowUrl(s) = u
    BY <1>3 DEF SkinAt
  <2>2. r.id \in active => r = s
    BY <1>1, <1>3, <2>1 DEF Marked, RowsKeyed
  <2> QED BY <1>3, <2>1, <2>2
<1> QED BY <1>2, <1>3 DEF Agrees

LEMMA OwnDelete ==
  ASSUME TypeOK, FilesGuarded, FlagsHaveRows, FlagsHaveRows', NEW p \in Requests,
         Relies(p), Step(p), Moves(p), req[p].kind = "skin", pc'[p] # "deleteFailed",
         \/ RemoveRow(p) /\ pc[p] = "deleteRow" /\ pc'[p] # "done"
         \/ PickLatest(p) \/ ActivateLatest(p) \/ SyncDelete(p),
         Switching(p) => Halfway(p), NEW o \in Owners, o = req[p].owner,
         ~Switching(p) => Agrees(o)
  PROVE  /\ Switching(p)' => Halfway(p)'
         /\ ~Switching(p)' => Agrees(o)'
<1>1. /\ OwnUrl(p)' = OwnUrl(p) /\ req'[p].owner = o /\ req'[p].kind = "skin"
      /\ RowsKeyed /\ req[p].id \in Nat /\ NothingPicked(p) /\ RowsStand(p)
  BY ArgumentsStay, LocalTypes DEF FilesGuarded, Relies
<1>2. CASE RemoveRow(p) /\ pc[p] = "deleteRow" /\ pc'[p] # "done"
  <2> DEFINE gone == {x \in rows : x.kind = "skin" /\ x.id = req[p].id}
  <2>1. /\ rows' = rows \ gone /\ active' = active \ {req[p].id} /\ UNCHANGED texture
        /\ gone # {}
        /\ IF req[p].id \in active THEN pc'[p] = "deletePick" ELSE pc'[p] = "countRefs"
    BY <1>2, Arrives DEF RemoveRow, Continue, Finish, Pcs
  <2>2. PICK x \in gone : TRUE
    BY <2>1
  <2>3. x \in rows /\ x.kind = "skin" /\ x.id = req[p].id /\ x.owner = o /\ RowUrl(x) = OwnUrl(p)
    BY <1>2, <2>1, <2>2, StepTakes DEF Takes
  <2>4. Agrees(o)
    BY <1>2 DEF Switching
  <2>5. \A r \in RowsOf(o, "skin")' : r \in RowsOf(o, "skin") /\ r.id # 0 /\ r.id # req[p].id
    BY <2>1 DEF RowsOf, FlagsHaveRows
  <2>6. CASE req[p].id \in active
    <3>1. Marked(o, req[p].id) /\ Shows(o, OwnUrl(p))
      BY <1>1, <2>3, <2>4, <2>6, AgreesWith
    <3>2. Marked(o, 0)'
      BY <2>1, <2>5, <3>1 DEF Marked
    <3>3. Shows(o, OwnUrl(p))'
      BY <1>1, <2>1, <3>1 DEF Shows
    <3> QED BY <1>1, <2>1, <2>6, <3>2, <3>3 DEF Halfway, Switching
  <2>7. CASE req[p].id \notin active
    <3>1. active' = active
      BY <2>1, <2>7
    <3>2. \A n : Marked(o, n) => Marked(o, n)'
      BY <2>5, <3>1 DEF Marked
    <3>3. \A n \in active : \A u : SkinAt(o, n, u) => SkinAt(o, n, u)'
      BY <2>1, <2>7 DEF SkinAt
    <3>4. \A u : Shows(o, u) => Shows(o, u)'
      BY <2>1 DEF Shows
    <3>5. Agrees(o)'
      BY <2>4, <3>1, <3>2, <3>3, <3>4 DEF Agrees
    <3> QED BY <2>1, <2>7, <3>5 DEF Switching
  <2> QED BY <2>6, <2>7
<1>3. CASE PickLatest(p)
  <2>1. /\ UNCHANGED <<rows, active, texture>> /\ pc[p] = "deletePick"
        /\ Marked(o, 0) /\ Shows(o, OwnUrl(p))
    BY <1>3 DEF PickLatest, store, Halfway, Switching
  <2>2. Marked(o, 0)' /\ Shows(o, OwnUrl(p))'
    BY <1>1, <2>1 DEF Marked, Shows, RowsOf
  <2>3. \/ req'[p].sync = NoUrl /\ pc'[p] = "deleteSync"
        \/ pc'[p] = "deleteActivate"
    <3>1. req[p].sync = NoUrl
      BY <1>1, <2>1 DEF NothingPicked
    <3> QED BY <1>3, <3>1, PickLeads DEF RowsOf
  <2> QED BY <1>1, <2>2, <2>3 DEF Halfway, Switching
<1>4. CASE ActivateLatest(p)
  <2>1. SkinAt(o, req[p].pick, req[p].sync) /\ pc[p] = "deleteActivate"
    BY <1>1, <1>4 DEF ActivateLatest, RowsStand
  <2>2. /\ SetActive(o, {req[p].pick}) /\ UNCHANGED <<rows, texture, req>>
        /\ pc'[p] = "deleteSync" /\ req[p].sync # NoUrl
    BY <1>4, <2>1, SkinUrl, Arrives DEF ActivateLatest, Continue, Pcs
  <2>3. Marked(o, req[p].pick)'
    BY <2>2, MarkOne
  <2>4. Shows(o, OwnUrl(p))'
    BY <1>1, <2>1, <2>2 DEF Halfway, Switching, Shows
  <2>5. \A n : n = req[p].pick => Marked(o, n)'
    BY <2>3, <2>2 DEF Marked, RowsOf
  <2> QED BY <1>1, <2>2, <2>4, <2>5 DEF Halfway, Switching, Marked, RowsOf
<1>5. CASE SyncDelete(p)
  <2>1. Show(o, "skin", req[p].sync) /\ pc'[p] = "countRefs" /\ pc[p] = "deleteSync"
    BY <1>5, Arrives DEF SyncDelete, Continue, FailDelete, Pcs
  <2>2. UNCHANGED <<rows, active>>
    BY <1>5 DEF SyncDelete, store
  <2>3. \A u : u = req[p].sync => Shows(o, u)'
    BY <2>1 DEF Shows, Show, TypeOK, TextureKinds
  <2>4. \A n, u : /\ (Marked(o, n) => Marked(o, n)')
                  /\ (SkinAt(o, n, u) => SkinAt(o, n, u)')
    BY <2>2 DEF Marked, SkinAt, RowsOf
  <2>5. Halfway(p)
    BY <2>1 DEF Switching
  <2>6. CASE req[p].sync = NoUrl
    <3>1. Marked(o, 0)
      BY <2>1, <2>5, <2>6 DEF Halfway
    <3>2. Marked(o, 0)' /\ Shows(o, NoUrl)'
      BY <2>3, <2>4, <2>6, <3>1
    <3> QED BY <2>1, <3>2 DEF Agrees, Switching
  <2>7. CASE req[p].sync # NoUrl
    <3>1. PICK n, u : n = req[p].pick /\ u = req[p].sync
      OBVIOUS
    <3>2. Marked(o, n) /\ SkinAt(o, n, u)
      BY <1>1, <2>1, <2>5, <2>7, <3>1 DEF Halfway, RowsStand
    <3>3. n \in active /\ n \in active'
      BY <2>2, <3>2 DEF SkinAt, Marked, RowsOf
    <3>4. Marked(o, n)' /\ SkinAt(o, n, u)' /\ Shows(o, u)'
      BY <2>3, <2>4, <3>1, <3>2
    <3> QED BY <2>1, <3>3, <3>4 DEF Agrees, Switching
  <2> QED BY <2>6, <2>7
<1> QED BY <1>2, <1>3, <1>4, <1>5

LEMMA OwnActivate ==
  ASSUME TypeOK, FilesGuarded, FlagsHaveRows, NEW p \in Requests,
         Relies(p), Moves(p), req[p].kind = "skin", pc'[p] # "done" \/ ~Activate(p),
         Activate(p) \/ SyncActivate(p) \/ RestoreActive(p),
         Switching(p) => Halfway(p), NEW o \in Owners, o = req[p].owner,
         ~Switching(p) => Agrees(o)
  PROVE  /\ Switching(p)' => Halfway(p)'
         /\ ~Switching(p)' => Agrees(o)'
<1>1. /\ OwnUrl(p)' = OwnUrl(p) /\ req'[p].owner = o /\ req'[p].kind = "skin"
      /\ RowsKeyed /\ req[p].id \in Nat /\ RowsStand(p) /\ req[p] \in Request
  BY ArgumentsStay, LocalTypes DEF FilesGuarded, Relies
<1>2. /\ UNCHANGED rows
      /\ \A n, u : SkinAt(o, n, u) => SkinAt(o, n, u)'
      /\ \A n : UNCHANGED active /\ Marked(o, n) => Marked(o, n)'
      /\ \A u : UNCHANGED texture /\ Shows(o, u) => Shows(o, u)'
  BY DEF Activate, SyncActivate, RestoreActive, store, SkinAt, Marked, Shows, RowsOf
<1>3. CASE Activate(p)
  <2> DEFINE before == SkinIds(o) \cap active
  <2>1. /\ HasSkin(o, req[p].id) /\ SetActive(o, {req[p].id}) /\ UNCHANGED <<rows, texture>>
        /\ pc[p] = "activate" /\ pc'[p] = "activateSync"
    BY <1>3, Arrives DEF Activate, Continue, Finish, Pcs
  <2>2. PICK n \in IF before = {} THEN {0} ELSE before : Keep(p, [req[p] EXCEPT !.pick = n])
    BY <1>3, <2>1 DEF Activate
  <2>3. n \in Nat
    <3>1. before \subseteq Nat
      BY DEF TypeOK
    <3> HIDE DEF before
    <3> QED BY <2>2, <3>1
  <2>4. req'[p] = [req[p] EXCEPT !.pick = n]
    BY <1>1, <2>2, <2>3, RequestUpdate, Arrives DEF Alike
  <2>5. req'[p].id = req[p].id /\ req'[p].pick = n
    BY <1>1, <2>3, <2>4 DEF Request
  <2>6. \A m : m = req[p].id => Marked(o, m)'
    BY <2>1, MarkOne
  <2>7. Before(o, n)
    <3>1. PICK r \in rows : r.kind = "skin" /\ r.owner = o
      BY <2>1 DEF HasSkin, SkinIds, RowsOf
    <3>2. Agrees(o)
      BY <2>1 DEF Switching
    <3>3. CASE before = {}
      <4>1. \A s \in rows : s.kind = "skin" /\ s.owner = o => s.id \notin active
        BY <3>3 DEF SkinIds, RowsOf
      <4>2. Shows(o, NoUrl)
        BY <1>1, <3>1, <3>2, <4>1, AgreesWith
      <4> QED BY <2>2, <3>3, <4>2 DEF Before
    <3>4. CASE before # {}
      <4>1. PICK s \in rows : s.kind = "skin" /\ s.owner = o /\ s.id = n /\ n \in active
        BY <2>2, <3>4 DEF SkinIds, RowsOf
      <4>2. Shows(o, RowUrl(s)) /\ SkinAt(o, n, RowUrl(s))
        BY <1>1, <3>2, <4>1, AgreesWith DEF SkinAt
      <4> QED BY <4>2 DEF Before
    <3> QED BY <3>3, <3>4
  <2>8. Before(o, n)'
    BY <1>2, <2>1, <2>7 DEF Before
  <2>9. \A m : m = n => Before(o, m)'
    BY <2>8
  <2> HIDE DEF before
  <2> QED BY <1>1, <2>1, <2>5, <2>6, <2>9 DEF Halfway, Switching
<1>4. CASE SyncActivate(p)
  <2>1. /\ pc[p] = "activateSync" /\ UNCHANGED <<active, req>>
        /\ \/ Show(o, "skin", OwnUrl(p)) /\ pc'[p] = "done"
           \/ UNCHANGED texture /\ pc'[p] = "activateRestore"
    BY <1>4, Arrives DEF SyncActivate, Continue, Finish, Pcs, store
  <2>2. PICK n, m, u : n = req[p].id /\ m = req[p].pick /\ u = OwnUrl(p)
    OBVIOUS
  <2>3. Marked(o, n) /\ Before(o, m) /\ SkinAt(o, n, u)
    BY <1>1, <2>1, <2>2 DEF Halfway, Switching, RowsStand
  <2>4. Marked(o, n)' /\ SkinAt(o, n, u)'
    BY <1>2, <2>1, <2>3
  <2>5. CASE Show(o, "skin", OwnUrl(p)) /\ pc'[p] = "done"
    <3>1. Shows(o, u)'
      BY <2>2, <2>5 DEF Shows, Show, TypeOK, TextureKinds
    <3>2. n \in active'
      BY <2>1, <2>3 DEF SkinAt, Marked, RowsOf
    <3> QED BY <2>4, <2>5, <3>1, <3>2 DEF Agrees, Switching
  <2>6. CASE UNCHANGED texture /\ pc'[p] = "activateRestore"
    <3>1. Before(o, m)'
      BY <1>2, <2>3, <2>6 DEF Before
    <3> QED BY <1>1, <2>1, <2>2, <2>4, <2>6, <3>1 DEF Halfway, Switching
  <2> QED BY <2>1, <2>5, <2>6
<1>5. CASE RestoreActive(p)
  <2>1. pc[p] = "activateRestore" /\ pc'[p] = "done" /\ UNCHANGED texture
    BY <1>5, Arrives DEF RestoreActive, Finish, Pcs
  <2>2. PICK n, m, u : n = req[p].id /\ m = req[p].pick /\ u = OwnUrl(p)
    OBVIOUS
  <2>3. Marked(o, n) /\ Before(o, m) /\ SkinAt(o, n, u)
    BY <1>1, <2>1, <2>2 DEF Halfway, Switching, RowsStand
  <2>4. n \in SkinIds(o) \cap active
    BY <2>3 DEF SkinAt, Marked, RowsOf, SkinIds
  <2>5. m = 0 \/ HasSkin(o, m)
    BY <2>3, SkinUrl DEF Before
  <2>6. SetActive(o, {m} \ {0})
    BY <1>5, <2>2, <2>4, <2>5 DEF RestoreActive
  <2>7. CASE m = 0
    <3>1. Marked(o, 0)' /\ Shows(o, NoUrl)
      BY <1>2, <2>3, <2>6, <2>7, MarkOne DEF Before, SkinAt, FlagsHaveRows
    <3> QED BY <1>2, <2>1, <3>1 DEF Agrees, Switching
  <2>8. CASE m # 0
    <3>1. {m} \ {0} = {m}
      BY <2>8
    <3>2. Marked(o, m)' /\ m \in active'
      BY <1>2, <2>6, <3>1, MarkOne DEF SetActive
    <3>3. PICK v : Shows(o, v) /\ SkinAt(o, m, v)
      BY <2>3, <2>8 DEF Before
    <3>4. Shows(o, v)' /\ SkinAt(o, m, v)'
      BY <1>2, <2>1, <3>3
    <3> QED BY <2>1, <3>2, <3>4 DEF Agrees, Switching
  <2> QED BY <2>7, <2>8
<1> QED BY <1>3, <1>4, <1>5

\* A user is not disturbed, once it was, and the others stay where they are.
LEMMA UndisturbedBefore ==
  ASSUME TypeOK, NEW p \in Requests, Relies(p), Begin(p) \/ Step(p),
         NEW o \in Owners, Undisturbed(o)'
  PROVE  Undisturbed(o)
<1>1. ASSUME NEW q \in Requests, q # p PROVE pc'[q] = pc[q] /\ req'[q] = req[q]
  <2>1. CASE Begin(p)
    BY <1>1, <2>1, BeginBegun DEF Begun, TypeOK
  <2>2. CASE Step(p)
    BY <1>1, <2>2, StepMoves, OthersStay
  <2> QED BY <2>1, <2>2
<1>2. CASE Begin(p)
  <2>1. pc[p] = "idle" /\ req[p].op = "upload"
    BY <1>2, BeginBegun DEF Begun, Relies, OpFits
  <2> QED BY <1>1, <2>1 DEF Undisturbed
<1>3. CASE Step(p)
  <2>1. req'[p].owner = req[p].owner /\ req'[p].op = req[p].op /\ pc[p] # "deleteFailed"
    BY <1>3, StepMoves, ArgumentsStay, StepAt
  <2> QED BY <1>1, <2>1 DEF Undisturbed
<1> QED BY <1>2, <1>3

\* A step that leaves the skins of the users for whom nobody else switches.
LEMMA FlagsElsewhere ==
  ASSUME TypeOK, FilesGuarded, Reliable, FlagsGuarded, NEW p \in Requests,
         Begin(p) \/ Step(p), NEW o \in Owners, SameSkins(o),
         Switching(p) \/ Switching(p)' => req'[p].owner # o /\ req[p].owner # o,
         Undisturbed(o)'
  PROVE  /\ Free(o)' => Agrees(o)'
         /\ \A q \in Requests : q # p /\ req'[q].owner = o /\ Switching(q)' => Halfway(q)'
<1>1. Undisturbed(o) /\ Relies(p) /\ RowsKeyed
  BY UndisturbedBefore DEF Reliable, FilesGuarded
<1>2. ASSUME NEW q \in Requests, q # p
      PROVE  pc'[q] = pc[q] /\ req'[q] = req[q] /\ (Switching(q)' <=> Switching(q))
  <2>1. pc'[q] = pc[q] /\ req'[q] = req[q]
    <3>1. CASE Begin(p)
      BY <1>2, <3>1, BeginBegun DEF Begun, TypeOK
    <3>2. CASE Step(p)
      BY <1>2, <3>2, StepMoves, OthersStay
    <3> QED BY <3>1, <3>2
  <2> QED BY <2>1 DEF Switching
<1>3. Free(o)' => Free(o)
  BY <1>2 DEF Free
<1>4. Free(o)' => Agrees(o)'
  BY <1>1, <1>3, SameAgrees DEF FlagsGuarded
<1>5. ASSUME NEW q \in Requests, q # p, req'[q].owner = o, Switching(q)' PROVE Halfway(q)'
  <2>1. Switching(q) /\ req[q].owner = o /\ Halfway(q)
    BY <1>1, <1>2, <1>5 DEF FlagsGuarded
  <2> QED BY <1>1, <1>2, <1>5, <2>1, SameHalfway DEF Reliable
<1> QED BY <1>4, <1>5

LEMMA StepFlags ==
  ASSUME TypeOK, FilesGuarded, Reliable, FlagsGuarded, NEW p \in Requests, Step(p)
  PROVE  FlagsGuarded'
<1>1. Moves(p) /\ Tables(p) /\ Relies(p) /\ RowsKeyed /\ FlagsHaveRows /\ Lock!Exclusive
  BY StepMoves, StepTables DEF Reliable, FilesGuarded, FlagsGuarded
<1>2. req'[p].owner = req[p].owner /\ req[p].owner \in Owners /\ req'[p].op = req[p].op
  BY <1>1, ArgumentsStay, LocalTypes
<1>3. \A q \in Requests : req'[q].owner = req[q].owner /\ req[q].owner \in Owners
  BY <1>1, <1>2, OthersStay, LocalTypes
<1>4. ASSUME FlagsHaveRows',
             \A o \in Owners : Undisturbed(o)' =>
               /\ Free(o)' => Agrees(o)'
               /\ \A q \in Requests : req'[q].owner = o /\ Switching(q)' => Halfway(q)'
      PROVE  FlagsGuarded'
  BY <1>3, <1>4 DEF FlagsGuarded
<1>5. CASE QuietStep(p) /\ ~Switching(p) /\ ~Switching(p)'
  BY <1>1, <1>4, <1>5, QuietKeeps, FlagsElsewhere
<1>6. CASE UpdateTexture(p) /\ ~Switching(p) /\ ~Switching(p)'
  <2>1. req[p].op \in {"putTexture", "dropTexture"}
    BY <1>1, <1>6 DEF Relies, OpFits, UpdateTexture, TextureSteps
  <2>2. \A o \in Owners : Undisturbed(o)' => o # req[p].owner
    BY <1>2, <2>1 DEF Undisturbed
  <2> QED BY <1>1, <1>4, <1>6, <2>2, UpdateKeeps, FlagsElsewhere
<1>7. CASE SkinStep(p) /\ req[p].kind = "skin" /\ HasActive(p, req[p].owner)
  <2>1. FlagsHaveRows' /\ \A o \in Owners : o # req[p].owner => SameSkins(o)
    BY <1>1, <1>7, SkinStepKeeps
  <2>2. ASSUME NEW o \in Owners, Undisturbed(o)', o # req[p].owner
        PROVE  /\ Free(o)' => Agrees(o)'
               /\ \A q \in Requests : req'[q].owner = o /\ Switching(q)' => Halfway(q)'
    BY <1>2, <2>1, <2>2, FlagsElsewhere
  <2>3. ASSUME NEW o \in Owners, Undisturbed(o)', o = req[p].owner
        PROVE  /\ Free(o)' => Agrees(o)'
               /\ \A q \in Requests : req'[q].owner = o /\ Switching(q)' => Halfway(q)'
    <3>1. Undisturbed(o) /\ pc'[p] # "deleteFailed"
      BY <1>1, <1>2, <2>3, UndisturbedBefore DEF Undisturbed
    <3>2. ASSUME NEW q \in Requests, q # p, req[q].owner = o
          PROVE  ~Switching(q) /\ ~Switching(q)'
      <4>1. Switching(q) => HasActive(q, o)
        BY <3>2 DEF Reliable, Relies, HoldsActive, Switching, ActivateSteps, SkinDeleteSteps
      <4>2. ~Switching(q)
        BY <1>1, <1>7, <2>3, <3>2, <4>1, ActiveByOne
      <4>3. pc'[q] = pc[q] /\ req'[q] = req[q]
        BY <1>1, <3>2, OthersStay
      <4> QED BY <4>2, <4>3 DEF Switching
    <3>3. ~Switching(p) => Agrees(o)
      BY <3>1, <3>2 DEF FlagsGuarded, Free
    <3>4. Switching(p) => Halfway(p)
      BY <2>3, <3>1 DEF FlagsGuarded
    <3>5. (Switching(p)' => Halfway(p)') /\ (~Switching(p)' => Agrees(o)')
      <4>1. CASE Activate(p) \/ SyncActivate(p) \/ RestoreActive(p)
        <5>1. pc'[p] # "done" \/ ~Activate(p)
          BY <1>7, <4>1 DEF SkinStep, Activate, RemoveRow, PickLatest, ActivateLatest,
                            SyncDelete, SyncActivate, RestoreActive
        <5> QED BY <1>1, <1>7, <2>3, <3>3, <3>4, <4>1, <5>1, OwnActivate, SMTT(40)
      <4>2. CASE ~(Activate(p) \/ SyncActivate(p) \/ RestoreActive(p))
        <5>1. \/ RemoveRow(p) /\ pc[p] = "deleteRow" /\ pc'[p] # "done"
              \/ PickLatest(p) \/ ActivateLatest(p) \/ SyncDelete(p)
          BY <1>7, <4>2 DEF SkinStep
        <5> QED BY <1>1, <1>7, <2>1, <2>3, <3>1, <3>3, <3>4, <5>1, OwnDelete
      <4> QED BY <4>1, <4>2
    <3>6. Free(o)' => Agrees(o)'
      BY <1>2, <2>3, <3>5 DEF Free
    <3> QED BY <1>3, <3>2, <3>5, <3>6
  <2> QED BY <1>4, <2>1, <2>2, <2>3
<1> QED BY <1>1, <1>5, <1>6, <1>7, StepSkins

LEMMA BeginFlags ==
  ASSUME TypeOK, FilesGuarded, Reliable, FlagsGuarded, NEW p \in Requests, Begin(p)
  PROVE  FlagsGuarded'
<1>1. /\ UNCHANGED <<rows, active, texture>> /\ ~Switching(p)'
      /\ \A q \in Requests \ {p} : pc'[q] = pc[q] /\ req'[q] = req[q]
      /\ pc[p] = "idle"
  BY BeginBegun DEF Begun, TypeOK, Entry, Switching
<1>2. ~Switching(p)
  BY <1>1 DEF Switching
<1>3. FlagsHaveRows'
  BY <1>1 DEF FlagsGuarded, FlagsHaveRows
<1>4. \A o \in Owners : SameSkins(o)
  BY <1>1 DEF SameSkins, RowsOf
<1>5. \A q \in Requests : Switching(q)' => q # p /\ req'[q].owner \in Owners
  BY <1>1, LocalTypes
<1>6. \A o \in Owners : Undisturbed(o)' =>
        /\ Free(o)' => Agrees(o)'
        /\ \A q \in Requests : q # p /\ req'[q].owner = o /\ Switching(q)' => Halfway(q)'
  BY <1>1, <1>2, <1>4, FlagsElsewhere
<1> QED BY <1>3, <1>5, <1>6 DEF FlagsGuarded

LEMMA SpecFlags ==
  ASSUME ~DiskFaults, PutKinds \subseteq {"skin"}
  PROVE  Spec => []FlagsGuarded
<1>1. Init => FlagsGuarded
  BY DEF Init, FlagsGuarded, FlagsHaveRows, Agrees, Marked, Shows, RowsOf, Switching,
         TextureKinds
<1>2. Base /\ FlagsGuarded /\ [Next]_vars => FlagsGuarded'
  <2> SUFFICES ASSUME Base, FlagsGuarded, [Next]_vars PROVE FlagsGuarded'
    OBVIOUS
  <2>1. CASE UNCHANGED vars
    <3>1. UNCHANGED <<rows, active, texture, pc, req>> /\ \A q \in Requests : OwnUrl(q)' = OwnUrl(q)
      BY <2>1 DEF vars, OwnUrl
    <3> QED BY <3>1
            DEF FlagsGuarded, FlagsHaveRows, Agrees, Marked, Shows, RowsOf, Switching, Halfway,
                Before, SkinAt, Free, Undisturbed
  <2>2. ASSUME NEW p \in Requests, Begin(p) \/ Step(p) PROVE FlagsGuarded'
    BY <2>2, BeginFlags, StepFlags DEF Base
  <2> QED BY <2>1, <2>2 DEF Next
<1>3. Spec => []Base
  BY SpecBase
<1> QED BY <1>1, <1>2, <1>3, PTL DEF Spec

\* When nothing is under way, the profile of a user who used the panel only
\* shows the one skin that is marked active, and none when none is, whatever
\* activations and deletes of skins interleaved and whichever updates of the
\* profile failed and were rolled back, as long as none broke a delete off.
\* (setActiveSkin with its rollback, syncProfileAfterDelete)
THEOREM SpecActiveIsShown ==
  ASSUME ~DiskFaults, PutKinds \subseteq {"skin"}
  PROVE  Spec => []ActiveIsShown
<1>1. FilesGuarded /\ FlagsGuarded => ActiveIsShown
  <2> SUFFICES ASSUME FilesGuarded, FlagsGuarded, Quiet, NEW o \in Owners, Undisturbed(o)
               PROVE  LET chosen == {r \in RowsOf(o, "skin") : r.id \in active} IN
                      IF chosen = {} THEN texture[o]["skin"] = NoUrl
                      ELSE \E r \in chosen : chosen = {r} /\ texture[o]["skin"] = RowUrl(r)
    BY DEF ActiveIsShown
  <2> DEFINE chosen == {r \in RowsOf(o, "skin") : r.id \in active}
  <2>1. \A q \in Requests : ~Switching(q)
    BY DEF Quiet, Over, Switching
  <2>2. Agrees(o) /\ RowsKeyed /\ FlagsHaveRows
    BY <2>1 DEF FlagsGuarded, FilesGuarded, Free
  <2>3. CASE chosen = {}
    <3>1. texture[o]["skin"] = NoUrl
      BY <2>2, <2>3 DEF Agrees, SkinAt, Shows, RowsOf
    <3> QED BY <2>3, <3>1
  <2>4. ASSUME NEW r \in chosen
        PROVE  chosen = {r} /\ texture[o]["skin"] = RowUrl(r)
    <3>1. r \in rows /\ r.kind = "skin" /\ r.owner = o /\ r.id \in active
      BY <2>4 DEF RowsOf
    <3>2. Marked(o, r.id) /\ Shows(o, RowUrl(r))
      BY <2>2, <3>1, AgreesWith
    <3>3. \A s \in chosen : s = r
      BY <2>2, <3>1, <3>2 DEF Marked, RowsKeyed, RowsOf
    <3>4. chosen = {r}
      BY <2>4, <3>3
    <3> QED BY <3>2, <3>4 DEF Shows
  <2> QED BY <2>3, <2>4
<1> QED BY <1>1, SpecBase, SpecFlags, PTL DEF Base

-----------------------------------------------------------------------------
(***************************************************************************)
(* The files nobody needs, where no capes are in use.  (Two deletes of     *)
(* capes are not excluded from each other, and can leave a file behind.)   *)
(***************************************************************************)
Releasing(p, u) ==
  /\ pc[p] \in {"deletePick", "deleteActivate", "deleteSync", "countRefs", "unlink"}
  /\ req[p].drop = u
Needed(u) == InProfile(u) \/ RowAt(u) \/ \E p \in Requests : Releasing(p, u)

NoCapes == /\ \A p \in Requests : req[p].kind # "cape"
           /\ \A r \in rows : r.kind # "cape"
           /\ \A o \in Owners : texture[o]["cape"] = NoUrl
OwnSkins == \A o \in Owners : texture[o]["skin"] # NoUrl => texture[o]["skin"].owner = o

OrphansGuarded ==
  NoCapes /\ OwnSkins /\ \A u \in files : Undisturbed(u.owner) => Needed(u)

LEMMA StepNoCapes ==
  ASSUME TypeOK, FilesGuarded, NEW p \in Requests, Relies(p), Step(p), NoCapes, OwnSkins
  PROVE  NoCapes' /\ OwnSkins'
<1>1. Moves(p) /\ Tables(p)
  BY StepMoves, StepTables
<1>2. \A q \in Requests : req'[q].kind # "cape"
  BY <1>1, ArgumentsStay, OthersStay DEF NoCapes
<1>3. \A r \in rows' : r.kind # "cape"
  BY <1>1 DEF Tables, NoCapes
<1>4. UNCHANGED texture \/ \E t \in ContentKinds \ {"cape"} : \E u : Show(req[p].owner, t, u)
  <2>1. req[p].kind \in ContentKinds \ {"cape"} /\ "skin" \in ContentKinds \ {"cape"}
    BY LocalTypes DEF NoCapes, ContentKinds
  <2>2. ~RollbackTexture(p)
    BY DEF Relies, NothingTakenBack, RollbackTexture
  <2>3. ~SyncUpload(p)
    BY <2>1, SMTT(40) DEF SyncUpload, FilesGuarded, UploadsOwnRow
  <2>4. CASE LockOwnFile(p) \/ LockActive(p) \/ PickLatest(p) \/ CountRefs(p)
             \/ LockTexture(p) \/ ReadTexture(p) \/ LockFile(p) \/ CountRows(p)
    BY <2>4 DEF LockOwnFile, LockActive, PickLatest, CountRefs, LockTexture, ReadTexture,
                LockFile, CountRows
  <2>5. CASE SaveWithinLimit(p) \/ WriteUpload(p) \/ RemoveRow(p) \/ ActivateLatest(p)
              \/ Unlink(p) \/ Activate(p) \/ RestoreActive(p) \/ WriteTexture(p)
    BY <2>5 DEF SaveWithinLimit, WriteUpload, RemoveRow, ActivateLatest, Unlink, Activate,
                RestoreActive, WriteTexture
  <2>6. CASE SyncDelete(p) \/ SyncActivate(p) \/ UpdateTexture(p)
    BY <2>1, <2>6 DEF SyncDelete, SyncActivate, UpdateTexture
  <2> QED BY <2>2, <2>3, <2>4, <2>5, <2>6 DEF Step
<1>5. \A o \in Owners : texture'[o]["cape"] = NoUrl
  <2>1. ASSUME NEW o \in Owners, NEW n, NEW t \in ContentKinds \ {"cape"}, NEW u, Show(n, t, u)
        PROVE  texture'[o]["cape"] = texture[o]["cape"]
    BY <2>1 DEF Show, TypeOK, TextureKinds
  <2> QED BY <1>4, <2>1 DEF NoCapes
<1>6. ASSUME NEW o \in Owners, texture'[o]["skin"] # NoUrl PROVE texture'[o]["skin"].owner = o
  <2>1. OwnUrl(p).owner = req[p].owner /\ TargetUrl(p).owner = req[p].owner
    BY DEF OwnUrl, TargetUrl, ContentUrl
  <2>2. ASSUME SyncDelete(p), texture'[o]["skin"] = req[p].sync, req[p].owner = o,
               texture'[o]["skin"] # texture[o]["skin"]
        PROVE  req[p].sync.owner = o
    <3>1. req[p].kind = "skin"
      BY <2>2, LocalTypes DEF SyncDelete, Show, TypeOK, ContentKinds, TextureKinds, NoCapes
    <3>2. SkinAt(o, req[p].pick, req[p].sync)
      BY <1>6, <2>2, <3>1 DEF SyncDelete, Relies, RowsStand
    <3> QED BY <3>2 DEF SkinAt, RowUrl, ContentUrl
  <2> QED BY <1>6, <2>1, <2>2, ShownNext DEF OwnSkins
<1> QED BY <1>2, <1>3, <1>5, <1>6 DEF NoCapes, OwnSkins

\* What a request does that is giving a file up.
LEMMA ReleaseGoesOn ==
  ASSUME ~DiskFaults, TypeOK, FilesGuarded, NEW p \in Requests, Relies(p), Step(p),
         NEW u \in files, Releasing(p, u)
  PROVE  \/ u \notin files'
         \/ Releasing(p, u)'
         \/ UNCHANGED <<rows, texture>> /\ (RowAt(u) \/ InProfile(u))
         \/ pc'[p] = "deleteFailed" /\ req[p].owner = u.owner
<1>1. pc[p] \in {"deletePick", "deleteActivate", "deleteSync", "countRefs", "unlink"}
      /\ req[p].drop = u
  BY DEF Releasing
<1>2. CASE PickLatest(p)
  BY <1>1, <1>2, PickLeads DEF Releasing
<1>3. CASE ActivateLatest(p)
  BY <1>1, <1>3, Arrives DEF ActivateLatest, Continue, Pcs, Releasing
<1>4. CASE SyncDelete(p)
  <2>1. u = OwnUrl(p) /\ UNCHANGED req
    BY <1>1, <1>4 DEF SyncDelete, FilesGuarded, HoldsLocks, OwnFileSteps
  <2>2. u.owner = req[p].owner
    BY <2>1 DEF OwnUrl, ContentUrl
  <2> QED BY <1>1, <1>4, <2>1, <2>2, Arrives DEF SyncDelete, Continue, FailDelete, Pcs, Releasing
<1>5. CASE CountRefs(p)
  <2>1. /\ UNCHANGED <<rows, texture, req>>
        /\ req[p].used \/ InProfile(u) \/ pc'[p] = "unlink"
    BY <1>1, <1>5, Arrives DEF CountRefs, Continue, Pcs, store
  <2>2. req[p].used => RowAt(u)
    BY <1>1, <1>5 DEF CountRefs, Relies, RowsStand, CountedSteps
  <2> QED BY <1>1, <2>1, <2>2 DEF Releasing
<1>6. CASE Unlink(p)
  BY <1>1, <1>6 DEF Unlink
<1>7. CASE LockOwnFile(p) \/ LockActive(p) \/ SaveWithinLimit(p) \/ WriteUpload(p)
           \/ SyncUpload(p) \/ RemoveRow(p) \/ Activate(p) \/ SyncActivate(p)
           \/ RestoreActive(p)
  BY <1>1, <1>7 DEF LockOwnFile, LockActive, SaveWithinLimit, WriteUpload, SyncUpload,
                    RemoveRow, Activate, SyncActivate, RestoreActive
<1>8. CASE LockTexture(p) \/ ReadTexture(p) \/ LockFile(p) \/ UpdateTexture(p)
           \/ WriteTexture(p) \/ RollbackTexture(p) \/ CountRows(p)
  BY <1>1, <1>8 DEF LockTexture, ReadTexture, LockFile, UpdateTexture, WriteTexture,
                    RollbackTexture, CountRows
<1> QED BY <1>2, <1>3, <1>4, <1>5, <1>6, <1>7, <1>8 DEF Step

\* Where new files come from.
LEMMA FilesNext ==
  ASSUME TypeOK, NEW p \in Requests, Relies(p), Step(p), NEW u \in files', u \notin files
  PROVE  \/ RowAt(u) /\ UNCHANGED rows
         \/ /\ u.owner = req[p].owner /\ req[p].op \in {"putTexture", "dropTexture"}
<1>1. CASE WriteUpload(p)
  BY <1>1 DEF WriteUpload, Relies, RowsStand, store
<1>2. CASE WriteTexture(p)
  BY <1>2, SMTT(40) DEF WriteTexture, Relies, OpFits, TextureSteps, TargetUrl
<1>3. CASE LockOwnFile(p) \/ LockActive(p) \/ SaveWithinLimit(p) \/ SyncUpload(p)
           \/ RemoveRow(p) \/ PickLatest(p) \/ ActivateLatest(p) \/ SyncDelete(p)
           \/ CountRefs(p) \/ Unlink(p)
  BY <1>3 DEF LockOwnFile, LockActive, SaveWithinLimit, SyncUpload, RemoveRow, PickLatest,
              ActivateLatest, SyncDelete, CountRefs, Unlink
<1>4. CASE Activate(p) \/ SyncActivate(p) \/ RestoreActive(p) \/ LockTexture(p)
           \/ ReadTexture(p) \/ LockFile(p) \/ UpdateTexture(p) \/ RollbackTexture(p)
           \/ CountRows(p)
  BY <1>4 DEF Activate, SyncActivate, RestoreActive, LockTexture, ReadTexture, LockFile,
              UpdateTexture, RollbackTexture, CountRows
<1> QED BY <1>1, <1>2, <1>3, <1>4 DEF Step

LEMMA StepOrphans ==
  ASSUME ~DiskFaults, TypeOK, FilesGuarded, Reliable, FlagsGuarded, OrphansGuarded,
         NEW p \in Requests, Step(p)
  PROVE  OrphansGuarded'
<1>1. Moves(p) /\ Relies(p) /\ NoCapes' /\ OwnSkins'
  BY StepMoves, StepNoCapes DEF Reliable, OrphansGuarded
<1>2. /\ req'[p].owner = req[p].owner /\ req'[p].op = req[p].op /\ req[p].owner \in Owners
      /\ \A q \in Requests : q # p => pc'[q] = pc[q] /\ req'[q] = req[q]
  BY <1>1, ArgumentsStay, OthersStay, LocalTypes
<1>3. ASSUME NEW u \in files', Undisturbed(u.owner)' PROVE Needed(u)'
  <2>1. ~(req[p].owner = u.owner /\ req[p].op \in {"putTexture", "dropTexture"})
        /\ ~(req[p].owner = u.owner /\ pc'[p] = "deleteFailed")
    BY <1>2, <1>3 DEF Undisturbed
  <2>2. (InProfile(u)' => Needed(u)') /\ (RowAt(u)' => Needed(u)')
        /\ \A q \in Requests : Releasing(q, u)' => Needed(u)'
    BY DEF Needed
  <2>3. CASE u \notin files
    BY <1>1, <2>1, <2>2, <2>3, FilesNext DEF RowAt
  <2>4. CASE u \in files /\ RowAt(u)
    <3>1. PICK r \in rows : RowUrl(r) = u
      BY <2>4 DEF RowAt
    <3>2. CASE r \in rows'
      BY <2>2, <3>1, <3>2 DEF RowAt
    <3>3. CASE r \notin rows'
      <4>1. RemoveRow(p) /\ Takes(p, r)
        BY <1>1, <3>1, <3>3, StepTakes
      <4>2. pc'[p] # "done"
        <5>1. rows' # rows
          BY <3>3
        <5>2. Goto(p, "deletePick") \/ Goto(p, "countRefs")
          BY <4>1, <5>1 DEF RemoveRow, Continue
        <5> QED BY <5>2, Arrives DEF Pcs
      <4>3. req[p].drop = u
        BY <3>1, <4>1 DEF Takes, FilesGuarded, HoldsLocks, OwnFileSteps
      <4>4. Releasing(p, u)'
        <5>1. req'[p].drop = u /\ pc'[p] \in {"deletePick", "countRefs"}
          BY <4>1, <4>2, <4>3, RemoveLeads
        <5> QED BY <5>1 DEF Releasing
      <4> QED BY <2>2, <4>4
    <3> QED BY <3>2, <3>3
  <2>5. ASSUME u \in files, NEW q \in Requests, Releasing(q, u) PROVE Needed(u)'
    <3>1. CASE q # p
      <4>1. Releasing(q, u)'
        BY <1>2, <2>5, <3>1 DEF Releasing
      <4> QED BY <2>2, <4>1
    <3>2. CASE q = p
      <4>1. UNCHANGED <<rows, texture>> /\ (RowAt(u) \/ InProfile(u)) => RowAt(u)' \/ InProfile(u)'
        BY DEF RowAt, InProfile
      <4> QED BY <1>1, <2>1, <2>2, <2>5, <3>2, <4>1, ReleaseGoesOn
    <3> QED BY <3>1, <3>2
  <2>6. CASE u \in files /\ InProfile(u)
    <3>1. u # NoUrl
      BY <2>6, ContentAssumption DEF TypeOK
    <3>2. PICK o \in Owners : texture[o]["skin"] = u
      BY <2>6, <3>1 DEF InProfile, TextureKinds, OrphansGuarded, NoCapes
    <3>3. u.owner = o
      BY <3>1, <3>2 DEF OrphansGuarded, OwnSkins
    <3>4. CASE texture'[o]["skin"] = u
      BY <2>2, <3>4 DEF InProfile, TextureKinds
    <3>5. CASE texture'[o]["skin"] # u
      <4>1. req[p].owner = o
        BY <1>1, <3>2, <3>5, ShownNext
      <4>2. Undisturbed(o)
        BY <1>1, <1>3, <3>3, UndisturbedBefore
      <4>3. \/ SyncActivate(p) \/ (SyncDelete(p) /\ req[p].kind = "skin")
        <5>1. ~UpdateTexture(p)
          BY <1>1, <2>1, <3>3, <4>1 DEF UpdateTexture, Relies, OpFits, TextureSteps
        <5>2. QuietStep(p) => texture'[o]["skin"] = texture[o]["skin"]
          BY DEF QuietStep
        <5>3. SkinStep(p) /\ req[p].kind = "skin"
          BY <1>1, <3>2, <3>5, <5>1, <5>2, StepSkins
        <5> QED BY <3>2, <3>5, <5>3 DEF SkinStep, RemoveRow, PickLatest, ActivateLatest,
                                        Activate, RestoreActive
      <4>4. CASE SyncActivate(p)
        <5>1. Before(o, req[p].pick) /\ UNCHANGED rows
          BY <4>1, <4>2, <4>4 DEF FlagsGuarded, Halfway, Switching, SyncActivate, store
        <5>2. RowAt(u)
          BY <3>1, <3>2, <5>1 DEF Before, Shows, SkinAt, RowAt
        <5> QED BY <2>2, <5>1, <5>2 DEF RowAt
      <4>5. CASE SyncDelete(p) /\ req[p].kind = "skin"
        <5>1. Shows(o, OwnUrl(p)) /\ pc[p] = "deleteSync"
          BY <4>1, <4>2, <4>5 DEF FlagsGuarded, Halfway, Switching, SyncDelete
        <5>2. req[p].drop = u /\ UNCHANGED req
          BY <3>2, <4>5, <5>1 DEF Shows, FilesGuarded, HoldsLocks, OwnFileSteps, SyncDelete
        <5>3. pc'[p] = "countRefs"
          BY <3>2, <3>5, <4>5, Arrives DEF SyncDelete, Continue, Pcs
        <5>4. Releasing(p, u)'
          BY <5>2, <5>3 DEF Releasing
        <5> QED BY <2>2, <5>4
      <4> QED BY <4>3, <4>4, <4>5
    <3> QED BY <3>4, <3>5
  <2>7. u \in files => Needed(u)
    <3>1. ASSUME u \in files PROVE u.owner \in Owners
      BY <3>1 DEF TypeOK, Urls
    <3>2. u \in files => Undisturbed(u.owner)
      BY <1>1, <1>3, <3>1, UndisturbedBefore
    <3> QED BY <3>2 DEF OrphansGuarded
  <2> QED BY <2>3, <2>4, <2>5, <2>6, <2>7 DEF Needed
<1> QED BY <1>1, <1>3 DEF OrphansGuarded

LEMMA BeginOrphans ==
  ASSUME "cape" \notin Kinds \cup PutKinds, TypeOK, FilesGuarded, Reliable, OrphansGuarded,
         NEW p \in Requests, Begin(p)
  PROVE  OrphansGuarded'
<1>1. /\ UNCHANGED <<rows, texture, files>> /\ pc[p] = "idle" /\ Relies(p)
      /\ \A q \in Requests \ {p} : pc'[q] = pc[q] /\ req'[q] = req[q]
  BY BeginBegun DEF Begun, TypeOK, Reliable
<1>2. req'[p].kind # "cape"
  BY BeginFound DEF Found, FilesGuarded, OrphansGuarded, NoCapes
<1>3. NoCapes' /\ OwnSkins'
  BY <1>1, <1>2 DEF OrphansGuarded, NoCapes, OwnSkins
<1>4. ASSUME NEW u \in files, Undisturbed(u.owner)' PROVE Needed(u)'
  <2>1. u.owner \in Owners
    BY DEF TypeOK, Urls
  <2>2. Needed(u)
    BY <1>1, <1>4, <2>1, UndisturbedBefore DEF OrphansGuarded
  <2>3. ASSUME NEW q \in Requests, Releasing(q, u) PROVE Releasing(q, u)'
    BY <1>1, <2>3 DEF Releasing
  <2> QED BY <1>1, <2>2, <2>3 DEF Needed, InProfile, RowAt
<1> QED BY <1>1, <1>3, <1>4 DEF OrphansGuarded

\* When nothing is under way, every file of a user who used the panel only has
\* a row or is shown by a profile: with no capes in use and no failing writes,
\* whatever uploads, activations and deletes interleaved, a file whose last
\* reference went was removed.  (releaseContentFile)
THEOREM SpecNoOrphan ==
  ASSUME ~DiskFaults, "cape" \notin Kinds \cup PutKinds
  PROVE  Spec => []NoOrphan
<1>1. PutKinds \subseteq {"skin"}
  BY ContentAssumption DEF TextureKinds
<1>2. Init => OrphansGuarded
  BY DEF Init, Blank, OrphansGuarded, NoCapes, OwnSkins, TextureKinds
<1>3. Base /\ FlagsGuarded /\ OrphansGuarded /\ [Next]_vars => OrphansGuarded'
  <2> SUFFICES ASSUME Base, FlagsGuarded, OrphansGuarded, [Next]_vars PROVE OrphansGuarded'
    OBVIOUS
  <2>1. CASE UNCHANGED vars
    BY <2>1 DEF vars, OrphansGuarded, NoCapes, OwnSkins, Undisturbed, Needed, InProfile, RowAt,
                Releasing
  <2>2. ASSUME NEW p \in Requests, Begin(p) \/ Step(p) PROVE OrphansGuarded'
    BY <2>2, BeginOrphans, StepOrphans DEF Base
  <2> QED BY <2>1, <2>2 DEF Next
<1>4. Base /\ OrphansGuarded => NoOrphan
  <2> SUFFICES ASSUME OrphansGuarded, Quiet, NEW u \in files, Undisturbed(u.owner)
               PROVE  InProfile(u) \/ \E r \in rows : RowUrl(r) = u
    BY DEF NoOrphan
  <2>1. \A q \in Requests : ~Releasing(q, u)
    BY DEF Quiet, Over, Releasing
  <2> QED BY <2>1 DEF OrphansGuarded, Needed, RowAt
<1>5. Spec => []Base
  BY <1>1, SpecBase
<1>6. Spec => []FlagsGuarded
  BY <1>1, SpecFlags
<1> QED BY <1>2, <1>3, <1>4, <1>5, <1>6, PTL DEF Spec

-----------------------------------------------------------------------------
(***************************************************************************)
(* No deadlock.  A request takes its locks in one order: the lock of its   *)
(* texture, then those of files by the order of their URLs, then the lock  *)
(* of the active skin.                                                     *)
(***************************************************************************)
LockSteps == {"uploadLock", "deleteLock", "activateLock", "deleteLockActive",
              "textureLock", "fileLocks"}

UnderWay(p) == pc[p] # "idle" /\ ~Over(p)

\* The file whose lock the texture handler takes next.
NextFile(p, u) ==
  /\ u \in NeededFiles(p, req[p].prev) /\ ~Holds(p, u)
  /\ \A v \in NeededFiles(p, req[p].prev) : UrlRank[v] < UrlRank[u] => Holds(p, v)

\* The next step of p takes the lock k.
Awaits(p, k) ==
  \/ pc[p] \in {"uploadLock", "deleteLock"} /\ k = FileKey(OwnUrl(p))
  \/ pc[p] \in {"activateLock", "deleteLockActive"} /\ k = ActiveKey(req[p].owner)
  \/ pc[p] = "textureLock" /\ k = TextureKey(req[p].owner, req[p].kind)
  \/ pc[p] = "fileLocks" /\ \E u \in Urls : k = FileKey(u) /\ NextFile(p, u)

\* What p needs for its next step is there: the steps that take no lock ask
\* for nothing but their place.
CanGoOn(p) ==
  /\ UnderWay(p)
  /\ pc[p] \in LockSteps => \E k \in LockKeys : Awaits(p, k) /\ holder[k] = {}

NeverStuck ==
  (\E p \in Requests : UnderWay(p)) => \E p \in Requests : CanGoOn(p)

\* What a request may be inside of at each of its steps.
HoldsInOrder(p) == \A k \in LockKeys : p \in holder[k] =>
  /\ UnderWay(p)
  /\ pc[p] \in LockSteps => pc[p] \in {"deleteLockActive", "fileLocks"}
  /\ pc[p] = "deleteLockActive" => \E u \in Urls : k = FileKey(u)
  /\ pc[p] \in {"textureRead", "fileLocks"} =>
       \/ \E o \in Owners, t \in TextureKinds : k = TextureKey(o, t)
       \/ /\ pc[p] = "fileLocks"
          /\ \E u \in NeededFiles(p, req[p].prev) :
               /\ k = FileKey(u)
               /\ \A v \in NeededFiles(p, req[p].prev) : UrlRank[v] < UrlRank[u] => Holds(p, v)

\* The texture handler waits for a lock only while one is missing.
MissesFile(p) ==
  pc[p] = "fileLocks" => \E u \in NeededFiles(p, req[p].prev) : ~Holds(p, u)

InLockOrder == \A p \in Requests : HoldsInOrder(p) /\ MissesFile(p)

LEMMA NeededUrls ==
  ASSUME TypeOK, NEW p \in Requests
  PROVE  NeededFiles(p, req[p].prev) \subseteq Urls
BY LocalTypes DEF NeededFiles, NewUrl, MaybeUrl

\* A step changes nothing of what another request is inside of.
Untouched(q) ==
  /\ pc'[q] = pc[q] /\ req'[q] = req[q]
  /\ \A k \in LockKeys : q \in holder'[k] <=> q \in holder[k]

LEMMA OthersUntouched ==
  ASSUME TypeOK, NEW p \in Requests, Begin(p) \/ Step(p), NEW q \in Requests, q # p
  PROVE  Untouched(q)
<1>1. CASE Begin(p)
  BY <1>1, BeginBegun DEF Begun, TypeOK, Untouched
<1>2. CASE Step(p)
  <2>1. Moves(p)
    BY <1>2, StepMoves
  <2>2. \A k \in LockKeys : q \in holder'[k] <=> q \in holder[k]
    BY <2>1 DEF Moves, TypeOK, Lock!ReleaseAll, Lock!Acquire
  <2> QED BY <2>1, <2>2, OthersStay DEF Untouched
<1> QED BY <1>1, <1>2

LEMMA UntouchedInOrder ==
  ASSUME TypeOK, NEW q \in Requests, Untouched(q), HoldsInOrder(q), MissesFile(q)
  PROVE  HoldsInOrder(q)' /\ MissesFile(q)'
<1>1. pc'[q] = pc[q] /\ req'[q] = req[q]
  BY DEF Untouched
<1>2. \A k \in LockKeys : q \in holder'[k] <=> q \in holder[k]
  BY DEF Untouched
<1>3. \A u \in Urls : Holds(q, u)' <=> Holds(q, u)
  BY <1>2, KeyType DEF Holds
<1>4. NeededFiles(q, req[q].prev)' = NeededFiles(q, req[q].prev)
  BY <1>1 DEF NeededFiles, NewUrl, TargetUrl
<1>5. NeededFiles(q, req[q].prev) \subseteq Urls
  BY NeededUrls
<1>6. MissesFile(q)'
  BY <1>1, <1>3, <1>4, <1>5 DEF MissesFile
<1>7. UnderWay(q)' <=> UnderWay(q)
  BY <1>1 DEF UnderWay, Over
<1>8. HoldsInOrder(q)'
  BY <1>1, <1>2, <1>3, <1>4, <1>5, <1>7 DEF HoldsInOrder
<1> QED BY <1>6, <1>8

\* A step that takes no lock goes to one that takes none, or ends the request
\* and gives everything back.
Proceeds(p) ==
  \/ /\ pc'[p] \notin LockSteps \cup {"idle", "done", "deleteFailed", "textureRead"}
     /\ UNCHANGED holder
  \/ pc'[p] \in {"done", "deleteFailed"} /\ Lock!ReleaseAll(p)

LEMMA StepProceeds ==
  ASSUME TypeOK, NEW p \in Requests, Step(p),
         ~(LockOwnFile(p) \/ LockActive(p) \/ LockTexture(p) \/ ReadTexture(p) \/ LockFile(p))
  PROVE  Proceeds(p)
<1>1. \A w : pc' = [pc EXCEPT ![p] = w] => pc'[p] = w
  BY DEF TypeOK
<1> USE <1>1 DEF Goto, Continue, Finish, FailDelete, Proceeds, LockSteps
<1>2. CASE SaveWithinLimit(p) \/ WriteUpload(p) \/ SyncUpload(p)
  BY <1>2 DEF SaveWithinLimit, WriteUpload, SyncUpload
<1>3. CASE RemoveRow(p)
  BY <1>3 DEF RemoveRow
<1>4. CASE PickLatest(p) \/ ActivateLatest(p) \/ SyncDelete(p)
  BY <1>4 DEF PickLatest, ActivateLatest, SyncDelete
<1>5. CASE CountRefs(p) \/ Unlink(p) \/ CountRows(p)
  BY <1>5 DEF CountRefs, Unlink, CountRows
<1>6. CASE Activate(p) \/ SyncActivate(p) \/ RestoreActive(p)
  BY <1>6 DEF Activate, SyncActivate, RestoreActive
<1>7. CASE UpdateTexture(p) \/ WriteTexture(p) \/ RollbackTexture(p)
  BY <1>7 DEF UpdateTexture, WriteTexture, RollbackTexture, Release
<1> QED BY <1>2, <1>3, <1>4, <1>5, <1>6, <1>7 DEF Step

LEMMA ProceedsInOrder ==
  ASSUME TypeOK, NEW p \in Requests, Proceeds(p), HoldsInOrder(p),
         pc[p] # "idle", ~Over(p)
  PROVE  HoldsInOrder(p)' /\ MissesFile(p)'
<1>1. CASE pc'[p] \in {"done", "deleteFailed"} /\ Lock!ReleaseAll(p)
  <2>1. \A k \in LockKeys : p \notin holder'[k]
    BY <1>1 DEF Lock!ReleaseAll
  <2> QED BY <1>1, <2>1 DEF HoldsInOrder, MissesFile
<1>2. CASE pc'[p] \notin LockSteps \cup {"idle", "done", "deleteFailed", "textureRead"}
  BY <1>2 DEF HoldsInOrder, MissesFile, LockSteps, UnderWay, Over
<1> QED BY <1>1, <1>2 DEF Proceeds

\* The five steps at which the order is kept.
LEMMA OwnFileInOrder ==
  ASSUME TypeOK, NEW p \in Requests, LockOwnFile(p), HoldsInOrder(p)
  PROVE  HoldsInOrder(p)' /\ MissesFile(p)'
<1>1. OwnUrl(p) \in Urls /\ FileKey(OwnUrl(p)) \in LockKeys
  BY LocalTypes
<1>2. pc'[p] \in {"uploadSave", "deleteLockActive", "deleteRow"}
  BY DEF LockOwnFile, Goto, TypeOK
<1>3. \A k \in LockKeys : p \notin holder[k]
  BY DEF LockOwnFile, HoldsInOrder, LockSteps
<1>4. \A k \in LockKeys : p \in holder'[k] => k = FileKey(OwnUrl(p))
  BY <1>3 DEF LockOwnFile, Lock!Acquire, TypeOK
<1> QED BY <1>1, <1>2, <1>4 DEF HoldsInOrder, MissesFile, LockSteps, UnderWay, Over

LEMMA ActiveInOrder ==
  ASSUME TypeOK, NEW p \in Requests, LockActive(p)
  PROVE  HoldsInOrder(p)' /\ MissesFile(p)'
<1>1. pc'[p] \in {"activate", "deleteRow"}
  BY DEF LockActive, Goto, TypeOK
<1> QED BY <1>1 DEF HoldsInOrder, MissesFile, LockSteps, UnderWay, Over

LEMMA TextureInOrder ==
  ASSUME TypeOK, NEW p \in Requests, LockTexture(p), HoldsInOrder(p)
  PROVE  HoldsInOrder(p)' /\ MissesFile(p)'
<1>1. pc[p] = "textureLock" /\ pc'[p] = "textureRead"
  BY DEF LockTexture, Goto, TypeOK
<1>2. req[p].owner \in Owners /\ req[p].kind \in TextureKinds
  BY <1>1, LocalTypes DEF TypeOK, TextureSteps
<1>3. \A k \in LockKeys : p \notin holder[k]
  BY <1>1 DEF HoldsInOrder, LockSteps
<1>4. \A k \in LockKeys : p \in holder'[k] => k = TextureKey(req[p].owner, req[p].kind)
  BY <1>3 DEF LockTexture, Lock!Acquire, TypeOK
<1> QED BY <1>1, <1>2, <1>4 DEF HoldsInOrder, MissesFile, LockSteps, UnderWay, Over

LEMMA ReadInOrder ==
  ASSUME TypeOK, NEW p \in Requests, ReadTexture(p), HoldsInOrder(p)
  PROVE  HoldsInOrder(p)' /\ MissesFile(p)'
<1> DEFINE previousUrl == texture[req[p].owner][req[p].kind]
<1>1. pc[p] = "textureRead" /\ holder' = holder
  BY DEF ReadTexture, Continue
<1>2. \A k \in LockKeys : p \in holder[k] =>
        \E o \in Owners, t \in TextureKinds : k = TextureKey(o, t)
  BY <1>1 DEF HoldsInOrder
<1>3. \A u \in Urls : ~Holds(p, u)'
  BY <1>1, <1>2, KeyType, KeysApart DEF Holds
<1>4. req[p] \in Request /\ previousUrl \in MaybeUrl
  BY <1>1, LocalTypes DEF TextureSteps
<1>5. /\ req'[p] = [req[p] EXCEPT !.prev = previousUrl]
      /\ pc'[p] = IF NeededFiles(p, previousUrl) = {} THEN "textureUpdate" ELSE "fileLocks"
  BY DEF ReadTexture, Keep, Continue, Goto, TypeOK
<1>6. req'[p].prev = previousUrl /\ NewUrl(p)' = NewUrl(p)
  BY <1>4, <1>5 DEF Request, NewUrl, TargetUrl
<1>7. NeededFiles(p, req[p].prev)' = NeededFiles(p, previousUrl)
  BY <1>6 DEF NeededFiles
<1>8. NeededFiles(p, previousUrl) \subseteq Urls
  BY <1>4, LocalTypes DEF NeededFiles, NewUrl, MaybeUrl
<1>9. MissesFile(p)'
  BY <1>3, <1>5, <1>7, <1>8 DEF MissesFile
<1>10. HoldsInOrder(p)'
  BY <1>1, <1>2, <1>5 DEF HoldsInOrder, LockSteps, UnderWay, Over
<1> QED BY <1>9, <1>10

LEMMA FileInOrder ==
  ASSUME TypeOK, NEW p \in Requests, LockFile(p), HoldsInOrder(p)
  PROVE  HoldsInOrder(p)' /\ MissesFile(p)'
<1> DEFINE needed == NeededFiles(p, req[p].prev)
<1>1. pc[p] = "fileLocks" /\ req' = req
  BY DEF LockFile
<1>2. needed \subseteq Urls
  BY NeededUrls
<1>3. PICK u \in needed :
        /\ \A v \in needed : UrlRank[v] < UrlRank[u] => Holds(p, v)
        /\ Lock!Acquire(p, FileKey(u))
        /\ Goto(p, IF \A v \in needed \ {u} : Holds(p, v)
                   THEN "textureUpdate" ELSE "fileLocks")
  BY DEF LockFile
<1>4. u \in Urls /\ FileKey(u) \in LockKeys
  BY <1>2, KeyType
<1>5. \A k \in LockKeys : p \in holder'[k] <=> p \in holder[k] \/ k = FileKey(u)
  BY <1>3, <1>4 DEF Lock!Acquire, TypeOK
<1>6. \A v \in Urls : Holds(p, v)' <=> Holds(p, v) \/ v = u
  BY <1>4, <1>5, KeyType, KeysApart DEF Holds
<1>7. NeededFiles(p, req[p].prev)' = needed
  BY <1>1 DEF NeededFiles, NewUrl, TargetUrl
<1>8. pc'[p] = IF \A v \in needed \ {u} : Holds(p, v) THEN "textureUpdate" ELSE "fileLocks"
  BY <1>3 DEF Goto, TypeOK
<1>9. MissesFile(p)'
  BY <1>2, <1>6, <1>7, <1>8 DEF MissesFile
<1>10. ASSUME NEW k \in LockKeys, p \in holder'[k]
       PROVE  \/ \E o \in Owners, t \in TextureKinds : k = TextureKey(o, t)
              \/ \E w \in needed :
                   /\ k = FileKey(w)
                   /\ \A v \in needed : UrlRank[v] < UrlRank[w] => Holds(p, v)'
  <2>1. CASE k = FileKey(u)
    <3>1. \A v \in needed : UrlRank[v] < UrlRank[u] => Holds(p, v)'
      BY <1>2, <1>3, <1>6
    <3> QED BY <2>1, <3>1
  <2>2. CASE p \in holder[k]
    <3>1. \/ \E o \in Owners, t \in TextureKinds : k = TextureKey(o, t)
          \/ \E w \in needed :
               /\ k = FileKey(w)
               /\ \A v \in needed : UrlRank[v] < UrlRank[w] => Holds(p, v)
      BY <1>1, <2>2 DEF HoldsInOrder
    <3> QED BY <1>2, <1>6, <3>1
  <2> QED BY <1>5, <1>10, <2>1, <2>2
<1>11. pc'[p] \in {"textureUpdate", "fileLocks"}
  BY <1>8
<1>12. HoldsInOrder(p)'
  <2> HIDE DEF needed
  <2> QED BY <1>7, <1>10, <1>11 DEF HoldsInOrder, LockSteps, UnderWay, Over
<1> QED BY <1>9, <1>12

LEMMA StepInOrder ==
  ASSUME TypeOK, NEW p \in Requests, Step(p), HoldsInOrder(p)
  PROVE  HoldsInOrder(p)' /\ MissesFile(p)'
<1>1. CASE LockOwnFile(p) \/ LockActive(p) \/ LockTexture(p) \/ ReadTexture(p) \/ LockFile(p)
  BY <1>1, OwnFileInOrder, ActiveInOrder, TextureInOrder, ReadInOrder, FileInOrder
<1>2. CASE ~(LockOwnFile(p) \/ LockActive(p) \/ LockTexture(p) \/ ReadTexture(p) \/ LockFile(p))
  <2>1. Proceeds(p)
    BY <1>2, StepProceeds, SMTT(40)
  <2>2. pc[p] # "idle" /\ ~Over(p)
    BY DEF Step, Over, LockOwnFile, LockActive, SaveWithinLimit, WriteUpload, SyncUpload,
           RemoveRow, PickLatest, ActivateLatest, SyncDelete, CountRefs, Unlink, Activate,
           SyncActivate, RestoreActive, LockTexture, ReadTexture, LockFile, UpdateTexture,
           WriteTexture, RollbackTexture, CountRows
  <2> QED BY <2>1, <2>2, ProceedsInOrder
<1> QED BY <1>1, <1>2

LEMMA BeginInOrder ==
  ASSUME TypeOK, NEW p \in Requests, Begin(p), HoldsInOrder(p)
  PROVE  HoldsInOrder(p)' /\ MissesFile(p)'
<1>1. pc[p] = "idle" /\ UNCHANGED holder
  BY DEF Begin, StartUpload, StartActivate, StartDelete, StartPutTexture, StartDropTexture,
         Start, Continue
<1>2. pc'[p] \in {"uploadLock", "activateLock", "deleteLock", "textureLock"}
  BY DEF Begin, StartUpload, StartActivate, StartDelete, StartPutTexture, StartDropTexture,
         Start, Continue, Goto, TypeOK
<1>3. \A k \in LockKeys : p \notin holder'[k]
  BY <1>1 DEF HoldsInOrder, UnderWay
<1> QED BY <1>2, <1>3 DEF HoldsInOrder, MissesFile

THEOREM SpecInLockOrder == Spec => []InLockOrder
<1>1. Init => InLockOrder
  BY DEF Init, Lock!Init, InLockOrder, HoldsInOrder, MissesFile
<1>2. TypeOK /\ InLockOrder /\ [Next]_vars => InLockOrder'
  <2> SUFFICES ASSUME TypeOK, InLockOrder, [Next]_vars,
                      NEW q \in Requests
               PROVE  HoldsInOrder(q)' /\ MissesFile(q)'
    BY DEF InLockOrder
  <2>1. CASE UNCHANGED vars
    BY <2>1 DEF vars, InLockOrder, HoldsInOrder, MissesFile, UnderWay, Over, Holds,
                NeededFiles, NewUrl, TargetUrl
  <2>2. ASSUME NEW p \in Requests, Begin(p) \/ Step(p) PROVE HoldsInOrder(q)' /\ MissesFile(q)'
    <3>1. CASE q = p
      BY <2>2, <3>1, BeginInOrder, StepInOrder DEF InLockOrder
    <3>2. CASE q # p
      BY <2>2, <3>2, OthersUntouched, UntouchedInOrder DEF InLockOrder
    <3> QED BY <3>1, <3>2
  <2> QED BY <2>1, <2>2 DEF Next
<1> QED BY <1>1, <1>2, SpecTypeOK, PTL DEF Spec

LEMMA NextFileFound ==
  ASSUME TypeOK, NEW p \in Requests, pc[p] = "fileLocks", MissesFile(p)
  PROVE  \E u \in Urls : NextFile(p, u)
<1> DEFINE needed == NeededFiles(p, req[p].prev)
           missing == {u \in needed : ~Holds(p, u)}
           ranks == {UrlRank[u] : u \in missing}
<1>1. needed \subseteq Urls
  BY NeededUrls
<1>2. ranks # {} /\ ranks \subseteq Nat
  BY <1>1, ContentAssumption DEF MissesFile
<1>3. PICK n \in ranks : \A r \in ranks : n <= r
  <2> HIDE DEF ranks
  <2> QED BY <1>2, SmallestNumber
<1>4. PICK u \in missing : n = UrlRank[u]
  OBVIOUS
<1>5. ASSUME NEW v \in needed, UrlRank[v] < UrlRank[u] PROVE Holds(p, v)
  <2>1. v \in missing => UrlRank[u] <= UrlRank[v]
    BY <1>3, <1>4
  <2>2. UrlRank[v] \in Nat /\ UrlRank[u] \in Nat
    BY <1>1, <1>5, ContentAssumption
  <2> QED BY <1>5, <2>1, <2>2
<1>6. u \in Urls /\ NextFile(p, u)
  BY <1>1, <1>5 DEF NextFile
<1> QED BY <1>6

LEMMA AwaitsSome ==
  ASSUME TypeOK, NEW p \in Requests, MissesFile(p), pc[p] \in LockSteps
  PROVE  \E k \in LockKeys : Awaits(p, k)
<1>1. CASE pc[p] = "fileLocks"
  BY <1>1, NextFileFound, KeyType DEF Awaits
<1>2. CASE pc[p] # "fileLocks"
  BY <1>2, LocalTypes DEF Awaits, LockSteps, TextureSteps
<1> QED BY <1>1, <1>2

\* If nobody could go on, the lock a request waits for would be held by one
\* that waits for the lock of a file.
LEMMA HeldByWaiting ==
  ASSUME TypeOK, InLockOrder, \A q \in Requests : ~CanGoOn(q),
         NEW p \in Requests, NEW k \in LockKeys, UnderWay(p), Awaits(p, k)
  PROVE  \E h \in Requests : h \in holder[k] /\ pc[h] = "fileLocks"
<1>1. ASSUME NEW q \in Requests, NEW l \in LockKeys, UnderWay(q), Awaits(q, l)
      PROVE  \E h \in Requests : /\ h \in holder[l] /\ UnderWay(h)
                                 /\ pc[h] \in {"deleteLockActive", "fileLocks"}
  <2>1. holder[l] # {} /\ holder[l] \subseteq Requests
    BY <1>1 DEF CanGoOn, TypeOK
  <2>2. PICK h \in Requests : h \in holder[l]
    BY <2>1
  <2>3. UnderWay(h) /\ (pc[h] \in LockSteps => pc[h] \in {"deleteLockActive", "fileLocks"})
    BY <2>2 DEF InLockOrder, HoldsInOrder
  <2>4. pc[h] \in LockSteps
    BY <2>3 DEF CanGoOn
  <2> QED BY <2>2, <2>3, <2>4
<1>2. ASSUME NEW q \in Requests, pc[q] = "deleteLockActive" PROVE FALSE
  <2> DEFINE l == ActiveKey(req[q].owner)
  <2>1. l \in LockKeys /\ req[q].owner \in Owners /\ UnderWay(q) /\ Awaits(q, l)
    BY <1>2, LocalTypes DEF Awaits, UnderWay, Over
  <2> HIDE DEF l
  <2>2. PICK h \in Requests : h \in holder[l] /\ pc[h] \in {"deleteLockActive", "fileLocks"}
    BY <1>1, <2>1
  <2>3. \/ \E u \in Urls : l = FileKey(u)
        \/ \E o \in Owners, t \in TextureKinds : l = TextureKey(o, t)
    BY <2>1, <2>2, NeededUrls DEF InLockOrder, HoldsInOrder
  <2> QED BY <2>1, <2>3, KeysApart DEF l, FileKey, ActiveKey, TextureKey
<1> QED BY <1>1, <1>2

LEMMA SomeoneGoesOn ==
  ASSUME TypeOK, InLockOrder, IsFiniteSet(Requests), NEW p \in Requests, UnderWay(p)
  PROVE  \E q \in Requests : CanGoOn(q)
<1> SUFFICES ASSUME \A q \in Requests : ~CanGoOn(q) PROVE FALSE
  OBVIOUS
<1> DEFINE waiting == {q \in Requests : pc[q] = "fileLocks"}
           next == [q \in waiting |-> CHOOSE u \in Urls : NextFile(q, u)]
           rank == [q \in waiting |-> UrlRank[next[q]]]
<1>1. \A q \in waiting : next[q] \in Urls /\ NextFile(q, next[q])
  BY NextFileFound DEF InLockOrder
<1>2. waiting # {}
  <2>1. pc[p] \in LockSteps
    BY DEF CanGoOn
  <2>2. PICK k \in LockKeys : Awaits(p, k)
    BY <2>1, AwaitsSome DEF InLockOrder
  <2> QED BY <2>2, HeldByWaiting
<1>3. IsFiniteSet(waiting)
  BY FS_Subset
<1>4. rank \in [waiting -> Nat]
  BY <1>1, ContentAssumption
<1>5. PICK m \in waiting : \A q \in waiting : rank[q] <= rank[m]
  <2> HIDE DEF waiting, rank
  <2> QED BY <1>2, <1>3, <1>4, LargestOf
<1> DEFINE u == next[m]
<1>6. u \in Urls /\ NextFile(m, u) /\ FileKey(u) \in LockKeys
  BY <1>1, KeyType
<1>7. PICK h \in waiting : h \in holder[FileKey(u)]
  <2>1. Awaits(m, FileKey(u)) /\ UnderWay(m)
    BY <1>6 DEF Awaits, UnderWay, Over
  <2> HIDE DEF u
  <2> QED BY <1>6, <2>1, HeldByWaiting
<1> DEFINE v == next[h]
<1>8. v \in Urls /\ NextFile(h, v)
  BY <1>1
<1>9. \A w \in NeededFiles(h, req[h].prev) : UrlRank[w] < UrlRank[u] => Holds(h, w)
  <2> HIDE DEF u
  <2>1. PICK x \in NeededFiles(h, req[h].prev) :
          /\ FileKey(u) = FileKey(x)
          /\ \A w \in NeededFiles(h, req[h].prev) : UrlRank[w] < UrlRank[x] => Holds(h, w)
    BY <1>6, <1>7, KeysApart DEF InLockOrder, HoldsInOrder
  <2>2. x = u
    BY <1>6, <2>1, NeededUrls, KeysApart
  <2> QED BY <2>1, <2>2
<1>10. Holds(h, u)
  BY <1>7 DEF Holds
<1>11. ~(UrlRank[v] < UrlRank[u]) /\ v # u
  BY <1>8, <1>9, <1>10 DEF NextFile
<1>12. rank[h] = UrlRank[v] /\ rank[m] = UrlRank[u]
  OBVIOUS
<1>13. UrlRank[v] <= UrlRank[u]
  BY <1>5, <1>12
<1> HIDE DEF u, v
<1>14. UrlRank[v] \in Nat /\ UrlRank[u] \in Nat /\ UrlRank[v] # UrlRank[u]
  BY <1>6, <1>8, <1>11, ContentAssumption
<1> QED BY <1>11, <1>13, <1>14

THEOREM SpecNeverStuck ==
  ASSUME IsFiniteSet(Requests)
  PROVE  Spec => []NeverStuck
<1>1. TypeOK /\ InLockOrder => NeverStuck
  BY SomeoneGoesOn DEF NeverStuck
<1> QED BY <1>1, SpecTypeOK, SpecInLockOrder, PTL
=============================================================================
