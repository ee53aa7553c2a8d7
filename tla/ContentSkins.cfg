SPECIFICATION Spec
CONSTANTS
  Requests = {r1, r2, r3, r4, r5}
  Owners = {1}
  Images = {1, 2}
  Kinds = {"skin"}
  Ops = {"upload", "activate", "delete", "putTexture", "dropTexture"}
  PutKinds = {"skin"}
  MaxPerUser = 3
  DiskFaults = FALSE
  StoreFaults = TRUE
  UrlRank <- MCUrlRank
  NoUrl = NoUrl
INVARIANTS
  TypeOK
  ProfileSkinHasFile
  ActiveIsShown
  NoOrphan
SYMMETRY RequestSymmetry
CHECK_DEADLOCK FALSE
