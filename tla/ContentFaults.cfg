SPECIFICATION Spec
CONSTANTS
  Requests = {r1, r2, r3, r4}
  Owners = {1}
  Images = {1, 2}
  Kinds = {"skin", "cape"}
  Ops = {"upload", "delete", "putTexture"}
  PutKinds = {"skin"}
  MaxPerUser = 2
  DiskFaults = TRUE
  StoreFaults = TRUE
  UrlRank <- MCUrlRank
  NoUrl = NoUrl
INVARIANTS
  RowHasFile
  WithinLimit
SYMMETRY RequestSymmetry
CHECK_DEADLOCK FALSE
