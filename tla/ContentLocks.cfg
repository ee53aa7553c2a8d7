SPECIFICATION FairSpecTextured
CONSTANTS
  Requests = {r1, r2, r3}
  Owners = {1}
  Images = {1, 2}
  Kinds = {"skin"}
  Ops = {"upload", "activate", "delete", "putTexture", "dropTexture"}
  PutKinds = {"skin", "cape"}
  MaxPerUser = 2
  DiskFaults = FALSE
  StoreFaults = TRUE
  UrlRank <- MCUrlRank
  NoUrl = NoUrl
PROPERTIES
  EveryRequestEnds
CHECK_DEADLOCK FALSE
