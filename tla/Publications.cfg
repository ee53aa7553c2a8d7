SPECIFICATION Spec
CONSTANTS
  Publications = {p1, p2}
  Deploys = {d1, d2}
  Starters = {s1}
  Platforms = {win, mac}
  First = First
  EmptyDir = EmptyDir
  Names = {a, b}
  MaxUploads = 2
  MaxChunks = 4
  Reject = Reject
  StreamLimit = 2
  SmallLimit = 1
  MaxParts = 4
  None = None
SYMMETRY Symmetry
INVARIANTS
  ReleasesStay
  PanelKept
  LastDeployedServed
  ModsServed
  StoredIsClean
CHECK_DEADLOCK FALSE
