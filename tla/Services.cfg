SPECIFICATION Spec
CONSTANTS
  LastRevision = 3
  Damaged = Damaged
  Calls = {c1, c2, c3}
  MaxTokens = 3
  Tasks = 2
  MaxRounds = 3
  Ttl = 2
  Names = {a}
  MaxContents = 3
  MaxHashings = 2
  MaxBodies = 2
  MaxReceived = 4
  Callers = {c1, c2, c3}
  Cooldown = 1
  MaxChecks = 3
  Requests = 3
  Users = {u, v}
  Addresses = {x}
  UserMax = 1
  AddressMax = 2
  Window = 2
  MaxKeys = 2
  MaxTime = 2
  MaxOutages = 2
  MaxCalls = 4
  CacheKeys = {k1, k2, k3}
  CacheValues = {1, 2}
  MaxEntries = 2
  Lifetimes = {1, 2}
  MaxClock = 1
  Base = 4
  MaxVarInt = 3
  Sign = 8
  MaxResponse = 4
  Bytes = {0, 1, 2, 4, 5}
  Players = {0, 1}
  MaxSize = 3
  MaxWritten = 4
  Invalid = {2, 3}
  Days = 2
  MaxRemoved = 3
  MaxRecords = 4
  None = None
INVARIANTS
  PairKept
  OneOwner
  ManifestCurrent
  OutputWhole
  LogKept
  OnceAtATime
  LimitHolds
  BoundAsMeant
PROPERTY
  EverythingEnds
CHECK_DEADLOCK FALSE
