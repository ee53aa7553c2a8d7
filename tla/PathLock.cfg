SPECIFICATION FairSpec
CONSTANTS
  Calls = {c1, c2, c3, c4}
  Keys = {k1, k2}
  NoCall = NoCall
INVARIANTS
  TypeOK
  FirstComeFirstServed
  TailIsLast
PROPERTIES
  ImplementsMutex
  EveryCallServed
CHECK_DEADLOCK FALSE
