SPECIFICATION FairSpec
CONSTANTS
  Caller = {p1, p2}
  ID = {i1}
  Empty = Empty
  Data = {d1, d2}
  TTL <- ShortLife
  MaxTime = 1
  None = None
INVARIANTS
  TypeOK
  TTLHonoured
PROPERTIES
  ImplementsContract
  EveryCallReturns
CHECK_DEADLOCK FALSE
