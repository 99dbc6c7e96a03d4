SPECIFICATION FairSpec
CONSTANTS
  Key = {k0, k1, k2}
  User = {u1}
  Attempt = {a1}
  Req = {r1, r2}
  Routes <- SignInRoutes
  Provider = "valkey"
  Legacy = {k0}
  LateMax = 1
  None = None
  Undecodable = Undecodable
INVARIANTS
  CookieNamesStored
  IInv
PROPERTIES
  ImplementsLife
  EveryRequestEnds
