SPECIFICATION Spec
CONSTANTS
  Key = {k1, k2, k3}
  User = {u1}
  Attempt = {a1, a2}
  Req = {r1, r2}
  Routes <- SignInRoutes
  Provider = "memory"
  Legacy = {}
  LateMax = 0
  None = None
  Undecodable = Undecodable
SYMMETRY Symmetry
INVARIANTS
  TypeOK
  SignedInStaysCleared
  SignedInAsGranted
  EndedIsDead
