SPECIFICATION Spec
CONSTANTS
  Key = {k1, k2}
  User = {u1}
  Attempt = {a1}
  Req = {r1, r2}
  Routes <- EveryRoute
  Provider = "memory"
  Legacy = {}
  LateMax = 0
  None = None
  Undecodable = Undecodable
SYMMETRY Symmetry
INVARIANT NoPendingAfterCallback
