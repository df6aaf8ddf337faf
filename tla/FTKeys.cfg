SPECIFICATION Spec
CONSTANTS
  Procs = {p1, p2}
  Nonces = {n1}
  Digests = {d1}
  NoDigest = NoDigest
  NoReq = NoReq
  EnvChoices <- EveryEnv
  TTL = 1
  MaxTime = 0
  MaxGen = 3
  Rotates = FALSE
SYMMETRY Symm
CHECK_DEADLOCK FALSE
INVARIANTS
  PreparedTokenVerifies
