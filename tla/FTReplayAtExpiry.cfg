SPECIFICATION Spec
CONSTANTS
  Procs = {p1}
  Nonces = {n1}
  Digests = {d1}
  NoDigest = NoDigest
  NoReq = NoReq
  EnvChoices <- AccessTokenOnly
  TTL = 1
  MaxTime = 1
  MaxGen = 1
  Rotates = FALSE
SYMMETRY Symm
CHECK_DEADLOCK FALSE
INVARIANTS
  SingleUseInProcess
