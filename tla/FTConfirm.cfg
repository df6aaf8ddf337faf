SPECIFICATION Spec
CONSTANTS
  Procs = {p1, p2}
  Nonces = {n1}
  Digests = {d1, d2}
  NoDigest = NoDigest
  NoReq = NoReq
  EnvChoices <- AccessTokenOnly
  TTL = 1
  MaxTime = 3
  MaxGen = 1
  Rotates = FALSE
SYMMETRY Symm
CHECK_DEADLOCK FALSE
INVARIANTS
  TypeOK
  NoReplayBeforeExpiry
  ThirdUseNeedsStall
  ConfirmedFileDigest
PROPERTIES
  ConfirmsAsPromised
