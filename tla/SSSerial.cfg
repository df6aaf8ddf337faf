SPECIFICATION Spec
CONSTANTS
  Procs = {p1}
  Clients = {c1, c2}
  NoClient = NoClient
  NoToken = NoToken
  Faults <- NoFaults
  Serial = TRUE
  RefreshTokens = TRUE
  Lifetimes <- Sometimes
  MaxTokens = 6
SYMMETRY Symm
CHECK_DEADLOCK FALSE
INVARIANTS
  TypeOK
  ClientIsolation
  EarlierSessionGone
  EntriesAgree
PROPERTIES
  NoExpiredReuse
  CommandsTakeOneStep
