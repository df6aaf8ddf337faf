SPECIFICATION Spec
CONSTANTS
  Procs = {p1, p2}
  Clients = {c1}
  NoClient = NoClient
  NoToken = NoToken
  Faults <- NoFaults
  Serial = FALSE
  RefreshTokens = FALSE
  Lifetimes <- Always
  MaxTokens = 3
SYMMETRY Symm
CHECK_DEADLOCK FALSE
INVARIANTS
  ClientIsolation
