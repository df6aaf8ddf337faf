SPECIFICATION Spec
CONSTANTS
  Procs = {p1}
  Clients = {c1}
  NoClient = NoClient
  NoToken = NoToken
  Faults <- AllFaults
  Serial = TRUE
  RefreshTokens = FALSE
  Lifetimes <- Sometimes
  MaxTokens = 5
SYMMETRY Symm
CHECK_DEADLOCK FALSE
INVARIANTS
  ClientIsolation
