SPECIFICATION Spec
CONSTANTS
  Procs = {p1, p2}
  SignIns = {s1, s2}
  Environments <- SomeEnvironments
  DevBuild = FALSE
  Lifetime = 1
  MaxTime = 1
  Nobody = Nobody
  NoUrl = NoUrl
  NoSignIn = NoSignIn
  NoConfig = NoConfig
SYMMETRY Symm
INVARIANTS
  TypeOK
  MachineStaysMachine
  SessionStaysWithSite
  SignInNamesPerson
  AdvertisedLoginWorks
PROPERTIES
  NoCodeWasted
CHECK_DEADLOCK FALSE
