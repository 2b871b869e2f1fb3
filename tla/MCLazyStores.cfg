SPECIFICATION Spec
CONSTANTS
  Requests = {r1, r2, r3}
  p7identityserver4 = p7identityserver4
  google = google
  orders = orders
  loyalty = loyalty
  Authorities <- MCAuthorities
  Endpoints <- MCEndpoints
  Clients = {daffy_duck}
  States = {s1, s2}
  NoState = NoState
  Nobody = Nobody
SYMMETRY Interchangeable
CONSTRAINT OneSingleton
INVARIANTS
  TypeOK
  StoresSettle
  LateRequestsAreServed
