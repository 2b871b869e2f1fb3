SPECIFICATION MCSpec
CONSTANTS
  Callers = {c1, c2}
  Authorities = {p7identityserver4, google}
  Self = self
  Day = 2
  Rotations = 1
  Nobody = Nobody
  daffy = daffy
  donald = donald
  acme = acme
  Subjects = {daffy, donald}
  NoSubject = NoSubject
  Apps = {acme}
  NoApp = NoApp
  Strangers <- MCStrangers
  MaxIssued = 3
SYMMETRY Interchangeable
INVARIANTS
  AppTypeOK
  VerdictsAreRecent
  IdentitiesAreTraceable
