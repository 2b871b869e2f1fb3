SPECIFICATION Spec
CONSTANTS
  Callers = {c1, c2}
  Users = {u1, u2}
  Logins = {google, norton}
  Roles = {admin}
  Copies = 2
  Issues = 2
  Nobody = Nobody
SYMMETRY Interchangeable
CONSTRAINTS OneOfThree OneContention
INVARIANTS
  TypeOK
  LinksAgree
  CodesAreSpentOnce
CHECK_DEADLOCK FALSE
