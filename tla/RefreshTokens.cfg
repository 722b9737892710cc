SPECIFICATION Spec
CONSTANTS
  Users = {ann}
  Tokens = {t1, t2, t3, t4}
  Requests = {r1, r2}
  NoToken = none
SYMMETRY Symmetry
INVARIANTS
  TypeOK
  SuccessorReplaces
  SuccessorsBounded
PROPERTIES
  NoTokenBurnt
