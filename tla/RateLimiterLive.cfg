SPECIFICATION Spec
CONSTANTS
  Org = org
  Keys = {k1}
  OrgLimit = 2
  KeyLimit = 1
  BatchSizes = {1}
  Requests = {r1, r2}
  Mortal = {}
  MaxCount = 3
INVARIANT UnarmedIsBeingArmed
PROPERTY LimitIsLifted
