SPECIFICATION Spec
CONSTANTS
  Org = org
  Keys = {k1, k2}
  OrgLimit = 2
  KeyLimit = 1
  BatchSizes = {1}
  Requests = {r1, r2}
  Mortal = {r1}
  MaxCount = 4
PROPERTIES
  LimitIsLifted
