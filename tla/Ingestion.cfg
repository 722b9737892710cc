SPECIFICATION Spec
CONSTANTS
  KeyIds = {k1, k2}
  Requests = {r1, r2}
  NoKey = none
  Subs = {s1}
  SharedDisk = TRUE
  MaxRetries = 1
  MaxDeliveries = 2
  MaxMishaps = 2
INVARIANTS
  TypeOK
  UseHoldsItsKey
  RotationReplaces
  CopiesAreEchoes
  FileOutlivesItsUse
  StoredUnlessBroken
  FilesAreRemoved
PROPERTIES
  DeadKeysStayDead
  EventLogSpec
