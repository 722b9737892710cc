SPECIFICATION Spec
CONSTANTS
  Orgs = {o1, o2}
  Configs = {c1, c2}
  Requests = {r1, r2}
  MaxLinks = 3
  Viewers = {v1, v2}
  Periods = 4
  MaxEvents = 1
  TTL = 2
  Mixes <- AllMixes
INVARIANTS
  TypeOK
  LinkIffPublic
  WidgetsStayInOrg
  AnswersStayInOrg
  TotalsAreNested
PROPERTIES
  EventsAreShown
  DeadLinksStayDead
  LinksAreKept
CHECK_DEADLOCK FALSE
