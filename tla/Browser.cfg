SPECIFICATION BrowserSpec
CONSTANTS
  Users = {ann}
  Tokens = {t1, t2, t3, t4}
  Requests = {c1, c2, c3}
  Tabs = {tab1, tab2}
  NoToken = none
SYMMETRY Symmetry
INVARIANTS
  BrowserTypeOK
  NoTabLogsItselfOut
  CookieIsUnspent
  NobodyWaitsInVain
