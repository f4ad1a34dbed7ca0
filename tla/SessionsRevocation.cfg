SPECIFICATION Spec
CONSTANTS
  r1 = r1
  r2 = r2
  admin1 = admin1
  phone = phone
  laptop = laptop
  None = None
  Requests = {r1, r2}
  Admins = {admin1}
  Browsers = {phone}
  BrowserOf <- TwoTabs
  MultiLogin = TRUE
  RefreshExcluded = TRUE
  RequestsMayFail = FALSE
  MaxTime = 1
  MaxCommits = 1
SYMMETRY TabSymmetry
INVARIANTS
  SweptIsClear
  RevocationComplete
  GrantsOnlyEnabled
PROPERTIES
  SessionsIndependent
CHECK_DEADLOCK FALSE
