SPECIFICATION FairSpec
CONSTANTS
  r1 = r1
  r2 = r2
  admin1 = admin1
  phone = phone
  laptop = laptop
  None = None
  Requests = {r1}
  Admins = {admin1}
  Browsers = {phone}
  BrowserOf <- OneBrowser
  MultiLogin = FALSE
  RefreshExcluded = FALSE
  RequestsMayFail = TRUE
  MaxTime = 1
  MaxCommits = 2
INVARIANTS
  TypeOK
  IdentityIsCurrent
PROPERTIES
  DisabledEventuallyLockedOut
CHECK_DEADLOCK FALSE
