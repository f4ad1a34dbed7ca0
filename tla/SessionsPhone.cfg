SPECIFICATION Spec
CONSTANTS
  r1 = r1
  r2 = r2
  admin1 = admin1
  phone = phone
  laptop = laptop
  None = None
  Requests = {r1, r2}
  Admins = {}
  Browsers = {phone, laptop}
  BrowserOf <- PhoneAndLaptop
  MultiLogin = TRUE
  RefreshExcluded = TRUE
  RequestsMayFail = FALSE
  MaxTime = 1
  MaxCommits = 0
PROPERTIES
  PhoneLogoutKeepsLaptop
CHECK_DEADLOCK FALSE
