SPECIFICATION Spec
CONSTANTS
  c1 = c1
  c2 = c2
  boss = boss
  jane = jane
  ann = ann
  bob = bob
  demo = demo
  chief = chief
  L1 = L1
  L2 = L2
  LDemo = LDemo
  LBlank = LBlank
  Blank = LBlank
  None = None
  Boss = boss
  Jane = jane
  DemoEmails = {demo, chief}
  DemoEmail = demo
  Clients = {c1, c2}
  Operations <- AccountOperations
  Emails = {ann}
  Licenses = {L2, LBlank}
  DemoLicense = LDemo
  AdminEmail = chief
  JaneLicense = L1
  Databases = {"fresh", "inUse"}
  RequestsMayFail = TRUE
  MaxId = 3
  MaxResult = 2
SYMMETRY ClientSymmetry
INVARIANTS
  TypeOK
  OneProfilePerAccount
  OnlyLicencesDeadlock
PROPERTIES
  ImplementsRegistry
  SequentialNeverErrors
CHECK_DEADLOCK FALSE
