SPECIFICATION FairSpec
CONSTANTS
  Ids = {1, 2, 3}
  Keys = {1, 2, 3, 4}
  None = None
  Lists = {"athletes", "results", "users", "roles", "loginLogs", "operaLogs"}
  Sizes = {1, 2}
  MaxCommits = 2
INVARIANTS
  TypeOK
  MissedForAReason
  RepeatedForAReason
  PageAgreesWithTotal
  EndsOnLastPage
PROPERTIES
  WalkEnds
CHECK_DEADLOCK FALSE
