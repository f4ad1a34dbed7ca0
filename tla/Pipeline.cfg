SPECIFICATION FairSpec
CONSTANTS
  r1 = r1
  r2 = r2
  boss = boss
  ann = ann
  None = None
  Slots = {r1, r2}
  Accounts = {boss, ann}
  Boss = boss
  Settings <- ProdAndDemo
  CallsOf <- AllAndDeletions
  MaxLogged = 1
INVARIANTS
  TypeOK
  AnswersTellTheTruth
  CommitsAreTraced
  OnlyRoleHoldersCommit
PROPERTIES
  LostRoleIsForgotten
  LockoutIsFinal
