SPECIFICATION Spec
CONSTANTS
  ann = ann
  bob = bob
  run = run
  jump = jump
  sprint = sprint
  long = long
  cupA = cupA
  cupB = cupB
  club = club
  None = None
  Athletes <- TheAthletes
  Athlete = ann
  Rows <- TheRows
  Normal <- Units
  LatestSize = 2
  TopSize = 3
  Heaps <- TheHeaps
  MaxWrites = 1
INVARIANTS
  TypeOK
  SeasonsPartitionHistory
  BestIsUnbeaten
  EvolutionIsChronological
  QuietFiguresAgree
