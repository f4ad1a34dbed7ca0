SPECIFICATION Spec
CONSTANTS
  Core = core
  Domain = domain
  Extra = extra
  MaxAttempts = 3
  MaxRevisions = 5
INVARIANTS
  TypeOK
  SchemaIsItsRevision
  ServingIsMigrated
  GivesUpOnlyOnFaults
  MigratedModelsReachProduction
PROPERTIES
  BootEnds
