SPECIFICATION Spec
CONSTANTS
  Keep = 1
  MaxEvents = 1
  MaxBackups = 2
  MaxGenerations = 2
  MaxFaults = 1
  None = None
INVARIANTS SnapshotsArePaired PreMigrationIsRestorable BackupsAreHonest StaysRecoverable
PROPERTY UpdateEndsMatched
CHECK_DEADLOCK FALSE
