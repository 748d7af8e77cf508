SPECIFICATION FairMigrationSpec
CONSTANTS
    Migrators = {m1, m2, m3}
    MaxStops = 2
INVARIANTS
    RecordedIsApplied
    ServedSchemaIsComplete
    LockedNeverCollide
PROPERTIES
    SchemaGetsReady
CHECK_DEADLOCK FALSE
