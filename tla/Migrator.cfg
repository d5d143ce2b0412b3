SPECIFICATION FairSpec
CONSTANTS
    Instances = {i1, i2, i3}
    Migrations <- MigrationFiles
    Objects <- SchemaObjects
    MaxCrashes = 1
INVARIANTS ListensOnlyMigrated
PROPERTIES NoStatementTakesEffectTwice EveryInstanceComesUp
CHECK_DEADLOCK FALSE
