\* Every file of MCConfigMigration through starts, failed writes and restarts.
SPECIFICATION Spec
CONSTANTS
  UserFiles <- SomeFiles
  EnvSettings = {"policy"}
  FlagSettings = {"policy"}
INVARIANTS TypeOK NeverLost TakenOverAsMeant
