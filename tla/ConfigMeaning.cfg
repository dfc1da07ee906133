\* A file of version 1 with a number where the migration looks for a string, and a path.
SPECIFICATION Spec
CONSTANTS
  UserFiles <- NumberAndPath
  EnvSettings = {}
  FlagSettings = {}
INVARIANTS RunsAsMeant
