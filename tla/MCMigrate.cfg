SPECIFICATION FairSpec
CONSTANTS
  server = server
  up = up
  cli = cli
  Processes <- MCProcesses
  bare = bare
  Migrating <- MCMigrating
  Servers <- MCServers
  Idempotent <- MCIdempotent
  LastFile = 3
  MaxFaults = 2
INVARIANTS TypeOK RecordIsTrue UpIsMigrated SomeoneMigrates
PROPERTY ServersComeUp
