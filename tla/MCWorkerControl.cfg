CONSTANTS
  Workers = {1, 2}
  BreakerCrashes = 2
  Fragile = {1}
  Edited = {1}
  Heads <- MCHeads
  Installations <- MCInstallations
  MaxClose = 1
SPECIFICATION LiveSpec
INVARIANT ControlTypeOK
PROPERTIES
  StopHolds
  KeepsGoing
  ExitCompletes
CHECK_DEADLOCK FALSE
