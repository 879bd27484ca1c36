CONSTANTS
  Drivers <- AllDrivers
  MayFail <- Fallible
  Bases <- Pages
  MaxFiles = 3
  LateOpen = FALSE
SPECIFICATION Spec
INVARIANTS FilesAreSafe
