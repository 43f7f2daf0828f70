\* A multimedia timer callback that makes a window callback is entered again.
SPECIFICATION Spec
CONSTANTS
  Machines <- Reentry
  KeyDelay = 2
  MaxQueue = 1
  MaxMmTimers = 1
  MaxElapsed = 1
CHECK_DEADLOCK FALSE
INVARIANTS
  MmNotReentered
