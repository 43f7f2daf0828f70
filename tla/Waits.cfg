\* Live frontends and a headless run with a script: everything a guest can wait for.
SPECIFICATION FairSpec
CONSTANTS
  Machines <- WaitingMachines
  KeyDelay = 2
  MaxQueue = 1
  MaxMmTimers = 1
  MaxElapsed = 1
CHECK_DEADLOCK FALSE
INVARIANTS
  FramesMatchStack
  WaitingMeansIdle
PROPERTIES
  WaitsEnd
  SleepsLongEnough
  JournalReplayed
