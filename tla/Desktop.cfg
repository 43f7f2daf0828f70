\* Windows, contexts, surfaces, menus and input on one small screen.
SPECIFICATION Spec
CONSTANTS
  LastHandle = 5
  LastSurface = 4
  LastObject = 2
  Width = 3
  Height = 2
  Keys <- AllKeys
  Shift = "Ctrl"
  Accelerators <- KeyTable
  MaxQueue = 4
  Scenes <- DesktopScenes
CHECK_DEADLOCK FALSE
INVARIANTS
  
  
  DesktopCurrent
  HitsWhatIsSeen
  WalkVisitsSiblings
