\* Two windows, headless and with a live frontend that begins frames at any time.
SPECIFICATION PumpSpec
CONSTANTS
  w1 = w1  w2 = w2  null = null  a1 = a1
  Windows <- TwoWindows
  Desktop = null
  LastToken = 2
  MaxPosted = 1
  Posts <- Posted
  Hits <- Missing
  Procs <- Callable
  Reparents <- Moved
INVARIANTS PaintThrottled
PROPERTIES AncestorsFirst NoLostPaint QueueDrains
CHECK_DEADLOCK FALSE
