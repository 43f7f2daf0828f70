SPECIFICATION Spec
CONSTANTS
  NumPages = 13
  HostPages <- NoPages
  Lo <- HeapLo
  Hi <- HeapHi
  StackPages <- NoPages
  GuardSize = 1
  Granularity = 2
  PrivateOnHeap = FALSE
  Sizes <- OneTwo
  Guards <- NoneOne
INVARIANTS
  PayloadBacked
  GuardsUnmapped
  FirstFitIsExact
CHECK_DEADLOCK FALSE
