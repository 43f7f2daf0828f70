SPECIFICATION Spec
CONSTANTS
  NumPages = 13
  HostPages <- VirtRefused
  Lo <- VirtLo
  Hi <- VirtHi
  StackPages <- VirtStack
  GuardSize = 1
  Granularity = 2
  PrivateOnHeap = FALSE
  Sizes <- OneTwo
  Guards <- NoneOne
INVARIANTS
  SpansDisjoint
  StackKept
  NoLeakedPage
PROPERTIES
  RefinesAddressSpace
  OnlyOwnedPagesChange
CHECK_DEADLOCK FALSE
