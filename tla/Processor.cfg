\* Bytes of 3 bits, registers of 6; an x87 stack of 3 numbers.
SPECIFICATION Spec
CONSTANTS
  ByteBits = 3
  LongBits = 6
  Depth = 3
  Number = 2
  Trusted = {}
  Machines <- AllMachines
INVARIANTS
  ArithmeticExact
  ComparisonsDecide
  ProgramsCompute
  
CHECK_DEADLOCK FALSE
