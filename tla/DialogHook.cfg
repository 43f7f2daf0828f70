SPECIFICATION Spec
CONSTANTS
  Handles = {1, 2, 3}
  Guests <- HookedDialogs
CHECK_DEADLOCK FALSE
INVARIANTS
  CallsReturn
