\* Creation, activation and owner drawing, with calls nested three deep.
SPECIFICATION Spec
CONSTANTS
  Handles = {1, 2, 3}
  Guests <- CallbackGuests
CHECK_DEADLOCK FALSE
INVARIANTS
  CallsReturn
  ItemsOwned
PROPERTIES
  RefinesSentMessages
