\* Two names, sizes up to 2, request ids that wrap after 2 requests.
SPECIFICATION FairSpec
CONSTANTS
  IdSpace = 3
  Transfers <- AllTransfers
  Keys = {1, 2}
  MaxSize = 2
  Guests <- FileGuests
INVARIANTS
  OneTransfer
  EntryCoversWrites
  SizesBacked
PROPERTIES
  BlockingCalls
  TransferEnds
CHECK_DEADLOCK FALSE
