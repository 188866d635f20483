\* Two requests in a row, each of up to two actions: a late reply or packet of
\* the first can meet the second.
CONSTANTS
  MaxJobs = 2
  MaxRequest = 3
  MaxActions = 2
  MaxPolls = 1
SPECIFICATION FairSpec
INVARIANTS
  SlotIInv
  TransferInv
  PrepareFindsSlotFree
PROPERTIES
  KeepsPromise
  EveryRequestIsAnswered
