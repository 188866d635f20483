\* Two crafts in a row of two ingredients each: what the first leaves behind
\* can meet the second.
CONSTANTS
  MaxJobs = 2
  Requests = {3}
  Yields = {2}
  Slots = 2
  MaxPolls = 1
SPECIFICATION FairSpec
INVARIANTS
  CraftInv
  CertainFailureConsumesNothing
PROPERTIES
  KeepsPromise
  EveryCraftIsAnswered
