\* Three full parts and a shorter last one, two uploads at a time.
CONSTANTS
  Blocks = 7
  PartBlocks = 2
  Concurrency = 2
  Retry = 1
  AbortOnFailure = TRUE
  PartsCap = 1000
  DiskFaults = TRUE
  ReadFaults = TRUE
  NetFates = {"answered", "unanswered", "refused", "unsent"}
SPECIFICATION Spec
INVARIANTS
  ClosesAfterWorkers
  LosesOnlyFailedParts
PROPERTIES
  Returns
