\* A part is refused and not retried.
CONSTANTS
  Blocks = 4
  PartBlocks = 2
  Concurrency = 1
  Retry = 0
  AbortOnFailure = TRUE
  PartsCap = 1000
  DiskFaults = FALSE
  ReadFaults = FALSE
  NetFates = {"answered", "refused"}
SPECIFICATION Spec
INVARIANTS
  StoresTheStream
