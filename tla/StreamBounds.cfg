\* Four full parts: one more file than the channels hold.  The responses
\* may be undecodable and the third part is beyond the slice.
CONSTANTS
  Blocks = 8
  PartBlocks = 2
  Concurrency = 2
  Retry = 1
  AbortOnFailure = TRUE
  PartsCap = 3
  DiskFaults = TRUE
  ReadFaults = TRUE
  NetFates = {"answered", "garbled", "refused", "redirected"}
SPECIFICATION Spec
INVARIANTS
  TypeOK
  FilesBounded
  UploadsBounded
