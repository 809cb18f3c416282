\* A file of exactly one chunk; the retries make the run long enough.
CONSTANTS
  Size = 3
  ChunkSize = 3
  Concurrency = 1
  Retry = 30
  AbortOnFailure = FALSE
  Resuming = FALSE
  PrevChunkSize = 3
  PageSize = 1000
  NetFates = {"answered", "unanswered", "refused", "unsent", "redirected"}
SPECIFICATION Spec
INVARIANTS
  StoresTheFile
