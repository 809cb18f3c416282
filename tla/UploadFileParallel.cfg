\* Four parts, the last one shorter, and fewer tokens than parts.
\* UploadFile may stop for ever in the loop that sends the tokens.
CONSTANTS
  Size = 10
  ChunkSize = 3
  Concurrency = 3
  Retry = 1
  AbortOnFailure = TRUE
  Resuming = FALSE
  PrevChunkSize = 3
  PageSize = 1000
  NetFates = {"answered", "unanswered", "refused", "unsent"}
SPECIFICATION Spec
CHECK_DEADLOCK FALSE
INVARIANTS
  TypeOK
  AtMostConcurrency
  ClosesAfterWorkers
  StuckOnlyWhenDone
  OrphansBounded
PROPERTIES
  FailureTriesAbort
  EveryPartTried
  ImplementsAtomic
