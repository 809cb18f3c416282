\* Any of the four parts is left over, two of them fit in a page of ListParts.
\* The default concurrency: deadlock is checked.
CONSTANTS
  Size = 10
  ChunkSize = 3
  Concurrency = 1
  Retry = 1
  AbortOnFailure = TRUE
  Resuming = TRUE
  PrevChunkSize = 3
  PageSize = 2
  NetFates = {"answered", "garbled", "unanswered", "refused", "unsent"}
SPECIFICATION Spec
INVARIANTS
  StoresTheFile
PROPERTIES
  Returns
