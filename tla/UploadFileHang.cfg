\* The smallest multipart upload with two tokens, and no failure at all.
CONSTANTS
  Size = 6
  ChunkSize = 3
  Concurrency = 2
  Retry = 0
  AbortOnFailure = FALSE
  Resuming = FALSE
  PrevChunkSize = 3
  PageSize = 1000
  NetFates = {"answered"}
SPECIFICATION Spec
CHECK_DEADLOCK FALSE
PROPERTIES
  Returns
