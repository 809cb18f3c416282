CONSTANTS
  GetNames <- MCGetNames
  GetArgs <- MCGetArgs
  ListNames <- MCListNames
  ListArgs <- MCListArgs
  PutNames <- MCPutNames
  PutRoots <- MCPutRoots
  PutKeys <- MCPutKeys
  PageSize = 2
  MaxEvents = 1
  Retry = 2
  NetFates <- MCFates
  Commands <- MCCommands
  Disks <- MCDisks
SPECIFICATION FairSpec
INVARIANTS
  TypeOK
  RunsAsConfigured
  ZeroMeansGot
  ZeroMeansPut
  ZeroMeansDone
  Listed
  ListedOnce
PROPERTIES
  GotOnlyNamed
  Ends
