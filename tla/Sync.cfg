CONSTANTS
  N = 2
  PageSize = 1
  MaxLen = 2
  MaxChanges = 3
  MaxRuns = 2
SPECIFICATION Spec
INVARIANTS
  TypeOK
  NoChangeIsEqual
  UpSettles
  DownSettles
\* After the last run and change nothing is left to do.
CHECK_DEADLOCK FALSE
