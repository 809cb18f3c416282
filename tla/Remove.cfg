CONSTANTS
  Names <- MCNames
  Args <- MCArgs
  PageSize = 2
  MaxEvents = 1
SPECIFICATION FairSpec
INVARIANTS
  TypeOK
  NamedGone
PROPERTIES
  OnlyNamed
  Ends
