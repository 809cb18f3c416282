\* Nothing else happens: the object is not there, or a request is refused.
CONSTANTS
  Names <- MCNames
  Args <- MCArgs
  PageSize = 2
  MaxEvents = 0
SPECIFICATION FairSpec
PROPERTIES
  FailureEnds
