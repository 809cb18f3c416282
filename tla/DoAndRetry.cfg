\* The default of three requests, plus one: a first, two repeated and a last one.
CONSTANT Retry = 3
SPECIFICATION Spec
INVARIANTS
  TypeOK
  RepeatsNeedALoss
  NilErrorIsAnswered
  GivesUpOnlyAtTheEnd
PROPERTIES
  NothingAfterTheEnd
  Returns
