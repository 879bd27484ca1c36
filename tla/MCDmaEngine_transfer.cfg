SPECIFICATION FairSpec
CONSTANTS
  NumWords = 12
  DEPTH = 4
  undefined = undefined
  Undefined <- undefined
INVARIANTS EndsDrained
PROPERTIES ImplementsDmaEngine TransferEnds
