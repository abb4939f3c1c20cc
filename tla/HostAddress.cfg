CONSTANTS
  Inputs <- MCInputs
SPECIFICATION Spec
INVARIANTS IndexInBounds ReadsAsMeant WriteReads
PROPERTIES Terminates
CHECK_DEADLOCK FALSE
