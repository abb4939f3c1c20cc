CONSTANTS
  Word       <- MCWord
  Letter     <- MCLetter
  Lowercase  <- MCLowercase
  Openings   <- MCOpenings
  References <- MCReferences
  MaxTail = 2
SPECIFICATION Spec
INVARIANTS ParserOutputWellFormed DotSegmentsResolved PositionsAgree
PROPERTIES RoundTripsPreserved AbsoluteIgnoresBase RelativeKeepsAuthority
