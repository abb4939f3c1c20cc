CONSTANTS
  Word       <- MCWord
  Letter     <- MCLetter
  Lowercase  <- MCLowercase
  Openings   <- MCOpenings
  References <- MCReferences
  FilePaths  <- MCFilePaths
  MaxTail = 6
SPECIFICATION ConversionSpec
INVARIANTS OriginWritten
PROPERTIES RelativeComesBack RelativeWithinOrigin FilePathComesBack
  FileUrlRoundTrips DirectoryHoldsFiles
