CONSTANTS
  Word          <- MCWord
  Letter        <- MCLetter
  Lowercase     <- MCLowercase
  InitUrls      <- MCInitUrls
  Schemes       = {}
  Usernames     = {}
  Passwords     = {}
  Hosts         = {}
  Ports         = {}
  Paths         <- MCPaths
  Queries       <- MCQueries
  Fragments     <- MCFragments
  SchemeOf      <- ApiSchemeOf
  UserinfoText  <- ApiUserinfoText
  HostOf        <- ApiHostOf
  PathText      <- ApiPathText
  OpaqueText    <- ApiOpaqueText
  QueryText     <- ApiQueryText
  FragmentText  <- ApiFragmentText
  PushArgs      <- MCPushArgs
  Names         <- MCNames
  PathAfterPush <- ApiPathAfterPush
  FormText      <- ApiFormText
  PushedTo      <- MCPushedTo
  MaxQuery = 2
SPECIFICATION GuardSpec
INVARIANTS GuardTypeOK WholeOncePutBack
PROPERTIES ImplementsLists EditsRoundTrip LostQueryGuardHarmless UnwoundTailReadable ClearIsEmptyQuery
