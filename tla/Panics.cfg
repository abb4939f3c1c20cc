CONSTANTS
  Word <- MCWord
  Letter <- MCLetter
  Lowercase <- MCLowercase
  InitUrls <- MCInitUrls
  Schemes <- MCSchemes
  Usernames <- MCUsernames
  Passwords <- MCPasswords
  Hosts <- MCHosts
  Ports <- MCPorts
  Paths <- MCPaths
  Queries <- MCQueries
  Fragments <- MCFragments
  SchemeOf <- ApiSchemeOf
  UserinfoText <- ApiUserinfoText
  HostOf <- ApiHostOf
  PathText <- ApiPathText
  OpaqueText <- ApiOpaqueText
  QueryText <- ApiQueryText
  FragmentText <- ApiFragmentText
SPECIFICATION Spec
INVARIANT NoPanic
