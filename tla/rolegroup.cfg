SPECIFICATION FairSpec
CONSTANTS
  Inputs <- MCInputs
  Edited <- MCEdited
  MaxEdits = 2
  MaxChanges = 2
INVARIANTS TypeOK ReferencesResolve FilesProvided WebAnswered ServicesReach
INVARIANTS EnvResolved LoginsPossible DataOnClaim
PROPERTIES PodsGetConfig OidcFollowsClass
