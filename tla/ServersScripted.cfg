\* Every server with every caller, in every order of priorities.
SPECIFICATION Spec
CONSTANTS
  PAGE = 16
  WORD_SPAN = 4096
  SUM_SPAN = 2048
  Deployments <- MCDeployments
  None = None
INVARIANTS
  TypeOK
  ScriptsPass
PROPERTIES
  ImplementsCall
  Completes
CHECK_DEADLOCK FALSE
