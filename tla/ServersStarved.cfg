\* Not a run: a statement of the source that does not hold.
\* The priorities of apps/multiserver: the root task yields above the servers.
SPECIFICATION Spec
CONSTANTS
  PAGE = 16
  WORD_SPAN = 4096
  SUM_SPAN = 2048
  Deployments <- MCMultiserver
  None = None
PROPERTIES
  Completes
CHECK_DEADLOCK FALSE
