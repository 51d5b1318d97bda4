SPECIFICATION LiveSpec
CONSTANTS
  Members <- MCMembers
  Order <- MCOrder
  Runs <- MCRuns
  Callers <- MCRuns
  MaxFaults = 2
  OneMishap = TRUE
  MaxRevisions = 3
INVARIANTS
    AcceptedStands
PROPERTIES
    AcceptBindsClaim
    InitCompletes
CHECK_DEADLOCK FALSE
