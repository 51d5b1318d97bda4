SPECIFICATION LiveSpec
CONSTANTS
  Members <- MCMembers
  Order <- MCOrder
  Callers <- MCCallers
  OldGen = "old"
  NewGen = "new"
  MaxContainers = 3
  Modes = {"plain", "crash", "watchdog"}
  Victim = "d0"
  MaxFaults <- MCMaxFaults
  OneMishap = TRUE
  MaxJournal = 8
INVARIANTS
    NoOverlap
    PermitExclusive
    AcceptedWorld
PROPERTIES
    RunForward
    AskedRevisionOnly
    Completes
CHECK_DEADLOCK FALSE
