-------------------------- MODULE MCWorldRestart --------------------------
EXTENDS WorldRestart
MCMembers == {"p0", "d0"}
MCOrder == [p0 |-> 1, d0 |-> 2]
MCMaxFaults == [plain |-> 2, crash |-> 1, watchdog |-> 1]
MCCallers == {"restart"}
=============================================================================
