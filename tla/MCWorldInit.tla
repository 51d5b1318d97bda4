--------------------------- MODULE MCWorldInit ---------------------------
EXTENDS WorldInit
MCMembers == {"p0", "d0"}
MCOrder == <<"p0", "d0">>
MCRuns == {"r1", "r2"}
=============================================================================
