------------------------ MODULE MCTopologyAcceptance ------------------------
(* An instance of TopologyAcceptance: a prefill and a decode worker, and the *)
(* restart of a world that an earlier, sealed run had started.               *)
EXTENDS TopologyAcceptance

MCWorkers == {"d0", "p0"}
MCOrder == <<"d0", "p0">>
=============================================================================
