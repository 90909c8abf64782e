------------------------ MODULE MCMitigationPipeline ------------------------
(***************************************************************************)
(* Instances of MitigationPipeline for TLC.                                *)
(***************************************************************************)
EXTENDS MitigationPipeline

CONSTANT a

OneTarget == {a}

OneConfig == {[eligible |-> Target, protected |-> {}, next_hop |-> Target, max_blackholes |-> 2]}
=============================================================================
