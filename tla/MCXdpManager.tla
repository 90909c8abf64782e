---------------------------- MODULE MCXdpManager ----------------------------
(***************************************************************************)
(* Instances of XdpManager for TLC.                                        *)
(***************************************************************************)
EXTENDS XdpManager

CONSTANTS v1, v2, s1, s2, n1, r1, r2

\* Both victims and no network are the operator's own; a start after v2 was
\* protected and n1 became own space; a start without a default rate limit.
Both     == [auto |-> TRUE, eligible |-> {v1, v2} \cap Victim, own |-> {}]
Changed  == [auto |-> TRUE, eligible |-> {v1} \cap Victim, own |-> {n1} \cap Net]
Manually == [Both EXCEPT !.auto = FALSE]

AllConfigs == {Both, Changed, Manually}
=============================================================================
