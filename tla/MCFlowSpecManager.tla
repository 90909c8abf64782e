------------------------- MODULE MCFlowSpecManager -------------------------
(***************************************************************************)
(* Instances of FlowSpecManager for TLC.                                   *)
(***************************************************************************)
EXTENDS FlowSpecManager, TLC

CONSTANTS a, k1, k2, r1, r2

\* One attacked target with two rules.
MCTargetOf == [k \in {k1, k2} |-> a]

\* Room for both rules; room for one, and another selector rate; the target
\* protected.
Roomy    == [eligible |-> {a}, protected |-> {}, max_rules |-> 2, rate |-> r1]
Tight    == [Roomy EXCEPT !.max_rules = 1, !.rate = r2]
Protects == [Roomy EXCEPT !.protected = {a}]

MCConfigs == {Roomy, Tight, Protects}

\* The two rules differ in nothing else.
Keys == Permutations({k1, k2})
=============================================================================
