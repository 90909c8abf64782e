--------------------------- MODULE MCRtbhManager ---------------------------
(***************************************************************************)
(* Instances of RtbhManager for TLC.                                       *)
(***************************************************************************)
EXTENDS RtbhManager

CONSTANTS a, b

MCTarget == {a, b}

\* Everything admissible; then room for one target only, b protected, no next hop
\* for b, b outside the eligible prefixes.
Roomy     == [eligible |-> {a, b}, protected |-> {}, next_hop |-> {a, b}, max_blackholes |-> 2]
Tight     == [Roomy EXCEPT !.max_blackholes = 1]
Protects  == [Roomy EXCEPT !.protected = {b}]
NoNextHop == [Roomy EXCEPT !.next_hop = {a}]
Narrow    == [Roomy EXCEPT !.eligible = {a}]

TightConfig == {Tight}
AllConfigs  == {Roomy, Tight, Protects, NoNextHop, Narrow}
(***************************************************************************)
(* The request queue.  One run looks at two parts of the state space, each *)
(* bounded where the other is not: "cap" has two targets competing for one *)
(* blackhole and nothing that loses track of a row (no lapse, no disarm);  *)
(* "faults" has every incident, on one target.  The run on configurations  *)
(* and faults is not divided.                                              *)
(***************************************************************************)
VARIABLE part

InPart ==
    /\ part = "cap"    => lapses' = {} /\ ~disarmed'
    /\ part = "faults" => /\ DOMAIN active' \subseteq {a}
                          /\ \A i \in DOMAIN reqs' : reqs'[i].target = a

FaultsInit == Init /\ part = "all"

FaultsSpec == FaultsInit /\ [][Next /\ UNCHANGED part]_<<vars, part>>

RequestsInit == Init /\ part \in {"cap", "faults"}

RequestsNext == Next /\ InPart /\ UNCHANGED part

RequestsSpec ==
    RequestsInit /\ [][RequestsNext]_<<vars, part>>
        /\ WF_vars(Tick) /\ WF_vars(ApplyRequest) /\ WF_vars(Elapse)
=============================================================================
