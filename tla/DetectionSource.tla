-------------------------- MODULE DetectionSource --------------------------
(***************************************************************************)
(* What the mitigation planes may rely on from a detector (the Detector    *)
(* trait of crates/blackwall-flow/src/detector.rs, polled by run_collector *)
(* in collector_net.rs): for one target the events of one process are      *)
(* Opened, any number of Updated, Cleared, and then Opened again.  A poll  *)
(* yields at most one event for a target.  A restart forgets every open    *)
(* detection without a Cleared.                                            *)
(***************************************************************************)
CONSTANT Dst       \* the addresses observations speak of

VARIABLES
    open,          \* the targets with an open detection
    events         \* what the last poll returned

vars == <<open, events>>

Event(kind, S) == {[kind |-> kind, target |-> d] : d \in S}

Init == open = {} /\ events = {}

\* One poll: the targets in O open, those in U go on, those in C clear.
Poll(O, U, C) ==
    /\ O \cap open = {}
    /\ U \cup C \subseteq open
    /\ U \cap C = {}
    /\ open' = (open \cup O) \ C
    /\ events' = Event("Opened", O) \cup Event("Updated", U) \cup Event("Cleared", C)

Restart == open' = {} /\ events' = {}

Next == Restart \/ \E O, U, C \in SUBSET Dst : Poll(O, U, C)

Spec == Init /\ [][Next]_vars
=============================================================================
