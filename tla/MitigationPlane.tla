-------------------------- MODULE MitigationPlane --------------------------
(***************************************************************************)
(* What a mitigation plane promises, whatever its rules look like: the     *)
(* contract that the RTBH and FlowSpec managers of blackwall-rtbh and the  *)
(* manager of blackwall-xdp (by their module documentation: commit after   *)
(* confirm, best-effort withdraw, rehydrate and self-heal, one-way disarm) *)
(* are held to.  An item is a blackhole, a flow rule, a blocked network or *)
(* a rate-limited source.                                                  *)
(***************************************************************************)
CONSTANT Item

VARIABLES
    up,      \* the daemon runs
    killed,  \* the operator disarmed it
    wanted,  \* items the controller believes active
    live,    \* items the dataplane has taken and not given back
    owed     \* items brought back by a restart, not yet confirmed

vars == <<up, killed, wanted, live, owed>>

\* New items become wanted only together with being live, and never after a
\* disarm.  An item that is wanted already may be installed again.
Confirm ==
    /\ up /\ ~killed
    /\ wanted \subseteq wanted' /\ live \subseteq live'
    /\ wanted' \ wanted \subseteq live' \cap Item
    /\ live' \ live \subseteq wanted'
    /\ UNCHANGED <<up, killed, owed>>

\* Items are given up.  The dataplane lets go of some of them, and of items given
\* up before that it had kept, but of none that is still wanted.
Release ==
    /\ up
    /\ wanted' \subseteq wanted /\ live' \subseteq live
    /\ live \cap wanted' \subseteq live'
    /\ UNCHANGED <<up, killed, owed>>

\* The periodic step: of the owed items still wanted some are confirmed and the
\* others stay owed; then items are given up as above.
Settle ==
    LET due       == owed \cap wanted
        confirmed == due \ owed'
    IN
    /\ up
    /\ owed' \subseteq due
    /\ wanted' \subseteq wanted
    /\ live' \subseteq live \cup confirmed
    /\ (live \cup confirmed) \ live' \subseteq wanted \ wanted'
    /\ UNCHANGED <<up, killed>>

\* Disarm: everything is given up, best effort, for good.
Kill ==
    /\ up
    /\ killed' = TRUE
    /\ wanted' = {}
    /\ live' \subseteq live
    /\ live \ live' \subseteq wanted
    /\ UNCHANGED <<up, owed>>

\* The process ends; the dataplane forgets with it.
Die ==
    /\ up' = FALSE
    /\ killed' = FALSE
    /\ wanted' = {} /\ live' = {} /\ owed' = {}

\* A start brings items back; the dataplane takes some at once, the rest is owed.
Start ==
    /\ ~up
    /\ up' = TRUE
    /\ wanted' \subseteq Item
    /\ live' \subseteq wanted'
    /\ owed' = wanted' \ live'
    /\ UNCHANGED killed

Init == ~up /\ ~killed /\ wanted = {} /\ live = {} /\ owed = {}

Next == Confirm \/ Release \/ Settle \/ Kill \/ Die \/ Start

Spec == Init /\ [][Next]_vars
=============================================================================
