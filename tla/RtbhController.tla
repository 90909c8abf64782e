--------------------------- MODULE RtbhController ---------------------------
(***************************************************************************)
(* The pure RTBH (remotely triggered black hole) decision engine of        *)
(* crates/blackwall-rtbh/src/controller.rs.  It owns the set of active     *)
(* blackholes and decides which host routes to announce and to withdraw;   *)
(* RtbhManager executes the decisions.                                     *)
(*                                                                         *)
(* The engine never looks at an absolute time, only at how long ago an     *)
(* entry was announced and last refreshed.  An entry therefore carries two *)
(* saturating ages in place of the two timestamps: held, the time since    *)
(* announced_at up to HoldDown, and idle, the time since last_activity up  *)
(* to MaxTtl.  Saturation loses nothing: the code only compares            *)
(* now - announced_at with hold_down and now - last_activity with max_ttl. *)
(* clear_requested_at is only ever tested for presence, so it is the       *)
(* Boolean clear.                                                          *)
(***************************************************************************)
EXTENDS Integers, FiniteSets, PartialMaps

CONSTANTS
    Target,      \* the addresses detections and requests speak of
    HoldDown,    \* hold_down: units before a Cleared may withdraw
    MaxTtl,      \* max_ttl: units without activity before an auto entry expires
    TtlEnabled   \* FALSE stands for max_ttl = None

ASSUME TargetFinite == IsFiniteSet(Target)
ASSUME TimersAssumption ==
    HoldDown \in Nat /\ MaxTtl \in Nat /\ TtlEnabled \in BOOLEAN

Origin == {"Auto", "Manual"}

Entry == [origin : Origin, held : 0..HoldDown, idle : 0..MaxTtl, clear : BOOLEAN]

\* The part of RtbhConfig a restart may change.  A prefix list is the set of
\* targets it covers; next_hop is the set of targets whose address family has
\* a next hop.
Config == [eligible : SUBSET Target, protected : SUBSET Target,
           next_hop : SUBSET Target, max_blackholes : Nat]

is_eligible(c, t)  == t \in c.eligible
is_protected(c, t) == t \in c.protected
has_next_hop(c, t) == t \in c.next_hop

\* No configuration check stands in the way of blackholing t.
Admissible(c) ==
    {t \in Target : ~is_protected(c, t) /\ is_eligible(c, t) /\ has_next_hop(c, t)}

NewEntry(origin) == [origin |-> origin, held |-> 0, idle |-> 0, clear |-> FALSE]

\* Mutant of Inserts: no self-protection guard.
Mutant_Unprotected(c, a, t) ==
    /\ is_eligible(c, t) /\ has_next_hop(c, t) /\ t \notin DOMAIN a
    /\ Cardinality(DOMAIN a) < c.max_blackholes

\* insert_blackhole inserts a new entry and emits Announce.
Inserts(c, a, t) ==
    /\ ~is_protected(c, t)
    /\ is_eligible(c, t)
    /\ t \notin DOMAIN a
    /\ Cardinality(DOMAIN a) < c.max_blackholes
    /\ has_next_hop(c, t)

\* insert_blackhole finds the target active: the pending clear is cancelled
\* and the activity anchor moves, nothing is emitted.
Reasserts(c, a, t) ==
    /\ ~is_protected(c, t)
    /\ is_eligible(c, t)
    /\ t \in DOMAIN a

Reasserted(e) == [origin |-> e.origin, held |-> e.held, idle |-> 0, clear |-> FALSE]

\* on_event(Updated): same effect, but on any active target.
Refreshed(a, t) ==
    IF t \in DOMAIN a THEN Put(a, t, Reasserted(a[t])) ELSE a

\* request_clear, its three live arms: Manual is ignored, an entry past its
\* hold-down is withdrawn now, any other is left for a later tick.
ClearsNow(a, t) ==
    t \in DOMAIN a /\ a[t].origin # "Manual" /\ a[t].held >= HoldDown

DefersClear(a, t) ==
    t \in DOMAIN a /\ a[t].origin # "Manual" /\ a[t].held < HoldDown

ClearDeferred(e) == [e EXCEPT !.clear = TRUE]

\* Mutant of Upgraded: the upgrade forgets to cancel a pending clear.
Mutant_UpgradeKeepsClear(e) == [e EXCEPT !.origin = "Manual"]

\* manual_add on an active target: upgrade it and cancel a pending clear.
Upgraded(e) == [origin |-> "Manual", held |-> e.held, idle |-> e.idle, clear |-> FALSE]

\* Mutant of ClearDue: the tick handles only the TTL.
Mutant_NoDeferredClear(e) == FALSE

\* Mutant of TtlDue: the TTL is never looked at.
Mutant_NoTtl(e) == FALSE

\* tick: the entries it removes and withdraws.
ClearDue(e) == e.clear /\ e.held >= HoldDown
TtlDue(e)   == e.origin = "Auto" /\ TtlEnabled /\ e.idle >= MaxTtl
Expired(a)  == {t \in DOMAIN a : ClearDue(a[t]) \/ TtlDue(a[t])}

\* One unit of time passes for every entry.
Older(e) ==
    [origin |-> e.origin, clear |-> e.clear,
     held |-> IF e.held < HoldDown THEN e.held + 1 ELSE e.held,
     idle |-> IF e.idle < MaxTtl THEN e.idle + 1 ELSE e.idle]

Aged(a) == [t \in DOMAIN a |-> Older(a[t])]
=============================================================================
