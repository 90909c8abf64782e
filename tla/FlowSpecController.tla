------------------------- MODULE FlowSpecController -------------------------
(***************************************************************************)
(* The pure FlowSpec decision engine of                                    *)
(* crates/blackwall-rtbh/src/flowspec_controller.rs.  A target may have    *)
(* several active rules, one per flow key (destination, protocol, port).   *)
(* A rule's traffic rate is not part of its key, so it can change in       *)
(* place; until the new rate is confirmed the entry remembers the prior    *)
(* one.  Times are saturating ages, as in RtbhController.                  *)
(***************************************************************************)
EXTENDS Integers, FiniteSets, PartialMaps

CONSTANTS
    Target,     \* the addresses detections and requests speak of
    Key,        \* the flow keys
    TargetOf,   \* the destination of a key
    Rate,       \* traffic-rate actions
    NoRate,     \* pending_prior = None
    HoldDown,   \* hold_down: units before a Clear may withdraw
    MaxTtl,     \* max_ttl: units without activity before an auto rule expires
    TtlEnabled  \* FALSE stands for max_ttl = None

ASSUME KeysAssumption ==
    IsFiniteSet(Key) /\ TargetOf \in [Key -> Target] /\ NoRate \notin Rate
ASSUME TimersAssumption ==
    HoldDown \in Nat /\ MaxTtl \in Nat /\ TtlEnabled \in BOOLEAN

Origin == {"Auto", "Manual"}

Entry == [rate : Rate, prior : Rate \cup {NoRate}, origin : Origin,
          held : 0..HoldDown, idle : 0..MaxTtl, clear : BOOLEAN]

\* FlowSpecConfig with the selector's rate, both read at the start.  A prefix
\* list is the set of targets it covers.
Config == [eligible : SUBSET Target, protected : SUBSET Target,
           max_rules : Nat, rate : Rate]

KeysOf(t) == {k \in Key : TargetOf[k] = t}

\* No configuration check stands in the way of a rule for the key.
Admissible(c) ==
    {k \in Key : TargetOf[k] \notin c.protected /\ TargetOf[k] \in c.eligible}

NewEntry(rate, origin) ==
    [rate |-> rate, prior |-> NoRate, origin |-> origin, held |-> 0, idle |-> 0,
     clear |-> FALSE]

\* Mutant of PriorOf: an update in place does not save the confirmed rate.
Mutant_ForgetsPrior(e, rate) == e.prior

\* A changed rate saves the confirmed one; an old save is otherwise left stale.
PriorOf(e, rate) == IF e.rate # rate THEN e.rate ELSE e.prior

\* insert_rule on an active key: cancel a pending clear, refresh the activity
\* anchor, take over the rate.
Reasserted(e, rate) ==
    [rate |-> rate, prior |-> PriorOf(e, rate), origin |-> e.origin, held |-> e.held,
     idle |-> 0, clear |-> FALSE]

\* manual_add on an active key: the operator owns it, the clear is cancelled.
Upgraded(e, rate) ==
    [rate |-> rate, prior |-> PriorOf(e, rate), origin |-> "Manual", held |-> e.held,
     idle |-> e.idle, clear |-> FALSE]

\* refresh_target: Update carries no rules, so every rule of t is refreshed.
Refreshed(a, t) ==
    [k \in DOMAIN a |->
        IF k \in KeysOf(t) THEN [a[k] EXCEPT !.idle = 0, !.clear = FALSE] ELSE a[k]]

\* Mutant of Restored: the unconfirmed rate stays.
Mutant_KeepsUnconfirmed(e) == [e EXCEPT !.prior = NoRate]

\* rollback, update in place: back to the rate the router still holds.
Restored(e) == [e EXCEPT !.rate = e.prior, !.prior = NoRate]

\* rollback of the keys in F: a brand-new entry goes, an updated one is restored.
RolledBack(a, F) ==
    [k \in DOMAIN a \ {f \in F : a[f].prior = NoRate} |->
        IF k \in F THEN Restored(a[k]) ELSE a[k]]

\* Of the new keys N, those insert_rule lets in before the cap is reached.  The
\* order of a rule list is by weight, so any of them may come first.
Fitting(c, a, N) ==
    {S \in SUBSET N :
        /\ Cardinality(DOMAIN a) + Cardinality(S) <= c.max_rules
        /\ S # N => Cardinality(DOMAIN a) + Cardinality(S) = c.max_rules}

\* clear_target: operator rules are skipped, rules past their hold-down go now,
\* the others are left for a tick.
Clearable(a, t) == {k \in DOMAIN a \cap KeysOf(t) : a[k].origin # "Manual"}
ClearsNow(a, t) == {k \in Clearable(a, t) : a[k].held >= HoldDown}
ClearsLater(a, t) ==
    [k \in DOMAIN a |->
        IF k \in Clearable(a, t) \ ClearsNow(a, t) THEN [a[k] EXCEPT !.clear = TRUE]
                                                   ELSE a[k]]

\* tick: the entries it removes and withdraws.
ClearDue(e) == e.clear /\ e.held >= HoldDown
TtlDue(e)   == e.origin = "Auto" /\ TtlEnabled /\ e.idle >= MaxTtl
Expired(a)  == {k \in DOMAIN a : ClearDue(a[k]) \/ TtlDue(a[k])}

\* One unit of time passes for every entry.
Older(e) ==
    [e EXCEPT !.held = IF e.held < HoldDown THEN e.held + 1 ELSE e.held,
              !.idle = IF e.idle < MaxTtl THEN e.idle + 1 ELSE e.idle]

Aged(a) == [k \in DOMAIN a |-> Older(a[k])]
=============================================================================
