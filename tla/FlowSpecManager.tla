-------------------------- MODULE FlowSpecManager --------------------------
(***************************************************************************)
(* The single-owner FlowSpec manager                                       *)
(* (crates/blackwall-rtbh/src/flowspec_manager.rs) with the task that      *)
(* drives it (flowspec_manager_task and apply_flowspec_request in          *)
(* bin/blackwalld/src/main.rs) and its tables flowspec_rules, the journal, *)
(* and flowspec_requests (crates/blackwall-state/src/lib.rs).              *)
(*                                                                         *)
(* A handler is one action, as in RtbhManager.  What a rule carries beyond *)
(* its key, the traffic rate, is in four places that can disagree: the     *)
(* controller, the router, the journal and the queued journal writes.      *)
(***************************************************************************)
EXTENDS FlowSpecController, Sequences

CONSTANTS
    Configs,      \* the configurations a (re)start may read
    MaxRequests,  \* bound on the rows of flowspec_requests
    Incidents     \* what may go wrong in this instance

ASSUME ConfigsAssumption == Configs \subseteq Config /\ Configs # {}
ASSUME BoundsAssumption == MaxRequests \in Nat
ASSUME IncidentsAssumption ==
    Incidents \subseteq {"AnnounceFails", "WithdrawFails", "JournalFails",
                         "RequestTableFails", "Disarm", "Crash"}

VARIABLES
    running,          \* the daemon is up
    config,           \* the configuration this process read
    active,           \* FlowSpecController.active
    disarmed,         \* FlowSpecManager.disarmed
    pending_mirror,   \* FlowSpecManager.pending_mirror, by key
    pending_reapply,  \* FlowSpecManager.pending_reapply, its keys
    drain,            \* ids of the pending requests read and not yet applied
    wire,             \* rules the executor accepted and did not withdraw: key -> rate
    journal,          \* active rows of flowspec_rules
    reqs,             \* flowspec_requests, indexed by id
    disturbed         \* history: keys with a failed write, a refused withdraw, a
                      \* disarm or a dropped row since the start

vars == <<running, config, active, disarmed, pending_mirror, pending_reapply,
          drain, wire, journal, reqs, disturbed>>

Row == [rate : Rate, origin : Origin]

\* A queued MirrorOp is the row it writes, or the withdrawal of the row.
WithdrawOp == [rate |-> NoRate, origin |-> "Auto"]
MirrorOp   == Row \cup {WithdrawOp}

Request == [key : Key, rate : Rate \cup {NoRate}, action : {"add", "remove"},
            status : {"pending", "applied", "rejected"}]

\* The subsets of the awaits S that can succeed.
Succeeding(S, incident) == IF incident \in Incidents THEN SUBSET S ELSE {S}

(***************************************************************************)
(* The journal                                                             *)
(***************************************************************************)

\* record_flowspec, the row an upsert leaves: manual is never downgraded, the
\* rate is always the new one.
Upserted(j, k, row) ==
    [rate |-> row.rate,
     origin |-> IF k \in DOMAIN j /\ j[k].origin = "Manual" THEN "Manual" ELSE row.origin]

record_announces(j, D, row) ==
    [k \in DOMAIN j \cup D |-> IF k \in D THEN Upserted(j, k, row) ELSE j[k]]

\* retry_pending_mirror: replay the queued writes of the keys in S.
Replayed(j, q, S) ==
    [k \in (DOMAIN j \cup S) \ {s \in S : q[s] = WithdrawOp} |->
        IF k \in S THEN Upserted(j, k, q[k]) ELSE j[k]]

(***************************************************************************)
(* Executing the Announces of the keys in A.  a is the active set with     *)
(* them in it; the executor takes the keys in ok, the journal those in d.  *)
(* What was not taken (disarmed, rate cap or BGP failure) is rolled back.  *)
(***************************************************************************)

\* disarmed is asked before the rate limiter and BGP.
Takeable(A) == IF disarmed THEN {{}} ELSE Succeeding(A, "AnnounceFails")

execute_and_journal_announces(a, A, ok, row) ==
    \E d \in Succeeding(ok, "JournalFails") :
        /\ active' = RolledBack(a, A \ ok)
        /\ wire' = PutAll(wire, ok, row.rate)
        /\ journal' = record_announces(journal, d, row)
        /\ pending_mirror' = PutAll(pending_mirror, ok \ d, row)
        /\ disturbed' = disturbed \cup (ok \ d)

\* Executing the Withdraws of the keys in S on active set a, wire x, journal j
\* and queue q.
execute_and_journal_withdraws(a, S, x, j, q) ==
    \E w \in Succeeding(S, "WithdrawFails") :
    \E d \in Succeeding(w, "JournalFails") :
        /\ active' = Drop(a, S)
        /\ wire' = Drop(x, w)
        /\ journal' = Drop(j, d)
        /\ pending_mirror' = PutAll(q, w \ d, WithdrawOp)
        /\ disturbed' = disturbed \cup (S \ (w \cap d))
-----------------------------------------------------------------------------
(***************************************************************************)
(* Mitigation events from the selector                                     *)
(***************************************************************************)

\* The task is at its select!: up, and no drain in progress.
Idle == running /\ drain = {}

\* apply_open of the rules K: install inserts or re-asserts every rule first,
\* then the announces of the new and of the changed ones are executed.
Open(K) ==
    /\ Idle
    /\ K \subseteq Admissible(config)
    /\ \E S \in Fitting(config, active, K \ DOMAIN active) :
        LET rate == config.rate
            changed == {k \in K \cap DOMAIN active : active[k].rate # rate}
            installed == [k \in DOMAIN active \cup S |->
                            IF k \in S THEN NewEntry(rate, "Auto")
                            ELSE IF k \in K THEN Reasserted(active[k], rate) ELSE active[k]]
        IN \E ok \in Takeable(S \cup changed) :
              execute_and_journal_announces(installed, S \cup changed, ok,
                                            [rate |-> rate, origin |-> "Auto"])
    /\ UNCHANGED <<running, config, disarmed, pending_reapply, drain, reqs>>

\* apply_updated: the attack goes on.
Update(t) ==
    /\ Idle
    /\ active' = Refreshed(active, t)
    /\ UNCHANGED <<running, config, disarmed, pending_mirror, pending_reapply,
                   drain, wire, journal, reqs, disturbed>>

\* apply_clear: withdraw what is past its hold-down, defer the rest.
Clear(t) ==
    /\ Idle
    /\ execute_and_journal_withdraws(ClearsLater(active, t), ClearsNow(active, t),
                                     wire, journal, pending_mirror)
    /\ UNCHANGED <<running, config, disarmed, pending_reapply, drain, reqs>>

(***************************************************************************)
(* The one-second tick                                                     *)
(***************************************************************************)
PendingIds == {i \in DOMAIN reqs : reqs[i].status = "pending"}

\* retry_pending_reapply: a key no longer active is dropped from the queue.
StillWanted == pending_reapply \cap DOMAIN active

\* Mutant of Reapplied: the row that was rehydrated is announced, not the rule as
\* it stands now.
Mutant_ReappliesRow(r) ==
    [k \in DOMAIN wire \cup r |->
        IF k \in r \cap DOMAIN journal THEN journal[k].rate
        ELSE IF k \in r THEN active[k].rate ELSE wire[k]]

\* The re-announce reads the rule from the controller.
Reapplied(r) ==
    [k \in DOMAIN wire \cup r |-> IF k \in r THEN active[k].rate ELSE wire[k]]

\* Replay the mirror queue, retry the re-announces of a rehydration, complete
\* due clears and expiries, then read the pending requests.
Tick ==
    /\ Idle
    /\ \E m \in Succeeding(DOMAIN pending_mirror, "JournalFails") :
       \E r \in Succeeding(StillWanted, "AnnounceFails") :
            /\ pending_reapply' = StillWanted \ r
            /\ execute_and_journal_withdraws(
                   active, Expired(active), Reapplied(r),
                   Replayed(journal, pending_mirror, m), Drop(pending_mirror, m))
    /\ \/ drain' = PendingIds
       \/ "RequestTableFails" \in Incidents /\ drain' = {}
    /\ UNCHANGED <<running, config, disarmed, reqs>>

(***************************************************************************)
(* Operator requests                                                       *)
(***************************************************************************)

\* flowspec add: the CLI checks eligibility in its own copy of the
\* configuration, not the protected prefixes.
EnqueueAdd(k, rate) ==
    /\ Len(reqs) < MaxRequests
    /\ \E c \in Configs : TargetOf[k] \in c.eligible
    /\ reqs' = Append(reqs, [key |-> k, rate |-> rate, action |-> "add",
                             status |-> "pending"])
    /\ UNCHANGED <<running, config, active, disarmed, pending_mirror, pending_reapply,
                   drain, wire, journal, disturbed>>

\* flowspec remove: no check; nothing reads the rate of the row.
EnqueueRemove(k) ==
    /\ Len(reqs) < MaxRequests
    /\ reqs' = Append(reqs, [key |-> k, rate |-> NoRate, action |-> "remove",
                             status |-> "pending"])
    /\ UNCHANGED <<running, config, active, disarmed, pending_mirror, pending_reapply,
                   drain, wire, journal, disturbed>>

\* A failed write to the request table is only logged.
Writes(old, new) == {new} \cup (IF "RequestTableFails" \in Incidents THEN {old} ELSE {})

set_flowspec_request_status(rs, i, status) == [rs EXCEPT ![i].status = status]

supersede_pending_flowspec_adds(rs, k, before) ==
    [i \in DOMAIN rs |->
        IF /\ i < before /\ rs[i].key = k
           /\ rs[i].action = "add" /\ rs[i].status = "pending"
        THEN [rs[i] EXCEPT !.status = "applied"]
        ELSE rs[i]]

\* Row i is the next one of the snapshot.
NextInDrain(i, action) ==
    /\ running
    /\ i \in drain
    /\ \A n \in drain : i <= n
    /\ reqs[i].action = action

\* apply_add of an active rule at its present rate: the operator takes it over,
\* its row is promoted.
TakeOver(k, rate) ==
    /\ k \in DOMAIN active /\ active[k].rate = rate
    /\ active' = Put(active, k, Upgraded(active[k], rate))
    /\ \E d \in Succeeding({k}, "JournalFails") :
        LET row == [rate |-> rate, origin |-> "Manual"] IN
        /\ journal' = record_announces(journal, d, row)
        /\ pending_mirror' = PutAll(pending_mirror, {k} \ d, row)
        /\ disturbed' = disturbed \cup ({k} \ d)
    /\ UNCHANGED wire

\* The status an executed add gets; rate-capped and failed ones stay pending.
StatusOf(k, ok) ==
    IF k \in ok THEN "applied" ELSE IF disarmed THEN "rejected" ELSE "pending"

\* apply_add of a new rule or of a new rate for an active one.
AnnounceManual(i, k, rate) ==
    /\ \/ k \in DOMAIN active /\ active[k].rate # rate
       \/ k \notin DOMAIN active /\ k \in Admissible(config)
          /\ Cardinality(DOMAIN active) < config.max_rules
    /\ LET entry == IF k \in DOMAIN active THEN Upgraded(active[k], rate)
                                           ELSE NewEntry(rate, "Manual")
       IN \E ok \in Takeable({k}) :
            /\ execute_and_journal_announces(Put(active, k, entry), {k}, ok,
                                             [rate |-> rate, origin |-> "Manual"])
            /\ reqs' \in Writes(reqs, set_flowspec_request_status(reqs, i, StatusOf(k, ok)))

\* apply_flowspec_request for an add row.  At the cap it stays pending.
ApplyAdd(i) ==
    LET k == reqs[i].key
        rate == reqs[i].rate IN
    /\ NextInDrain(i, "add")
    /\ \/ /\ TakeOver(k, rate)
          /\ reqs' \in Writes(reqs, set_flowspec_request_status(reqs, i, "applied"))
       \/ AnnounceManual(i, k, rate)
       \/ /\ k \notin DOMAIN active
          /\ \/ k \notin Admissible(config)
             \/ Cardinality(DOMAIN active) >= config.max_rules
          /\ reqs' \in IF k \in Admissible(config) THEN {reqs}
                       ELSE Writes(reqs, set_flowspec_request_status(reqs, i, "rejected"))
          /\ UNCHANGED <<active, wire, journal, pending_mirror, disturbed>>
    /\ drain' = drain \ {i}
    /\ UNCHANGED <<running, config, disarmed, pending_reapply>>

\* apply_flowspec_request for a remove row.
ApplyRemove(i) ==
    LET k == reqs[i].key IN
    /\ NextInDrain(i, "remove")
    /\ execute_and_journal_withdraws(active, {k} \cap DOMAIN active, wire, journal,
                                     pending_mirror)
    /\ \E rs \in Writes(reqs, supersede_pending_flowspec_adds(reqs, k, i)) :
            reqs' \in Writes(rs, set_flowspec_request_status(rs, i, "applied"))
    /\ drain' = drain \ {i}
    /\ UNCHANGED <<running, config, disarmed, pending_reapply>>

(***************************************************************************)
(* Disarm, time, crash and restart                                         *)
(***************************************************************************)

\* Withdraw everything, best effort, without touching the journal.
disarm ==
    /\ "Disarm" \in Incidents
    /\ Idle /\ ~disarmed
    /\ disarmed' = TRUE
    /\ active' = EmptyMap
    /\ \E w \in Succeeding(DOMAIN active, "WithdrawFails") :
            /\ wire' = Drop(wire, w)
            /\ disturbed' = disturbed \cup DOMAIN active
    /\ UNCHANGED <<running, config, pending_mirror, pending_reapply, drain, journal, reqs>>

\* Time passes, also while a drain is under way.
Elapse ==
    /\ running
    /\ active' = Aged(active)
    /\ UNCHANGED <<running, config, disarmed, pending_mirror, pending_reapply,
                   drain, wire, journal, reqs, disturbed>>

\* The process ends, and with its BGP session the router's rules.
Crash ==
    /\ "Crash" \in Incidents
    /\ running
    /\ running' = FALSE
    /\ active' = EmptyMap /\ wire' = EmptyMap /\ pending_mirror' = EmptyMap
    /\ disarmed' = FALSE
    /\ pending_reapply' = {} /\ drain' = {} /\ disturbed' = {}
    /\ UNCHANGED <<config, journal, reqs>>

\* A start reads the configuration and re-installs every row that fits, at the
\* rate of the row; a refused announce is queued.
rehydrate ==
    /\ ~running
    /\ running' = TRUE
    /\ config' \in Configs
    /\ \E S \in Fitting(config', EmptyMap, DOMAIN journal \cap Admissible(config')) :
       \E r \in Succeeding(S, "AnnounceFails") :
            /\ active' = [k \in S |-> NewEntry(journal[k].rate, journal[k].origin)]
            /\ wire' = [k \in r |-> journal[k].rate]
            /\ pending_reapply' = S \ r
            /\ disturbed' = DOMAIN journal \ S
    /\ UNCHANGED <<disarmed, pending_mirror, drain, journal, reqs>>
-----------------------------------------------------------------------------
Init ==
    /\ running = FALSE
    /\ config \in Configs
    /\ active = EmptyMap /\ wire = EmptyMap /\ journal = EmptyMap
    /\ pending_mirror = EmptyMap
    /\ disarmed = FALSE
    /\ pending_reapply = {} /\ drain = {} /\ disturbed = {}
    /\ reqs = <<>>

Mitigation ==
    \E t \in Target : \/ \E K \in SUBSET KeysOf(t) \ {{}} : Open(K)
                      \/ Update(t) \/ Clear(t)
Enqueue      == \E k \in Key : EnqueueRemove(k) \/ \E rate \in Rate : EnqueueAdd(k, rate)
ApplyRequest == \E i \in drain : ApplyAdd(i) \/ ApplyRemove(i)

Next == \/ Mitigation \/ Tick \/ Enqueue \/ ApplyRequest
        \/ disarm \/ Elapse \/ Crash \/ rehydrate

Spec == Init /\ [][Next]_vars
-----------------------------------------------------------------------------
(***************************************************************************)
(* Properties                                                              *)
(***************************************************************************)

\* The state has the shape the code's types give it, and max_rules bounds the
\* rules of all targets together, also when one attack brings several.
TypeOK ==
    /\ running \in BOOLEAN /\ disarmed \in BOOLEAN
    /\ config \in Configs
    /\ IsPartialMap(active, Key, Entry)
    /\ IsPartialMap(pending_mirror, Key, MirrorOp)
    /\ pending_reapply \subseteq Key
    /\ reqs \in Seq(Request)
    /\ drain \subseteq DOMAIN reqs
    /\ IsPartialMap(wire, Key, Rate)
    /\ IsPartialMap(journal, Key, Row)
    /\ disturbed \subseteq Key
    /\ Cardinality(DOMAIN active) <= config.max_rules

\* The router enforces the rate the controller believes in: a refused change of
\* rate is rolled back to what the router still holds, and the save used for it
\* is never one of an earlier change ("left stale (harmlessly)").  Only a
\* rehydrated rule still queued for its re-announce is exempt.
RateOnWire ==
    \A k \in DOMAIN active \ pending_reapply :
        k \in DOMAIN wire /\ wire[k] = active[k].rate

\* A restart would bring back exactly what is enforced: an undisturbed key has a
\* row exactly when it is active, with the rate of the active rule, and no
\* automatic rule has an operator's row, which no clear or TTL would ever remove
\* after the restart.
MirrorExact ==
    running => \A k \in Key \ disturbed :
        /\ k \in DOMAIN journal <=> k \in DOMAIN active
        /\ k \in DOMAIN active =>
            /\ journal[k].rate = active[k].rate
            /\ active[k].origin = "Auto" => journal[k].origin = "Auto"

\* An operator's ownership of a rule survives a restart: an undisturbed rule the
\* operator owns has an operator's row, or the add that made it so is still
\* pending because the router refused its rate ("the operator's intent to own
\* the rule stands independent of whether the accompanying rate change landed").
OwnershipDurable ==
    \A k \in DOMAIN active : (active[k].origin = "Manual" /\ k \notin disturbed) =>
        \/ journal[k].origin = "Manual"
        \/ \E i \in DOMAIN reqs :
            reqs[i].key = k /\ reqs[i].action = "add" /\ reqs[i].status = "pending"

\* Router, controller and journal tell one story of every rule: the rate the
\* router enforces, the rate and owner the controller believes in, and the row a
\* restart would resume from.
RulesAgree == RateOnWire /\ MirrorExact /\ OwnershipDurable

\* The self-heal of a rehydration never reverts a newer rate, and nothing else
\* does: a rule that stays on the router changes only to the controller's rate
\* ("re-deriving picks up that CURRENT action instead of replaying the stale
\* queued one").
NewestRateWins ==
    [][\A k \in DOMAIN wire \cap DOMAIN wire' : wire'[k] # wire[k] =>
            k \in DOMAIN active' /\ wire'[k] = active'[k].rate]_vars

\* The plane's contract, with the active set, the accepted rules and the reapply
\* queue in the roles of wanted, live and owed.
Plane == INSTANCE MitigationPlane WITH
    Item <- Key, up <- running, killed <- disarmed,
    wanted <- DOMAIN active, live <- DOMAIN wire, owed <- pending_reapply

\* The manager implements the contract, also when one attack opens, changes or
\* clears several rules in a step and some of their announces are refused.
ImplementsPlane == Plane!Spec
=============================================================================
