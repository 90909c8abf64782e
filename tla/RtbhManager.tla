---------------------------- MODULE RtbhManager ----------------------------
(***************************************************************************)
(* The single-owner RTBH manager (crates/blackwall-rtbh/src/manager.rs)    *)
(* with the task that drives it (rtbh_manager_task and apply_request in    *)
(* bin/blackwalld/src/main.rs) and the two Postgres tables it writes: the  *)
(* announced-blackhole mirror, called the journal, and the operator        *)
(* request queue (crates/blackwall-state/src/lib.rs).                      *)
(*                                                                         *)
(* The task handles one event at a time, so a handler is one action.  Its  *)
(* awaits can fail one by one; what fails is an existential choice limited *)
(* by the constant Incidents.  A crash in the middle of a handler leaves   *)
(* the tables as the handler whose remaining writes fail, followed by      *)
(* Crash, so it needs no action of its own.                                *)
(***************************************************************************)
EXTENDS RtbhController, Sequences

CONSTANTS
    Configs,      \* the configurations a (re)start may read
    MaxRequests,  \* bound on the rows of rtbh_requests
    Incidents     \* what may go wrong in this instance

ASSUME ConfigsAssumption == Configs \subseteq Config /\ Configs # {}
ASSUME MaxRequestsAssumption == MaxRequests \in Nat
ASSUME IncidentsAssumption ==
    Incidents \subseteq {"ExecutorFails", "JournalFails", "RateCapped",
                         "RequestTableFails", "Disarm", "Crash"}

VARIABLES
    running,          \* the daemon is up
    config,           \* the configuration this process read
    active,           \* RtbhController.active
    disarmed,         \* RtbhManager.disarmed
    pending_mirror,   \* RtbhManager.pending_mirror, keyed by target
    pending_reapply,  \* RtbhManager.pending_reapply, its targets
    drain,            \* ids of the pending_requests snapshot still to apply
    routes,           \* host routes the executor has accepted and not withdrawn
    journal,          \* active rows of the mirror: target -> origin
    reqs,             \* rtbh_requests, indexed by id
    lapses            \* history: what went wrong for a target since the start

vars == <<running, config, active, disarmed, pending_mirror, pending_reapply,
          drain, routes, journal, reqs, lapses>>

MirrorOp == Origin \cup {"Withdraw"}
Status   == {"pending", "applied", "rejected"}
Lapse    == {"journal", "withdraw", "disarm", "dropped"}

\* A row of rtbh_requests.  flaws is history: what was amiss when a remove was
\* last handled (its supersede failed, or its target had a lapse).
Flaw    == {"supersede", "lapse"}
Request == [target : Target, action : {"add", "remove"}, status : Status,
            flaws : SUBSET Flaw]

Mishap(S, kind) == S \X {kind}

(***************************************************************************)
(* The journal                                                             *)
(***************************************************************************)

\* Mutant of record_announce: an existing row is left as it is.
Mutant_NoPromotion(j, t, origin) == IF t \in DOMAIN j THEN j ELSE Put(j, t, origin)

\* record_blackhole: upsert on the active row; manual is never downgraded.
record_announce(j, t, origin) ==
    Put(j, t, IF t \in DOMAIN j /\ j[t] = "Manual" THEN "Manual" ELSE origin)

\* retry_pending_mirror: replay the queued writes of the targets in S.
Replayed(j, q, S) ==
    [t \in (DOMAIN j \cup {s \in S : q[s] # "Withdraw"})
             \ {s \in S : q[s] = "Withdraw"} |->
        IF t \in S THEN record_announce(j, t, q[t])[t] ELSE j[t]]

\* The subsets of the awaits S that can succeed.
Succeeding(S, incident) ==
    IF incident \in Incidents THEN SUBSET S ELSE {S}

(***************************************************************************)
(* Executing one Announce of a fresh entry                                 *)
(***************************************************************************)

\* disarmed and the rate limiter are consulted before BGP, the journal after.
AnnounceResults ==
    IF disarmed THEN {"Disarmed"}
    ELSE {"Applied"}
         \cup (IF "RateCapped" \in Incidents THEN {"RateCapped"} ELSE {})
         \cup (IF "ExecutorFails" \in Incidents THEN {"Failed"} ELSE {})
         \cup (IF "JournalFails" \in Incidents THEN {"AppliedUnjournaled"} ELSE {})

Announced(result) == result \in {"Applied", "AppliedUnjournaled"}

\* Mutant of execute_and_journal_announce: the entry stays after a failed announce.
Mutant_NoRollback(t, origin, result) ==
    /\ active' = Put(active, t, NewEntry(origin))
    /\ routes' = IF Announced(result) THEN routes \cup {t} ELSE routes
    /\ journal' = IF result = "Applied" THEN record_announce(journal, t, origin) ELSE journal
    /\ pending_mirror' = IF result = "AppliedUnjournaled"
                         THEN Put(pending_mirror, t, origin) ELSE pending_mirror
    /\ lapses' = IF result = "AppliedUnjournaled"
                 THEN lapses \cup Mishap({t}, "journal") ELSE lapses

\* The entry is rolled back unless BGP took the route.
execute_and_journal_announce(t, origin, result) ==
    /\ active' = IF Announced(result) THEN Put(active, t, NewEntry(origin)) ELSE active
    /\ routes' = IF Announced(result) THEN routes \cup {t} ELSE routes
    /\ journal' = IF result = "Applied" THEN record_announce(journal, t, origin) ELSE journal
    /\ pending_mirror' = IF result = "AppliedUnjournaled"
                         THEN Put(pending_mirror, t, origin) ELSE pending_mirror
    /\ lapses' = IF result = "AppliedUnjournaled"
                 THEN lapses \cup Mishap({t}, "journal") ELSE lapses

(***************************************************************************)
(* Executing the Withdraws of the targets in S on routes r, journal j and  *)
(* mirror queue q.  The executor accepts those in w, the journal those in  *)
(* d; a withdraw the executor refused is not journaled.                    *)
(***************************************************************************)

Withdrawn(S, w, d, r, j, q) ==
    /\ active' = Drop(active, S)
    /\ routes' = r \ w
    /\ journal' = Drop(j, d)
    /\ pending_mirror' = PutAll(q, w \ d, "Withdraw")
    /\ lapses' = lapses \cup Mishap(S \ w, "withdraw") \cup Mishap(w \ d, "journal")

execute_and_journal_withdraws(S, r, j, q) ==
    \E w \in Succeeding(S, "ExecutorFails") :
    \E d \in Succeeding(w, "JournalFails") : Withdrawn(S, w, d, r, j, q)
-----------------------------------------------------------------------------
(***************************************************************************)
(* Detection events                                                        *)
(***************************************************************************)

\* The task is at its select!: up, and no drain in progress.
Idle == running /\ drain = {}

\* apply_event(Opened): announce a new Auto entry or re-assert an active one.
Opened(t) ==
    /\ Idle
    /\ \/ /\ Inserts(config, active, t)
          /\ \E result \in AnnounceResults : execute_and_journal_announce(t, "Auto", result)
       \/ /\ Reasserts(config, active, t)
          /\ active' = Put(active, t, Reasserted(active[t]))
          /\ UNCHANGED <<routes, journal, pending_mirror, lapses>>
    /\ UNCHANGED <<running, config, disarmed, pending_reapply, drain, reqs>>

\* apply_event(Updated): the attack goes on.
Updated(t) ==
    /\ Idle
    /\ active' = Refreshed(active, t)
    /\ UNCHANGED <<running, config, disarmed, pending_mirror, pending_reapply,
                   drain, routes, journal, reqs, lapses>>

\* apply_event(Cleared): withdraw now, or leave it to a tick.
Cleared(t) ==
    /\ Idle
    /\ \/ /\ ClearsNow(active, t)
          /\ execute_and_journal_withdraws({t}, routes, journal, pending_mirror)
       \/ /\ DefersClear(active, t)
          /\ active' = Put(active, t, ClearDeferred(active[t]))
          /\ UNCHANGED <<routes, journal, pending_mirror, lapses>>
    /\ UNCHANGED <<running, config, disarmed, pending_reapply, drain, reqs>>

(***************************************************************************)
(* The one-second tick: replay the mirror queue, retry the re-announces of *)
(* a rehydration, complete due clears and expiries, then read the pending  *)
(* requests.  The read can fail; the requests then wait for the next tick. *)
(***************************************************************************)
PendingIds == {i \in DOMAIN reqs : reqs[i].status = "pending"}

\* Mutants of StillWanted: the active set is not consulted; the queue is lost.
Mutant_ReappliesAll == pending_reapply

Mutant_ForgetsReapply == {}

\* retry_pending_reapply: an entry no longer active is dropped from the queue.
StillWanted == pending_reapply \cap DOMAIN active

Tick ==
    /\ Idle
    /\ \E m \in Succeeding(DOMAIN pending_mirror, "JournalFails") :
       \E r \in Succeeding(StillWanted, "ExecutorFails") :
            /\ pending_reapply' = StillWanted \ r
            /\ execute_and_journal_withdraws(
                   Expired(active), routes \cup r,
                   Replayed(journal, pending_mirror, m), Drop(pending_mirror, m))
    /\ \/ drain' = PendingIds
       \/ "RequestTableFails" \in Incidents /\ drain' = {}
    /\ UNCHANGED <<running, config, disarmed, reqs>>

(***************************************************************************)
(* Operator requests: the CLI inserts rows, the task drains its snapshot   *)
(* of the pending ones in id order                                         *)
(***************************************************************************)

\* rtbh add: the CLI checks eligibility and the next hop in its own copy of
\* the configuration, not the protected prefixes.
EnqueueAdd(t) ==
    /\ Len(reqs) < MaxRequests
    /\ \E c \in Configs : is_eligible(c, t) /\ has_next_hop(c, t)
    /\ reqs' = Append(reqs, [target |-> t, action |-> "add",
                              status |-> "pending", flaws |-> {}])
    /\ UNCHANGED <<running, config, active, disarmed, pending_mirror, pending_reapply,
                   drain, routes, journal, lapses>>

\* rtbh remove: no check at all.
EnqueueRemove(t) ==
    /\ Len(reqs) < MaxRequests
    /\ reqs' = Append(reqs, [target |-> t, action |-> "remove",
                              status |-> "pending", flaws |-> {}])
    /\ UNCHANGED <<running, config, active, disarmed, pending_mirror, pending_reapply,
                   drain, routes, journal, lapses>>

\* set_request_status and supersede_pending_adds are only logged when they fail.
Writes(old, new) == {new} \cup (IF "RequestTableFails" \in Incidents THEN {old} ELSE {})

set_request_status(rs, i, status) == [rs EXCEPT ![i].status = status]

\* Mutant of supersede_pending_adds: it misses the row just before the remove.
Mutant_SupersedesTooFew(rs, t, before) ==
    [i \in DOMAIN rs |->
        IF /\ i < before - 1 /\ rs[i].target = t
           /\ rs[i].action = "add" /\ rs[i].status = "pending"
        THEN [rs[i] EXCEPT !.status = "applied"]
        ELSE rs[i]]

supersede_pending_adds(rs, t, before) ==
    [i \in DOMAIN rs |->
        IF /\ i < before /\ rs[i].target = t
           /\ rs[i].action = "add" /\ rs[i].status = "pending"
        THEN [rs[i] EXCEPT !.status = "applied"]
        ELSE rs[i]]

\* Row i is the next one of the snapshot.
NextInDrain(i, action) ==
    /\ running
    /\ i \in drain
    /\ \A k \in drain : i <= k
    /\ reqs[i].action = action

\* The status an add gets; a deferred one stays pending.
StatusOf(result) ==
    CASE Announced(result)                   -> "applied"
      [] result = "Disarmed"                 -> "rejected"
      [] result \in {"RateCapped", "Failed"} -> "pending"

\* apply_add of an active target: upgrade it and promote its row.
UpgradeToManual(t) ==
    /\ t \in DOMAIN active
    /\ active' = Put(active, t, Upgraded(active[t]))
    /\ \/ /\ journal' = record_announce(journal, t, "Manual")
          /\ UNCHANGED <<pending_mirror, lapses>>
       \/ /\ "JournalFails" \in Incidents
          /\ pending_mirror' = Put(pending_mirror, t, "Manual")
          /\ lapses' = lapses \cup Mishap({t}, "journal")
          /\ UNCHANGED journal
    /\ UNCHANGED routes

\* apply_request for an add row.
ApplyAdd(i) ==
    LET t == reqs[i].target IN
    /\ NextInDrain(i, "add")
    /\ \/ /\ UpgradeToManual(t)
          /\ reqs' \in Writes(reqs, set_request_status(reqs, i, "applied"))
       \/ /\ Inserts(config, active, t)
          /\ \E result \in AnnounceResults :
                /\ execute_and_journal_announce(t, "Manual", result)
                /\ reqs' \in Writes(reqs, set_request_status(reqs, i, StatusOf(result)))
       \/ /\ t \notin DOMAIN active /\ ~Inserts(config, active, t)
          /\ reqs' \in IF t \in Admissible(config)
                       THEN {reqs}
                       ELSE Writes(reqs, set_request_status(reqs, i, "rejected"))
          /\ UNCHANGED <<active, routes, journal, pending_mirror, lapses>>
    /\ drain' = drain \ {i}
    /\ UNCHANGED <<running, config, disarmed, pending_reapply>>

\* The flaws of handling remove i of t, when its supersede left the rows rs.
FlawsOf(i, t, rs) ==
    (IF rs = supersede_pending_adds(reqs, t, i) THEN {} ELSE {"supersede"})
        \cup (IF \E k \in Lapse : <<t, k>> \in lapses' THEN {"lapse"} ELSE {})

noted(rs, i, flaws) == [rs EXCEPT ![i].flaws = flaws]

\* apply_request for a remove row: withdraw, supersede older pending adds,
\* mark the row applied.
ApplyRemove(i) ==
    LET t == reqs[i].target IN
    /\ NextInDrain(i, "remove")
    /\ execute_and_journal_withdraws({t} \cap DOMAIN active, routes, journal, pending_mirror)
    /\ \E rs \in Writes(reqs, supersede_pending_adds(reqs, t, i)) :
            LET table == noted(rs, i, FlawsOf(i, t, rs))
            IN  reqs' \in Writes(table, set_request_status(table, i, "applied"))
    /\ drain' = drain \ {i}
    /\ UNCHANGED <<running, config, disarmed, pending_reapply>>

(***************************************************************************)
(* Disarm, time, crash and restart                                         *)
(***************************************************************************)

\* SIGUSR1: withdraw everything, best effort, without touching the journal.
disarm ==
    /\ "Disarm" \in Incidents
    /\ Idle /\ ~disarmed
    /\ disarmed' = TRUE
    /\ active' = EmptyMap
    /\ \E w \in Succeeding(DOMAIN active, "ExecutorFails") :
            /\ routes' = routes \ w
            /\ lapses' = lapses \cup Mishap(DOMAIN active, "disarm")
                                \cup Mishap(DOMAIN active \ w, "withdraw")
    /\ UNCHANGED <<running, config, pending_mirror, pending_reapply, drain, journal, reqs>>

\* Time passes, also while a drain is under way.
Elapse ==
    /\ running
    /\ active' = Aged(active)
    /\ UNCHANGED <<running, config, disarmed, pending_mirror, pending_reapply,
                   drain, routes, journal, reqs, lapses>>

\* The process ends: its memory is gone and, its BGP session with it, the
\* peer drops the routes.
Crash ==
    /\ "Crash" \in Incidents
    /\ running
    /\ running' = FALSE
    /\ active' = EmptyMap
    /\ disarmed' = FALSE
    /\ pending_mirror' = EmptyMap
    /\ pending_reapply' = {}
    /\ drain' = {}
    /\ routes' = {}
    /\ lapses' = {}
    /\ UNCHANGED <<config, journal, reqs>>

\* The rows a rehydration can bring back: as many admissible ones as fit.
Rehydratable(c, rows) ==
    {S \in SUBSET (rows \cap Admissible(c)) :
        /\ Cardinality(S) <= c.max_blackholes
        /\ S # rows \cap Admissible(c) => Cardinality(S) = c.max_blackholes}

\* A start reads the configuration and rehydrates: every row that fits becomes
\* active again with its ages reset and is re-announced; a refused announce is
\* queued.  Rows that do not fit stay in the journal.
rehydrate ==
    /\ ~running
    /\ running' = TRUE
    /\ config' \in Configs
    /\ \E S \in Rehydratable(config', DOMAIN journal) :
       \E r \in Succeeding(S, "ExecutorFails") :
            /\ active' = [t \in S |-> NewEntry(journal[t])]
            /\ routes' = r
            /\ pending_reapply' = S \ r
            /\ lapses' = Mishap(DOMAIN journal \ S, "dropped")
    /\ UNCHANGED <<disarmed, pending_mirror, drain, journal, reqs>>
-----------------------------------------------------------------------------
Init ==
    /\ running = FALSE
    /\ config \in Configs
    /\ active = EmptyMap
    /\ disarmed = FALSE
    /\ pending_mirror = EmptyMap
    /\ pending_reapply = {}
    /\ drain = {}
    /\ routes = {}
    /\ journal = EmptyMap
    /\ reqs = <<>>
    /\ lapses = {}

Detection  == \E t \in Target : Opened(t) \/ Updated(t) \/ Cleared(t)
Enqueue    == \E t \in Target : EnqueueAdd(t) \/ EnqueueRemove(t)
ApplyRequest == \E i \in drain : ApplyAdd(i) \/ ApplyRemove(i)

Next == \/ Detection \/ Tick \/ Enqueue \/ ApplyRequest
        \/ disarm \/ Elapse \/ Crash \/ rehydrate

Spec == Init /\ [][Next]_vars

(***************************************************************************)
(* Fairness.  The task polls a one-second interval in its select!, so a    *)
(* tick that can run does; the drain is a loop inside the tick; time       *)
(* passes.  Nothing is assumed of detections, operators, crashes or        *)
(* restarts.                                                               *)
(***************************************************************************)
FairSpec == Spec /\ WF_vars(Tick) /\ WF_vars(ApplyRequest) /\ WF_vars(Elapse)

\* The executor is down only for a while: a tick at which it accepts every
\* queued re-announce comes again and again.
HealthyTick == Tick /\ pending_reapply' = {}

-----------------------------------------------------------------------------
(***************************************************************************)
(* Properties                                                              *)
(***************************************************************************)

\* The state has the shape the code's types give it.
TypeOK ==
    /\ running \in BOOLEAN
    /\ config \in Configs
    /\ active \in PartialMap(Target, Entry)
    /\ disarmed \in BOOLEAN
    /\ pending_mirror \in PartialMap(Target, MirrorOp)
    /\ pending_reapply \subseteq Target
    /\ reqs \in Seq(Request)
    /\ drain \subseteq DOMAIN reqs
    /\ routes \subseteq Target
    /\ journal \in PartialMap(Target, Origin)
    /\ lapses \subseteq Target \X Lapse

\* max_blackholes bounds the active set through every path that adds to it:
\* detections, operator adds and rehydration under a lowered cap.
CapRespected == Cardinality(DOMAIN active) <= config.max_blackholes

\* No target the current configuration protects, excludes or has no next hop
\* for is ever active or announced, also when it was admissible before a
\* restart and its row is still in the journal.
NeverMitigateInadmissible == routes \cup DOMAIN active \subseteq Admissible(config)

\* The limits of the configuration in force hold through every path that adds a
\* blackhole, a restart under a changed configuration included: never more than
\* max_blackholes, and never one that this configuration would refuse.
ConfigurationHolds == CapRespected /\ NeverMitigateInadmissible

\* Commit-after-confirm: what the controller believes active is announced,
\* except a rehydrated entry still queued for its re-announce.
ActiveIsAnnounced == DOMAIN active \ pending_reapply \subseteq routes

\* A route outlives its active entry only when the executor refused its
\* withdraw; in particular retry_pending_reapply never announces a route the
\* control plane no longer wants.
NoPhantomRoute ==
    \A t \in routes \ DOMAIN active : <<t, "withdraw">> \in lapses

\* The router and the controller agree on the blackholes, but for a rehydrated
\* entry still queued for its re-announce and a withdraw the session refused:
\* execute_and_journal_announce rolls back what was not announced, and
\* retry_pending_reapply announces only what is still wanted.
WireMatchesActive == ActiveIsAnnounced /\ NoPhantomRoute

\* Target t went through no failed write, refused withdraw, disarm or dropped
\* row since the start.
Undisturbed(t) == \A k \in Lapse : <<t, k>> \notin lapses

\* The row of t says what the controller says.
Mirrored(t) ==
    /\ t \in DOMAIN journal <=> t \in DOMAIN active
    /\ t \in DOMAIN active => journal[t] = active[t].origin

\* The journal mirrors the active set: an undisturbed target has a row exactly
\* when it is active, with the same origin.
MirrorExact == running => \A t \in Target : Undisturbed(t) => Mirrored(t)

\* A remove that is marked applied leaves no older add of its target pending,
\* so no such add is announced later ("a pending add must not later announce
\* this target once capacity frees"), unless superseding them failed: that
\* failure is only logged, and the remove is marked applied all the same.
RemoveWins ==
    \A i, k \in DOMAIN reqs :
        (/\ i < k
         /\ reqs[i].target = reqs[k].target
         /\ reqs[i].action = "add"
         /\ reqs[k].action = "remove"
         /\ reqs[k].status = "applied"
         /\ "supersede" \notin reqs[k].flaws) => reqs[i].status # "pending"

\* A Manual row, the one thing that brings an operator blackhole back after a
\* restart, stands for an add that no later remove has been applied to without
\* a flaw.  The flaws are the ones the code only logs or does not see: the
\* supersede failed, or the process had earlier lost track of the target's row
\* (a failed journal write, a refused withdraw, a disarm, a row it dropped).
ManualRowIsIntended ==
    \A t \in DOMAIN journal : journal[t] = "Manual" =>
        \E i \in DOMAIN reqs :
            /\ reqs[i].target = t /\ reqs[i].action = "add"
            /\ \A k \in DOMAIN reqs :
                (k > i /\ reqs[k].target = t /\ reqs[k].action = "remove")
                    => reqs[k].status # "applied" \/ reqs[k].flaws # {}

\* The request table and the journal honour the operator's last word, through
\* any failures of other requests, crashes and restarts: no add older than an
\* applied remove is left to be announced by process_requests, and no operator
\* row is left for rehydrate to bring back, unless the handling of that very
\* remove met a failure (the flaws above, which the code does not repair).
RequestsHonoured == RemoveWins /\ ManualRowIsIntended

\* What makes the invariants above inductive: a disarmed manager holds nothing, a
\* process that is down holds nothing and is armed, every queued journal write is
\* on record as a failure, and an operator entry never has a clear pending.
DisarmedInert == disarmed => DOMAIN active = {}

DownIsClean ==
    ~running => ~disarmed /\ DOMAIN active = {} /\ DOMAIN pending_mirror = {}

QueuedIsLapsed == \A t \in DOMAIN pending_mirror : <<t, "journal">> \in lapses

ManualNeverClearing ==
    \A t \in DOMAIN active : active[t].origin = "Manual" => ~active[t].clear

IndInv ==
    /\ TypeOK
    /\ CapRespected
    /\ NeverMitigateInadmissible
    /\ ActiveIsAnnounced
    /\ NoPhantomRoute
    /\ MirrorExact
    /\ DisarmedInert
    /\ DownIsClean
    /\ QueuedIsLapsed
    /\ ManualNeverClearing

\* The kill switch is one-way: a disarmed process adds no route, neither for a
\* detection, an operator add nor a queued re-announce.
DisarmedNeverAnnounces == [][disarmed /\ disarmed' => routes' \subseteq routes]_vars

\* An operator blackhole ends only by an operator's remove, by disarm or with
\* the process: no detection, hold-down or TTL takes it down, not even when a
\* clear was pending at the moment it was upgraded.
ManualOnlyOperatorRemoves ==
    [][\A t \in DOMAIN active \ DOMAIN active' : active[t].origin = "Manual" =>
            \/ ~running'
            \/ disarmed'
            \/ \E i \in drain \ drain' : reqs[i].target = t /\ reqs[i].action = "remove"]_vars

\* A clear deferred by the hold-down is completed by a tick unless the attack
\* resumes, the operator takes the target over or it is removed first.
DeferredClearCompletes ==
    \A t \in Target :
        (t \in DOMAIN active /\ active[t].clear)
            ~> (t \in DOMAIN active => ~active[t].clear)

\* A rehydrated blackhole whose re-announce failed is announced by a later tick
\* or is no longer wanted (issue #194).
ReapplyHeals ==
    \A t \in Target :
        (t \in pending_reapply /\ t \in DOMAIN active)
            ~> (t \in routes \/ t \notin DOMAIN active)

(***************************************************************************)
(* The plane's contract, with the active set, the accepted routes and the  *)
(* reapply queue in the roles of wanted, live and owed                     *)
(***************************************************************************)
Plane == INSTANCE MitigationPlane WITH
    Item <- Target, up <- running, killed <- disarmed,
    wanted <- DOMAIN active, live <- routes, owed <- pending_reapply

\* The manager implements the contract: through every interleaving of
\* detections, ticks, operator requests, failures, disarm, crash and rehydrate,
\* a route is announced only by a confirmed new entry or by a re-announce that is
\* still owed and wanted, and given up only with its entry.
ImplementsPlane == Plane!Spec
=============================================================================
