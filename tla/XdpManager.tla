----------------------------- MODULE XdpManager -----------------------------
(***************************************************************************)
(* The single-owner XDP manager (crates/blackwall-xdp/src/manager.rs) with *)
(* the task that drives it (xdp_manager_task and apply_xdp_request in      *)
(* bin/blackwalld/src/main.rs), the eBPF maps it writes (dataplane.rs) and *)
(* its tables xdp_entries, the journal, and xdp_requests                   *)
(* (crates/blackwall-state/src/xdp.rs).                                    *)
(*                                                                         *)
(* A handler is one action, as in RtbhManager.  There is no hold-down and  *)
(* no TTL: a limit lives until the detector clears its victims, so what    *)
(* by_target remembers, also over a restart, decides whether it ever goes. *)
(* The events come through XdpMitigationSink, which drops one when the     *)
(* channel is full: the detector has moved on and the manager has not.     *)
(***************************************************************************)
EXTENDS XdpController

CONSTANTS
    Configs,      \* the configurations a (re)start may read
    MaxRequests,  \* bound on the rows of xdp_requests
    Incidents     \* what may go wrong in this instance

\* auto: a default rate limit is configured; eligible: victims in an own and in
\* no protected prefix; own: networks that overlap an own prefix.
Config == [auto : BOOLEAN, eligible : SUBSET Victim, own : SUBSET Net]

ASSUME ConfigsAssumption == Configs \subseteq Config /\ Configs # {}
ASSUME BoundsAssumption == MaxRequests \in Nat
ASSUME IncidentsAssumption ==
    Incidents \subseteq {"InstallFails", "RemoveFails", "JournalFails",
                         "RequestTableFails", "EventLost", "Disarm", "Crash"}

VARIABLES
    running,          \* the daemon is up
    config,           \* the configuration this process read
    active,           \* XdpController.rate_limited and blocked_nets
    by_target,        \* XdpController.by_target
    disarmed,         \* XdpManager.disarmed
    pending_mirror,   \* XdpManager.pending_mirror, by item
    pending_reapply,  \* XdpManager.pending_reapply, its items
    drain,            \* ids of the pending requests read and not yet applied
    maps,             \* the eBPF maps BLOCK_V4, BLOCK_V6 and RATE
    journal,          \* rows of xdp_entries
    reqs,             \* xdp_requests, indexed by id
    attacks,          \* victims of the attacks the detector has open
    reported,         \* history: the sources the last report of each named and
                      \* that were limited after it; after a restart, the ones of
                      \* the rows
    cut,              \* history: victims whose last report left a source it named
                      \* unlimited because the maps were full
    unheard,          \* history: victims whose Cleared was dropped, or whose rows
                      \* were resumed, and of whom nothing was heard since
    disturbed         \* history: items with a failed journal write, a refused
                      \* removal or upgrade or a disarm since the start

vars == <<running, config, active, by_target, disarmed, pending_mirror,
          pending_reapply, drain, maps, journal, reqs, attacks, reported, cut, unheard,
          disturbed>>

history == <<reported, cut, unheard>>

\* A queued MirrorOp is the row it writes, or the removal of the row.
RemoveOp == [origin |-> "None", pps |-> NoRate, victim |-> NoVictim]
MirrorOp == Entry \cup {RemoveOp}

Request == [item : Item, pps : Rate \cup {NoRate}, action : {"install", "remove"},
            status : {"pending", "applied", "rejected"}]

\* The subsets of the awaits S that can succeed.
Succeeding(S, incident) == IF incident \in Incidents THEN SUBSET S ELSE {S}

\* Mutant of Takeable: installs go through when disarmed.
Mutant_IgnoresDisarm(S) == Succeeding(S, "InstallFails")

\* What the executor takes of the installs S; nothing is tried when disarmed.
Takeable(S) == IF disarmed THEN {{}} ELSE Succeeding(S, "InstallFails")

\* What it removes of the items S.  Deleting a key that is not in the map is an
\* error like any other.
Removable(S) == Succeeding(S \cap DOMAIN maps, "RemoveFails")

\* The journal: a row is replaced as a whole, a removed row is deleted.
xdp_record_apply(S, row) == PutAll(journal, S, row)
xdp_record_remove(S) == Drop(journal, S)

\* Mutant of Install: the row does not carry the victim.
Mutant_RowWithoutVictim(ok, refused, entry) ==
    \E d \in Succeeding(ok, "JournalFails") :
        /\ maps' = PutAll(maps, ok, entry.pps)
        /\ journal' = xdp_record_apply(d, [entry EXCEPT !.victim = NoVictim])
        /\ pending_mirror' = PutAll(pending_mirror, ok \ d, entry)
        /\ disturbed' = disturbed \cup (ok \ d) \cup refused

\* execute_and_journal of installs the executor took, in ok, or refused for an
\* entry that was there already: the map is written, then the row.
Install(ok, refused, entry) ==
    \E d \in Succeeding(ok, "JournalFails") :
        /\ maps' = PutAll(maps, ok, entry.pps)
        /\ journal' = xdp_record_apply(d, entry)
        /\ pending_mirror' = PutAll(pending_mirror, ok \ d, entry)
        /\ disturbed' = disturbed \cup (ok \ d) \cup refused

\* execute_and_journal of the removals S.  A refused one keeps its row.
Remove(S) ==
    \E w \in Removable(S) : \E d \in Succeeding(w, "JournalFails") :
        /\ maps' = Drop(maps, w)
        /\ journal' = xdp_record_remove(d)
        /\ pending_mirror' = PutAll(pending_mirror, w \ d, RemoveOp)
        /\ disturbed' = disturbed \cup (w \ d) \cup ((S \ w) \cap (DOMAIN maps \cup pending_reapply))
-----------------------------------------------------------------------------
(***************************************************************************)
(* Detection events                                                        *)
(***************************************************************************)

\* The task is at its select!: up, and no drain in progress.
Idle == running /\ drain = {}

\* The top sources of a detection, at most three, the strongest first.
TopSources ==
    {ts \in UNION {[1..n -> Source] : n \in 1..3} :
        \A i, j \in DOMAIN ts : ts[i] = ts[j] => i = j}

\* Opened and Updated: every new limit is entered first, then each is executed;
\* the ones not taken are rolled back.
Detect(v, ts) ==
    /\ Idle
    /\ attacks' = attacks \cup {v}
    /\ unheard' = unheard \ {v}
    /\ IF config.auto /\ v \in config.eligible
       THEN LET W == Walked(active, ts)
                named == FirstSources(ts, Len(ts))
                new == W \ DOMAIN active
            IN \E ok \in Takeable(new) :
                  /\ active' = PutAll(active, ok, AutoEntry(v))
                  /\ by_target' = [by_target EXCEPT ![v] = (@ \cup W) \ (new \ ok)]
                  /\ reported' = [reported EXCEPT ![v] = named \cap DOMAIN active']
                  /\ cut' = IF AtCap(active') /\ ~(named \subseteq DOMAIN active')
                            THEN cut \cup {v} ELSE cut \ {v}
                  /\ Install(ok, {}, AutoEntry(v))
       ELSE UNCHANGED <<active, by_target, reported, cut, maps, journal, pending_mirror,
                        disturbed>>
    /\ UNCHANGED <<running, config, disarmed, pending_reapply, drain, reqs>>

\* Cleared, emitted once for an attack the detector has open.
Clear(v) ==
    /\ Idle
    /\ v \in attacks
    /\ attacks' = attacks \ {v}
    /\ reported' = [reported EXCEPT ![v] = {}]
    /\ cut' = cut \ {v}
    /\ unheard' = unheard \ {v}
    /\ IF config.auto
       THEN LET S == Released(active, by_target, v)
            IN /\ active' = Drop(active, S)
               /\ by_target' = [by_target EXCEPT ![v] = {}]
               /\ Remove(S)
       ELSE UNCHANGED <<active, by_target, maps, journal, pending_mirror, disturbed>>
    /\ UNCHANGED <<running, config, disarmed, pending_reapply, drain, reqs>>

\* XdpMitigationSink::handle with a full channel, also during a drain: the event
\* is dropped, an Opened or Updated or the one Cleared.
DropEvent(v) ==
    /\ "EventLost" \in Incidents
    /\ running
    /\ \/ /\ attacks' = attacks \cup {v}
          /\ UNCHANGED history
       \/ /\ v \in attacks
          /\ attacks' = attacks \ {v}
          /\ reported' = [reported EXCEPT ![v] = {}]
          /\ cut' = cut \ {v}
          /\ unheard' = unheard \cup {v}
    /\ UNCHANGED <<running, config, active, by_target, disarmed, pending_mirror,
                   pending_reapply, drain, maps, journal, reqs, disturbed>>

(***************************************************************************)
(* The one-second tick                                                     *)
(***************************************************************************)
PendingIds == {i \in DOMAIN reqs : reqs[i].status = "pending"}

\* retry_pending_mirror: replay the queued writes of the items in S.
Replayed(S) ==
    [k \in (DOMAIN journal \cup S) \ {s \in S : pending_mirror[s] = RemoveOp} |->
        IF k \in S THEN pending_mirror[k] ELSE journal[k]]

\* retry_pending_reapply: an item no longer active is dropped from the queue.
StillWanted == pending_reapply \cap DOMAIN active

\* The retry reads the entry from the controller.
Reapplied(r) == [k \in DOMAIN maps \cup r |-> IF k \in r THEN active[k].pps ELSE maps[k]]

Tick ==
    /\ Idle
    /\ \E m \in Succeeding(DOMAIN pending_mirror, "JournalFails") :
            /\ journal' = Replayed(m)
            /\ pending_mirror' = Drop(pending_mirror, m)
    /\ \E r \in Succeeding(StillWanted, "InstallFails") :
            /\ maps' = Reapplied(r)
            /\ pending_reapply' = StillWanted \ r
    /\ \/ drain' = PendingIds
       \/ "RequestTableFails" \in Incidents /\ drain' = {}
    /\ UNCHANGED <<running, config, active, by_target, disarmed, reqs, history,
                   attacks, disturbed>>

(***************************************************************************)
(* Operator requests                                                       *)
(***************************************************************************)

\* xdp block, rate-limit, unblock and clear-rate.  A block of an own network is
\* queued all the same.
Enqueue(k, pps, action) ==
    /\ Len(reqs) < MaxRequests
    /\ reqs' = Append(reqs, [item |-> k, pps |-> pps, action |-> action,
                             status |-> "pending"])
    /\ UNCHANGED <<running, config, active, by_target, disarmed, pending_mirror,
                   pending_reapply, drain, maps, journal, history, attacks, disturbed>>

\* A failed write to the request table is only logged.
Writes(old, new) == {new} \cup (IF "RequestTableFails" \in Incidents THEN {old} ELSE {})

xdp_mark_request(i, status) == [reqs EXCEPT ![i].status = status]

\* Row i is the next one of the snapshot.
NextInDrain(i, action) ==
    /\ running
    /\ i \in drain
    /\ \A n \in drain : i <= n
    /\ reqs[i].action = action

\* manual_block and manual_rate_limit: refused, put off, or allowed.
Refused(k) == k \in config.own
Deferred(k) == ~Refused(k) /\ k \notin DOMAIN active /\ AtCap(active)

\* The entry is written before the executor is asked; a refusal rolls back a new
\* one only.
Entered(k, pps, ok) ==
    IF k \in ok \cup DOMAIN active THEN Put(active, k, ManualEntry(pps)) ELSE active

StatusOf(k, ok) ==
    IF k \in ok THEN "applied" ELSE IF disarmed THEN "rejected" ELSE "pending"

\* apply_xdp_request for a block or rate_limit row (apply_add, apply_rate_limit).
ApplyInstall(i) ==
    LET k == reqs[i].item
        pps == reqs[i].pps IN
    /\ NextInDrain(i, "install")
    /\ \/ /\ ~Refused(k) /\ ~Deferred(k)
          /\ \E ok \in Takeable({k}) :
                /\ active' = Entered(k, pps, ok)
                /\ Install(ok, ({k} \cap DOMAIN active) \ ok, ManualEntry(pps))
                /\ reqs' \in Writes(reqs, xdp_mark_request(i, StatusOf(k, ok)))
       \/ /\ Refused(k) \/ Deferred(k)
          /\ reqs' \in IF Deferred(k) THEN {reqs}
                       ELSE Writes(reqs, xdp_mark_request(i, "rejected"))
          /\ UNCHANGED <<active, maps, journal, pending_mirror, disturbed>>
    /\ drain' = drain \ {i}
    /\ UNCHANGED <<running, config, by_target, disarmed, pending_reapply, history, attacks>>

\* apply_xdp_request for an unblock or clear_rate row (apply_remove,
\* apply_clear_rate): applied whatever the executor says.
ApplyRemove(i) ==
    LET k == reqs[i].item IN
    /\ NextInDrain(i, "remove")
    /\ active' = Drop(active, {k})
    /\ by_target' = Forgotten(by_target, {k})
    /\ reported' = Forgotten(reported, {k})
    /\ Remove({k})
    /\ reqs' \in Writes(reqs, xdp_mark_request(i, "applied"))
    /\ drain' = drain \ {i}
    /\ UNCHANGED <<running, config, disarmed, pending_reapply, attacks, cut, unheard>>

(***************************************************************************)
(* Disarm, crash and restart                                               *)
(***************************************************************************)

\* Remove everything, best effort, without touching the journal.
disarm ==
    /\ "Disarm" \in Incidents
    /\ Idle /\ ~disarmed
    /\ disarmed' = TRUE
    /\ active' = EmptyMap
    /\ by_target' = Forgotten(by_target, DOMAIN active)
    /\ \E w \in Removable(DOMAIN active) :
            /\ maps' = Drop(maps, w)
            /\ disturbed' = disturbed \cup DOMAIN active
    /\ UNCHANGED <<running, config, pending_mirror, pending_reapply, drain, journal,
                   reqs, history, attacks>>

\* The process ends, and with it the program, its maps and the detector.
Crash ==
    /\ "Crash" \in Incidents
    /\ running
    /\ running' = FALSE
    /\ active' = EmptyMap /\ maps' = EmptyMap /\ pending_mirror' = EmptyMap
    /\ by_target' = [v \in Victim |-> {}] /\ reported' = [v \in Victim |-> {}]
    /\ disarmed' = FALSE
    /\ pending_reapply' = {} /\ drain' = {} /\ disturbed' = {} /\ attacks' = {}
    /\ cut' = {} /\ unheard' = {}
    /\ UNCHANGED <<config, journal, reqs>>

\* A start reads the configuration and applies every row again, whatever the
\* cap and the own prefixes are now.
reapply_active ==
    /\ ~running
    /\ running' = TRUE
    /\ config' \in Configs
    /\ active' = journal
    /\ by_target' = Resumed(journal)
    /\ \E r \in Succeeding(DOMAIN journal, "InstallFails") :
            /\ maps' = [k \in r |-> journal[k].pps]
            /\ pending_reapply' = DOMAIN journal \ r
    /\ reported' = Resumed(journal)
    /\ unheard' = {v \in Victim : Resumed(journal)[v] # {}}
    /\ UNCHANGED <<cut, disarmed, pending_mirror, drain, journal, reqs, attacks, disturbed>>
-----------------------------------------------------------------------------
Init ==
    /\ running = FALSE
    /\ config \in Configs
    /\ active = EmptyMap /\ maps = EmptyMap /\ journal = EmptyMap
    /\ pending_mirror = EmptyMap
    /\ by_target = [v \in Victim |-> {}] /\ reported = [v \in Victim |-> {}]
    /\ disarmed = FALSE
    /\ pending_reapply = {} /\ drain = {} /\ disturbed = {} /\ attacks = {}
    /\ cut = {} /\ unheard = {}
    /\ reqs = <<>>

Detection    == \E v \in Victim : Clear(v) \/ DropEvent(v) \/ \E ts \in TopSources : Detect(v, ts)
Operator     == \/ \E s \in Source : \E pps \in Rate : Enqueue(s, pps, "install")
                \/ \E n \in Net : Enqueue(n, NoRate, "install")
                \/ \E k \in Item : Enqueue(k, NoRate, "remove")
ApplyRequest == \E i \in drain : ApplyInstall(i) \/ ApplyRemove(i)

Next == \/ Detection \/ Tick \/ Operator \/ ApplyRequest
        \/ disarm \/ Crash \/ reapply_active

Spec == Init /\ [][Next]_vars

-----------------------------------------------------------------------------
(***************************************************************************)
(* Properties                                                              *)
(***************************************************************************)

\* The state has the shape the code's types give it.
TypeOK ==
    /\ running \in BOOLEAN /\ disarmed \in BOOLEAN
    /\ config \in Configs
    /\ IsPartialMap(active, Item, Entry)
    /\ by_target \in [Victim -> SUBSET Source]
    /\ IsPartialMap(pending_mirror, Item, MirrorOp)
    /\ pending_reapply \subseteq Item
    /\ reqs \in Seq(Request)
    /\ drain \subseteq DOMAIN reqs
    /\ IsPartialMap(maps, Item, Rate \cup {NoRate})
    /\ IsPartialMap(journal, Item, Entry)
    /\ reported \in [Victim -> SUBSET Source]
    /\ attacks \subseteq Victim /\ cut \subseteq Victim /\ unheard \subseteq Victim
    /\ disturbed \subseteq Item

Limits == DOMAIN active \cap Source

\* by_target and the limits agree: a victim refers to existing limits only (a
\* Cleared would otherwise release what an operator removed and re-installed),
\* and every automatic limit has a victim whose Cleared can find it, also after
\* a rollback, an operator's clear, a disarm or a restart.
AutoReleasable ==
    /\ \A v \in Victim : by_target[v] \subseteq Limits
    /\ \A s \in Limits : active[s].origin = "Auto" => \E v \in Victim : s \in by_target[v]

\* Every automatic limit serves an attack that is still open: none outlives its
\* last attack (there is no TTL to end it), but where the Cleared was dropped by
\* the sink or the process was restarted in between.  Such a limit stays until
\* something is heard of its victim again.  A start without a default limit
\* resumes the rows all the same and leaves them to the operator.
AutoServesAttack ==
    config.auto => \A s \in Limits : active[s].origin = "Auto" =>
        \E v \in attacks \cup unheard : s \in by_target[v]

\* An automatic limit ends with its attack: some victim's Cleared can find it in
\* by_target (clear_attack and the rollback of a refused write both edit the index
\* and the limits together), and that Cleared is still to come or is one the
\* manager was never given.
AutoEndsWithAttack == AutoReleasable /\ AutoServesAttack

\* The limits given up in a step, other than by a disarm or the end of the process.
GivenUp == IF running' /\ ~disarmed' THEN Limits \ DOMAIN active' ELSE {}

\* A limit that stood after the last report of an open attack and was named in it
\* is not given up before that attack clears, except by the operator, whatever
\* other attacks it serves open, clear or are dropped meanwhile (handle_cleared);
\* not so when that report had met the cap.
SharedSourceKept ==
    [][\A s \in GivenUp : \A v \in config.eligible \ cut' : s \notin reported'[v]]_vars

\* "A manually-installed (or upgraded) rate limit is never auto-cleared": an
\* operator's entry goes by a request, a disarm or the end of the process.
ManualStays ==
    [][\A k \in DOMAIN active \ DOMAIN active' :
            active[k].origin = "Manual" => drain' # drain \/ disarmed' \/ ~running']_vars

\* What is believed and not confirmed is a rate an operator asked for, and its
\* request is still there to be tried again: every other entry is in the maps
\* with the believed rate.
UnconfirmedIsRetried ==
    \A k \in DOMAIN active \ pending_reapply :
        /\ k \in DOMAIN maps
        /\ maps[k] # active[k].pps =>
            \E i \in DOMAIN reqs : /\ reqs[i].item = k /\ reqs[i].pps = active[k].pps
                                   /\ reqs[i].action = "install"
                                   /\ reqs[i].status = "pending"

\* A restart would bring back exactly what is enforced: an undisturbed item has a
\* row exactly when it is active, with the same origin, rate and victim, so that
\* by_target is rebuilt for it.
MirrorExact ==
    running => \A k \in Item \ disturbed :
        /\ k \in DOMAIN journal <=> k \in DOMAIN active
        /\ k \in DOMAIN active => journal[k] = active[k]

\* Kernel maps, controller and journal tell one story of every entry: a rate the
\* maps do not have yet still has its request, and a restart would resume what
\* is enforced, for the victims it is enforced for.
EntriesAgree == UnconfirmedIsRetried /\ MirrorExact

\* The plane's contract, with the active set, the map keys and the reapply queue
\* in the roles of wanted, live and owed.
Plane == INSTANCE MitigationPlane WITH
    up <- running, killed <- disarmed,
    wanted <- DOMAIN active, live <- DOMAIN maps, owed <- pending_reapply

\* The manager implements the contract, although it keeps an entry whose update
\* the kernel refused and removes keys it no longer believes in.
ImplementsPlane == Plane!Spec
=============================================================================
