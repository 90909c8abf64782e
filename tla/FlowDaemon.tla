----------------------------- MODULE FlowDaemon -----------------------------
(***************************************************************************)
(* `blackwalld flow` from start to exit (bin/blackwalld/src/main.rs): the   *)
(* managers are built and spawned one after the other, the SIGUSR1 handler *)
(* is installed, the collector serves.  A session is live or, with the     *)
(* `shadow` directive, only records.  In a live session the RTBH and the   *)
(* FlowSpec manager share one ArmingRateLimiter.                           *)
(*                                                                         *)
(* What a manager does with its rules is the subject of RtbhManager,       *)
(* FlowSpecManager and XdpManager; here a manager has the items it         *)
(* believes active and the batch of the event it is working on.            *)
(***************************************************************************)
EXTENDS Integers, Sequences, FiniteSets

CONSTANTS
    Items,          \* by plane, what an event may ask its manager to mitigate
    MaxNewPerMin,   \* max-new-per-min of the rtbh block
    WindowMs,       \* WINDOW_MS, scaled
    MaxUptime       \* bound: the clock of one session

ASSUME FlowAssumption ==
    /\ {MaxNewPerMin, WindowMs, MaxUptime} \subseteq Nat
    /\ \A p \in {"rtbh", "flowspec", "xdp"} : IsFiniteSet(Items[p])

VARIABLES
    daemon,    \* stage of the start-up, shadow, the armed gauge
    managers,   \* the three manager tasks
    limiter,    \* ArmingRateLimiter::window
    admitted,   \* history: the announces admitted, by stamp and by time, see Admitted
    wire,       \* what the peer and the eBPF maps hold
    mirror,     \* the announced mirror in Postgres
    recorded,   \* ShadowMetrics: what a shadow session would have mitigated
    uptime      \* mono_now

flowVars == <<daemon, managers, limiter, admitted, wire, mirror, recorded, uptime>>

Planes == {"rtbh", "flowspec", "xdp"}

\* The planes that announce over BGP and are given the rate limiter.
Limited == {"rtbh", "flowspec"}

Unspawned == [spawned |-> FALSE, active |-> {}, owed |-> {}, batch |-> {}, now |-> 0,
              notified |-> FALSE, disarmed |-> FALSE]

Up == daemon.stage # "down"

\* The executors that may refuse: a write to an eBPF map can fail.  A BgpHandle fails
\* only when the session task has ended, which it does with the process, and the
\* shadow executors never do.
Faulty(p) == p = "xdp" /\ ~daemon.shadow

\* The plane's executor changes what is on the wire; a shadow one does not.
Execute(p, holds) ==
    wire' = IF daemon.shadow THEN wire ELSE [wire EXCEPT ![p] = holds]

\* The journal follows; NoOpJournal and NoOpXdpJournal keep nothing.
Journal(p, rows) ==
    mirror' = IF daemon.shadow THEN mirror ELSE [mirror EXCEPT ![p] = rows]

\* A shadow executor counts, logs and audits an install it is asked for.
WouldMitigate(p, t) ==
    recorded' = IF daemon.shadow THEN [recorded EXCEPT ![p] = @ \cup {t}] ELSE recorded

\* What of the items S the plane's executor takes.
Taken(p, S) == IF Faulty(p) THEN SUBSET S ELSE {S}

\* What of them it removes; a key that is not in the map cannot be deleted.
Removed(p, S) == IF Faulty(p) THEN SUBSET (S \cap wire[p]) ELSE {S}

\* The history of the limiter: newest is the newest stamp it has admitted, stamp
\* counts the admitted announces whose stamp is at most a window older than that,
\* time the ones admitted at most a window ago.
NoneAdmitted ==
    LET none == [n \in 0..MaxUptime |-> 0] IN [newest |-> 0, stamp |-> none, time |-> none]

Since(start, counts) == [n \in 0..MaxUptime |-> IF n < start THEN 0 ELSE counts[n]]

Admitted(stamp) ==
    LET newest == IF stamp > admitted.newest THEN stamp ELSE admitted.newest
    IN  [newest |-> newest,
         stamp  |-> Since(newest - WindowMs, [admitted.stamp EXCEPT ![stamp] = @ + 1]),
         time   |-> [admitted.time EXCEPT ![uptime] = @ + 1]]

FlowInit ==
    /\ daemon = [stage |-> "down", shadow |-> FALSE, armed |-> 0]
    /\ managers = [p \in Planes |-> Unspawned]
    /\ limiter = <<>>
    /\ admitted = NoneAdmitted
    /\ wire = [p \in Planes |-> {}]
    /\ mirror = [p \in Planes |-> {}]
    /\ recorded = [p \in Planes |-> {}]
    /\ uptime = 0

\* The configuration is read, the store connected, the gauges and the disarm
\* channel made.
StartFlow(shadow) ==
    /\ daemon.stage = "down"
    /\ daemon' = [stage |-> "rtbh", shadow |-> shadow, armed |-> IF shadow THEN 0 ELSE 1]
    /\ UNCHANGED <<managers, limiter, admitted, wire, mirror, recorded, uptime>>

\* A manager task starts, subscribed to the disarm channel.  A live one is first
\* rehydrated from its mirror: the dataplane takes some rows, the others are owed.  A
\* shadow one starts empty: its executor records and its journal keeps nothing.
Spawned(p, taken) ==
    /\ managers' = [managers EXCEPT ![p] =
           IF daemon.shadow
           THEN [Unspawned EXCEPT !.spawned = TRUE]
           ELSE [Unspawned EXCEPT !.spawned = TRUE, !.active = mirror[p], !.owed = mirror[p] \ taken]]
    /\ Execute(p, taken)
    /\ UNCHANGED <<limiter, admitted, mirror, recorded, uptime>>

SpawnRtbh ==
    /\ daemon.stage = "rtbh"
    /\ \E taken \in Taken("rtbh", mirror["rtbh"]) : Spawned("rtbh", taken)
    /\ daemon' = [daemon EXCEPT !.stage = "flowspec"]

SpawnFlowSpec ==
    /\ daemon.stage = "flowspec"
    /\ \E taken \in Taken("flowspec", mirror["flowspec"]) : Spawned("flowspec", taken)
    /\ daemon' = [daemon EXCEPT !.stage = "xdp"]

\* An attach that fails is not fatal: the daemon runs on without XDP.
SpawnXdp ==
    /\ daemon.stage = "xdp"
    /\ \/ \E taken \in Taken("xdp", mirror["xdp"]) : Spawned("xdp", taken)
       \/ UNCHANGED <<managers, wire, limiter, admitted, mirror, recorded, uptime>>
    /\ daemon' = [daemon EXCEPT !.stage = "signal"]

\* Mutant: the handler is installed as soon as the disarm channel exists.
Mutant_EarlyHandler(s) ==
    s # "down"

\* The stages in which SIGUSR1 has its handler.  Before, the signal's default
\* action ends the process.
Handled(s) ==
    s = "serving"

\* disarm_signal_task, the metrics and API servers are spawned and the collector
\* starts.
Serve ==
    /\ daemon.stage = "signal"
    /\ daemon' = [daemon EXCEPT !.stage = "serving"]
    /\ UNCHANGED <<managers, limiter, admitted, wire, mirror, recorded, uptime>>

\* The process ends: an error of the start-up, a signal or a crash.  The peer drops
\* the routes with the session and the eBPF link goes with its owner.
Exit ==
    /\ Up
    /\ daemon' = [daemon EXCEPT !.stage = "down"]
    /\ managers' = [p \in Planes |-> Unspawned]
    /\ wire' = [p \in Planes |-> {}]
    /\ limiter' = <<>>
    /\ admitted' = NoneAdmitted
    /\ recorded' = [p \in Planes |-> {}]
    /\ uptime' = 0
    /\ UNCHANGED mirror

Elapse ==
    /\ Up /\ uptime < MaxUptime
    /\ uptime' = uptime + 1
    /\ admitted' = [admitted EXCEPT !.time = Since(uptime' - WindowMs, @)]
    /\ UNCHANGED <<daemon, managers, limiter, wire, mirror, recorded>>

\* The task is in its select!.
Waiting(p) == managers[p].spawned /\ managers[p].batch = {}

\* A detection or an operator's request is taken: the time is read once for all it
\* asks for, several rules for FlowSpec.  XDP takes no time stamp.
Receive(p) ==
    /\ Waiting(p)
    /\ \E b \in (SUBSET (Items[p] \ managers[p].active)) \ {{}} :
         /\ p # "flowspec" => Cardinality(b) = 1
         /\ managers' = [managers EXCEPT ![p] =
                            [managers[p] EXCEPT !.batch = b, !.now = IF p \in Limited THEN uptime ELSE 0]]
    /\ UNCHANGED <<daemon, limiter, admitted, wire, mirror, recorded, uptime>>

\* Mutant: a stamp exactly one window old has aged out.
Mutant_PopsEdge(now) ==
    LET aged == {n \in 1..Len(limiter) : \A i \in 1..n : limiter[i] <= now - WindowMs}
    IN  SubSeq(limiter, Cardinality(aged) + 1, Len(limiter))

\* ArmingRateLimiter::try_acquire, the while loop: stamps leave from the front, up
\* to the first that is inside the window of the caller's stamp.
Trailing(now) ==
    LET aged == {n \in 1..Len(limiter) : \A i \in 1..n : limiter[i] < now - WindowMs}
    IN  SubSeq(limiter, Cardinality(aged) + 1, Len(limiter))

\* One item of the batch (execute_and_journal_announce): a disarmed manager skips
\* it, the limiter refuses it, the executor fails, or it becomes active.
Announce(p) ==
    \E t \in managers[p].batch :
      LET m        == managers[p]
          limited  == p \in Limited /\ ~daemon.shadow
          kept     == Trailing(m.now)
          refused  == limited /\ Len(kept) >= MaxNewPerMin
          done(on) == managers' = [managers EXCEPT ![p] =
                                     [m EXCEPT !.batch = m.batch \ {t},
                                               !.now = IF m.batch = {t} THEN 0 ELSE m.now,
                                               !.active = IF on THEN m.active \cup {t} ELSE m.active]]
      IN
      /\ IF m.disarmed \/ ~limited
         THEN UNCHANGED <<limiter, admitted>>
         ELSE IF refused
         THEN limiter' = kept /\ UNCHANGED admitted
         ELSE limiter' = Append(kept, m.now) /\ admitted' = Admitted(m.now)
      /\ \/ /\ m.disarmed \/ refused \/ Faulty(p)
            /\ done(FALSE)
            /\ UNCHANGED <<wire, mirror, recorded>>
         \/ /\ ~m.disarmed /\ ~refused
            /\ done(TRUE)
            /\ Execute(p, wire[p] \cup {t})
            /\ Journal(p, mirror[p] \cup {t})
            /\ WouldMitigate(p, t)
      /\ UNCHANGED <<daemon, uptime>>

\* A Cleared event, an expiry or an operator's remove gives one item back.
Clear(p) ==
    /\ Waiting(p)
    /\ \E t \in managers[p].active :
         /\ managers' = [managers EXCEPT ![p].active = @ \ {t}]
         /\ \E gone \in Removed(p, {t}) :
              Execute(p, wire[p] \ gone) /\ Journal(p, mirror[p] \ gone)
    /\ UNCHANGED <<daemon, limiter, admitted, recorded, uptime>>

\* The tick retries what the rehydrate could not apply, if it is still active.
Retry(p) ==
    /\ Waiting(p) /\ managers[p].owed # {}
    /\ LET due == managers[p].owed \cap managers[p].active
       IN  \E taken \in Taken(p, due) :
             /\ managers' = [managers EXCEPT ![p].owed = due \ taken]
             /\ Execute(p, wire[p] \cup taken)
    /\ UNCHANGED <<daemon, limiter, admitted, mirror, recorded, uptime>>

\* The operator's signal.  disarm_signal_task lowers the gauge and broadcasts; a
\* receiver that lags still wakes.
Sigusr1 ==
    IF Handled(daemon.stage)
    THEN /\ daemon' = [daemon EXCEPT !.armed = 0]
         /\ managers' = [p \in Planes |-> [managers[p] EXCEPT !.notified = @ \/ managers[p].spawned]]
         /\ UNCHANGED <<limiter, admitted, wire, mirror, recorded, uptime>>
    ELSE Exit

\* The disarm branch of a manager task: everything active is withdrawn, best
\* effort, and no row of the mirror is touched.  A second disarm does nothing.
Disarm(p) ==
    /\ Waiting(p) /\ managers[p].notified
    /\ \E gone \in Removed(p, managers[p].active) :
         /\ managers' = [managers EXCEPT ![p] =
                            [managers[p] EXCEPT !.notified = FALSE, !.disarmed = TRUE, !.active = {}]]
         /\ Execute(p, wire[p] \ gone)
    /\ UNCHANGED <<daemon, limiter, admitted, mirror, recorded, uptime>>

FlowNext ==
    \/ \E shadow \in BOOLEAN : StartFlow(shadow)
    \/ SpawnRtbh \/ SpawnFlowSpec \/ SpawnXdp \/ Serve
    \/ Exit \/ Elapse \/ Sigusr1
    \/ \E p \in Planes : Receive(p) \/ Announce(p) \/ Clear(p) \/ Retry(p) \/ Disarm(p)

FlowDaemonSpec == FlowInit /\ [][FlowNext]_flowVars
-----------------------------------------------------------------------------

Total(counts) ==
    LET total[n \in 0..MaxUptime] == counts[n] + (IF n = 0 THEN 0 ELSE total[n - 1])
    IN  total[MaxUptime]

\* What max-new-per-min bounds (rate_limit.rs, try_acquire, one limiter for both
\* managers through with_rate_limiter).  By the stamps, which the managers read
\* before they wait for anything: in the window that ends at the newest stamp there
\* are never more than max-new-per-min announces, a late one with an older stamp
\* included.  By the clock: in any trailing window there are never more than that
\* for the stamps of the window and once more for each manager, whose batch may
\* have begun before it.  "at most `max_per_min` new announces in any trailing
\* 60_000 ms window" (rate_limit.rs:34-35) is more than the code does by the clock.
NewRateBounded ==
    /\ Total(admitted.stamp) <= MaxNewPerMin
    /\ Total(admitted.time) <= (1 + Cardinality(Limited)) * MaxNewPerMin

\* Record-only is kept, by configuration and by order.  The kill switch reaches every
\* manager, in whatever stage and in the middle of whatever batch the signal finds
\* it: in a live session whose armed gauge is 0 a manager task is disarmed or has the
\* order waiting, and a disarmed one believes nothing active and leaves nothing on
\* the wire but map entries that would not go.  A shadow session, whatever was
\* announced before it, has nothing on the wire and has counted all it believes
\* active (disarm_signal_task, the shadow arms of the start-up, ShadowMetrics).
RecordOnly ==
    \A p \in Planes : LET m == managers[p] IN
        /\ Up /\ ~daemon.shadow /\ daemon.armed = 0 /\ m.spawned => m.disarmed \/ m.notified
        /\ m.disarmed => m.active = {} /\ (p \in Limited => wire[p] = {})
        /\ Up /\ daemon.shadow => wire[p] = {} /\ m.active \subseteq recorded[p]
=============================================================================
