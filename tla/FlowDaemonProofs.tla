-------------------------- MODULE FlowDaemonProofs --------------------------
(***************************************************************************)
(* RecordOnly for any items, any rate cap, any window and any number of    *)
(* sessions: the kill switch reaches every manager task, and a shadow      *)
(* session puts nothing on the wire.                                       *)
(*                                                                         *)
(* RecordOnly is not inductive.  A manager spawned late in the start-up    *)
(* would miss an earlier disarm, so the armed gauge must be up until the   *)
(* daemon serves (GaugeUp).  A disarm empties the wire of a BGP plane only *)
(* because such a plane announces nothing it does not believe active       *)
(* (WireBelieved).  A shadow session starts on a clean wire only because   *)
(* the previous process took its routes with it (DownIsClean).             *)
(***************************************************************************)
EXTENDS FlowDaemon, TLAPS

Stages == {"down", "rtbh", "flowspec", "xdp", "signal", "serving"}
Anything == UNION {Items[p] : p \in Planes}

Daemon == [stage : Stages, shadow : BOOLEAN, armed : {0, 1}]
Manager == [spawned : BOOLEAN, active : SUBSET Anything, owed : SUBSET Anything,
            batch : SUBSET Anything, now : Nat, notified : BOOLEAN, disarmed : BOOLEAN]

FlowTyped ==
    /\ daemon \in Daemon
    /\ managers \in [Planes -> Manager]
    /\ wire \in [Planes -> SUBSET Anything]
    /\ mirror \in [Planes -> SUBSET Anything]
    /\ recorded \in [Planes -> SUBSET Anything]
    /\ uptime \in Nat

GaugeUp == Up /\ ~daemon.shadow /\ daemon.armed = 0 => daemon.stage = "serving"

WireBelieved == \A p \in Limited : wire[p] \subseteq managers[p].active

DownIsClean == ~Up => \A p \in Planes : managers[p] = Unspawned /\ wire[p] = {}

IndRecord == FlowTyped /\ GaugeUp /\ WireBelieved /\ DownIsClean /\ RecordOnly

\* What a step of the manager of plane p may do to the rest of the state.
Touches(p) ==
    /\ daemon' = daemon /\ uptime' = uptime
    /\ \A q \in Planes \ {p} :
         /\ managers'[q] = managers[q] /\ wire'[q] = wire[q] /\ recorded'[q] = recorded[q]

\* The part of the invariant that speaks of one plane, in the next state.
Kept(p) ==
    LET m == managers'[p] IN
    /\ (Up /\ ~daemon.shadow /\ daemon.armed = 0 /\ m.spawned => m.disarmed \/ m.notified)
    /\ (m.disarmed => m.active = {} /\ (p \in Limited => wire'[p] = {}))
    /\ (daemon.shadow => wire'[p] = {} /\ m.active \subseteq recorded'[p])
    /\ (p \in Limited => wire'[p] \subseteq m.active)

LEMMA InitRecord == FlowInit => IndRecord
BY DEF FlowInit, IndRecord, FlowTyped, GaugeUp, WireBelieved, DownIsClean, RecordOnly, Up,
       Daemon, Manager, Stages, Unspawned, Planes, Limited

\* A step of one manager keeps the invariant when it keeps that plane's part.
LEMMA OnePlane ==
    ASSUME IndRecord, FlowTyped', NEW p \in Planes, Up, Touches(p), Kept(p)
    PROVE  IndRecord'
<1>1. GaugeUp' /\ Up'
  BY DEF IndRecord, GaugeUp, Up, Touches
<1>2. WireBelieved'
  BY DEF IndRecord, WireBelieved, Touches, Kept, Limited, Planes
<1>3. RecordOnly'
  <2> SUFFICES ASSUME NEW q \in Planes
      PROVE LET m == managers'[q] IN
            /\ Up' /\ ~daemon'.shadow /\ daemon'.armed = 0 /\ m.spawned => m.disarmed \/ m.notified
            /\ m.disarmed => m.active = {} /\ (q \in Limited => wire'[q] = {})
            /\ Up' /\ daemon'.shadow => wire'[q] = {} /\ m.active \subseteq recorded'[q]
    BY DEF RecordOnly
  <2>1. CASE q = p
    BY <2>1, <1>1 DEF Kept, Touches, Up
  <2>2. CASE q # p
    BY <2>2, <1>1 DEF Touches, IndRecord, RecordOnly, Up
  <2>3. QED
    BY <2>1, <2>2
<1>4. QED
  BY <1>1, <1>2, <1>3 DEF IndRecord, DownIsClean

LEMMA StartKeeps == ASSUME IndRecord, NEW shadow \in BOOLEAN, StartFlow(shadow) PROVE IndRecord'
BY DEF IndRecord, FlowTyped, GaugeUp, WireBelieved, DownIsClean, RecordOnly, Up, StartFlow,
       Daemon, Stages, Unspawned

LEMMA ExitKeeps == ASSUME IndRecord, Exit PROVE IndRecord'
BY DEF IndRecord, FlowTyped, GaugeUp, WireBelieved, DownIsClean, RecordOnly, Up, Exit,
       Daemon, Manager, Stages, Unspawned, Planes, Limited

LEMMA ElapseKeeps == ASSUME IndRecord, Elapse PROVE IndRecord'
BY DEF IndRecord, FlowTyped, GaugeUp, WireBelieved, DownIsClean, RecordOnly, Up, Elapse

LEMMA ServeKeeps == ASSUME IndRecord, Serve PROVE IndRecord'
BY DEF IndRecord, FlowTyped, GaugeUp, WireBelieved, DownIsClean, RecordOnly, Up, Serve,
       Daemon, Stages

\* The signal reaches every task that exists when the daemon serves; earlier it
\* ends the process.
LEMMA SignalKeeps == ASSUME IndRecord, Sigusr1 PROVE IndRecord'
<1>1. CASE ~Handled(daemon.stage)
  BY <1>1, ExitKeeps DEF Sigusr1
<1>2. CASE Handled(daemon.stage)
  <2>1. /\ daemon' = [daemon EXCEPT !.armed = 0] /\ daemon.stage = "serving"
        /\ UNCHANGED <<wire, mirror, recorded, uptime>>
    BY <1>2 DEF Sigusr1, Handled
  <2>2. daemon' \in Daemon /\ daemon'.stage = "serving" /\ daemon'.shadow = daemon.shadow
    BY <2>1 DEF IndRecord, FlowTyped, Daemon, Stages
  <2>3. ASSUME NEW p \in Planes
        PROVE  /\ managers'[p] \in Manager
               /\ managers'[p].active = managers[p].active
               /\ managers'[p].spawned = managers[p].spawned
               /\ managers'[p].disarmed = managers[p].disarmed
               /\ managers[p].spawned => managers'[p].notified
    <3> DEFINE rung == managers[p].notified \/ managers[p].spawned
    <3>1. managers'[p] = [managers[p] EXCEPT !.notified = rung]
      BY <1>2 DEF Sigusr1
    <3>2. managers[p] \in Manager /\ rung \in BOOLEAN /\ (managers[p].spawned => rung)
      BY DEF IndRecord, FlowTyped, Manager
    <3> HIDE DEF rung
    <3>3. QED
      BY <3>1, <3>2 DEF Manager
  <2>4. managers' \in [Planes -> Manager]
    BY <1>2, <2>3 DEF Sigusr1
  <2>5. QED
    BY <2>1, <2>2, <2>3, <2>4
    DEF IndRecord, FlowTyped, GaugeUp, WireBelieved, DownIsClean, RecordOnly, Up, Limited, Planes
<1>3. QED
  BY <1>1, <1>2

\* A manager that is spawned finds the gauge up, because no handler can have
\* lowered it yet.
LEMMA SpawnKeeps ==
    ASSUME IndRecord, NEW p \in Planes, NEW next \in Stages \ {"down"},
           daemon.stage \notin {"down", "serving"},
           daemon' = [daemon EXCEPT !.stage = next],
           NEW taken \in Taken(p, mirror[p]), Spawned(p, taken)
    PROVE  IndRecord'
<1>1. daemon' \in Daemon /\ daemon'.shadow = daemon.shadow /\ daemon'.armed = daemon.armed /\ Up /\ Up'
  BY DEF IndRecord, FlowTyped, Daemon, Up, Stages
<1>2. taken \subseteq mirror[p] /\ (p \in Limited => taken = mirror[p])
  BY DEF Taken, Faulty, Limited
<1>3. /\ managers'[p] \in Manager /\ managers'[p].disarmed = FALSE
      /\ managers'[p].active = IF daemon.shadow THEN {} ELSE mirror[p]
      /\ \A q \in Planes \ {p} : managers'[q] = managers[q]
  BY Zenon, <1>2 DEF Spawned, Unspawned, Manager, IndRecord, FlowTyped
<1>4. /\ wire'[p] = IF daemon.shadow THEN wire[p] ELSE taken
      /\ \A q \in Planes \ {p} : wire'[q] = wire[q]
      /\ wire' \in [Planes -> SUBSET Anything]
  BY <1>2 DEF Spawned, Execute, IndRecord, FlowTyped
<1>5. managers' \in [Planes -> Manager] /\ UNCHANGED <<mirror, recorded, uptime>>
  BY <1>3 DEF Spawned, IndRecord, FlowTyped
<1>6. ~daemon.shadow => daemon.armed = 1
  BY <1>1 DEF IndRecord, GaugeUp, FlowTyped, Daemon
<1>7. FlowTyped' /\ GaugeUp' /\ DownIsClean'
  BY <1>1, <1>4, <1>5, <1>6 DEF IndRecord, FlowTyped, GaugeUp, DownIsClean
<1>8. WireBelieved'
  BY <1>1, <1>2, <1>3, <1>4 DEF IndRecord, WireBelieved, RecordOnly, Limited, Planes
<1>9. RecordOnly'
  BY <1>1, <1>3, <1>4, <1>5, <1>6 DEF IndRecord, RecordOnly
<1>10. QED
  BY <1>7, <1>8, <1>9 DEF IndRecord

\* A task that exists belongs to a process that runs.
LEMMA TaskIsUp ==
    ASSUME IndRecord, NEW p \in Planes, managers[p].spawned \/ managers[p].batch # {}
    PROVE  Up
BY DEF IndRecord, DownIsClean, Unspawned

\* What an executor takes or removes, of a set it is given.
LEMMA Executors ==
    ASSUME IndRecord, NEW p \in Planes, NEW S \in SUBSET Anything
    PROVE  /\ \A x \in Taken(p, S) : x \subseteq S
           /\ \A x \in Removed(p, S) : x \subseteq S /\ (p \in Limited => x = S)
BY DEF Taken, Removed, Faulty, Limited

LEMMA ReceiveKeeps == ASSUME IndRecord, NEW p \in Planes, Receive(p) PROVE IndRecord'
<1>1. PICK b \in SUBSET Anything :
        managers' = [managers EXCEPT ![p] =
                       [managers[p] EXCEPT !.batch = b, !.now = IF p \in Limited THEN uptime ELSE 0]]
  BY Zenon DEF Receive, Anything
<1>2. managers \in [Planes -> Manager] /\ uptime \in Nat
  BY DEF IndRecord, FlowTyped
<1>3. /\ managers' \in [Planes -> Manager]
      /\ \A q \in Planes \ {p} : managers'[q] = managers[q]
      /\ managers'[p].active = managers[p].active /\ managers'[p].spawned = managers[p].spawned
      /\ managers'[p].disarmed = managers[p].disarmed /\ managers'[p].notified = managers[p].notified
  <2> DEFINE busy == [managers[p] EXCEPT !.batch = b, !.now = IF p \in Limited THEN uptime ELSE 0]
  <2>1. managers[p] \in Manager
    BY <1>2
  <2>2. /\ busy \in Manager
        /\ busy.active = managers[p].active /\ busy.spawned = managers[p].spawned
        /\ busy.disarmed = managers[p].disarmed /\ busy.notified = managers[p].notified
    BY Zenon, <1>2, <2>1 DEF Manager
  <2>3. managers' = [managers EXCEPT ![p] = busy]
    BY <1>1
  <2> HIDE DEF busy
  <2> QED BY <1>2, <2>2, <2>3
<1>4. FlowTyped' /\ Touches(p)
  BY <1>3 DEF Receive, Touches, IndRecord, FlowTyped
<1>5. Up
  BY TaskIsUp DEF Receive, Waiting
<1>6. Kept(p)
  BY <1>3, <1>5 DEF Kept, Receive, IndRecord, RecordOnly, WireBelieved
<1>7. QED
  BY <1>4, <1>5, <1>6, OnePlane

LEMMA ClearKeeps == ASSUME IndRecord, NEW p \in Planes, Clear(p) PROVE IndRecord'
<1>0. PICK t \in managers[p].active : \E x \in Removed(p, {t}) :
        /\ managers' = [managers EXCEPT ![p].active = @ \ {t}]
        /\ Execute(p, wire[p] \ x) /\ Journal(p, mirror[p] \ x)
  BY Zenon DEF Clear
<1>1. PICK gone \in Removed(p, {t}) :
        /\ managers' = [managers EXCEPT ![p].active = @ \ {t}]
        /\ Execute(p, wire[p] \ gone) /\ Journal(p, mirror[p] \ gone)
  BY Zenon, <1>0
<1>2. /\ managers \in [Planes -> Manager] /\ wire \in [Planes -> SUBSET Anything]
      /\ mirror \in [Planes -> SUBSET Anything] /\ managers[p] \in Manager
  BY DEF IndRecord, FlowTyped
<1>3. {t} \in SUBSET Anything
  BY <1>2 DEF Manager
<1>4. p \in Limited => gone = {t}
  BY <1>1, <1>3, Executors
<1>5. /\ managers' \in [Planes -> Manager]
      /\ \A q \in Planes \ {p} : managers'[q] = managers[q]
      /\ managers'[p].active = managers[p].active \ {t} /\ managers'[p].spawned = managers[p].spawned
      /\ managers'[p].disarmed = managers[p].disarmed /\ managers'[p].notified = managers[p].notified
  BY <1>1, <1>2 DEF Manager
<1>6. /\ wire' \in [Planes -> SUBSET Anything] /\ \A q \in Planes \ {p} : wire'[q] = wire[q]
      /\ wire'[p] = IF daemon.shadow THEN wire[p] ELSE wire[p] \ gone
  BY <1>1, <1>2 DEF Execute
<1>7. mirror' \in [Planes -> SUBSET Anything]
  BY <1>1, <1>2 DEF Journal
<1>8. FlowTyped' /\ Touches(p)
  BY <1>5, <1>6, <1>7 DEF Clear, Touches, IndRecord, FlowTyped
<1>9. Up
  BY TaskIsUp DEF Clear, Waiting
<1>10. Kept(p)
  BY <1>4, <1>5, <1>6, <1>9 DEF Kept, Clear, IndRecord, RecordOnly, WireBelieved
<1>11. QED
  BY <1>8, <1>9, <1>10, OnePlane

LEMMA RetryKeeps == ASSUME IndRecord, NEW p \in Planes, Retry(p) PROVE IndRecord'
<1> DEFINE due == managers[p].owed \cap managers[p].active
<1>1. PICK taken \in Taken(p, due) :
        managers' = [managers EXCEPT ![p].owed = due \ taken] /\ Execute(p, wire[p] \cup taken)
  BY Zenon DEF Retry
<1>2. /\ managers \in [Planes -> Manager] /\ wire \in [Planes -> SUBSET Anything]
      /\ managers[p] \in Manager
  BY DEF IndRecord, FlowTyped
<1>3. due \in SUBSET Anything /\ due \subseteq managers[p].active
  BY <1>2 DEF Manager
<1> HIDE DEF due
<1>4. taken \subseteq due
  BY <1>1, <1>3, Executors
<1>5. /\ managers' \in [Planes -> Manager]
      /\ \A q \in Planes \ {p} : managers'[q] = managers[q]
      /\ managers'[p].active = managers[p].active /\ managers'[p].spawned = managers[p].spawned
      /\ managers'[p].disarmed = managers[p].disarmed /\ managers'[p].notified = managers[p].notified
  BY <1>1, <1>2, <1>3 DEF Manager
<1>6. /\ wire' \in [Planes -> SUBSET Anything] /\ \A q \in Planes \ {p} : wire'[q] = wire[q]
      /\ wire'[p] = IF daemon.shadow THEN wire[p] ELSE wire[p] \cup taken
  BY <1>1, <1>2, <1>3, <1>4 DEF Execute
<1>7. FlowTyped' /\ Touches(p)
  BY <1>5, <1>6 DEF Retry, Touches, IndRecord, FlowTyped
<1>8. Up
  BY TaskIsUp DEF Retry, Waiting
<1>9. Kept(p)
  BY <1>3, <1>4, <1>5, <1>6, <1>8 DEF Kept, Retry, IndRecord, RecordOnly, WireBelieved
<1>10. QED
  BY <1>7, <1>8, <1>9, OnePlane

\* The disarm branch leaves nothing active, and nothing announced over BGP.
LEMMA DisarmKeeps == ASSUME IndRecord, NEW p \in Planes, Disarm(p) PROVE IndRecord'
<1>1. PICK gone \in Removed(p, managers[p].active) :
        /\ managers' = [managers EXCEPT ![p] =
                           [managers[p] EXCEPT !.notified = FALSE, !.disarmed = TRUE, !.active = {}]]
        /\ Execute(p, wire[p] \ gone)
  BY Zenon DEF Disarm
<1>2. /\ managers \in [Planes -> Manager] /\ wire \in [Planes -> SUBSET Anything]
      /\ managers[p].active \in SUBSET Anything
  BY DEF IndRecord, FlowTyped, Manager
<1>3. p \in Limited => gone = managers[p].active
  BY <1>1, <1>2, Executors
<1>4. /\ managers' \in [Planes -> Manager]
      /\ \A q \in Planes \ {p} : managers'[q] = managers[q]
      /\ managers'[p].active = {} /\ managers'[p].disarmed
  <2> DEFINE idle == [managers[p] EXCEPT !.notified = FALSE, !.disarmed = TRUE, !.active = {}]
  <2>1. managers[p] \in Manager
    BY <1>2
  <2>2. idle \in Manager /\ idle.active = {} /\ idle.disarmed
    BY Zenon, <2>1 DEF Manager
  <2>3. managers' = [managers EXCEPT ![p] = idle]
    BY <1>1
  <2> HIDE DEF idle
  <2> QED BY <1>2, <2>2, <2>3
<1>5. /\ wire' \in [Planes -> SUBSET Anything] /\ \A q \in Planes \ {p} : wire'[q] = wire[q]
      /\ wire'[p] = IF daemon.shadow THEN wire[p] ELSE wire[p] \ gone
  BY <1>1, <1>2 DEF Execute
<1>6. FlowTyped' /\ Touches(p)
  BY <1>4, <1>5 DEF Disarm, Touches, IndRecord, FlowTyped
<1>7. Up
  BY TaskIsUp DEF Disarm, Waiting
<1>8. p \in Limited => wire'[p] = {}
  BY <1>3, <1>5, <1>7 DEF IndRecord, WireBelieved, RecordOnly
<1>9. Kept(p)
  BY <1>4, <1>5, <1>7, <1>8 DEF Kept, IndRecord, RecordOnly
<1>10. QED
  BY <1>6, <1>7, <1>9, OnePlane

\* One item of a batch: announced by an armed manager, or skipped.
LEMMA AnnounceKeeps == ASSUME IndRecord, NEW p \in Planes, Announce(p) PROVE IndRecord'
<1> DEFINE m == managers[p]
           next(t, on) == [m EXCEPT !.batch = m.batch \ {t},
                                    !.now = IF m.batch = {t} THEN 0 ELSE m.now,
                                    !.active = IF on THEN m.active \cup {t} ELSE m.active]
           after(t, on) == [managers EXCEPT ![p] = next(t, on)]
<1>1. PICK t \in m.batch :
        /\ \/ /\ managers' = after(t, FALSE)
              /\ UNCHANGED <<wire, mirror, recorded>>
           \/ /\ ~m.disarmed
              /\ managers' = after(t, TRUE)
              /\ Execute(p, wire[p] \cup {t}) /\ Journal(p, mirror[p] \cup {t})
              /\ WouldMitigate(p, t)
        /\ UNCHANGED <<daemon, uptime>>
  BY Zenon DEF Announce
<1> HIDE DEF after, next
<1>2. /\ managers \in [Planes -> Manager] /\ wire \in [Planes -> SUBSET Anything]
      /\ mirror \in [Planes -> SUBSET Anything] /\ recorded \in [Planes -> SUBSET Anything]
      /\ t \in Anything
  BY DEF IndRecord, FlowTyped, Manager
<1>3. Up
  BY TaskIsUp
<1>4. ASSUME NEW on \in BOOLEAN, managers' = after(t, on)
      PROVE  /\ managers' \in [Planes -> Manager]
             /\ \A q \in Planes \ {p} : managers'[q] = managers[q]
             /\ managers'[p].active = IF on THEN m.active \cup {t} ELSE m.active
             /\ managers'[p].spawned = m.spawned /\ managers'[p].disarmed = m.disarmed
             /\ managers'[p].notified = m.notified
  <2> DEFINE left == m.batch \ {t}
             stamp == IF m.batch = {t} THEN 0 ELSE m.now
             held == IF on THEN m.active \cup {t} ELSE m.active
             after1 == [m EXCEPT !.batch = left, !.now = stamp, !.active = held]
  <2>1. m \in Manager
    BY <1>2
  <2>2. left \in SUBSET Anything /\ stamp \in Nat /\ held \in SUBSET Anything
    BY <1>2, <2>1 DEF Manager
  <2>3. managers' = [managers EXCEPT ![p] = after1]
    BY <1>4 DEF after, next
  <2> HIDE DEF left, stamp, held
  <2>4. after1 \in Manager /\ after1.active = held
    BY Zenon, <2>1, <2>2 DEF Manager
  <2>5. /\ after1.spawned = m.spawned /\ after1.disarmed = m.disarmed
        /\ after1.notified = m.notified
    BY Zenon, <2>1 DEF Manager
  <2> HIDE DEF after1
  <2>6. /\ managers' \in [Planes -> Manager] /\ managers'[p] = after1
        /\ \A q \in Planes \ {p} : managers'[q] = managers[q]
    BY <1>2, <2>3, <2>4
  <2> QED BY <2>4, <2>5, <2>6 DEF held
<1>5. CASE managers' = after(t, FALSE) /\ UNCHANGED <<wire, mirror, recorded>>
  <2>1. /\ managers' \in [Planes -> Manager]
        /\ \A q \in Planes \ {p} : managers'[q] = managers[q]
        /\ managers'[p].active = m.active /\ managers'[p].disarmed = m.disarmed
        /\ managers'[p].spawned = m.spawned /\ managers'[p].notified = m.notified
    BY Zenon, <1>4, <1>5
  <2>2. FlowTyped' /\ Touches(p)
    BY Zenon, <1>1, <1>5, <2>1 DEF Touches, IndRecord, FlowTyped
  <2>3. /\ Up /\ ~daemon.shadow /\ daemon.armed = 0 /\ m.spawned => m.disarmed \/ m.notified
        /\ m.disarmed => m.active = {} /\ (p \in Limited => wire[p] = {})
        /\ daemon.shadow => wire[p] = {} /\ m.active \subseteq recorded[p]
        /\ p \in Limited => wire[p] \subseteq m.active
    BY <1>3 DEF IndRecord, RecordOnly, WireBelieved
  <2>4. Kept(p)
    BY Zenon, <1>5, <2>1, <2>3 DEF Kept
  <2>5. QED
    BY <1>3, <2>2, <2>4, OnePlane
<1>6. CASE /\ ~m.disarmed /\ managers' = after(t, TRUE)
           /\ Execute(p, wire[p] \cup {t}) /\ Journal(p, mirror[p] \cup {t})
           /\ WouldMitigate(p, t)
  <2>1. /\ wire' \in [Planes -> SUBSET Anything] /\ \A q \in Planes \ {p} : wire'[q] = wire[q]
        /\ wire'[p] = IF daemon.shadow THEN wire[p] ELSE wire[p] \cup {t}
    BY <1>2, <1>6 DEF Execute
  <2>2. mirror' \in [Planes -> SUBSET Anything]
    BY <1>2, <1>6 DEF Journal
  <2>3. /\ recorded' \in [Planes -> SUBSET Anything]
        /\ \A q \in Planes \ {p} : recorded'[q] = recorded[q]
        /\ recorded'[p] = IF daemon.shadow THEN recorded[p] \cup {t} ELSE recorded[p]
    BY <1>2, <1>6 DEF WouldMitigate
  <2>4. FlowTyped' /\ Touches(p)
    BY Zenon, <1>1, <1>4, <1>6, <2>1, <2>2, <2>3 DEF Touches, IndRecord, FlowTyped
  <2>5. Kept(p)
    <3>1. /\ managers'[p].active = m.active \cup {t} /\ ~managers'[p].disarmed
          /\ managers'[p].spawned = m.spawned /\ managers'[p].notified = m.notified
      BY Zenon, <1>4, <1>6
    <3>2. /\ Up /\ ~daemon.shadow /\ daemon.armed = 0 /\ m.spawned => m.notified
          /\ daemon.shadow => wire[p] = {} /\ m.active \subseteq recorded[p]
          /\ p \in Limited => wire[p] \subseteq m.active
      BY <1>3, <1>6 DEF IndRecord, RecordOnly, WireBelieved
    <3>3. QED
      BY <3>1, <3>2, <2>1, <2>3 DEF Kept
  <2>6. QED
    BY <1>3, <2>4, <2>5, OnePlane
<1>7. QED
  BY Zenon, <1>1, <1>5, <1>6

LEMMA StepKeeps == IndRecord /\ [FlowNext]_flowVars => IndRecord'
<1> SUFFICES ASSUME IndRecord, [FlowNext]_flowVars PROVE IndRecord'
  OBVIOUS
<1>1. CASE \E shadow \in BOOLEAN : StartFlow(shadow)
  BY <1>1, StartKeeps
<1>2. CASE SpawnRtbh
  BY <1>2, SpawnKeeps DEF SpawnRtbh, Planes, Stages
<1>3. CASE SpawnFlowSpec
  BY <1>3, SpawnKeeps DEF SpawnFlowSpec, Planes, Stages
<1>4. CASE SpawnXdp
  <2>1. CASE \E taken \in Taken("xdp", mirror["xdp"]) : Spawned("xdp", taken)
    BY <1>4, <2>1, SpawnKeeps DEF SpawnXdp, Planes, Stages
  <2>2. CASE UNCHANGED <<managers, wire, mirror, recorded, uptime>>
    BY <1>4, <2>2 DEF SpawnXdp, IndRecord, FlowTyped, GaugeUp, WireBelieved, DownIsClean,
                      RecordOnly, Up, Daemon, Stages
  <2>3. QED
    BY <1>4, <2>1, <2>2 DEF SpawnXdp
<1>5. CASE Serve \/ Exit \/ Elapse \/ Sigusr1
  BY <1>5, ServeKeeps, ExitKeeps, ElapseKeeps, SignalKeeps
<1>6. CASE \E p \in Planes : Receive(p) \/ Announce(p) \/ Clear(p) \/ Retry(p) \/ Disarm(p)
  BY <1>6, ReceiveKeeps, AnnounceKeeps, ClearKeeps, RetryKeeps, DisarmKeeps
<1>7. CASE UNCHANGED flowVars
  BY <1>7 DEF flowVars, IndRecord, FlowTyped, GaugeUp, WireBelieved, DownIsClean, RecordOnly, Up
<1>8. QED
  BY <1>1, <1>2, <1>3, <1>4, <1>5, <1>6, <1>7 DEF FlowNext

\* After a disarm no manager keeps or adds a mitigation, wherever the signal found
\* it, and a shadow session never touches the wire: disarm_signal_task, the disarm
\* branches of the managers and the shadow arms of the start-up of `flow`.
THEOREM AlwaysRecordOnly == FlowDaemonSpec => []RecordOnly
<1>1. IndRecord => RecordOnly
  BY DEF IndRecord
<1>2. QED
  BY <1>1, InitRecord, StepKeeps, PTL DEF FlowDaemonSpec
=============================================================================
