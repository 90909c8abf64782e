----------------------------- MODULE BgpSession -----------------------------
(***************************************************************************)
(* The BGP session task of crates/blackwall-bgp/src/session_net.rs and the *)
(* handle through which the RTBH and FlowSpec managers inject routes.      *)
(*                                                                         *)
(* The managers send commands into a bounded channel and wait while it is  *)
(* full.  The task connects, exchanges OPENs, re-announces its whole       *)
(* active set and then consumes commands one by one; whatever ends the     *)
(* session, it drains the channel into the active set, backs off and       *)
(* starts again.                                                           *)
(*                                                                         *)
(* Routes and FlowSpec rules live in two HashMaps with the same life, here *)
(* one table.  A table is a total function with NoRoute for a missing key, *)
(* so a withdraw is the command that writes NoRoute.  The router drops the *)
(* routes of a session that ends.  The command channel never closes: the   *)
(* daemon keeps a BgpHandle until it exits.                                *)
(***************************************************************************)
EXTENDS Integers, Sequences, FiniteSets

CONSTANTS
    Nlri,         \* the host routes and FlowSpec rules of the instance
    Attr,         \* what an announce carries: communities, a traffic rate
    NoRoute,      \* the value of a key that is absent
    SafiOf,       \* AnnounceSafi::for_route, for_flowspec
    Manager,      \* the tasks that share the handle
    Owns,         \* the keys each of them announces
    Idle,         \* a manager that is not inside a call of the handle
    PeerOpens,    \* the OPENs the router may send
    Capacity,     \* the bound of the mpsc channel, 256 in the code
    MaxFailures   \* bound on consecutive_failures; the delay is constant from 5

AnnounceSafi == {"Ipv4Unicast", "Ipv6Unicast", "FlowSpecV4", "FlowSpecV6"}

\* What the task keeps of a peer's OPEN: its capabilities, whether a hold timer
\* results from it, and whether validation accepts it (ASN, hold time).
PeerOpen == [safis : SUBSET AnnounceSafi, hold : BOOLEAN, valid : BOOLEAN]

Value   == Attr \cup {NoRoute}
Table   == [Nlri -> Value]
Command == [nlri : Nlri, value : Value]

ASSUME NoRouteAssumption == NoRoute \notin Attr
ASSUME SafiAssumption == SafiOf \in [Nlri -> AnnounceSafi]
ASSUME OwnsAssumption == Owns \in [Manager -> SUBSET Nlri]
ASSUME IdleAssumption == Idle \notin Command
ASSUME PeerOpensAssumption == PeerOpens \subseteq PeerOpen /\ PeerOpens # {}
ASSUME CapacityAssumption == Capacity \in Nat \ {0}
ASSUME MaxFailuresAssumption == MaxFailures \in Nat \ {0}

VARIABLES
    call,      \* the command each manager is waiting to hand over
    commands,  \* the channel
    intent,    \* history: what the commands accepted so far ask for
    active,    \* active and active_flowspec
    phase,     \* where run and session_once stand
    state,     \* the SessionState on the watch channel
    peer,      \* the OPEN of the current session
    todo,      \* keys session_once has still to re-announce
    update,    \* the key of the last UPDATE written in this session
    rib,       \* what the router holds from this session
    consecutive_failures,
    mute       \* the router has stopped answering

vars == <<call, commands, intent, active, phase, state, peer, todo, update, rib,
          consecutive_failures, mute>>

Phase == {"Connecting", "OpenSent", "OpenConfirm", "Established", "Backoff"}

Empty == [n \in Nlri |-> NoRoute]

announce_allowed(p, n) == SafiOf[n] = "Ipv4Unicast" \/ SafiOf[n] \in p.safis

-----------------------------------------------------------------------------
(***************************************************************************)
(* The handle                                                              *)
(***************************************************************************)

\* A manager calls announce, withdraw, announce_flowspec or withdraw_flowspec.
Ask(m, c) ==
    /\ call[m] = Idle
    /\ c.nlri \in Owns[m]
    /\ call' = [call EXCEPT ![m] = c]
    /\ UNCHANGED <<commands, intent, active, phase, state, peer, todo, update, rib,
                   consecutive_failures, mute>>

\* The channel has room: the call returns Ok.
Accept(m) ==
    /\ call[m] # Idle
    /\ Len(commands) < Capacity
    /\ commands' = Append(commands, call[m])
    /\ intent' = [intent EXCEPT ![call[m].nlri] = call[m].value]
    /\ call' = [call EXCEPT ![m] = Idle]
    /\ UNCHANGED <<active, phase, state, peer, todo, update, rib,
                   consecutive_failures, mute>>

(***************************************************************************)
(* The end of a session attempt: run publishes Connecting, counts the      *)
(* failure, drains the channel and sleeps.                                 *)
(***************************************************************************)

\* Entry i is the last one of the channel that is about key n.
IsLast(q, n, i) ==
    /\ i \in DOMAIN q
    /\ q[i].nlri = n
    /\ \A k \in DOMAIN q : k > i => q[k].nlri # n

\* Mutant of drain_commands: withdraws are not applied while the session is down.
Mutant_DrainsAnnounces(q, a) ==
    [n \in Nlri |->
        IF \E i \in DOMAIN q : IsLast(q, n, i) /\ q[i].value # NoRoute
        THEN q[CHOOSE i \in DOMAIN q : IsLast(q, n, i)].value
        ELSE a[n]]

\* The queued commands are applied in order: the last one about a key counts.
drain_commands(q, a) ==
    [n \in Nlri |->
        IF \E i \in DOMAIN q : IsLast(q, n, i)
        THEN q[CHOOSE i \in DOMAIN q : IsLast(q, n, i)].value
        ELSE a[n]]

Reconnect ==
    /\ phase' = "Backoff"
    /\ state' = "Connecting"
    /\ consecutive_failures' = IF consecutive_failures < MaxFailures
                               THEN consecutive_failures + 1
                               ELSE consecutive_failures
    /\ active' = drain_commands(commands, active)
    /\ commands' = <<>>
    /\ rib' = Empty
    /\ todo' = {}
    /\ update' = {}
    /\ UNCHANGED <<call, intent, peer, mute>>

(***************************************************************************)
(* session_once                                                            *)
(***************************************************************************)

\* The sleep after a failed attempt is over.
Wake ==
    /\ phase = "Backoff"
    /\ phase' = "Connecting"
    /\ UNCHANGED <<call, commands, intent, active, state, peer, todo, update, rib,
                   consecutive_failures, mute>>

\* TCP connects and our OPEN is written.
Connect ==
    /\ phase = "Connecting"
    /\ phase' = "OpenSent"
    /\ UNCHANGED <<call, commands, intent, active, state, peer, todo, update, rib,
                   consecutive_failures, mute>>

ConnectFails == phase = "Connecting" /\ Reconnect

\* The router's OPEN arrives.  A valid one is answered with a KEEPALIVE, a bad
\* ASN or hold time with a NOTIFICATION.
ReceiveOpen(o) ==
    /\ phase = "OpenSent"
    /\ ~mute
    /\ o.valid
    /\ peer' = o
    /\ phase' = "OpenConfirm"
    /\ UNCHANGED <<call, commands, intent, active, state, todo, update, rib,
                   consecutive_failures, mute>>

RejectOpen(o) ==
    /\ phase = "OpenSent"
    /\ ~mute
    /\ ~o.valid
    /\ Reconnect

\* Mutant of Confirm: the active set is re-announced only if nothing is queued.
Mutant_SkipsReannounce ==
    /\ phase = "OpenConfirm" /\ ~mute
    /\ phase' = "Established" /\ state' = "Established"
    /\ consecutive_failures' = 0
    /\ todo' = IF commands = <<>> THEN {n \in Nlri : active[n] # NoRoute} ELSE {}
    /\ UNCHANGED <<call, commands, intent, active, peer, update, rib, mute>>

\* await_peer_confirmation sees a KEEPALIVE or an UPDATE: the session is up and
\* the whole active set is to be announced.
Confirm ==
    /\ phase = "OpenConfirm"
    /\ ~mute
    /\ phase' = "Established"
    /\ state' = "Established"
    /\ consecutive_failures' = 0
    /\ todo' = {n \in Nlri : active[n] # NoRoute}
    /\ UNCHANGED <<call, commands, intent, active, peer, update, rib, mute>>

\* Mutant of ConfirmTimeout: the wait is not bounded.
Mutant_NoConfirmTimeout == phase = "OpenConfirm" /\ ~mute /\ Reconnect

\* The OpenConfirm wait is bounded by the hold time, or by 240 s.
ConfirmTimeout == phase = "OpenConfirm" /\ Reconnect

\* Announcing key n is allowed and written, or skipped.
Reannounce(n) ==
    /\ phase = "Established"
    /\ n \in todo
    /\ todo' = todo \ {n}
    /\ IF announce_allowed(peer, n)
       THEN rib' = [rib EXCEPT ![n] = active[n]] /\ update' = {n}
       ELSE UNCHANGED <<rib, update>>
    /\ UNCHANGED <<call, commands, intent, active, phase, state, peer,
                   consecutive_failures, mute>>

\* established_loop takes one command.  Its write can fail; the command is in
\* the active set by then, as if it had been drained: that is SessionLost.
HandleCommand ==
    /\ phase = "Established"
    /\ todo = {}
    /\ commands # <<>>
    /\ LET c == Head(commands) IN
        /\ active' = [active EXCEPT ![c.nlri] = c.value]
        /\ IF announce_allowed(peer, c.nlri)
           THEN rib' = [rib EXCEPT ![c.nlri] = c.value] /\ update' = {c.nlri}
           ELSE UNCHANGED <<rib, update>>
    /\ commands' = Tail(commands)
    /\ UNCHANGED <<call, intent, phase, state, peer, todo, consecutive_failures, mute>>

\* The router closes, sends a NOTIFICATION or garbage, or a write fails.
SessionLost == phase \in {"OpenSent", "OpenConfirm", "Established"} /\ ~mute /\ Reconnect

\* The hold timer, when there is one, runs out on a router that is mute.
HoldExpires == phase = "Established" /\ mute /\ peer.hold /\ Reconnect

\* The router falls silent without closing the connection, and comes back.
Mute ==
    /\ mute' = ~mute
    /\ UNCHANGED <<call, commands, intent, active, phase, state, peer, todo, update,
                   rib, consecutive_failures>>
-----------------------------------------------------------------------------
Init ==
    /\ call = [m \in Manager |-> Idle]
    /\ commands = <<>>
    /\ intent = Empty
    /\ active = Empty
    /\ phase = "Connecting"
    /\ state = "Connecting"
    /\ peer \in PeerOpens
    /\ todo = {}
    /\ update = {}
    /\ rib = Empty
    /\ consecutive_failures = 0
    /\ mute = FALSE

Handle == \E m \in Manager : Accept(m) \/ \E c \in Command : Ask(m, c)

\* Steps the task takes by itself.
Task == \/ Wake \/ Connect \/ ConnectFails \/ ConfirmTimeout \/ HoldExpires
        \/ HandleCommand \/ \E n \in Nlri : Reannounce(n)

\* Steps that need the router.
Router == Confirm \/ SessionLost \/ Mute \/ \E o \in PeerOpens : ReceiveOpen(o) \/ RejectOpen(o)

Next == Handle \/ Task \/ Router

Spec == Init /\ [][Next]_vars

(***************************************************************************)
(* Fairness.  Every await of the task is a timer, a socket operation with  *)
(* a timeout or the channel, so the task takes each of these steps if it   *)
(* can; tokio wakes a sender when the channel has room.  Nothing is        *)
(* assumed of the router here.                                             *)
(***************************************************************************)
TaskFairness ==
    /\ \A m \in Manager : WF_vars(Accept(m))
    /\ WF_vars(Wake)
    /\ WF_vars(Connect \/ ConnectFails)
    /\ WF_vars(ConfirmTimeout)
    /\ WF_vars(HoldExpires)
    /\ WF_vars(\E n \in Nlri : Reannounce(n))
    /\ WF_vars(HandleCommand)

FairSpec == Spec /\ TaskFairness

\* The router takes part in the handshake when it is not mute.
SessionFairness ==
    TaskFairness /\ WF_vars(\E o \in PeerOpens : ReceiveOpen(o)) /\ WF_vars(Confirm)

CooperativeSpec == Spec /\ SessionFairness
-----------------------------------------------------------------------------
(***************************************************************************)
(* Properties                                                              *)
(***************************************************************************)

\* The state has the shape the code's types give it.
TypeOK ==
    /\ call \in [Manager -> Command \cup {Idle}]
    /\ commands \in Seq(Command)
    /\ Len(commands) <= Capacity
    /\ intent \in Table
    /\ active \in Table
    /\ phase \in Phase
    /\ state \in {"Connecting", "Established"}
    /\ peer \in PeerOpens
    /\ todo \subseteq Nlri
    /\ update \subseteq Nlri
    /\ rib \in Table
    /\ consecutive_failures \in 0..MaxFailures
    /\ mute \in BOOLEAN

\* No accepted command is lost, duplicated or reordered, whatever happens to the
\* sessions: the active set with the queue applied to it is always what the
\* managers asked for.
IntentPreserved ==
    \A n \in Nlri :
        \/ /\ intent[n] = active[n]
           /\ \A i \in DOMAIN commands : commands[i].nlri # n
        \/ \E i \in DOMAIN commands : IsLast(commands, n, i) /\ commands[i].value = intent[n]

\* The router holds exactly the part of the active set it negotiated and that
\* was already re-announced; it holds nothing when the watch channel, and so the
\* supervisor's log, says the session is down.
RibExact ==
    \A n \in Nlri :
        rib[n] = IF /\ state = "Established" /\ n \notin todo
                    /\ announce_allowed(peer, n)
                 THEN active[n] ELSE NoRoute

\* From the managers to the router nothing is lost or added: the accepted commands
\* are the active set or still queued, and the router has what the session wrote
\* of the active set, through drain_commands, reconnects and re-announces.
SessionExact == IntentPreserved /\ RibExact

\* Neither an announce, a withdraw nor a re-announce is ever written for a family
\* the router did not negotiate in the OPEN of this very session (C3): such an
\* UPDATE would reset the session and drop every other mitigation.
OnlyNegotiated == \A n \in update : announce_allowed(peer, n)

\* What makes the three invariants above inductive: the watch channel and the
\* phase agree, and outside a session nothing is left to re-announce or written.
SessionShape ==
    /\ state = "Established" <=> phase = "Established"
    /\ phase # "Established" => todo = {} /\ update = {}

IndInv == TypeOK /\ IntentPreserved /\ RibExact /\ OnlyNegotiated /\ SessionShape

\* What is on the router once everything asked for has been handed over.
Synced ==
    \A n \in Nlri : rib[n] = IF announce_allowed(peer, n) THEN intent[n] ELSE NoRoute

\* Once sessions stop failing and the managers stop asking, the router ends up
\* with what they asked for, however many commands were queued during outages.
Converges ==
    (<>[]~mute /\ <>[][phase' # "Backoff" /\ intent' = intent]_vars) => <>[]Synced

\* A router that falls silent during OpenConfirm, or in a session with a hold
\* timer, does not hold the task forever.
DeadPeerDetected ==
    []<>~(mute /\ (phase = "OpenConfirm" \/ (phase = "Established" /\ peer.hold)))

=============================================================================
