------------------------- MODULE MitigationPipeline -------------------------
(***************************************************************************)
(* The way of a detection into the RTBH plane: run_collector polls the     *)
(* detector and hands each event to a sink (crates/blackwall-flow/src/     *)
(* collector_net.rs and sink.rs); the sink puts it on the bounded channel  *)
(* of the plane with try_send, so an event that does not fit is lost;      *)
(* rtbh_manager_task (bin/blackwalld/src/main.rs) takes events off the     *)
(* channel.  Composes DetectionSource, the channel and RtbhManager.        *)
(*                                                                         *)
(* attack is the set of targets whose traffic is over the threshold.  The  *)
(* detector reports all of them at every poll; it clears the others when   *)
(* its hold-down ends, at some later poll.                                 *)
(***************************************************************************)
EXTENDS RtbhManager

CONSTANTS
    ChannelCap,    \* capacity of the detection channel
    Selector       \* FlowSpec is configured: SelectorSink routes the events

ASSUME ChannelAssumption == ChannelCap \in Nat \ {0} /\ Selector \in BOOLEAN

VARIABLES
    attack,        \* targets now over the threshold
    open,          \* targets with an open detection
    events,        \* events of the last poll still to be handed to the sink
    channel        \* the RTBH plane's event channel

pipe    == <<attack, open, events, channel>>
allVars == <<vars, pipe>>

Source == INSTANCE DetectionSource WITH Dst <- Target

AttackChanges(t) ==
    /\ attack' = IF t \in attack THEN attack \ {t} ELSE attack \cup {t}
    /\ UNCHANGED <<vars, open, events, channel>>

\* run_collector's ticker arm: the previous poll's events are all handed over.
Poll ==
    /\ running
    /\ events = {}
    /\ \E C \in SUBSET (open \ attack) : Source!Poll(attack \ open, attack \cap open, C)
    /\ UNCHANGED <<vars, attack, channel>>

\* try_send: a full channel drops the event.
try_send(e) == IF Len(channel) < ChannelCap THEN Append(channel, e) ELSE channel

\* sink.handle of one event.  SelectorSink may route an Opened to FlowSpec.
Handle(e) ==
    /\ running
    /\ e \in events
    /\ events' = events \ {e}
    /\ \/ channel' = try_send(e)
       \/ Selector /\ e.kind = "Opened" /\ UNCHANGED channel
    /\ UNCHANGED <<vars, attack, open>>

\* apply_event does nothing with an event for a target it may not or need not
\* act on.
NoEffect(e) ==
    \/ e.kind = "Opened" /\ ~Inserts(config, active, e.target) /\ ~Reasserts(config, active, e.target)
    \/ e.kind = "Cleared" /\ ~ClearsNow(active, e.target) /\ ~DefersClear(active, e.target)

\* The task's rx.recv() arm.
Deliver ==
    LET e == Head(channel) IN
    /\ Idle
    /\ channel # <<>>
    /\ channel' = Tail(channel)
    /\ \/ e.kind = "Opened"  /\ Opened(e.target)
       \/ e.kind = "Updated" /\ Updated(e.target)
       \/ e.kind = "Cleared" /\ Cleared(e.target)
       \/ NoEffect(e) /\ UNCHANGED vars
    /\ UNCHANGED <<attack, open, events>>

\* The collector and the channel live and die with the process.
Die == /\ Crash
       /\ channel' = <<>>
       /\ Source!Restart
       /\ UNCHANGED attack

ManagerStep == Tick \/ Enqueue \/ ApplyRequest \/ disarm \/ Elapse \/ rehydrate
-----------------------------------------------------------------------------
PipeInit == /\ Init
            /\ Source!Init
            /\ attack = {}
            /\ channel = <<>>

PipeNext == \/ \E t \in Target : AttackChanges(t)
            \/ Poll
            \/ \E e \in events : Handle(e)
            \/ Deliver
            \/ Die
            \/ ManagerStep /\ UNCHANGED pipe

PipeSpec == PipeInit /\ [][PipeNext]_allVars

(***************************************************************************)
(* Fairness: the collector's ticker and its loop over the events, the      *)
(* task's channel and ticker arms, and time.  None is assumed of attacks,  *)
(* operators, crashes or restarts, and none of the detector's hold-down.   *)
(***************************************************************************)
FairPipe ==
    /\ PipeSpec
    /\ WF_allVars(Poll)
    /\ WF_allVars(\E e \in events : Handle(e))
    /\ WF_allVars(Deliver)
    /\ WF_allVars(Tick /\ UNCHANGED pipe)
    /\ WF_allVars(ApplyRequest /\ UNCHANGED pipe)
    /\ WF_allVars(Elapse /\ UNCHANGED pipe)

\* The executor is down only for a while: a tick at which it accepts every
\* queued re-announce comes again and again.
RecoveringPipe == FairPipe /\ SF_allVars(HealthyTick /\ UNCHANGED pipe)

\* The rate cap and BGP refuse only for a while: a target that is offered again
\* and again is taken.
HealingPipe ==
    FairPipe /\ \A t \in Target : SF_allVars(Deliver /\ t \notin routes /\ t \in routes')
-----------------------------------------------------------------------------

\* The TTL is the backstop of lost events: once a target is no longer attacked
\* its automatic blackhole is withdrawn for good, although the Cleared was
\* dropped by a full channel, never sent because the detector restarted, or
\* arrived before a rehydrated entry existed.  What may stay is an operator's, or
\* a route the executor refused to withdraw.
BlackholeEnds ==
    \A t \in Target :
        <>[](running /\ t \notin attack)
            => <>[](t \in routes => \/ t \in DOMAIN active /\ active[t].origin = "Manual"
                                   \/ <<t, "withdraw">> \in lapses)

\* "while the underlying attack persists, the detector naturally re-emits the
\* detection on its next tick and the manager re-attempts through the same
\* path": an admissible target that stays under attack is announced in the end.
AttackIsMitigated ==
    \A t \in Target :
        <>[](running /\ t \in attack) => <>(t \in routes)
=============================================================================
