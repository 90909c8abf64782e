-------------------------- MODULE DeceptionEngine ---------------------------
(***************************************************************************)
(* The interactive tier of `blackwalld run`: TPROXY listeners, sessions,   *)
(* and the channel that carries finished sessions to Postgres.             *)
(*                                                                         *)
(* Each listener (one for IPv4, one for IPv6) has its own semaphore of     *)
(* max_concurrent permits; a connection without a permit is dropped.  A    *)
(* session's task holds its permit until it ends: through the dialogue,    *)
(* which the session timeout cuts off, and through the send of its outcome *)
(* on the bounded channel, which nothing cuts off.  One loop drains the    *)
(* channel into the sessions table, a record at a time.                    *)
(***************************************************************************)
EXTENDS Emulators, FiniteSets

CONSTANTS
    Listeners,      \* the bound listeners
    MaxConcurrent,  \* permits of each
    ChannelSize,    \* capacity of the session channel
    Scripts,        \* the clients' inputs: a set of [port, bytes]
    Idle            \* a free permit

ASSUME LimitsAssumption ==
    MaxConcurrent \in Nat \ {0} /\ ChannelSize \in Nat \ {0}

Permits == Listeners \X (1 .. MaxConcurrent)

VARIABLES
    session,    \* per permit: Idle, or the session that holds it
    channel,    \* outcomes sent and not yet taken by the drain loop
    draining    \* is the drain loop waiting for Postgres?

engineVars == <<session, channel, draining>>

\* A session that talks: the client's input, how much of it was read, and the
\* dialogue so far.  Once handle returns only its outcome is left to report.
Opened(script) ==
    [stage |-> "talk", emulator |-> for_port(script.port), input |-> script.bytes,
     read |-> 0, dialogue |-> Greeted(for_port(script.port))]
Outcome == [stage |-> "report"]

EngineInit ==
    /\ session = [p \in Permits |-> Idle]
    /\ channel = 0
    /\ draining = FALSE

Holding(p, stage) == session[p] # Idle /\ session[p].stage = stage

\* serve: an accepted connection takes a permit of its listener.  At the cap it is
\* dropped, which changes nothing here.
Accept(p, script) ==
    /\ session[p] = Idle
    /\ session' = [session EXCEPT ![p] = Opened(script)]
    /\ UNCHANGED <<channel, draining>>

\* The emulator reads the next bytes of the client, as many as have arrived.
Converse(p) ==
    /\ Holding(p, "talk") /\ ~session[p].dialogue.done
    /\ \E n \in (session[p].read + 1) .. Len(session[p].input) :
        session' = [session EXCEPT
            ![p].dialogue = Read(session[p].emulator, @,
                                 SubSeq(session[p].input, session[p].read + 1, n)),
            ![p].read = n]
    /\ UNCHANGED <<channel, draining>>

\* The client closes its side.
Hangup(p) ==
    /\ Holding(p, "talk") /\ ~session[p].dialogue.done
    /\ session' = [session EXCEPT ![p].dialogue = Eof(session[p].emulator, @)]
    /\ UNCHANGED <<channel, draining>>

\* handle returned an outcome: the task goes on to report it.
Finish(p) ==
    /\ Holding(p, "talk") /\ session[p].dialogue.done
    /\ session' = [session EXCEPT ![p] = Outcome]
    /\ UNCHANGED <<channel, draining>>

\* Mutant of Abort: the timeout only covers the wait for the first bytes.
Mutant_GreetingOnly(p) ==
    /\ Holding(p, "talk") /\ session[p].read = 0
    /\ session' = [session EXCEPT ![p] = Idle]
    /\ UNCHANGED <<channel, draining>>

\* The session timeout, or an I/O error: the task ends and reports nothing.
Abort(p) ==
    /\ Holding(p, "talk")
    /\ session' = [session EXCEPT ![p] = Idle]
    /\ UNCHANGED <<channel, draining>>

\* sessions.send: waits for room, then the task ends.
Report(p) ==
    /\ Holding(p, "report") /\ channel < ChannelSize
    /\ channel' = channel + 1
    /\ session' = [session EXCEPT ![p] = Idle]
    /\ UNCHANGED draining

\* The drain loop takes a record and waits for record_session.
Take ==
    /\ ~draining /\ channel > 0
    /\ channel' = channel - 1
    /\ draining' = TRUE
    /\ UNCHANGED session

\* record_session returned; an error is logged and the record is gone.
Recorded ==
    /\ draining
    /\ draining' = FALSE
    /\ UNCHANGED <<session, channel>>

EngineNext ==
    \/ \E p \in Permits :
        \/ \E script \in Scripts : Accept(p, script)
        \/ Converse(p) \/ Hangup(p) \/ Finish(p) \/ Abort(p) \/ Report(p)
    \/ Take \/ Recorded

\* The runtime polls every ready task and the timeout fires; Postgres answers or
\* the pool times out.  Nothing is assumed of the clients.  A sender waiting for room
\* is queued first in, first out by the channel, hence the strong fairness.
EngineFairness ==
    /\ \A p \in Permits :
        WF_engineVars(Finish(p)) /\ WF_engineVars(Abort(p)) /\ SF_engineVars(Report(p))
    /\ WF_engineVars(Take) /\ WF_engineVars(Recorded)

-----------------------------------------------------------------------------
\* What a session has answered depends on the bytes of the client alone and not on
\* how they were cut into reads: fragmented and pipelined commands get the replies
\* they would get one by one (redis.rs parse_one, the line loop of smtp.rs).  Beyond
\* the byte cap of SMTP, which is tested per read, this is not promised.
SegmentationIrrelevant ==
    \A p \in Permits :
        LET s == session[p]
        IN  Holding(p, "talk") /\ s.read > 0 /\ s.dialogue.taken <= MaxBytes
            => LET once == Read(s.emulator, Greeted(s.emulator), SubSeq(s.input, 1, s.read))
               IN  s.dialogue \in {once, Eof(s.emulator, once)}

\* A permit that was taken is given back: the timeout ends a dialogue that does not
\* end by itself, and the drain loop makes room for an outcome that waits.
SessionsEnd == \A p \in Permits : session[p] # Idle ~> session[p] = Idle
=============================================================================
