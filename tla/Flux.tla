-------------------------------- MODULE Flux --------------------------------
(***************************************************************************)
(* What moves while `blackwalld run` serves: the addresses a DNS name      *)
(* resolves to (dns-flux), the persona the banners come from (banner-flux) *)
(* and, without personas, the banner file that is reloaded when it changes.*)
(*                                                                         *)
(* The clock counts seconds.  A timer fires in the second it is due: the   *)
(* clock waits for a task that is ready to run.  An UPDATE is one UDP      *)
(* datagram: it may be lost or applied late, and its answer may be lost.   *)
(***************************************************************************)
EXTENDS Naturals, FiniteSets

CONSTANTS
    PoolSize, SetSize,  \* count and set of dns-flux
    FluxPeriod,         \* the period of both rotations
    AnswerTimeout,      \* how long send_update waits for the answer
    Personas,           \* variants in the banner pool
    Contents,           \* what the banner file can hold
    Unparsable,         \* the contents that from_text rejects
    MaxClock, MaxEvents \* bounds on time and on unhandled notifications

ASSUME FluxAssumption ==
    /\ SetSize \in 1..PoolSize /\ FluxPeriod \in Nat \ {0} /\ Personas \in Nat \ {0}
    /\ Unparsable \subseteq Contents

VARIABLES
    clock,
    dns,        \* the push task: at [sleep, wait], the time it read, its deadline
    inflight,   \* times of the UPDATEs on the wire
    zone,       \* the time whose window the name server holds, or <<>>
    persona,    \* the shared store of banner-flux and its next wake-up
    file,       \* the banner file, the watch on it, and (history) whether it changed
                \* after it was read and before it was watched
    events,     \* unhandled change notifications
    store       \* the loaded banners and the hash behind them

dnsVars    == <<dns, inflight, zone>>
bannerVars == <<file, events, store>>
fluxVars   == <<clock, dnsVars, persona, bannerVars>>
-----------------------------------------------------------------------------
\* flux_window: the positions in the pool of the addresses active at a time.
bucket(now) == now \div FluxPeriod
flux_window(now) == {(bucket(now) + i) % PoolSize : i \in 0..(SetSize - 1)}

\* flux_index: the persona active at a time.
flux_index(now) == bucket(now) % Personas

\* Mutant of next_boundary_delay: a whole period from now.
Mutant_WholePeriod(now) == FluxPeriod

\* The time to the next boundary, a full period at a boundary.
next_boundary_delay(now) == FluxPeriod - (now % FluxPeriod)

\* build_update and send_update: the two record sets of the name are deleted and
\* the window is added, in one UPDATE.
Applied(now) == zone' = <<now>>
-----------------------------------------------------------------------------
\* The start of the process: seeded with the persona of the moment, a push due.
Seeded == /\ persona' = [shown |-> flux_index(clock), wake |-> clock]
          /\ dns' = [at |-> "sleep", now |-> clock, due |-> clock, answered |-> FALSE, older |-> {}]

FluxInit ==
    /\ clock = 0
    /\ dns = [at |-> "sleep", now |-> 0, due |-> 0, answered |-> FALSE, older |-> {}]
    /\ inflight = {} /\ zone = <<>>
    /\ persona = [shown |-> flux_index(0), wake |-> 0]

\* The loop reads the time, sends the UPDATE and waits for the answer.
Push ==
    /\ dns.at = "sleep" /\ clock = dns.due
    /\ dns' = [at |-> "wait", now |-> clock, due |-> clock + AnswerTimeout,
               answered |-> FALSE, older |-> {}]
    /\ inflight' = inflight \cup {clock}
    /\ UNCHANGED <<clock, zone, persona>>

\* The sleep after an update, answered or not, is reckoned from the time before it.
\* For the properties it is noted whether the answer came, and which UPDATEs were
\* still on the wire then.
Sleep(answered, older) ==
    dns' = [at |-> "sleep", now |-> dns.now, due |-> clock + next_boundary_delay(dns.now),
            answered |-> answered, older |-> older]

\* The server applies an UPDATE; the answer arrives or not, and one that the task
\* no longer waits for is not looked at.
Deliver(t) ==
    /\ t \in inflight
    /\ inflight' = inflight \ {t}
    /\ Applied(t)
    /\ \/ UNCHANGED dns
       \/ dns.at = "wait" /\ dns.now = t /\ Sleep(TRUE, inflight \ {t})
    /\ UNCHANGED <<clock, persona>>

Lose(t) ==
    /\ t \in inflight
    /\ inflight' = inflight \ {t}
    /\ UNCHANGED <<clock, dns, zone, persona>>

\* The server refused, the answer did not verify, or none came in time.
GiveUp ==
    /\ dns.at = "wait"
    /\ Sleep(FALSE, {})
    /\ UNCHANGED <<clock, inflight, zone, persona>>

\* BannerFlux::apply and the sleep to the next boundary.
Rotate ==
    /\ clock = persona.wake
    /\ persona' = [shown |-> flux_index(clock), wake |-> clock + next_boundary_delay(clock)]
    /\ UNCHANGED <<clock, dnsVars>>

Pass ==
    /\ clock < MaxClock
    /\ clock < persona.wake /\ clock < dns.due
    /\ clock' = clock + 1
    /\ UNCHANGED <<dnsVars, persona>>

\* The process is replaced; what is on the wire and in the zone stays.
Restart == Seeded /\ UNCHANGED <<clock, inflight, zone>>

FluxNext ==
    \/ Push \/ GiveUp \/ Rotate \/ Pass \/ Restart
    \/ \E t \in inflight : Deliver(t) \/ Lose(t)
-----------------------------------------------------------------------------
(* The banner file.                                                        *)

\* SharedBanners::load has read the file, which parsed; it is not watched yet.
FileInit ==
    /\ file \in [content : Contents \ Unparsable, watch : {"none"}, missed : {FALSE}]
    /\ events = 0
    /\ store = [banners |-> file.content, hash |-> file.content]

\* The watcher is put on the file that has the name now.
Watch ==
    /\ file.watch = "none"
    /\ file' = [file EXCEPT !.watch = "on"]
    /\ UNCHANGED <<events, store>>

\* The file has the content c from now on.
Changed(c, watch) == file' = [content |-> c, watch |-> watch,
                              missed |-> file.missed \/ file.watch = "none"]

\* The file is written in place: the watcher is told, once or more than once.
Edit ==
    /\ events + 2 <= MaxEvents
    /\ \E c \in Contents : Changed(c, file.watch)
    /\ IF file.watch = "on" THEN events' \in {events + 1, events + 2} ELSE UNCHANGED events
    /\ UNCHANGED store

\* The file is replaced by another one; a watch stays on the old one, whose last
\* notifications may or may not count as a modification.
Replace ==
    /\ events < MaxEvents
    /\ \E c \in Contents : Changed(c, IF file.watch = "none" THEN "none" ELSE "lost")
    /\ IF file.watch = "none" THEN UNCHANGED events ELSE events' \in {events, events + 1}
    /\ UNCHANGED store

\* What a successful reload installs.
Loaded(c) == [banners |-> c, hash |-> c]

\* reload: nothing for unchanged content, and a file that does not parse leaves the
\* store and its hash alone.
Reload ==
    /\ events > 0 /\ events' = events - 1
    /\ store' = IF file.content = store.hash \/ file.content \in Unparsable
                THEN store ELSE Loaded(file.content)
    /\ file' = [file EXCEPT !.missed = FALSE]

\* A restart loads the file, if it parses; the watch comes later.
Load ==
    /\ file.content \notin Unparsable
    /\ file' = [file EXCEPT !.watch = "none", !.missed = FALSE]
    /\ events' = 0 /\ store' = Loaded(file.content)

FileNext == Load \/ Watch \/ Edit \/ Replace \/ Reload
-----------------------------------------------------------------------------
\* The rotations keep time although a push may take as long as its timeout: while
\* the persona task sleeps the banners are those of the present period, and once a
\* push has been answered the name has the full window of a period that was current
\* at most a timeout ago, whatever was lost before; only an UPDATE that was on the
\* wire when the answer came can bring back the window it carries, until the next
\* push.  The window never has fewer addresses than configured.
RotationKeepsTime ==
    /\ clock < persona.wake => persona.shown = flux_index(clock)
    /\ (dns.at = "sleep" /\ dns.answered /\ clock < dns.due) =>
            /\ zone = <<dns.now>> \/ \E t \in dns.older : zone = <<t>>
            /\ clock < AnswerTimeout \/ bucket(dns.now) >= bucket(clock - AnswerTimeout)
    /\ \A t \in 0..clock : Cardinality(flux_window(t)) = SetSize

\* Once the watcher has handled every notification, the banners served are those
\* of the file, however often it was saved, broken and repaired, as long as it is
\* edited in place and an edit between the load and the watch, which nobody is told
\* of, is followed by another; a file that does not parse never replaces good
\* banners.
BannersCurrent ==
    /\ store.banners \notin Unparsable
    /\ file.watch = "on" /\ ~file.missed /\ events = 0 /\ file.content \notin Unparsable
        => store.banners = file.content

\* Both kinds of rotation show the present: the DNS and persona rotations keep
\* time (the dns-flux task and BannerFlux), and the banners loaded are those of the
\* file (SharedBanners::reload).
RotationsKeepUp == RotationKeepsTime /\ BannersCurrent
=============================================================================
