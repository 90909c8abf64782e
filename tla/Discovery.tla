----------------------------- MODULE Discovery ------------------------------
(***************************************************************************)
(* The control side of `blackwalld run`: the effective policy is built from*)
(* the configured one and from what discovery sees, installed in the kernel*)
(* (nft table, then the TPROXY policy route) and recorded in Postgres.     *)
(*                                                                         *)
(* Two threads of control do this.  "main" does it once at start-up, then  *)
(* serves until it is told to stop, removes table and route and exits.     *)
(* "task" is the detached Incus task: it connects, reconciles, subscribes  *)
(* to lifecycle events and reconciles again on each of them, until the     *)
(* stream ends and it starts over.  Every await and every child process is *)
(* a point where the other thread, Incus or a failure may step in.         *)
(***************************************************************************)
EXTENDS Policy, Naturals

LOCAL INSTANCE SequencesExt

CONSTANTS
    Base,           \* the configured policy
    HostSockets,    \* the rows of /proc/net: [addr, port, listening]
    Instances,      \* the Incus instances, in the order Incus lists them
    Offers,         \* the addresses each has when it runs, and its ports entry
    Malformed,      \* a port that does not parse
    NoTable,        \* no ruleset in the kernel
    MaxChanges,     \* bound: instance changes
    MaxQueue        \* bound: unread events on the stream

ASSUME BaseAssumption == Resolvable(Base)

Threads == {"main", "task"}

\* The instances Incus lists.
Known == Range(Instances)

VARIABLES
    running,    \* the instances that run, as Incus knows
    incus,      \* does the Incus daemon answer on its socket?
    stream,     \* the event subscription: open, still fed, unread events
    client,     \* does main's start-up connection to Incus exist?
    pc,         \* where each thread is
    found,      \* the discovered services of the reconcile under way
    table,      \* the ruleset in the kernel: the services it accepts, or NoTable
    route,      \* is the TPROXY policy route installed?
    db,         \* the services recorded in Postgres
    missed,     \* history: something happened that no later listing made up for
    changes     \* history: instance changes so far

vars == <<running, incus, stream, client, pc, found, table, route, db, missed, changes>>
world == <<running, incus, changes>>

NoStream == [open |-> FALSE, live |-> FALSE, queue |-> <<>>]
OpenStream == [open |-> TRUE, live |-> TRUE, queue |-> <<>>]

At(th, where) == pc[th] = where
Goto(th, where) == pc' = [pc EXCEPT ![th] = where]

\* scan_host_sockets: the sockets that listen.
scan_host_sockets == SelectSeq(HostSockets, LAMBDA s : s.listening)

\* What build_discovered makes of a scan.
HostServices ==
    [i \in DOMAIN scan_host_sockets |->
        Found(scan_host_sockets[i].addr, scan_host_sockets[i].port, "host")]

\* instance_services: addresses by ports; ports that do not parse are left out.
instance_services(name) ==
    LET ports == SelectSeq(Offers[name].ports, LAMBDA p : p # Malformed)
        addrs == Offers[name].addresses
    IN  FlattenSeq([a \in DOMAIN addrs |->
                        [p \in DOMAIN ports |-> Found(addrs[a], ports[p], name)]])

\* What list_instances returns: only running instances have addresses.
Listing(those) ==
    FlattenSeq([i \in DOMAIN Instances |->
                    IF Instances[i] \in those THEN instance_services(Instances[i]) ELSE <<>>])

Effective(discovered) == reconcile(Base, discovered)

\* The services a complete and current discovery would open.
Wanted == resolve(Effective(HostServices \o Listing(running)))

Init ==
    /\ running \in SUBSET Known
    /\ incus \in BOOLEAN
    /\ stream = NoStream
    /\ client = FALSE
    /\ pc = [main |-> "connect", task |-> "none"]
    /\ found = <<>>
    /\ table = NoTable
    /\ route = FALSE
    /\ db = {}
    /\ missed = TRUE
    /\ changes = 0

-----------------------------------------------------------------------------
\* Incus and its instances.

\* An event reaches a subscriber, if there is one.
Publish(event) ==
    IF stream.open /\ stream.live
    THEN /\ Len(stream.queue) < MaxQueue
         /\ stream' = [stream EXCEPT !.queue = Append(@, event)]
    ELSE stream' = stream

\* An instance starts or stops; without a subscriber nobody is told.
InstanceChanges(i) ==
    /\ incus /\ changes < MaxChanges
    /\ Publish("change")
    /\ running' = IF i \in running THEN running \ {i} ELSE running \cup {i}
    /\ changes' = changes + 1
    /\ missed' = (missed \/ ~stream.open)
    /\ UNCHANGED <<incus, client, pc, found, table, route, db>>

\* An event that is no instance change, or one the parser rejects.
OtherEvent(event) ==
    /\ incus /\ stream.open
    /\ Publish(event)
    /\ UNCHANGED <<world, client, pc, found, table, route, db, missed>>

IncusStops ==
    /\ incus
    /\ incus' = FALSE
    /\ stream' = [stream EXCEPT !.live = FALSE]
    /\ UNCHANGED <<running, changes, client, pc, found, table, route, db, missed>>

IncusStarts ==
    /\ ~incus
    /\ incus' = TRUE
    /\ UNCHANGED <<running, changes, stream, client, pc, found, table, route, db, missed>>

-----------------------------------------------------------------------------
\* One reconcile, by either thread: list, install, route, record.

\* build_discovered: the host scan and the listing fail one by one, and what
\* fails is left out.  Without a client only the host is scanned.
BuildDiscovered(th) ==
    /\ At(th, "list")
    /\ \E scanned \in BOOLEAN, listed \in {b \in BOOLEAN : b => incus} :
        /\ found' = (IF scanned THEN HostServices ELSE <<>>)
                    \o (IF listed /\ (th = "main" => client) THEN Listing(running) ELSE <<>>)
        /\ missed' = ~(scanned /\ listed /\ (th = "main" => client))
    /\ Goto(th, "install")
    /\ UNCHANGED <<world, stream, client, table, route, db>>

\* Where the task goes on: with its subscription, or with making one.
AfterReconcile == IF stream.open THEN "read" ELSE "subscribe"

\* A reconcile failed: main has failed to start, the task logs and carries on.
Abandon(th) ==
    /\ found' = <<>>
    /\ IF th = "main"
       THEN /\ pc' = [main |-> "down", task |-> "none"]
            /\ stream' = NoStream
       ELSE /\ Goto(th, AfterReconcile)
            /\ stream' = stream

\* The table is replaced in one nft transaction, unless the effective policy does
\* not resolve or nft fails.
Install(th) ==
    /\ At(th, "install")
    /\ \/ /\ Resolvable(Effective(found))
          /\ table' = resolve(Effective(found))
          /\ Goto(th, "route")
          /\ UNCHANGED <<stream, found, missed>>
       \/ /\ missed' = TRUE
          /\ Abandon(th)
          /\ UNCHANGED table
    /\ UNCHANGED <<world, client, route, db>>

\* ensure_tproxy_route; when it fails the table just installed is removed again.
Route(th) ==
    /\ At(th, "route")
    /\ \/ /\ route' = TRUE
          /\ Goto(th, "record")
          /\ UNCHANGED <<stream, found, table, missed>>
       \/ /\ table' = NoTable
          /\ route' = FALSE
          /\ missed' = TRUE
          /\ Abandon(th)
    /\ UNCHANGED <<world, client, db>>

\* store.apply_policy: one transaction, after the kernel.
Record(th) ==
    /\ At(th, "record")
    /\ \/ /\ db' = resolve(Effective(found))
          /\ found' = <<>>
          /\ Goto(th, IF th = "main" THEN "bind" ELSE AfterReconcile)
          /\ UNCHANGED stream
       \/ /\ Abandon(th)
          /\ UNCHANGED db
    /\ UNCHANGED <<world, client, table, route, missed>>

-----------------------------------------------------------------------------
\* The detached Incus task.

\* Mutant: the catch-up reconcile after a reconnect is left out.
Mutant_NoCatchUp ==
    /\ At("task", "wait") /\ incus
    /\ Goto("task", "subscribe")
    /\ UNCHANGED <<world, stream, client, found, table, route, db, missed>>

\* A new client probes the socket; a failure is retried after a back-off.
Reconnect ==
    /\ At("task", "wait") /\ incus
    /\ Goto("task", "list")
    /\ UNCHANGED <<world, stream, client, found, table, route, db, missed>>

\* The first next_event of a client opens the event stream.
Subscribe ==
    /\ At("task", "subscribe")
    /\ \/ /\ incus
          /\ stream' = OpenStream
          /\ Goto("task", "read")
       \/ /\ Goto("task", "wait")
          /\ UNCHANGED stream
    /\ UNCHANGED <<world, client, found, table, route, db, missed>>

\* drain_incus_events: a change starts a reconcile, an event that does not parse
\* is skipped; any other event reads as the end of the stream, as its end does.
NextEvent ==
    /\ At("task", "read")
    /\ \/ /\ stream.queue # <<>> /\ Head(stream.queue) # "other"
          /\ stream' = [stream EXCEPT !.queue = Tail(@)]
          /\ Goto("task", IF Head(stream.queue) = "change" THEN "list" ELSE "read")
       \/ /\ IF stream.queue = <<>> THEN ~stream.live ELSE Head(stream.queue) = "other"
          /\ stream' = NoStream
          /\ Goto("task", "wait")
    /\ UNCHANGED <<world, client, found, table, route, db, missed>>

-----------------------------------------------------------------------------
\* The main thread and the process.

Connect ==
    /\ At("main", "connect")
    /\ client' \in {b \in BOOLEAN : b => incus}
    /\ Goto("main", "list")
    /\ UNCHANGED <<world, stream, found, table, route, db, missed>>

\* Banners, cookie secret and listeners; then the transports and the task start,
\* the latter only where Incus has a socket at all.  An error on the way ends the
\* process with the table in place.
Bind ==
    /\ At("main", "bind")
    /\ \/ pc' = [main |-> "serve", task |-> IF client THEN "subscribe" ELSE "wait"]
       \/ ~client /\ pc' = [main |-> "serve", task |-> "none"]
       \/ pc' = [main |-> "down", task |-> "none"]
    /\ UNCHANGED <<world, stream, client, found, table, route, db, missed>>

\* A signal, or a transport that returned, ends the serving.
Stop ==
    /\ At("main", "serve")
    /\ Goto("main", "delete")
    /\ UNCHANGED <<world, stream, client, found, table, route, db, missed>>

DeleteTable ==
    /\ At("main", "delete")
    /\ table' = NoTable
    /\ Goto("main", "unroute")
    /\ UNCHANGED <<world, stream, client, found, route, db, missed>>

\* The route goes last, and the process exits with whatever the task was doing.
RemoveRoute ==
    /\ At("main", "unroute")
    /\ route' = FALSE
    /\ pc' = [main |-> "down", task |-> "none"]
    /\ stream' = NoStream
    /\ found' = <<>>
    /\ UNCHANGED <<world, client, table, db, missed>>

Crash ==
    /\ ~At("main", "down")
    /\ pc' = [main |-> "down", task |-> "none"]
    /\ stream' = NoStream
    /\ found' = <<>>
    /\ UNCHANGED <<world, client, table, route, db, missed>>

\* The service manager starts the process again; the kernel and Postgres keep
\* what the last one left.
Start ==
    /\ At("main", "down")
    /\ Goto("main", "connect")
    /\ client' = FALSE
    /\ missed' = TRUE
    /\ UNCHANGED <<world, stream, found, table, route, db>>

Next ==
    \/ \E i \in Known : InstanceChanges(i)
    \/ \E event \in {"other", "bad"} : OtherEvent(event)
    \/ IncusStops \/ IncusStarts
    \/ \E th \in Threads : BuildDiscovered(th) \/ Install(th) \/ Route(th) \/ Record(th)
    \/ Reconnect \/ Subscribe \/ NextEvent
    \/ Connect \/ Bind \/ Stop \/ DeleteTable \/ RemoveRoute \/ Crash \/ Start

Spec == Init /\ [][Next]_vars

-----------------------------------------------------------------------------
TypeOK ==
    /\ pc \in [main : {"connect", "list", "install", "route", "record", "bind",
                       "serve", "delete", "unroute", "down"},
              task : {"none", "wait", "list", "install", "route", "record",
                       "subscribe", "read"}]
    /\ stream.open \in BOOLEAN /\ stream.live \in BOOLEAN
    /\ {incus, client, route, missed} \subseteq BOOLEAN

\* While the task waits for events with every change it was told of handled, the
\* kernel accepts exactly the services that run now: the configured ones and the
\* discovered ones, no more and no less.  `missed` names the cases the code does
\* not make up for: a listing, an install or a route that failed and is not
\* retried, and a change between the listing and the subscription.
KernelCurrent ==
    /\ At("main", "serve") /\ At("task", "read")
    /\ stream.live /\ (\A k \in DOMAIN stream.queue : stream.queue[k] # "change")
    /\ ~missed
    => table = Wanted /\ route

\* Whatever discovery saw and whatever failed, a ruleset in the kernel accepts every
\* configured service as configured, and beyond those only a service that the host or
\* an instance offers, on the address it was seen on: the configuration wins over
\* discovery (service_exists in reconcile), and a merged rule is scoped (reconcile.rs).
ConfigurationWins ==
    table # NoTable =>
        /\ resolve(Base) \subseteq table
        /\ \A s \in table \ resolve(Base) :
            \E f \in Range(HostServices \o Listing(Known)) :
                f.addr = s.addr /\ f.port = s.port /\ f.target = s.target

\* The database never claims a policy the kernel was not given first: what is
\* recorded is what the table holds, unless the ruleset is being removed.
KernelBeforeRecord ==
    [][db' # db => table = db' \/ pc["main"] \in {"delete", "unroute"}]_vars

\* The comment on the catch-up reconcile: "so events missed while disconnected are
\* not lost".  Once the task is subscribed and has read every event, the kernel
\* accepts what runs now.
ChangesNotLost ==
    /\ At("main", "serve") /\ At("task", "read")
    /\ stream.live /\ stream.queue = <<>>
    => table = Wanted

\* "Remove the dataplane so the box stops diverting deception traffic to the now-dead
\* engine": a process that exits through its teardown leaves no ruleset behind.
StopRemovesRules ==
    [][At("main", "unroute") /\ pc'["main"] = "down" => table' = NoTable /\ ~route']_vars
=============================================================================
