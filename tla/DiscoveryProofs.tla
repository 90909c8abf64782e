--------------------------- MODULE DiscoveryProofs --------------------------
(***************************************************************************)
(* The kernel is current whenever the Incus task is idle, for every policy,*)
(* every set of instances and whatever they offer, and Postgres never runs *)
(* ahead of the kernel.                                                    *)
(*                                                                         *)
(* What reconcile and resolve compute plays no part in either result: the  *)
(* proofs use them as arbitrary operators.                                 *)
(***************************************************************************)
EXTENDS Discovery, TLAPS

Before == {"connect", "list", "install", "route", "record", "bind", "down"}
Serving == {"serve", "delete", "unroute"}
TaskAt == {"none", "wait", "list", "install", "route", "record", "subscribe", "read"}

Events == {"change", "other", "bad"}
Streams == [open : BOOLEAN, live : BOOLEAN, queue : Seq(Events)]

\* A change of an instance is on the stream, or the stream has died: in both cases
\* the task will list the instances again.
Due == /\ stream.open
       /\ \/ ~stream.live
          \/ \E k \in DOMAIN stream.queue : stream.queue[k] = "change"

\* What was listed is still so, and the kernel has all of it.
ListedNow == found = HostServices \o Listing(running)
KernelNow == table = Wanted /\ route

Typed ==
    /\ pc \in [Threads -> Before \cup Serving \cup TaskAt]
    /\ pc["main"] \in Before \cup Serving
    /\ pc["task"] \in TaskAt
    /\ stream \in Streams
    /\ missed \in BOOLEAN

\* The task exists only while main serves or tears down, and a stream only where
\* the task reads it or reconciles between two reads.
Staged ==
    /\ pc["main"] \in Before => pc["task"] = "none"
    /\ pc["task"] \in {"none", "wait", "subscribe"} => ~stream.open

\* What each stage of a reconcile has achieved by then.
Progress ==
    /\ \A th \in Threads :
        /\ At(th, "install") => missed \/ Due \/ ListedNow
        /\ At(th, "route") /\ pc["main"] \notin {"delete", "unroute"}
            => table = resolve(Effective(found)) /\ (missed \/ Due \/ ListedNow)
        /\ At(th, "record") /\ pc["main"] \notin {"delete", "unroute"}
            => table = resolve(Effective(found)) /\ route /\ (missed \/ Due \/ ListedNow)
    /\ At("main", "bind") => missed \/ Due \/ KernelNow
    /\ At("main", "serve") /\ pc["task"] \in {"subscribe", "read"}
        => missed \/ Due \/ KernelNow

IInv == Typed /\ Staged /\ Progress

LEMMA InitIInv == Init => IInv
<1> SUFFICES ASSUME Init PROVE IInv
  OBVIOUS
<1>1. Typed
  BY DEF Init, Typed, Before, Serving, TaskAt, NoStream, Threads, Streams
<1>2. Staged
  BY DEF Init, Staged, NoStream
<1>3. Progress
  BY DEF Init, Progress, At, Threads
<1> QED BY <1>1, <1>2, <1>3 DEF IInv

\* What is due stays due when an event is added to the stream, and a change that is
\* told to a live stream makes a listing due.
LEMMA PublishKeepsDue ==
    ASSUME Typed, NEW event \in Events, Publish(event)
    PROVE  /\ stream' \in Streams
           /\ stream'.open = stream.open
           /\ Due => Due'
           /\ event = "change" /\ stream.open => Due'
<1>1. CASE stream.open /\ stream.live
  <2> DEFINE q == stream.queue
  <2>1. q \in Seq(Events)
    BY DEF Typed, Streams
  <2>2. stream' = [stream EXCEPT !.queue = Append(q, event)]
    BY <1>1 DEF Publish
  <2>3. /\ stream'.open = stream.open /\ stream'.live = stream.live
        /\ stream'.queue = Append(q, event)
        /\ stream' \in Streams
    <3>1. Append(q, event) \in Seq(Events)
      BY <2>1
    <3> DEFINE longer == Append(q, event)
    <3>2. stream' = [stream EXCEPT !.queue = longer]
      BY <2>2
    <3>3. longer \in Seq(Events)
      BY <3>1
    <3> HIDE DEF longer
    <3>4. stream \in Streams
      BY DEF Typed
    <3>5. /\ stream'.open = stream.open /\ stream'.live = stream.live /\ stream'.queue = longer
          /\ stream' \in Streams
      BY <3>2, <3>3, <3>4 DEF Streams
    <3> QED BY <3>5 DEF longer
  <2> HIDE DEF q
  <2>4. /\ DOMAIN Append(q, event) = 1 .. (Len(q) + 1)
        /\ Append(q, event)[Len(q) + 1] = event
        /\ \A k \in DOMAIN q : k \in 1 .. (Len(q) + 1) /\ Append(q, event)[k] = q[k]
    BY <2>1
  <2>5. Due => Due'
    <3> SUFFICES ASSUME NEW k \in DOMAIN q, q[k] = "change" PROVE Due'
      BY <1>1 DEF Due, q
    <3> QED BY <1>1, <2>3, <2>4 DEF Due
  <2>6. event = "change" => Due'
    <3> SUFFICES ASSUME event = "change" PROVE Due'
      OBVIOUS
    <3>1. Len(q) + 1 \in DOMAIN stream'.queue /\ stream'.queue[Len(q) + 1] = "change"
      BY <2>1, <2>3, <2>4
    <3> QED BY <1>1, <2>3, <3>1 DEF Due
  <2> QED BY <2>3, <2>5, <2>6
<1>2. CASE ~(stream.open /\ stream.live)
  BY <1>2 DEF Publish, Typed, Due, Streams
<1> QED BY <1>1, <1>2

\* Steps of Incus and its instances: the threads stay where they are.
LEMMA WorldStep ==
    ASSUME IInv,
           \/ \E i \in Known : InstanceChanges(i)
           \/ \E event \in {"other", "bad"} : OtherEvent(event)
           \/ IncusStops \/ IncusStarts
    PROVE  IInv'
<1> USE DEF IInv
<1>1. ASSUME NEW i, InstanceChanges(i) PROVE IInv'
  <2>1. UNCHANGED <<pc, found, table, route>> /\ missed' = (missed \/ ~stream.open) /\ Publish("change")
    BY <1>1 DEF InstanceChanges
  <2>2. stream' \in Streams /\ stream'.open = stream.open /\ (stream.open => Due')
    BY <2>1, PublishKeepsDue DEF Events
  <2>3. Typed' /\ Staged'
    BY <2>1, <2>2 DEF Typed, Staged, Streams
  <2>4. missed' \/ Due'
    BY Zenon, <2>1, <2>2 DEF Typed
  <2>5. Progress'
    BY <2>1, <2>4 DEF Progress, At, Effective
  <2> QED BY <2>3, <2>5
<1>2. ASSUME NEW event \in {"other", "bad"}, OtherEvent(event) PROVE IInv'
  <2>1. UNCHANGED <<running, pc, found, table, route, missed>> /\ Publish(event)
    BY <1>2 DEF OtherEvent, world
  <2>2. stream' \in Streams /\ stream'.open = stream.open /\ (Due => Due')
    BY <2>1, PublishKeepsDue DEF Events
  <2>3. Typed' /\ Staged'
    BY <2>1, <2>2 DEF Typed, Staged, Streams
  <2>4. ListedNow' = ListedNow /\ KernelNow' = KernelNow
    BY <2>1 DEF ListedNow, KernelNow, Wanted
  <2>5. Progress'
    BY <2>1, <2>2, <2>4 DEF Progress, At, Effective
  <2> QED BY <2>3, <2>5
<1>3. CASE IncusStops
  <2>1. /\ UNCHANGED <<running, pc, found, table, route, missed>>
        /\ stream' \in Streams /\ stream'.open = stream.open /\ (Due => Due')
    BY Zenon, <1>3 DEF IncusStops, Typed, Streams, Due
  <2>2. Typed' /\ Staged'
    BY <2>1 DEF Typed, Staged, Streams
  <2>3. ListedNow' = ListedNow /\ KernelNow' = KernelNow
    BY <2>1 DEF ListedNow, KernelNow, Wanted
  <2>4. Progress'
    BY <2>1, <2>3 DEF Progress, At, Effective
  <2> QED BY <2>2, <2>4
<1>4. CASE IncusStarts
  <2>1. UNCHANGED <<running, pc, found, table, route, missed, stream>>
    BY <1>4 DEF IncusStarts
  <2>2. Typed' /\ Staged'
    BY <2>1 DEF Typed, Staged
  <2>3. Due' = Due /\ ListedNow' = ListedNow /\ KernelNow' = KernelNow
    BY <2>1 DEF ListedNow, KernelNow, Wanted, Due
  <2>4. Progress'
    BY <2>1, <2>3 DEF Progress, At, Effective
  <2> QED BY <2>2, <2>4
<1> QED BY <1>1, <1>2, <1>3, <1>4

\* A thread that goes on leaves the other where it is.
LEMMA GotoMoves ==
    ASSUME Typed, NEW th \in Threads, NEW where \in Before \cup Serving \cup TaskAt, Goto(th, where)
    PROVE  /\ pc' \in [Threads -> Before \cup Serving \cup TaskAt]
           /\ pc'[th] = where
           /\ \A other \in Threads : other # th => pc'[other] = pc[other]
BY DEF Typed, Goto

\* While main reconciles there is no task, and the task reconciles only while main
\* serves or tears down.
LEMMA OneReconcile ==
    ASSUME IInv, NEW th \in Threads, pc[th] \in {"list", "install", "route", "record"}
    PROVE  /\ th = "main" => pc["task"] = "none" /\ ~stream.open
           /\ th = "task" => pc["main"] \in Serving
BY DEF IInv, Typed, Staged, Threads, Before, Serving

LEMMA BuildDiscoveredStep ==
    ASSUME IInv, NEW th \in Threads, BuildDiscovered(th)
    PROVE  IInv'
<1>1. /\ pc[th] = "list" /\ Goto(th, "install")
      /\ UNCHANGED <<running, stream, table, route>>
  BY DEF BuildDiscovered, At, world
<1>2. missed' \in BOOLEAN /\ (missed' \/ ListedNow')
  <2>1. PICK scanned \in BOOLEAN, listed \in BOOLEAN :
            /\ found' = (IF scanned THEN HostServices ELSE <<>>)
                        \o (IF listed /\ (th = "main" => client) THEN Listing(running) ELSE <<>>)
            /\ missed' = ~(scanned /\ listed /\ (th = "main" => client))
    BY Zenon DEF BuildDiscovered
  <2>2. CASE scanned /\ listed /\ (th = "main" => client)
    BY <1>1, <2>1, <2>2 DEF ListedNow
  <2>3. CASE ~(scanned /\ listed /\ (th = "main" => client))
    BY Zenon, <2>1, <2>3
  <2> QED BY <2>2, <2>3
<1>3. Typed /\ Staged /\ Progress
  BY DEF IInv
<1>4. /\ pc' \in [Threads -> Before \cup Serving \cup TaskAt]
      /\ pc'[th] = "install"
      /\ \A other \in Threads : other # th => pc'[other] = pc[other]
  BY <1>1, <1>3, GotoMoves DEF Before
<1>5. /\ th = "main" => pc["task"] = "none" /\ ~stream.open
      /\ th = "task" => pc["main"] \in Serving
  BY <1>1, OneReconcile
<1>6. Typed'
  BY <1>1, <1>2, <1>3, <1>4 DEF Typed, Threads, Before, TaskAt
<1>7. Staged'
  BY <1>1, <1>3, <1>4, <1>5 DEF Staged, Threads, Before, Serving
<1>8. Progress'
  <2>1. \A other \in Threads : pc'[other] \notin {"route", "record"}
    BY <1>4, <1>5 DEF Threads, Serving
  <2>2. pc'["main"] # "bind" /\ ~(pc'["main"] = "serve" /\ pc'["task"] \in {"subscribe", "read"})
    BY <1>4, <1>5 DEF Threads, Serving
  <2>3. missed' \/ Due' \/ ListedNow'
    BY <1>2
  <2> QED BY <2>1, <2>2, <2>3 DEF Progress, At
<1> QED BY <1>6, <1>7, <1>8 DEF IInv

\* A thread gives up its reconcile with something missed, or with the kernel current.
LEMMA AbandonStep ==
    ASSUME IInv, NEW th \in Threads, pc[th] \in {"install", "route", "record"},
           Abandon(th), missed' \in BOOLEAN, running' = running,
           th = "task" /\ pc["main"] = "serve" => missed' \/ Due \/ KernelNow'
    PROVE  IInv'
<1>1. Typed /\ Staged /\ Progress
  BY DEF IInv
<1>2. /\ th = "main" => pc["task"] = "none" /\ ~stream.open
      /\ th = "task" => pc["main"] \in Serving
  BY OneReconcile
<1>3. CASE th = "main"
  <2>1. pc' = [main |-> "down", task |-> "none"] /\ stream' = NoStream
    BY <1>3 DEF Abandon
  <2>2. Typed' /\ Staged'
    BY <2>1 DEF Typed, Staged, Threads, Before, Serving, TaskAt, NoStream, Streams
  <2>3. Progress'
    BY <2>1 DEF Progress, At, Threads
  <2> QED BY <2>2, <2>3 DEF IInv
<1>4. CASE th = "task"
  <2>1. Goto(th, AfterReconcile) /\ stream' = stream
    BY <1>4 DEF Abandon
  <2>2. AfterReconcile \in {"read", "subscribe"} /\ (AfterReconcile = "subscribe" => ~stream.open)
    BY DEF AfterReconcile
  <2>3. /\ pc' \in [Threads -> Before \cup Serving \cup TaskAt]
        /\ pc'["task"] = AfterReconcile /\ pc'["main"] = pc["main"]
    BY <1>1, <1>4, <2>1, <2>2, GotoMoves DEF Threads, TaskAt
  <2>4. Typed' /\ Staged'
    BY <1>1, <1>2, <1>4, <2>1, <2>2, <2>3 DEF Typed, Staged, Before, Serving, TaskAt
  <2>5. Due' = Due
    BY <2>1 DEF Due
  <2>6. Progress'
    BY <1>2, <1>4, <2>2, <2>3, <2>5 DEF Progress, At, Threads, Serving
  <2> QED BY <2>4, <2>6 DEF IInv
<1> QED BY <1>3, <1>4 DEF Threads

LEMMA InstallStep ==
    ASSUME IInv, NEW th \in Threads, Install(th)
    PROVE  IInv'
<1>1. pc[th] = "install" /\ UNCHANGED <<running, route>>
  BY DEF Install, At, world
<1>2. Typed /\ Staged /\ Progress
  BY DEF IInv
<1>3. CASE /\ table' = resolve(Effective(found))
           /\ Goto(th, "route")
           /\ UNCHANGED <<stream, found, missed>>
  <2>1. /\ th = "main" => pc["task"] = "none" /\ ~stream.open
        /\ th = "task" => pc["main"] \in Serving
    BY <1>1, OneReconcile
  <2>2. /\ pc' \in [Threads -> Before \cup Serving \cup TaskAt]
        /\ pc'[th] = "route"
        /\ \A other \in Threads : other # th => pc'[other] = pc[other]
    BY <1>2, <1>3, GotoMoves DEF Before
  <2>3. Typed'
    BY <1>2, <1>3, <2>2 DEF Typed, Threads, Before, TaskAt
  <2>4. Staged'
    BY <1>2, <1>3, <2>1, <2>2 DEF Staged, Threads, Before, Serving
  <2>5. missed' \/ Due' \/ ListedNow'
    BY <1>1, <1>2, <1>3 DEF Progress, At, Due, ListedNow
  <2>6. table' = resolve(Effective(found))'
    BY <1>3 DEF Effective
  <2>7. \A other \in Threads : pc'[other] \notin {"install", "record"}
    BY <2>1, <2>2 DEF Threads, Serving
  <2>8. pc'["main"] # "bind" /\ ~(pc'["main"] = "serve" /\ pc'["task"] \in {"subscribe", "read"})
    BY <2>1, <2>2 DEF Threads, Serving
  <2>9. Progress'
    BY <2>5, <2>6, <2>7, <2>8 DEF Progress, At
  <2> QED BY <2>3, <2>4, <2>9 DEF IInv
<1>4. CASE missed' = TRUE /\ Abandon(th)
  BY <1>1, <1>4, AbandonStep
<1> QED BY Zenon, <1>3, <1>4 DEF Install

LEMMA RouteStep ==
    ASSUME IInv, NEW th \in Threads, Route(th)
    PROVE  IInv'
<1>1. pc[th] = "route" /\ UNCHANGED running
  BY DEF Route, At, world
<1>2. Typed /\ Staged /\ Progress
  BY DEF IInv
<1>3. CASE /\ route' = TRUE
           /\ Goto(th, "record")
           /\ UNCHANGED <<stream, found, table, missed>>
  <2>1. /\ th = "main" => pc["task"] = "none" /\ ~stream.open
        /\ th = "task" => pc["main"] \in Serving
    BY <1>1, OneReconcile
  <2>2. /\ pc' \in [Threads -> Before \cup Serving \cup TaskAt]
        /\ pc'[th] = "record"
        /\ \A other \in Threads : other # th => pc'[other] = pc[other]
    BY <1>2, <1>3, GotoMoves DEF Before
  <2>3. Typed'
    BY <1>2, <1>3, <2>2 DEF Typed, Threads, Before, TaskAt
  <2>4. Staged'
    BY <1>2, <1>3, <2>1, <2>2 DEF Staged, Threads, Before, Serving
  <2>5. pc'["main"] \notin {"delete", "unroute"} => pc["main"] \notin {"delete", "unroute"}
    BY <1>1, <2>1, <2>2 DEF Threads
  <2>6. ASSUME pc["main"] \notin {"delete", "unroute"}
        PROVE  table' = resolve(Effective(found))' /\ (missed' \/ Due' \/ ListedNow')
    BY <1>1, <1>2, <1>3, <2>6 DEF Progress, At, Due, ListedNow, Effective
  <2>7. \A other \in Threads : pc'[other] \notin {"install", "route"}
    BY <2>1, <2>2 DEF Threads, Serving
  <2>8. pc'["main"] # "bind" /\ ~(pc'["main"] = "serve" /\ pc'["task"] \in {"subscribe", "read"})
    BY <2>1, <2>2 DEF Threads, Serving
  <2>9. Progress'
    BY <1>3, <2>5, <2>6, <2>7, <2>8 DEF Progress, At
  <2> QED BY <2>3, <2>4, <2>9 DEF IInv
<1>4. CASE missed' = TRUE /\ Abandon(th)
  BY <1>1, <1>4, AbandonStep
<1> QED BY Zenon, <1>3, <1>4 DEF Route

LEMMA RecordStep ==
    ASSUME IInv, NEW th \in Threads, Record(th)
    PROVE  IInv'
<1>1. pc[th] = "record" /\ UNCHANGED <<running, table, route, missed>>
  BY DEF Record, At, world
<1>2. Typed /\ Staged /\ Progress
  BY DEF IInv
<1>3. /\ th = "main" => pc["task"] = "none" /\ ~stream.open
      /\ th = "task" => pc["main"] \in Serving
  BY <1>1, OneReconcile
<1>4. pc["main"] \notin {"delete", "unroute"} => missed' \/ Due \/ KernelNow'
  BY Zenon, <1>1, <1>2 DEF Progress, At, ListedNow, KernelNow, Wanted
<1>5. CASE /\ Goto(th, IF th = "main" THEN "bind" ELSE AfterReconcile)
           /\ UNCHANGED stream
  <2>1. AfterReconcile \in {"read", "subscribe"} /\ (AfterReconcile = "subscribe" => ~stream.open)
    BY DEF AfterReconcile
  <2> DEFINE where == IF th = "main" THEN "bind" ELSE AfterReconcile
  <2>2. where \in Before \cup Serving \cup TaskAt /\ Goto(th, where)
    BY <1>5, <2>1 DEF Before, TaskAt
  <2>3. /\ th = "main" => where = "bind"
        /\ th = "task" => where = AfterReconcile
    OBVIOUS
  <2> HIDE DEF where
  <2>4. /\ pc' \in [Threads -> Before \cup Serving \cup TaskAt]
        /\ pc'[th] = where
        /\ \A other \in Threads : other # th => pc'[other] = pc[other]
    BY <1>2, <2>2, GotoMoves
  <2>5. Typed'
    BY <1>1, <1>2, <1>5, <2>1, <2>3, <2>4 DEF Typed, Threads, Before, TaskAt
  <2>6. Staged'
    BY <1>2, <1>3, <1>5, <2>1, <2>3, <2>4 DEF Staged, Threads, Before, Serving
  <2>7. Due' = Due
    BY <1>5 DEF Due
  <2>8. \A other \in Threads : pc'[other] \notin {"install", "route", "record"}
    BY <1>3, <2>1, <2>3, <2>4 DEF Threads, Serving
  <2>9. Progress'
    <3>1. CASE th = "main"
      BY <1>1, <1>3, <1>4, <2>3, <2>4, <2>7, <2>8, <3>1 DEF Progress, At, Threads
    <3>2. CASE th = "task"
      BY <1>1, <1>3, <1>4, <2>1, <2>3, <2>4, <2>7, <2>8, <3>2 DEF Progress, At, Threads, Serving
    <3> QED BY <3>1, <3>2 DEF Threads
  <2> QED BY <2>5, <2>6, <2>9 DEF IInv
<1>6. CASE Abandon(th)
  <2>1. missed' \in BOOLEAN
    BY <1>1, <1>2 DEF Typed
  <2> QED BY <1>1, <1>4, <1>6, <2>1, AbandonStep
<1> QED BY <1>5, <1>6 DEF Record

\* The steps of the task outside a reconcile.
LEMMA TaskStep ==
    ASSUME IInv, Reconnect \/ Subscribe \/ NextEvent
    PROVE  IInv'
<1>1. Typed /\ Staged /\ Progress
  BY DEF IInv
<1>2. UNCHANGED <<running, found, table, route, missed>>
  BY DEF Reconnect, Subscribe, NextEvent, world
<1>3. PICK where \in {"wait", "list", "read"} : Goto("task", where)
  BY DEF Reconnect, Subscribe, NextEvent
<1>4. /\ pc' \in [Threads -> Before \cup Serving \cup TaskAt]
      /\ pc'["task"] = where /\ pc'["main"] = pc["main"]
  BY <1>1, <1>3, GotoMoves DEF Threads, TaskAt
<1>5. pc["task"] \in {"wait", "subscribe", "read"} /\ pc["main"] \in Serving
  BY <1>1 DEF Reconnect, Subscribe, NextEvent, At, Typed, Staged, Before, Serving
<1>6. stream' \in Streams /\ (where = "wait" => ~stream'.open)
  <2>1. CASE Reconnect
    BY <1>1, <1>4, <2>1 DEF Reconnect, Typed, Staged, At, Goto
  <2>2. CASE Subscribe
    <3>1. CASE stream' = OpenStream /\ Goto("task", "read")
      <4>1. where = "read"
        BY <1>1, <1>4, <3>1 DEF Goto, Typed, Threads
      <4>2. stream' \in Streams
        BY <3>1 DEF OpenStream, Streams
      <4> QED BY <4>1, <4>2
    <3>2. CASE UNCHANGED stream
      BY <1>1, <2>2, <3>2 DEF Subscribe, Typed, Staged, At
    <3> QED BY <2>2, <3>1, <3>2 DEF Subscribe
  <2>3. CASE NextEvent
    <3>1. CASE /\ stream.queue # <<>> /\ stream' = [stream EXCEPT !.queue = Tail(@)]
               /\ Goto("task", IF Head(stream.queue) = "change" THEN "list" ELSE "read")
      <4>1. Tail(stream.queue) \in Seq(Events)
        BY <1>1, <3>1 DEF Typed, Streams
      <4>2. where # "wait"
        BY <1>1, <1>4, <3>1 DEF Goto, Typed, Threads
      <4> QED BY <1>1, <3>1, <4>1, <4>2 DEF Typed, Streams
    <3>2. CASE stream' = NoStream
      BY <3>2 DEF NoStream, Streams
    <3> QED BY <2>3, <3>1, <3>2 DEF NextEvent
  <2> QED BY <2>1, <2>2, <2>3
<1>7. Typed'
  BY <1>1, <1>2, <1>4, <1>6 DEF Typed, TaskAt
<1>8. Staged'
  BY <1>4, <1>5, <1>6 DEF Staged, Before, Serving
<1>9. where = "read" /\ pc["main"] = "serve" => missed' \/ Due' \/ KernelNow'
  <2> SUFFICES ASSUME where = "read", pc["main"] = "serve", ~missed PROVE Due' \/ KernelNow'
    BY <1>2
  <2>1. KernelNow' = KernelNow
    BY <1>2 DEF KernelNow, Wanted
  <2>2. CASE Reconnect
    BY <1>1, <1>4, <2>2 DEF Reconnect, Goto, Typed, Threads
  <2>3. CASE Subscribe
    BY <1>1, <2>1, <2>3 DEF Subscribe, Progress, Staged, At, Due
  <2>4. CASE NextEvent
    <3>1. Due \/ KernelNow
      BY <1>1, <2>4 DEF NextEvent, Progress, At
    <3>2. /\ stream.queue # <<>> /\ Head(stream.queue) # "change"
          /\ stream' = [stream EXCEPT !.queue = Tail(@)]
      BY <1>1, <1>4, <2>4 DEF NextEvent, Goto, Typed, Threads
    <3>3. ASSUME Due PROVE Due'
      <4> DEFINE q == stream.queue
      <4>1. q \in Seq(Events) /\ q # <<>>
        BY <1>1, <3>2 DEF Typed, Streams
      <4>2. stream'.open = stream.open /\ stream'.live = stream.live /\ stream'.queue = Tail(q)
        BY <1>1, <3>2 DEF Typed, Streams
      <4>3. CASE ~stream.live
        BY <3>3, <4>2, <4>3 DEF Due
      <4>4. ASSUME NEW k \in DOMAIN q, q[k] = "change" PROVE Due'
        <5>0. Head(q) # "change"
          BY <3>2
        <5> HIDE DEF q
        <5>1. k - 1 \in DOMAIN Tail(q) /\ Tail(q)[k - 1] = "change"
          BY <4>1, <4>4, <5>0
        <5> QED BY <3>3, <4>2, <5>1 DEF Due
      <4> QED BY <3>3, <4>3, <4>4 DEF Due
    <3> QED BY <2>1, <3>1, <3>3
  <2> QED BY <2>2, <2>3, <2>4
<1>10. Progress'
  BY <1>4, <1>5, <1>9 DEF Progress, At, Threads, Serving
<1> QED BY <1>7, <1>8, <1>10 DEF IInv

\* The steps of main outside a reconcile, crashes and starts included.
LEMMA MainStep ==
    ASSUME IInv,
           Connect \/ Bind \/ Stop \/ DeleteTable \/ RemoveRoute \/ Crash \/ Start
    PROVE  IInv'
<1>1. Typed /\ Staged /\ Progress
  BY DEF IInv
<1>2. ASSUME pc' = [main |-> "down", task |-> "none"], stream' = NoStream, missed' = missed PROVE IInv'
  <2>1. Typed' /\ Staged'
    BY <1>1, <1>2 DEF Typed, Staged, Threads, Before, Serving, TaskAt, NoStream, Streams
  <2>2. Progress'
    BY <1>2 DEF Progress, At, Threads
  <2> QED BY <2>1, <2>2 DEF IInv
<1>3. ASSUME NEW where \in {"connect", "list"}, Goto("main", where), pc["main"] \in Before,
             stream' = stream, missed' \in BOOLEAN
      PROVE  IInv'
  <2>1. /\ pc' \in [Threads -> Before \cup Serving \cup TaskAt]
        /\ pc'["main"] = where /\ pc'["task"] = "none"
    BY <1>1, <1>3, GotoMoves DEF Threads, Before, Staged
  <2>2. Typed' /\ Staged'
    BY <1>1, <1>3, <2>1 DEF Typed, Staged, Before, TaskAt
  <2>3. Progress'
    BY <2>1 DEF Progress, At, Threads
  <2> QED BY <2>2, <2>3 DEF IInv
<1>4. ASSUME NEW where \in {"delete", "unroute"}, Goto("main", where), pc["main"] \in Serving,
             UNCHANGED <<running, stream, found, missed>>
      PROVE  IInv'
  <2>1. /\ pc' \in [Threads -> Before \cup Serving \cup TaskAt]
        /\ pc'["main"] = where /\ pc'["task"] = pc["task"]
    BY <1>1, <1>4, GotoMoves DEF Threads, Serving
  <2>2. Typed' /\ Staged'
    BY <1>1, <1>4, <2>1 DEF Typed, Staged, Before, Serving
  <2>3. pc'["task"] = "install" => missed' \/ Due' \/ ListedNow'
    BY ZenonT(30), <1>1, <1>4, <2>1 DEF Progress, At, Threads, Due, ListedNow
  <2>4. Progress'
    BY <2>1, <2>3 DEF Progress, At, Threads
  <2> QED BY <2>2, <2>4 DEF IInv
<1>5. CASE Connect
  BY <1>1, <1>3, <1>5 DEF Connect, At, Before, Typed
<1>6. CASE Bind
  <2>1. CASE \E start \in {"subscribe", "wait", "none"} : pc' = [main |-> "serve", task |-> start]
    <3>1. UNCHANGED <<running, stream, found, table, route, missed>> /\ pc["main"] = "bind"
      BY <1>6 DEF Bind, world, At
    <3>2. ~stream.open
      BY <1>1, <3>1 DEF Staged, Before
    <3>3. /\ pc'["main"] = "serve" /\ pc'["task"] \in {"subscribe", "wait", "none"}
          /\ pc' \in [Threads -> Before \cup Serving \cup TaskAt]
      BY <2>1 DEF Threads, Serving, TaskAt
    <3>4. Typed' /\ Staged'
      BY <1>1, <3>1, <3>2, <3>3 DEF Typed, Staged, Before, Serving, TaskAt
    <3>5. missed' \/ Due' \/ KernelNow'
      BY <1>1, <3>1 DEF Progress, At, Due, KernelNow, Wanted
    <3>6. Progress'
      BY <3>3, <3>5 DEF Progress, At, Threads
    <3> QED BY <3>4, <3>6 DEF IInv
  <2>2. CASE pc' = [main |-> "down", task |-> "none"]
    <3>1. UNCHANGED <<stream, missed>> /\ pc["main"] = "bind"
      BY <1>6 DEF Bind, At
    <3>2. Typed' /\ Staged'
      BY <1>1, <2>2, <3>1 DEF Typed, Staged, Threads, Before, Serving, TaskAt
    <3>3. Progress'
      BY <2>2 DEF Progress, At, Threads
    <3> QED BY <3>2, <3>3 DEF IInv
  <2>3. (IF client THEN "subscribe" ELSE "wait") \in {"subscribe", "wait", "none"}
    OBVIOUS
  <2> QED BY <1>6, <2>1, <2>2, <2>3 DEF Bind
<1>7. CASE Stop
  BY <1>4, <1>7 DEF Stop, At, Serving, world
<1>8. CASE DeleteTable
  BY <1>4, <1>8 DEF DeleteTable, At, Serving, world
<1>9. CASE RemoveRoute
  BY <1>2, <1>9 DEF RemoveRoute
<1>10. CASE Crash
  BY <1>2, <1>10 DEF Crash
<1>11. CASE Start
  BY <1>3, <1>11 DEF Start, At, Before
<1> QED BY <1>5, <1>6, <1>7, <1>8, <1>9, <1>10, <1>11

LEMMA StepIInv == IInv /\ [Next]_vars => IInv'
<1> SUFFICES ASSUME IInv, [Next]_vars PROVE IInv'
  OBVIOUS
<1>1. CASE \/ \E i \in Known : InstanceChanges(i)
           \/ \E event \in {"other", "bad"} : OtherEvent(event)
           \/ IncusStops \/ IncusStarts
  BY <1>1, WorldStep
<1>2. ASSUME NEW th \in Threads, BuildDiscovered(th) \/ Install(th) \/ Route(th) \/ Record(th)
      PROVE  IInv'
  BY <1>2, BuildDiscoveredStep, InstallStep, RouteStep, RecordStep
<1>3. CASE Reconnect \/ Subscribe \/ NextEvent
  BY <1>3, TaskStep
<1>4. CASE Connect \/ Bind \/ Stop \/ DeleteTable \/ RemoveRoute \/ Crash \/ Start
  BY <1>4, MainStep
<1>5. CASE UNCHANGED vars
  BY <1>5 DEF vars, IInv, Typed, Staged, Progress, At, Due, ListedNow, KernelNow, Wanted, Effective
<1> QED BY <1>1, <1>2, <1>3, <1>4, <1>5 DEF Next

\* KernelCurrent for every policy, every set of instances and every bound: when the
\* Incus task waits on a live stream with no change unread and nothing was missed,
\* the kernel accepts exactly the configured services and the ones that run now.
THEOREM KernelAlwaysCurrent == Spec => []KernelCurrent
<1>1. IInv => KernelCurrent
  BY DEF IInv, Progress, KernelCurrent, Due, KernelNow, At
<1> QED BY <1>1, InitIInv, StepIInv, PTL DEF Spec

\* KernelBeforeRecord for every instance: apply_effective writes Postgres after the
\* kernel, so what is recorded is what the kernel was given, whatever the other thread
\* does between the two writes short of tearing the ruleset down.
THEOREM KernelLeadsRecord == Spec => KernelBeforeRecord
<1>1. IInv /\ [Next]_vars
      => [db' # db => table = db' \/ pc["main"] \in {"delete", "unroute"}]_vars
  <2> SUFFICES ASSUME IInv, Next, db' # db, pc["main"] \notin {"delete", "unroute"}
               PROVE  table = db'
    OBVIOUS
  <2>1. PICK th \in Threads : Record(th)
    BY Zenon DEF Next, InstanceChanges, OtherEvent, IncusStops, IncusStarts, BuildDiscovered,
           Install, Route, Reconnect, Subscribe, NextEvent, Connect, Bind, Stop,
           DeleteTable, RemoveRoute, Crash, Start
  <2>2. db' = resolve(Effective(found)) /\ At(th, "record")
    BY <2>1 DEF Record
  <2> QED BY <2>2 DEF IInv, Progress
<1> QED BY <1>1, InitIInv, StepIInv, PTL DEF Spec, KernelBeforeRecord
=============================================================================
