-------------------------- MODULE BgpSessionProofs --------------------------
(***************************************************************************)
(* TLAPS proofs about BgpSession, for every set of keys, managers and      *)
(* routers and every channel capacity.                                     *)
(***************************************************************************)
EXTENDS BgpSession, TLAPS

USE NoRouteAssumption, SafiAssumption, OwnsAssumption, IdleAssumption,
    PeerOpensAssumption, CapacityAssumption, MaxFailuresAssumption

(***************************************************************************)
(* The channel                                                             *)
(***************************************************************************)

\* Appending a command makes it the last one about its key and leaves the last
\* ones about other keys alone.
LEMMA LastAfterAppend ==
    ASSUME NEW q \in Seq(Command), NEW c \in Command
    PROVE  /\ Append(q, c) \in Seq(Command)
           /\ DOMAIN Append(q, c) = DOMAIN q \cup {Len(q) + 1}
           /\ Append(q, c)[Len(q) + 1] = c
           /\ \A i \in DOMAIN q : Append(q, c)[i] = q[i]
           /\ IsLast(Append(q, c), c.nlri, Len(q) + 1)
           /\ \A n \in Nlri \ {c.nlri}, i \in DOMAIN q :
                IsLast(q, n, i) => IsLast(Append(q, c), n, i)
<1>1. Append(q, c) \in Seq(Command) /\ DOMAIN q = 1..Len(q) /\ Len(q) \in Nat
    OBVIOUS
<1>2. DOMAIN Append(q, c) = 1..(Len(q) + 1)
    OBVIOUS
<1>3. Append(q, c)[Len(q) + 1] = c /\ \A i \in 1..Len(q) : Append(q, c)[i] = q[i]
    OBVIOUS
<1>4. DOMAIN Append(q, c) = DOMAIN q \cup {Len(q) + 1}
    BY <1>1, <1>2
<1>5. IsLast(Append(q, c), c.nlri, Len(q) + 1)
    BY <1>1, <1>2, <1>3 DEF IsLast
<1>6. ASSUME NEW n \in Nlri \ {c.nlri}, NEW i \in DOMAIN q, IsLast(q, n, i)
      PROVE  IsLast(Append(q, c), n, i)
    BY <1>1, <1>2, <1>3, <1>6 DEF IsLast
<1> QED BY <1>1, <1>3, <1>4, <1>5, <1>6

\* Taking the head shifts the others by one.
LEMMA LastAfterTail ==
    ASSUME NEW q \in Seq(Command), q # <<>>
    PROVE  /\ Head(q) \in Command
           /\ Head(q) = q[1]
           /\ Tail(q) \in Seq(Command)
           /\ Len(Tail(q)) = Len(q) - 1
           /\ \A i \in DOMAIN Tail(q) : i + 1 \in DOMAIN q /\ Tail(q)[i] = q[i + 1]
           /\ \A n \in Nlri, i \in DOMAIN q :
                (IsLast(q, n, i) /\ i # 1) => IsLast(Tail(q), n, i - 1) /\ Tail(q)[i - 1] = q[i]
<1>1. /\ Len(q) \in Nat /\ Len(q) >= 1 /\ DOMAIN q = 1..Len(q)
      /\ Head(q) = q[1] /\ q[1] \in Command
    OBVIOUS
<1>2. /\ Tail(q) \in Seq(Command) /\ Len(Tail(q)) = Len(q) - 1
      /\ DOMAIN Tail(q) = 1..(Len(q) - 1)
    BY <1>1
<1>3. \A i \in 1..(Len(q) - 1) : Tail(q)[i] = q[i + 1]
    BY <1>1
<1>4. ASSUME NEW n \in Nlri, NEW i \in DOMAIN q, IsLast(q, n, i), i # 1
      PROVE  IsLast(Tail(q), n, i - 1) /\ Tail(q)[i - 1] = q[i]
    <2>1. i - 1 \in 1..(Len(q) - 1) /\ Tail(q)[i - 1] = q[i]
        BY <1>1, <1>3, <1>4
    <2>2. ASSUME NEW k \in DOMAIN Tail(q), k > i - 1 PROVE Tail(q)[k].nlri # n
        <3>1. k + 1 \in DOMAIN q /\ k + 1 > i /\ Tail(q)[k] = q[k + 1]
            BY <1>1, <1>2, <1>3, <2>2
        <3> QED BY <3>1, <1>4 DEF IsLast
    <2> QED BY <2>1, <2>2, <1>2, <1>4 DEF IsLast
<1>5. \A i \in DOMAIN Tail(q) : i + 1 \in DOMAIN q /\ Tail(q)[i] = q[i + 1]
    BY <1>1, <1>2, <1>3
<1> QED BY <1>1, <1>2, <1>4, <1>5

\* The drained table has, for each key, the value of the last command about it.
LEMMA DrainFacts ==
    ASSUME NEW q \in Seq(Command), NEW a \in Table
    PROVE  /\ drain_commands(q, a) \in Table
           /\ \A n \in Nlri, i \in DOMAIN q :
                IsLast(q, n, i) => drain_commands(q, a)[n] = q[i].value
           /\ \A n \in Nlri :
                (\A i \in DOMAIN q : q[i].nlri # n) => drain_commands(q, a)[n] = a[n]
<1> DEFINE d == drain_commands(q, a)
<1>1. \A n \in Nlri, i, k \in DOMAIN q : IsLast(q, n, i) /\ IsLast(q, n, k) => i = k
  BY DEF IsLast
<1>2. ASSUME NEW n \in Nlri, NEW i \in DOMAIN q, IsLast(q, n, i)
      PROVE  d[n] = q[i].value
  <2>1. (CHOOSE k \in DOMAIN q : IsLast(q, n, k)) = i
    BY <1>1, <1>2
  <2>2. QED
    BY Zenon, <2>1, <1>2 DEF drain_commands
<1>3. ASSUME NEW n \in Nlri, \A i \in DOMAIN q : q[i].nlri # n
      PROVE  d[n] = a[n]
  BY <1>3 DEF drain_commands, IsLast
<1>4. ASSUME NEW n \in Nlri PROVE d[n] \in Value
  <2>1. CASE \E i \in DOMAIN q : IsLast(q, n, i)
    <3>1. PICK i \in DOMAIN q : IsLast(q, n, i)
      BY <2>1
    <3>2. q[i] \in Command
      OBVIOUS
    <3>3. QED
      BY <3>1, <3>2, <1>2 DEF Command
  <2>2. CASE ~\E i \in DOMAIN q : IsLast(q, n, i)
    BY <2>2 DEF drain_commands, Table
  <2>3. QED
    BY <2>1, <2>2
<1>5. d = [n \in Nlri |-> d[n]]
  BY DEF drain_commands
<1>6. d \in Table
  BY <1>4, <1>5 DEF Table
<1>7. QED
  BY <1>2, <1>3, <1>6

(***************************************************************************)
(* One lemma per step                                                      *)
(***************************************************************************)

\* The end of an attempt loses no command: the queue moves into the active set.
LEMMA ReconnectPreserves == IndInv /\ Reconnect => IndInv'
<1> SUFFICES ASSUME IndInv, Reconnect PROVE IndInv'
  OBVIOUS
<1> USE DEF IndInv
<1>1. commands \in Seq(Command) /\ active \in Table
  BY DEF TypeOK
<1>2. active' \in Table /\ commands' = <<>>
  BY <1>1, DrainFacts DEF Reconnect
<1>3. Empty \in Table /\ \A n \in Nlri : Empty[n] = NoRoute
  BY DEF Empty, Table, Value
<1>4. TypeOK'
  <2>1. <<>> \in Seq(Command) /\ Len(<<>>) <= Capacity
    OBVIOUS
  <2>2. consecutive_failures' \in 0..MaxFailures
    BY DEF TypeOK, Reconnect
  <2>3. QED
    BY <1>2, <1>3, <2>1, <2>2 DEF TypeOK, Reconnect, Phase
<1>5. IntentPreserved'
  <2>1. ASSUME NEW n \in Nlri PROVE active'[n] = intent[n]
    <3>1. CASE intent[n] = active[n] /\ \A i \in DOMAIN commands : commands[i].nlri # n
      BY <3>1, <1>1, DrainFacts DEF Reconnect
    <3>2. CASE \E i \in DOMAIN commands : IsLast(commands, n, i) /\ commands[i].value = intent[n]
      BY <3>2, <1>1, DrainFacts DEF Reconnect
    <3>3. QED
      BY <3>1, <3>2 DEF IntentPreserved
  <2>2. DOMAIN commands' = {}
    BY <1>2
  <2>3. QED
    BY <2>1, <2>2 DEF IntentPreserved, Reconnect
<1>6. RibExact'
  BY <1>3 DEF RibExact, Reconnect
<1>7. OnlyNegotiated' /\ SessionShape'
  BY DEF OnlyNegotiated, SessionShape, Reconnect
<1>8. QED
  BY <1>4, <1>5, <1>6, <1>7

\* An accepted command becomes the last word about its key.
LEMMA AcceptPreserves ==
    ASSUME IndInv, NEW m \in Manager, Accept(m) PROVE IndInv'
<1> USE DEF IndInv
<1> DEFINE c == call[m]
<1>1. c \in Command /\ commands \in Seq(Command) /\ intent \in Table
  BY DEF TypeOK, Accept
<1>2. c.nlri \in Nlri /\ c.value \in Value
  BY <1>1 DEF Command
<1>3. /\ commands' = Append(commands, c) /\ intent' = [intent EXCEPT ![c.nlri] = c.value]
      /\ Len(commands) < Capacity
      /\ UNCHANGED <<active, phase, state, peer, todo, update, rib, consecutive_failures, mute>>
  BY DEF Accept
<1>4. /\ intent' \in Table /\ intent'[c.nlri] = c.value
      /\ \A n \in Nlri : n # c.nlri => intent'[n] = intent[n]
  BY <1>1, <1>2, <1>3 DEF Table
<1>5. call' \in [Manager -> Command \cup {Idle}]
  BY DEF Accept, TypeOK
<1>6. Len(commands') <= Capacity
  BY <1>1, <1>3
<1> HIDE DEF c
<1>7. TypeOK'
  BY <1>1, <1>3, <1>4, <1>5, <1>6, LastAfterAppend DEF TypeOK
<1>8. ASSUME NEW n \in Nlri
      PROVE  \/ intent'[n] = active'[n] /\ \A i \in DOMAIN commands' : commands'[i].nlri # n
             \/ \E i \in DOMAIN commands' :
                    IsLast(commands', n, i) /\ commands'[i].value = intent'[n]
  <2>1. CASE n = c.nlri
    BY <2>1, <1>1, <1>3, <1>4, LastAfterAppend
  <2>2. CASE n # c.nlri
    <3>1. CASE intent[n] = active[n] /\ \A i \in DOMAIN commands : commands[i].nlri # n
      BY <2>2, <3>1, <1>1, <1>3, <1>4, LastAfterAppend
    <3>2. CASE \E i \in DOMAIN commands : IsLast(commands, n, i) /\ commands[i].value = intent[n]
      <4>1. PICK i \in DOMAIN commands : IsLast(commands, n, i) /\ commands[i].value = intent[n]
        BY <3>2
      <4>2. i \in DOMAIN commands' /\ IsLast(commands', n, i) /\ commands'[i] = commands[i]
        BY <2>2, <4>1, <1>1, <1>3, LastAfterAppend
      <4>3. QED
        BY <2>2, <4>1, <4>2, <1>4
    <3>3. QED
      BY <3>1, <3>2 DEF IntentPreserved
  <2>3. QED
    BY <2>1, <2>2
<1>9. IntentPreserved'
  BY <1>8 DEF IntentPreserved
<1>10. RibExact' /\ OnlyNegotiated' /\ SessionShape'
  BY <1>3 DEF RibExact, OnlyNegotiated, SessionShape
<1>11. QED
  BY <1>7, <1>9, <1>10

\* The OPEN exchange completes: what is not yet re-announced is in todo.
LEMMA ConfirmPreserves == IndInv /\ Confirm => IndInv'
<1> SUFFICES ASSUME IndInv, Confirm PROVE IndInv'
  OBVIOUS
<1> USE DEF IndInv
<1>1. TypeOK'
  BY DEF TypeOK, Confirm, Phase
<1>2. IntentPreserved'
  BY DEF IntentPreserved, Confirm
<1>3. RibExact'
  BY DEF RibExact, Confirm, SessionShape, announce_allowed
<1>4. OnlyNegotiated' /\ SessionShape'
  BY DEF OnlyNegotiated, SessionShape, Confirm, announce_allowed
<1>5. QED
  BY <1>1, <1>2, <1>3, <1>4

\* One key of the active set is re-announced or skipped.
LEMMA ReannouncePreserves ==
    ASSUME IndInv, NEW n \in Nlri, Reannounce(n) PROVE IndInv'
<1> USE DEF IndInv
<1>1. rib \in Table /\ active \in Table
  BY DEF TypeOK
<1>2. rib' \in Table /\ update' \subseteq Nlri
  BY <1>1 DEF TypeOK, Reannounce, Table
<1>3. TypeOK'
  BY <1>2 DEF TypeOK, Reannounce
<1>4. IntentPreserved'
  BY DEF IntentPreserved, Reannounce
<1>5. ASSUME NEW x \in Nlri
      PROVE  rib'[x] = IF /\ state' = "Established" /\ x \notin todo'
                          /\ announce_allowed(peer', x)
                       THEN active'[x] ELSE NoRoute
  <2>1. CASE x = n
    BY <2>1, <1>1 DEF Reannounce, RibExact, SessionShape, Table, announce_allowed
  <2>2. CASE x # n
    BY <2>2, <1>1 DEF Reannounce, RibExact, SessionShape, Table, announce_allowed
  <2>3. QED
    BY <2>1, <2>2
<1>6. RibExact'
  BY <1>5 DEF RibExact
<1>7. OnlyNegotiated' /\ SessionShape'
  BY DEF OnlyNegotiated, SessionShape, Reannounce, announce_allowed
<1>8. QED
  BY <1>3, <1>4, <1>6, <1>7

\* A command leaves the queue, enters the active set and, if negotiated, the
\* router's table.
LEMMA HandleCommandPreserves == IndInv /\ HandleCommand => IndInv'
<1> SUFFICES ASSUME IndInv, HandleCommand PROVE IndInv'
  OBVIOUS
<1> USE DEF IndInv
<1> DEFINE c == Head(commands)
<1>1. /\ rib \in Table /\ active \in Table /\ commands \in Seq(Command)
      /\ Len(commands) <= Capacity /\ commands # <<>>
  BY DEF TypeOK, HandleCommand
<1>2. c \in Command /\ c = commands[1] /\ c.nlri \in Nlri /\ c.value \in Value
  BY Zenon, <1>1, LastAfterTail DEF Command
<1>3. /\ commands' = Tail(commands) /\ active' = [active EXCEPT ![c.nlri] = c.value]
      /\ UNCHANGED <<call, intent, phase, state, peer, todo, consecutive_failures, mute>>
      /\ phase = "Established" /\ todo = {}
      /\ IF announce_allowed(peer, c.nlri)
         THEN rib' = [rib EXCEPT ![c.nlri] = c.value] /\ update' = {c.nlri}
         ELSE UNCHANGED <<rib, update>>
  BY DEF HandleCommand
<1> HIDE DEF c
<1>4. /\ active' \in Table /\ active'[c.nlri] = c.value
      /\ \A n \in Nlri : n # c.nlri => active'[n] = active[n]
  BY <1>1, <1>2, <1>3 DEF Table
<1>5. rib' \in Table /\ update' \subseteq Nlri
  BY <1>1, <1>2, <1>3 DEF Table, TypeOK
<1>6. commands' \in Seq(Command) /\ Len(commands') <= Capacity
  BY <1>1, <1>3, LastAfterTail
<1>7. TypeOK'
  BY <1>3, <1>4, <1>5, <1>6 DEF TypeOK
<1>8. ASSUME NEW n \in Nlri
      PROVE  \/ intent'[n] = active'[n] /\ \A i \in DOMAIN commands' : commands'[i].nlri # n
             \/ \E i \in DOMAIN commands' :
                    IsLast(commands', n, i) /\ commands'[i].value = intent'[n]
  <2>1. CASE intent[n] = active[n] /\ \A i \in DOMAIN commands : commands[i].nlri # n
    <3>1. c.nlri # n
      BY <2>1, <1>1, <1>2
    <3>2. QED
      BY <2>1, <3>1, <1>1, <1>3, <1>4, LastAfterTail
  <2>2. CASE \E i \in DOMAIN commands : IsLast(commands, n, i) /\ commands[i].value = intent[n]
    <3>1. PICK i \in DOMAIN commands : IsLast(commands, n, i) /\ commands[i].value = intent[n]
      BY <2>2
    <3>2. CASE i = 1
      <4>1. c.nlri = n /\ c.value = intent[n]
        BY <3>1, <3>2, <1>2 DEF IsLast
      <4>2. \A k \in DOMAIN commands' : commands'[k].nlri # n
        <5>1. TAKE k \in DOMAIN commands'
        <5>2. k + 1 \in DOMAIN commands /\ commands'[k] = commands[k + 1] /\ k \in Nat /\ k + 1 > 1
          BY <1>1, <1>3, <1>6, LastAfterTail
        <5>3. QED
          BY <5>2, <3>1, <3>2 DEF IsLast
      <4>3. QED
        BY <4>1, <4>2, <1>3, <1>4
    <3>3. CASE i # 1
      <4>1. IsLast(commands', n, i - 1) /\ commands'[i - 1] = commands[i]
        BY <3>1, <3>3, <1>1, <1>3, LastAfterTail
      <4>2. i - 1 \in DOMAIN commands'
        BY <4>1 DEF IsLast
      <4>3. QED
        BY <4>1, <4>2, <3>1, <1>3
    <3>4. QED
      BY <3>2, <3>3
  <2>3. QED
    BY <2>1, <2>2 DEF IntentPreserved
<1>9. IntentPreserved'
  BY <1>8 DEF IntentPreserved
<1>10. ASSUME NEW x \in Nlri
       PROVE  rib'[x] = IF /\ state' = "Established" /\ x \notin todo'
                           /\ announce_allowed(peer', x)
                        THEN active'[x] ELSE NoRoute
  <2>1. CASE x = c.nlri
    BY <2>1, <1>1, <1>2, <1>3, <1>4 DEF RibExact, SessionShape, Table, announce_allowed
  <2>2. CASE x # c.nlri
    BY <2>2, <1>1, <1>2, <1>3, <1>4 DEF RibExact, SessionShape, Table, announce_allowed
  <2>3. QED
    BY <2>1, <2>2
<1>11. RibExact'
  BY <1>10 DEF RibExact
<1>12. OnlyNegotiated' /\ SessionShape'
  BY <1>3 DEF OnlyNegotiated, SessionShape, announce_allowed
<1>13. QED
  BY <1>7, <1>9, <1>11, <1>12

\* The other steps move the phase, a pending call or the router's silence.
LEMMA OtherStepsPreserve ==
    ASSUME IndInv,
           \/ \E m \in Manager, c \in Command : Ask(m, c)
           \/ Wake \/ Connect \/ Mute
           \/ \E o \in PeerOpens : ReceiveOpen(o)
           \/ UNCHANGED vars
    PROVE  IndInv'
<1> USE DEF IndInv
<1>1. CASE \E m \in Manager, c \in Command : Ask(m, c)
  <2>1. PICK m \in Manager, c \in Command : Ask(m, c)
    BY <1>1
  <2>2. call' \in [Manager -> Command \cup {Idle}]
    BY <2>1 DEF Ask, TypeOK
  <2>3. QED
    BY <2>1, <2>2 DEF Ask, TypeOK, IntentPreserved, RibExact, OnlyNegotiated, SessionShape
<1>2. CASE Wake \/ Connect
  BY <1>2 DEF Wake, Connect, TypeOK, Phase, IntentPreserved, RibExact, OnlyNegotiated, SessionShape
<1>3. CASE Mute
  BY <1>3 DEF Mute, TypeOK, IntentPreserved, RibExact, OnlyNegotiated, SessionShape
<1>4. CASE \E o \in PeerOpens : ReceiveOpen(o)
  BY <1>4 DEF ReceiveOpen, TypeOK, Phase, IntentPreserved, RibExact, OnlyNegotiated, SessionShape
<1>5. CASE UNCHANGED vars
  BY <1>5 DEF vars, TypeOK, IntentPreserved, RibExact, OnlyNegotiated, SessionShape
<1>6. QED
  BY <1>1, <1>2, <1>3, <1>4, <1>5

(***************************************************************************)
(* The theorems                                                            *)
(***************************************************************************)

\* The inductive invariant: types, the queue accounts for every accepted
\* command, the router's table is exact and only negotiated UPDATEs were written.
THEOREM Inductive == Spec => []IndInv
<1>1. Init => IndInv
  <2> SUFFICES ASSUME Init PROVE IndInv
    OBVIOUS
  <2>1. Empty \in Table
    BY DEF Empty, Table, Value
  <2>2. <<>> \in Seq(Command) /\ Len(<<>>) = 0 /\ DOMAIN <<>> = {}
    OBVIOUS
  <2>3. TypeOK
    <3>1. call \in [Manager -> Command \cup {Idle}]
      BY DEF Init
    <3>2. commands \in Seq(Command) /\ Len(commands) <= Capacity
      BY <2>2 DEF Init
    <3>3. 0 \in 0..MaxFailures
      OBVIOUS
    <3>4. mute \in BOOLEAN /\ phase \in Phase /\ state \in {"Connecting", "Established"}
      BY Zenon DEF Init, Phase
    <3>5. QED
      BY <2>1, <3>1, <3>2, <3>3, <3>4 DEF Init, TypeOK
  <2>4. IntentPreserved
    BY <2>2 DEF Init, IntentPreserved
  <2>5. RibExact /\ OnlyNegotiated /\ SessionShape
    BY DEF Init, RibExact, OnlyNegotiated, SessionShape, Empty
  <2>6. QED
    BY <2>3, <2>4, <2>5 DEF IndInv
<1>2. IndInv /\ [Next]_vars => IndInv'
  <2> SUFFICES ASSUME IndInv, [Next]_vars PROVE IndInv'
    OBVIOUS
  <2>1. CASE \E m \in Manager : Accept(m)
    BY <2>1, AcceptPreserves
  <2>2. CASE Reconnect
    BY <2>2, ReconnectPreserves
  <2>3. CASE Confirm
    BY <2>3, ConfirmPreserves
  <2>4. CASE \E n \in Nlri : Reannounce(n)
    BY <2>4, ReannouncePreserves
  <2>5. CASE HandleCommand
    BY <2>5, HandleCommandPreserves
  <2>6. CASE \/ \E m \in Manager, c \in Command : Ask(m, c)
             \/ Wake \/ Connect \/ Mute
             \/ \E o \in PeerOpens : ReceiveOpen(o)
             \/ UNCHANGED vars
    BY <2>6, OtherStepsPreserve
  <2>7. QED
    BY <2>1, <2>2, <2>3, <2>4, <2>5, <2>6
       DEF Next, Handle, Task, Router, ConnectFails, ConfirmTimeout, HoldExpires,
           SessionLost, RejectOpen
<1>3. QED
  BY <1>1, <1>2, PTL DEF Spec

\* The state keeps its types, and the channel its bound.
THEOREM TypeCorrect == Spec => []TypeOK
BY Inductive, PTL DEF IndInv

\* No accepted command is lost, duplicated or reordered by drain_commands, by
\* reconnects or by the command loop.
THEOREM IntentAlwaysPreserved == Spec => []IntentPreserved
BY Inductive, PTL DEF IndInv

\* The router holds exactly the negotiated and re-announced part of the active
\* set, and nothing while the session is reported down.
THEOREM RibAlwaysExact == Spec => []RibExact
BY Inductive, PTL DEF IndInv

\* No command is lost between the managers and the router, and none is made up.
THEOREM SessionAlwaysExact == Spec => []SessionExact
BY IntentAlwaysPreserved, RibAlwaysExact, PTL DEF SessionExact

\* Capability gating (C3) covers announces, withdraws and re-announces.
THEOREM OnlyNegotiatedWritten == Spec => []OnlyNegotiated
BY Inductive, PTL DEF IndInv
=============================================================================
