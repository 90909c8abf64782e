-------------------------- MODULE DetectorProofs ---------------------------
(***************************************************************************)
(* The detector implements the contract of DetectionSource, for every      *)
(* window, hold-down, threshold, gate and set of observations.             *)
(***************************************************************************)
EXTENDS Detector, TLAPS

\* The targets with an open detection: the refinement mapping.
OpenSet == {d \in Dst : IsOpen(d)}

\* Only monitored destinations have a state.
Monitored == DOMAIN state \subseteq Own

\* What a tick decides for a destination, against its open flag.
LEMMA OutcomeCases ==
    ASSUME NEW s
    PROVE  /\ Outcome(s) \in {"Opened", "Updated", "Cleared", "None"}
           /\ Outcome(s) = "Opened" => ~s.open /\ Ticked(s).open
           /\ Outcome(s) = "Updated" => s.open /\ Ticked(s).open
           /\ Outcome(s) = "Cleared" => s.open
           /\ Outcome(s) = "None" => Ticked(s).open = s.open
<1> DEFINE over == over_threshold(Recent(s.samples))
           due  == ~over /\ s.open /\ s.quiet >= HoldDown
<1>1. Outcome(s) = CASE over -> IF s.open THEN "Updated" ELSE "Opened"
                     [] due -> "Cleared"
                     [] OTHER -> "None"
  BY DEF Outcome
<1>2. Ticked(s) = IF over
                  THEN [samples |-> Recent(s.samples), open |-> TRUE, quiet |-> 0]
                  ELSE [samples |-> Recent(s.samples), open |-> s.open, quiet |-> s.quiet]
  BY DEF Ticked
<1>3. /\ over => Ticked(s).open = TRUE
      /\ ~over => Ticked(s).open = s.open
  <2> HIDE DEF over
  <2>1. CASE over
    <3>1. Ticked(s) = [samples |-> Recent(s.samples), open |-> TRUE, quiet |-> 0]
      BY <1>2, <2>1
    <3> QED BY <2>1, <3>1
  <2>2. CASE ~over
    <3>1. Ticked(s) = [samples |-> Recent(s.samples), open |-> s.open, quiet |-> s.quiet]
      BY <1>2, <2>2
    <3> QED BY <2>2, <3>1
  <2> QED BY Zenon, <2>1, <2>2
<1> HIDE DEF over
<1>4. CASE over
  <2>1. Outcome(s) = IF s.open THEN "Updated" ELSE "Opened"
    BY <1>1, <1>4
  <2> QED BY <2>1, <1>3, <1>4
<1>5. CASE ~over
  <2>1. Outcome(s) = IF due THEN "Cleared" ELSE "None"
    BY <1>1, <1>5
  <2> QED BY <2>1, <1>3, <1>5
<1> QED BY <1>4, <1>5

\* Only destinations inside the prefixes are ever given a state.
LEMMA MonitoredInvariant == Spec => []Monitored
<1>1. Init => Monitored
  BY DEF Init, Monitored, EmptyMap
<1>2. Monitored /\ [Next]_vars => Monitored'
  <2> SUFFICES ASSUME Monitored, [Next]_vars PROVE Monitored'
    OBVIOUS
  <2>1. ASSUME NEW o \in Observation, observe(o) PROVE Monitored'
    BY <2>1 DEF observe, Monitored, Put
  <2>2. CASE tick
    BY <2>2 DEF tick, Monitored
  <2>3. CASE Elapse
    BY <2>3 DEF Elapse, Monitored
  <2>4. CASE Restart
    BY <2>4 DEF Restart, Monitored, EmptyMap
  <2>5. CASE UNCHANGED vars
    BY <2>5 DEF vars, Monitored
  <2> QED BY SMTT(30), <2>1, <2>2, <2>3, <2>4, <2>5 DEF Next
<1> QED BY <1>1, <1>2, PTL DEF Spec

\* A tick is a poll of the contract.
LEMMA TickIsPoll ==
    ASSUME Monitored, tick
    PROVE  \E O, U, C \in SUBSET Dst : Source!Poll(O, U, C)
<1> DEFINE Have(kind) == {d \in DOMAIN state : Outcome(state[d]) = kind}
<1>1. DOMAIN state \subseteq Dst
  BY OwnAssumption DEF Monitored
<1>2. /\ Have("Opened") \in SUBSET Dst
      /\ Have("Updated") \in SUBSET Dst
      /\ Have("Cleared") \in SUBSET Dst
  BY <1>1
<1>3. Have("Opened") \cap OpenSet = {}
  BY OutcomeCases DEF OpenSet, IsOpen
<1>4. Have("Updated") \cup Have("Cleared") \subseteq OpenSet
  BY <1>1, OutcomeCases DEF OpenSet, IsOpen
<1>5. Have("Updated") \cap Have("Cleared") = {}
  OBVIOUS
<1>6. /\ DOMAIN state' = DOMAIN state \ Have("Cleared")
      /\ \A d \in DOMAIN state' : state'[d] = Ticked(state[d])
  BY DEF tick
<1>7. OpenSet' = (OpenSet \cup Have("Opened")) \ Have("Cleared")
  <2> SUFFICES ASSUME NEW d \in Dst
               PROVE  IsOpen(d)' <=> (IsOpen(d) \/ d \in Have("Opened")) /\ d \notin Have("Cleared")
    BY <1>1 DEF OpenSet
  <2>1. CASE d \notin DOMAIN state
    BY <2>1, <1>6 DEF IsOpen
  <2>2. CASE d \in Have("Cleared")
    BY <2>2, <1>6 DEF IsOpen
  <2>3. CASE d \in DOMAIN state /\ d \notin Have("Cleared")
    <3>1. IsOpen(d)' <=> Ticked(state[d]).open
      BY <2>3, <1>6 DEF IsOpen
    <3>2. IsOpen(d) <=> state[d].open
      BY <2>3 DEF IsOpen
    <3>3. Outcome(state[d]) \in {"Opened", "Updated", "None"}
      BY <2>3, OutcomeCases
    <3> QED BY SMTT(30), <2>3, <3>1, <3>2, <3>3, OutcomeCases
  <2> QED BY <2>1, <2>2, <2>3
<1>8. events' = Source!Event("Opened", Have("Opened"))
                \cup Source!Event("Updated", Have("Updated"))
                \cup Source!Event("Cleared", Have("Cleared"))
  <2>1. events' = {[kind |-> Outcome(state[d]), target |-> d] : d \in DOMAIN state \ Have("None")}
    BY DEF tick
  <2>2. \A d \in DOMAIN state : Outcome(state[d]) \in {"Opened", "Updated", "Cleared", "None"}
    BY OutcomeCases
  <2> QED BY <2>1, <2>2 DEF Source!Event
<1>9. Source!Poll(Have("Opened"), Have("Updated"), Have("Cleared"))
  <2> HIDE DEF Have
  <2> QED BY SMTT(30), <1>3, <1>4, <1>5, <1>7, <1>8 DEF Source!Poll, OpenSet
<1> HIDE DEF Have
<1> QED BY <1>2, <1>9

\* Every step of the detector is a step of the contract or changes nothing there.
LEMMA StepRefines ==
    Monitored /\ [Next]_vars => [Source!Next]_Source!vars
<1> SUFFICES ASSUME Monitored, [Next]_vars PROVE Source!Next \/ UNCHANGED Source!vars
  BY DEF Source!vars
<1>1. ASSUME NEW o \in Observation, observe(o) PROVE UNCHANGED Source!vars
  <2>1. OpenSet' = OpenSet
    <3> SUFFICES ASSUME NEW d \in Dst PROVE IsOpen(d)' <=> IsOpen(d)
      BY DEF OpenSet
    <3> DEFINE old == IF o.dst \in DOMAIN state THEN state[o.dst] ELSE NewState
    <3>1. PICK b : state' = Put(state, o.dst, [samples |-> b, open |-> old.open, quiet |-> old.quiet])
      BY Zenon, <1>1 DEF observe
    <3>2. CASE d # o.dst
      BY <3>1, <3>2 DEF IsOpen, Put
    <3>3. CASE d = o.dst
      <4>1. d \in DOMAIN state' /\ (state'[d]).open = old.open
        BY <3>1, <3>3 DEF Put
      <4>2. CASE d \in DOMAIN state
        BY <4>1, <4>2, <3>3 DEF IsOpen
      <4>3. CASE d \notin DOMAIN state
        BY SMTT(30), <4>1, <4>3, <3>3 DEF IsOpen, NewState
      <4> QED BY <4>2, <4>3
    <3> QED BY <3>2, <3>3
  <2> QED BY <2>1, <1>1 DEF observe, Source!vars, OpenSet
<1>2. CASE tick
  BY <1>2, TickIsPoll DEF Source!Next
<1>3. CASE Elapse
  <2>1. OpenSet' = OpenSet
    BY <1>3 DEF Elapse, OpenSet, IsOpen
  <2> QED BY <2>1, <1>3 DEF Elapse, Source!vars, OpenSet
<1>4. CASE Restart
  BY <1>4 DEF Restart, Source!Next, Source!Restart, IsOpen, EmptyMap
<1>5. CASE UNCHANGED vars
  BY <1>5 DEF vars, Source!vars, IsOpen
<1> QED BY SMTT(30), <1>1, <1>2, <1>3, <1>4, <1>5 DEF Next

\* ImplementsSource for every instance: whatever the observations, the window,
\* the hold-down and the gate, a target's events are Opened, Updated and Cleared
\* in that order, and a tick returns at most one for a target.
THEOREM DetectorImplementsSource == Spec => ImplementsSource
<1>1. Init => Source!Init
  BY DEF Init, Source!Init, IsOpen, EmptyMap
<1> QED BY <1>1, MonitoredInvariant, StepRefines, PTL DEF Spec, Source!Spec, ImplementsSource
=============================================================================
