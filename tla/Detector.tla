----------------------------- MODULE Detector ------------------------------
(***************************************************************************)
(* The volumetric detector, ThresholdDetector in                           *)
(* crates/blackwall-flow/src/detector.rs, as run_collector in              *)
(* collector_net.rs drives it: sFlow observations arrive at any time, a    *)
(* timer polls the detector.                                               *)
(*                                                                         *)
(* The detector compares the age of a sample with the window and the time  *)
(* since a destination was last over the threshold with the hold-down, and *)
(* never looks at an absolute time.  Both are ages that saturate at the    *)
(* value they are compared with.  The samples of a destination are a bag:  *)
(* their order is never used.  A rate is the total of the window, and the  *)
(* thresholds are given as totals of a window.                             *)
(***************************************************************************)
EXTENDS Integers, FiniteSets, Bags, BagsExt, PartialMaps

LOCAL INSTANCE FiniteSetsExt

CONSTANTS
    Dst,                  \* destination addresses
    Own,                  \* those inside the configured prefixes
    Observation,          \* the observations the POPs may send
    expected_sampling,    \* AgentRegistry: configured agent -> expected rate
    Window, HoldDown,     \* window_ms, hold_down_ms, in units of time
    PpsThreshold,         \* packets in a window
    BpsThreshold,         \* bytes in a window
    MinSamples,           \* min_samples
    ConfiguredFactor,     \* DetectorConfig.max_sampling_factor
    U32Max,               \* the largest sampling rate
    MaxSamples            \* bound on the samples of a destination

ASSUME OwnAssumption == Own \subseteq Dst
ASSUME WindowAssumption == Window \in Nat \ {0} /\ HoldDown \in Nat

VARIABLES
    state,     \* ThresholdDetector.state: destination -> DstState
    events     \* what the last tick returned

vars == <<state, events>>


(***************************************************************************)
(* The sampling clamp                                                      *)
(***************************************************************************)
saturating_mul(x, y) == Min({x * y, U32Max})

\* Mutant of max_sampling_factor: the configured value is used as it is.
Mutant_Unfloored == ConfiguredFactor

\* ThresholdDetector::new floors the factor.
max_sampling_factor == Max({ConfiguredFactor, 4})

\* A low rate is lifted to the expected one, a high one trusted up to a
\* ceiling; the rate of an agent that is not configured is taken as it is.
effective_rate(agent, rate) ==
    IF agent \notin DOMAIN expected_sampling THEN rate
    ELSE LET expected == expected_sampling[agent] IN
         IF rate < expected \div 4 THEN expected
         ELSE IF rate > saturating_mul(expected, 4)
              THEN Min({rate, saturating_mul(expected, max_sampling_factor)})
              ELSE rate

NewState == [samples |-> EmptyBag, open |-> FALSE, quiet |-> 0]

\* observe: a destination outside the prefixes is ignored.
observe(o) ==
    LET packets == effective_rate(o.agent, o.sampling_rate)
        sample  == [age |-> 0, agent |-> o.agent, packets |-> packets,
                    bytes |-> packets * o.frame_len]
        old     == IF o.dst \in DOMAIN state THEN state[o.dst] ELSE NewState
    IN  /\ o.dst \in Own
        /\ BagCardinality(old.samples) < MaxSamples
        /\ state' = Put(state, o.dst, [samples |-> BagAdd(old.samples, sample),
                                      open |-> old.open, quiet |-> old.quiet])
        /\ UNCHANGED events

(***************************************************************************)
(* The tick                                                                *)
(***************************************************************************)

\* The samples the eviction keeps.
Recent(b) == [s \in {x \in BagToSet(b) : x.age < Window} |-> b[s]]

total_packets(b) == MapThenSumSet(LAMBDA s : b[s] * s.packets, BagToSet(b))
total_bytes(b)   == MapThenSumSet(LAMBDA s : b[s] * s.bytes, BagToSet(b))

rate_over(b) == total_packets(b) > PpsThreshold \/ total_bytes(b) > BpsThreshold

over_threshold(b) ==
    b # EmptyBag /\ rate_over(b) /\ BagCardinality(b) >= MinSamples

\* Mutants of Outcome: a destination with no sample left is skipped; an open
\* detection is announced again instead of updated.
Mutant_SkipsEmpty(s) ==
    LET b == Recent(s.samples) IN
    CASE over_threshold(b) -> IF s.open THEN "Updated" ELSE "Opened"
      [] ~over_threshold(b) /\ s.open /\ s.quiet >= HoldDown /\ b # EmptyBag -> "Cleared"
      [] OTHER -> "None"

Mutant_ReOpens(s) ==
    LET b == Recent(s.samples) IN
    CASE over_threshold(b) -> "Opened"
      [] ~over_threshold(b) /\ s.open /\ s.quiet >= HoldDown -> "Cleared"
      [] OTHER -> "None"

\* What the tick decides for a destination in state s.
Outcome(s) ==
    LET b == Recent(s.samples) IN
    CASE over_threshold(b) -> IF s.open THEN "Updated" ELSE "Opened"
      [] ~over_threshold(b) /\ s.open /\ s.quiet >= HoldDown -> "Cleared"
      [] OTHER -> "None"

\* The state it leaves; only a cleared destination is forgotten.
Ticked(s) ==
    LET b == Recent(s.samples) IN
    IF over_threshold(b) THEN [samples |-> b, open |-> TRUE, quiet |-> 0]
                         ELSE [samples |-> b, open |-> s.open, quiet |-> s.quiet]

tick ==
    LET Have(kind) == {d \in DOMAIN state : Outcome(state[d]) = kind} IN
    /\ state' = [d \in DOMAIN state \ Have("Cleared") |-> Ticked(state[d])]
    /\ events' = {[kind |-> Outcome(state[d]), target |-> d] : d \in DOMAIN state \ Have("None")}

(***************************************************************************)
(* Time and restart                                                        *)
(***************************************************************************)
OlderSample(s) == [s EXCEPT !.age = Min({s.age + 1, Window})]

OlderBag(b) ==
    LET S == {OlderSample(s) : s \in BagToSet(b)} IN
    [x \in S |-> MapThenSumSet(LAMBDA s : b[s], {s \in BagToSet(b) : OlderSample(s) = x})]

Elapse ==
    /\ state' = [d \in DOMAIN state |->
                    [samples |-> OlderBag(state[d].samples), open |-> state[d].open,
                     quiet |-> IF state[d].open THEN Min({state[d].quiet + 1, HoldDown}) ELSE 0]]
    /\ UNCHANGED events

Restart == state' = EmptyMap /\ events' = {}
-----------------------------------------------------------------------------
Init == state = EmptyMap /\ events = {}

Next == (\E o \in Observation : observe(o)) \/ tick \/ Elapse \/ Restart

Spec == Init /\ [][Next]_vars

(***************************************************************************)
(* run_collector polls its interval in every round of its select!, and     *)
(* time passes.  Nothing is assumed of the observations.                   *)
(***************************************************************************)
FairSpec == Spec /\ WF_vars(tick) /\ WF_vars(Elapse)
-----------------------------------------------------------------------------
IsOpen(d) == d \in DOMAIN state /\ state[d].open

\* The volume a configured agent's sample stands for is within the trust band
\* around its expected rate whatever it reports and whatever factor was
\* configured: never below a quarter, and never above the floored ceiling.
EstimateInBand ==
    \A d \in DOMAIN state : \A s \in BagToSet(state[d].samples) :
        s.agent \in DOMAIN expected_sampling =>
            LET expected == expected_sampling[s.agent] IN
            /\ s.packets >= expected \div 4
            /\ s.packets <= expected * Max({ConfiguredFactor, 4})

\* When the observations of a destination stop, its detection is cleared: the
\* samples leave the window and the hold-down runs out also when no sample is
\* left to evaluate.
AttackEnds ==
    \A d \in Own :
        <>[][~\E o \in Observation : o.dst = d /\ observe(o)]_vars => <>[]~IsOpen(d)

Source == INSTANCE DetectionSource WITH open <- {d \in Dst : IsOpen(d)}

\* The detector implements the contract the planes rely on: per target Opened,
\* Updated, Cleared in that order, at most one event per tick.
ImplementsSource == Source!Spec
=============================================================================
