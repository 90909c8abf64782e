----------------------------- MODULE Selection -----------------------------
(***************************************************************************)
(* What the detector reports of an attack and what becomes of it:          *)
(* build_detection (crates/blackwall-flow/src/detector.rs) attributes the  *)
(* samples of the window to protocols, ports, sources and points of        *)
(* presence, and select (select.rs) chooses between FlowSpec drop rules    *)
(* for the heaviest ports and an RTBH blackhole of the whole address.      *)
(*                                                                         *)
(* A weight is an estimated number of packets in the window; the code      *)
(* divides it by the window to get packets per second.  The configured     *)
(* concentration is a fraction between 0 and 1, here in tenths.            *)
(***************************************************************************)
EXTENDS Integers, Sequences, SequencesExt

CONSTANTS
    WindowSample,    \* samples a window can hold: records [src, block, dst_port,
                     \* proto, agent, est_packets, est_bytes]
    PpsThreshold,    \* thresholds, in packets and bytes per window
    BpsThreshold,
    WindowSecs,      \* the window in seconds
    Concentration,   \* SelectionConfig.concentration, in tenths
    MaxFlows         \* SelectionConfig.max_flows

ASSUME SelectionAssumption ==
    /\ Concentration \in 0..10 /\ MaxFlows \in Nat \ {0} /\ WindowSecs \in Nat \ {0}
    /\ PpsThreshold \in Nat \ {0} /\ BpsThreshold \in Nat \ {0}

VARIABLES
    samples,     \* the samples of the window, for one destination
    detection,   \* what build_detection made of them, or <<>>
    mitigation   \* the decision, before it is taken "none"

selectionVars == <<samples, detection, mitigation>>

FlowSpec(proto, ports) == [kind |-> "FlowSpec", proto |-> proto, ports |-> ports]
Rtbh                   == [kind |-> "Rtbh", proto |-> 0, ports |-> {}]
Undecided              == [kind |-> "none", proto |-> 0, ports |-> {}]

Packets(S) == FoldFunction(LAMBDA s, sum : sum + s.est_packets, 0, [s \in S |-> s])
Octets(S)  == FoldFunction(LAMBDA s, sum : sum + s.est_bytes, 0, [s \in S |-> s])

\* The samples of S with value v in a field, and the values there are.
With(f, v) == {s \in samples : s[f] = v}
Values(f)  == {s[f] : s \in samples}

\* The n heaviest values of a field, heaviest first.  Values of equal weight come
\* in the order a HashMap yields them, which is any order.
Heaviest(f, n) ==
    LET V == Values(f)
        k == IF Cardinality(V) < n THEN Cardinality(V) ELSE n
    IN  {q \in [1..k -> V] :
            /\ IsInjective(q)
            /\ \A i, j \in DOMAIN q : i < j => Packets(With(f, q[i])) >= Packets(With(f, q[j]))
            /\ \A v \in V \ ToSet(q), i \in DOMAIN q :
                    Packets(With(f, q[i])) >= Packets(With(f, v))}

\* The protocol with the most packets; any of them when there are several.
DominantProto == {q[1] : q \in Heaviest("proto", 1)}

\* The /24 or /48 of a source: the leading digits of the number that stands for it.
source_block(src) == src \div 10

\* Every agent with its packets and bytes; build_detection names them.
pops == [a \in Values("agent") |->
            [pps |-> Packets(With("agent", a)), bps |-> Octets(With("agent", a))]]

\* The larger of the two ratios to the thresholds.
AtLeast(n) == Packets(samples) >= n * PpsThreshold \/ Octets(samples) >= n * BpsThreshold
severity   == IF AtLeast(10) THEN "Critical" ELSE IF AtLeast(2) THEN "High" ELSE "Warning"

build_detection(proto, ports, sources, blocks) ==
    [proto |-> proto, top_ports |-> ports, top_sources |-> sources, top_source_blocks |-> blocks,
     pops |-> pops, severity |-> severity, pps |-> Packets(samples), bps |-> Octets(samples)]

\* The packets of the first n ports of q.
cumulative(q, n) == Packets({s \in samples : s.dst_port \in ToSet(SubSeq(q, 1, n))})

\* cumulative >= concentration, the sum in packets per second.
Enough(q, n) == 10 * cumulative(q, n) >= Concentration * WindowSecs


\* The ports select goes through, and how many of them it may choose.
Candidates(top) ==
    LET ports == SelectSeq(top, LAMBDA p : p # 0) IN
    [ports |-> ports, lengths |-> 1 .. (IF Len(ports) < MaxFlows THEN Len(ports) ELSE MaxFlows)]

\* select: the shortest prefix of the top ports that is enough, if there is one.
select(d) ==
    LET c  == Candidates(d.top_ports)
        ok == {n \in c.lengths : Enough(c.ports, n)}
    IN  IF d.proto = 0 \/ ok = {} THEN Rtbh
        ELSE LET n == CHOOSE m \in ok : \A k \in ok : m <= k
             IN  FlowSpec(d.proto, ToSet(SubSeq(c.ports, 1, n)))

\* The tick builds a detection when the window is over one of the thresholds.
Open ==
    /\ detection = <<>>
    /\ Packets(samples) > PpsThreshold \/ Octets(samples) > BpsThreshold
    /\ \E proto \in DominantProto, ports \in Heaviest("dst_port", 3),
          sources \in Heaviest("src", 3), blocks \in Heaviest("block", 5) :
            detection' = <<build_detection(proto, ports, sources, blocks)>>
    /\ UNCHANGED <<samples, mitigation>>

Decide ==
    /\ detection # <<>> /\ mitigation = Undecided
    /\ mitigation' = select(detection[1])
    /\ UNCHANGED <<samples, detection>>

SelectionIdle == samples = {} /\ detection = <<>> /\ mitigation = Undecided

\* A window full of samples, each sample at most once.
Fill ==
    /\ SelectionIdle
    /\ samples' \in SUBSET WindowSample
    /\ UNCHANGED <<detection, mitigation>>

\* The next window.
Slide ==
    /\ samples # {}
    /\ samples' = {} /\ detection' = <<>> /\ mitigation' = Undecided

SelectionStep == Fill \/ Open \/ Decide \/ Slide
-----------------------------------------------------------------------------
\* max_flows ports or fewer carry the configured share of the attack.
Concentrated ==
    \E P \in SUBSET (Values("dst_port") \ {0}) :
        /\ Cardinality(P) <= MaxFlows
        /\ 10 * Packets({s \in samples : s.dst_port \in P}) >= Concentration * Packets(samples)


\* "FlowSpec is chosen only when a small set (<= max_flows) of the top destination
\* ports carries at least concentration of the flow" (the doc of select).
ShareDecides ==
    mitigation.kind = "FlowSpec" =>
        10 * Packets({s \in samples : s.dst_port \in mitigation.ports})
            >= Concentration * Packets(samples)
=============================================================================
