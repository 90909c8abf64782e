--------------------------- MODULE XdpController ---------------------------
(***************************************************************************)
(* The decision core of the on-box plane                                   *)
(* (crates/blackwall-xdp/src/control.rs).  Attackers' sources are rate     *)
(* limited on behalf of the victims they attack; networks are blocked by   *)
(* operators only.  rate_limited and blocked_nets are one map here, active,*)
(* over sources and networks: they share the cap and every life-cycle.     *)
(* by_target remembers for which victims a source is limited, so that it   *)
(* is released with the last of them.                                      *)
(***************************************************************************)
EXTENDS PartialMaps, Naturals, FiniteSets, Sequences

CONSTANTS
    Victim,       \* attacked addresses
    Source,       \* attacking addresses
    Net,          \* networks an operator may block
    Rate,         \* rate limits (pps and burst)
    DefaultRate,  \* default_rate_pps
    NoRate,       \* the rate of a blocked network
    NoVictim,     \* victim: None
    MaxEntries    \* max_entries

ASSUME SetsAssumption ==
    /\ Source \cap Net = {}
    /\ DefaultRate \in Rate /\ NoRate \notin Rate /\ NoVictim \notin Victim
    /\ MaxEntries \in Nat

Item   == Source \cup Net
Origin == {"Auto", "Manual"}

\* RateLimitEntry, or a blocked network.
Entry == [origin : Origin, pps : Rate \cup {NoRate}, victim : Victim \cup {NoVictim}]

AutoEntry(v)    == [origin |-> "Auto", pps |-> DefaultRate, victim |-> v]
ManualEntry(pps) == [origin |-> "Manual", pps |-> pps, victim |-> NoVictim]

\* at_capacity.
AtCap(a) == Cardinality(DOMAIN a) >= MaxEntries

(***************************************************************************)
(* handle_detection: the top sources are walked in order.  One that is     *)
(* limited already only gains the victim; the walk ends at the first new   *)
(* one that finds the map at its cap.                                      *)
(***************************************************************************)
FirstSources(ts, n) == {ts[i] : i \in 1..n}

Walked(a, ts) ==
    UNION {FirstSources(ts, n) : n \in {m \in 0..Len(ts) :
        \/ FirstSources(ts, m) \subseteq DOMAIN a
        \/ Cardinality(DOMAIN a \cup FirstSources(ts, m)) <= MaxEntries}}

(***************************************************************************)
(* handle_cleared: a source goes with its last victim, unless an operator  *)
(* owns it.                                                                *)
(***************************************************************************)

\* Mutant of Released: a source shared with another victim goes too.
Mutant_ReleasesShared(a, bt, v) == {s \in bt[v] \cap DOMAIN a : a[s].origin = "Auto"}

\* Mutant of Released: an operator's limit goes too.
Mutant_ReleasesManual(a, bt, v) ==
    {s \in bt[v] \cap DOMAIN a : \A u \in Victim \ {v} : s \notin bt[u]}

Released(a, bt, v) ==
    {s \in bt[v] \cap DOMAIN a :
        a[s].origin = "Auto" /\ \A u \in Victim \ {v} : s \notin bt[u]}

\* manual_clear_rate, on by_target.
Forgotten(bt, S) == [v \in Victim |-> bt[v] \ S]

\* Mutant of Resumed: the victims of the rows are not restored.
Mutant_ForgetsVictims(rows) == [v \in Victim |-> {}]

\* mark_resumed of every row: each limit is known for the one victim of its row.
Resumed(rows) == [v \in Victim |-> {s \in Source \cap DOMAIN rows : rows[s].victim = v}]
=============================================================================
