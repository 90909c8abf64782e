----------------------------- MODULE Observers ------------------------------
(***************************************************************************)
(* The two tasks of `blackwalld flow` that only watch and log: the RPKI     *)
(* cross-check of blackwall-rpki (rpki_check_task) and bgp_supervisor.      *)
(* Both log changes only, so what the operator reads last has to stay      *)
(* true: the properties are about the last message on each subject.        *)
(***************************************************************************)
EXTENDS Integers, Sequences, FiniteSets, SequencesExt

CONSTANTS
    Listed,      \* policy.prefixes followed by policy.protected_prefixes
    NetworkOf    \* the network address of each prefix

ASSUME ObserversAssumption ==
    \A i \in DOMAIN Listed : Listed[i] \in DOMAIN NetworkOf

VARIABLES
    roa,         \* what the validator would answer for each host route
    check,       \* rpki_check_task: the pass under way, what it knows, its gauges
    told,        \* the last message logged about the validator and each host route, and
                 \* (history) whether one about a route said the same as the one before
    bgp          \* the session's watch channel, bgp_supervisor and its last message

observerVars == <<roa, check, told, bgp>>

RpkiState == {"valid", "invalid", "not-found"}

\* host_more_specific: the /32 or /128 at the prefix's network address, so prefixes
\* of different lengths may share it.
host_more_specific(net) == NetworkOf[net]

Hosts == {host_more_specific(Listed[i]) : i \in DOMAIN Listed}

\* spawn_rpki_check_task: each listed prefix once, in the order it is first listed.
Checked ==
    LET first == {i \in DOMAIN Listed : \A j \in 1..(i - 1) : Listed[j] # Listed[i]}
        order == SetToSortSeq(first, <)
    IN  [k \in DOMAIN order |-> Listed[order[k]]]

\* A body with a state that is not one of the three is a parse error, and so is one
\* without the path to it.
classify(state) == IF state \in RpkiState THEN state ELSE "error"

ObserversInit ==
    /\ roa = [h \in Hosts |-> "valid"]
    /\ check = [results |-> <<>>, up |-> TRUE, known |-> <<>>, uncovered |-> 0]
    /\ told = [validator |-> "up", route |-> [h \in Hosts |-> "valid"], repeated |-> FALSE]
    /\ bgp = [state |-> "Idle", changed |-> FALSE, established |-> FALSE, message |-> "none"]

\* The published ROAs change, or the validator starts to answer in another format.
RoaChanges(h, s) ==
    /\ roa' = [roa EXCEPT ![h] = s]
    /\ UNCHANGED <<check, told, bgp>>

\* check_once, one prefix: fetch_validity fails or its body is classified.
Fetch ==
    /\ Len(check.results) < Len(Checked)
    /\ LET h == host_more_specific(Checked[Len(check.results) + 1])
       IN  \E outcome \in {"error", classify(roa[h])} :
             check' = [check EXCEPT !.results = Append(@, <<h, outcome>>)]
    /\ UNCHANGED <<roa, told, bgp>>

Bad(state) == state \in {"invalid", "not-found"}

\* aggregate_report: the classified results, and whether there was one; a pass over
\* no prefix finds the validator up.
per_prefix(results) == SelectSeq(results, LAMBDA r : r[2] # "error")

validator_up(results) == results = <<>> \/ per_prefix(results) # <<>>

\* The state a host route was last seen in, "none" before the first.
Prev(known, h) == IF h \in DOMAIN known THEN known[h] ELSE "none"

\* Mutant: a warning is repeated only after a recovery.
Mutant_WarnsOncePerOutage(known, h, state) ==
    Bad(state) /\ ~Bad(Prev(known, h))

\* RpkiWarnState::observe_prefix: warn of a bad state that is not the last one.
observe_prefix(known, h, state) ==
    Bad(state) /\ Prev(known, h) # state

\* One classified result: a warning, the note of a recovery, or silence.
Noted(acc, r) ==
    LET h == r[1]  state == r[2]
        speaks == \/ observe_prefix(acc.known, h, state)
                  \/ Bad(Prev(acc.known, h)) /\ state = "valid"
    IN  [known |-> [x \in DOMAIN acc.known \cup {h} |-> IF x = h THEN state ELSE acc.known[x]],
         route |-> IF speaks THEN [acc.route EXCEPT ![h] = state] ELSE acc.route,
         repeated |-> acc.repeated \/ (speaks /\ acc.route[h] = state)]

\* The rest of a pass, which awaits nothing: the validator's change is logged, then
\* each result, then the gauges are stored.
EndPass ==
    /\ Len(check.results) = Len(Checked)
    /\ LET up    == validator_up(check.results)
           seen  == per_prefix(check.results)
           notes == FoldLeft(Noted, [known |-> check.known, route |-> told.route,
                                    repeated |-> told.repeated], seen)
       IN  /\ check' = [results |-> <<>>, up |-> up, known |-> notes.known,
                        uncovered |-> Len(SelectSeq(seen, LAMBDA r : Bad(r[2])))]
           /\ told' = [validator |-> CASE check.up /\ ~up -> "down"
                                       [] ~check.up /\ up -> "up"
                                       [] OTHER -> told.validator,
                       route |-> notes.route, repeated |-> notes.repeated]
    /\ UNCHANGED <<roa, bgp>>

\* The session task publishes a state, Connecting at the start and after every
\* attempt that failed; a watch channel keeps the newest only.
Transition(s) ==
    /\ s = "Established" => bgp.state = "Connecting"
    /\ bgp' = [bgp EXCEPT !.state = s, !.changed = TRUE]
    /\ UNCHANGED <<roa, check, told>>

\* The supervisor's flag after it has seen the state.
Established(state) ==
    state = "Established"

\* bgp_supervisor: the newest state is looked at once.
Observe ==
    /\ bgp.changed
    /\ bgp' = [bgp EXCEPT
           !.changed = FALSE,
           !.established = Established(bgp.state),
           !.message = CASE ~bgp.established /\ bgp.state = "Established" -> "established"
                         [] bgp.established /\ bgp.state # "Established" -> "down"
                         [] OTHER -> @]
    /\ UNCHANGED <<roa, check, told>>

RpkiNext ==
    \/ \E h \in Hosts, s \in RpkiState \cup {"unknown"} : RoaChanges(h, s)
    \/ Fetch \/ EndPass

SupervisorNext ==
    \/ \E s \in {"Connecting", "Established"} : Transition(s)
    \/ Observe

-----------------------------------------------------------------------------

\* The last message about a subject is true of what the daemon last saw of it: a
\* host route last warned of is the one whose last classification is bad, with that
\* state, whatever the failed fetches, passes and recoveries in between, and also
\* when two prefixes share it, and no message about it repeats the one before; the
\* validator is last reported down exactly when the last pass reached it for no
\* prefix; and once the supervisor has looked, the BGP session was last reported
\* established exactly when it is (rpki_check_task, RpkiWarnState, bgp_supervisor).
OperatorInformed ==
    /\ \A h \in DOMAIN check.known : told.route[h] = check.known[h]
    /\ ~told.repeated
    /\ told.validator = "up" <=> check.up
    /\ ~bgp.changed => (bgp.message = "established" <=> bgp.state = "Established")
=============================================================================
