---------------------------- MODULE MCDetector -----------------------------
(***************************************************************************)
(* Instance of Detector for TLC: a configured POP and one that is not      *)
(* configured, two victims inside and a host outside the prefixes.  Rates  *)
(* lie below, in and above the trust band of an expected rate of 8.        *)
(***************************************************************************)
EXTENDS Detector

CONSTANTS pop, stranger, victim, victim2, outside

MCDst == {victim, victim2, outside}
MCOwn == {victim, victim2}

MCExpected == [x \in {pop} |-> 8]

Obs(a, d, r) == [agent |-> a, dst |-> d, sampling_rate |-> r, frame_len |-> 2]

\* Every class of reported rate for one victim, an ordinary rate for another and
\* for a host outside.
MCObservations ==
    {Obs(pop, victim, r) : r \in {0, 3, 33, 63}}
        \cup {Obs(stranger, victim, 5), Obs(pop, victim2, 8), Obs(pop, outside, 8)}
=============================================================================
