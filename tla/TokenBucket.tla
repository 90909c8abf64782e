---------------------------- MODULE TokenBucket ----------------------------
(***************************************************************************)
(* The token bucket of the XDP program: over_rate for one source on one    *)
(* CPU, tx_budget_ok for the SYN-cookie budget of one CPU.  Both refill by *)
(* the time since the last call, in whole tokens, and set the time of the  *)
(* last call to now also when less than a token was due.                   *)
(***************************************************************************)
EXTENDS Integers

CONSTANTS Second,    \* NS_PER_SEC: ticks of the clock in a second
          Word       \* 2^64: what wrapping_mul wraps at

ASSUME BucketAssumption == Second \in Nat \ {0} /\ Word \in Nat \ {0}

Monus(m, n) == IF m > n THEN m - n ELSE 0
Least(m, n) == IF m < n THEN m ELSE n

\* RateBucket and TxBucket; the burst of a TxBucket follows from its rate.
Bucket == [tokens : Nat, last : Nat, rate : Nat, burst : Nat]

\* A bucket as user space writes it: last_ns is 0, the time of the boot.
Seeded(tokens, rate, burst) == [tokens |-> tokens, last |-> 0, rate |-> rate, burst |-> burst]

\* elapsed_ns.wrapping_mul(rate_pps) / NS_PER_SEC
Refill(b, t) == ((Monus(t, b.last) * b.rate) % Word) \div Second

Credit(b, t) == Least(b.tokens + Refill(b, t), b.burst)

\* The bucket after a call at time t: one token less, if there is one.
Take(b, t) == [tokens |-> Monus(Credit(b, t), 1), last |-> t, rate |-> b.rate, burst |-> b.burst]

(***************************************************************************)
(* What a bucket let through, as history: how many, and since when.        *)
(***************************************************************************)
Meter == [n : Nat, from : Nat]
Unused == [n |-> 0, from |-> 0]
Metered(m, t) == [n |-> m.n + 1, from |-> IF m.n = 0 THEN t ELSE m.from]

\* No more than a burst, and the rate for the time since the first.
Within(m, rate, burst, t) ==
    m.n > 0 => Second * m.n <= Second * burst + rate * (t - m.from)
=============================================================================
