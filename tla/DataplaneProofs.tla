-------------------------- MODULE DataplaneProofs --------------------------
(***************************************************************************)
(* The three guarantees of the data plane, for every number of CPUs,       *)
(* clients and ports, every rate and burst, every word and slot length:    *)
(* the budgets hold, and the two tiers complete each other's handshakes.   *)
(***************************************************************************)
EXTENDS Dataplane, TLAPS

(***************************************************************************)
(* Token buckets.                                                          *)
(***************************************************************************)
LEMMA DivBound ==
    ASSUME NEW x \in Nat, NEW d \in Nat \ {0}
    PROVE  x \div d \in Nat /\ d * (x \div d) <= x
  OBVIOUS

LEMMA ModBound ==
    ASSUME NEW x \in Nat, NEW d \in Nat \ {0}
    PROVE  x % d \in Nat /\ x % d <= x
  OBVIOUS

LEMMA RateSplits ==
    ASSUME NEW r \in Nat, NEW x \in Nat, NEW y \in Nat, NEW z \in Nat, x <= y, y <= z
    PROVE  /\ r * (z - x) = r * (y - x) + (z - y) * r
           /\ r * (y - x) \in Nat /\ (z - y) * r \in Nat
  OBVIOUS

LEMMA Scaled ==
    ASSUME NEW r \in Nat, NEW x \in Nat, NEW y \in Nat
    PROVE  r * (x + y) = r * x + r * y /\ r * x \in Nat /\ (x <= y => r * x <= r * y)
  OBVIOUS

\* The refill is no more than the rate for the time that passed, although the
\* product wraps and the quotient is cut off.
LEMMA RefillBound ==
    ASSUME NEW b \in Bucket, NEW t \in Nat, b.last <= t
    PROVE  Refill(b, t) \in Nat /\ Second * Refill(b, t) <= (t - b.last) * b.rate
<1> DEFINE x == (t - b.last) * b.rate
<1>1. b.last \in Nat /\ b.rate \in Nat
  BY DEF Bucket
<1>2. x \in Nat
  BY <1>1
<1>3. Monus(t, b.last) = t - b.last
  BY <1>1 DEF Monus
<1>4. Refill(b, t) = (x % Word) \div Second
  BY <1>3 DEF Refill
<1> HIDE DEF x
<1>5. x % Word \in Nat /\ x % Word <= x
  BY <1>2, ModBound, BucketAssumption
<1>6. Refill(b, t) \in Nat /\ Second * Refill(b, t) <= x % Word
  BY <1>4, <1>5, DivBound, BucketAssumption
<1> QED BY <1>2, <1>5, <1>6, BucketAssumption DEF x

\* What ties a bucket to what it let through.
Tied(m, b) ==
    m.n > 0 => /\ m.from <= b.last
               /\ Second * (m.n + b.tokens) <= Second * b.burst + b.rate * (b.last - m.from)

LEMMA TakeKeepsType ==
    ASSUME NEW b \in Bucket, NEW t \in Nat, b.last <= t
    PROVE  /\ Credit(b, t) \in Nat /\ Credit(b, t) <= b.burst
           /\ Credit(b, t) <= b.tokens + Refill(b, t)
           /\ Take(b, t) \in Bucket
           /\ Take(b, t).rate = b.rate /\ Take(b, t).burst = b.burst /\ Take(b, t).last = t
           /\ Take(b, t).tokens = Monus(Credit(b, t), 1)
<1>1. b.tokens \in Nat /\ b.burst \in Nat /\ b.rate \in Nat
  BY DEF Bucket
<1>2. /\ Credit(b, t) \in Nat /\ Credit(b, t) <= b.burst
      /\ Credit(b, t) <= b.tokens + Refill(b, t)
  BY <1>1, RefillBound DEF Credit, Least
<1>3. Monus(Credit(b, t), 1) \in Nat
  BY <1>2 DEF Monus
<1> QED BY <1>1, <1>2, <1>3 DEF Take, Bucket

\* A call keeps the tie, whether or not what it let through is counted.
LEMMA TakeKeepsTied ==
    ASSUME NEW b \in Bucket, NEW m \in Meter, NEW t \in Nat, b.last <= t, Tied(m, b)
    PROVE  /\ Tied(m, Take(b, t))
           /\ Credit(b, t) > 0 => Tied(Metered(m, t), Take(b, t))
<1> DEFINE c == Credit(b, t)
           r == Refill(b, t)
           k == Monus(c, 1)
<1>1. /\ b.tokens \in Nat /\ b.burst \in Nat /\ b.rate \in Nat /\ b.last \in Nat
      /\ m.n \in Nat /\ m.from \in Nat
  BY DEF Bucket, Meter
<1>2. /\ c \in Nat /\ c <= b.burst /\ c <= b.tokens + r
      /\ Take(b, t).rate = b.rate /\ Take(b, t).burst = b.burst /\ Take(b, t).last = t
      /\ Take(b, t).tokens = k
  BY TakeKeepsType
<1>3. r \in Nat /\ Second * r <= (t - b.last) * b.rate
  BY RefillBound
<1>4. k \in Nat /\ k <= c /\ (c > 0 => k + 1 = c)
  BY <1>2 DEF Monus
<1> HIDE DEF c, r, k
<1>5. Second \in Nat
  BY BucketAssumption
<1>6. ASSUME m.n > 0
      PROVE  /\ m.from <= t
             /\ Second * (m.n + c) <= Second * b.burst + b.rate * (t - m.from)
  <2>1. /\ m.from <= b.last
        /\ Second * (m.n + b.tokens) <= Second * b.burst + b.rate * (b.last - m.from)
    BY <1>6 DEF Tied
  <2>2. /\ b.rate * (t - m.from) = b.rate * (b.last - m.from) + (t - b.last) * b.rate
        /\ b.rate * (b.last - m.from) \in Nat /\ (t - b.last) * b.rate \in Nat
    BY <1>1, <2>1, RateSplits
  <2>3. /\ Second * (m.n + c) <= Second * ((m.n + b.tokens) + r)
        /\ Second * ((m.n + b.tokens) + r) = Second * (m.n + b.tokens) + Second * r
    BY <1>1, <1>2, <1>3, <1>5, Scaled
  <2>4. /\ Second * (m.n + c) \in Nat /\ Second * (m.n + b.tokens) \in Nat /\ Second * r \in Nat
        /\ Second * b.burst \in Nat
    BY <1>1, <1>2, <1>3, <1>5, Scaled
  <2> QED BY <1>1, <1>3, <2>1, <2>2, <2>3, <2>4
<1>7. Tied(m, Take(b, t))
  <2> SUFFICES ASSUME m.n > 0
               PROVE  /\ m.from <= t
                      /\ Second * (m.n + k) <= Second * b.burst + b.rate * (t - m.from)
    BY <1>2 DEF Tied
  <2>1. /\ Second * (m.n + k) <= Second * (m.n + c)
        /\ Second * (m.n + k) \in Nat /\ Second * (m.n + c) \in Nat /\ Second * b.burst \in Nat
    BY <1>1, <1>2, <1>4, <1>5, Scaled
  <2>2. b.rate * (t - m.from) \in Int
    BY <1>1
  <2> QED BY <1>6, <2>1, <2>2
<1>8. ASSUME c > 0 PROVE Tied(Metered(m, t), Take(b, t))
  <2>1. /\ Metered(m, t).n = m.n + 1
        /\ Metered(m, t).from = IF m.n = 0 THEN t ELSE m.from
    BY DEF Metered
  <2>2. (m.n + 1) + k = m.n + c
    BY <1>1, <1>2, <1>4, <1>8
  <2>3. CASE m.n = 0
    <3>1. Second * c <= Second * b.burst /\ Second * b.burst \in Nat
      BY <1>1, <1>2, <1>5, Scaled
    <3>2. m.n + c = c /\ b.rate * (t - t) = 0
      BY <1>1, <1>2, <2>3
    <3> QED BY <1>1, <1>2, <2>1, <2>2, <2>3, <3>1, <3>2 DEF Tied
  <2>4. CASE m.n > 0
    BY <1>1, <1>2, <1>6, <2>1, <2>2, <2>4 DEF Tied
  <2> QED BY <1>1, <2>3, <2>4
<1> QED BY <1>7, <1>8 DEF c

\* The tie bounds the count at any later time.
LEMMA TiedIsWithin ==
    ASSUME NEW b \in Bucket, NEW m \in Meter, NEW t \in Nat, b.last <= t, Tied(m, b)
    PROVE  Within(m, b.rate, b.burst, t)
<1>1. /\ b.tokens \in Nat /\ b.burst \in Nat /\ b.rate \in Nat /\ b.last \in Nat
      /\ m.n \in Nat /\ m.from \in Nat /\ Second \in Nat
  BY BucketAssumption DEF Bucket, Meter
<1> SUFFICES ASSUME m.n > 0
             PROVE  Second * m.n <= Second * b.burst + b.rate * (t - m.from)
  BY DEF Within
<1>2. /\ m.from <= b.last
      /\ Second * (m.n + b.tokens) <= Second * b.burst + b.rate * (b.last - m.from)
  BY DEF Tied
<1>3. /\ b.rate * (t - m.from) = b.rate * (b.last - m.from) + (t - b.last) * b.rate
      /\ b.rate * (b.last - m.from) \in Nat /\ (t - b.last) * b.rate \in Nat
  BY <1>1, <1>2, RateSplits
<1>4. /\ Second * (m.n + b.tokens) = Second * m.n + Second * b.tokens
      /\ Second * m.n \in Nat /\ Second * b.tokens \in Nat /\ Second * b.burst \in Nat
  BY <1>1, Scaled
<1> QED BY <1>2, <1>3, <1>4

(***************************************************************************)
(* The inductive invariant of the budgets.                                 *)
(***************************************************************************)
BucketMap == [Cpu -> Bucket]
MeterMap == [Cpu -> Meter]

\* A CPU's budget and its count, once the cap is written.
Capped == \A c \in Cpu : tx[c].rate = TxCap /\ tx[c].burst = TxBurst(TxCap)

\* The cap is written before the first port, no port is armed before the last
\* step of the activation, and no SYN-ACK is sent before a port is armed.
CapFirst ==
    /\ flow = "ports" \/ ports # {} => Capped
    /\ flow \in {"attached", "inserted", "prefixes", "cap"} => ports = {}
    /\ ports = {} => \A c \in Cpu : minted[c].n = 0

\* One RATE entry: its buckets, and what they let through.
Limited(r, m, t) ==
    /\ r \in BucketMap /\ m \in MeterMap
    /\ \A c \in Cpu : /\ r[c].rate = Pps /\ r[c].burst = Burst /\ r[c].last <= t
                      /\ Tied(m[c], r[c])

\* The budget of the SYN-ACKs.
Budgeted ==
    /\ tx \in BucketMap /\ minted \in MeterMap
    /\ \A c \in Cpu : tx[c].last <= now /\ Tied(minted[c], tx[c])

BudgetInv ==
    /\ now \in Nat
    /\ Budgeted
    /\ CapFirst
    /\ DOMAIN admitted = DOMAIN rate
    /\ \A s \in DOMAIN rate : Limited(rate[s], admitted[s], now)

LEMMA TxBurstType == TxCap \in Nat /\ TxBurst(TxCap) \in Nat /\ TxCap > 0
  BY DataplaneAssumption DEF TxBurst, Least

\* Freshly written buckets.
LEMMA SeededBucket ==
    ASSUME NEW k \in Nat, NEW r \in Nat, NEW u \in Nat
    PROVE  /\ Seeded(k, r, u) \in Bucket
           /\ Seeded(k, r, u).rate = r /\ Seeded(k, r, u).burst = u /\ Seeded(k, r, u).last = 0
  BY DEF Seeded, Bucket

LEMMA UnusedMeter == Unused \in Meter /\ Unused.n = 0
  BY DEF Unused, Meter

\* Empty maps satisfy the invariant.
LEMMA FreshIsBudgeted ==
    ASSUME now' = now, now \in Nat, FreshMaps, flow' # "ports"
    PROVE  BudgetInv'
<1>1. /\ tx' \in BucketMap /\ minted' \in MeterMap
      /\ \A c \in Cpu : (tx'[c]).last = 0 /\ (minted'[c]).n = 0
  BY SeededBucket, UnusedMeter DEF FreshMaps, Unlimited, BucketMap, MeterMap
<1>2. Budgeted'
  BY <1>1 DEF Budgeted, Tied
<1>3. CapFirst'
  BY <1>1 DEF CapFirst, FreshMaps
<1>4. DOMAIN rate' = {} /\ DOMAIN admitted' = {}
  BY DEF FreshMaps, EmptyMap
<1> QED BY <1>2, <1>3, <1>4 DEF BudgetInv

LEMMA InitIsBudgeted == Init => BudgetInv
<1> SUFFICES ASSUME Init PROVE BudgetInv
  OBVIOUS
<1>1. /\ tx \in BucketMap /\ minted \in MeterMap
      /\ \A c \in Cpu : tx[c].last = 0 /\ minted[c].n = 0
  BY SeededBucket, UnusedMeter DEF Init, Unlimited, BucketMap, MeterMap
<1>2. Budgeted
  BY <1>1 DEF Budgeted, Tied, Init
<1>3. CapFirst
  BY <1>1 DEF CapFirst, Init
<1>4. DOMAIN rate = {} /\ DOMAIN admitted = {}
  BY DEF Init, EmptyMap
<1> QED BY <1>2, <1>3, <1>4 DEF BudgetInv, Init

\* The handling of a frame keeps it.
LEMMA FilterKeepsBudgets ==
    ASSUME BudgetInv, NEW f, NEW c \in Cpu, xdp_filter(f, c), flow' = flow
    PROVE  BudgetInv'
<1>0. now' = now /\ now \in Nat /\ ports' = ports
  BY DEF BudgetInv, xdp_filter
<1>1. /\ tx \in BucketMap /\ minted \in MeterMap
      /\ \A d \in Cpu : tx[d] \in Bucket /\ minted[d] \in Meter
      /\ \A d \in Cpu : tx[d].last <= now /\ Tied(minted[d], tx[d])
  BY DEF BudgetInv, Budgeted, BucketMap, MeterMap
<1>2. \/ tx' = tx
      \/ tx' = [tx EXCEPT ![c] = Take(tx[c], now)]
  BY DEF xdp_filter
<1>3. /\ Take(tx[c], now) \in Bucket /\ Take(tx[c], now).last = now
      /\ Take(tx[c], now).rate = tx[c].rate /\ Take(tx[c], now).burst = tx[c].burst
  BY <1>0, <1>1, TakeKeepsType
<1>4. /\ tx' \in BucketMap
      /\ \A d \in Cpu : /\ (tx'[d]).last <= now
                        /\ (tx'[d]).rate = tx[d].rate /\ (tx'[d]).burst = tx[d].burst
  BY <1>0, <1>1, <1>2, <1>3 DEF BucketMap
<1>5. Metered(minted[c], now) \in Meter
  BY <1>0, <1>1 DEF Metered, Meter
<1>6. ASSUME Verdict(f, c) = "XDP_TX"
      PROVE  /\ tx' = [tx EXCEPT ![c] = Take(tx[c], now)]
             /\ minted' = [minted EXCEPT ![c] = Metered(minted[c], now)]
             /\ Credit(tx[c], now) > 0 /\ ports # {}
  <2>1. ~Dropped(f, c) /\ SynGate(f) /\ tx_budget_ok(c)
    BY <1>6 DEF Verdict
  <2>2. ports # {}
    BY <2>1 DEF SynGate, protected
  <2>3. tx[c].rate > 0
    BY <2>2, TxBurstType DEF BudgetInv, CapFirst, Capped
  <2> QED BY <1>6, <2>1, <2>2, <2>3, TxBurstType DEF xdp_filter, tx_budget_ok
<1>7. ASSUME Verdict(f, c) # "XDP_TX" PROVE minted' = minted
  BY <1>7 DEF xdp_filter
<1>8. /\ minted' \in MeterMap
      /\ ports = {} => \A d \in Cpu : (minted'[d]).n = 0
  <2>1. ports = {} => \A d \in Cpu : minted[d].n = 0
    BY DEF BudgetInv, CapFirst
  <2>2. CASE Verdict(f, c) = "XDP_TX"
    BY <1>1, <1>5, <1>6, <2>2 DEF MeterMap
  <2>3. CASE Verdict(f, c) # "XDP_TX"
    BY <1>1, <1>7, <2>1, <2>3
  <2> QED BY <2>2, <2>3
<1>9. \A d \in Cpu : Tied(minted'[d], tx'[d])
  <2> SUFFICES ASSUME NEW d \in Cpu PROVE Tied(minted'[d], tx'[d])
    OBVIOUS
  <2>1. /\ Tied(minted[c], Take(tx[c], now))
        /\ Credit(tx[c], now) > 0 => Tied(Metered(minted[c], now), Take(tx[c], now))
    BY <1>0, <1>1, TakeKeepsTied
  <2>2. CASE d # c
    <3>1. tx'[d] = tx[d] /\ minted'[d] = minted[d]
      BY <1>1, <1>2, <1>6, <1>7, <2>2 DEF BucketMap, MeterMap
    <3> QED BY <1>1, <3>1
  <2>3. CASE d = c /\ Verdict(f, c) = "XDP_TX"
    <3>1. tx'[c] = Take(tx[c], now) /\ minted'[c] = Metered(minted[c], now)
      BY <1>1, <1>6, <2>3 DEF BucketMap, MeterMap
    <3> QED BY <1>6, <2>1, <2>3, <3>1
  <2>4. CASE d = c /\ Verdict(f, c) # "XDP_TX"
    <3>1. minted'[c] = minted[c] /\ (tx'[c] = tx[c] \/ tx'[c] = Take(tx[c], now))
      BY <1>1, <1>2, <1>7, <2>4 DEF BucketMap
    <3> QED BY <1>1, <2>1, <2>4, <3>1
  <2> QED BY <2>2, <2>3, <2>4
<1>10. Budgeted'
  BY <1>0, <1>4, <1>8, <1>9 DEF Budgeted
<1>11. CapFirst'
  BY <1>0, <1>4, <1>8 DEF CapFirst, Capped, BudgetInv
<1>12. DOMAIN rate' = DOMAIN rate /\ DOMAIN admitted' = DOMAIN rate
  BY DEF xdp_filter, BudgetInv
<1>13. ASSUME NEW s \in DOMAIN rate PROVE Limited(rate'[s], admitted'[s], now)
  <2> DEFINE r == rate[s]
             m == admitted[s]
  <2>1. Limited(r, m, now)
    BY DEF BudgetInv
  <2>2. /\ r \in BucketMap /\ m \in MeterMap /\ r[c] \in Bucket /\ m[c] \in Meter
        /\ r[c].last <= now /\ Tied(m[c], r[c])
    BY <2>1 DEF Limited, BucketMap, MeterMap
  <2>3. \/ rate'[s] = r /\ admitted'[s] = m
        \/ rate'[s] = [r EXCEPT ![c] = Take(r[c], now)] /\ admitted'[s] = m
        \/ /\ rate'[s] = [r EXCEPT ![c] = Take(r[c], now)]
           /\ admitted'[s] = [m EXCEPT ![c] = Metered(m[c], now)]
           /\ Credit(r[c], now) # 0
    <3>1. CASE s = f.src /\ f.src \notin block
      <4>1. rate' = [rate EXCEPT ![s][c] = Take(rate[s][c], now)]
        BY <3>1, <1>13 DEF xdp_filter
      <4>2. rate'[s] = [r EXCEPT ![c] = Take(r[c], now)]
        BY <4>1, <1>13
      <4>3. \/ admitted' = admitted
            \/ /\ admitted' = [admitted EXCEPT ![s][c] = Metered(admitted[s][c], now)]
               /\ ~over_rate(f, c)
        BY <3>1, <1>13 DEF xdp_filter
      <4>4. CASE admitted' = admitted
        BY <4>2, <4>4
      <4>5. CASE /\ admitted' = [admitted EXCEPT ![s][c] = Metered(admitted[s][c], now)]
                 /\ ~over_rate(f, c)
        <5>1. admitted'[s] = [m EXCEPT ![c] = Metered(m[c], now)]
          BY <4>5, <1>13 DEF BudgetInv
        <5>2. Credit(r[c], now) # 0
          BY <4>5, <3>1, <1>13 DEF over_rate
        <5> QED BY <4>2, <5>1, <5>2
      <4> QED BY <4>3, <4>4, <4>5
    <3>2. CASE s # f.src \/ f.src \in block
      BY <3>2, <1>13 DEF xdp_filter, BudgetInv
    <3> QED BY <3>1, <3>2
  <2>4. /\ Take(r[c], now) \in Bucket /\ Take(r[c], now).last = now /\ Credit(r[c], now) \in Nat
        /\ Take(r[c], now).rate = r[c].rate /\ Take(r[c], now).burst = r[c].burst
    BY <1>0, <2>2, TakeKeepsType
  <2>5. /\ Tied(m[c], Take(r[c], now))
        /\ Credit(r[c], now) > 0 => Tied(Metered(m[c], now), Take(r[c], now))
    BY <1>0, <2>2, TakeKeepsTied
  <2>6. Metered(m[c], now) \in Meter
    BY <1>0, <2>2 DEF Metered, Meter
  <2> HIDE DEF r, m
  <2>7. CASE rate'[s] = r /\ admitted'[s] = m
    BY <2>1, <2>7
  <2>8. CASE rate'[s] = [r EXCEPT ![c] = Take(r[c], now)] /\ admitted'[s] = m
    BY <1>0, <2>1, <2>4, <2>5, <2>8 DEF Limited, BucketMap, MeterMap
  <2>9. CASE /\ rate'[s] = [r EXCEPT ![c] = Take(r[c], now)]
             /\ admitted'[s] = [m EXCEPT ![c] = Metered(m[c], now)]
             /\ Credit(r[c], now) # 0
    BY <1>0, <2>1, <2>4, <2>5, <2>6, <2>9 DEF Limited, BucketMap, MeterMap
  <2> QED BY <2>3, <2>7, <2>8, <2>9
<1> QED BY <1>0, <1>10, <1>11, <1>12, <1>13 DEF BudgetInv

\* Time only helps.
LEMMA LaterIsLimited ==
    ASSUME NEW r, NEW m, NEW t \in Nat, Limited(r, m, t)
    PROVE  Limited(r, m, t + 1)
  BY DEF Limited, BucketMap, Bucket

\* A frame that does not touch the maps, or a step of a daemon that writes none of
\* the buckets and arms no port.
LEMMA IdleKeepsBudgets ==
    ASSUME BudgetInv, now' = now, tx' = tx, minted' = minted, rate' = rate, admitted' = admitted,
           ports' = ports, flow' = "ports" => flow = "ports",
           flow' \in {"attached", "inserted", "prefixes", "cap"} =>
               flow \in {"attached", "inserted", "prefixes", "cap"}
    PROVE  BudgetInv'
<1>1. Budgeted'
  BY DEF BudgetInv, Budgeted
<1>2. CapFirst'
  BY DEF BudgetInv, CapFirst, Capped
<1> QED BY <1>1, <1>2 DEF BudgetInv

LEMMA CapKeepsBudgets ==
    ASSUME BudgetInv, FlowCap
    PROVE  BudgetInv'
<1>1. /\ now' = now /\ rate' = rate /\ admitted' = admitted /\ minted' = minted
      /\ ports' = ports /\ flow = "cap" /\ flow' = "ports"
      /\ tx' = [c \in Cpu |-> Seeded(TxCap, TxCap, TxBurst(TxCap))]
  BY DEF FlowCap, set_syn_cookie_tx_cap
<1>2. /\ tx' \in BucketMap
      /\ \A c \in Cpu : /\ (tx'[c]).last = 0 /\ (tx'[c]).rate = TxCap
                        /\ (tx'[c]).burst = TxBurst(TxCap)
  BY <1>1, SeededBucket, TxBurstType DEF BucketMap
<1>3. \A c \in Cpu : minted[c].n = 0
  BY <1>1 DEF BudgetInv, CapFirst
<1>4. Budgeted'
  BY <1>1, <1>2, <1>3 DEF BudgetInv, Budgeted, Tied
<1>5. CapFirst'
  BY <1>1, <1>2, <1>3 DEF CapFirst, Capped
<1> QED BY <1>1, <1>4, <1>5 DEF BudgetInv

LEMMA PortKeepsBudgets ==
    ASSUME BudgetInv, NEW p, FlowPort(p)
    PROVE  BudgetInv'
<1>1. /\ now' = now /\ rate' = rate /\ admitted' = admitted /\ minted' = minted /\ tx' = tx
      /\ flow = "ports" /\ flow' \in {"ports", "running"} /\ ports' # {}
  BY DEF FlowPort, protect_port
<1>2. Budgeted'
  BY <1>1 DEF BudgetInv, Budgeted
<1>3. CapFirst'
  BY <1>1 DEF BudgetInv, CapFirst, Capped
<1> QED BY <1>1, <1>2, <1>3 DEF BudgetInv

LEMMA MitigateKeepsBudgets ==
    ASSUME BudgetInv, NEW s, FlowMitigate(s)
    PROVE  BudgetInv'
<1>1. /\ now' = now /\ minted' = minted /\ tx' = tx /\ ports' = ports /\ flow' = flow
      /\ now \in Nat
  BY DEF FlowMitigate, set_blocked, rate_limit, clear_rate_limit, daemons, BudgetInv
<1>2. Budgeted' /\ CapFirst'
  BY <1>1 DEF BudgetInv, Budgeted, CapFirst, Capped
<1>3. /\ DOMAIN admitted' = DOMAIN rate'
      /\ \A u \in DOMAIN rate' : Limited(rate'[u], admitted'[u], now)
  <2>1. CASE UNCHANGED <<rate, admitted>>
    BY <2>1 DEF BudgetInv
  <2>2. CASE rate_limit(s, Pps, Burst)
    <3> DEFINE r == [c \in Cpu |-> Seeded(Burst, Pps, Burst)]
               m == [c \in Cpu |-> Unused]
    <3>1. rate' = Put(rate, s, r) /\ admitted' = Put(admitted, s, m)
      BY <2>2 DEF rate_limit
    <3>2. Limited(r, m, now)
      <4>1. r \in BucketMap /\ m \in MeterMap
        BY SeededBucket, UnusedMeter, DataplaneAssumption DEF BucketMap, MeterMap
      <4>2. \A c \in Cpu : r[c].rate = Pps /\ r[c].burst = Burst /\ r[c].last = 0 /\ m[c].n = 0
        BY SeededBucket, UnusedMeter, DataplaneAssumption
      <4> QED BY <1>1, <4>1, <4>2 DEF Limited, Tied
    <3> HIDE DEF r, m
    <3> QED BY <3>1, <3>2 DEF Put, BudgetInv
  <2>3. CASE clear_rate_limit(s)
    BY <2>3 DEF clear_rate_limit, Drop, BudgetInv
  <2> QED BY <2>1, <2>2, <2>3 DEF FlowMitigate, set_blocked
<1> QED BY <1>1, <1>2, <1>3 DEF BudgetInv

LEMMA TickKeepsBudgets ==
    ASSUME BudgetInv, Tick
    PROVE  BudgetInv'
<1>1. /\ now' = now + 1 /\ now \in Nat /\ rate' = rate /\ admitted' = admitted
      /\ minted' = minted /\ tx' = tx /\ ports' = ports /\ flow' = flow
  BY DEF Tick, maps, daemons, BudgetInv
<1>2. Budgeted'
  BY <1>1 DEF BudgetInv, Budgeted, BucketMap, Bucket
<1>3. CapFirst'
  BY <1>1 DEF BudgetInv, CapFirst, Capped
<1>4. \A s \in DOMAIN rate : Limited(rate[s], admitted[s], now + 1)
  BY <1>1, LaterIsLimited DEF BudgetInv
<1> QED BY <1>1, <1>2, <1>3, <1>4 DEF BudgetInv

LEMMA NextKeepsBudgets == BudgetInv /\ [Next]_vars => BudgetInv'
<1> SUFFICES ASSUME BudgetInv, [Next]_vars PROVE BudgetInv'
  OBVIOUS
<1>1. ASSUME NEW f \in Frame, NEW c \in Cpu, Arrive(f, c) PROVE BudgetInv'
  <2>1. flow' = flow
    BY <1>1 DEF Arrive, daemons
  <2>2. CASE xdp_filter(f, c)
    BY <2>1, <2>2, FilterKeepsBudgets
  <2>3. CASE UNCHANGED filterVars
    BY <2>1, <2>3, IdleKeepsBudgets DEF filterVars, maps
  <2> QED BY <1>1, <2>2, <2>3 DEF Arrive
<1>2. ASSUME NEW i \in issued, Forget(i) PROVE BudgetInv'
  BY <1>2, IdleKeepsBudgets DEF Forget, filterVars, maps, daemons
<1>3. CASE Tick
  BY <1>3, TickKeepsBudgets
<1>4. CASE FlowAttach
  BY <1>4, FreshIsBudgeted DEF FlowAttach, BudgetInv
<1>5. ASSUME NEW k \in Key, FlowInsert(k) PROVE BudgetInv'
  BY <1>5, IdleKeepsBudgets DEF FlowInsert, filterVars, maps
<1>6. CASE FlowKey
  BY <1>6, IdleKeepsBudgets DEF FlowKey, set_cookie_key
<1>7. ASSUME NEW a \in Managed, FlowPrefix(a) PROVE BudgetInv'
  BY <1>7, IdleKeepsBudgets DEF FlowPrefix, protect_addr
<1>8. CASE FlowCap
  BY <1>8, CapKeepsBudgets
<1>9. ASSUME NEW p \in CookiePorts, FlowPort(p) PROVE BudgetInv'
  BY <1>9, PortKeepsBudgets
<1>10. CASE FlowGivesUp
  BY <1>10, IdleKeepsBudgets DEF FlowGivesUp, filterVars, maps
<1>11. CASE FlowRedirect
  BY <1>11, IdleKeepsBudgets DEF FlowRedirect, set_redirect, daemons
<1>12. ASSUME NEW s \in Offender, FlowMitigate(s) PROVE BudgetInv'
  BY <1>12, MitigateKeepsBudgets
<1>13. CASE FlowDies
  BY <1>13, FreshIsBudgeted DEF FlowDies, BudgetInv
<1>14. CASE RunApplyFails \/ RunApply \/ (\E k \in Key : RunInsert(k)) \/ RunServe \/ RunStops \/ RunDies
  BY Zenon, <1>14, IdleKeepsBudgets
     DEF RunApplyFails, RunApply, RunInsert, RunServe, RunStops, RunDies, filterVars, maps
<1>15. CASE UNCHANGED vars
  BY <1>15, IdleKeepsBudgets DEF vars, filterVars, maps, daemons
<1> QED BY <1>1, <1>2, <1>3, <1>4, <1>5, <1>6, <1>7, <1>8, <1>9, <1>10, <1>11, <1>12, <1>13,
           <1>14, <1>15 DEF Next

\* BudgetsHold for every instance: whatever the number of CPUs, the rates, the
\* bursts and the width of the arithmetic, and wherever the activation or a daemon
\* fails, no CPU sends SYN-ACKs, or lets a limited source through, above its budget.
THEOREM BudgetsHoldAlways == Spec => []BudgetsHold
<1>1. BudgetInv => BudgetsHold
  <2> SUFFICES ASSUME BudgetInv PROVE BudgetsHold
    OBVIOUS
  <2>1. ASSUME NEW c \in Cpu PROVE Within(minted[c], TxCap, TxBurst(TxCap), now)
    <3>1. /\ tx[c] \in Bucket /\ minted[c] \in Meter /\ tx[c].last <= now /\ now \in Nat
          /\ Tied(minted[c], tx[c])
      BY DEF BudgetInv, Budgeted, BucketMap, MeterMap
    <3>2. CASE minted[c].n > 0
      <4>1. tx[c].rate = TxCap /\ tx[c].burst = TxBurst(TxCap)
        BY <3>1, <3>2 DEF BudgetInv, CapFirst, Capped
      <4> QED BY <3>1, <4>1, TiedIsWithin
    <3> QED BY <3>2 DEF Within
  <2>2. ASSUME NEW s \in DOMAIN rate, NEW c \in Cpu
        PROVE  Within(admitted[s][c], Pps, Burst, now)
    <3>1. /\ rate[s][c] \in Bucket /\ admitted[s][c] \in Meter /\ rate[s][c].last <= now
          /\ now \in Nat /\ Tied(admitted[s][c], rate[s][c])
          /\ rate[s][c].rate = Pps /\ rate[s][c].burst = Burst
      BY <2>2 DEF BudgetInv, Limited, BucketMap, MeterMap
    <3> QED BY <3>1, TiedIsWithin
  <2> QED BY <2>1, <2>2 DEF BudgetsHold
<1> QED BY <1>1, InitIsBudgeted, NextKeepsBudgets, PTL DEF Spec

(***************************************************************************)
(* The inductive invariant of the handshakes: everyone who holds a key     *)
(* holds the stored secret, and every SYN-ACK out there was made with it.  *)
(***************************************************************************)
OneSecret ==
    /\ key \in {NoKey, secret}
    /\ flow = "inserted" \/ run = "inserted" => secret # NoKey
    /\ run = "up" => runKey = secret /\ secret # NoKey
    /\ run # "down" => nft

IssuedWell ==
    \A i \in issued :
        /\ secret # NoKey
        /\ i.slot \in Int /\ i.slot <= SlotOf(now)
        /\ i.cookie = cookie_for_slot(secret, <<i.src, i.dst>>, i.cookie.mss, i.slot)

HandshakeInv == now \in Nat /\ OneSecret /\ IssuedWell

LEMMA SlotsGrow ==
    ASSUME NEW t \in Nat
    PROVE  SlotOf(t) \in Int /\ SlotOf(t) <= SlotOf(t + 1) /\ SlotOf(t + 1) \in Int
  BY CookieAssumption DEF SlotOf

\* A new SYN-ACK is made with the stored secret.
LEMMA IssueKeepsWell ==
    ASSUME IssuedWell, now \in Nat, now' = now, secret' = secret, secret # NoKey,
           NEW f, NEW k, NEW mss, k = secret,
           Issue(f, make_cookie(k, <<f.src, f.dst>>, mss, now))
    PROVE  IssuedWell'
<1> DEFINE c == make_cookie(k, <<f.src, f.dst>>, mss, now)
           n == [src |-> f.src, dst |-> f.dst, cookie |-> c, slot |-> SlotOf(now)]
<1>1. \A i \in issued' : i \in issued \/ i = n
  BY DEF Issue
<1>2. c = cookie_for_slot(secret, <<f.src, f.dst>>, c.mss, SlotOf(now))
  BY DEF make_cookie, cookie_for_slot
<1> HIDE DEF c
<1>3. SlotOf(now) \in Int
  BY SlotsGrow
<1>4. /\ n.slot = SlotOf(now) /\ n.cookie = c /\ n.src = f.src /\ n.dst = f.dst
  OBVIOUS
<1> HIDE DEF n
<1>5. ASSUME NEW i \in issued'
      PROVE  /\ i.slot \in Int /\ i.slot <= SlotOf(now)
             /\ i.cookie = cookie_for_slot(secret, <<i.src, i.dst>>, i.cookie.mss, i.slot)
  <2>1. CASE i \in issued
    BY <2>1 DEF IssuedWell
  <2>2. CASE i = n
    BY <1>2, <1>3, <1>4, <2>2
  <2> QED BY <1>1, <1>5, <2>1, <2>2
<1> QED BY Zenon, <1>5 DEF IssuedWell

LEMMA ArriveKeepsHandshake ==
    ASSUME HandshakeInv, NEW f \in Frame, NEW c \in Cpu, Arrive(f, c)
    PROVE  HandshakeInv'
<1>1. /\ now' = now /\ now \in Nat /\ key' = key /\ secret' = secret /\ flow' = flow
      /\ run' = run /\ runKey' = runKey /\ nft' = nft
  BY DEF Arrive, filterVars, maps, xdp_filter, daemons, HandshakeInv
<1>2. OneSecret'
  BY <1>1 DEF OneSecret, HandshakeInv
<1>3. CASE Fate(f, c) = "XDP_TX"
  <2>1. Issue(f, KernelCookie(f))
    BY <1>3 DEF Arrive
  <2>2. key # NoKey
    <3>1. Path(f) # "XDP_TX"
      <4>1. Respond(f) # "XDP_TX"
        BY DEF Respond, handle_tcp, udp_response, icmp_echo_reply
      <4>2. Classify(f) # "XDP_TX"
        BY DEF Classify
      <4> QED BY <4>1, <4>2 DEF Path
    <3>2. Verdict(f, c) = "XDP_TX"
      BY <1>3, <3>1 DEF Fate, udp_response
    <3> QED BY <3>2 DEF Verdict, SynGate
  <2>3. key = secret
    BY <2>2 DEF HandshakeInv, OneSecret
  <2>4. IssuedWell'
    BY <1>1, <2>1, <2>2, <2>3, IssueKeepsWell DEF KernelCookie, HandshakeInv
  <2> QED BY <1>1, <1>2, <2>4 DEF HandshakeInv
<1>4. CASE Fate(f, c) = "synack"
  <2>1. Issue(f, UserCookie(f))
    BY <1>4 DEF Arrive
  <2>2. run = "up"
    <3>1. Verdict(f, c) # "synack"
      BY DEF Verdict
    <3>2. Path(f) = "synack"
      BY <1>4, <3>1 DEF Fate, udp_response
    <3>3. Respond(f) = "synack"
      BY <3>2 DEF Path, Classify
    <3> QED BY <3>3 DEF Respond
  <2>3. runKey = secret /\ secret # NoKey
    BY <2>2 DEF HandshakeInv, OneSecret
  <2>4. IssuedWell'
    BY <1>1, <2>1, <2>3, IssueKeepsWell DEF UserCookie, HandshakeInv
  <2> QED BY <1>1, <1>2, <2>4 DEF HandshakeInv
<1>5. CASE Fate(f, c) \notin {"XDP_TX", "synack"}
  <2>1. issued' = issued
    BY <1>5 DEF Arrive
  <2>2. IssuedWell'
    BY Zenon, <1>1, <2>1 DEF IssuedWell, HandshakeInv
  <2> QED BY <1>1, <1>2, <2>2 DEF HandshakeInv
<1> QED BY <1>3, <1>4, <1>5

\* Whoever inserts first, the stored secret never changes afterwards.
LEMMA InsertKeepsSecret ==
    ASSUME NEW k \in Key, InsertSecret(k)
    PROVE  secret' # NoKey /\ (secret # NoKey => secret' = secret)
  BY DataplaneAssumption DEF InsertSecret

LEMMA NextKeepsHandshake == HandshakeInv /\ [Next]_vars => HandshakeInv'
<1> SUFFICES ASSUME HandshakeInv, [Next]_vars PROVE HandshakeInv'
  OBVIOUS
<1> USE DEF HandshakeInv
<1>1. ASSUME NEW f \in Frame, NEW c \in Cpu, Arrive(f, c) PROVE HandshakeInv'
  BY <1>1, ArriveKeepsHandshake
<1>2. ASSUME NEW i \in issued, Forget(i) PROVE HandshakeInv'
  BY <1>2 DEF Forget, filterVars, maps, daemons, OneSecret, IssuedWell
<1>3. CASE Tick
  <2>1. now' = now + 1 /\ now \in Nat /\ secret' = secret /\ issued' = issued
    BY <1>3 DEF Tick, daemons
  <2>2. SlotOf(now) \in Int /\ SlotOf(now + 1) \in Int /\ SlotOf(now) <= SlotOf(now + 1)
    BY <2>1, SlotsGrow
  <2>3. ASSUME NEW i \in issued'
        PROVE  /\ secret' # NoKey /\ i.slot \in Int /\ i.slot <= SlotOf(now + 1)
               /\ i.cookie = cookie_for_slot(secret', <<i.src, i.dst>>, i.cookie.mss, i.slot)
    BY <2>1, <2>2, <2>3 DEF IssuedWell
  <2>4. IssuedWell'
    BY Zenon, <2>1, <2>3 DEF IssuedWell
  <2> QED BY <1>3, <2>1, <2>4 DEF Tick, maps, daemons, OneSecret
<1>4. CASE FlowAttach \/ FlowDies
  BY <1>4 DEF FlowAttach, FlowDies, FreshMaps, OneSecret, IssuedWell
<1>5. ASSUME NEW k \in Key, FlowInsert(k) PROVE HandshakeInv'
  <2>1. secret' # NoKey /\ (secret # NoKey => secret' = secret)
    BY <1>5, InsertKeepsSecret DEF FlowInsert
  <2> QED BY <1>5, <2>1 DEF FlowInsert, filterVars, maps, OneSecret, IssuedWell
<1>6. CASE FlowKey
  BY <1>6 DEF FlowKey, set_cookie_key, OneSecret, IssuedWell
<1>7. ASSUME NEW a \in Managed, FlowPrefix(a) PROVE HandshakeInv'
  BY <1>7 DEF FlowPrefix, protect_addr, OneSecret, IssuedWell
<1>8. CASE FlowCap
  BY <1>8 DEF FlowCap, set_syn_cookie_tx_cap, OneSecret, IssuedWell
<1>9. ASSUME NEW p \in CookiePorts, FlowPort(p) PROVE HandshakeInv'
  BY <1>9 DEF FlowPort, protect_port, OneSecret, IssuedWell
<1>10. CASE FlowGivesUp
  BY <1>10 DEF FlowGivesUp, filterVars, maps, OneSecret, IssuedWell
<1>11. CASE FlowRedirect
  BY <1>11 DEF FlowRedirect, set_redirect, daemons, OneSecret, IssuedWell
<1>12. ASSUME NEW s \in Offender, FlowMitigate(s) PROVE HandshakeInv'
  BY <1>12 DEF FlowMitigate, set_blocked, rate_limit, clear_rate_limit, daemons, OneSecret, IssuedWell
<1>13. ASSUME NEW k \in Key, RunInsert(k) PROVE HandshakeInv'
  <2>1. secret' # NoKey /\ (secret # NoKey => secret' = secret)
    BY <1>13, InsertKeepsSecret DEF RunInsert
  <2> QED BY <1>13, <2>1 DEF RunInsert, filterVars, maps, OneSecret, IssuedWell
<1>14. CASE RunApplyFails \/ RunApply \/ RunStops \/ RunDies
  BY Zenon, <1>14 DEF RunApplyFails, RunApply, RunStops, RunDies, filterVars, maps, OneSecret, IssuedWell
<1>15. CASE RunServe
  BY <1>15 DEF RunServe, filterVars, maps, OneSecret, IssuedWell
<1>16. CASE UNCHANGED vars
  BY <1>16 DEF vars, filterVars, maps, daemons, OneSecret, IssuedWell
<1> QED BY <1>1, <1>2, <1>3, <1>4, <1>5, <1>6, <1>7, <1>8, <1>9, <1>10, <1>11, <1>12, <1>13,
           <1>14, <1>15, <1>16 DEF Next

LEMMA HandshakeInvariant == Spec => []HandshakeInv
<1>1. Init => HandshakeInv
  BY SMTT(30) DEF Init, HandshakeInv, OneSecret, IssuedWell
<1> QED BY <1>1, NextKeepsHandshake, PTL DEF Spec

\* What the responder makes of a cookie that some client was sent.
LEMMA CheckedExactly ==
    ASSUME HandshakeInv, run = "up", NEW i \in issued, NEW s, NEW d
    PROVE  check_cookie(runKey, <<s, d>>, i.cookie, now)
               <=> i.src = s /\ i.dst = d /\ Fresh(i)
<1> DEFINE u == SlotOf(now)
           tag(t) == cookie_for_slot(secret, <<s, d>>, i.cookie.mss, t)
<1>1. /\ runKey = secret /\ i.slot \in Int /\ i.slot <= u
      /\ i.cookie = cookie_for_slot(secret, <<i.src, i.dst>>, i.cookie.mss, i.slot)
  BY DEF HandshakeInv, OneSecret, IssuedWell
<1>2. u \in Int
  BY SlotsGrow DEF HandshakeInv
<1>3. ASSUME NEW t PROVE i.cookie = tag(t) <=> i.src = s /\ i.dst = d /\ i.slot = t
  <2> DEFINE c == i.cookie
             m == i.cookie.mss
  <2>1. c = [key |-> secret, tuple |-> <<i.src, i.dst>>, mss |-> m, slot |-> i.slot]
    BY <1>1 DEF cookie_for_slot
  <2>2. tag(t) = [key |-> secret, tuple |-> <<s, d>>, mss |-> m, slot |-> t]
    BY DEF cookie_for_slot
  <2> HIDE DEF c, m, tag
  <2>3. c = tag(t) <=> <<i.src, i.dst>> = <<s, d>> /\ i.slot = t
    BY <2>1, <2>2
  <2> QED BY <2>3 DEF c
<1>4. check_cookie(runKey, <<s, d>>, i.cookie, now) <=> i.cookie = tag(u) \/ i.cookie = tag(u - 1)
  BY <1>1 DEF check_cookie
<1>5. Fresh(i) <=> i.slot = u \/ i.slot = u - 1
  BY <1>1, <1>2 DEF Fresh
<1> HIDE DEF tag
<1> QED BY <1>3, <1>4, <1>5

\* HandshakeExact for every instance: whatever the slot length, the clients, the
\* endpoints and the secrets, and however the daemons race for the first secret
\* and restart.
THEOREM HandshakeExactAlways == Spec => []HandshakeExact
<1>1. HandshakeInv => HandshakeExact
  <2> SUFFICES ASSUME HandshakeInv, run = "up", NEW i \in issued, NEW s \in Client,
                      NEW d \in Endpoint
               PROVE  (Respond(Ack(s, d, i.cookie)) = "banner")
                          <=> \E j \in issued : /\ j.src = s /\ j.dst = d
                                                 /\ j.cookie = i.cookie /\ Fresh(j)
    BY DEF HandshakeExact
  <2>1. Respond(Ack(s, d, i.cookie)) = "banner"
            <=> check_cookie(runKey, <<s, d>>, i.cookie, now)
    BY DEF Respond, handle_tcp, proto, Ack
  <2>2. ASSUME NEW j \in issued, j.cookie = i.cookie
        PROVE  check_cookie(runKey, <<s, d>>, i.cookie, now)
                   <=> j.src = s /\ j.dst = d /\ Fresh(j)
    BY <2>2, CheckedExactly
  <2> QED BY <2>1, <2>2
<1> QED BY <1>1, HandshakeInvariant, PTL

\* HandshakeCompletes for every instance: at every point of the activation, with
\* every budget spent or not, a SYN to the stateless tier is answered and the ACK
\* that comes in time is served.
THEOREM HandshakeCompletesAlways == Spec => []HandshakeCompletes
<1>1. HandshakeInv => HandshakeCompletes
  <2> SUFFICES ASSUME HandshakeInv, run = "up", NEW c \in Cpu, NEW d \in Stateless
               PROVE  /\ \A s \in Client, shape \in {"whole", "noroom"} :
                            LET f == Syn(s, d, shape)
                            IN  SameFamily(s, d) /\ ~Dropped(f, c)
                                    => Fate(f, c) \in {"XDP_TX", "synack"}
                      /\ \A i \in issued :
                            LET f == Ack(i.src, d, i.cookie)
                            IN  i.dst = d /\ Fresh(i) /\ ~Dropped(f, c) => Fate(f, c) = "banner"
    BY DEF HandshakeCompletes
  <2>1. ASSUME NEW s, NEW shape \in {"whole", "noroom"}, ~Dropped(Syn(s, d, shape), c)
        PROVE  Fate(Syn(s, d, shape), c) \in {"XDP_TX", "synack"}
    <3> DEFINE f == Syn(s, d, shape)
    <3>1. f.kind = "syn" /\ f.dst = d /\ f.src = s /\ f.shape = shape
      BY DEF Syn
    <3> HIDE DEF f
    <3>2. Classify(f) = "queue"
      BY <3>1 DEF Classify, RealRule, StatelessRule, proto, Stateless, HandshakeInv, OneSecret
    <3>3. Path(f) = "synack"
      BY <3>1, <3>2 DEF Path, Respond, handle_tcp, proto
    <3>4. Verdict(f, c) \in {"XDP_TX", "XDP_PASS"}
      BY <2>1, <3>1 DEF Verdict, RedirectDue, f
    <3> QED BY <3>3, <3>4 DEF Fate, f
  <2>2. ASSUME NEW i \in issued, i.dst = d, Fresh(i), ~Dropped(Ack(i.src, d, i.cookie), c)
        PROVE  Fate(Ack(i.src, d, i.cookie), c) = "banner"
    <3> DEFINE f == Ack(i.src, d, i.cookie)
    <3>1. f.kind = "ack" /\ f.dst = d /\ f.src = i.src /\ f.cookie = i.cookie
      BY SMTT(30) DEF Ack
    <3> HIDE DEF f
    <3>2. Classify(f) = "queue"
      BY SMTT(30), <3>1 DEF Classify, RealRule, StatelessRule, proto, Stateless, HandshakeInv, OneSecret
    <3>3. check_cookie(runKey, <<f.src, f.dst>>, f.cookie, now)
      BY <2>2, <3>1, CheckedExactly
    <3>4. Path(f) = "banner"
      BY Zenon, <3>1, <3>2, <3>3 DEF Path, Respond, handle_tcp, proto
    <3>5. Verdict(f, c) = "XDP_PASS"
      BY Zenon, <2>2, <3>1 DEF Verdict, RedirectDue, SynGate, f
    <3> QED BY <3>4, <3>5 DEF Fate, f
  <2> QED BY <2>1, <2>2
<1> QED BY <1>1, HandshakeInvariant, PTL
=============================================================================
