----------------------------- MODULE XdpFilter -----------------------------
(***************************************************************************)
(* The XDP program and its maps: what it does with a frame, and the writes *)
(* of user space.  The program runs on every CPU; a frame is handled by    *)
(* one CPU, which uses its own copy of the per-CPU maps.                   *)
(***************************************************************************)
EXTENDS TokenBucket, SynCookie, PartialMaps

CONSTANTS Cpu,
          Client,           \* source addresses
          Addr, Port,       \* destinations
          V6,               \* the clients and addresses of IPv6
          MssOf,            \* the MSS a client advertises
          MssFirst,         \* the clients that put it first in the options
          DefaultMss,       \* DEFAULT_CLIENT_MSS
          TxBurstMax,       \* TX_BUDGET_BURST_MAX
          XskQueue,         \* the CPUs that serve the receive queue of the AF_XDP socket
          NoKey

VARIABLES now,        \* CLOCK_MONOTONIC
          block,      \* BLOCK_V4 and BLOCK_V6
          rate,       \* RATE: source -> bucket of each CPU
          key,        \* COOKIE_KEY, or NoKey
          protect,    \* PROTECT_V4 and PROTECT_V6
          ports,      \* PROTECT_PORT
          redirect,   \* REDIRECT_PORT
          xsk,        \* a socket is bound in XSKS
          tx,         \* TX_BUDGET: bucket of each CPU
          admitted,   \* history: what each RATE bucket let through
          minted      \* history: the SYN-ACKs each CPU sent since the program was attached

maps == <<block, rate, key, protect, ports, redirect, xsk, tx>>
filterVars == <<now, maps, admitted, minted>>

Endpoint == [addr : Addr, port : Port]
SameFamily(s, d) == (s \in V6) <=> (d.addr \in V6)

(***************************************************************************)
(* Frames.  The shape of a SYN says how much of it is there:               *)
(*   whole     options with room for an MSS option                         *)
(*   noroom    no options, or a payload                                    *)
(*   cut       claims options and ends before them                         *)
(*   short     claims more options than it has, but has the first four     *)
(*             bytes of them                                               *)
(***************************************************************************)
Shape == {"whole", "noroom", "cut", "short"}
Syn(s, d, shape) == [kind |-> "syn", src |-> s, dst |-> d, shape |-> shape]
Udp(s, d, len) == [kind |-> "udp", src |-> s, dst |-> d, len |-> len]
Icmp(s, d, echo) == [kind |-> "icmp", src |-> s, dst |-> d, echo |-> echo]

\* parse_mss looks at the first option only.
parse_mss(s) == IF s \in MssFirst THEN MssOf[s] ELSE DefaultMss

(***************************************************************************)
(* The steps of try_filter.                                                *)
(***************************************************************************)
over_rate(f, c) == f.src \in DOMAIN rate /\ Credit(rate[f.src][c], now) = 0

\* An IPv4 datagram to a redirect port.
RedirectDue(f) == f.kind = "udp" /\ f.src \notin V6 /\ f.dst.port \in redirect

protected(d) == d.port \in ports /\ d.addr \in protect

\* The SYN gets as far as the budget.  IPv4 reads the MSS before it, IPv6 after
\* it, so an IPv6 SYN cut before its options costs a token.
try_synack_v4(f) == f.src \notin V6 /\ f.shape \notin {"noroom", "cut"}
try_synack_v6(f) == f.src \in V6 /\ f.shape # "noroom"

SynGate(f) ==
    /\ f.kind = "syn"
    /\ try_synack_v4(f) \/ try_synack_v6(f)
    /\ protected(f.dst)
    /\ key # NoKey

\* rate_pps == 0: the cap was never written, and nothing is capped.
tx_budget_ok(c) == tx[c].rate = 0 \/ Credit(tx[c], now) > 0

\* Dropped before anything else is looked at.
Dropped(f, c) == f.src \in block \/ over_rate(f, c)

\* A SYN that lacks part of the options it claims is passed on, its token spent;
\* an IPv4 or IPv6 stack discards it as truncated.
Verdict(f, c) ==
    IF Dropped(f, c) THEN "XDP_DROP"
    ELSE IF RedirectDue(f) /\ xsk /\ c \in XskQueue THEN "XDP_REDIRECT"
    ELSE IF SynGate(f) /\ f.shape = "whole" /\ tx_budget_ok(c) THEN "XDP_TX"
    ELSE "XDP_PASS"

\* The sequence number of the SYN-ACK.
KernelCookie(f) == make_cookie(key, <<f.src, f.dst>>, parse_mss(f.src), now)

\* What the program writes while it handles the frame: the bucket of the source
\* unless the source is blocked, and the budget once a SYN got that far.
xdp_filter(f, c) ==
    /\ LET metered == f.src \in DOMAIN rate /\ f.src \notin block
       IN  /\ rate' = IF metered
                      THEN [rate EXCEPT ![f.src][c] = Take(@, now)] ELSE rate
           /\ admitted' = IF metered /\ ~over_rate(f, c)
                          THEN [admitted EXCEPT ![f.src][c] = Metered(@, now)]
                          ELSE admitted
    /\ tx' = IF ~Dropped(f, c) /\ SynGate(f) /\ tx[c].rate > 0
             THEN [tx EXCEPT ![c] = Take(@, now)] ELSE tx
    /\ minted' = IF Verdict(f, c) = "XDP_TX" THEN [minted EXCEPT ![c] = Metered(@, now)] ELSE minted
    /\ UNCHANGED <<now, block, key, protect, ports, redirect, xsk>>

(***************************************************************************)
(* Writes of user space.                                                   *)
(***************************************************************************)
Unlimited == Seeded(0, 0, 0)

\* A freshly loaded program: empty maps, a zeroed budget.
FreshMaps ==
    /\ block' = {} /\ rate' = EmptyMap /\ key' = NoKey
    /\ protect' = {} /\ ports' = {} /\ redirect' = {} /\ xsk' = FALSE
    /\ tx' = [c \in Cpu |-> Unlimited]
    /\ admitted' = EmptyMap
    /\ minted' = [c \in Cpu |-> Unused]

rate_limit(s, pps, burst) ==
    /\ rate' = Put(rate, s, [c \in Cpu |-> Seeded(burst, pps, burst)])
    /\ admitted' = Put(admitted, s, [c \in Cpu |-> Unused])
    /\ UNCHANGED <<now, block, key, protect, ports, redirect, xsk, tx, minted>>

\* Also an eviction: RATE drops the source it used least recently.
clear_rate_limit(s) ==
    /\ rate' = Drop(rate, {s}) /\ admitted' = Drop(admitted, {s})
    /\ UNCHANGED <<now, block, key, protect, ports, redirect, xsk, tx, minted>>

set_blocked(B) ==
    /\ block' = B
    /\ UNCHANGED <<now, rate, key, protect, ports, redirect, xsk, tx, admitted, minted>>

set_cookie_key(k) ==
    /\ key' = k
    /\ UNCHANGED <<now, block, rate, protect, ports, redirect, xsk, tx, admitted, minted>>

TxBurst(pps) == Least(2 * pps, TxBurstMax)

set_syn_cookie_tx_cap(pps) ==
    /\ tx' = [c \in Cpu |-> Seeded(pps, pps, TxBurst(pps))]
    /\ UNCHANGED <<now, block, rate, key, protect, ports, redirect, xsk, admitted, minted>>

\* One insert of set_protected_prefixes, and one of set_protected_ports.
protect_addr(a) ==
    /\ protect' = protect \cup {a}
    /\ UNCHANGED <<now, block, rate, key, ports, redirect, xsk, tx, admitted, minted>>

protect_port(p) ==
    /\ ports' = ports \cup {p}
    /\ UNCHANGED <<now, block, rate, key, protect, redirect, xsk, tx, admitted, minted>>

\* register_xsk and set_redirect_ports.
set_redirect(bound, R) ==
    /\ xsk' = bound /\ redirect' = R
    /\ UNCHANGED <<now, block, rate, key, protect, ports, tx, admitted, minted>>
=============================================================================
