------------------------------ MODULE MCEdges ------------------------------
(***************************************************************************)
(* The edges of the flow daemon, for TLC: what it reads and writes, the    *)
(* choice of a mitigation and the BGP session, which share no state.  A    *)
(* behaviour has one of them active.                                       *)
(*                                                                         *)
(* The configuration blocks have at least one accepted and one refused     *)
(* form of every directive; the lone interface line, which every accepted  *)
(* text has, is in the first two positions or is the third.                *)
(***************************************************************************)
EXTENDS Formats, Selection, BgpSession, TLC

CONSTANTS route4, flow6, drop

w(u)          == [k |-> "", u |-> u, ns |-> <<>>]
W(u, n)       == [k |-> "", u |-> u, ns |-> <<n>>]
kv(k, u, n)   == [k |-> k, u |-> u, ns |-> <<n>>]
kvs(k, u, ns) == [k |-> k, u |-> u, ns |-> ns]
line(d, ws)   == <<w(d)>> \o ws
one(d, ws)    == <<line(d, ws)>>

Eth(n)   == one("interface", <<W("any", 0), W("any", n)>>)
RtbhBase == <<kv("peer", "v4", 1), kv("local-as", "num", 5), kv("peer-as", "num", 5),
              kv("max", "num", 9), kv("hold-down", "m", 1)>>
Nh4      == kv("next-hop-v4", "v4", 9)
FsBase   == <<kv("max-flows", "num", 2), kv("rate", "num", 0), kv("max-rules", "num", 9),
              kv("hold-down", "s", 60)>>
Dns(n, s) == one("dns-flux", <<kv("server", "v4", 1), kv("zone", "any", 1), kv("name", "any", 1),
                 kv("from", "net4", 1), kv("count", "num", n), kv("set", "num", s),
                 kv("tsig", "any", 1)>>)
Tenant_(ls) == <<line("tenant", <<W("any", 1), w("{")>>)>> \o ls
Close    == <<line("}", <<>>)>>
Allow(u) == <<line("allow", <<w("tcp"), W("num", 80), w(u)>>)>>
OwnsLine     == <<line("owns", <<W("v4", 1), W("v6", 2)>>)>>

Essential == {
    Eth(1),
    one("rtbh", RtbhBase \o <<kv("router-id", "v4", 2), Nh4, kv("ttl", "h", 1)>>),
    one("rtbh", RtbhBase \o <<kv("local-addr", "v4", 1), Nh4>>),
    one("flowspec", <<kv("concentration", "num", 8)>> \o FsBase),
    one("pop", <<W("any", 1), kv("agent", "v4", 1), kv("sampling", "num", 9)>>),
    one("pop", <<W("any", 2), kv("agent", "v4", 1), kv("sampling", "num", 9)>>),
    one("instance=", <<>>), Tenant_(OwnsLine \o Allow("host") \o Close), one("shadow", <<>>)}

MCFollower == {IF b = one("instance=", <<>>) THEN <<<<kv("instance=", "any", 1)>>>> ELSE b :
                b \in Essential}

MCBlock == MCFollower \cup {
    Eth(2), one("interface", <<W("any", 1)>>),
    one("ipv4", <<W("net4", 1)>>), one("ipv6", <<W("junk", 1)>>), one("protect", <<W("net6", 1)>>),
    one("default", <<w("drop")>>), one("default", <<w("deception")>>), one("default", <<w("junk")>>),
    Tenant_(OwnsLine \o Allow("nat")), Tenant_(Allow("junk") \o Close), Tenant_(OwnsLine \o one("shadow", <<>>) \o Close),
    one("shape", <<W("any", 1), w("bandwidth"), W("mbit", 9), w("up"), W("mbit", 3), w("rtt"), W("ms", 5)>>),
    one("shape", <<W("any", 1), w("auto"), w("up")>>), one("shape", <<W("any", 2), w("auto")>>),
    one("banner-flux", <<W("any", 1)>>), one("banner-flux", <<W("any", 1), W("h", 2)>>),
    Dns(2, 1), Dns(1, 2), Dns(2, 0),
    one("rtbh", RtbhBase \o <<kv("router-id", "v4", 1), Nh4>>),
    one("rtbh", RtbhBase \o <<kv("router-id", "v4", 2)>>),
    one("rtbh", RtbhBase \o <<kv("router-id", "v4", 2), Nh4, kv("ttl", "s", 59)>>),
    one("rtbh", RtbhBase \o <<kv("router-id", "v4", 2), Nh4, kv("gtsm-hops", "num", 0)>>),
    one("rtbh", RtbhBase \o <<kv("router-id", "v4", 2), kv("next-hop-v6", "v6", 9),
                kvs("community", "communities", <<1, 2>>), kv("max-new-per-min", "num", 0)>>),
    one("flowspec", <<kv("concentration", "num", 11)>> \o FsBase),
    one("metrics", <<kv("listen", "sock", 1)>>), one("metrics", <<kv("listen", "v4", 1)>>),
    one("api", <<kv("listen", "sock", 1), kv("token-file", "any", 1)>>),
    one("api", <<kv("listen", "sock", 1)>>),
    one("pop", <<W("junk", 3), kv("agent", "v4", 3), kv("sampling", "num", 9)>>),
    one("engine", <<kv("max-concurrent", "num", 7), kv("nfqueue", "num", 0)>>),
    one("engine", <<kv("tproxy-port", "num", 0)>>), one("engine", <<kv("session-timeout", "num", 5)>>),
    one("flowtable", <<kvs("devices", "list", <<1, 0, 2>>)>>), one("flowtable", <<kvs("devices", "list", <<0>>)>>),
    one("xdp", <<kv("mode", "native", 0), kvs("cookie-ports", "list", <<80, 81>>)>>),
    one("xdp", <<kv("syn-cookie-tx-cap", "num", 0)>>), one("xdp", <<kv("default-rate-limit", "num", 5)>>),
    one("stateless-tcp", <<kvs("ports", "list", <<80>>)>>), one("stateless-tcp", <<kvs("ports", "list", <<80, 0>>)>>),
    one("shadow", <<w("junk")>>), <<<<kv("instance=", "empty", 0)>>>>,
    <<<<kv("rpki-validator=", "any", 1)>>>>, <<<<kv("rpki-check-interval=", "m", 5)>>>>,
    <<<<kv("rpki-check-interval=", "junk", 5)>>>>, one("junk", <<>>)}

Bytes(n, b) == [i \in 1..n |-> (b + i) % 256]
V4(b, bits) == [v6 |-> FALSE, addr |-> Bytes(4, b), bits |-> bits]
V6(b, bits) == [v6 |-> TRUE, addr |-> Bytes(16, b), bits |-> bits]
MCPrefix == {V4(200, n) : n \in {0, 7, 8, 20, 32}} \cup {V6(250, n) : n \in {0, 48, 61, 128}}
Communities(n) == [i \in 1..n |-> <<255, 255, 2, i % 256>>]

MCOpen == {[asn |-> a, hold_time |-> Bgp!u16(h), router_id |-> <<10, 0, 0, 1>>, families |-> f] :
            a \in {<<0, 0, 253, 232>>, <<0, 1, 0, 0>>, <<255, 255, 255, 255>>},
            h \in {0, 90, 65535}, f \in SUBSET ToSet(Bgp!Family)}
MCRoute == {[prefix |-> p, next_hop |-> Bytes(IF p.v6 THEN 16 ELSE 4, 8), origin |-> 0,
             communities |-> Communities(n), large_communities |-> l] :
            p \in MCPrefix, n \in {0, 1, 63, 64}, l \in {<<>>, <<Bytes(12, 3)>>}}
MCRule == {[dst |-> p, protocol |-> pr, dst_port |-> po, rate |-> <<63, 128, 0, 0>>] :
            p \in MCPrefix, pr \in {<<>>, <<17>>}, po \in {<<>>, <<53>>, <<255>>, <<256>>, <<65535>>}}

Rec(t, p, h, lie) == [type |-> t, protocol |-> p, frame |-> 64, header |-> h, lie |-> lie]
Good  == Rec(1, 1, <<1, 2, 53>>, 0)
MCFlowSample ==
    {[type |-> t, rate |-> IF t = 1 THEN 100 ELSE 300, records |-> rs] : t \in {1, 3}, rs \in
        {<<>>, <<Good>>, <<Good, Rec(1, 1, <<3, 2, 80>>, 0)>>, <<Rec(2, 1, <<>>, 0), Good>>, <<Rec(4097, 1, <<5, 2, 53>>, 0), Good>>,
         <<Rec(1, 9, <<1, 2, 53>>, 0)>>, <<Rec(1, 1, <<1>>, 0), Good>>,
         <<Good, Rec(1, 1, <<1, 2, 53>>, 1)>>, <<Rec(1, 1, <<1, 2, 53>>, 9)>>,
         <<Rec(1, 1, <<1, 2, 53>>, 99), Good>>}}
    \cup {[type |-> t, rate |-> 7, records |-> <<Good>>] : t \in {2, 4097, 4098, 4099}}

Smp(src, port, proto, agent, n) ==
    [src |-> src, block |-> source_block(src), dst_port |-> port, proto |-> proto, agent |-> agent,
     est_packets |-> n, est_bytes |-> 10 * n]
MCWindowSample ==
    {Smp(11, 1, 17, 1, 1), Smp(12, 2, 17, 1, 2), Smp(21, 3, 17, 2, 3), Smp(31, 4, 6, 2, 3),
     Smp(12, 0, 1, 1, 4), Smp(41, 1, 6, 2, 2), Smp(11, 2, 6, 1, 1), Smp(51, 0, 0, 1, 9)}

\* The BGP session: an IPv4 host route and an IPv6 FlowSpec rule, announced by the
\* two managers that share it.
MCNlri    == {route4, flow6}
MCSafiOf  == [n \in Nlri |-> IF n = route4 THEN "Ipv4Unicast" ELSE "FlowSpecV6"]
MCManager == {"rtbh", "flowspec"}
MCOwns    == [m \in Manager |-> IF m = "rtbh" THEN {route4} ELSE Nlri \ {route4}]

\* A router with every family, one with IPv4 FlowSpec only and no hold timer,
\* and one with the wrong AS number.
Full     == [safis |-> AnnounceSafi, hold |-> TRUE, valid |-> TRUE]
FlowV4   == [safis |-> {"Ipv4Unicast", "FlowSpecV4"}, hold |-> FALSE, valid |-> TRUE]
WrongAsn == [safis |-> AnnounceSafi, hold |-> TRUE, valid |-> FALSE]

MCPeerOpens == {Full, FlowV4, WrongAsn}

VARIABLE part

MCInit ==
    /\ part \in {"edge", "selection", "session"}
    /\ Start /\ SelectionIdle /\ Init
    /\ part # "session" => peer = Full

MCNext ==
    /\ UNCHANGED part
    /\ \/ part = "edge" /\ EdgeStep /\ UNCHANGED <<selectionVars, vars>>
       \/ part = "selection" /\ SelectionStep /\ UNCHANGED <<edgeVars, vars>>
       \/ part = "session" /\ Next /\ UNCHANGED <<edgeVars, selectionVars>>

MCSpec ==
    MCInit /\ [][MCNext]_<<edgeVars, selectionVars, vars, part>> /\ SessionFairness
=============================================================================
