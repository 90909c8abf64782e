------------------------------ MODULE Formats ------------------------------
(***************************************************************************)
(* What the daemon reads and writes at its edges, one input at a time: a   *)
(* configuration text is written block by block, a BGP message is encoded  *)
(* and read by the other side, an sFlow datagram is built sample by sample *)
(* and decoded.                                                            *)
(***************************************************************************)
EXTENDS Integers, Sequences, FiniteSets, SequencesExt

Config == INSTANCE ConfigParser
Bgp    == INSTANCE BgpCodec
Sflow  == INSTANCE SflowDecode

CONSTANTS
    Block,        \* configuration blocks: a directive line, or a whole tenant
    Follower,     \* the blocks a third position is tried with
    MaxBlocks,    \* bound on the blocks of a text
    Peer_Open,    \* OPEN messages
    Route,        \* routes to announce
    Rule,         \* FlowSpec rules
    FlowSample,   \* what the samples of a datagram can be
    MaxSamples    \* bound on the samples of a datagram

VARIABLES
    text,      \* the configuration: a sequence of blocks
    policy,    \* what parse_str made of it
    message,   \* a BGP message, or <<>>
    datagram   \* a sequence of flow samples

edgeVars == <<text, policy, message, datagram>>

Start ==
    /\ text = <<>> /\ policy = <<>>
    /\ message = <<>>
    /\ datagram = <<>>

\* A block's lines, each its own physical line.
Physical(line) == [words |-> line, continues |-> FALSE]
Lines(blocks)  == FlattenSeq(blocks)
Text(blocks)   == [i \in DOMAIN Lines(blocks) |-> Physical(Lines(blocks)[i])]

\* The operator appends a block and has the file parsed.
WriteBlock ==
    /\ message = <<>> /\ datagram = <<>>
    /\ Len(text) < MaxBlocks
    /\ \E b \in (IF Len(text) < 2 THEN Block ELSE Follower) :
        /\ text' = Append(text, b)
        /\ policy' = Config!parse_str(Text(text'))
    /\ UNCHANGED <<message, datagram>>

\* The session sends its OPEN, a route or a rule.
SendMessage ==
    /\ text = <<>> /\ datagram = <<>> /\ message = <<>>
    /\ \/ \E o \in Peer_Open : message' = <<[kind |-> "open", what |-> o]>>
       \/ \E r \in Route     : message' = <<[kind |-> "route", what |-> r]>>
       \/ \E r \in Rule      : message' = <<[kind |-> "rule", what |-> r]>>
    /\ UNCHANGED <<text, policy, datagram>>

\* An agent adds a sample to its datagram.
AddSample ==
    /\ text = <<>> /\ message = <<>>
    /\ Len(datagram) < MaxSamples
    /\ \E s \in FlowSample : datagram' = Append(datagram, s)
    /\ UNCHANGED <<text, policy, message>>

\* The next input.
Discard ==
    /\ edgeVars # <<<<>>, <<>>, <<>>, <<>>>>
    /\ text' = <<>> /\ policy' = <<>> /\ message' = <<>> /\ datagram' = <<>>

EdgeStep == WriteBlock \/ SendMessage \/ AddSample \/ Discard
-----------------------------------------------------------------------------
(* The configuration.                                                      *)

\* A second line of these replaces what the first one set.
LastWins == {"interface", "default", "metrics", "api", "xdp", "engine", "rpki-check-interval="}

Swapped(q, i) == [q EXCEPT ![i] = q[i + 1], ![i + 1] = q[i]]
SameList(a, b) == Len(a) = Len(b) /\ ToSet(a) = ToSet(b)
Lists == {"prefixes", "protected", "tenants", "shaping", "pops", "stateless_tcp"}

SamePolicy(p, q) ==
    /\ Len(p) = Len(q)
    /\ p # <<>> => \A f \in DOMAIN p[1] :
            IF f \in Lists THEN SameList(p[1][f], q[1][f]) ELSE p[1][f] = q[1][f]

\* A line broken in two by a backslash after its n-th word.
Broken(blocks, i, n) ==
    LET q == Lines(blocks) IN
    SubSeq(Text(blocks), 1, i - 1) \o
    <<[words |-> SubSeq(q[i], 1, n), continues |-> TRUE],
      [words |-> SubSeq(q[i], n + 1, Len(q[i])), continues |-> i = Len(q)]>> \o
    SubSeq(Text(blocks), i + 1, Len(q))

\* The layout of a configuration file does not matter: exchanging two blocks that
\* do not set the same single value changes neither whether parse accepts the
\* text nor what it means (a flowspec block may come before the rtbh block it
\* needs, duplicates are found in either order), and breaking any line in two
\* with a backslash, even the last line of the file, changes nothing.
LayoutIrrelevant ==
    /\ \A i \in 1..(Len(text) - 1) :
        LET d == Config!directive(text[i][1]) IN
        (d \in LastWins /\ d = Config!directive(text[i + 1][1]))
            \/ SamePolicy(policy, Config!parse_str(Text(Swapped(text, i))))
    /\ \A i \in DOMAIN Lines(text) : \A n \in 1..(Len(Lines(text)[i]) - 1) :
        Config!parse_str(Broken(text, i, n)) = policy

TtlOk(x) == x.max_ttl # <<>> => x.max_ttl[1] >= x.hold_down

\* A policy that parse returns is one the daemon can run, as far as the parser
\* looks (a dns-flux prefix too small for its count parses and is fatal at the start,
\* as an unreadable key file is): flowspec has the BGP session of an rtbh block to
\* use, whose identifier is not its peer's address however it was given, with a next hop and a community to announce blackholes
\* with (so that arming is never refused for want of one) and a time to live
\* that outlasts the hold-down; the DNS pool covers its window, the telemetry
\* names of points of presence are unique, the fast path's reply budget is never
\* zero, which the kernel reads as no limit, and neither are the engine's limits.
PolicyIsRunnable ==
    policy # <<>> =>
        LET p == policy[1] IN
        /\ p.flowspec # <<>> => p.rtbh # <<>> /\ TtlOk(p.flowspec[1])
        /\ p.rtbh # <<>> =>
            /\ p.rtbh[1].peer.u = "v4" => p.rtbh[1].router_id # p.rtbh[1].peer.ns
            /\ p.rtbh[1].next_hop_v4 \o p.rtbh[1].next_hop_v6 # <<>>
            /\ p.rtbh[1].communities # <<>>
            /\ TtlOk(p.rtbh[1])
        /\ p.dns_flux # <<>> => p.dns_flux[1].set \in 1..p.dns_flux[1].count
        /\ \A i, j \in DOMAIN p.pops :
            p.pops[i].name = p.pops[j].name \/ p.pops[i].agent = p.pops[j].agent => i = j
        /\ p.xdp # <<>> => p.xdp[1].syn_cookie_tx_cap # 0
        /\ p.engine.max_concurrent # 0 /\ p.engine.session_timeout # 0
        /\ p.engine.tproxy_port # 0
-----------------------------------------------------------------------------
(* BGP messages.                                                           *)

\* A message followed by the beginning of the next one, as in a read buffer.
Framed(bytes) == Bgp!decode_message(bytes \o Bgp!encode_keepalive)

OpenArrives(o) ==
    LET bytes == Bgp!encode_open(o) IN
    /\ Framed(bytes).ok
    /\ Framed(bytes).total = Len(bytes)
    /\ Framed(bytes).msg.open = o
    /\ \A n \in 0..(Len(bytes) - 1) : ~Bgp!decode_message(SubSeq(bytes, 1, n)).ok

RouteArrives(r) ==
    LET up   == Bgp!ReadUpdate(Bgp!build_announce(r))
        down == Bgp!ReadUpdate(Bgp!build_withdraw(r.prefix))
    IN  /\ up.announced = {Bgp!trunc(r.prefix)} /\ up.withdrawn = {}
        /\ up.next_hop = r.next_hop
        /\ IF r.communities = <<>> THEN up.communities = <<>>
           ELSE up.communities[1].value = FlattenSeq(r.communities)
        /\ down.withdrawn = up.announced /\ down.announced = {}
        /\ up.rules = {} /\ down.dropped_rules = {}
        /\ Framed(Bgp!build_announce(r)).total = Len(Bgp!build_announce(r))

RuleArrives(r) ==
    LET up   == Bgp!ReadUpdate(Bgp!build_flowspec_announce(r))
        down == Bgp!ReadUpdate(Bgp!build_flowspec_withdraw(r))
    IN  /\ up.rules = {[dst |-> Bgp!trunc(r.dst), protocol |-> r.protocol,
                        dst_port |-> r.dst_port]}
        /\ SubSeq(up.rate[1].value, 5, 8) = r.rate
        /\ down.dropped_rules = up.rules
        /\ up.announced = {} /\ down.withdrawn = {}

\* What is written to the session is what the other side reads: an OPEN keeps its
\* four-octet ASN, hold time, identifier and address families, ends where its
\* frame ends and is not understood before the last byte; a route is announced
\* with its prefix, host bits cleared, its next hop and its communities, also
\* when they need the two-byte attribute length; a FlowSpec rule keeps its
\* destination, protocol, port and rate; and a withdraw names exactly what the
\* announce named, without which the peer would keep the route.
WireExact ==
    message # <<>> =>
        CASE message[1].kind = "open"  -> OpenArrives(message[1].what)
          [] message[1].kind = "route" -> RouteArrives(message[1].what)
          [] message[1].kind = "rule"  -> RuleArrives(message[1].what)
-----------------------------------------------------------------------------
(* sFlow datagrams.                                                        *)

\* The agent's encoding: the fixed words of a sample (the number of records
\* last), its records, and records that claim more words than there are.
Zeros(n) == [i \in 1..n |-> 0]
RecordWords(r) == <<r.type, 4 + Len(r.header) + r.lie, r.protocol, r.frame, 0, Len(r.header)>>
                    \o r.header
SampleBody(s) ==
    LET recs == FlattenSeq([i \in DOMAIN s.records |-> RecordWords(s.records[i])])
        fix  == IF s.type % 4096 = 3 THEN Zeros(3) \o <<s.rate>> \o Zeros(6) ELSE Zeros(2) \o <<s.rate>> \o Zeros(4)
    IN  fix \o <<Len(s.records)>> \o recs
SampleWords(s) == <<s.type, Len(SampleBody(s))>> \o SampleBody(s)
Datagram(q) == <<5, 1, 7, 0, 0, 0, Len(q)>> \o FlattenSeq([i \in DOMAIN q |-> SampleWords(q[i])])

\* What the sample says: its readable records before the first that lies about
\* its length beyond the sample.  A sample or record of an enterprise's own says
\* the same as the standard one with its number: the comments of the decoder ask
\* for enterprise 0, its mask does not.
Broken_At(s) == {i \in DOMAIN s.records : s.records[i].lie > 0}
Told(s) ==
    LET good == {i \in DOMAIN s.records : \A j \in Broken_At(s) : i < j}
        seen(i) == IF /\ i \in good /\ s.records[i].type % 4096 = 1 /\ s.records[i].protocol = 1
                      /\ Len(s.records[i].header) = 3
                   THEN <<[src |-> s.records[i].header[1], dst |-> s.records[i].header[2],
                           dst_port |-> s.records[i].header[3], frame_len |-> s.records[i].frame,
                           sampling_rate |-> s.rate, agent |-> <<7>>]>>
                   ELSE <<>>
    IN  IF s.type % 4096 \in {1, 3} THEN FlattenSeq([i \in DOMAIN s.records |-> seen(i)]) ELSE <<>>

=============================================================================
