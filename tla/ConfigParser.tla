---------------------------- MODULE ConfigParser ----------------------------
(***************************************************************************)
(* The configuration language (crates/blackwall-config): lexer.rs joins    *)
(* continued lines, parser.rs folds the lines into a Policy and checks it. *)
(*                                                                         *)
(* A word of the text is a record: k is the key in front of '=' ("" for a  *)
(* word without one), u says what the rest looks like (a keyword, a number *)
(* "num", a duration "h"/"m"/"s", an address "v4"/"v6", ...; "junk" parses *)
(* as nothing) and ns are the numbers in it.  A number too large for its   *)
(* type is junk.  Which error a rejected text yields is left out: parse    *)
(* stops at the first one and returns no policy, whatever it is.           *)
(***************************************************************************)
EXTENDS Integers, Sequences, SequencesExt

Number   == {"num"}
Duration == {"h", "m", "s"}
Address  == {"v4", "v6"}
Cidr     == {"net4", "net6"}
Anything == {"any", "num", "h", "m", "s", "v4", "v6", "net4", "net6", "sock", "junk"}

val(w) == w.ns[1]

\* parse_duration: digits and a unit, in seconds.
parse_duration(w) ==
    val(w) * (CASE w.u = "h" -> 3600 [] w.u = "m" -> 60 [] w.u = "s" -> 1)

-----------------------------------------------------------------------------
(* lex: a physical line is its words, comment removed, and whether it ends *)
(* in a backslash.                                                         *)

Lexed(s) == IF s.pending = <<>> THEN s.out ELSE Append(s.out, s.pending)

Joined(s, phys) ==
    LET acc == s.pending \o phys.words IN
    IF phys.continues THEN [s EXCEPT !.pending = acc]
    ELSE [out |-> Lexed([s EXCEPT !.pending = acc]), pending |-> <<>>]

lex(text) == Lexed(FoldLeft(Joined, [out |-> <<>>, pending |-> <<>>], text))
-----------------------------------------------------------------------------
(* Lines of key=value words.                                               *)

directive(line) == IF line[1].k = "" THEN line[1].u ELSE line[1].k
words(line)     == Tail(line)
Keys(ws)        == {ws[i].k : i \in DOMAIN ws}
Given(ws, k)    == k \in Keys(ws)
DistinctKeys(ws) == \A i, j \in DOMAIN ws : ws[i].k = ws[j].k => i = j

\* The value a HashMap or an assignment per word ends up with: the last.
Value(ws, k)    == ws[CHOOSE i \in DOMAIN ws :
                        ws[i].k = k /\ \A j \in DOMAIN ws : ws[j].k = k => j <= i]
Optional(ws, k) == IF Given(ws, k) THEN <<Value(ws, k)>> ELSE <<>>
ValOr(ws, k, d) == IF Given(ws, k) THEN val(Value(ws, k)) ELSE d
SecsOr(ws, k, d) == IF Given(ws, k) THEN <<parse_duration(Value(ws, k))>> ELSE d

\* Every word has a key of the directive and a value that parses as its type.
WellTyped(ws, kind) == \A i \in DOMAIN ws :
    ws[i].k \in DOMAIN kind /\ ws[i].u \in kind[ws[i].k]

Concat(ws, k) == FlattenSeq([i \in DOMAIN ws |-> IF ws[i].k = k THEN ws[i].ns ELSE <<>>])
NonZero(ns)   == 0 \notin ToSet(ns)
-----------------------------------------------------------------------------
\* EngineConfig::default.
EngineDefault == [max_concurrent |-> 1024, session_timeout |-> 60,
                  tproxy_port |-> 61000, nfqueue |-> 0]

\* The locals of parse before the first line; an Option is a sequence of at most
\* one element.
Initial ==
    [interface |-> <<>>, prefixes |-> <<>>, protected |-> <<>>, default_state |-> "Deception",
     tenants |-> <<>>, shaping |-> <<>>, banner_flux |-> <<>>, dns_flux |-> <<>>,
     rtbh |-> <<>>, flowspec |-> <<>>, metrics |-> <<>>, api |-> <<>>, pops |-> <<>>,
     engine |-> EngineDefault, flowtable |-> <<>>, xdp |-> <<>>, stateless_tcp |-> <<>>,
     shadow |-> FALSE, rpki_validator |-> <<>>, rpki_interval |-> 3600, instance |-> <<>>]

\* What one line makes of the policy p: p itself changed, or nothing.
Ok(p) == <<p>>
Err   == <<>>
Check(accepted, p) == IF accepted THEN Ok(p) ELSE Err

interface(p, ws) == Check(Len(ws) = 2, [p EXCEPT !.interface = <<ws[2]>>])
prefix(p, ws)    == IF Len(ws) = 1 /\ ws[1].u \in Cidr
                    THEN Ok([p EXCEPT !.prefixes = Append(@, ws[1])]) ELSE Err
protect(p, ws)   == IF Len(ws) = 1 /\ ws[1].u \in Cidr
                    THEN Ok([p EXCEPT !.protected = Append(@, ws[1])]) ELSE Err

default(p, ws) ==
    IF Len(ws) = 1 /\ ws[1].u \in {"deception", "drop"}
    THEN Ok([p EXCEPT !.default_state = IF ws[1].u = "drop" THEN "Closed" ELSE "Deception"])
    ELSE Err

banner_flux(p, ws) ==
    IF /\ p.banner_flux = <<>>
       /\ ws # <<>>
       /\ Len(ws) > 1 => ws[2].u \in Duration
    THEN Ok([p EXCEPT !.banner_flux =
                <<[period |-> IF Len(ws) > 1 THEN parse_duration(ws[2]) ELSE 6 * 3600]>>])
    ELSE Err

DnsFluxKind ==
    "server" :> Address @@ "zone" :> Anything @@ "name" :> Anything @@ "from" :> Cidr @@
    "count" :> Number @@ "set" :> Number @@ "period" :> Duration @@ "ttl" :> Duration @@
    "tsig" :> Anything

dns_flux(p, ws) ==
    IF /\ p.dns_flux = <<>>
       /\ WellTyped(ws, DnsFluxKind) /\ DistinctKeys(ws)
       /\ {"server", "zone", "name", "from", "count", "set", "tsig"} \subseteq Keys(ws)
       /\ val(Value(ws, "set")) >= 1
       /\ val(Value(ws, "count")) >= val(Value(ws, "set"))
    THEN Ok([p EXCEPT !.dns_flux =
                <<[count |-> val(Value(ws, "count")), set |-> val(Value(ws, "set")),
                   period |-> SecsOr(ws, "period", <<300>>), ttl |-> SecsOr(ws, "ttl", <<30>>)]>>])
    ELSE Err

RtbhKind ==
    "peer" :> Address @@ "local-as" :> Number @@ "peer-as" :> Number @@ "router-id" :> {"v4"} @@
    "next-hop-v4" :> {"v4"} @@ "next-hop-v6" :> {"v6"} @@ "max" :> Number @@
    "hold-down" :> Duration @@ "ttl" :> Duration @@ "community" :> {"communities"} @@
    "md5" :> Anything @@ "gtsm-hops" :> Number @@ "local-addr" :> Address @@
    "max-new-per-min" :> Number

\* The BGP identifier: router-id, or the IPv4 local address.
router_id(ws) ==
    IF Given(ws, "router-id") THEN <<Value(ws, "router-id").ns>>
    ELSE IF Given(ws, "local-addr") /\ Value(ws, "local-addr").u = "v4"
    THEN <<Value(ws, "local-addr").ns>>
    ELSE <<>>

TtlCovers(ws) ==
    Given(ws, "ttl") =>
        parse_duration(Value(ws, "ttl")) >= parse_duration(Value(ws, "hold-down"))

\* Mutant of PeerDiffers: a router-id that defaults to the local address is not
\* compared with the peer's address.
Mutant_ChecksGivenId(ws) ==
    Given(ws, "router-id") =>
        ~(Value(ws, "peer").u = "v4" /\ router_id(ws) = <<Value(ws, "peer").ns>>)

PeerDiffers(ws) == ~(Value(ws, "peer").u = "v4" /\ router_id(ws) = <<Value(ws, "peer").ns>>)

RtbhAccepted(ws) ==
    /\ WellTyped(ws, RtbhKind) /\ DistinctKeys(ws)
    /\ {"peer", "local-as", "peer-as", "max", "hold-down"} \subseteq Keys(ws)
    /\ val(Value(ws, "local-as")) = val(Value(ws, "peer-as"))
    /\ router_id(ws) # <<>>
    /\ PeerDiffers(ws)
    /\ Given(ws, "next-hop-v4") \/ Given(ws, "next-hop-v6")
    /\ TtlCovers(ws)
    /\ Given(ws, "gtsm-hops") => val(Value(ws, "gtsm-hops")) >= 1

rtbh(p, ws) ==
    IF p.rtbh = <<>> /\ RtbhAccepted(ws)
    THEN Ok([p EXCEPT !.rtbh =
            <<[peer |-> Value(ws, "peer"), router_id |-> router_id(ws)[1],
               next_hop_v4 |-> Optional(ws, "next-hop-v4"),
               next_hop_v6 |-> Optional(ws, "next-hop-v6"),
               max_blackholes |-> val(Value(ws, "max")),
               hold_down |-> parse_duration(Value(ws, "hold-down")),
               max_ttl |-> SecsOr(ws, "ttl", <<>>),
               communities |-> IF Given(ws, "community") THEN Value(ws, "community").ns ELSE <<666>>,
               gtsm_hops |-> Optional(ws, "gtsm-hops"), md5 |-> Optional(ws, "md5"),
               local_addr |-> Optional(ws, "local-addr"),
               max_new_per_min |-> Optional(ws, "max-new-per-min")]>>])
    ELSE Err

\* concentration and rate are floats: "num" is in tenths, "junk" covers NaN.
FlowSpecKind ==
    "concentration" :> Number @@ "max-flows" :> Number @@ "rate" :> Number @@
    "max-rules" :> Number @@ "hold-down" :> Duration @@ "ttl" :> Duration

FlowSpecAccepted(ws) ==
    /\ WellTyped(ws, FlowSpecKind) /\ DistinctKeys(ws)
    /\ {"concentration", "max-flows", "rate", "max-rules", "hold-down"} \subseteq Keys(ws)
    /\ TtlCovers(ws)
    /\ val(Value(ws, "concentration")) \in 0..10
    /\ val(Value(ws, "max-flows")) # 0
    /\ val(Value(ws, "rate")) >= 0

FlowSpecPolicy(ws) ==
    [concentration |-> val(Value(ws, "concentration")), max_flows |-> val(Value(ws, "max-flows")),
     rate |-> val(Value(ws, "rate")), max_rules |-> val(Value(ws, "max-rules")),
     hold_down |-> parse_duration(Value(ws, "hold-down")), max_ttl |-> SecsOr(ws, "ttl", <<>>)]

\* Mutant of flowspec: the rtbh block must come first.
Mutant_RtbhFirst(p, ws) ==
    IF p.flowspec = <<>> /\ p.rtbh # <<>> /\ FlowSpecAccepted(ws)
    THEN Ok([p EXCEPT !.flowspec = <<FlowSpecPolicy(ws)>>]) ELSE Err

flowspec(p, ws) ==
    IF p.flowspec = <<>> /\ FlowSpecAccepted(ws)
    THEN Ok([p EXCEPT !.flowspec = <<FlowSpecPolicy(ws)>>]) ELSE Err

metrics(p, ws) ==
    Check(WellTyped(ws, "listen" :> {"sock"}),
          [p EXCEPT !.metrics = IF ws = <<>> THEN @ ELSE Optional(ws, "listen")])

api(p, ws) ==
    Check(/\ WellTyped(ws, "listen" :> {"sock"} @@ "token-file" :> Anything)
          /\ Given(ws, "listen") /\ Given(ws, "token-file"),
          [p EXCEPT !.api = Optional(ws, "listen") \o Optional(ws, "token-file")])

\* The name must be a legal label value: junk is one with another character.
pop(p, ws) ==
    IF /\ ws # <<>>
       /\ WellTyped(Tail(ws), "agent" :> Address @@ "sampling" :> Number)
       /\ Given(Tail(ws), "agent") /\ Given(Tail(ws), "sampling")
       /\ ws[1].u # "junk"
       /\ \A i \in DOMAIN p.pops :
            p.pops[i].agent # Value(Tail(ws), "agent") /\ p.pops[i].name # ws[1]
    THEN Ok([p EXCEPT !.pops = Append(@, [name |-> ws[1], agent |-> Value(Tail(ws), "agent"),
                                          sampling |-> val(Value(Tail(ws), "sampling"))])])
    ELSE Err

engine(p, ws) ==
    IF /\ WellTyped(ws, "max-concurrent" :> Number @@ "session-timeout" :> Number @@
                        "tproxy-port" :> Number @@ "nfqueue" :> Number)
       /\ \A i \in DOMAIN ws : ws[i].k # "nfqueue" => val(ws[i]) # 0
    THEN Ok([p EXCEPT !.engine =
            [max_concurrent  |-> ValOr(ws, "max-concurrent", @.max_concurrent),
             session_timeout |-> ValOr(ws, "session-timeout", @.session_timeout),
             tproxy_port     |-> ValOr(ws, "tproxy-port", @.tproxy_port),
             nfqueue         |-> ValOr(ws, "nfqueue", @.nfqueue)]])
    ELSE Err

\* A device 0 is an empty name in the list, which is skipped.
flowtable(p, ws) ==
    IF /\ p.flowtable = <<>>
       /\ WellTyped(ws, "devices" :> {"list"})
       /\ ToSet(Concat(ws, "devices")) \ {0} # {}
    THEN Ok([p EXCEPT !.flowtable =
                <<SelectSeq(Concat(ws, "devices"), LAMBDA dev : dev # 0)>>])
    ELSE Err

XdpKind ==
    "interface" :> Anything @@ "mode" :> {"auto", "native", "generic"} @@
    "default-rate-limit" :> Number @@ "cookie-ports" :> {"list"} @@
    "afxdp-udp-ports" :> {"list"} @@ "afxdp-udp-banner" :> Anything @@
    "syn-cookie-tx-cap" :> Number

\* Every xdp line starts from the defaults: it replaces an earlier one whole.
xdp(p, ws) ==
    IF /\ WellTyped(ws, XdpKind)
       /\ \A i \in DOMAIN ws :
            ws[i].k \in {"default-rate-limit", "syn-cookie-tx-cap"} => val(ws[i]) # 0
       /\ NonZero(Concat(ws, "cookie-ports")) /\ NonZero(Concat(ws, "afxdp-udp-ports"))
    THEN Ok([p EXCEPT !.xdp =
            <<[interface |-> Optional(ws, "interface"),
               mode |-> IF Given(ws, "mode") THEN Value(ws, "mode").u ELSE "auto",
               default_rate_limit |-> Optional(ws, "default-rate-limit"),
               cookie_ports |-> Concat(ws, "cookie-ports"),
               afxdp_udp_ports |-> Concat(ws, "afxdp-udp-ports"),
               afxdp_udp_banner |-> Optional(ws, "afxdp-udp-banner"),
               syn_cookie_tx_cap |-> ValOr(ws, "syn-cookie-tx-cap", 1000)]>>])
    ELSE Err

stateless_tcp(p, ws) ==
    Check(WellTyped(ws, "ports" :> {"list"}) /\ NonZero(Concat(ws, "ports")),
          [p EXCEPT !.stateless_tcp = @ \o Concat(ws, "ports")])

shadow(p, ws) == Check(ws = <<>>, [p EXCEPT !.shadow = TRUE])

\* instance=, rpki-validator= and rpki-check-interval= are one word; "empty" is
\* the value of a word that ends with '='.
instance(p, w, ws) ==
    Check(ws = <<>> /\ w.u # "empty" /\ p.instance = <<>>, [p EXCEPT !.instance = <<w>>])
rpki_validator(p, w, ws) ==
    Check(ws = <<>> /\ w.u # "empty" /\ p.rpki_validator = <<>>,
          [p EXCEPT !.rpki_validator = <<w>>])
rpki_check_interval(p, w, ws) ==
    IF ws = <<>> /\ w.u \in Duration
    THEN Ok([p EXCEPT !.rpki_interval = parse_duration(w)]) ELSE Err
-----------------------------------------------------------------------------
(* shape <iface> (auto | bandwidth <N>mbit) [up ...] [rtt <N>ms]: after    *)
(* the download bandwidth come pairs of a keyword and its value.           *)

Fixed(w) == [fixed |-> w.ns]
Auto     == [fixed |-> <<>>]
bandwidth(w) == IF w.u = "auto" THEN Auto ELSE Fixed(w)

\* The last value of the keyword among the pairs.
PairValue(rest, key) ==
    LET at == {i \in DOMAIN rest : i % 2 = 1 /\ rest[i].u = key}
    IN  IF at = {} THEN <<>> ELSE <<rest[1 + (CHOOSE i \in at : \A j \in at : j <= i)]>>

parse_shape(ws) ==
    LET n        == IF Len(ws) >= 2 /\ ws[2].u = "bandwidth" THEN 3 ELSE 2
        rest     == SubSeq(ws, n + 1, Len(ws))
        accepted ==
            /\ Len(ws) >= n
            /\ IF n = 3 THEN ws[3].u = "mbit" ELSE ws[2].u = "auto"
            /\ Len(rest) % 2 = 0
            /\ \A i \in DOMAIN rest : i % 2 = 1 =>
                    \/ rest[i].u = "up" /\ rest[i + 1].u \in {"auto", "mbit"}
                    \/ rest[i].u = "rtt" /\ rest[i + 1].u = "ms"
    IN  IF accepted
        THEN <<[iface |-> ws[1], download |-> bandwidth(ws[n]),
                upload |-> bandwidth(IF PairValue(rest, "up") = <<>> THEN ws[n]
                                     ELSE PairValue(rest, "up")[1]),
                rtt_ms |-> PairValue(rest, "rtt")]>>
        ELSE <<>>

shape(p, ws) ==
    LET rule == parse_shape(ws) IN
    IF rule = <<>> THEN Err ELSE Ok([p EXCEPT !.shaping = Append(@, rule[1])])
-----------------------------------------------------------------------------
(* Tenant blocks: while one is open, tenant holds it and only owns, allow  *)
(* and } are known.                                                        *)

AllowAccepted(ws) ==
    Len(ws) = 3 /\ ws[1].u \in {"tcp", "udp"} /\ ws[2].u \in Number
    /\ ws[3].u \in {"host", "incus", "nat"}

InTenant(s, line) ==
    LET t == s.tenant[1] ws == words(line) IN
    CASE directive(line) = "}" ->
            [s EXCEPT !.tenant = <<>>, !.policy.tenants = Append(@, t)]
      [] directive(line) = "owns" ->
            IF ws # <<>> /\ \A i \in DOMAIN ws : ws[i].u \in Address
            THEN [s EXCEPT !.tenant = <<[t EXCEPT !.owned = @ \o ws]>>]
            ELSE [s EXCEPT !.ok = FALSE]
      [] directive(line) = "allow" ->
            IF AllowAccepted(ws)
            THEN [s EXCEPT !.tenant = <<[t EXCEPT !.allows = Append(@, ws)]>>]
            ELSE [s EXCEPT !.ok = FALSE]
      [] OTHER -> [s EXCEPT !.ok = FALSE]

OpenTenant(s, ws) ==
    IF Len(ws) = 2 /\ ws[2].u = "{"
    THEN [s EXCEPT !.tenant = <<[name |-> ws[1], owned |-> <<>>, allows |-> <<>>]>>]
    ELSE [s EXCEPT !.ok = FALSE]
-----------------------------------------------------------------------------
(* parse.                                                                  *)

\* One arm of the match on the directive.
Arm(p, line) ==
    LET ws == words(line) IN
    CASE directive(line) = "interface"     -> interface(p, ws)
      [] directive(line) \in {"ipv4", "ipv6"} -> prefix(p, ws)
      [] directive(line) = "protect"       -> protect(p, ws)
      [] directive(line) = "default"       -> default(p, ws)
      [] directive(line) = "shape"         -> shape(p, ws)
      [] directive(line) = "banner-flux"   -> banner_flux(p, ws)
      [] directive(line) = "dns-flux"      -> dns_flux(p, ws)
      [] directive(line) = "rtbh"          -> rtbh(p, ws)
      [] directive(line) = "flowspec"      -> flowspec(p, ws)
      [] directive(line) = "metrics"       -> metrics(p, ws)
      [] directive(line) = "api"           -> api(p, ws)
      [] directive(line) = "pop"           -> pop(p, ws)
      [] directive(line) = "engine"        -> engine(p, ws)
      [] directive(line) = "flowtable"     -> flowtable(p, ws)
      [] directive(line) = "xdp"           -> xdp(p, ws)
      [] directive(line) = "stateless-tcp" -> stateless_tcp(p, ws)
      [] directive(line) = "shadow"        -> shadow(p, ws)
      [] directive(line) = "instance="     -> instance(p, line[1], ws)
      [] directive(line) = "rpki-validator=" -> rpki_validator(p, line[1], ws)
      [] directive(line) = "rpki-check-interval=" -> rpki_check_interval(p, line[1], ws)
      [] OTHER -> Err

ParseLine(s, line) ==
    IF ~s.ok THEN s
    ELSE IF s.tenant # <<>> THEN InTenant(s, line)
    ELSE IF directive(line) = "tenant" THEN OpenTenant(s, words(line))
    ELSE LET r == Arm(s.policy, line)
         IN  IF r = Err THEN [s EXCEPT !.ok = FALSE] ELSE [s EXCEPT !.policy = r[1]]

\* The checks after the last line.
AtEof(s) ==
    IF /\ s.ok /\ s.tenant = <<>>
       /\ s.policy.interface # <<>>
       /\ s.policy.flowspec # <<>> => s.policy.rtbh # <<>>
    THEN Ok(s.policy) ELSE Err

parse(lines) ==
    AtEof(FoldLeft(ParseLine, [ok |-> TRUE, tenant |-> <<>>, policy |-> Initial], lines))

parse_str(text) == parse(lex(text))
=============================================================================
