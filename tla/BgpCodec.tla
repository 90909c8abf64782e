------------------------------ MODULE BgpCodec ------------------------------
(***************************************************************************)
(* The BGP wire format of crates/blackwall-bgp: framing and OPEN,          *)
(* KEEPALIVE and NOTIFICATION (message.rs), route UPDATEs (update.rs) and  *)
(* FlowSpec UPDATEs (flowspec.rs).  Blackwall never reads an UPDATE, so    *)
(* the reader of one is the peer's, after RFC 4271, 4760, 8955 and 8956.   *)
(*                                                                         *)
(* Bytes are 0..255; a number wider than 16 bits, an address and a rate    *)
(* are the sequence of their octets.  A prefix is [v6, addr, bits].        *)
(***************************************************************************)
EXTENDS Integers, Sequences, SequencesExt

u16(n)       == <<n \div 256, n % 256>>
from_u16(bs) == 256 * bs[1] + bs[2]
From(bs, n)  == SubSeq(bs, n + 1, Len(bs))     \* bs without its first n bytes
Upto(bs, n)  == SubSeq(bs, 1, n)
Fail         == [ok |-> FALSE]

HEADER_LEN == 19
MARKER     == [i \in 1..16 |-> 255]

Open         == 1
Update       == 2
Notification == 3
Keepalive    == 4

encode_header(msg_type, body) == MARKER \o u16(HEADER_LEN + Len(body)) \o <<msg_type>> \o body

\* The type and the total length, if the header is sound.
parse_header(bytes) ==
    IF /\ Len(bytes) >= HEADER_LEN
       /\ Upto(bytes, 16) = MARKER
       /\ from_u16(From(bytes, 16)) \in HEADER_LEN..4096
    THEN [ok |-> TRUE, type |-> bytes[19], total |-> from_u16(From(bytes, 16))]
    ELSE Fail
-----------------------------------------------------------------------------
(* Type-length-value lists: optional parameters and capabilities.          *)

RECURSIVE Tlvs(_)
Tlvs(region) ==
    IF region = <<>> THEN [ok |-> TRUE, items |-> <<>>]
    ELSE IF Len(region) < 2 \/ Len(region) < 2 + region[2] THEN Fail
    ELSE LET rest == Tlvs(From(region, 2 + region[2])) IN
         IF ~rest.ok THEN Fail
         ELSE [ok |-> TRUE,
               items |-> <<[type |-> region[1], value |-> SubSeq(region, 3, 2 + region[2])]>>
                            \o rest.items]

Family == <<"ipv4_unicast", "ipv6_unicast", "flowspec_v4", "flowspec_v6">>
afi(f)  == IF f \in {"ipv4_unicast", "flowspec_v4"} THEN 1 ELSE 2
safi(f) == IF f \in {"ipv4_unicast", "ipv6_unicast"} THEN 1 ELSE 133

CAP_MP_BGP    == 1
CAP_4OCTET_AS == 65
AS_TRANS      == 23456

Capabilities(o) ==
    <<CAP_4OCTET_AS, 4>> \o o.asn \o
    FlattenSeq([i \in 1..4 |->
        IF Family[i] \in o.families
        THEN <<CAP_MP_BGP, 4>> \o u16(afi(Family[i])) \o <<0, safi(Family[i])>> ELSE <<>>])

\* The legacy two-octet field: AS_TRANS when the ASN does not fit.
my_as(asn) == IF asn[1] = 0 /\ asn[2] = 0 THEN From(asn, 2) ELSE u16(AS_TRANS)

encode_open(o) ==
    LET caps == Capabilities(o)
        opts == <<2, Len(caps)>> \o caps
    IN  encode_header(Open,
            <<4>> \o my_as(o.asn) \o o.hold_time \o o.router_id \o <<Len(opts)>> \o opts)

\* The capabilities of all the Capabilities parameters, in order.
RECURSIVE CapsOf(_)
CapsOf(params) ==
    IF params = <<>> THEN [ok |-> TRUE, items |-> <<>>]
    ELSE LET rest == CapsOf(Tail(params))
             here == IF Head(params).type = 2 THEN Tlvs(Head(params).value)
                     ELSE [ok |-> TRUE, items |-> <<>>]
         IN  IF here.ok /\ rest.ok THEN [ok |-> TRUE, items |-> here.items \o rest.items]
             ELSE Fail

Offered(caps, f) == \E i \in DOMAIN caps :
    /\ caps[i].type = CAP_MP_BGP /\ Len(caps[i].value) = 4
    /\ from_u16(caps[i].value) = afi(f) /\ caps[i].value[4] = safi(f)

asn_4octet(caps) == SelectSeq(caps, LAMBDA c : c.type = CAP_4OCTET_AS /\ Len(c.value) = 4)

decode_open(body) ==
    IF Len(body) < 10 \/ Len(body) < 10 + body[10] THEN Fail
    ELSE LET params == Tlvs(SubSeq(body, 11, 10 + body[10]))
             caps   == IF params.ok THEN CapsOf(params.items) ELSE Fail
         IN  IF ~caps.ok THEN Fail
             ELSE [ok |-> TRUE,
                   open |-> [asn |-> IF asn_4octet(caps.items) # <<>>
                                     THEN Last(asn_4octet(caps.items)).value
                                     ELSE <<0, 0>> \o SubSeq(body, 2, 3),
                             hold_time |-> SubSeq(body, 4, 5), router_id |-> SubSeq(body, 6, 9),
                             families |-> {f \in ToSet(Family) : Offered(caps.items, f)}]]

encode_keepalive == encode_header(Keepalive, <<>>)
encode_notification(n) == encode_header(Notification, <<n.code, n.subcode>> \o n.data)
decode_notification(body) ==
    IF Len(body) < 2 THEN Fail
    ELSE [ok |-> TRUE,
          notification |-> [code |-> body[1], subcode |-> body[2], data |-> From(body, 2)]]

\* One message off the front of the read buffer, and its length.
decode_message(bytes) ==
    LET h == parse_header(bytes) IN
    IF ~h.ok \/ Len(bytes) < h.total THEN Fail
    ELSE LET body == SubSeq(bytes, HEADER_LEN + 1, h.total)
             msg  == CASE h.type = Open         -> decode_open(body)
                       [] h.type = Notification -> decode_notification(body)
                       [] h.type = Keepalive    -> [ok |-> TRUE]
                       [] h.type = Update       -> [ok |-> TRUE]
                       [] OTHER                 -> Fail
         IN  IF ~msg.ok THEN Fail
             ELSE [ok |-> TRUE, type |-> h.type, msg |-> msg, total |-> h.total]
-----------------------------------------------------------------------------
(* UPDATE: route announces and withdraws.                                  *)

\* Octet i of the address of p with the host bits cleared.
Masked(p, i) ==
    LET keep == IF p.bits >= 8 * i THEN 8 ELSE IF p.bits <= 8 * (i - 1) THEN 0
                ELSE p.bits - 8 * (i - 1)
    IN  (p.addr[i] \div 2^(8 - keep)) * 2^(8 - keep)

trunc(p)  == [p EXCEPT !.addr = [i \in DOMAIN p.addr |-> Masked(p, i)]]
nbytes(p) == (p.bits + 7) \div 8

\* Mutant of encode_nlri: the octet the prefix ends in is left out.
Mutant_DropsPartial(p) == <<p.bits>> \o Upto(trunc(p).addr, p.bits \div 8)

encode_nlri(p) == <<p.bits>> \o Upto(trunc(p).addr, nbytes(p))

WELL_KNOWN             == 64
OPT_TRANS              == 192
OPT_NON_TRANS          == 128
EXTENDED_LEN           == 16
ATTR_ORIGIN            == 1
ATTR_AS_PATH           == 2
ATTR_NEXT_HOP          == 3
ATTR_COMMUNITIES       == 8
ATTR_MP_REACH          == 14
ATTR_MP_UNREACH        == 15
ATTR_EXT_COMMUNITIES   == 16
ATTR_LARGE_COMMUNITIES == 32

push_attr(flags, type_code, value) ==
    (IF Len(value) <= 255 THEN <<flags, type_code, Len(value)>>
     ELSE <<flags + EXTENDED_LEN, type_code>> \o u16(Len(value))) \o value

Unless(absent, bytes) == IF absent THEN <<>> ELSE bytes

CommunityAttrs(r) ==
    Unless(r.communities = <<>>,
           push_attr(OPT_TRANS, ATTR_COMMUNITIES, FlattenSeq(r.communities))) \o
    Unless(r.large_communities = <<>>,
           push_attr(OPT_TRANS, ATTR_LARGE_COMMUNITIES, FlattenSeq(r.large_communities)))

update(withdrawn, attrs, nlri) ==
    encode_header(Update, u16(Len(withdrawn)) \o withdrawn \o u16(Len(attrs)) \o attrs \o nlri)

\* The caller gives a next hop of the prefix's family; anything else panics.
build_announce(r) ==
    LET base  == push_attr(WELL_KNOWN, ATTR_ORIGIN, <<r.origin>>) \o
                 push_attr(WELL_KNOWN, ATTR_AS_PATH, <<>>)
        reach == u16(2) \o <<1, 16>> \o r.next_hop \o <<0>> \o encode_nlri(r.prefix)
    IN  IF r.prefix.v6
        THEN update(<<>>, base \o push_attr(OPT_NON_TRANS, ATTR_MP_REACH, reach)
                            \o CommunityAttrs(r), <<>>)
        ELSE update(<<>>, base \o push_attr(WELL_KNOWN, ATTR_NEXT_HOP, r.next_hop)
                            \o CommunityAttrs(r), encode_nlri(r.prefix))

build_withdraw(p) ==
    IF p.v6
    THEN update(<<>>, push_attr(OPT_NON_TRANS, ATTR_MP_UNREACH,
                                u16(2) \o <<1>> \o encode_nlri(p)), <<>>)
    ELSE update(encode_nlri(p), <<>>, <<>>)
-----------------------------------------------------------------------------
(* UPDATE: FlowSpec rules [dst, protocol, dst_port, rate], protocol and    *)
(* port as sequences of at most one element.                               *)

COMP_DST_PREFIX == 1
COMP_IP_PROTO   == 3
COMP_DST_PORT   == 5

\* One {op, value} pair: end of list, equal, and the length of the value.
push_numeric_eq(value) == <<128 + (IF Len(value) = 2 THEN 16 ELSE 0) + 1>> \o value

Components(r) ==
    <<COMP_DST_PREFIX, r.dst.bits>> \o Unless(~r.dst.v6, <<0>>)
        \o Upto(trunc(r.dst).addr, nbytes(r.dst)) \o
    Unless(r.protocol = <<>>, <<COMP_IP_PROTO>> \o push_numeric_eq(r.protocol)) \o
    Unless(r.dst_port = <<>>, <<COMP_DST_PORT>> \o push_numeric_eq(
        IF r.dst_port[1] < 256 THEN r.dst_port ELSE u16(r.dst_port[1])))

encode_flowspec_nlri(r) ==
    LET comps == Components(r)
    IN  (IF Len(comps) < 240 THEN <<Len(comps)>> ELSE u16(61440 + Len(comps))) \o comps

traffic_rate_community(rate) == <<128, 6, 0, 0>> \o rate
afi_of(r) == IF r.dst.v6 THEN 2 ELSE 1

build_flowspec_announce(r) ==
    update(<<>>,
        push_attr(WELL_KNOWN, ATTR_ORIGIN, <<0>>) \o push_attr(WELL_KNOWN, ATTR_AS_PATH, <<>>) \o
        push_attr(OPT_TRANS, ATTR_EXT_COMMUNITIES, traffic_rate_community(r.rate)) \o
        push_attr(OPT_NON_TRANS, ATTR_MP_REACH,
                  u16(afi_of(r)) \o <<133, 0, 0>> \o encode_flowspec_nlri(r)),
        <<>>)

build_flowspec_withdraw(r) ==
    update(<<>>, push_attr(OPT_NON_TRANS, ATTR_MP_UNREACH,
                           u16(afi_of(r)) \o <<133>> \o encode_flowspec_nlri(r)), <<>>)
-----------------------------------------------------------------------------
(* The peer's reader.                                                      *)

RECURSIVE AttrsOf(_)
AttrsOf(bs) ==
    IF bs = <<>> THEN <<>>
    ELSE LET long == (bs[1] \div 16) % 2 = 1
             len  == IF long THEN from_u16(From(bs, 2)) ELSE bs[3]
             at   == IF long THEN 4 ELSE 3
         IN  <<[type |-> bs[2], value |-> SubSeq(bs, at + 1, at + len)]>>
                \o AttrsOf(From(bs, at + len))

Pad(bs, n) == bs \o [i \in 1..(n - Len(bs)) |-> 0]
ReadPrefix(bs, v6) == [v6 |-> v6, bits |-> bs[1], addr |-> Pad(From(bs, 1), IF v6 THEN 16 ELSE 4)]

\* The components of a FlowSpec NLRI: destination, protocol, port.
RECURSIVE ReadNumeric(_, _)
ReadNumeric(bs, comp) ==
    IF bs = <<>> THEN <<>>
    ELSE LET len == IF (bs[2] \div 16) % 4 = 1 THEN 2 ELSE 1
             v   == SubSeq(bs, 3, 2 + len)
         IN  (IF bs[1] = comp THEN <<IF len = 2 THEN from_u16(v) ELSE v[1]>> ELSE <<>>)
                \o ReadNumeric(From(bs, 2 + len), comp)

ReadRule(nlri, v6) ==
    LET comps == From(nlri, 1)
        n     == (comps[2] + 7) \div 8
        at    == IF v6 THEN 3 ELSE 2
        rest  == From(comps, at + n)
    IN  [dst |-> ReadPrefix(<<comps[2]>> \o SubSeq(comps, at + 1, at + n), v6),
         protocol |-> ReadNumeric(rest, COMP_IP_PROTO),
         dst_port |-> ReadNumeric(rest, COMP_DST_PORT)]

OfType(attrs, t) == SelectSeq(attrs, LAMBDA a : a.type = t)

\* What an UPDATE announces and withdraws, of plain routes and of FlowSpec rules.
ReadUpdate(bytes) ==
    LET body  == From(bytes, HEADER_LEN)
        wlen  == from_u16(body)
        alen  == from_u16(From(body, 2 + wlen))
        attrs == AttrsOf(SubSeq(body, 5 + wlen, 4 + wlen + alen))
        tail  == From(body, 4 + wlen + alen)
        reach == OfType(attrs, ATTR_MP_REACH)
        away  == OfType(attrs, ATTR_MP_UNREACH)
        v6(a) == from_u16(a.value) = 2
        after(a, n) == From(a.value, n)
    IN  [announced |->
            (IF tail # <<>> THEN {ReadPrefix(tail, FALSE)} ELSE {}) \cup
            (IF reach # <<>> /\ reach[1].value[3] = 1
             THEN {ReadPrefix(after(reach[1], 5 + reach[1].value[4]), v6(reach[1]))} ELSE {}),
         withdrawn |->
            (IF wlen # 0 THEN {ReadPrefix(SubSeq(body, 3, 2 + wlen), FALSE)} ELSE {}) \cup
            (IF away # <<>> /\ away[1].value[3] = 1
             THEN {ReadPrefix(after(away[1], 3), v6(away[1]))} ELSE {}),
         rules |-> IF reach # <<>> /\ reach[1].value[3] = 133
                   THEN {ReadRule(after(reach[1], 5), v6(reach[1]))} ELSE {},
         dropped_rules |-> IF away # <<>> /\ away[1].value[3] = 133
                   THEN {ReadRule(after(away[1], 3), v6(away[1]))} ELSE {},
         next_hop |-> IF OfType(attrs, ATTR_NEXT_HOP) # <<>> THEN OfType(attrs, ATTR_NEXT_HOP)[1].value
                      ELSE IF reach # <<>> THEN SubSeq(reach[1].value, 5, 4 + reach[1].value[4])
                      ELSE <<>>,
         communities |-> OfType(attrs, ATTR_COMMUNITIES),
         rate |-> OfType(attrs, ATTR_EXT_COMMUNITIES)]
=============================================================================
