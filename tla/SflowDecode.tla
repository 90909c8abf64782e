---------------------------- MODULE SflowDecode ----------------------------
(***************************************************************************)
(* decode_datagram (crates/blackwall-flow/src/sflow.rs): an sFlow v5       *)
(* datagram to the packets it sampled.                                     *)
(*                                                                         *)
(* A datagram is a sequence of 32-bit words; the lengths in it count words *)
(* where the wire counts bytes.  A sampled packet header is the words of   *)
(* one model packet: <<src, dst, port>>, any other header does not parse.  *)
(***************************************************************************)
EXTENDS Integers, Sequences, SequencesExt

\* sample_type & 0xFFF: the format without the enterprise in the upper 20 bits.
format(type) == type % 4096

Failed(err) == [ok |-> FALSE, obs |-> err]

\* Cursor::take: n words of the buffer, if they are there.
take(buf, n) ==
    IF n \in 0..Len(buf)
    THEN [ok |-> TRUE, taken |-> SubSeq(buf, 1, n), rest |-> SubSeq(buf, n + 1, Len(buf))]
    ELSE [ok |-> FALSE, taken |-> <<>>, rest |-> <<>>]

\* decode_raw_header_record: protocol, frame length, stripped, length, header.
\* etherparse reads the addresses and ports of the header (external).
decode_raw_header_record(body, sampling_rate, agent) ==
    LET fixed  == take(body, 4)
        header == IF fixed.ok THEN take(fixed.rest, fixed.taken[4]) ELSE fixed
    IN  IF header.ok /\ fixed.taken[1] = 1 /\ Len(header.taken) = 3
        THEN <<[src |-> header.taken[1], dst |-> header.taken[2], dst_port |-> header.taken[3],
                frame_len |-> fixed.taken[2], sampling_rate |-> sampling_rate, agent |-> agent]>>
        ELSE <<>>

\* The records of a sample: the observations up to the first bad length, and
\* whether there was one.
RECURSIVE Records(_, _, _, _)
Records(buf, n, sampling_rate, agent) ==
    IF n = 0 THEN [ok |-> TRUE, obs |-> <<>>]
    ELSE LET head == take(buf, 2)
             body == IF head.ok THEN take(head.rest, head.taken[2]) ELSE head
         IN  IF ~body.ok THEN Failed(<<>>)
             ELSE LET rest == Records(body.rest, n - 1, sampling_rate, agent)
                  IN  [rest EXCEPT !.obs =
                        (IF format(head.taken[1]) = 1
                         THEN decode_raw_header_record(body.taken, sampling_rate, agent)
                         ELSE <<>>) \o @]

\* A flow sample has eight words before its records, the third the sampling rate;
\* an expanded one has eleven, the fourth the sampling rate.
Sample(body, fixed, rate_at, agent) ==
    LET head == take(body, fixed)
    IN  IF head.ok THEN Records(head.rest, head.taken[fixed], head.taken[rate_at], agent)
        ELSE Failed(<<>>)

decode_flow_sample(body, agent)          == Sample(body, 8, 3, agent)


decode_expanded_flow_sample(body, agent) == Sample(body, 11, 4, agent)

\* The samples of a datagram.  An error in a sample is counted and skipped, one
\* in the framing of the samples fails the datagram.
RECURSIVE Samples(_, _, _)
Samples(buf, n, agent) ==
    IF n = 0 THEN [ok |-> TRUE, obs |-> <<>>, errors |-> 0]
    ELSE LET head == take(buf, 2)
             body == IF head.ok THEN take(head.rest, head.taken[2]) ELSE head
         IN  IF ~body.ok THEN [ok |-> FALSE, obs |-> <<>>, errors |-> 0]
             ELSE LET result == CASE format(head.taken[1]) = 1 -> decode_flow_sample(body.taken, agent)
                                  [] format(head.taken[1]) = 3 ->
                                        decode_expanded_flow_sample(body.taken, agent)
                                  [] OTHER -> [ok |-> TRUE, obs |-> <<>>]
                      rest   == Samples(body.rest, n - 1, agent)
                  IN  IF ~rest.ok THEN rest
                      ELSE [rest EXCEPT !.obs = result.obs \o @,
                                        !.errors = @ + (IF result.ok THEN 0 ELSE 1)]

\* Version, address type, agent, sub-agent, sequence, uptime, number of samples.
\* An IPv4 agent is one word, an IPv6 agent four.
decode_datagram(bytes) ==
    LET head  == take(bytes, 2)
        agent == IF ~head.ok THEN head
                 ELSE IF head.taken[2] = 1 THEN take(head.rest, 1)
                 ELSE IF head.taken[2] = 2 THEN take(head.rest, 4)
                 ELSE [ok |-> FALSE, taken |-> <<>>, rest |-> <<>>]
        fixed == IF agent.ok THEN take(agent.rest, 4) ELSE agent
    IN  IF fixed.ok THEN Samples(fixed.rest, fixed.taken[4], agent.taken)
        ELSE [ok |-> FALSE, obs |-> <<>>, errors |-> 0]
=============================================================================
