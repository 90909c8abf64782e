------------------------------ MODULE MCDaemons -----------------------------
(***************************************************************************)
(* The tasks of `blackwalld run` and `blackwalld flow` outside the         *)
(* mitigation managers, which share no state with one another: discovery,  *)
(* the interactive engine, the rotations, the banner file and shaping of   *)
(* the one; the start-up with the kill switch and the rate cap, the RPKI   *)
(* check and the BGP supervisor of the other.  A behaviour has one of them *)
(* active.                                                                 *)
(***************************************************************************)
EXTENDS Discovery, DeceptionEngine, Flux, Shaping, FlowDaemon, Observers

VARIABLE part

MCBase == <<Tenant("acme", <<"a1", "a2">>, <<Rule("https", "web", NoScope)>>)>>
MCHost == <<[addr |-> "a2", port |-> "ssh", listening |-> TRUE],
            [addr |-> "a2", port |-> "smtp", listening |-> FALSE]>>
MCInstances == <<"i1", "i2">>
MCOffers == [i1 |-> [addresses |-> <<"a1", "x9">>, ports |-> <<"dns", Malformed>>],
             i2 |-> [addresses |-> <<"a3", "a1">>, ports |-> <<"smtp", "https">>]]

Client(port, bytes) == [port |-> port, bytes |-> bytes]

MCScripts == {
    Client(25, <<"EHLO">> \o CRLF \o <<"DATA">> \o CRLF \o <<"QUIT">> \o CRLF \o <<".">> \o CRLF \o <<"QUIT">> \o CRLF),
    Client(6379, <<"*1">> \o CRLF \o <<"$1">> \o CRLF \o <<"PING">> \o CRLF \o <<"QUIT", LF>>),
    Client(6379, <<"*2">> \o CRLF \o <<"$1">> \o CRLF \o <<"AUTH">> \o CRLF \o <<"$0">> \o CRLF \o CRLF),
    Client(22, <<"SSH">> \o CRLF), Client(80, <<"GET">> \o CRLF \o CRLF),
    Client(5432, <<"hello">>), Client(9999, <<>>)}

MCShapeRules == <<[iface |-> "eth0", download |-> Auto, upload |-> Auto],
                  [iface |-> "eth0", download |-> 3, upload |-> 0]>>

MCItems == [p \in Planes |-> IF p = "flowspec" THEN {"t1", "t2", "t3"} ELSE {"t1"}]
MCListed == <<"p24", "p16", "q", "p24">>
MCNetworkOf == [p24 |-> "p0", p16 |-> "p0", q |-> "q0"]

MCInit ==
    /\ part \in {"discovery", "engine", "flux", "file", "shaping", "flow", "rate", "rpki", "supervisor"}
    /\ Init /\ EngineInit /\ FluxInit /\ FileInit /\ ShapingInit /\ FlowInit /\ ObserversInit
    /\ part # "discovery" => running = {} /\ incus
    /\ part # "file" => file.content = "v1"

RunTask ==
    \/ part = "discovery" /\ Next /\ UNCHANGED <<engineVars, fluxVars, shapingVars>>
    \/ part = "engine" /\ EngineNext /\ UNCHANGED <<vars, fluxVars, shapingVars>>
    \/ /\ part = "flux" /\ FluxNext
       /\ UNCHANGED <<vars, engineVars, bannerVars, shapingVars>>
    \/ /\ part = "file" /\ FileNext
       /\ UNCHANGED <<vars, engineVars, clock, dnsVars, persona, shapingVars>>
    \/ part = "shaping" /\ ShapingNext /\ UNCHANGED <<vars, engineVars, fluxVars>>

\* The start-up, the kill switch and the shadow sessions are looked at with one
\* item and no time passing, the rate cap with larger batches and a long uptime, in a live
\* session once the managers that share it are up.
SmallFlow ==
    /\ FlowNext
    /\ uptime' = 0
    /\ \A p \in Planes : managers'[p].batch \subseteq {"t1"}

RateFlow ==
    \/ StartFlow(FALSE) \/ SpawnRtbh \/ SpawnFlowSpec \/ Elapse
    \/ \E p \in Limited : Receive(p) \/ Announce(p) \/ Clear(p)

FlowTask ==
    \/ part = "flow" /\ SmallFlow /\ UNCHANGED observerVars
    \/ part = "rate" /\ RateFlow /\ UNCHANGED observerVars
    \/ part = "rpki" /\ RpkiNext /\ UNCHANGED flowVars
    \/ part = "supervisor" /\ SupervisorNext /\ UNCHANGED flowVars

MCNext ==
    /\ UNCHANGED part
    /\ \/ RunTask /\ UNCHANGED <<flowVars, observerVars>>
       \/ FlowTask /\ UNCHANGED <<vars, engineVars, fluxVars, shapingVars>>

MCSpec ==
    /\ MCInit
    /\ [][MCNext]_<<vars, engineVars, fluxVars, shapingVars, flowVars, observerVars, part>>
    /\ EngineFairness
=============================================================================
