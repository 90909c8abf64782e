----------------------------- MODULE Dataplane -----------------------------
(***************************************************************************)
(* The deception data plane of one box: the XDP program attached by        *)
(* `blackwalld flow`, the nft classifier and the NFQUEUE responder of      *)
(* `blackwalld run`, and the cookie secret the two daemons share through   *)
(* Postgres.  Either daemon may stop, fail half way through its start, or  *)
(* be killed, at any time.                                                 *)
(***************************************************************************)
EXTENDS XdpFilter, FiniteSets

CONSTANTS Key,                \* the secrets random_secret may draw
          Managed,            \* the addresses of the managed prefixes
          CookiePorts,        \* cookie-ports
          StatelessPorts,     \* stateless-tcp
          RedirectPorts,      \* afxdp-udp-ports
          Real,               \* the real services: [proto, dst]
          Closed,             \* default-state closed
          TxCap,              \* syn-cookie-tx-cap
          Offender,           \* the sources the XDP manager acts on
          Pps, Burst,         \* of every rate limit
          MaxTime,            \* bound: the clock stops here
          MaxIssued,          \* bound: SYN-ACKs the clients remember
          MaxDeaths           \* bound: deaths and stops of a daemon

ASSUME DataplaneAssumption ==
    /\ NoKey \notin Key
    /\ TxCap \in Nat \ {0} /\ TxBurstMax \in Nat \ {0}
    /\ Pps \in Nat /\ Burst \in Nat /\ Offender \subseteq Client
    /\ Managed \subseteq Addr /\ Managed # {} /\ CookiePorts \subseteq Port

VARIABLES secret,    \* the row of cookie_secret, or NoKey
          flow,      \* where `blackwalld flow` is
          run,       \* where `blackwalld run` is
          runKey,    \* the key of the NFQUEUE responder
          nft,       \* the inet table is installed
          issued,    \* the SYN-ACKs clients hold: [src, dst, cookie], and the slot as history
          deaths

daemons == <<secret, flow, run, runKey, nft, deaths>>
vars == <<filterVars, daemons, issued>>

(***************************************************************************)
(* The classifier: the first rule of the prerouting chain that matches.    *)
(***************************************************************************)
Ack(s, d, cookie) == [kind |-> "ack", src |-> s, dst |-> d, cookie |-> cookie]
proto(f) == IF f.kind \in {"syn", "ack"} THEN "tcp" ELSE f.kind

RealRule(f) == [proto |-> proto(f), dst |-> f.dst] \in Real
StatelessRule(f) == proto(f) = "tcp" /\ f.dst.addr \in Managed /\ f.dst.port \in StatelessPorts
TproxyRule(f) == proto(f) = "tcp" /\ f.dst.addr \in Managed
QueueRule(f) == proto(f) # "tcp" /\ f.dst.addr \in Managed

\* Mutant of Classify: the tproxy rule comes before the stateless one.
Mutant_TproxyFirst(f) ==
    IF ~nft \/ RealRule(f) THEN "host"
    ELSE IF TproxyRule(f) THEN "tproxy"
    ELSE IF StatelessRule(f) \/ QueueRule(f) THEN "queue"
    ELSE IF Closed THEN "closed" ELSE "host"

Classify(f) ==
    IF ~nft \/ RealRule(f) THEN "host"
    ELSE IF StatelessRule(f) THEN "queue"
    ELSE IF TproxyRule(f) THEN "tproxy"
    ELSE IF QueueRule(f) THEN "queue"
    ELSE IF Closed THEN "closed" ELSE "host"

(***************************************************************************)
(* The responder.  Without a reader the queue drops.                       *)
(***************************************************************************)
\* The reply is cut to the length of the request: an empty one gets none.
udp_response(f) == IF f.len = 0 THEN "declined" ELSE "reflected"

handle_tcp(f) ==
    IF f.kind = "syn" THEN "synack"
    ELSE IF check_cookie(runKey, <<f.src, f.dst>>, f.cookie, now) THEN "banner" ELSE "rejected"

\* Only an echo request is answered; other ICMP is accepted into the host stack.
icmp_echo_reply(f) == IF f.echo THEN "echoed" ELSE "host"

Respond(f) ==
    IF run # "up" THEN "lost"
    ELSE IF proto(f) = "tcp" THEN handle_tcp(f)
    ELSE IF f.kind = "udp" THEN udp_response(f)
    ELSE icmp_echo_reply(f)

\* Past the XDP program.  The IP layer discards a truncated frame.
Path(f) ==
    IF f.kind = "syn" /\ f.shape \in {"cut", "short"} THEN "truncated"
    ELSE IF Classify(f) = "queue" THEN Respond(f)
    ELSE Classify(f)

\* Where a frame that CPU c receives ends up; the AF_XDP thread answers what is
\* redirected to it.
Fate(f, c) ==
    IF flow = "down" \/ Verdict(f, c) = "XDP_PASS" THEN Path(f)
    ELSE IF Verdict(f, c) = "XDP_REDIRECT" THEN udp_response(f)
    ELSE Verdict(f, c)

UserCookie(f) == make_cookie(runKey, <<f.src, f.dst>>, MssOf[f.src], now)

(***************************************************************************)
(* A frame arrives.  The SYN-ACK it is answered with may reach the client  *)
(* or be lost on the way, and a client may forget one it holds.            *)
(***************************************************************************)
Issue(f, cookie) ==
    \/ UNCHANGED issued
    \/ /\ issued' = issued \cup {[src |-> f.src, dst |-> f.dst, cookie |-> cookie,
                                  slot |-> SlotOf(now)]}
       /\ Cardinality(issued') <= MaxIssued

Arrive(f, c) ==
    /\ IF flow = "down" THEN UNCHANGED filterVars ELSE xdp_filter(f, c)
    /\ CASE Fate(f, c) = "XDP_TX" -> Issue(f, KernelCookie(f))
         [] Fate(f, c) = "synack" -> Issue(f, UserCookie(f))
         [] OTHER                 -> UNCHANGED issued
    /\ UNCHANGED daemons

Forget(i) ==
    /\ i \in issued
    /\ issued' = issued \ {i}
    /\ UNCHANGED <<filterVars, daemons>>

Tick ==
    /\ now < MaxTime
    /\ now' = now + 1
    /\ UNCHANGED <<maps, admitted, minted, daemons, issued>>

(***************************************************************************)
(* Store::cookie_secret: INSERT ... ON CONFLICT DO NOTHING, then SELECT.   *)
(***************************************************************************)
\* Mutant of InsertSecret: ON CONFLICT DO UPDATE.
Mutant_Overwrites(k) == secret' = k

InsertSecret(k) == secret' = IF secret = NoKey THEN k ELSE secret

(***************************************************************************)
(* blackwalld flow: attach, fetch the secret, then arm the fast path: key, *)
(* prefixes, cap and, last, the ports.                                     *)
(***************************************************************************)
FlowAttach ==
    /\ flow = "down"
    /\ flow' = IF CookiePorts = {} THEN "running" ELSE "attached"
    /\ FreshMaps
    /\ UNCHANGED <<now, secret, run, runKey, nft, deaths, issued>>

FlowInsert(k) ==
    /\ flow = "attached"
    /\ flow' = "inserted"
    /\ InsertSecret(k)
    /\ UNCHANGED <<filterVars, run, runKey, nft, deaths, issued>>

FlowKey ==
    /\ flow = "inserted"
    /\ flow' = "prefixes"
    /\ set_cookie_key(secret)
    /\ UNCHANGED <<secret, run, runKey, nft, deaths, issued>>

\* Mutant of FlowPrefix: the ports follow the prefixes, the cap comes last.
Mutant_CapLast(a) ==
    /\ flow = "prefixes" /\ a \in Managed \ protect
    /\ flow' = IF protect \cup {a} = Managed THEN "ports" ELSE flow
    /\ protect_addr(a)
    /\ UNCHANGED <<secret, run, runKey, nft, deaths, issued>>

FlowPrefix(a) ==
    /\ flow = "prefixes" /\ a \in Managed \ protect
    /\ flow' = IF protect \cup {a} = Managed THEN "cap" ELSE flow
    /\ protect_addr(a)
    /\ UNCHANGED <<secret, run, runKey, nft, deaths, issued>>

FlowCap ==
    /\ flow = "cap"
    /\ flow' = "ports"
    /\ set_syn_cookie_tx_cap(TxCap)
    /\ UNCHANGED <<secret, run, runKey, nft, deaths, issued>>

FlowPort(p) ==
    /\ flow = "ports" /\ p \in CookiePorts \ ports
    /\ flow' = IF ports \cup {p} = CookiePorts THEN "running" ELSE flow
    /\ protect_port(p)
    /\ UNCHANGED <<secret, run, runKey, nft, deaths, issued>>

\* A write of the activation, or the query for the secret, fails: the daemon
\* logs "continuing with fast path inert" and goes on.
FlowGivesUp ==
    /\ flow \in {"attached", "inserted", "prefixes", "cap", "ports"}
    /\ flow' = "running"
    /\ UNCHANGED <<filterVars, secret, run, runKey, nft, deaths, issued>>

\* The AF_XDP responder thread: the socket is registered before the ports.
FlowRedirect ==
    /\ flow = "running"
    /\ \/ ~xsk /\ redirect = {} /\ set_redirect(TRUE, {})
       \/ xsk /\ redirect = {} /\ set_redirect(TRUE, RedirectPorts)
       \/ xsk /\ set_redirect(FALSE, redirect)        \* a receive error ends the thread
    /\ UNCHANGED <<daemons, issued>>

\* The actions of the XDP manager.
FlowMitigate(s) ==
    /\ flow = "running"
    /\ \/ set_blocked(block \cup {s}) \/ set_blocked(block \ {s})
       \/ rate_limit(s, Pps, Burst) \/ clear_rate_limit(s)
    /\ UNCHANGED <<daemons, issued>>

\* The program and its maps go with the process.
FlowDies ==
    /\ flow # "down" /\ deaths < MaxDeaths
    /\ flow' = "down"
    /\ deaths' = deaths + 1
    /\ FreshMaps
    /\ UNCHANGED <<now, secret, run, runKey, nft, issued>>

(***************************************************************************)
(* blackwalld run: apply the ruleset, fetch the secret, bind the queue.    *)
(***************************************************************************)
\* A table or a policy route that cannot be installed ends the daemon; when it is
\* the route, the table is taken down again.
RunApplyFails ==
    /\ run = "down"
    /\ nft' \in {nft, FALSE}
    /\ UNCHANGED <<filterVars, secret, flow, run, runKey, deaths, issued>>

RunApply ==
    /\ run = "down"
    /\ run' = "applied" /\ nft' = TRUE
    /\ UNCHANGED <<filterVars, secret, flow, runKey, deaths, issued>>

RunInsert(k) ==
    /\ run = "applied"
    /\ run' = "inserted"
    /\ InsertSecret(k)
    /\ UNCHANGED <<filterVars, flow, runKey, nft, deaths, issued>>

RunServe ==
    /\ run = "inserted"
    /\ run' = "up" /\ runKey' = secret
    /\ UNCHANGED <<filterVars, secret, flow, nft, deaths, issued>>

\* A signal, or the end of a transport: the ruleset is removed.
RunStops ==
    /\ run = "up" /\ deaths < MaxDeaths
    /\ run' = "down" /\ runKey' = NoKey /\ nft' = FALSE
    /\ deaths' = deaths + 1
    /\ UNCHANGED <<filterVars, secret, flow, issued>>

\* Killed, or an error during the start: the ruleset stays.
RunDies ==
    /\ run # "down" /\ deaths < MaxDeaths
    /\ run' = "down" /\ runKey' = NoKey
    /\ deaths' = deaths + 1
    /\ UNCHANGED <<filterVars, secret, flow, nft, issued>>

(***************************************************************************)
(* The system.                                                             *)
(***************************************************************************)
Init ==
    /\ now = 0
    /\ block = {} /\ rate = EmptyMap /\ key = NoKey
    /\ protect = {} /\ ports = {} /\ redirect = {} /\ xsk = FALSE
    /\ tx = [c \in Cpu |-> Unlimited]
    /\ admitted = EmptyMap
    /\ minted = [c \in Cpu |-> Unused]
    /\ secret = NoKey
    /\ flow = "down"
    /\ run = "down" /\ runKey = NoKey /\ nft = FALSE
    /\ issued = {}
    /\ deaths = 0

\* The frames that may arrive now: an ACK carries a cookie some client holds.
Frame ==
    LET pairs == {sd \in Client \X Endpoint : SameFamily(sd[1], sd[2])}
    IN  {Syn(sd[1], sd[2], shape) : sd \in pairs, shape \in Shape}
        \cup {Udp(sd[1], sd[2], len) : sd \in pairs, len \in {0, 1}}
        \cup {Icmp(sd[1], sd[2], echo) : sd \in pairs, echo \in BOOLEAN}
        \cup {Ack(sd[1], sd[2], i.cookie) : sd \in pairs, i \in issued}

Next ==
    \/ \E f \in Frame, c \in Cpu : Arrive(f, c)
    \/ \E i \in issued : Forget(i)
    \/ Tick
    \/ FlowAttach
    \/ \E k \in Key : FlowInsert(k)
    \/ FlowKey
    \/ \E a \in Managed : FlowPrefix(a)
    \/ FlowCap
    \/ \E p \in CookiePorts : FlowPort(p)
    \/ FlowGivesUp
    \/ FlowRedirect
    \/ \E s \in Offender : FlowMitigate(s)
    \/ FlowDies
    \/ RunApplyFails
    \/ RunApply
    \/ \E k \in Key : RunInsert(k)
    \/ RunServe
    \/ RunStops
    \/ RunDies

Spec == Init /\ [][Next]_vars

(***************************************************************************)
(* Properties.                                                             *)
(***************************************************************************)
\* The deception endpoints of the stateless tier.
Stateless == {d \in Endpoint : /\ d.addr \in Managed /\ d.port \in StatelessPorts
                               /\ [proto |-> "tcp", dst |-> d] \notin Real}

Fresh(i) == SlotOf(now) - i.slot <= 1

\* The responder takes an ACK exactly when this client was sent this SYN-ACK from
\* this endpoint, by the XDP program or by the responder, in this slot of the
\* cookie clock or the one before: the two tiers agree on the secret and the
\* clock whichever of them created the secret and however often they restart.
HandshakeExact ==
    run = "up" =>
        \A i \in issued, s \in Client, d \in Endpoint :
            (Respond(Ack(s, d, i.cookie)) = "banner")
                <=> \E j \in issued : /\ j.src = s /\ j.dst = d /\ j.cookie = i.cookie
                                       /\ Fresh(j)

\* While the responder is up a well-formed SYN to a stateless endpoint is answered
\* by one of the tiers on whatever CPU it arrives, and the ACK to a fresh SYN-ACK
\* gets the banner, unless the source is blocked or over its limit: half-armed
\* maps, a spent budget and a SYN without options fall through to the responder.
HandshakeCompletes ==
    run = "up" =>
        \A c \in Cpu, d \in Stateless :
            /\ \A s \in Client, shape \in {"whole", "noroom"} :
                  LET f == Syn(s, d, shape)
                  IN  SameFamily(s, d) /\ ~Dropped(f, c) => Fate(f, c) \in {"XDP_TX", "synack"}
            /\ \A i \in issued :
                  LET f == Ack(i.src, d, i.cookie)
                  IN  i.dst = d /\ Fresh(i) /\ ~Dropped(f, c) => Fate(f, c) = "banner"

\* A CPU never sends more SYN-ACKs than a burst and the configured rate since its
\* first, from the moment the program is attached: the cap is there before the
\* first port is.  A limited source never gets more through a CPU either.
BudgetsHold ==
    /\ \A c \in Cpu : Within(minted[c], TxCap, TxBurst(TxCap), now)
    /\ \A s \in DOMAIN rate, c \in Cpu : Within(admitted[s][c], Pps, Burst, now)
=============================================================================
