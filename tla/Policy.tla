------------------------------- MODULE Policy -------------------------------
(***************************************************************************)
(* The policy of the edge: which services are real.                        *)
(*                                                                         *)
(* A policy is a sequence of tenants.  A tenant has a name, the addresses  *)
(* it owns and its allow rules; a rule opens a service (protocol and port, *)
(* one value here) on all of the tenant's addresses, or only on the one it *)
(* is scoped to.  resolve expands a policy into the services the classifier*)
(* accepts, and refuses a policy it could not apply; reconcile merges the  *)
(* services that discovery found into a copy of the configured policy.     *)
(***************************************************************************)
EXTENDS Sequences, FiniteSets

LOCAL INSTANCE SequencesExt

CONSTANTS
    Managed,        \* the addresses inside the managed prefixes
    NoScope         \* a rule for every address of its tenant

Tenant(name, owned, allows) == [name |-> name, owned |-> owned, allows |-> allows]

Rule(port, target, scope) == [port |-> port, target |-> target, scope |-> scope]

\* A service discovery saw: the address and port it is on, and what serves it.
Found(addr, port, target) == [addr |-> addr, port |-> port, target |-> target]

\* The name reconcile gives the tenant of discovered addresses nobody owns.
DISCOVERED_TENANT == "discovered"

-----------------------------------------------------------------------------
Covers(rule, addr) == rule.scope \in {NoScope, addr}

\* Every (tenant, address) pair of a policy, by position.
Holdings(policy) ==
    UNION {{<<i, k>> : k \in DOMAIN policy[i].owned} : i \in DOMAIN policy}

AddressOf(policy, h) == policy[h[1]].owned[h[2]]

AddressOutsidePrefixes(policy) ==
    \E h \in Holdings(policy) : AddressOf(policy, h) \notin Managed

DuplicateOwnership(policy) ==
    \E g, h \in Holdings(policy) : g # h /\ AddressOf(policy, g) = AddressOf(policy, h)

DuplicateService(policy) ==
    \E h \in Holdings(policy) :
        LET allows == policy[h[1]].allows
            addr   == AddressOf(policy, h)
        IN  \E a, b \in DOMAIN allows :
                /\ a # b
                /\ allows[a].port = allows[b].port
                /\ Covers(allows[a], addr)
                /\ Covers(allows[b], addr)

Resolvable(policy) ==
    /\ ~AddressOutsidePrefixes(policy)
    /\ ~DuplicateOwnership(policy)
    /\ ~DuplicateService(policy)

\* The services of a resolvable policy.
resolve(policy) ==
    UNION {LET t    == policy[h[1]]
               addr == AddressOf(policy, h)
           IN  {[addr |-> addr, port |-> t.allows[a].port,
                 target |-> t.allows[a].target, tenant |-> t.name] :
                    a \in {b \in DOMAIN t.allows : Covers(t.allows[b], addr)}} :
           h \in Holdings(policy)}

-----------------------------------------------------------------------------
service_exists(policy, addr, port) ==
    \E i \in DOMAIN policy :
        /\ addr \in Range(policy[i].owned)
        /\ \E rule \in Range(policy[i].allows) : rule.port = port /\ Covers(rule, addr)

\* The position of the tenant that owns an address, 0 when nobody does.
owning_tenant_index(policy, addr) ==
    SelectInSeq(policy, LAMBDA t : addr \in Range(t.owned))

attach_to_synthetic(policy, addr, rule) ==
    LET i == SelectInSeq(policy, LAMBDA t : t.name = DISCOVERED_TENANT)
    IN  IF i = 0
        THEN Append(policy, Tenant(DISCOVERED_TENANT, <<addr>>, <<rule>>))
        ELSE [policy EXCEPT
                ![i].owned  = IF addr \in Range(@) THEN @ ELSE Append(@, addr),
                ![i].allows = Append(@, rule)]

\* Mutant: the merged rule is not scoped to the address the service was seen on.
Mutant_Unscoped(policy, svc) ==
    LET rule  == Rule(svc.port, svc.target, NoScope)
        owner == owning_tenant_index(policy, svc.addr)
    IN  IF svc.addr \notin Managed \/ service_exists(policy, svc.addr, svc.port)
        THEN policy
        ELSE IF owner = 0
        THEN attach_to_synthetic(policy, svc.addr, rule)
        ELSE [policy EXCEPT ![owner].allows = Append(@, rule)]

\* One discovered service merged into the policy so far.
Merge(policy, svc) ==
    LET rule  == Rule(svc.port, svc.target, svc.addr)
        owner == owning_tenant_index(policy, svc.addr)
    IN  IF svc.addr \notin Managed \/ service_exists(policy, svc.addr, svc.port)
        THEN policy
        ELSE IF owner = 0
        THEN attach_to_synthetic(policy, svc.addr, rule)
        ELSE [policy EXCEPT ![owner].allows = Append(@, rule)]

reconcile(base, discovered) == FoldLeft(Merge, base, discovered)
=============================================================================
