------------------------------- MODULE Shaping -------------------------------
(***************************************************************************)
(* CAKE shaping of `blackwalld run`.  apply_shaping goes through the rules *)
(* in order: a rule with fixed rates is applied once; a rule with an auto  *)
(* direction is measured first and then re-tuned for ever by a task of its *)
(* own, so that several rules may be measured and applied at once.  A      *)
(* measurement is a speedtest over several providers, a plan is applied    *)
(* command by command, and every command may fail.                         *)
(***************************************************************************)
EXTENDS Naturals, Sequences, FiniteSets

CONSTANTS
    ShapeRules,     \* sequence of [iface, download, upload]
    Auto,           \* ShapeBandwidth::Auto; Fixed(n) is n
    Providers,      \* which of the four speedtest providers are built
    LinkMbit,       \* what the link carries, in both directions
    Unmeasured,     \* no reading
    MaxBoots        \* bound on starts of the daemon

ASSUME ShapingAssumption ==
    /\ LinkMbit \in Nat \ {0}
    /\ Providers \subseteq {"cloudflare", "librespeed", "fast", "ookla"}

VARIABLES
    reached,    \* how many rules apply_shaping has finished
    job,        \* per rule: where its measuring and applying stands
    test,       \* per rule: the speedtest, provider by provider
    root,       \* per interface: the rate of the CAKE root, 0 for no limit
    ingress,    \* per interface: the ingress qdisc, where its filters redirect to, and
                \* (history) whether the last command to delete it failed
    ifb,        \* per rule: its IFB device and the rate of the CAKE on it
    boots

kernelVars  == <<root, ingress, ifb>>
shapingVars == <<reached, job, test, kernelVars, boots>>

Rules   == DOMAIN ShapeRules
Iface  == {ShapeRules[r].iface : r \in Rules}
NoIngress == [qdisc |-> FALSE, to |-> {}, kept |-> FALSE]
NoIfb  == [link |-> "absent", rate |-> 0]
NoTest == [p \in Providers |-> [at |-> "queued", down |-> 0]]
Quiet  == [at |-> "start", cmd |-> 0, down |-> Unmeasured, up |-> Unmeasured]

Over   == [Quiet EXCEPT !.at = "over"]

needs_speedtest(r) == Auto \in {ShapeRules[r].download, ShapeRules[r].upload}
-----------------------------------------------------------------------------
(* The providers.                                                          *)

\* Requests made before the transfer, each of which can end the measurement, and
\* whether a transfer without a byte is still a reading.
Cloudflare == [requests |-> 0, emptyCounts |-> TRUE]
LibreSpeed == [requests |-> 1, emptyCounts |-> TRUE]
Fast       == [requests |-> 3, emptyCounts |-> TRUE]
Ookla      == [requests |-> 3, emptyCounts |-> FALSE]

Provider(p) ==
    CASE p = "cloudflare" -> Cloudflare [] p = "librespeed" -> LibreSpeed
      [] p = "fast" -> Fast [] p = "ookla" -> Ookla

\* A transfer gets what the link and the shaping in force let through, or less.
Through(shaped) == 0..(IF shaped = 0 \/ shaped > LinkMbit THEN LinkMbit ELSE shaped)

\* What redirects ingress traffic of an interface, and the lowest rate on that way.
DownLimit(r) == LET rates == {ifb[i].rate : i \in ingress[ShapeRules[r].iface].to} \ {0}
                IN  IF rates = {} THEN 0 ELSE CHOOSE x \in rates : \A y \in rates : x <= y

Downloads(r, p) == IF Provider(p).emptyCounts THEN Through(DownLimit(r))
                                              ELSE Through(DownLimit(r)) \ {0}
Uploads(r) == Through(root[ShapeRules[r].iface])

\* max_finite over the readings so far and one more.
Best(have, reading) ==
    IF have = Unmeasured \/ (reading # Unmeasured /\ have # Unmeasured /\ have < reading)
    THEN reading ELSE have
-----------------------------------------------------------------------------
ShapingInit ==
    /\ reached = 0 /\ boots = 1
    /\ job = [r \in Rules |-> Quiet]
    /\ test = [r \in Rules |-> NoTest]
    /\ root = [i \in Iface |-> 0]
    /\ ingress = [i \in Iface |-> NoIngress]
    /\ ifb = [r \in Rules |-> NoIfb]

\* resolve: a fixed rate, or the measurement when there is one of at least 1 Mbit.
CanResolve(wanted, measured) == wanted # Auto \/ (measured # Unmeasured /\ measured >= 1)
resolve_rate(wanted, measured) == IF wanted = Auto THEN measured ELSE wanted

\* plan_for: both directions resolve, or the rule is left as it is.
Planned(r, j) ==
    IF CanResolve(ShapeRules[r].download, j.down) /\ CanResolve(ShapeRules[r].upload, j.up)
    THEN [j EXCEPT !.at = "apply", !.cmd = 1, !.down = resolve_rate(ShapeRules[r].download, j.down),
                   !.up = resolve_rate(ShapeRules[r].upload, j.up)]
    ELSE Over

\* apply_shaping comes to the next rule, or the re-tune loop of a rule wakes up.
Begin(r) ==
    /\ job[r].at = "start" /\ reached >= r - 1
    /\ job' = [job EXCEPT ![r] = IF needs_speedtest(r) THEN [Quiet EXCEPT !.at = "idle"]
                                 ELSE Planned(r, Quiet)]
    /\ test' = [test EXCEPT ![r] = NoTest]
    /\ UNCHANGED <<reached, kernelVars, boots>>

\* The semaphore of a phase: one permit by default.
Active(r) == {p \in Providers : test[r][p].at \notin {"queued", "done"}}
Permit(r) == Cardinality(Active(r)) < 1

Move(r, p, to) == test' = [test EXCEPT ![r][p] = [at |-> to, down |-> 0]]

\* A provider gets the permit; the idle phase probes, the other one transfers.
Acquire(r, p) ==
    /\ job[r].at \in {"idle", "load"} /\ test[r][p].at = "queued" /\ Permit(r)
    /\ Move(r, p, IF job[r].at = "idle" THEN "probe"
                  ELSE IF Provider(p).requests > 0 THEN "prepare" ELSE "download")
    /\ UNCHANGED <<reached, job, kernelVars, boots>>

\* measure_latency answers, fails or times out; what it found does not matter here.
Probed(r, p) ==
    /\ test[r][p].at = "probe" /\ Move(r, p, "done")
    /\ UNCHANGED <<reached, job, kernelVars, boots>>

Prepared(r, p) ==
    /\ test[r][p].at = "prepare" /\ Move(r, p, "download")
    /\ UNCHANGED <<reached, job, kernelVars, boots>>

\* An error, or the timeout of the provider even during its upload: no reading.
Failed(r, p) ==
    /\ test[r][p].at \in {"prepare", "download", "upload"} /\ Move(r, p, "done")
    /\ UNCHANGED <<reached, job, kernelVars, boots>>

Downloaded(r, p) ==
    /\ test[r][p].at = "download"
    /\ \E mbps \in Downloads(r, p) : test' = [test EXCEPT ![r][p] = [at |-> "upload", down |-> mbps]]
    /\ UNCHANGED <<reached, job, kernelVars, boots>>

\* The upload ends the measurement; without one the reading has no upload rate.
Uploaded(r, p) ==
    /\ test[r][p].at = "upload"
    /\ \E up \in Uploads(r) \cup {Unmeasured} :
          job' = [job EXCEPT ![r].down = Best(@, test[r][p].down), ![r].up = Best(@, up)]
    /\ Move(r, p, "done")
    /\ UNCHANGED <<reached, kernelVars, boots>>

\* run: the idle phase is complete before the throughput phase starts, and the
\* throughput phase before the readings are aggregated.
PhaseOver(r) ==
    /\ job[r].at \in {"idle", "load"}
    /\ \A p \in Providers : test[r][p].at = "done"
    /\ IF job[r].at = "idle"
       THEN job' = [job EXCEPT ![r].at = "load"] /\ test' = [test EXCEPT ![r] = NoTest]
       ELSE /\ job' = [job EXCEPT ![r] = IF @.down = Unmeasured THEN Over
                                         ELSE Planned(r, @)]
            /\ UNCHANGED test
    /\ UNCHANGED <<reached, kernelVars, boots>>

\* The first round of a rule lets apply_shaping go on to the next one; an auto rule
\* is then re-tuned.
RoundOver(r) ==
    /\ job[r].at = "over"
    /\ reached' = IF reached < r THEN r ELSE reached
    /\ job' = [job EXCEPT ![r] = IF needs_speedtest(r) THEN Quiet ELSE [Quiet EXCEPT !.at = "off"]]
    /\ UNCHANGED <<test, kernelVars, boots>>
-----------------------------------------------------------------------------
(* apply: the commands in order.                                           *)

Dev(r) == ShapeRules[r].iface

\* Mutant of ifb_of: one device for every rule.
Mutant_SameIfb(r) == 1

\* ifb{i}: every rule has an IFB device of its own.
ifb_of(r) == r

\* teardown_commands: deleting fails, and that is ignored, when there is nothing.
DelRoot(r)    == root' = [root EXCEPT ![Dev(r)] = 0] /\ UNCHANGED <<ingress, ifb>>
DelIngress(r) == /\ ingress' = [ingress EXCEPT ![Dev(r)] = NoIngress]
                 /\ UNCHANGED <<root, ifb>>
DelIfb(r)     == ifb' = [ifb EXCEPT ![ifb_of(r)] = NoIfb] /\ UNCHANGED <<root, ingress>>

\* egress_commands
CakeRoot(r)   == root' = [root EXCEPT ![Dev(r)] = job[r].up] /\ UNCHANGED <<ingress, ifb>>

\* ingress_commands
Exists(r)     == ifb[ifb_of(r)].link # "absent"
AddIfb(r)     == /\ ~Exists(r) /\ ifb' = [ifb EXCEPT ![ifb_of(r)].link = "down"]
                 /\ UNCHANGED <<root, ingress>>
IfbUp(r)      == /\ Exists(r) /\ ifb' = [ifb EXCEPT ![ifb_of(r)].link = "up"]
                 /\ UNCHANGED <<root, ingress>>
AddIngress(r) == /\ ingress' = [ingress EXCEPT ![Dev(r)].qdisc = TRUE]
                 /\ UNCHANGED <<root, ifb>>
Redirect(r)   == /\ Exists(r) /\ ingress[Dev(r)].qdisc
                 /\ ingress' = [ingress EXCEPT ![Dev(r)].to = @ \cup {ifb_of(r)}]
                 /\ UNCHANGED <<root, ifb>>
CakeIfb(r)    == /\ Exists(r) /\ ifb' = [ifb EXCEPT ![ifb_of(r)].rate = job[r].down]
                 /\ UNCHANGED <<root, ingress>>

Effect(r, k) ==
    \/ k = 1 /\ DelRoot(r)
    \/ k = 2 /\ DelIngress(r)
    \/ k = 3 /\ DelIfb(r)
    \/ k = 4 /\ CakeRoot(r)
    \/ k = 5 /\ AddIfb(r)
    \/ k = 6 /\ IfbUp(r)
    \/ k = 7 /\ AddIngress(r)
    \/ k = 8 /\ Redirect(r)
    \/ k = 9 /\ CakeIfb(r)

RunCommand(r) ==
    /\ job[r].at = "apply"
    /\ Effect(r, job[r].cmd)
    /\ job' = [job EXCEPT ![r] = IF @.cmd = 9 THEN Over ELSE [@ EXCEPT !.cmd = @ + 1]]
    /\ UNCHANGED <<reached, test, boots>>

\* A command of the teardown fails, and apply goes on to the next.
TeardownFails(r) ==
    /\ job[r].at = "apply" /\ job[r].cmd <= 3
    /\ ingress' = IF job[r].cmd = 2 THEN [ingress EXCEPT ![Dev(r)].kept = @ \/ ingress[Dev(r)].qdisc]
                  ELSE ingress
    /\ job' = [job EXCEPT ![r].cmd = @ + 1]
    /\ UNCHANGED <<reached, test, root, ifb, boots>>

\* A later command fails: apply returns, and what is done stays.
CommandFails(r) ==
    /\ job[r].at = "apply" /\ job[r].cmd > 3
    /\ job' = [job EXCEPT ![r] = Over]
    /\ UNCHANGED <<reached, test, kernelVars, boots>>

\* The daemon stops, at any command, and starts again with the same rules: it does
\* not take its shaping down.
Reboot ==
    /\ boots < MaxBoots /\ boots' = boots + 1
    /\ reached' = 0 /\ job' = [r \in Rules |-> Quiet] /\ test' = [r \in Rules |-> NoTest]
    /\ UNCHANGED kernelVars

ShapingNext ==
    \/ Reboot
    \/ \E r \in Rules :
        \/ Begin(r) \/ PhaseOver(r) \/ RoundOver(r) \/ RunCommand(r)
        \/ TeardownFails(r) \/ CommandFails(r)
        \/ \E p \in Providers :
            Acquire(r, p) \/ Probed(r, p) \/ Prepared(r, p) \/ Failed(r, p)
            \/ Downloaded(r, p) \/ Uploaded(r, p)
-----------------------------------------------------------------------------
\* The rate a rule asks for, resolved: a fixed one as configured (0, which CAKE takes
\* for no limit, included), an auto one as measured, at least 1 and never above what
\* the link carries.
RateSound(wanted, rate) == IF wanted = Auto THEN rate \in 1..LinkMbit ELSE rate = wanted

\* Traffic arriving on a shaped interface is never redirected to a device that is
\* missing or down, where it would be lost, unless the command that deletes the
\* redirects failed (apply ignores that and deletes the device all the same):
\* whichever other commands fail, wherever the daemon is restarted and however the
\* commands of the rules interleave.  And no plan is applied with a rate that was
\* neither configured nor measured.
ShapingSafe ==
    /\ \A i \in Iface : \A t \in ingress[i].to : ifb[t].link = "up" \/ ingress[i].kept
    /\ \A r \in Rules : job[r].at = "apply" =>
          /\ RateSound(ShapeRules[r].download, job[r].down)
          /\ RateSound(ShapeRules[r].upload, job[r].up)
=============================================================================
