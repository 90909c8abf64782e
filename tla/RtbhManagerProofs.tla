------------------------- MODULE RtbhManagerProofs -------------------------
(***************************************************************************)
(* Proofs about RtbhManager, for every set of targets, configurations and  *)
(* incidents, every timer and every number of requests.                    *)
(***************************************************************************)
EXTENDS RtbhManager, PartialMapTheorems, FiniteSetTheorems

(***************************************************************************)
(* Types                                                                   *)
(***************************************************************************)

\* What the entry operators of the controller build are entries.
LEMMA EntryTypes ==
    /\ \A o \in Origin : NewEntry(o) \in Entry
    /\ \A e \in Entry : Reasserted(e) \in Entry /\ ClearDeferred(e) \in Entry
                        /\ Upgraded(e) \in Entry /\ Older(e) \in Entry
<1>1. \A o \in Origin : NewEntry(o) \in Entry
  BY TimersAssumption DEF Entry, Origin, NewEntry
<1>2. ASSUME NEW e \in Entry PROVE Reasserted(e) \in Entry /\ Upgraded(e) \in Entry
  BY TimersAssumption DEF Entry, Origin, Reasserted, Upgraded
<1>3. ASSUME NEW e \in Entry PROVE ClearDeferred(e) \in Entry
  BY Zenon DEF Entry, ClearDeferred
<1>4. ASSUME NEW e \in Entry PROVE Older(e) \in Entry
  BY TimersAssumption DEF Entry, Older
<1>5. QED
  BY <1>1, <1>2, <1>3, <1>4

\* Ageing keeps the keys, the origins and the pending clears.
LEMMA AgedFacts ==
    ASSUME NEW m \in PartialMap(Target, Entry)
    PROVE  /\ Aged(m) \in PartialMap(Target, Entry)
           /\ DOMAIN Aged(m) = DOMAIN m
           /\ \A t \in DOMAIN m : /\ Aged(m)[t].origin = m[t].origin
                                  /\ Aged(m)[t].clear = m[t].clear
<1>1. DOMAIN m \subseteq Target /\ m \in [DOMAIN m -> Entry]
  BY PartialMapDef
<1>2. DOMAIN Aged(m) = DOMAIN m
  BY DEF Aged
<1>3. ASSUME NEW t \in DOMAIN m
      PROVE  /\ Aged(m)[t] \in Entry
             /\ Aged(m)[t].origin = m[t].origin
             /\ Aged(m)[t].clear = m[t].clear
  <2>1. Aged(m)[t] = Older(m[t]) /\ m[t] \in Entry
    BY <1>1, <1>3 DEF Aged
  <2>2. QED
    BY <2>1, EntryTypes DEF Older
<1>4. Aged(m) \in [DOMAIN m -> Entry]
  <2>1. Aged(m) = [t \in DOMAIN m |-> Aged(m)[t]]
    BY DEF Aged
  <2>2. QED
    BY <2>1, <1>3
<1>5. QED
  BY <1>1, <1>2, <1>3, <1>4, PartialMapDef

\* Recording an announce touches one row and leaves an origin there.
LEMMA RecordAnnounceFacts ==
    ASSUME NEW j \in PartialMap(Target, Origin), NEW t \in Target, NEW o \in Origin
    PROVE  /\ record_announce(j, t, o) \in PartialMap(Target, Origin)
           /\ DOMAIN record_announce(j, t, o) = DOMAIN j \cup {t}
           /\ t \notin DOMAIN j \/ o = "Manual" => record_announce(j, t, o)[t] = o
           /\ \A x \in DOMAIN j : x # t => record_announce(j, t, o)[x] = j[x]
<1> DEFINE v == IF t \in DOMAIN j /\ j[t] = "Manual" THEN "Manual" ELSE o
<1>1. v \in Origin
  BY DEF Origin
<1>2. record_announce(j, t, o) = Put(j, t, v)
  BY DEF record_announce
<1>3. t \notin DOMAIN j \/ o = "Manual" => v = o
  OBVIOUS
<1> HIDE DEF v
<1>4. Put(j, t, v) \in PartialMap(Target, Origin)
  BY <1>1, PutType, Zenon
<1>5. QED
  BY <1>2, <1>3, <1>4, PutValue

\* Recording an announce leaves the row of another target alone.
LEMMA RecordAnnounceElsewhere ==
    ASSUME NEW j, NEW t, NEW o, NEW x, x # t
    PROVE  /\ x \in DOMAIN record_announce(j, t, o) <=> x \in DOMAIN j
           /\ x \in DOMAIN j => record_announce(j, t, o)[x] = j[x]
BY DEF record_announce, Put

\* A new row, or a promoted one, has the announced origin.
LEMMA RecordAnnounceAt ==
    ASSUME NEW j, NEW t, NEW o, t \notin DOMAIN j \/ o = "Manual"
    PROVE  t \in DOMAIN record_announce(j, t, o) /\ record_announce(j, t, o)[t] = o
BY DEF record_announce, Put

\* A replay of the mirror queue leaves the rows it does not replay alone.
LEMMA ReplayedFacts ==
    ASSUME NEW j \in PartialMap(Target, Origin), NEW q \in PartialMap(Target, MirrorOp),
           NEW S \in SUBSET DOMAIN q
    PROVE  /\ Replayed(j, q, S) \in PartialMap(Target, Origin)
           /\ \A t \in Target \ S :
                /\ t \in DOMAIN Replayed(j, q, S) <=> t \in DOMAIN j
                /\ t \in DOMAIN j => Replayed(j, q, S)[t] = j[t]
<1> DEFINE D == (DOMAIN j \cup {s \in S : q[s] # "Withdraw"}) \ {s \in S : q[s] = "Withdraw"}
<1>1. DOMAIN j \subseteq Target /\ j \in [DOMAIN j -> Origin]
  BY PartialMapDef
<1>2. DOMAIN q \subseteq Target /\ q \in [DOMAIN q -> MirrorOp]
  BY PartialMapDef
<1>3. D \subseteq Target
  BY <1>1, <1>2
<1>4. DOMAIN Replayed(j, q, S) = D
  BY DEF Replayed
<1>5. ASSUME NEW t \in D PROVE Replayed(j, q, S)[t] \in Origin
  <2>1. CASE t \in S
    <3>1. q[t] \in Origin
      BY <1>2, <1>5, <2>1 DEF MirrorOp
    <3>2. record_announce(j, t, q[t])[t] \in Origin
      BY <1>1, <1>3, <1>5, <3>1 DEF record_announce, Put, Origin
    <3>3. QED
      BY <2>1, <3>2 DEF Replayed
  <2>2. CASE t \notin S
    BY <1>1, <1>5, <2>2 DEF Replayed
  <2>3. QED
    BY <2>1, <2>2
<1>6. Replayed(j, q, S) \in [D -> Origin]
  <2>1. Replayed(j, q, S) = [t \in D |-> Replayed(j, q, S)[t]]
    BY DEF Replayed
  <2>2. QED
    BY <2>1, <1>5
<1>7. \A t \in Target \ S : /\ t \in D <=> t \in DOMAIN j
                            /\ t \in DOMAIN j => Replayed(j, q, S)[t] = j[t]
  BY DEF Replayed
<1>8. QED
  BY <1>3, <1>4, <1>6, <1>7, PartialMapDef

\* The conjuncts of TypeOK the execute operators write.
MitigationTypes ==
    /\ active \in PartialMap(Target, Entry)
    /\ routes \subseteq Target
    /\ journal \in PartialMap(Target, Origin)
    /\ pending_mirror \in PartialMap(Target, MirrorOp)
    /\ lapses \subseteq Target \X Lapse

\* Executing an announce keeps the types.
LEMMA AnnounceTypes ==
    ASSUME MitigationTypes, NEW t \in Target, NEW o \in Origin, NEW result,
           execute_and_journal_announce(t, o, result)
    PROVE  MitigationTypes'
<1>1. active' \in PartialMap(Target, Entry)
  <2>1. Put(active, t, NewEntry(o)) \in PartialMap(Target, Entry)
    BY EntryTypes, PutType, Zenon DEF MitigationTypes
  <2>2. QED
    BY <2>1 DEF MitigationTypes, execute_and_journal_announce
<1>2. routes' \subseteq Target
  BY DEF MitigationTypes, execute_and_journal_announce
<1>3. journal' \in PartialMap(Target, Origin)
  <2>1. record_announce(journal, t, o) \in PartialMap(Target, Origin)
    BY RecordAnnounceFacts, Zenon DEF MitigationTypes
  <2>2. QED
    BY <2>1 DEF MitigationTypes, execute_and_journal_announce
<1>4. pending_mirror' \in PartialMap(Target, MirrorOp)
  <2>1. o \in MirrorOp
    BY DEF MirrorOp
  <2>2. Put(pending_mirror, t, o) \in PartialMap(Target, MirrorOp)
    BY <2>1, PutType, Zenon DEF MitigationTypes
  <2>3. QED
    BY <2>2 DEF MitigationTypes, execute_and_journal_announce
<1>5. lapses' \subseteq Target \X Lapse
  BY DEF MitigationTypes, execute_and_journal_announce, Mishap, Lapse
<1>6. QED
  BY <1>1, <1>2, <1>3, <1>4, <1>5 DEF MitigationTypes

\* What can succeed is a subset of what is attempted.
LEMMA SucceedingSubset ==
    ASSUME NEW S, NEW incident, NEW w \in Succeeding(S, incident)
    PROVE  w \subseteq S
BY DEF Succeeding

\* Executing withdraws keeps the types.
LEMMA WithdrawTypes ==
    ASSUME MitigationTypes, NEW S, S \subseteq Target, NEW r, r \subseteq Target,
           NEW j \in PartialMap(Target, Origin), NEW q \in PartialMap(Target, MirrorOp),
           execute_and_journal_withdraws(S, r, j, q)
    PROVE  MitigationTypes'
<1>1. PICK w, d : w \subseteq S /\ d \subseteq w /\ Withdrawn(S, w, d, r, j, q)
  BY DEF execute_and_journal_withdraws, Succeeding
<1>2. active' \in PartialMap(Target, Entry)
  <2>1. active' = Drop(active, S) /\ active \in PartialMap(Target, Entry)
    BY <1>1 DEF MitigationTypes, Withdrawn
  <2>2. QED
    BY <2>1, DropType, Zenon
<1>3. journal' \in PartialMap(Target, Origin)
  <2>1. journal' = Drop(j, d)
    BY <1>1 DEF Withdrawn
  <2>2. QED
    BY <2>1, DropType, Zenon
<1>4. pending_mirror' \in PartialMap(Target, MirrorOp)
  <2>1. "Withdraw" \in MirrorOp
    BY DEF MirrorOp
  <2>2. w \ d \subseteq Target
    BY <1>1
  <2>3. QED
    BY <1>1, <2>1, <2>2, PutAllType, Zenon DEF Withdrawn
<1>5. routes' \subseteq Target /\ lapses' \subseteq Target \X Lapse
  BY <1>1 DEF MitigationTypes, Withdrawn, Mishap, Lapse
<1>6. QED
  BY <1>2, <1>3, <1>4, <1>5 DEF MitigationTypes

\* The request table keeps its type under both writes to it.
LEMMA RequestTypes ==
    ASSUME NEW rs \in Seq(Request), NEW i \in DOMAIN rs, NEW status \in Status, NEW t
    PROVE  /\ set_request_status(rs, i, status) \in Seq(Request)
           /\ DOMAIN set_request_status(rs, i, status) = DOMAIN rs
           /\ supersede_pending_adds(rs, t, i) \in Seq(Request)
           /\ DOMAIN supersede_pending_adds(rs, t, i) = DOMAIN rs
<1> DEFINE set == set_request_status(rs, i, status)
           sup == supersede_pending_adds(rs, t, i)
<1>1. DOMAIN rs = 1..Len(rs) /\ Len(rs) \in Nat /\ \A k \in DOMAIN rs : rs[k] \in Request
  OBVIOUS
<1>2. DOMAIN set = DOMAIN rs /\ DOMAIN sup = DOMAIN rs
  BY DEF set_request_status, supersede_pending_adds
<1>3. ASSUME NEW k \in DOMAIN rs PROVE set[k] \in Request
  <2>1. [rs[k] EXCEPT !.status = status] \in Request
    BY <1>1 DEF Request
  <2>2. set[k] = [rs[k] EXCEPT !.status = status] \/ set[k] = rs[k]
    BY DEF set_request_status
  <2>3. QED
    BY <1>1, <2>1, <2>2
<1>4. ASSUME NEW k \in DOMAIN rs PROVE sup[k] \in Request
  <2>1. [rs[k] EXCEPT !.status = "applied"] \in Request
    BY <1>1 DEF Request, Status
  <2>2. sup[k] = [rs[k] EXCEPT !.status = "applied"] \/ sup[k] = rs[k]
    BY DEF supersede_pending_adds
  <2>3. QED
    BY <1>1, <2>1, <2>2
<1>5. set \in [1..Len(rs) -> Request]
  <2>1. set = [k \in DOMAIN rs |-> set[k]]
    BY DEF set_request_status
  <2>2. QED
    BY <2>1, <1>1, <1>3
<1>6. sup \in [1..Len(rs) -> Request]
  <2>1. sup = [k \in DOMAIN rs |-> sup[k]]
    BY DEF supersede_pending_adds
  <2>2. QED
    BY <2>1, <1>1, <1>4
<1>7. set \in Seq(Request) /\ sup \in Seq(Request)
  BY <1>1, <1>5, <1>6
<1>8. QED
  BY <1>2, <1>7

\* Nor does the note on a row change it.
LEMMA NotedTypes ==
    ASSUME NEW rs \in Seq(Request), NEW i \in DOMAIN rs, NEW flaws \in SUBSET Flaw
    PROVE  /\ noted(rs, i, flaws) \in Seq(Request)
           /\ DOMAIN noted(rs, i, flaws) = DOMAIN rs
<1> DEFINE new == noted(rs, i, flaws)
<1>1. DOMAIN rs = 1..Len(rs) /\ Len(rs) \in Nat /\ \A k \in DOMAIN rs : rs[k] \in Request
  OBVIOUS
<1>2. DOMAIN new = DOMAIN rs
  BY DEF noted
<1>3. ASSUME NEW k \in DOMAIN rs PROVE new[k] \in Request
  <2>1. [rs[k] EXCEPT !.flaws = flaws] \in Request
    BY <1>1 DEF Request
  <2>2. new[k] = [rs[k] EXCEPT !.flaws = flaws] \/ new[k] = rs[k]
    BY DEF noted
  <2>3. QED
    BY <1>1, <2>1, <2>2
<1>4. new \in [1..Len(rs) -> Request]
  <2>1. new = [k \in DOMAIN rs |-> new[k]]
    BY DEF noted
  <2>2. QED
    BY <2>1, <1>1, <1>3
<1>5. new \in Seq(Request)
  BY <1>1, <1>4
<1>6. QED
  BY <1>2, <1>5

\* A row of the snapshot is a row of the table, about a target.
LEMMA DrainedRow ==
    ASSUME TypeOK, NEW i \in drain
    PROVE  i \in DOMAIN reqs /\ reqs[i].target \in Target
<1>1. i \in DOMAIN reqs
  BY DEF TypeOK
<1>2. reqs[i] \in Request
  BY <1>1 DEF TypeOK
<1>3. QED
  BY <1>1, <1>2 DEF Request

\* Every action keeps TypeOK.
LEMMA TypeStep == TypeOK /\ [Next]_vars => TypeOK'
<1> SUFFICES ASSUME TypeOK, [Next]_vars PROVE TypeOK'
  OBVIOUS
<1>0. MitigationTypes /\ DOMAIN active \subseteq Target /\ \A t \in DOMAIN active : active[t] \in Entry
  BY PartialMapDef DEF TypeOK, MitigationTypes
<1>1. ASSUME NEW t \in Target, Opened(t) PROVE TypeOK'
  <2>1. MitigationTypes'
    <3>1. CASE \E result \in AnnounceResults : execute_and_journal_announce(t, "Auto", result)
      BY <3>1, <1>0, AnnounceTypes DEF Origin
    <3>2. CASE /\ Reasserts(config, active, t)
               /\ active' = Put(active, t, Reasserted(active[t]))
               /\ UNCHANGED <<routes, journal, pending_mirror, lapses>>
      <4>1. Reasserted(active[t]) \in Entry
        BY <3>2, <1>0, EntryTypes DEF Reasserts
      <4>2. active' \in PartialMap(Target, Entry)
        BY <3>2, <4>1, <1>0, PutType, Zenon DEF MitigationTypes
      <4>3. QED
        BY <3>2, <4>2, <1>0 DEF MitigationTypes
    <3>3. QED
      BY <1>1, <3>1, <3>2 DEF Opened
  <2>2. QED
    BY <1>1, <2>1 DEF Opened, TypeOK, MitigationTypes
<1>2. ASSUME NEW t \in Target, Updated(t) PROVE TypeOK'
  <2>1. active' \in PartialMap(Target, Entry)
    <3>1. CASE t \in DOMAIN active
      <4>1. Reasserted(active[t]) \in Entry
        BY <3>1, <1>0, EntryTypes
      <4>2. active' = Put(active, t, Reasserted(active[t]))
        BY <1>2, <3>1 DEF Updated, Refreshed
      <4>3. QED
        BY <4>1, <4>2, <1>0, PutType, Zenon DEF MitigationTypes
    <3>2. CASE t \notin DOMAIN active
      BY <3>2, <1>2 DEF Updated, Refreshed, TypeOK
    <3>3. QED
      BY <3>1, <3>2
  <2>2. QED
    BY <1>2, <2>1 DEF Updated, TypeOK
<1>3. ASSUME NEW t \in Target, Cleared(t) PROVE TypeOK'
  <2>1. MitigationTypes'
    <3>1. CASE execute_and_journal_withdraws({t}, routes, journal, pending_mirror)
      <4>1. {t} \subseteq Target
        OBVIOUS
      <4>2. QED
        BY <3>1, <4>1, <1>0, WithdrawTypes, Zenon DEF MitigationTypes
    <3>2. CASE /\ DefersClear(active, t)
               /\ active' = Put(active, t, ClearDeferred(active[t]))
               /\ UNCHANGED <<routes, journal, pending_mirror, lapses>>
      <4>1. ClearDeferred(active[t]) \in Entry
        BY <3>2, <1>0, EntryTypes DEF DefersClear
      <4>2. active' \in PartialMap(Target, Entry)
        BY <3>2, <4>1, <1>0, PutType, Zenon DEF MitigationTypes
      <4>3. QED
        BY <3>2, <4>2, <1>0 DEF MitigationTypes
    <3>3. QED
      BY <1>3, <3>1, <3>2 DEF Cleared
  <2>2. QED
    BY <1>3, <2>1 DEF Cleared, TypeOK, MitigationTypes
<1>4. ASSUME Tick PROVE TypeOK'
  <2>1. PICK m \in Succeeding(DOMAIN pending_mirror, "JournalFails"),
             r \in Succeeding(StillWanted, "ExecutorFails") :
          /\ pending_reapply' = StillWanted \ r
          /\ execute_and_journal_withdraws(
                 Expired(active), routes \cup r,
                 Replayed(journal, pending_mirror, m), Drop(pending_mirror, m))
    BY Zenon, <1>4 DEF Tick
  <2>2. m \subseteq DOMAIN pending_mirror /\ r \subseteq StillWanted
    BY SucceedingSubset
  <2>3. Expired(active) \subseteq Target /\ routes \cup r \subseteq Target
    BY <1>0, <2>2 DEF Expired, StillWanted, MitigationTypes
  <2>4. Replayed(journal, pending_mirror, m) \in PartialMap(Target, Origin)
    BY <2>2, <1>0, ReplayedFacts DEF MitigationTypes
  <2>5. Drop(pending_mirror, m) \in PartialMap(Target, MirrorOp)
    BY <1>0, DropType, Zenon DEF MitigationTypes
  <2>6. MitigationTypes'
    BY <2>1, <2>3, <2>4, <2>5, <1>0, WithdrawTypes, Zenon
  <2>7. pending_reapply' \subseteq Target /\ drain' \subseteq DOMAIN reqs'
    BY <1>4, <2>1, <1>0 DEF Tick, StillWanted, PendingIds
  <2>8. QED
    BY <1>4, <2>6, <2>7 DEF Tick, TypeOK, MitigationTypes
<1>5. ASSUME NEW t \in Target, EnqueueAdd(t) \/ EnqueueRemove(t) PROVE TypeOK'
  <2>1. PICK q \in Request : reqs' = Append(reqs, q)
    BY <1>5 DEF EnqueueAdd, EnqueueRemove, Request, Status
  <2>2. reqs' \in Seq(Request) /\ DOMAIN reqs \subseteq DOMAIN reqs'
    BY <2>1 DEF TypeOK
  <2>3. QED
    BY <1>5, <2>2 DEF EnqueueAdd, EnqueueRemove, TypeOK
<1>6. ASSUME NEW i \in drain, ApplyAdd(i) PROVE TypeOK'
  <2> DEFINE t == reqs[i].target
  <2>1. i \in DOMAIN reqs /\ t \in Target
    BY DrainedRow
  <2> HIDE DEF t
  <2>2. MitigationTypes'
    <3>1. CASE UpgradeToManual(t)
      <4>1. Upgraded(active[t]) \in Entry
        BY <3>1, <1>0, EntryTypes DEF UpgradeToManual
      <4>2. active' \in PartialMap(Target, Entry)
        BY <3>1, <4>1, <2>1, <1>0, PutType, Zenon DEF UpgradeToManual, MitigationTypes
      <4>3. "Manual" \in Origin /\ "Manual" \in MirrorOp
        BY DEF Origin, MirrorOp
      <4>4. record_announce(journal, t, "Manual") \in PartialMap(Target, Origin)
        BY <4>3, <2>1, <1>0, RecordAnnounceFacts, Zenon DEF MitigationTypes
      <4>5. Put(pending_mirror, t, "Manual") \in PartialMap(Target, MirrorOp)
        BY <4>3, <2>1, <1>0, PutType, Zenon DEF MitigationTypes
      <4>6. QED
        BY <3>1, <4>2, <4>4, <4>5, <2>1, <1>0
           DEF UpgradeToManual, MitigationTypes, Mishap, Lapse
    <3>2. CASE \E result \in AnnounceResults : execute_and_journal_announce(t, "Manual", result)
      BY <3>2, <2>1, <1>0, AnnounceTypes DEF Origin
    <3>3. CASE UNCHANGED <<active, routes, journal, pending_mirror, lapses>>
      BY <3>3, <1>0 DEF MitigationTypes
    <3>4. QED
      BY <1>6, <3>1, <3>2, <3>3 DEF ApplyAdd, t
  <2>3. reqs' = reqs \/ \E status \in Status : reqs' = set_request_status(reqs, i, status)
    BY <1>6 DEF ApplyAdd, Writes, StatusOf, Status, AnnounceResults, Announced
  <2>4. reqs' \in Seq(Request) /\ DOMAIN reqs' = DOMAIN reqs
    BY <2>1, <2>3, RequestTypes DEF TypeOK
  <2>5. drain' \subseteq DOMAIN reqs'
    BY <1>6, <2>4 DEF ApplyAdd, TypeOK
  <2>6. QED
    BY <1>6, <2>2, <2>4, <2>5 DEF ApplyAdd, TypeOK, MitigationTypes
<1>7. ASSUME NEW i \in drain, ApplyRemove(i) PROVE TypeOK'
  <2> DEFINE t == reqs[i].target
  <2>1. i \in DOMAIN reqs /\ t \in Target
    BY DrainedRow
  <2> HIDE DEF t
  <2>2. MitigationTypes'
    <3>1. {t} \cap DOMAIN active \subseteq Target
      BY <2>1
    <3>2. execute_and_journal_withdraws({t} \cap DOMAIN active, routes, journal, pending_mirror)
      BY <1>7 DEF ApplyRemove, t
    <3>3. QED
      BY <3>1, <3>2, <1>0, WithdrawTypes, Zenon DEF MitigationTypes
  <2>3. PICK rs \in Writes(reqs, supersede_pending_adds(reqs, t, i)) :
            LET table == noted(rs, i, FlawsOf(i, t, rs))
            IN  reqs' \in Writes(table, set_request_status(table, i, "applied"))
    BY <1>7 DEF ApplyRemove, t
  <2> DEFINE table == noted(rs, i, FlawsOf(i, t, rs))
  <2>4. rs \in Seq(Request) /\ DOMAIN rs = DOMAIN reqs
    BY <2>1, <2>3, RequestTypes DEF TypeOK, Writes, Status
  <2>4a. table \in Seq(Request) /\ DOMAIN table = DOMAIN reqs
    <3>1. FlawsOf(i, t, rs) \in SUBSET Flaw
      BY DEF FlawsOf, Flaw
    <3>2. QED
      BY <2>1, <2>4, <3>1, NotedTypes
  <2>4b. reqs' \in Writes(table, set_request_status(table, i, "applied"))
    BY <2>3
  <2> HIDE DEF table
  <2>5. reqs' \in Seq(Request) /\ DOMAIN reqs' = DOMAIN reqs
    BY <2>1, <2>4a, <2>4b, RequestTypes DEF Writes, Status
  <2>6. drain' \subseteq DOMAIN reqs'
    BY <1>7, <2>5 DEF ApplyRemove, TypeOK
  <2>7. QED
    BY <1>7, <2>2, <2>5, <2>6 DEF ApplyRemove, TypeOK, MitigationTypes
<1>8. CASE disarm
  <2>1. active' \in PartialMap(Target, Entry)
    BY <1>8, EmptyMapType DEF disarm
  <2>2. QED
    BY <1>8, <1>0, <2>1 DEF disarm, TypeOK, Mishap, Lapse
<1>9. CASE Elapse
  BY <1>9, AgedFacts DEF Elapse, TypeOK
<1>10. CASE Crash
  BY Zenon, <1>10, EmptyMapType DEF Crash, TypeOK
<1>11. CASE rehydrate
  <2>1. PICK S, r :
            /\ S \in Rehydratable(config', DOMAIN journal) /\ r \subseteq S
            /\ active' = [t \in S |-> NewEntry(journal[t])]
            /\ routes' = r
            /\ pending_reapply' = S \ r
            /\ lapses' = Mishap(DOMAIN journal \ S, "dropped")
    BY Zenon, <1>11 DEF rehydrate, Succeeding
  <2>2. DOMAIN journal \subseteq Target /\ journal \in [DOMAIN journal -> Origin]
    BY PartialMapDef DEF TypeOK
  <2>3. S \subseteq DOMAIN journal
    BY <2>1 DEF Rehydratable
  <2>4. active' \in [S -> Entry]
    BY <2>1, <2>2, <2>3, EntryTypes
  <2>5. active' \in PartialMap(Target, Entry)
    BY <2>2, <2>3, <2>4, PartialMapDef
  <2>6. QED
    BY <1>11, <2>1, <2>2, <2>3, <2>5 DEF rehydrate, TypeOK, Mishap, Lapse
<1>12. CASE UNCHANGED vars
  BY <1>12 DEF vars, TypeOK
<1>13. QED
  BY <1>1, <1>2, <1>3, <1>4, <1>5, <1>6, <1>7, <1>8, <1>9, <1>10, <1>11, <1>12
     DEF Next, Detection, Enqueue, ApplyRequest

\* TypeOK is an invariant of every behaviour of the manager.
THEOREM TypeCorrect == Spec => []TypeOK
<1>1. Init => TypeOK
  <2>1. /\ EmptyMap \in PartialMap(Target, Entry)
        /\ EmptyMap \in PartialMap(Target, MirrorOp)
        /\ EmptyMap \in PartialMap(Target, Origin)
    BY EmptyMapType, Zenon
  <2>2. <<>> \in Seq(Request)
    OBVIOUS
  <2>3. QED
    BY <2>1, <2>2, Zenon DEF Init, TypeOK
<1>2. QED
  BY <1>1, TypeStep, PTL DEF Spec

(***************************************************************************)
(* What the steps do to the active set and to the routes.  Every action    *)
(* has one of six shapes; the invariants that relate the two need no more. *)
(***************************************************************************)

\* No target becomes active or stops being active, no route changes.
KeepsTargets ==
    /\ DOMAIN active' = DOMAIN active
    /\ UNCHANGED <<running, routes, config, disarmed, pending_reapply>>
    /\ lapses \subseteq lapses'

\* One admitted target is announced by an armed manager.
Announces(t) ==
    /\ Inserts(config, active, t)
    /\ ~disarmed
    /\ DOMAIN active' = DOMAIN active \cup {t}
    /\ routes' = routes \cup {t}
    /\ running
    /\ UNCHANGED <<running, config, disarmed, pending_reapply>>
    /\ lapses \subseteq lapses'

\* The re-announces r succeed, then the targets S leave; the executor refuses
\* the withdraws outside w.
Withdraws(S, r, w) ==
    /\ S \subseteq DOMAIN active
    /\ r \subseteq StillWanted
    /\ w \subseteq S
    /\ DOMAIN active' = DOMAIN active \ S
    /\ routes' = (routes \cup r) \ w
    /\ pending_reapply' = pending_reapply \/ pending_reapply' = StillWanted \ r
    /\ r = {} \/ pending_reapply' = StillWanted \ r
    /\ running
    /\ UNCHANGED <<running, config, disarmed>>
    /\ lapses \subseteq lapses'
    /\ Mishap(S \ w, "withdraw") \subseteq lapses'

\* Everything leaves and the manager is disarmed.
Disarms(w) ==
    /\ w \subseteq DOMAIN active
    /\ DOMAIN active' = {}
    /\ disarmed' = TRUE
    /\ routes' = routes \ w
    /\ running
    /\ UNCHANGED <<running, config, pending_reapply>>
    /\ lapses \subseteq lapses'
    /\ Mishap(DOMAIN active \ w, "withdraw") \subseteq lapses'

\* The process ends.
Stops ==
    /\ DOMAIN active' = {} /\ routes' = {} /\ pending_reapply' = {}
    /\ running' = FALSE /\ disarmed' = FALSE /\ config' = config

\* The process starts with the rows S, of which r are announced.
Starts(S, r) ==
    /\ ~running
    /\ S \in Rehydratable(config', DOMAIN journal)
    /\ r \subseteq S
    /\ DOMAIN active' = S
    /\ routes' = r
    /\ pending_reapply' = S \ r
    /\ running' = TRUE
    /\ disarmed' = disarmed
    /\ config' \in Configs

Shape ==
    \/ KeepsTargets
    \/ \E t \in Target : Announces(t)
    \/ \E S, r, w : Withdraws(S, r, w)
    \/ \E w : Disarms(w)
    \/ Stops
    \/ \E S, r : Starts(S, r)

\* An executed announce keeps the targets or announces.
LEMMA AnnounceShape ==
    ASSUME NEW t \in Target, NEW o, NEW result \in AnnounceResults,
           Inserts(config, active, t),
           execute_and_journal_announce(t, o, result),
           running, UNCHANGED <<running, config, disarmed, pending_reapply>>
    PROVE  KeepsTargets \/ Announces(t)
<1>1. lapses \subseteq lapses'
  BY DEF execute_and_journal_announce
<1>2. CASE Announced(result)
  <2>1. active' = Put(active, t, NewEntry(o)) /\ routes' = routes \cup {t}
    BY <1>2 DEF execute_and_journal_announce
  <2>2. DOMAIN active' = DOMAIN active \cup {t}
    BY Zenon, <2>1, PutValue
  <2>3. ~disarmed
    BY <1>2 DEF AnnounceResults, Announced
  <2>4. QED
    BY <1>1, <2>1, <2>2, <2>3 DEF Announces
<1>3. CASE ~Announced(result)
  <2>1. active' = active /\ routes' = routes
    BY <1>3 DEF execute_and_journal_announce
  <2>2. QED
    BY <1>1, <2>1 DEF KeepsTargets
<1>4. QED
  BY <1>2, <1>3

\* Rewriting the entry of an active target keeps the targets.
LEMMA RewriteShape ==
    ASSUME NEW t \in DOMAIN active, NEW e, active' = Put(active, t, e),
           UNCHANGED <<running, routes, config, disarmed, pending_reapply>>, lapses \subseteq lapses'
    PROVE  KeepsTargets
<1>1. DOMAIN Put(active, t, e) = DOMAIN active \cup {t}
  BY Zenon, PutValue
<1>2. DOMAIN active' = DOMAIN active
  BY <1>1
<1>3. QED
  BY <1>2 DEF KeepsTargets

\* Withdraws, after the re-announces r, have the withdrawing shape.
LEMMA WithdrawShape ==
    ASSUME NEW S, S \subseteq DOMAIN active, NEW r, r \subseteq StillWanted, NEW j, NEW q,
           execute_and_journal_withdraws(S, routes \cup r, j, q),
           \/ r = {} /\ pending_reapply' = pending_reapply
           \/ pending_reapply' = StillWanted \ r,
           running, UNCHANGED <<running, config, disarmed>>
    PROVE  \E w : Withdraws(S, r, w)
<1>1. PICK w, d : w \subseteq S /\ d \subseteq w /\ Withdrawn(S, w, d, routes \cup r, j, q)
  BY DEF execute_and_journal_withdraws, Succeeding
<1>2. DOMAIN active' = DOMAIN active \ S
  BY Zenon, <1>1, DropValue DEF Withdrawn
<1>3. Withdraws(S, r, w)
  BY <1>1, <1>2 DEF Withdraws, Withdrawn
<1>4. QED
  BY <1>3

\* Every step has one of the shapes.
LEMMA StepShape == TypeOK /\ [Next]_vars => Shape
<1> SUFFICES ASSUME TypeOK, [Next]_vars PROVE Shape
  OBVIOUS
<1>1. ASSUME NEW t \in Target, Opened(t) PROVE Shape
  <2>1. CASE Inserts(config, active, t)
             /\ \E result \in AnnounceResults : execute_and_journal_announce(t, "Auto", result)
    BY <1>1, <2>1, AnnounceShape DEF Opened, Idle, Shape
  <2>2. CASE /\ Reasserts(config, active, t)
             /\ active' = Put(active, t, Reasserted(active[t]))
             /\ UNCHANGED <<routes, journal, pending_mirror, lapses>>
    BY <1>1, <2>2, RewriteShape DEF Opened, Reasserts, Shape
  <2>3. QED
    BY <1>1, <2>1, <2>2 DEF Opened
<1>2. ASSUME NEW t \in Target, Updated(t) PROVE Shape
  <2>1. CASE t \in DOMAIN active
    BY <1>2, <2>1, RewriteShape DEF Updated, Refreshed, Shape
  <2>2. CASE t \notin DOMAIN active
    BY <1>2, <2>2 DEF Updated, Refreshed, Shape, KeepsTargets
  <2>3. QED
    BY <2>1, <2>2
<1>3. ASSUME NEW t \in Target, Cleared(t) PROVE Shape
  <2>1. CASE ClearsNow(active, t)
             /\ execute_and_journal_withdraws({t}, routes, journal, pending_mirror)
    <3>1. routes = routes \cup {} /\ {} \subseteq StillWanted /\ {t} \subseteq DOMAIN active
      BY <2>1 DEF ClearsNow
    <3>2. execute_and_journal_withdraws({t}, routes \cup {}, journal, pending_mirror)
      BY <2>1, <3>1
    <3>3. \E w : Withdraws({t}, {}, w)
      BY Zenon, <1>3, <3>1, <3>2, WithdrawShape DEF Cleared, Idle
    <3>4. QED
      BY <3>3 DEF Shape
  <2>2. CASE /\ DefersClear(active, t)
             /\ active' = Put(active, t, ClearDeferred(active[t]))
             /\ UNCHANGED <<routes, journal, pending_mirror, lapses>>
    BY <1>3, <2>2, RewriteShape DEF Cleared, DefersClear, Shape
  <2>3. QED
    BY <1>3, <2>1, <2>2 DEF Cleared
<1>4. ASSUME Tick PROVE Shape
  <2>1. PICK m \in Succeeding(DOMAIN pending_mirror, "JournalFails"),
             r \in Succeeding(StillWanted, "ExecutorFails") :
          /\ pending_reapply' = StillWanted \ r
          /\ execute_and_journal_withdraws(
                 Expired(active), routes \cup r,
                 Replayed(journal, pending_mirror, m), Drop(pending_mirror, m))
    BY ZenonT(30), <1>4 DEF Tick
  <2>2. r \subseteq StillWanted /\ Expired(active) \subseteq DOMAIN active
    BY SucceedingSubset DEF Expired
  <2>3. \E w : Withdraws(Expired(active), r, w)
    BY ZenonT(30), <1>4, <2>1, <2>2, WithdrawShape DEF Tick, Idle
  <2>4. QED
    BY <2>3 DEF Shape
<1>5. ASSUME NEW t \in Target, EnqueueAdd(t) \/ EnqueueRemove(t) PROVE Shape
  BY <1>5 DEF EnqueueAdd, EnqueueRemove, Shape, KeepsTargets
<1>6. ASSUME NEW i \in drain, ApplyAdd(i) PROVE Shape
  <2> DEFINE t == reqs[i].target
  <2>1. t \in Target
    BY DrainedRow
  <2>2. CASE UpgradeToManual(t)
    BY <1>6, <2>2, RewriteShape DEF ApplyAdd, UpgradeToManual, Shape
  <2>3. CASE Inserts(config, active, t)
             /\ \E result \in AnnounceResults : execute_and_journal_announce(t, "Manual", result)
    BY <1>6, <2>1, <2>3, AnnounceShape DEF ApplyAdd, NextInDrain, Shape
  <2>4. CASE UNCHANGED <<active, routes, journal, pending_mirror, lapses>>
    BY <1>6, <2>4 DEF ApplyAdd, Shape, KeepsTargets
  <2>5. QED
    BY <1>6, <2>2, <2>3, <2>4 DEF ApplyAdd
<1>7. ASSUME NEW i \in drain, ApplyRemove(i) PROVE Shape
  <2> DEFINE S == {reqs[i].target} \cap DOMAIN active
  <2>1. execute_and_journal_withdraws(S, routes \cup {}, journal, pending_mirror)
    <3>1. routes \cup {} = routes
      OBVIOUS
    <3>2. QED
      BY <1>7, <3>1 DEF ApplyRemove
  <2>2. S \subseteq DOMAIN active /\ {} \subseteq StillWanted
    OBVIOUS
  <2> HIDE DEF S
  <2>3. \E w : Withdraws(S, {}, w)
    BY Zenon, <1>7, <2>1, <2>2, WithdrawShape DEF ApplyRemove, NextInDrain
  <2>4. QED
    BY <2>3 DEF Shape
<1>8. CASE disarm
  BY Zenon, <1>8, EmptyMapDomain DEF disarm, Idle, Succeeding, Shape, Disarms
<1>9. CASE Elapse
  BY <1>9 DEF Elapse, Aged, Shape, KeepsTargets
<1>10. CASE Crash
  BY <1>10, EmptyMapDomain DEF Crash, Shape, Stops
<1>11. CASE rehydrate
  BY <1>11 DEF rehydrate, Succeeding, Shape, Starts
<1>12. CASE UNCHANGED vars
  BY <1>12 DEF vars, Shape, KeepsTargets
<1>13. QED
  BY <1>1, <1>2, <1>3, <1>4, <1>5, <1>6, <1>7, <1>8, <1>9, <1>10, <1>11, <1>12
     DEF Next, Detection, Enqueue, ApplyRequest

\* The targets that are active are finitely many.
LEMMA ActiveFinite ==
    ASSUME TypeOK
    PROVE  IsFiniteSet(DOMAIN active) /\ Cardinality(DOMAIN active) \in Nat
<1>1. DOMAIN active \subseteq Target
  BY PartialMapDef DEF TypeOK
<1>2. IsFiniteSet(DOMAIN active)
  BY <1>1, TargetFinite, FS_Subset
<1>3. QED
  BY <1>2, FS_CardinalityType

\* Every step keeps the active set within max_blackholes.
LEMMA CapStep == TypeOK /\ TypeOK' /\ CapRespected /\ Shape => CapRespected'
<1> SUFFICES ASSUME TypeOK, TypeOK', CapRespected, Shape PROVE CapRespected'
  OBVIOUS
<1>0. config.max_blackholes \in Nat /\ config'.max_blackholes \in Nat
  BY ConfigsAssumption DEF TypeOK, Config
<1>1. IsFiniteSet(DOMAIN active) /\ Cardinality(DOMAIN active) \in Nat
  BY ActiveFinite
<1>2. CASE KeepsTargets
  BY <1>2 DEF KeepsTargets, CapRespected
<1>3. ASSUME NEW t \in Target, Announces(t) PROVE CapRespected'
  <2>1. Cardinality(DOMAIN active \cup {t}) = Cardinality(DOMAIN active) + 1
    BY <1>1, <1>3, FS_AddElement DEF Announces, Inserts
  <2>2. QED
    BY <1>0, <1>1, <1>3, <2>1 DEF Announces, Inserts, CapRespected
<1>4. ASSUME NEW S, NEW r, NEW w, Withdraws(S, r, w) PROVE CapRespected'
  <2>1. DOMAIN active' = DOMAIN active \ S /\ config' = config
    BY <1>4 DEF Withdraws
  <2>2. /\ Cardinality(DOMAIN active \ S) \in Nat
        /\ Cardinality(DOMAIN active \ S) <= Cardinality(DOMAIN active)
    BY <1>1, FS_Subset, FS_CardinalityType
  <2>3. QED
    BY <1>0, <1>1, <2>1, <2>2 DEF CapRespected
<1>5. ASSUME NEW w, Disarms(w) PROVE CapRespected'
  BY <1>0, <1>5, FS_EmptySet DEF Disarms, CapRespected
<1>6. CASE Stops
  BY <1>0, <1>6, FS_EmptySet DEF Stops, CapRespected
<1>7. ASSUME NEW S, NEW r, Starts(S, r) PROVE CapRespected'
  BY <1>7 DEF Starts, Rehydratable, CapRespected
<1>8. QED
  BY <1>2, <1>3, <1>4, <1>5, <1>6, <1>7 DEF Shape

\* The invariants that relate the active set and the routes.
RouteInv ==
    /\ NeverMitigateInadmissible
    /\ ActiveIsAnnounced
    /\ NoPhantomRoute
    /\ DisarmedInert
    /\ ~running => ~disarmed

\* Every step keeps what is announced in line with what is active.
LEMMA RouteStep ==
    TypeOK /\ RouteInv /\ Shape =>
        /\ NeverMitigateInadmissible'
        /\ ActiveIsAnnounced'
        /\ NoPhantomRoute'
        /\ DisarmedInert'
<1> DEFINE Goal == /\ NeverMitigateInadmissible'
                   /\ ActiveIsAnnounced'
                   /\ NoPhantomRoute'
                   /\ DisarmedInert'
<1> SUFFICES ASSUME TypeOK, RouteInv, Shape PROVE Goal
  OBVIOUS
<1> USE DEF RouteInv, NeverMitigateInadmissible, ActiveIsAnnounced, NoPhantomRoute, DisarmedInert
<1>1. CASE KeepsTargets
  BY <1>1 DEF KeepsTargets
<1>2. ASSUME NEW t \in Target, Announces(t) PROVE Goal
  BY <1>2 DEF Announces, Inserts, Admissible
<1>3. ASSUME NEW S, NEW r, NEW w, Withdraws(S, r, w) PROVE Goal
  BY <1>3 DEF Withdraws, StillWanted, Mishap
<1>4. ASSUME NEW w, Disarms(w) PROVE Goal
  BY <1>4 DEF Disarms, Mishap
<1>5. CASE Stops
  BY <1>5 DEF Stops
<1>6. ASSUME NEW S, NEW r, Starts(S, r) PROVE Goal
  BY <1>6 DEF Starts, Rehydratable
<1>7. QED
  BY <1>1, <1>2, <1>3, <1>4, <1>5, <1>6 DEF Shape

(***************************************************************************)
(* What the steps do to the journal                                        *)
(***************************************************************************)

\* The invariants that relate the active set, the journal and its queue.
MirrorInv == MirrorExact /\ QueuedIsLapsed /\ DownIsClean

\* A target with no lapse after a step that forgets none had none before.
LEMMA UndisturbedBefore ==
    ASSUME NEW t, lapses \subseteq lapses', Undisturbed(t)'
    PROVE  Undisturbed(t)
BY DEF Undisturbed

\* An executed announce keeps the mirror.
LEMMA AnnounceMirror ==
    ASSUME TypeOK, MirrorInv, running, running' = running, NEW t \in Target,
           NEW o \in Origin, NEW result \in AnnounceResults, t \notin DOMAIN active,
           execute_and_journal_announce(t, o, result)
    PROVE  MirrorInv'
<1>0. lapses \subseteq lapses'
  BY DEF execute_and_journal_announce
<1>1. CASE result = "Applied"
  <2>1. /\ active' = Put(active, t, NewEntry(o))
        /\ journal' = record_announce(journal, t, o)
        /\ UNCHANGED <<pending_mirror, lapses>>
    BY <1>1 DEF execute_and_journal_announce, Announced
  <2>2. ASSUME NEW x \in Target, Undisturbed(x) PROVE Mirrored(x)'
    <3>1. Mirrored(x)
      BY <2>2 DEF MirrorInv, MirrorExact
    <3>2. CASE x = t
      <4>1. t \notin DOMAIN journal
        BY <3>1, <3>2 DEF Mirrored
      <4>2. journal'[t] = o /\ t \in DOMAIN journal'
        BY <2>1, <4>1, RecordAnnounceAt
      <4>3. active'[t] = NewEntry(o) /\ t \in DOMAIN active'
        BY <2>1, PutAt
      <4>4. QED
        BY <3>2, <4>2, <4>3 DEF Mirrored, NewEntry
    <3>3. CASE x # t
      <4>1. /\ x \in DOMAIN journal' <=> x \in DOMAIN journal
            /\ x \in DOMAIN journal => journal'[x] = journal[x]
        BY <2>1, <3>3, RecordAnnounceElsewhere
      <4>2. /\ x \in DOMAIN active' <=> x \in DOMAIN active
            /\ x \in DOMAIN active => active'[x] = active[x]
        BY <2>1, <3>3, PutElsewhere
      <4>3. QED
        BY <3>1, <4>1, <4>2 DEF Mirrored
    <3>4. QED
      BY <3>2, <3>3
  <2>3. \A x \in Target : Undisturbed(x)' => Mirrored(x)'
    BY <1>0, <2>2, UndisturbedBefore
  <2>4. QED
    BY <2>1, <2>3 DEF MirrorInv, MirrorExact, QueuedIsLapsed, DownIsClean
<1>2. CASE result = "AppliedUnjournaled"
  <2>1. /\ active' = Put(active, t, NewEntry(o))
        /\ journal' = journal
        /\ pending_mirror' = Put(pending_mirror, t, o)
        /\ lapses' = lapses \cup Mishap({t}, "journal")
    BY <1>2 DEF execute_and_journal_announce, Announced
  <2>2. <<t, "journal">> \in lapses'
    BY <2>1 DEF Mishap
  <2>3. ASSUME NEW x \in Target, Undisturbed(x)' PROVE Mirrored(x)'
    <3>1. x # t
      BY <2>2, <2>3 DEF Undisturbed, Lapse
    <3>2. Mirrored(x)
      BY <2>3, <1>0, UndisturbedBefore DEF MirrorInv, MirrorExact
    <3>3. /\ x \in DOMAIN active' <=> x \in DOMAIN active
          /\ x \in DOMAIN active => active'[x] = active[x]
      BY <2>1, <3>1, PutElsewhere
    <3>4. QED
      BY <2>1, <3>2, <3>3 DEF Mirrored
  <2>4. DOMAIN pending_mirror' = DOMAIN pending_mirror \cup {t}
    BY Zenon, <2>1, PutValue
  <2>5. QueuedIsLapsed'
    BY Zenon, <2>2, <2>4, <1>0 DEF MirrorInv, QueuedIsLapsed
  <2>6. QED
    BY <2>3, <2>5 DEF MirrorInv, MirrorExact, DownIsClean
<1>3. CASE ~Announced(result)
  <2>1. UNCHANGED <<active, journal, pending_mirror, lapses>>
    BY <1>3 DEF execute_and_journal_announce, Announced
  <2>2. QED
    BY <2>1 DEF MirrorInv, MirrorExact, QueuedIsLapsed, DownIsClean, Undisturbed, Mirrored
<1>4. QED
  BY <1>1, <1>2, <1>3 DEF Announced

\* Executed withdraws keep the mirror, when the journal j and the queue q they
\* start from already agree with the active set.
LEMMA WithdrawMirror ==
    ASSUME running' = running, DownIsClean, running,
           NEW S, S \subseteq DOMAIN active, NEW r, NEW j, NEW q,
           \A t \in Target : Undisturbed(t) =>
                /\ t \in DOMAIN j <=> t \in DOMAIN active
                /\ t \in DOMAIN active => j[t] = active[t].origin,
           \A t \in DOMAIN q : <<t, "journal">> \in lapses,
           execute_and_journal_withdraws(S, r, j, q)
    PROVE  MirrorInv'
<1>1. PICK w, d : w \subseteq S /\ d \subseteq w /\ Withdrawn(S, w, d, r, j, q)
  BY DEF execute_and_journal_withdraws, Succeeding
<1>2. /\ active' = Drop(active, S)
      /\ journal' = Drop(j, d)
      /\ pending_mirror' = PutAll(q, w \ d, "Withdraw")
      /\ lapses' = lapses \cup Mishap(S \ w, "withdraw") \cup Mishap(w \ d, "journal")
  BY <1>1 DEF Withdrawn
<1>3. lapses \subseteq lapses'
  BY <1>2
<1>4. ASSUME NEW t \in Target, Undisturbed(t)' PROVE Mirrored(t)'
  <2>1. /\ t \in DOMAIN j <=> t \in DOMAIN active
        /\ t \in DOMAIN active => j[t] = active[t].origin
    BY <1>3, <1>4, UndisturbedBefore
  <2>2. CASE t \in S
    <3>1. t \in d
      BY <1>1, <1>2, <1>4, <2>2 DEF Undisturbed, Lapse, Mishap
    <3>2. t \notin DOMAIN active' /\ t \notin DOMAIN journal'
      BY <1>2, <2>2, <3>1, DropAt
    <3>3. QED
      BY <3>2 DEF Mirrored
  <2>3. CASE t \notin S
    <3>1. t \notin d
      BY <1>1, <2>3
    <3>2. /\ t \in DOMAIN active' <=> t \in DOMAIN active
          /\ t \in DOMAIN active => active'[t] = active[t]
      BY <1>2, <2>3, DropElsewhere
    <3>3. /\ t \in DOMAIN journal' <=> t \in DOMAIN j
          /\ t \in DOMAIN j => journal'[t] = j[t]
      BY <1>2, <3>1, DropElsewhere
    <3>4. QED
      BY <2>1, <3>2, <3>3 DEF Mirrored
  <2>4. QED
    BY <2>2, <2>3
<1>5. QueuedIsLapsed'
  <2>1. DOMAIN pending_mirror' = DOMAIN q \cup (w \ d)
    BY Zenon, <1>2, PutAllValue
  <2>2. QED
    BY ZenonT(30), <1>2, <2>1 DEF QueuedIsLapsed, Mishap
<1>6. QED
  BY <1>4, <1>5 DEF MirrorInv, MirrorExact, DownIsClean

\* Rewriting an entry without touching its origin keeps the mirror.
LEMMA RewriteMirror ==
    ASSUME MirrorInv, NEW t \in DOMAIN active, NEW e, e.origin = active[t].origin,
           active' = Put(active, t, e),
           UNCHANGED <<running, disarmed, journal, pending_mirror, lapses>>
    PROVE  MirrorInv'
<1>1. ASSUME NEW x \in Target, Mirrored(x) PROVE Mirrored(x)'
  <2>1. CASE x = t
    <3>1. t \in DOMAIN active' /\ active'[t] = e
      BY PutAt
    <3>2. QED
      BY <1>1, <2>1, <3>1 DEF Mirrored
  <2>2. CASE x # t
    <3>1. /\ x \in DOMAIN active' <=> x \in DOMAIN active
          /\ x \in DOMAIN active => active'[x] = active[x]
      BY <2>2, PutElsewhere
    <3>2. QED
      BY <1>1, <3>1 DEF Mirrored
  <2>3. QED
    BY <2>1, <2>2
<1>2. \A x \in Target : Undisturbed(x)' = Undisturbed(x)
  BY DEF Undisturbed
<1>3. QED
  BY <1>1, <1>2 DEF MirrorInv, MirrorExact, QueuedIsLapsed, DownIsClean

\* Upgrading an active target to Manual keeps the mirror: the row is promoted, or
\* the failed promotion is on record.
LEMMA UpgradeMirror ==
    ASSUME TypeOK, MirrorInv, running, UNCHANGED <<running, disarmed>>,
           NEW t \in Target, UpgradeToManual(t)
    PROVE  MirrorInv'
<1>1. t \in DOMAIN active /\ active' = Put(active, t, Upgraded(active[t]))
  BY DEF UpgradeToManual
<1>2. ASSUME NEW x \in Target, x # t
      PROVE  /\ x \in DOMAIN active' <=> x \in DOMAIN active
             /\ x \in DOMAIN active => active'[x] = active[x]
  BY <1>1, <1>2, PutElsewhere
<1>3. CASE journal' = record_announce(journal, t, "Manual") /\ UNCHANGED <<pending_mirror, lapses>>
  <2>1. ASSUME NEW x \in Target, Mirrored(x) PROVE Mirrored(x)'
    <3>1. CASE x = t
      <4>1. t \in DOMAIN active' /\ active'[t] = Upgraded(active[t])
        BY <1>1, PutAt
      <4>2. t \in DOMAIN journal' /\ journal'[t] = "Manual"
        BY <1>3, RecordAnnounceAt
      <4>3. QED
        BY <3>1, <4>1, <4>2 DEF Mirrored, Upgraded
    <3>2. CASE x # t
      <4>1. /\ x \in DOMAIN journal' <=> x \in DOMAIN journal
            /\ x \in DOMAIN journal => journal'[x] = journal[x]
        BY <1>3, <3>2, RecordAnnounceElsewhere
      <4>2. QED
        BY <1>2, <2>1, <3>2, <4>1 DEF Mirrored
    <3>3. QED
      BY <3>1, <3>2
  <2>2. QED
    BY <1>3, <2>1 DEF MirrorInv, MirrorExact, QueuedIsLapsed, DownIsClean, Undisturbed
<1>4. CASE /\ pending_mirror' = Put(pending_mirror, t, "Manual")
           /\ lapses' = lapses \cup Mishap({t}, "journal")
           /\ UNCHANGED journal
  <2>1. <<t, "journal">> \in lapses' /\ lapses \subseteq lapses'
    BY <1>4 DEF Mishap
  <2>2. ASSUME NEW x \in Target, Undisturbed(x)' PROVE Mirrored(x)'
    <3>1. x # t
      BY <2>1, <2>2 DEF Undisturbed, Lapse
    <3>2. Mirrored(x)
      BY <2>1, <2>2, UndisturbedBefore DEF MirrorInv, MirrorExact
    <3>3. QED
      BY <1>2, <1>4, <3>1, <3>2 DEF Mirrored
  <2>3. DOMAIN pending_mirror' = DOMAIN pending_mirror \cup {t}
    BY ZenonT(30), <1>4, PutValue
  <2>4. QED
    BY <2>1, <2>2, <2>3 DEF MirrorInv, MirrorExact, QueuedIsLapsed, DownIsClean
<1>5. QED
  BY <1>3, <1>4 DEF UpgradeToManual

\* Every step keeps the journal in line with the active set.
LEMMA MirrorStep == TypeOK /\ MirrorInv /\ [Next]_vars => MirrorInv'
<1> SUFFICES ASSUME TypeOK, MirrorInv, [Next]_vars PROVE MirrorInv'
  OBVIOUS
<1>0. running => /\ \A t \in Target : Undisturbed(t) =>
                      /\ t \in DOMAIN journal <=> t \in DOMAIN active
                      /\ t \in DOMAIN active => journal[t] = active[t].origin
                 /\ \A t \in DOMAIN pending_mirror : <<t, "journal">> \in lapses
  BY DEF MirrorInv, MirrorExact, Mirrored, QueuedIsLapsed
<1>1. ASSUME NEW t \in Target, Opened(t) PROVE MirrorInv'
  <2>1. CASE Inserts(config, active, t)
             /\ \E result \in AnnounceResults : execute_and_journal_announce(t, "Auto", result)
    BY <1>1, <2>1, AnnounceMirror DEF Opened, Idle, Inserts, Origin
  <2>2. CASE /\ Reasserts(config, active, t)
             /\ active' = Put(active, t, Reasserted(active[t]))
             /\ UNCHANGED <<routes, journal, pending_mirror, lapses>>
    <3>1. Reasserted(active[t]).origin = active[t].origin
      BY DEF Reasserted
    <3>2. QED
      BY <1>1, <2>2, <3>1, RewriteMirror DEF Opened, Reasserts
  <2>3. QED
    BY <1>1, <2>1, <2>2 DEF Opened
<1>2. ASSUME NEW t \in Target, Updated(t) PROVE MirrorInv'
  <2>1. CASE t \in DOMAIN active
    <3>1. Reasserted(active[t]).origin = active[t].origin
      BY DEF Reasserted
    <3>2. QED
      BY <1>2, <2>1, <3>1, RewriteMirror DEF Updated, Refreshed
  <2>2. CASE t \notin DOMAIN active
    BY <1>2, <2>2 DEF Updated, Refreshed, MirrorInv, MirrorExact, QueuedIsLapsed,
                      DownIsClean, Undisturbed, Mirrored
  <2>3. QED
    BY <2>1, <2>2
<1>3. ASSUME NEW t \in Target, Cleared(t) PROVE MirrorInv'
  <2>1. CASE ClearsNow(active, t)
             /\ execute_and_journal_withdraws({t}, routes, journal, pending_mirror)
    <3>1. {t} \subseteq DOMAIN active
      BY <2>1 DEF ClearsNow
    <3>2. running /\ running' = running /\ DownIsClean
      BY <1>3 DEF Cleared, Idle, MirrorInv
    <3>3. QED
      BY <1>0, <2>1, <3>1, <3>2, WithdrawMirror
  <2>2. CASE /\ DefersClear(active, t)
             /\ active' = Put(active, t, ClearDeferred(active[t]))
             /\ UNCHANGED <<routes, journal, pending_mirror, lapses>>
    <3>1. active[t] \in Entry
      BY <2>2, PartialMapDef DEF DefersClear, TypeOK
    <3>2. ClearDeferred(active[t]).origin = active[t].origin
      BY <3>1 DEF ClearDeferred, Entry
    <3>3. QED
      BY <1>3, <2>2, <3>2, RewriteMirror DEF Cleared, DefersClear
  <2>3. QED
    BY <1>3, <2>1, <2>2 DEF Cleared
<1>4. ASSUME Tick PROVE MirrorInv'
  <2>1. PICK m \in Succeeding(DOMAIN pending_mirror, "JournalFails"),
             r \in Succeeding(StillWanted, "ExecutorFails") :
          execute_and_journal_withdraws(
                 Expired(active), routes \cup r,
                 Replayed(journal, pending_mirror, m), Drop(pending_mirror, m))
    BY ZenonT(30), <1>4 DEF Tick
  <2>2. m \subseteq DOMAIN pending_mirror /\ Expired(active) \subseteq DOMAIN active
    BY SucceedingSubset DEF Expired
  <2>3. running /\ running' = running /\ DownIsClean
    BY <1>4 DEF Tick, Idle, MirrorInv
  <2>4. ASSUME NEW t \in Target, Undisturbed(t)
        PROVE  /\ t \in DOMAIN Replayed(journal, pending_mirror, m) <=> t \in DOMAIN active
               /\ t \in DOMAIN active =>
                    Replayed(journal, pending_mirror, m)[t] = active[t].origin
    <3>1. t \notin m
      BY <1>0, <2>2, <2>3, <2>4 DEF Undisturbed, Lapse
    <3>2. /\ t \in DOMAIN Replayed(journal, pending_mirror, m) <=> t \in DOMAIN journal
          /\ t \in DOMAIN journal => Replayed(journal, pending_mirror, m)[t] = journal[t]
      BY <2>2, <3>1, ReplayedFacts DEF TypeOK
    <3>3. QED
      BY <1>0, <2>3, <2>4, <3>2
  <2>5. \A t \in DOMAIN Drop(pending_mirror, m) : <<t, "journal">> \in lapses
    <3>1. DOMAIN Drop(pending_mirror, m) = DOMAIN pending_mirror \ m
      BY ZenonT(30), DropValue
    <3>2. QED
      BY Zenon, <1>0, <2>3, <3>1
  <2>6. QED
    BY <2>1, <2>2, <2>3, <2>4, <2>5, WithdrawMirror
<1>5. ASSUME NEW t \in Target, EnqueueAdd(t) \/ EnqueueRemove(t) PROVE MirrorInv'
  BY <1>5 DEF EnqueueAdd, EnqueueRemove, MirrorInv, MirrorExact, QueuedIsLapsed,
              DownIsClean, Undisturbed, Mirrored
<1>6. ASSUME NEW i \in drain, ApplyAdd(i) PROVE MirrorInv'
  <2> DEFINE t == reqs[i].target
  <2>1. t \in Target /\ running /\ running' = running /\ disarmed' = disarmed
    BY <1>6, DrainedRow DEF ApplyAdd, NextInDrain
  <2>2. CASE UpgradeToManual(t)
    BY <2>1, <2>2, UpgradeMirror
  <2>3. CASE Inserts(config, active, t)
             /\ \E result \in AnnounceResults : execute_and_journal_announce(t, "Manual", result)
    BY <2>1, <2>3, AnnounceMirror DEF Inserts, Origin
  <2>4. CASE UNCHANGED <<active, routes, journal, pending_mirror, lapses>>
    BY <2>1, <2>4 DEF MirrorInv, MirrorExact, QueuedIsLapsed, DownIsClean, Undisturbed, Mirrored
  <2>5. QED
    BY <1>6, <2>2, <2>3, <2>4 DEF ApplyAdd
<1>7. ASSUME NEW i \in drain, ApplyRemove(i) PROVE MirrorInv'
  <2> DEFINE S == {reqs[i].target} \cap DOMAIN active
  <2>1. execute_and_journal_withdraws(S, routes, journal, pending_mirror)
    BY <1>7 DEF ApplyRemove
  <2>2. S \subseteq DOMAIN active
    OBVIOUS
  <2>3. running /\ running' = running /\ DownIsClean
    BY <1>7 DEF ApplyRemove, NextInDrain, MirrorInv
  <2> HIDE DEF S
  <2>4. QED
    BY <1>0, <2>1, <2>2, <2>3, WithdrawMirror
<1>8. CASE disarm
  <2>1. DOMAIN active' = {} /\ Mishap(DOMAIN active, "disarm") \subseteq lapses'
        /\ lapses \subseteq lapses' /\ UNCHANGED <<running, journal, pending_mirror>> /\ running
    BY <1>8, EmptyMapDomain DEF disarm, Idle
  <2>2. ASSUME NEW t \in Target, Undisturbed(t)' PROVE Mirrored(t)'
    <3>1. t \notin DOMAIN active
      BY <2>1, <2>2 DEF Undisturbed, Lapse, Mishap
    <3>2. t \notin DOMAIN journal
      BY <1>0, <2>1, <2>2, <3>1, UndisturbedBefore
    <3>3. QED
      BY <2>1, <3>2 DEF Mirrored
  <2>3. QED
    BY <2>1, <2>2 DEF MirrorInv, MirrorExact, QueuedIsLapsed, DownIsClean
<1>9. CASE Elapse
  <2>1. /\ DOMAIN active' = DOMAIN active
        /\ \A t \in DOMAIN active : active'[t].origin = active[t].origin
        /\ UNCHANGED <<running, disarmed, journal, pending_mirror, lapses>>
    BY <1>9, AgedFacts DEF Elapse, TypeOK
  <2>2. QED
    BY <2>1 DEF MirrorInv, MirrorExact, QueuedIsLapsed, DownIsClean, Undisturbed, Mirrored
<1>10. CASE Crash
  BY <1>10, EmptyMapDomain DEF Crash, MirrorInv, MirrorExact, QueuedIsLapsed, DownIsClean
<1>11. CASE rehydrate
  <2>1. PICK S \in Rehydratable(config', DOMAIN journal) :
            /\ active' = [t \in S |-> NewEntry(journal[t])]
            /\ lapses' = Mishap(DOMAIN journal \ S, "dropped")
    BY Zenon, <1>11 DEF rehydrate
  <2>2. S \subseteq DOMAIN journal
    BY <2>1 DEF Rehydratable
  <2>3. journal' = journal /\ pending_mirror' = pending_mirror /\ running'
        /\ DOMAIN pending_mirror = {}
    BY <1>11 DEF rehydrate, MirrorInv, DownIsClean
  <2>4. ASSUME NEW t \in Target, Undisturbed(t)' PROVE Mirrored(t)'
    <3>1. t \in DOMAIN journal <=> t \in S
      BY <2>1, <2>2, <2>4 DEF Undisturbed, Lapse, Mishap
    <3>2. t \in S => active'[t].origin = journal[t]
      BY <2>1 DEF NewEntry
    <3>3. QED
      BY <2>1, <2>3, <3>1, <3>2 DEF Mirrored
  <2>5. QED
    BY <2>3, <2>4 DEF MirrorInv, MirrorExact, QueuedIsLapsed, DownIsClean
<1>12. CASE UNCHANGED vars
  BY <1>12 DEF vars, MirrorInv, MirrorExact, QueuedIsLapsed, DownIsClean, Undisturbed, Mirrored
<1>13. QED
  BY <1>1, <1>2, <1>3, <1>4, <1>5, <1>6, <1>7, <1>8, <1>9, <1>10, <1>11, <1>12
     DEF Next, Detection, Enqueue, ApplyRequest

(***************************************************************************)
(* What the steps do to operator entries                                   *)
(***************************************************************************)

\* An entry that is new or rewritten by a step.
NeverClearing(e) == e.origin = "Manual" => ~e.clear

\* Putting an entry that is fine keeps all fine.
LEMMA ManualPut ==
    ASSUME ManualNeverClearing, NEW t, NEW e, NeverClearing(e), active' = Put(active, t, e)
    PROVE  ManualNeverClearing'
<1>1. ASSUME NEW x \in DOMAIN active' PROVE NeverClearing(active'[x])
  <2>1. CASE x = t
    BY <2>1, PutAt
  <2>2. CASE x # t
    <3>1. x \in DOMAIN active /\ active'[x] = active[x]
      BY <1>1, <2>2, PutElsewhere
    <3>2. QED
      BY <3>1 DEF ManualNeverClearing, NeverClearing
  <2>3. QED
    BY <2>1, <2>2
<1>2. QED
  BY <1>1 DEF ManualNeverClearing, NeverClearing

\* Dropping entries keeps all fine.
LEMMA ManualDrop ==
    ASSUME ManualNeverClearing, NEW S, active' = Drop(active, S)
    PROVE  ManualNeverClearing'
<1>1. ASSUME NEW x \in DOMAIN active' PROVE x \in DOMAIN active /\ active'[x] = active[x]
  <2>1. x \notin S
    BY <1>1, DropAt
  <2>2. QED
    BY <1>1, <2>1, DropElsewhere
<1>2. QED
  BY <1>1 DEF ManualNeverClearing

\* No step leaves an operator entry with a clear pending.
LEMMA ManualStep == TypeOK /\ ManualNeverClearing /\ [Next]_vars => ManualNeverClearing'
<1> SUFFICES ASSUME TypeOK, ManualNeverClearing, [Next]_vars PROVE ManualNeverClearing'
  OBVIOUS
<1>0. \A o : NeverClearing(NewEntry(o))
  BY DEF NeverClearing, NewEntry
<1>1. ASSUME NEW t \in Target, Opened(t) PROVE ManualNeverClearing'
  <2>1. CASE \E result \in AnnounceResults : execute_and_journal_announce(t, "Auto", result)
    <3>1. active' = Put(active, t, NewEntry("Auto")) \/ active' = active
      BY <2>1 DEF execute_and_journal_announce
    <3>2. QED
      BY <1>0, <3>1, ManualPut DEF ManualNeverClearing
  <2>2. CASE active' = Put(active, t, Reasserted(active[t]))
    <3>1. NeverClearing(Reasserted(active[t]))
      BY DEF NeverClearing, Reasserted
    <3>2. QED
      BY <2>2, <3>1, ManualPut
  <2>3. QED
    BY <1>1, <2>1, <2>2 DEF Opened
<1>2. ASSUME NEW t \in Target, Updated(t) PROVE ManualNeverClearing'
  <2>1. active' = Put(active, t, Reasserted(active[t])) \/ active' = active
    BY <1>2 DEF Updated, Refreshed
  <2>2. NeverClearing(Reasserted(active[t]))
    BY DEF NeverClearing, Reasserted
  <2>3. QED
    BY <2>1, <2>2, ManualPut DEF ManualNeverClearing
<1>3. ASSUME NEW t \in Target, Cleared(t) PROVE ManualNeverClearing'
  <2>1. CASE execute_and_journal_withdraws({t}, routes, journal, pending_mirror)
    BY <2>1, ManualDrop DEF execute_and_journal_withdraws, Withdrawn
  <2>2. CASE DefersClear(active, t) /\ active' = Put(active, t, ClearDeferred(active[t]))
    <3>1. active[t] \in Entry /\ active[t].origin # "Manual"
      BY <2>2, PartialMapDef DEF DefersClear, TypeOK
    <3>2. NeverClearing(ClearDeferred(active[t]))
      BY <3>1 DEF NeverClearing, ClearDeferred, Entry
    <3>3. QED
      BY <2>2, <3>2, ManualPut
  <2>3. QED
    BY <1>3, <2>1, <2>2 DEF Cleared
<1>4. ASSUME Tick PROVE ManualNeverClearing'
  <2>1. active' = Drop(active, Expired(active))
    BY <1>4 DEF Tick, execute_and_journal_withdraws, Withdrawn
  <2>2. QED
    BY <2>1, ManualDrop
<1>5. ASSUME NEW t \in Target, EnqueueAdd(t) \/ EnqueueRemove(t) PROVE ManualNeverClearing'
  BY <1>5 DEF EnqueueAdd, EnqueueRemove, ManualNeverClearing
<1>6. ASSUME NEW i \in drain, ApplyAdd(i) PROVE ManualNeverClearing'
  <2> DEFINE t == reqs[i].target
  <2>1. \/ active' = Put(active, t, Upgraded(active[t]))
        \/ active' = Put(active, t, NewEntry("Manual"))
        \/ active' = active
    BY ZenonT(30), <1>6 DEF ApplyAdd, UpgradeToManual, execute_and_journal_announce
  <2>2. NeverClearing(Upgraded(active[t]))
    BY DEF NeverClearing, Upgraded
  <2> HIDE DEF t
  <2>3. QED
    BY <1>0, <2>1, <2>2, ManualPut DEF ManualNeverClearing
<1>7. ASSUME NEW i \in drain, ApplyRemove(i) PROVE ManualNeverClearing'
  <2>1. active' = Drop(active, {reqs[i].target} \cap DOMAIN active)
    BY <1>7 DEF ApplyRemove, execute_and_journal_withdraws, Withdrawn
  <2>2. QED
    BY <2>1, ManualDrop
<1>8. CASE disarm
  BY <1>8, EmptyMapDomain DEF disarm, ManualNeverClearing
<1>9. CASE Elapse
  BY <1>9, AgedFacts DEF Elapse, TypeOK, ManualNeverClearing
<1>10. CASE Crash
  BY <1>10, EmptyMapDomain DEF Crash, ManualNeverClearing
<1>11. CASE rehydrate
  BY <1>11 DEF rehydrate, NewEntry, ManualNeverClearing
<1>12. CASE UNCHANGED vars
  BY <1>12 DEF vars, ManualNeverClearing
<1>13. QED
  BY <1>1, <1>2, <1>3, <1>4, <1>5, <1>6, <1>7, <1>8, <1>9, <1>10, <1>11, <1>12
     DEF Next, Detection, Enqueue, ApplyRequest

(***************************************************************************)
(* The theorems                                                            *)
(***************************************************************************)

\* The conjunction of the safety invariants and their strengthening holds
\* initially and is kept by every step.
THEOREM Inductive == (Init => IndInv) /\ (IndInv /\ [Next]_vars => IndInv')
<1>1. ASSUME Init PROVE IndInv
  <2>1. TypeOK
    <3>1. /\ EmptyMap \in PartialMap(Target, Entry)
          /\ EmptyMap \in PartialMap(Target, MirrorOp)
          /\ EmptyMap \in PartialMap(Target, Origin)
      BY EmptyMapType, Zenon
    <3>2. <<>> \in Seq(Request)
      OBVIOUS
    <3>3. QED
      BY <1>1, <3>1, <3>2, Zenon DEF Init, TypeOK
  <2>2. DOMAIN active = {} /\ DOMAIN pending_mirror = {} /\ routes = {} /\ ~running /\ ~disarmed
    BY <1>1, EmptyMapDomain DEF Init
  <2>3. config.max_blackholes \in Nat
    BY <2>1, ConfigsAssumption DEF TypeOK, Config
  <2>4. CapRespected
    BY <2>2, <2>3, FS_EmptySet DEF CapRespected
  <2>5. QED
    BY <2>1, <2>2, <2>4
       DEF IndInv, NeverMitigateInadmissible, ActiveIsAnnounced, NoPhantomRoute, MirrorExact,
           DisarmedInert, DownIsClean, QueuedIsLapsed, ManualNeverClearing
<1>2. ASSUME IndInv, [Next]_vars PROVE IndInv'
  <2>1. TypeOK /\ TypeOK' /\ Shape
    BY <1>2, TypeStep, StepShape DEF IndInv
  <2>2. CapRespected'
    BY <1>2, <2>1, CapStep DEF IndInv
  <2>3. NeverMitigateInadmissible' /\ ActiveIsAnnounced' /\ NoPhantomRoute' /\ DisarmedInert'
    BY <1>2, <2>1, RouteStep DEF IndInv, RouteInv, DownIsClean
  <2>4. MirrorInv'
    BY <1>2, <2>1, MirrorStep DEF IndInv, MirrorInv
  <2>5. ManualNeverClearing'
    BY <1>2, <2>1, ManualStep DEF IndInv
  <2>6. QED
    BY <2>1, <2>2, <2>3, <2>4, <2>5 DEF IndInv, MirrorInv
<1>3. QED
  BY <1>1, <1>2

\* IndInv is an invariant.
LEMMA AlwaysIndInv == Spec => []IndInv
BY Inductive, PTL DEF Spec

\* The cap on concurrent blackholes is never exceeded.
THEOREM CapAlwaysRespected == Spec => []CapRespected
<1>1. IndInv => CapRespected
  BY DEF IndInv
<1>2. QED
  BY <1>1, AlwaysIndInv, PTL

\* A protected, ineligible or unroutable target is never active nor announced.
THEOREM InadmissibleNeverMitigated == Spec => []NeverMitigateInadmissible
<1>1. IndInv => NeverMitigateInadmissible
  BY DEF IndInv
<1>2. QED
  BY <1>1, AlwaysIndInv, PTL

\* Commit-after-confirm: an active entry is announced or queued to be.
THEOREM ActiveAlwaysAnnounced == Spec => []ActiveIsAnnounced
<1>1. IndInv => ActiveIsAnnounced
  BY DEF IndInv
<1>2. QED
  BY <1>1, AlwaysIndInv, PTL

\* A route without an active entry has a refused withdraw on record.
THEOREM NoPhantomRouteEver == Spec => []NoPhantomRoute
<1>1. IndInv => NoPhantomRoute
  BY DEF IndInv
<1>2. QED
  BY <1>1, AlwaysIndInv, PTL

\* Cap and admission hold together, under every configuration a restart brings.
THEOREM ConfigurationAlwaysHolds == Spec => []ConfigurationHolds
BY CapAlwaysRespected, InadmissibleNeverMitigated, PTL DEF ConfigurationHolds

\* The announced routes and the active set agree, but for what is on record.
THEOREM WireAlwaysMatches == Spec => []WireMatchesActive
BY ActiveAlwaysAnnounced, NoPhantomRouteEver, PTL DEF WireMatchesActive

\* The journal agrees with the active set on every undisturbed target.
THEOREM MirrorAlwaysExact == Spec => []MirrorExact
<1>1. IndInv => MirrorExact
  BY DEF IndInv
<1>2. QED
  BY <1>1, AlwaysIndInv, PTL

\* A disarmed process never adds a route.
THEOREM DisarmIsOneWay == Spec => DisarmedNeverAnnounces
<1>1. IndInv /\ [Next]_vars => [disarmed /\ disarmed' => routes' \subseteq routes]_vars
  <2> SUFFICES ASSUME IndInv, [Next]_vars, disarmed, disarmed' PROVE routes' \subseteq routes
    OBVIOUS
  <2>1. Shape /\ DOMAIN active = {} /\ running
    BY StepShape DEF IndInv, DisarmedInert, DownIsClean
  <2>2. QED
    BY ZenonT(30), <2>1 DEF Shape, KeepsTargets, Announces, Withdraws, StillWanted, Disarms, Stops, Starts
<1>2. QED
  BY <1>1, AlwaysIndInv, PTL DEF Spec, DisarmedNeverAnnounces

\* An operator blackhole is taken down by a remove request, by disarm or by the
\* end of the process, and by nothing else.
THEOREM ManualIsOperatorOwned == Spec => ManualOnlyOperatorRemoves
<1> DEFINE Excused(t) ==
        \/ ~running'
        \/ disarmed'
        \/ \E i \in drain \ drain' : reqs[i].target = t /\ reqs[i].action = "remove"
<1>1. ASSUME IndInv, [Next]_vars, NEW t \in DOMAIN active, t \notin DOMAIN active',
             active[t].origin = "Manual"
      PROVE  Excused(t)
  <2>1. active[t] \in Entry /\ ~active[t].clear /\ running
    BY <1>1, PartialMapDef DEF IndInv, TypeOK, ManualNeverClearing, DownIsClean
  <2>2. ASSUME NEW x, NEW e PROVE t \in DOMAIN Put(active, x, e)
    BY <1>1 DEF Put
  <2>3. ASSUME NEW S, t \notin DOMAIN Drop(active, S) PROVE t \in S
    BY <1>1, <2>3 DEF Drop
  <2>4. ASSUME NEW x \in Target, Opened(x) PROVE FALSE
    BY <1>1, <2>2, <2>4 DEF Opened, execute_and_journal_announce
  <2>5. ASSUME NEW x \in Target, Updated(x) PROVE FALSE
    BY <1>1, <2>2, <2>5 DEF Updated, Refreshed
  <2>6. ASSUME NEW x \in Target, Cleared(x) PROVE FALSE
    BY ZenonT(30), <1>1, <2>2, <2>3, <2>6
       DEF Cleared, execute_and_journal_withdraws, Withdrawn, ClearsNow
  <2>7. ASSUME Tick PROVE FALSE
    <3>1. t \notin Expired(active)
      BY <1>1, <2>1 DEF Expired, ClearDue, TtlDue
    <3>2. active' = Drop(active, Expired(active))
      BY <2>7 DEF Tick, execute_and_journal_withdraws, Withdrawn
    <3>3. QED
      BY <1>1, <2>3, <3>1, <3>2
  <2>8. ASSUME NEW x \in Target, EnqueueAdd(x) \/ EnqueueRemove(x) PROVE FALSE
    BY <1>1, <2>8 DEF EnqueueAdd, EnqueueRemove
  <2>9. ASSUME NEW i \in drain, ApplyAdd(i) PROVE FALSE
    BY ZenonT(30), <1>1, <2>2, <2>9 DEF ApplyAdd, UpgradeToManual, execute_and_journal_announce
  <2>10. ASSUME NEW i \in drain, ApplyRemove(i) PROVE Excused(t)
    <3>1. active' = Drop(active, {reqs[i].target} \cap DOMAIN active)
          /\ drain' = drain \ {i} /\ reqs[i].action = "remove"
      BY ZenonT(30), <2>10 DEF ApplyRemove, NextInDrain, execute_and_journal_withdraws, Withdrawn
    <3>2. reqs[i].target = t
      BY <1>1, <2>3, <3>1
    <3>3. QED
      BY <3>1, <3>2
  <2>11. CASE disarm
    BY Zenon, <2>11 DEF disarm
  <2>12. CASE Elapse
    BY <1>1, <2>12 DEF Elapse, Aged
  <2>13. CASE Crash
    BY <2>13 DEF Crash
  <2>14. CASE rehydrate
    BY <2>1, <2>14 DEF rehydrate
  <2>15. CASE UNCHANGED vars
    BY <1>1, <2>15 DEF vars
  <2>16. QED
    BY <1>1, <2>4, <2>5, <2>6, <2>7, <2>8, <2>9, <2>10, <2>11, <2>12, <2>13, <2>14, <2>15
       DEF Next, Detection, Enqueue, ApplyRequest
<1>2. IndInv /\ [Next]_vars =>
        [\A t \in DOMAIN active \ DOMAIN active' : active[t].origin = "Manual" =>
            \/ ~running'
            \/ disarmed'
            \/ \E i \in drain \ drain' : reqs[i].target = t /\ reqs[i].action = "remove"]_vars
  BY <1>1
<1>3. QED
  BY <1>2, AlwaysIndInv, PTL DEF Spec, ManualOnlyOperatorRemoves

(***************************************************************************)
(* The manager implements the contract of a mitigation plane.  Every shape *)
(* of a step is a step of the contract.                                    *)
(***************************************************************************)

\* Each shape maps to a step of the contract or to a stutter.
LEMMA ShapeImplements == Shape => [Plane!Next]_Plane!vars
<1> SUFFICES ASSUME Shape PROVE [Plane!Next]_Plane!vars
  OBVIOUS
<1>1. CASE KeepsTargets
  BY <1>1 DEF KeepsTargets, Plane!vars
<1>2. ASSUME NEW t \in Target, Announces(t) PROVE Plane!Next
  BY <1>2 DEF Announces, Plane!Next, Plane!Confirm
<1>3. ASSUME NEW S, NEW r, NEW w, Withdraws(S, r, w) PROVE Plane!Next
  <2>1. S \subseteq DOMAIN active /\ w \subseteq S /\ r \subseteq StillWanted
    BY <1>3 DEF Withdraws
  <2>2. CASE pending_reapply' = StillWanted \ r
    <3>1. Plane!Settle
      BY <1>3, <2>1, <2>2 DEF Withdraws, StillWanted, Plane!Settle
    <3>2. QED
      BY <3>1 DEF Plane!Next
  <2>3. CASE r = {} /\ pending_reapply' = pending_reapply
    <3>1. Plane!Release
      BY <1>3, <2>1, <2>3 DEF Withdraws, Plane!Release
    <3>2. QED
      BY <3>1 DEF Plane!Next
  <2>4. QED
    BY <1>3, <2>2, <2>3 DEF Withdraws
<1>4. ASSUME NEW w, Disarms(w) PROVE Plane!Next
  BY <1>4 DEF Disarms, Plane!Next, Plane!Kill
<1>5. CASE Stops
  BY <1>5 DEF Stops, Plane!Next, Plane!Die
<1>6. ASSUME NEW S, NEW r, Starts(S, r) PROVE Plane!Next
  <2>1. S \subseteq Target /\ r \subseteq S
    BY <1>6 DEF Starts, Rehydratable, Admissible
  <2>2. Plane!Start
    BY <1>6, <2>1 DEF Starts, Plane!Start
  <2>3. QED
    BY <2>2 DEF Plane!Next
<1>7. QED
  BY <1>1, <1>2, <1>3, <1>4, <1>5, <1>6 DEF Shape

\* The RTBH manager implements the contract: whatever fails and in whatever
\* order, routes come from confirmed entries and owed re-announces only.
THEOREM RtbhImplementsPlane == Spec => ImplementsPlane
<1>1. Init => Plane!Init
  BY EmptyMapDomain DEF Init, Plane!Init
<1>2. TypeOK /\ [Next]_vars => [Plane!Next]_Plane!vars
  BY StepShape, ShapeImplements
<1>3. QED
  BY <1>1, <1>2, TypeCorrect, PTL DEF Spec, ImplementsPlane, Plane!Spec
=============================================================================
