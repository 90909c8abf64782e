------------------------- MODULE PartialMapTheorems -------------------------
(***************************************************************************)
(* What the operators of PartialMaps return: their domain and values, and  *)
(* their type.  Proofs about the managers cite these and keep the          *)
(* operators folded.                                                       *)
(***************************************************************************)
EXTENDS PartialMaps, TLAPS

\* A partial map is a function from a subset of K to V.
LEMMA PartialMapDef ==
    ASSUME NEW K, NEW V, NEW f
    PROVE  f \in PartialMap(K, V) <=>
             (DOMAIN f \subseteq K /\ f \in [DOMAIN f -> V])
BY DEF PartialMap

\* The empty map has no key.
LEMMA EmptyMapDomain == DOMAIN EmptyMap = {}
BY DEF EmptyMap

\* The empty map has every type.
LEMMA EmptyMapType ==
    ASSUME NEW K, NEW V
    PROVE  EmptyMap \in PartialMap(K, V)
BY DEF PartialMap, EmptyMap

\* HashMap::insert: the key is present with the new value, the others keep theirs.
LEMMA PutValue ==
    ASSUME NEW f, NEW k, NEW v
    PROVE  /\ DOMAIN Put(f, k, v) = DOMAIN f \cup {k}
           /\ Put(f, k, v)[k] = v
           /\ \A x \in DOMAIN f : x # k => Put(f, k, v)[x] = f[x]
BY DEF Put

\* The inserted key after an insert.
LEMMA PutAt ==
    ASSUME NEW f, NEW k, NEW v
    PROVE  k \in DOMAIN Put(f, k, v) /\ Put(f, k, v)[k] = v
BY DEF Put

\* Any other key after an insert.
LEMMA PutElsewhere ==
    ASSUME NEW f, NEW k, NEW v, NEW x, x # k
    PROVE  /\ x \in DOMAIN Put(f, k, v) <=> x \in DOMAIN f
           /\ x \in DOMAIN f => Put(f, k, v)[x] = f[x]
BY DEF Put

\* HashMap::insert keeps the type.
LEMMA PutType ==
    ASSUME NEW K, NEW V, NEW f \in PartialMap(K, V), NEW k \in K, NEW v \in V
    PROVE  Put(f, k, v) \in PartialMap(K, V)
<1>1. DOMAIN f \subseteq K /\ f \in [DOMAIN f -> V]
  BY PartialMapDef
<1>2. Put(f, k, v) \in [DOMAIN f \cup {k} -> V]
  BY <1>1 DEF Put
<1>3. QED
  BY <1>1, <1>2, PutValue, PartialMapDef

\* Inserting one value at every key of a set.
LEMMA PutAllValue ==
    ASSUME NEW f, NEW S, NEW v
    PROVE  /\ DOMAIN PutAll(f, S, v) = DOMAIN f \cup S
           /\ \A x \in S : PutAll(f, S, v)[x] = v
           /\ \A x \in DOMAIN f : x \notin S => PutAll(f, S, v)[x] = f[x]
BY DEF PutAll

\* Inserting at a set of keys keeps the type.
LEMMA PutAllType ==
    ASSUME NEW K, NEW V, NEW f \in PartialMap(K, V), NEW S, S \subseteq K, NEW v \in V
    PROVE  PutAll(f, S, v) \in PartialMap(K, V)
<1>1. DOMAIN f \subseteq K /\ f \in [DOMAIN f -> V]
  BY PartialMapDef
<1>2. PutAll(f, S, v) \in [DOMAIN f \cup S -> V]
  BY <1>1 DEF PutAll
<1>3. QED
  BY <1>1, <1>2, PutAllValue, PartialMapDef

\* HashMap::remove of a set of keys: the others keep their values.
LEMMA DropValue ==
    ASSUME NEW f, NEW S
    PROVE  /\ DOMAIN Drop(f, S) = DOMAIN f \ S
           /\ \A x \in DOMAIN f : x \notin S => Drop(f, S)[x] = f[x]
BY DEF Drop

\* A removed key.
LEMMA DropAt ==
    ASSUME NEW f, NEW S, NEW x \in S
    PROVE  x \notin DOMAIN Drop(f, S)
BY DEF Drop

\* A key that is not removed.
LEMMA DropElsewhere ==
    ASSUME NEW f, NEW S, NEW x, x \notin S
    PROVE  /\ x \in DOMAIN Drop(f, S) <=> x \in DOMAIN f
           /\ x \in DOMAIN f => Drop(f, S)[x] = f[x]
BY DEF Drop

\* HashMap::remove keeps the type.
LEMMA DropType ==
    ASSUME NEW K, NEW V, NEW f \in PartialMap(K, V), NEW S
    PROVE  Drop(f, S) \in PartialMap(K, V)
<1>1. DOMAIN f \subseteq K /\ f \in [DOMAIN f -> V]
  BY PartialMapDef
<1>2. Drop(f, S) \in [DOMAIN f \ S -> V]
  BY <1>1 DEF Drop
<1>3. QED
  BY <1>1, <1>2, DropValue, PartialMapDef
=============================================================================
