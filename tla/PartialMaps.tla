---------------------------- MODULE PartialMaps ----------------------------
(***************************************************************************)
(* Partial maps, the shape of every HashMap and of every keyed table of    *)
(* the daemon: a map is a function whose DOMAIN is the set of keys         *)
(* present.                                                                *)
(***************************************************************************)

\* The maps from a subset of K to V.
PartialMap(K, V) == UNION {[D -> V] : D \in SUBSET K}

\* f is one of them, put in a form that is cheap to evaluate.
IsPartialMap(f, K, V) == DOMAIN f \subseteq K /\ f \in [DOMAIN f -> V]

EmptyMap == [k \in {} |-> k]

\* Insert or overwrite one key.
Put(f, k, v) == [x \in DOMAIN f \cup {k} |-> IF x = k THEN v ELSE f[x]]

\* Give every key of S the value v.
PutAll(f, S, v) == [x \in DOMAIN f \cup S |-> IF x \in S THEN v ELSE f[x]]

\* Remove the keys of S.
Drop(f, S) == [x \in DOMAIN f \ S |-> f[x]]
=============================================================================
