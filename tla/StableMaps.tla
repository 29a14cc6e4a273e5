------------------------------ MODULE StableMaps ------------------------------
(***************************************************************************)
(* The stable B-tree maps of the canister (index.rs) as partial functions, *)
(* and the hash maps of amounts that index_runes computes with.            *)
(***************************************************************************)
EXTENDS Integers, FiniteSetsExt

(* BTreeMap::insert and BTreeMap::remove, the latter for a set of keys.    *)
Put(f, k, v) == [x \in DOMAIN f \cup {k} |-> IF x = k THEN v ELSE f[x]]
Without(f, K) == [x \in DOMAIN f \ K |-> f[x]]

(* All of g's entries inserted into f.                                     *)
PutAll(f, g) ==
  [x \in DOMAIN f \cup DOMAIN g |-> IF x \in DOMAIN g THEN g[x] ELSE f[x]]

(* The entry under the greatest key, or a default: iter().rev().next().    *)
Latest(f, default) == IF DOMAIN f = {} THEN default ELSE f[Max(DOMAIN f)]

(* Maps of amounts: an absent key counts for nothing, and                  *)
(* *map.entry(id).or_default() += n adds to it.                            *)
Amount(f, id) == IF id \in DOMAIN f THEN f[id] ELSE 0
Added(f, g) == [id \in DOMAIN f \cup DOMAIN g |-> Amount(f, id) + Amount(g, id)]
MutPositive(f) == f
Positive(f) == [id \in {i \in DOMAIN f : f[i] > 0} |-> f[id]]

=============================================================================
