---------------------------- MODULE MCHashTable ----------------------------
(***************************************************************************)
(* A hash table small enough for TLC: four keys, among them the two that    *)
(* bound the sorted header, in two buckets.                                 *)
(***************************************************************************)
EXTENDS HashTable

MCKey == 0..3

\* Keys 0, 1 and 3 collide.
MCHashOf == [k \in MCKey |-> IF k = 2 THEN 2 ELSE 1]
=============================================================================
