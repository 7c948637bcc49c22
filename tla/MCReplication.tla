--------------------------- MODULE MCReplication ---------------------------
(* Instances of Replication for TLC: two followers, as with replication     *)
(* factor 3.                                                                *)
EXTENDS Replication, TLC

(* Followers and requests are interchangeable.  Used for safety only.       *)
Symmetry == Permutations(Followers) \union Permutations(Requests)
=============================================================================
