------------------------------- MODULE MCViewers -------------------------------
(* Viewers on small instances: ids, connections and ptys are symmetric sets.   *)
EXTENDS Viewers, TLC

Symmetry == Permutations(Ids) \cup Permutations(Conns) \cup Permutations(Ptys)

=============================================================================
