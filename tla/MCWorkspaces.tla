----------------------------- MODULE MCWorkspaces -----------------------------
(* Workspaces on small instances: ids and request slots are symmetric sets.    *)
EXTENDS Workspaces, TLC

Symmetry == Permutations(Ids) \cup Permutations(Requests)

\* Once parked.json has been disturbed it stays so, and every property of the
\* crash run is then true of the state: nothing is left to look for.
NotYetDisturbed == ~disturbed

=============================================================================
