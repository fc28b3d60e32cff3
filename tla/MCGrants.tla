------------------------------ MODULE MCGrants ------------------------------
(* Instances of AccessGrants: the event loop with a REST worker, or alone. *)
EXTENDS AccessGrants, TLC

Symmetry == Permutations(GrantIds) \cup Permutations(RequestIds)
=============================================================================
