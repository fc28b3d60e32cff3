---------------------------- MODULE MCGraphSync -----------------------------
(* Instances of GraphSync, with a record of the threads whose request no   *)
(* other thread's step has interrupted yet.  Other threads may have been   *)
(* stopped in the middle of a rebuild when it began.                       *)
EXTENDS GraphSync, TLC

VARIABLE uninterrupted

MCInit == Init /\ uninterrupted = {}

MCNext ==
  /\ Next
  /\ uninterrupted' =
       {t \in Threads : /\ <<pc'[t], loc'[t]>> # <<pc[t], loc[t]>>
                        /\ pc[t] = "idle" \/ t \in uninterrupted}

MCSpec == MCInit /\ [][MCNext]_<<vars, uninterrupted>>

Symmetry ==
  Permutations(Threads) \cup Permutations(Sessions) \cup Permutations(Resources)

(* A request that is not interrupted is decided on a complete graph,       *)
(* whatever half-built graph other requests left behind and wherever its   *)
(* own rebuild failed: the session is found, with its delegation and its   *)
(* recipe.  A rebuild by another thread in between breaks this.            *)
FactsAreComplete ==
  \A t \in uninterrupted : Deciding(t) =>
    loc[t].facts.found /\ loc[t].facts.delegation /\ loc[t].facts.recipe

(* To a request that is not interrupted a live grant in Dolt is a fact, on *)
(* either backend.                                                         *)
LiveGrantIsSeen ==
  \A t \in uninterrupted :
    Deciding(t) /\ loc[t].query \in live => loc[t].facts.grant
=============================================================================
