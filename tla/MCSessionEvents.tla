--------------------------- MODULE MCSessionEvents ---------------------------
(* Instances of SessionEvents, with a record of whether two writers have   *)
(* ever been at work at once; racing writers are interchangeable.          *)
EXTENDS SessionEvents, TLC

VARIABLE raced

MCInit == Init /\ raced = FALSE

MCNext ==
  /\ Next
  /\ raced' = (raced \/ \E v, w \in Writers :
                           v # w /\ pc'[v] # "idle" /\ pc'[w] # "idle")

MCSpec == MCInit /\ [][MCNext]_<<vars, raced>>

Symmetry == Permutations(Writers)

(* As long as appends and reseeds run one after the other, every session's *)
(* chain is linear, also when the demo session is seeded anew.             *)
ChainIsLinearAlone == raced \/ ChainIsLinear
=============================================================================
