-------------------------- MODULE MCContextRecords --------------------------
(* Instances of ContextRecords, with a record of whether a reseed has run  *)
(* beside another handler or was cut off, and of what became of proposals. *)
EXTENDS ContextRecords, TLC

CONSTANTS s1, s2, recipe, tool

MCFacts ==
  {[session |-> s1, key |-> "k1", rest |-> "x"],
   [session |-> s1, key |-> "k1", rest |-> "y"],
   [session |-> s2, key |-> "k1", rest |-> "x"]}

MCNamed == {{tool}, {recipe, tool}}
MCLinks == {<<Self, recipe>>, <<recipe, tool>>}

VARIABLES torn,    \* a reseed ran beside another handler, or was cut off
          learned  \* a proposal was made, and no later one broke off

Reseeding == \E t \in Threads : pc[t] # "idle" /\ loc[t].op = "reseed"

MCInit == Init /\ torn = FALSE /\ learned = FALSE

HistoryNext ==
  /\ Next
  /\ torn' =
       \/ torn
       \/ Reseeding' /\ \E t \in Threads : pc'[t] # "idle" /\ loc'[t].op # "reseed"
       \/ \E t, u \in Threads :
            t # u /\ pc'[t] # "idle" /\ pc'[u] # "idle" /\ loc'[t].op = "reseed"
       \/ \E t \in Threads :
            /\ loc[t].op = "reseed" /\ pc'[t] = "idle"
            /\ pc[t] # "delete_decisions" \/ decisions' # NoRows(DecisionIds)
  /\ learned' =
       /\ learned \/ proposal' # None
       /\ ~Reseeding'
       /\ \A t \in Threads :
            pc[t] = "insert_proposal" /\ pc'[t] = "idle" => {proposal, proposal'} # {None}

HistorySpec == MCInit /\ [][HistoryNext]_<<vars, torn, learned>>

(* Bounds: nothing is claimed once a reseed has torn the records, and the  *)
(* search ends there; all proposals are made from s1, for no property      *)
(* looks at which session is their evidence.                               *)
MCNext ==
  /\ ~torn
  /\ HistoryNext
  /\ \A t \in Threads : loc'[t].op = "propose" => loc'[t].session = s1

MCSpec == MCInit /\ [][MCNext]_<<vars, torn, learned>>

Symmetry == Permutations(Threads) \cup Permutations(SnapshotIds) \cup Permutations(DecisionIds)
Settled == ~torn /\ ~Reseeding
-----------------------------------------------------------------------------
(* INITIAL_ROUGH_PLAN.md:399 asks that a decision can be reproduced from a *)
(* snapshot.  DecisionHasItsSnapshot, SnapshotHasItsDecision and           *)
(* GraphIsRooted for as long as no reseed gets in the way of a handler.    *)
DecisionsAreDocumented == Settled => DecisionHasItsSnapshot
SnapshotsAreDocumented == Settled => SnapshotHasItsDecision
GraphIsWhole == Settled => GraphIsRooted

(* Once a proposal was made there is one, although every run deletes it    *)
(* and inserts its own: also when two runs do so at once.  (Between the    *)
(* two statements, and after a run that broke off there, there is none.)   *)
ProposalIsKept ==
  learned => proposal # None \/ \E t \in Threads : pc[t] = "insert_proposal"
=============================================================================
