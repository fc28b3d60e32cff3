--------------------------- MODULE ContextRecords ---------------------------
(***************************************************************************)
(* What run_preflight and run_authorize (platform/gateway_service.py) leave*)
(* behind to explain a decision: the snapshot of the facts, the context    *)
(* graph drawn from it, the decision with its proof, and the recipe that   *)
(* the learning worker proposes (platform/dolt_store.py,                   *)
(* platform/person_b/learning_worker.py), beside POST /admin/reseed.       *)
(* Every SQL statement autocommits and is a step, and a handler that       *)
(* raises leaves what it has written.                                      *)
(*                                                                         *)
(* The facts a snapshot materialises are a key, the part that goes into    *)
(* the idempotency key of the check, and the rest of them, which does not. *)
(* The check service is what AuthorizationChecks shows it to be: a request *)
(* is answered with a decision on facts of its session and key, made now   *)
(* or for an earlier request.  All sessions have one goal class and team,  *)
(* so they share one proposal id.                                          *)
(***************************************************************************)
EXTENDS Naturals, FiniteSets

CONSTANTS Threads, Sessions,
          Shared,               \* sources of nodes that sessions share: users,
                                \* agents, teams, resources, scopes, tools,
          Recipes,              \* and recipes
          Self, Links,          \* pairs of sources that edges join; Self is
                                \* the session at hand
          Named,                \* the sets of sources that facts may name
          Facts,                \* what a snapshot may materialise
          SnapshotIds, DecisionIds,
          None,
          MaxReseeds            \* bound of the instance

Nodes == Sessions \cup Shared

Snapshot ==
  [phase : {"preflight", "authorize"}, facts : Facts, decision : DecisionIds \cup {None}]
Decision == [session : Sessions, snapshot : SnapshotIds, basis : Facts]
Edge == [src : Nodes, dst : Nodes, snapshot : SnapshotIds]

ASSUME RecordsAssumption ==
  /\ None \notin SnapshotIds \cup DecisionIds \cup Sessions \cup Facts
  /\ None \notin Snapshot /\ None \notin Decision
  /\ Sessions \cap Shared = {} /\ Recipes \subseteq Shared /\ Self \notin Nodes
  /\ \A named \in Named : named \subseteq Shared
  /\ \A l \in Links : l[1] \in Shared \cup {Self} /\ l[2] \in Shared \cup {Self}
  /\ \A f \in Facts : DOMAIN f = {"session", "key", "rest"} /\ f.session \in Sessions
  /\ MaxReseeds \in Nat

VARIABLES snapshots,  \* table session_context_snapshots
          decisions,  \* table policy_decisions; basis is what was decided on
          nodes,      \* table graph_nodes: each node's provenance
          edges,      \* table graph_edges
          evaluated,  \* the facts the check service has decided on
          proposal,   \* the evidence of the one row of recipe_proposals
          reseeds,
          pc, loc     \* each thread's next statement and local variables

tables == <<snapshots, decisions, nodes, edges, evaluated, proposal, reseeds>>
vars == <<snapshots, decisions, nodes, edges, evaluated, proposal, reseeds, pc, loc>>

NoRows(ids) == [i \in ids |-> None]
Idle == [op |-> "none", session |-> None, facts |-> None, snapshot |-> None,
         basis |-> None, decision |-> None, todo |-> {}]

Init ==
  /\ snapshots = NoRows(SnapshotIds)
  /\ decisions = NoRows(DecisionIds)
  /\ nodes = NoRows(Nodes)
  /\ edges = {}
  /\ evaluated = {}
  /\ proposal = None
  /\ reseeds = 0
  /\ pc = [t \in Threads |-> "idle"]
  /\ loc = [t \in Threads |-> Idle]

-----------------------------------------------------------------------------
Goto(t, label) == pc' = [pc EXCEPT ![t] = label]
Return(t) == Goto(t, "idle") /\ loc' = [loc EXCEPT ![t] = Idle]

(* Bound of the instance: a snapshot is left for every handler at work.    *)
RoomForSnapshot ==
  Cardinality({i \in SnapshotIds : snapshots[i] = None})
    > Cardinality({t \in Threads : pc[t] = "snapshot"})

(* run_preflight or run_authorize, with the facts it has read.             *)
Run(t, op, facts) ==
  /\ pc[t] = "idle" /\ RoomForSnapshot
  /\ loc' = [loc EXCEPT ![t] = [Idle EXCEPT !.op = op, !.session = facts.session,
                                           !.facts = facts]]
  /\ Goto(t, "snapshot")
  /\ UNCHANGED tables

(* An id that uuid4 may return: in no row and in no handler's hands.       *)
FreshSnapshot(i) ==
  /\ snapshots[i] = None
  /\ \A t \in Threads : loc[t].snapshot # i
  /\ \A x \in Nodes : nodes[x] # i
  /\ \A e \in edges : e.snapshot # i
  /\ \A d \in DecisionIds : decisions[d] # None => decisions[d].snapshot # i

FreshDecision(d) ==
  /\ decisions[d] = None
  /\ \A t \in Threads : loc[t].decision # d
  /\ \A i \in SnapshotIds : snapshots[i] # None => snapshots[i].decision # d

(* The rows record_context_graph puts together for a session and what its  *)
(* facts name: an edge is there if both of its ends are.                   *)
GraphOf(s, i, named) ==
  LET at(x) == IF x = Self THEN s ELSE x IN
  {s} \cup named \cup
  {[src |-> at(l[1]), dst |-> at(l[2]), snapshot |-> i] :
     l \in {k \in Links : {at(k[1]), at(k[2])} \subseteq {s} \cup named}}

(* save_context_snapshot.                                                  *)
SaveSnapshot(t) ==
  /\ pc[t] = "snapshot"
  /\ \E i \in SnapshotIds, named \in Named :
       /\ FreshSnapshot(i)
       /\ snapshots' = [snapshots EXCEPT ![i] =
            [phase |-> loc[t].op, facts |-> loc[t].facts, decision |-> None]]
       /\ loc' = [loc EXCEPT ![t].snapshot = i,
                             ![t].todo = GraphOf(loc[t].session, i, named)]
  /\ Goto(t, "graph")
  /\ UNCHANGED <<decisions, nodes, edges, evaluated, proposal, reseeds>>

(* Variant of Ready: edges are written as they come.                       *)
ReadyInAnyOrder(todo) == todo

(* Nodes are written before edges, and the session's node before others.   *)
Ready(todo) ==
  IF todo \cap Sessions # {} THEN todo \cap Sessions
  ELSE IF todo \cap Nodes # {} THEN todo \cap Nodes ELSE todo

(* record_context_graph: a node is one row for all sessions, and whoever   *)
(* writes it last is its provenance; the id of an edge holds the snapshot. *)
PutRow(t) ==
  /\ pc[t] = "graph"
  /\ \E x \in Ready(loc[t].todo) :
       /\ IF x \in Nodes
          THEN nodes' = [nodes EXCEPT ![x] = loc[t].snapshot] /\ UNCHANGED edges
          ELSE edges' = edges \cup {x} /\ UNCHANGED nodes
       /\ IF loc[t].todo # {x}
          THEN loc' = [loc EXCEPT ![t].todo = @ \ {x}] /\ UNCHANGED pc
          ELSE IF loc[t].op = "preflight" THEN Return(t)
          ELSE loc' = [loc EXCEPT ![t].todo = {}] /\ Goto(t, "evaluate")
  /\ UNCHANGED <<snapshots, decisions, evaluated, proposal, reseeds>>

(* Variant of KeyOf: the context the facts come from names no session.     *)
KeyWithoutSession(facts) == <<facts.key>>

(* _idempotency_key: session, tool, resource, scope, grant, context path.  *)
KeyOf(facts) == <<facts.session, facts.key>>

(* AUTHZ_CHECKS.evaluate and decision_for.                                 *)
Evaluate(t) ==
  /\ pc[t] = "evaluate"
  /\ \E basis \in evaluated \cup {loc[t].facts} :
       /\ KeyOf(basis) = KeyOf(loc[t].facts)
       /\ loc' = [loc EXCEPT ![t].basis = basis]
       /\ evaluated' = evaluated \cup {basis}
  /\ Goto(t, "decision")
  /\ UNCHANGED <<snapshots, decisions, nodes, edges, proposal, reseeds>>

(* save_policy_decision, under the snapshot of this request.               *)
SaveDecision(t) ==
  /\ pc[t] = "decision"
  /\ \E d \in DecisionIds :
       /\ FreshDecision(d)
       /\ decisions' = [decisions EXCEPT ![d] =
            [session |-> loc[t].session, snapshot |-> loc[t].snapshot,
             basis |-> loc[t].basis]]
       /\ loc' = [loc EXCEPT ![t].decision = d]
  /\ Goto(t, "attach")
  /\ UNCHANGED <<snapshots, nodes, edges, evaluated, proposal, reseeds>>

(* Variant of AttachDecision: to all the session's snapshots.              *)
AttachToSession(t) ==
  /\ pc[t] = "attach"
  /\ snapshots' = [i \in SnapshotIds |->
       IF snapshots[i] # None /\ snapshots[i].facts.session = loc[t].session
       THEN [snapshots[i] EXCEPT !.decision = loc[t].decision] ELSE snapshots[i]]
  /\ Return(t)
  /\ UNCHANGED <<decisions, nodes, edges, evaluated, proposal, reseeds>>

(* attach_decision_to_snapshot: an UPDATE that may find no row.            *)
AttachDecision(t) ==
  /\ pc[t] = "attach"
  /\ snapshots' = [snapshots EXCEPT ![loc[t].snapshot] =
       IF @ = None THEN None ELSE [@ EXCEPT !.decision = loc[t].decision]]
  /\ Return(t)
  /\ UNCHANGED <<decisions, nodes, edges, evaluated, proposal, reseeds>>

-----------------------------------------------------------------------------
(* propose_recipe_from_session, once it has found a base recipe.           *)
Propose(t, s) ==
  /\ pc[t] = "idle"
  /\ loc' = [loc EXCEPT ![t] = [Idle EXCEPT !.op = "propose", !.session = s]]
  /\ Goto(t, "delete_proposal")
  /\ UNCHANGED tables

(* Variant of DeleteProposal: it comes last.                               *)
DeleteProposalLast(t) ==
  /\ pc[t] \in {"delete_proposal", "insert_proposal"}
  /\ IF pc[t] = "delete_proposal" THEN Goto(t, "insert_proposal") /\ UNCHANGED <<loc, proposal>>
     ELSE proposal # None /\ proposal' = None /\ Return(t)
  /\ UNCHANGED <<snapshots, decisions, nodes, edges, evaluated, reseeds>>

DeleteProposal(t) ==
  /\ pc[t] = "delete_proposal"
  /\ proposal' = None
  /\ Goto(t, "insert_proposal")
  /\ UNCHANGED <<snapshots, decisions, nodes, edges, evaluated, reseeds, loc>>

(* The INSERT raises if another run has inserted the proposal meanwhile.   *)
InsertProposal(t) ==
  /\ pc[t] = "insert_proposal"
  /\ proposal' = IF proposal = None THEN loc[t].session ELSE proposal
  /\ Return(t)
  /\ UNCHANGED <<snapshots, decisions, nodes, edges, evaluated, reseeds>>

-----------------------------------------------------------------------------
(* seed_demo, as far as these tables go: DELETE FROM snapshots, edges,     *)
(* nodes, proposals and decisions, in this order.                          *)
Reseed(t) ==
  /\ pc[t] = "idle" /\ reseeds < MaxReseeds
  /\ snapshots' = NoRows(SnapshotIds)
  /\ reseeds' = reseeds + 1
  /\ loc' = [loc EXCEPT ![t] = [Idle EXCEPT !.op = "reseed"]]
  /\ Goto(t, "delete_edges")
  /\ UNCHANGED <<decisions, nodes, edges, evaluated, proposal>>

DeleteEdges(t) ==
  /\ pc[t] = "delete_edges"
  /\ edges' = {}
  /\ Goto(t, "delete_nodes")
  /\ UNCHANGED <<snapshots, decisions, nodes, evaluated, proposal, reseeds, loc>>

DeleteNodes(t) ==
  /\ pc[t] = "delete_nodes"
  /\ nodes' = NoRows(Nodes)
  /\ Goto(t, "delete_proposals")
  /\ UNCHANGED <<snapshots, decisions, edges, evaluated, proposal, reseeds, loc>>

DeleteProposals(t) ==
  /\ pc[t] = "delete_proposals"
  /\ proposal' = None
  /\ Goto(t, "delete_decisions")
  /\ UNCHANGED <<snapshots, decisions, nodes, edges, evaluated, reseeds, loc>>

DeleteDecisions(t) ==
  /\ pc[t] = "delete_decisions"
  /\ decisions' = NoRows(DecisionIds)
  /\ Return(t)
  /\ UNCHANGED <<snapshots, nodes, edges, evaluated, proposal, reseeds>>

(* A handler raises, or its process is lost.                               *)
Fail(t) ==
  /\ pc[t] # "idle"
  /\ Return(t)
  /\ UNCHANGED tables

Next ==
  \E t \in Threads :
    \/ \E op \in {"preflight", "authorize"}, facts \in Facts : Run(t, op, facts)
    \/ \E s \in Sessions : Propose(t, s)
    \/ SaveSnapshot(t) \/ PutRow(t) \/ Evaluate(t)
    \/ SaveDecision(t) \/ AttachDecision(t)
    \/ DeleteProposal(t) \/ InsertProposal(t)
    \/ Reseed(t) \/ DeleteEdges(t) \/ DeleteNodes(t)
    \/ DeleteProposals(t) \/ DeleteDecisions(t)
    \/ Fail(t)

Spec == Init /\ [][Next]_vars
-----------------------------------------------------------------------------
Labels ==
  { "idle", "snapshot", "graph", "evaluate", "decision", "attach",
    "delete_proposal", "insert_proposal", "delete_edges", "delete_nodes",
    "delete_proposals", "delete_decisions" }

OrNone(set) == set \cup {None}

(* Rows and local variables are well formed.                               *)
TypeOK ==
  /\ snapshots \in [SnapshotIds -> OrNone(Snapshot)]
  /\ decisions \in [DecisionIds -> OrNone(Decision)]
  /\ nodes \in [Nodes -> OrNone(SnapshotIds)]
  /\ edges \subseteq Edge
  /\ evaluated \subseteq Facts
  /\ proposal \in OrNone(Sessions)
  /\ reseeds \in Nat
  /\ pc \in [Threads -> Labels]
  /\ loc \in [Threads ->
       [ op : {"none", "preflight", "authorize", "propose", "reseed"},
         session : OrNone(Sessions), facts : OrNone(Facts),
         snapshot : OrNone(SnapshotIds),
         basis : OrNone(Facts), decision : OrNone(DecisionIds),
         todo : SUBSET (Nodes \cup Edge) ]]

(* A decision and the snapshot it names belong together: the snapshot is   *)
(* one an authorization of the session took, names this decision or none   *)
(* yet, and what was decided on has the snapshot's key, be the decision    *)
(* one remembered from an earlier request.                                 *)
DecisionHasItsSnapshot ==
  \A d \in DecisionIds : decisions[d] # None =>
    LET row  == decisions[d]
        snap == snapshots[row.snapshot]
    IN
    /\ snap # None /\ snap.phase = "authorize" /\ snap.facts.session = row.session
    /\ snap.decision \in {d, None}
    /\ row.basis.session = row.session /\ row.basis.key = snap.facts.key

(* A snapshot that names a decision is named by it.                        *)
SnapshotHasItsDecision ==
  \A i \in SnapshotIds : snapshots[i] # None /\ snapshots[i].decision # None =>
    LET row == decisions[snapshots[i].decision] IN row # None /\ row.snapshot = i

(* list_context_graph: the session's node, the recipes and what its own    *)
(* snapshots have written last, and every edge that touches one of them    *)
(* (its LIMITs aside).                                                     *)
Own(s) == {i \in SnapshotIds : snapshots[i] # None /\ snapshots[i].facts.session = s}
ShownNodes(s) == {x \in Nodes : nodes[x] # None /\ (x \in {s} \cup Recipes \/ nodes[x] \in Own(s))}
ShownEdges(s) == {e \in edges : {e.src, e.dst} \cap ShownNodes(s) # {}}

(* The graph hangs together: both ends of every edge are there, every      *)
(* node and edge was drawn from a snapshot on record, and a session is     *)
(* shown those edges of its own snapshots that touch it or a recipe,       *)
(* although the rows come one by one, from several handlers, and other     *)
(* sessions take nodes over.  (Its other edges they may hide from it.)     *)
GraphIsRooted ==
  /\ \A x \in Nodes : nodes[x] # None => snapshots[nodes[x]] # None
  /\ \A e \in edges :
       LET s == snapshots[e.snapshot].facts.session IN
       /\ nodes[e.src] # None /\ nodes[e.dst] # None
       /\ snapshots[e.snapshot] # None
       /\ {e.src, e.dst} \cap ({s} \cup Recipes) # {} => e \in ShownEdges(s)
=============================================================================
