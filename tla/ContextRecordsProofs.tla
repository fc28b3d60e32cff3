------------------------ MODULE ContextRecordsProofs ------------------------
(* That decisions, snapshots and the context graph lead to each other, for *)
(* any number of threads, sessions, facts, nodes, links and reseeds, until *)
(* a reseed gets in the way of another handler.                            *)
EXTENDS MCContextRecords, TLAPS

Erasing == {"delete_edges", "delete_nodes", "delete_proposals", "delete_decisions"}
Drawing == {"graph", "evaluate", "decision", "attach"}

(* What a handler has read or chosen by each of its statements.            *)
LocOK(t) ==
  /\ pc[t] \in Drawing \cup {"snapshot"} =>
       /\ loc[t].op \in {"preflight", "authorize"}
       /\ loc[t].facts \in Facts
       /\ loc[t].session = loc[t].facts.session
  /\ pc[t] \in Drawing => loc[t].snapshot \in SnapshotIds
  /\ pc[t] \in Drawing \ {"graph"} => loc[t].op = "authorize"
  /\ pc[t] \in {"decision", "attach"} =>
       loc[t].basis \in Facts /\ KeyOf(loc[t].basis) = KeyOf(loc[t].facts)
  /\ pc[t] = "attach" => loc[t].decision \in DecisionIds
  /\ pc[t] \in {"delete_proposal", "insert_proposal"} =>
       loc[t].op = "propose" /\ loc[t].session \in Sessions
  /\ pc[t] \in Erasing => loc[t].op = "reseed"

Locals ==
  [ op : {"none", "preflight", "authorize", "propose", "reseed"},
    session : OrNone(Sessions), facts : OrNone(Facts),
    snapshot : OrNone(SnapshotIds),
    basis : OrNone(Facts), decision : OrNone(DecisionIds),
    todo : SUBSET (Nodes \cup Edge) ]

TypeInv == TypeOK /\ \A t \in Threads : LocOK(t)

LEMMA NoRowsIsFunction ==
  \A ids : NoRows(ids) \in [ids -> {None}]
BY DEF NoRows

LEMMA FactsAreRecords ==
  ASSUME NEW f \in Facts
  PROVE  f.session \in Sessions
BY RecordsAssumption

(* record_context_graph draws the session, what its facts name, and edges  *)
(* of this snapshot between these.                                         *)
LEMMA GraphOfRows ==
  ASSUME NEW s \in Sessions, NEW i \in SnapshotIds, NEW named \in Named
  PROVE  /\ GraphOf(s, i, named) \subseteq Nodes \cup Edge
         /\ \A e \in GraphOf(s, i, named) \ Nodes :
              /\ e.snapshot = i
              /\ {e.src, e.dst} \subseteq GraphOf(s, i, named) \cap Nodes
<1> DEFINE at(x) == IF x = Self THEN s ELSE x
           drawn == {s} \cup named
           links == {k \in Links : {at(k[1]), at(k[2])} \subseteq drawn}
           joins == {[src |-> at(l[1]), dst |-> at(l[2]), snapshot |-> i] : l \in links}
<1>1. GraphOf(s, i, named) = drawn \cup joins
  BY DEF GraphOf
<1>2. drawn \subseteq Nodes
  BY RecordsAssumption DEF Nodes
<1>3. ASSUME NEW e \in joins
      PROVE  e \in Edge /\ e.snapshot = i /\ {e.src, e.dst} \subseteq drawn
  <2>1. PICK l \in links : e = [src |-> at(l[1]), dst |-> at(l[2]), snapshot |-> i]
    BY <1>3
  <2>2. at(l[1]) \in drawn /\ at(l[2]) \in drawn
    BY <2>1
  <2> HIDE DEF at, drawn, links
  <2> QED BY <2>1, <2>2, <1>2 DEF Edge
<1> HIDE DEF drawn, joins
<1> QED BY <1>1, <1>2, <1>3

LEMMA TypeInit == Init => TypeInv
<1> SUFFICES ASSUME Init PROVE TypeInv
  OBVIOUS
<1>1. TypeOK
  BY NoRowsIsFunction DEF Init, TypeOK, OrNone, Idle, Labels, NoRows
<1>2. \A t \in Threads : LocOK(t)
  BY DEF Init, LocOK, Drawing, Erasing
<1> QED BY <1>1, <1>2 DEF TypeInv

(* A statement of one thread leaves the variables of the others alone.     *)
LEMMA OthersKeep ==
  ASSUME TypeInv, NEW t \in Threads, NEW u \in Threads, u # t,
         \E l : Goto(t, l),
         loc' = loc \/ \E v : loc' = [loc EXCEPT ![t] = v]
  PROVE  pc'[u] = pc[u] /\ loc'[u] = loc[u] /\ LocOK(u)'
<1>1. pc'[u] = pc[u] /\ loc'[u] = loc[u]
  BY DEF TypeInv, TypeOK, Goto
<1>2. LocOK(u)
  BY DEF TypeInv
<1> QED BY <1>1, <1>2 DEF LocOK

LEMMA ReturnOK ==
  ASSUME TypeInv, NEW t \in Threads, Return(t)
  PROVE  /\ pc' \in [Threads -> Labels] /\ loc' \in [Threads -> {loc[u] : u \in Threads} \cup {Idle}]
         /\ pc'[t] = "idle" /\ loc'[t] = Idle
         /\ LocOK(t)'
<1>1. pc'[t] = "idle" /\ loc'[t] = Idle /\ pc' \in [Threads -> Labels]
  BY DEF TypeInv, TypeOK, Return, Goto, Labels
<1> QED BY <1>1 DEF LocOK, Drawing, Erasing, TypeInv, TypeOK, Return

LEMMA TypeStep == TypeInv /\ [Next]_vars => TypeInv'
<1> SUFFICES ASSUME TypeInv, [Next]_vars PROVE TypeInv'
  OBVIOUS
<1>0. TypeOK
  BY DEF TypeInv
<1>1. ASSUME NEW t \in Threads, TypeOK', LocOK(t)',
             \E l : Goto(t, l), loc' = loc \/ \E v : loc' = [loc EXCEPT ![t] = v]
      PROVE  TypeInv'
  <2>1. ASSUME NEW u \in Threads, u # t PROVE LocOK(u)'
    BY <1>1, <2>1, OthersKeep
  <2> QED BY <1>1, <2>1 DEF TypeInv
<1>2. ASSUME NEW t \in Threads, Return(t),
             snapshots' \in [SnapshotIds -> OrNone(Snapshot)],
             decisions' \in [DecisionIds -> OrNone(Decision)],
             nodes' \in [Nodes -> OrNone(SnapshotIds)], edges' \subseteq Edge,
             evaluated' = evaluated, proposal' \in OrNone(Sessions), reseeds' = reseeds
      PROVE  TypeInv'
  <2>1. LocOK(t)' /\ pc' \in [Threads -> Labels]
    BY <1>2, ReturnOK
  <2>2. TypeOK'
    BY <1>0, <1>2, <2>1 DEF TypeOK, Return, Idle, OrNone
  <2> QED BY <1>1, <1>2, <2>1, <2>2 DEF Return
<1>3. ASSUME NEW t \in Threads, NEW op \in {"preflight", "authorize"}, NEW facts \in Facts,
             Run(t, op, facts)
      PROVE  TypeInv'
  <2> DEFINE v == [Idle EXCEPT !.op = op, !.session = facts.session, !.facts = facts]
  <2>1. loc' = [loc EXCEPT ![t] = v]
    BY <1>3 DEF Run
  <2>2. v.op = op /\ v.session = facts.session /\ v.facts = facts
    BY DEF Idle
  <2>3. TypeOK'
    BY <1>0, <1>3, FactsAreRecords DEF Run, Goto, TypeOK, tables, Idle, OrNone, Labels
  <2>4. pc'[t] = "snapshot" /\ loc'[t] = v
    BY <1>0, <1>3, <2>1 DEF Run, Goto, TypeOK
  <2>5. LocOK(t)'
    BY <2>2, <2>4 DEF LocOK, Drawing, Erasing
  <2> QED BY <1>1, <1>3, <2>1, <2>3, <2>5 DEF Run
<1>4. ASSUME NEW t \in Threads, NEW s \in Sessions, Propose(t, s) PROVE TypeInv'
  <2>1. TypeOK'
    BY <1>0, <1>4 DEF Propose, Goto, TypeOK, tables, Idle, OrNone, Labels
  <2>2. pc'[t] = "delete_proposal" /\ loc'[t].op = "propose" /\ loc'[t].session = s
    BY <1>0, <1>4 DEF Propose, Goto, TypeOK, Idle
  <2>3. LocOK(t)'
    BY <2>2 DEF LocOK, Drawing, Erasing
  <2> QED BY <1>1, <1>4, <2>1, <2>3 DEF Propose
<1>5. ASSUME NEW t \in Threads, SaveSnapshot(t) PROVE TypeInv'
  <2>1. LocOK(t) /\ pc[t] = "snapshot"
    BY <1>5 DEF TypeInv, SaveSnapshot
  <2>2. loc[t].op \in {"preflight", "authorize"} /\ loc[t].facts \in Facts
        /\ loc[t].session = loc[t].facts.session /\ loc[t].session \in Sessions
    BY <2>1, FactsAreRecords DEF LocOK
  <2>3. PICK i \in SnapshotIds, named \in Named :
          /\ snapshots' = [snapshots EXCEPT ![i] =
               [phase |-> loc[t].op, facts |-> loc[t].facts, decision |-> None]]
          /\ loc' = [loc EXCEPT ![t].snapshot = i,
                                ![t].todo = GraphOf(loc[t].session, i, named)]
    BY <1>5 DEF SaveSnapshot
  <2> DEFINE rows == GraphOf(loc[t].session, i, named)
  <2>4. rows \subseteq Nodes \cup Edge
    BY <2>2, GraphOfRows
  <2> HIDE DEF rows
  <2>5. loc' = [loc EXCEPT ![t] = [loc[t] EXCEPT !.snapshot = i, !.todo = rows]]
    BY <2>3, <1>0 DEF TypeOK, rows
  <2>6. snapshots' \in [SnapshotIds -> OrNone(Snapshot)]
    BY <1>0, <2>2, <2>3 DEF TypeOK, OrNone, Snapshot
  <2>7. TypeOK'
    <3>1. /\ pc' = [pc EXCEPT ![t] = "graph"]
          /\ UNCHANGED <<decisions, nodes, edges, evaluated, proposal, reseeds>>
      BY <1>5 DEF SaveSnapshot, Goto
    <3>2. [loc[t] EXCEPT !.snapshot = i, !.todo = rows] \in Locals
      <4>1. loc[t] \in Locals /\ i \in OrNone(SnapshotIds)
        BY <1>0 DEF TypeOK, Locals, OrNone
      <4> QED BY <2>4, <4>1 DEF Locals
    <3>3. loc' \in [Threads -> Locals]
      BY <1>0, <2>5, <3>2 DEF TypeOK, Locals
    <3> QED BY <1>0, <2>6, <3>1, <3>3 DEF TypeOK, Labels, Locals
  <2>8. pc'[t] = "graph" /\ loc'[t] = [loc[t] EXCEPT !.snapshot = i, !.todo = rows]
    BY <1>0, <1>5, <2>5 DEF SaveSnapshot, Goto, TypeOK
  <2>9. LocOK(t)'
    BY <1>0, <2>2, <2>8 DEF LocOK, TypeOK, Drawing, Erasing
  <2> QED BY <1>1, <1>5, <2>5, <2>7, <2>9 DEF SaveSnapshot
<1>6. ASSUME NEW t \in Threads, PutRow(t) PROVE TypeInv'
  <2>1. LocOK(t) /\ pc[t] = "graph" /\ loc[t].snapshot \in SnapshotIds
    BY <1>6 DEF TypeInv, PutRow, LocOK, Drawing
  <2>2. nodes' \in [Nodes -> OrNone(SnapshotIds)] /\ edges' \subseteq Edge
    <3>1. PICK x \in Ready(loc[t].todo) :
            IF x \in Nodes
            THEN nodes' = [nodes EXCEPT ![x] = loc[t].snapshot] /\ UNCHANGED edges
            ELSE edges' = edges \cup {x} /\ UNCHANGED nodes
      BY <1>6 DEF PutRow
    <3>2. x \in Nodes \cup Edge
      BY <1>0, <3>1 DEF Ready, TypeOK
    <3> QED BY <1>0, <2>1, <3>1, <3>2 DEF TypeOK, OrNone
  <2>3. CASE Return(t)
    BY <1>0, <1>2, <1>6, <2>2, <2>3 DEF PutRow, TypeOK
  <2>4. ASSUME NEW x, loc' = [loc EXCEPT ![t].todo = @ \ {x}], UNCHANGED pc
        PROVE  TypeInv'
    <3>1. TypeOK'
      BY <1>0, <1>6, <2>2, <2>4 DEF PutRow, TypeOK
    <3>2. LocOK(t)'
      BY <1>0, <2>1, <2>4 DEF LocOK, TypeOK, Drawing, Erasing
    <3>3. pc' = [pc EXCEPT ![t] = pc[t]]
      BY <1>0, <2>4 DEF TypeOK
    <3> QED BY <1>1, <2>4, <3>1, <3>2, <3>3 DEF Goto
  <2>5. CASE /\ loc' = [loc EXCEPT ![t].todo = {}] /\ Goto(t, "evaluate")
             /\ loc[t].op # "preflight"
    <3>1. TypeOK'
      BY <1>0, <1>6, <2>2, <2>5 DEF PutRow, TypeOK, Goto, Labels
    <3>2. pc'[t] = "evaluate" /\ loc'[t] = [loc[t] EXCEPT !.todo = {}]
      BY <1>0, <2>5 DEF TypeOK, Goto
    <3>3. LocOK(t)'
      BY <1>0, <2>1, <2>5, <3>2 DEF LocOK, TypeOK, Drawing, Erasing
    <3> QED BY <1>1, <2>5, <3>1, <3>3
  <2> QED BY <1>6, <2>3, <2>4, <2>5 DEF PutRow
<1>7. ASSUME NEW t \in Threads, Evaluate(t) PROVE TypeInv'
  <2>1. LocOK(t) /\ pc[t] = "evaluate"
    BY <1>7 DEF TypeInv, Evaluate
  <2>2. PICK basis \in evaluated \cup {loc[t].facts} :
          /\ KeyOf(basis) = KeyOf(loc[t].facts)
          /\ loc' = [loc EXCEPT ![t].basis = basis]
          /\ evaluated' = evaluated \cup {basis}
    BY <1>7 DEF Evaluate
  <2>3. basis \in Facts
    BY <1>0, <2>1, <2>2 DEF TypeOK, LocOK, Drawing
  <2>4. TypeOK'
    <3>1. /\ UNCHANGED <<snapshots, decisions, nodes, edges, proposal, reseeds>>
          /\ pc' = [pc EXCEPT ![t] = "decision"]
      BY <1>7 DEF Evaluate, Goto
    <3>2. [loc[t] EXCEPT !.basis = basis] \in Locals
      <4>1. loc[t] \in Locals /\ basis \in OrNone(Facts)
        BY <1>0, <2>3 DEF TypeOK, Locals, OrNone
      <4> QED BY <4>1 DEF Locals
    <3>3. loc' \in [Threads -> Locals]
      BY <1>0, <2>2, <3>2 DEF TypeOK, Locals
    <3> QED BY <1>0, <2>2, <2>3, <3>1, <3>3 DEF TypeOK, Labels, Locals
  <2>5. pc'[t] = "decision" /\ loc'[t] = [loc[t] EXCEPT !.basis = basis]
    BY <1>0, <1>7, <2>2 DEF Evaluate, Goto, TypeOK
  <2>6. LocOK(t)'
    BY <1>0, <2>1, <2>2, <2>3, <2>5 DEF LocOK, TypeOK, Drawing, Erasing
  <2> QED BY <1>1, <1>7, <2>2, <2>4, <2>6 DEF Evaluate
<1>8. ASSUME NEW t \in Threads, SaveDecision(t) PROVE TypeInv'
  <2>1. LocOK(t) /\ pc[t] = "decision"
    BY <1>8 DEF TypeInv, SaveDecision
  <2>2. PICK d \in DecisionIds :
          /\ decisions' = [decisions EXCEPT ![d] =
               [session |-> loc[t].session, snapshot |-> loc[t].snapshot,
                basis |-> loc[t].basis]]
          /\ loc' = [loc EXCEPT ![t].decision = d]
    BY <1>8 DEF SaveDecision
  <2>3. decisions' \in [DecisionIds -> OrNone(Decision)]
    <3>1. /\ loc[t].session \in Sessions /\ loc[t].snapshot \in SnapshotIds
          /\ loc[t].basis \in Facts
      BY <2>1, FactsAreRecords DEF LocOK, Drawing
    <3>2. [session |-> loc[t].session, snapshot |-> loc[t].snapshot,
           basis |-> loc[t].basis] \in Decision
      BY <3>1 DEF Decision
    <3> QED BY <1>0, <2>2, <3>2 DEF TypeOK, OrNone
  <2>4. TypeOK'
    <3>1. /\ UNCHANGED <<snapshots, nodes, edges, evaluated, proposal, reseeds>>
          /\ pc' = [pc EXCEPT ![t] = "attach"]
      BY <1>8 DEF SaveDecision, Goto
    <3>2. [loc[t] EXCEPT !.decision = d] \in Locals
      <4>1. loc[t] \in Locals /\ d \in OrNone(DecisionIds)
        BY <1>0 DEF TypeOK, Locals, OrNone
      <4> QED BY <4>1 DEF Locals
    <3>3. loc' \in [Threads -> Locals]
      BY <1>0, <2>2, <3>2 DEF TypeOK, Locals
    <3> QED BY <1>0, <2>3, <3>1, <3>3 DEF TypeOK, Labels, Locals
  <2>5. pc'[t] = "attach" /\ loc'[t] = [loc[t] EXCEPT !.decision = d]
    BY <1>0, <1>8, <2>2 DEF SaveDecision, Goto, TypeOK
  <2>6. LocOK(t)'
    BY <1>0, <2>1, <2>2, <2>5 DEF LocOK, TypeOK, Drawing, Erasing
  <2> QED BY <1>1, <1>8, <2>2, <2>4, <2>6 DEF SaveDecision
<1>9. ASSUME NEW t \in Threads, AttachDecision(t) PROVE TypeInv'
  <2>1. LocOK(t) /\ pc[t] = "attach"
    BY <1>9 DEF TypeInv, AttachDecision
  <2>2. loc[t].snapshot \in SnapshotIds /\ loc[t].decision \in DecisionIds
    BY <2>1 DEF LocOK, Drawing
  <2>3. snapshots' \in [SnapshotIds -> OrNone(Snapshot)]
    BY <1>0, <1>9, <2>2 DEF AttachDecision, TypeOK, OrNone, Snapshot
  <2> QED BY <1>0, <1>2, <1>9, <2>3 DEF AttachDecision, TypeOK
<1>10. ASSUME NEW t \in Threads, DeleteProposal(t) PROVE TypeInv'
  <2>1. LocOK(t) /\ pc[t] = "delete_proposal"
    BY <1>10 DEF TypeInv, DeleteProposal
  <2>2. TypeOK'
    BY <1>0, <1>10 DEF DeleteProposal, Goto, TypeOK, OrNone, Labels
  <2>3. pc'[t] = "insert_proposal" /\ loc'[t] = loc[t]
    BY <1>0, <1>10 DEF DeleteProposal, Goto, TypeOK
  <2>4. LocOK(t)'
    BY <2>1, <2>3 DEF LocOK, Drawing, Erasing
  <2> QED BY <1>1, <1>10, <2>2, <2>4 DEF DeleteProposal
<1>11. ASSUME NEW t \in Threads, InsertProposal(t) PROVE TypeInv'
  <2>1. proposal' \in OrNone(Sessions)
    BY <1>0, <1>11 DEF TypeInv, LocOK, InsertProposal, TypeOK, OrNone
  <2> QED BY <1>0, <1>2, <1>11, <2>1 DEF InsertProposal, TypeOK
<1>12. ASSUME NEW t \in Threads, Reseed(t) PROVE TypeInv'
  <2>1. TypeOK'
    BY <1>0, <1>12, NoRowsIsFunction DEF Reseed, Goto, TypeOK, Idle, OrNone, Labels
  <2>2. pc'[t] = "delete_edges" /\ loc'[t].op = "reseed"
    BY <1>0, <1>12 DEF Reseed, Goto, TypeOK, Idle
  <2>3. LocOK(t)'
    BY <2>2 DEF LocOK, Drawing, Erasing
  <2> QED BY <1>1, <1>12, <2>1, <2>3 DEF Reseed
<1>13. ASSUME NEW t \in Threads, DeleteEdges(t) \/ DeleteNodes(t) \/ DeleteProposals(t)
       PROVE  TypeInv'
  <2>1. LocOK(t) /\ pc[t] \in Erasing
    BY <1>13 DEF TypeInv, DeleteEdges, DeleteNodes, DeleteProposals, Erasing
  <2>2. TypeOK'
    <3>1. /\ UNCHANGED <<snapshots, decisions, evaluated, reseeds, loc>>
          /\ edges' \in {edges, {}} /\ proposal' \in {proposal, None}
          /\ nodes' = nodes \/ nodes' = NoRows(Nodes)
          /\ \E l \in Labels : pc' = [pc EXCEPT ![t] = l]
      BY <1>13 DEF DeleteEdges, DeleteNodes, DeleteProposals, Goto, Labels
    <3> QED BY <1>0, <3>1, NoRowsIsFunction DEF TypeOK, OrNone
  <2>3. pc'[t] \in Erasing /\ loc'[t] = loc[t]
    BY <1>0, <1>13 DEF DeleteEdges, DeleteNodes, DeleteProposals, Goto, TypeOK, Erasing
  <2>4. LocOK(t)'
    BY <2>1, <2>3 DEF LocOK, Drawing, Erasing
  <2> QED BY <1>1, <1>13, <2>2, <2>4 DEF DeleteEdges, DeleteNodes, DeleteProposals
<1>14. ASSUME NEW t \in Threads, DeleteDecisions(t) PROVE TypeInv'
  <2>1. decisions' \in [DecisionIds -> OrNone(Decision)]
    BY <1>14, NoRowsIsFunction DEF DeleteDecisions, OrNone
  <2> QED BY <1>0, <1>2, <1>14, <2>1 DEF DeleteDecisions, TypeOK
<1>15. ASSUME NEW t \in Threads, Fail(t) PROVE TypeInv'
  BY <1>0, <1>2, <1>15 DEF Fail, tables, TypeOK
<1>16. CASE UNCHANGED vars
  BY <1>0, <1>16 DEF vars, TypeInv, TypeOK, LocOK
<1> QED
  BY <1>3, <1>4, <1>5, <1>6, <1>7, <1>8, <1>9, <1>10, <1>11, <1>12, <1>13, <1>14,
     <1>15, <1>16 DEF Next

(* Rows and local variables are well formed, also after a reseed that got  *)
(* in the way of other handlers.                                           *)
THEOREM TypeCorrect == Spec => []TypeOK
<1>1. TypeInv => TypeOK BY DEF TypeInv
<1> QED BY <1>1, TypeInit, TypeStep, PTL DEF Spec

-----------------------------------------------------------------------------
(* A handler's snapshot is as it was saved, and only its own decision      *)
(* names it.                                                               *)
Holds(t) ==
  /\ snapshots[loc[t].snapshot] =
       [phase |-> loc[t].op, facts |-> loc[t].facts, decision |-> None]
  /\ \A d \in DecisionIds :
       decisions[d] # None /\ decisions[d].snapshot = loc[t].snapshot =>
         pc[t] = "attach" /\ d = loc[t].decision
  /\ pc[t] = "attach" =>
       decisions[loc[t].decision] =
         [session |-> loc[t].session, snapshot |-> loc[t].snapshot, basis |-> loc[t].basis]

(* The edges it has yet to draw are of its snapshot, and their ends are    *)
(* drawn or yet to be drawn, too.                                          *)
Draws(t) ==
  \A e \in loc[t].todo \ Nodes :
    /\ e.snapshot = loc[t].snapshot
    /\ \A x \in {e.src, e.dst} : x \in Nodes /\ (x \in loc[t].todo \/ nodes[x] # None)

Rooted ==
  /\ \A x \in Nodes : nodes[x] # None => snapshots[nodes[x]] # None
  /\ \A e \in edges :
       nodes[e.src] # None /\ nodes[e.dst] # None /\ snapshots[e.snapshot] # None

OwnSnapshots ==
  \A t, u \in Threads :
    t # u /\ pc[t] \in Drawing /\ pc[u] \in Drawing => loc[t].snapshot # loc[u].snapshot

(* What holds while no reseed is at work and none has got in the way.      *)
Recorded ==
  /\ DecisionHasItsSnapshot
  /\ SnapshotHasItsDecision
  /\ Rooted
  /\ \A t \in Threads : pc[t] \in Drawing => Holds(t) /\ Draws(t)
  /\ OwnSnapshots

(* An edge that touches a session's node or a recipe is shown because that *)
(* end is, whoever drew the end last.                                      *)
LEMMA RootedIsEnough == TypeOK /\ Rooted => GraphIsRooted
<1> SUFFICES ASSUME TypeOK, Rooted PROVE GraphIsRooted
  OBVIOUS
<1>1. ASSUME NEW e \in edges, NEW s, NEW x \in {e.src, e.dst}, x \in {s} \cup Recipes
      PROVE  e \in ShownEdges(s)
  <2>1. x \in Nodes /\ nodes[x] # None
    BY <1>1 DEF TypeOK, Edge, Rooted
  <2> QED BY <1>1, <2>1 DEF ShownEdges, ShownNodes
<1> QED BY <1>1 DEF Rooted, GraphIsRooted

LEMMA RecordedInit == Init => Recorded
BY DEF Init, Recorded, DecisionHasItsSnapshot, SnapshotHasItsDecision, Rooted,
   OwnSnapshots, NoRows, Drawing

(* Statements on other tables, and the end of a handler.                   *)
LEMMA OtherTables ==
  ASSUME TypeInv, Recorded, UNCHANGED <<snapshots, decisions, nodes, edges>>,
         \A u \in Threads : pc'[u] \in Drawing => pc'[u] = pc[u] /\ loc'[u] = loc[u]
  PROVE  Recorded'
<1>1. DecisionHasItsSnapshot' /\ SnapshotHasItsDecision' /\ Rooted'
  BY DEF Recorded, DecisionHasItsSnapshot, SnapshotHasItsDecision, Rooted
<1>2. \A t \in Threads : pc'[t] \in Drawing => Holds(t)' /\ Draws(t)'
  BY DEF Recorded, Holds, Draws
<1>3. OwnSnapshots'
  BY DEF Recorded, OwnSnapshots
<1> QED BY <1>1, <1>2, <1>3 DEF Recorded

LEMMA SaveSnapshotOK ==
  ASSUME TypeInv, Recorded, NEW t \in Threads, SaveSnapshot(t)
  PROVE  Recorded'
<1> USE DEF Recorded
<1>1. pc[t] = "snapshot" /\ TypeOK /\ LocOK(t)
  BY DEF SaveSnapshot, TypeInv
<1>2. loc[t].session \in Sessions
  BY <1>1, FactsAreRecords DEF LocOK
<1>3. PICK i \in SnapshotIds, named \in Named :
        /\ FreshSnapshot(i)
        /\ snapshots' = [snapshots EXCEPT ![i] =
             [phase |-> loc[t].op, facts |-> loc[t].facts, decision |-> None]]
        /\ loc' = [loc EXCEPT ![t].snapshot = i,
                              ![t].todo = GraphOf(loc[t].session, i, named)]
  BY DEF SaveSnapshot
<1> DEFINE rows == GraphOf(loc[t].session, i, named)
           row == [phase |-> loc[t].op, facts |-> loc[t].facts, decision |-> None]
<1>4. \A e \in rows \ Nodes : e.snapshot = i /\ {e.src, e.dst} \subseteq rows \cap Nodes
  BY <1>2, GraphOfRows
<1>5. row # None /\ row.decision = None
  <2>1. row \in Snapshot
    BY <1>1 DEF LocOK, Snapshot
  <2> QED BY <2>1, RecordsAssumption
<1> HIDE DEF rows, row
<1>6. loc' = [loc EXCEPT ![t] = [loc[t] EXCEPT !.snapshot = i, !.todo = rows]]
  BY <1>1, <1>3 DEF TypeOK, rows
<1>7. /\ pc' = [pc EXCEPT ![t] = "graph"]
      /\ UNCHANGED <<decisions, nodes, edges>>
  BY DEF SaveSnapshot, Goto
<1>8. snapshots[i] = None /\ snapshots' = [snapshots EXCEPT ![i] = row]
  BY <1>3 DEF FreshSnapshot, row
<1>9. \A u \in Threads \ {t} : pc'[u] = pc[u] /\ loc'[u] = loc[u] /\ loc[u].snapshot # i
  BY <1>1, <1>3, <1>6, <1>7 DEF TypeOK, FreshSnapshot
<1>10. pc'[t] = "graph" /\ loc'[t] = [loc[t] EXCEPT !.snapshot = i, !.todo = rows]
  BY <1>1, <1>6, <1>7 DEF TypeOK
<1>11. loc'[t].snapshot = i /\ loc'[t].todo = rows /\ loc'[t].op = loc[t].op
       /\ loc'[t].facts = loc[t].facts
  BY <1>1, <1>10 DEF TypeOK
<1>12. DecisionHasItsSnapshot'
  BY <1>1, <1>7, <1>8 DEF DecisionHasItsSnapshot, TypeOK, OrNone, Decision
<1>13. SnapshotHasItsDecision'
  BY <1>1, <1>5, <1>7, <1>8 DEF SnapshotHasItsDecision, TypeOK
<1>14. Rooted'
  BY <1>1, <1>5, <1>7, <1>8 DEF Rooted, TypeOK
<1>15. Holds(t)'
  <2>1. \A d \in DecisionIds : decisions[d] # None => decisions[d].snapshot # i
    BY <1>3 DEF FreshSnapshot
  <2>2. snapshots'[i] = row
    BY <1>1, <1>8 DEF TypeOK
  <2> QED BY <1>7, <1>10, <1>11, <2>1, <2>2 DEF Holds, row
<1>16. Draws(t)'
  BY <1>4, <1>7, <1>11 DEF Draws
<1>17. ASSUME NEW u \in Threads \ {t}, pc'[u] \in Drawing PROVE Holds(u)' /\ Draws(u)'
  <2>1. snapshots'[loc[u].snapshot] = snapshots[loc[u].snapshot]
    <3>1. loc[u].snapshot \in SnapshotIds \ {i}
      BY <1>9, <1>17 DEF TypeInv, LocOK
    <3> QED BY <1>1, <1>8, <3>1 DEF TypeOK
  <2>2. Holds(u) /\ Draws(u) /\ pc'[u] = pc[u] /\ loc'[u] = loc[u]
    BY <1>9, <1>17
  <2>3. Holds(u)'
    BY <1>7, <2>1, <2>2 DEF Holds
  <2>4. Draws(u)'
    BY <1>7, <2>2 DEF Draws
  <2> QED BY <2>3, <2>4
<1>18. OwnSnapshots'
  BY <1>9, <1>11 DEF OwnSnapshots
<1> QED BY <1>12, <1>13, <1>14, <1>15, <1>16, <1>17, <1>18

(* An edge is drawn when no node is left to draw, so both its ends are.    *)
LEMMA PutRowOK ==
  ASSUME TypeInv, Recorded, NEW t \in Threads, PutRow(t)
  PROVE  Recorded'
<1> USE DEF Recorded
<1>1. pc[t] = "graph" /\ TypeOK /\ LocOK(t) /\ Holds(t) /\ Draws(t)
  BY DEF PutRow, TypeInv, Drawing
<1>2. PICK x \in Ready(loc[t].todo) :
        /\ IF x \in Nodes
           THEN nodes' = [nodes EXCEPT ![x] = loc[t].snapshot] /\ UNCHANGED edges
           ELSE edges' = edges \cup {x} /\ UNCHANGED nodes
        /\ IF loc[t].todo # {x}
           THEN loc' = [loc EXCEPT ![t].todo = @ \ {x}] /\ UNCHANGED pc
           ELSE IF loc[t].op = "preflight" THEN Return(t)
           ELSE loc' = [loc EXCEPT ![t].todo = {}] /\ Goto(t, "evaluate")
  BY DEF PutRow
<1>3. UNCHANGED <<snapshots, decisions>>
  BY DEF PutRow
<1>4. x \in loc[t].todo /\ (x \notin Nodes => loc[t].todo \cap Nodes = {})
  BY <1>2 DEF Ready, Nodes
<1>5. loc[t].snapshot \in SnapshotIds /\ snapshots[loc[t].snapshot] # None
  <2>1. loc[t].snapshot \in SnapshotIds /\ snapshots[loc[t].snapshot] \in Snapshot
    BY <1>1 DEF LocOK, Drawing, Holds, Snapshot
  <2> QED BY <2>1, RecordsAssumption
<1>6. \A y \in Nodes : nodes[y] # None => nodes'[y] # None
  BY <1>1, <1>2, <1>5, RecordsAssumption DEF TypeOK
<1>7. Rooted'
  <2>1. CASE x \in Nodes
    <3>1. \A y \in Nodes : nodes'[y] # None => snapshots[nodes'[y]] # None
      BY <1>1, <1>2, <1>5, <2>1 DEF Rooted, TypeOK
    <3>2. \A e \in edges : e.src \in Nodes /\ e.dst \in Nodes
      BY <1>1 DEF TypeOK, Edge
    <3> QED BY <1>2, <1>3, <1>6, <2>1, <3>1, <3>2 DEF Rooted
  <2>2. CASE x \notin Nodes
    <3>1. /\ x.snapshot = loc[t].snapshot
          /\ nodes[x.src] # None /\ nodes[x.dst] # None
      BY <1>1, <1>4, <2>2 DEF Draws
    <3> QED BY <1>2, <1>3, <1>5, <2>2, <3>1 DEF Rooted
  <2> QED BY <2>1, <2>2
<1>8. DecisionHasItsSnapshot' /\ SnapshotHasItsDecision'
  BY <1>3 DEF DecisionHasItsSnapshot, SnapshotHasItsDecision
<1>9. \A u \in Threads \ {t} : pc'[u] = pc[u] /\ loc'[u] = loc[u]
  BY <1>1, <1>2 DEF TypeOK, Return, Goto
<1>10. ASSUME NEW u \in Threads \ {t}, pc'[u] \in Drawing PROVE Holds(u)' /\ Draws(u)'
  BY <1>3, <1>6, <1>9, <1>10 DEF Holds, Draws
<1>11. \/ pc'[t] = "idle"
       \/ /\ pc'[t] \in {"graph", "evaluate"}
          /\ loc'[t] = [loc[t] EXCEPT !.todo = @ \ {x}]
  <2>1. CASE loc[t].todo # {x}
    BY <1>1, <1>2, <2>1 DEF TypeOK
  <2>2. CASE loc[t].todo = {x} /\ loc[t].op = "preflight"
    BY <1>1, <1>2, <2>2 DEF TypeOK, Return, Goto
  <2>3. CASE loc[t].todo = {x} /\ loc[t].op # "preflight"
    <3>1. loc[t].todo \ {x} = {}
      BY <2>3
    <3> QED BY <1>1, <1>2, <2>3, <3>1 DEF TypeOK, Goto
  <2> QED BY <2>1, <2>2, <2>3
<1>12. ASSUME pc'[t] \in Drawing PROVE Holds(t)' /\ Draws(t)' /\ loc'[t].snapshot = loc[t].snapshot
  <2>1. pc'[t] # "attach" /\ loc'[t] = [loc[t] EXCEPT !.todo = @ \ {x}]
    BY <1>11, <1>12 DEF Drawing
  <2>2. /\ loc'[t].snapshot = loc[t].snapshot /\ loc'[t].op = loc[t].op
        /\ loc'[t].facts = loc[t].facts /\ loc'[t].todo = loc[t].todo \ {x}
    BY <1>1, <2>1 DEF TypeOK
  <2>3. Holds(t)'
    BY <1>1, <1>3, <2>1, <2>2 DEF Holds
  <2>4. Draws(t)'
    <3>1. x \in Nodes => nodes'[x] # None
      BY <1>1, <1>2, <1>5, RecordsAssumption DEF TypeOK
    <3> QED BY <1>1, <1>6, <2>2, <3>1 DEF Draws
  <2> QED BY <2>2, <2>3, <2>4
<1>13. OwnSnapshots'
  BY <1>1, <1>9, <1>11, <1>12 DEF OwnSnapshots, Drawing
<1> QED BY <1>7, <1>8, <1>10, <1>12, <1>13

LEMMA EvaluateOK ==
  ASSUME TypeInv, Recorded, NEW t \in Threads, Evaluate(t)
  PROVE  Recorded'
<1> USE DEF Recorded
<1>1. pc[t] = "evaluate" /\ TypeOK /\ Holds(t) /\ Draws(t)
  BY DEF Evaluate, TypeInv, Drawing
<1>2. /\ UNCHANGED <<snapshots, decisions, nodes, edges>>
      /\ pc' = [pc EXCEPT ![t] = "decision"]
      /\ \E b : loc' = [loc EXCEPT ![t].basis = b]
  BY DEF Evaluate, Goto
<1>3. DecisionHasItsSnapshot' /\ SnapshotHasItsDecision' /\ Rooted'
  BY <1>2 DEF DecisionHasItsSnapshot, SnapshotHasItsDecision, Rooted
<1>4. \A u \in Threads \ {t} : pc'[u] = pc[u] /\ loc'[u] = loc[u]
  BY <1>1, <1>2 DEF TypeOK
<1>5. /\ pc'[t] = "decision"
      /\ loc'[t].snapshot = loc[t].snapshot /\ loc'[t].op = loc[t].op
      /\ loc'[t].facts = loc[t].facts /\ loc'[t].todo = loc[t].todo
  BY <1>1, <1>2 DEF TypeOK
<1>6. Holds(t)' /\ Draws(t)'
  BY <1>1, <1>2, <1>5 DEF Holds, Draws
<1>7. \A u \in Threads \ {t} : pc'[u] \in Drawing => Holds(u)' /\ Draws(u)'
  BY <1>2, <1>4 DEF Holds, Draws
<1>8. OwnSnapshots'
  BY <1>1, <1>4, <1>5 DEF OwnSnapshots, Drawing
<1> QED BY <1>3, <1>6, <1>7, <1>8

(* The decision saved is on facts with the snapshot's key, and no other    *)
(* row names the snapshot.                                                 *)
LEMMA SaveDecisionOK ==
  ASSUME TypeInv, Recorded, NEW t \in Threads, SaveDecision(t)
  PROVE  Recorded'
<1> USE DEF Recorded
<1>1. pc[t] = "decision" /\ TypeOK /\ LocOK(t) /\ Holds(t) /\ Draws(t)
  BY DEF SaveDecision, TypeInv, Drawing
<1> DEFINE row == [session |-> loc[t].session, snapshot |-> loc[t].snapshot,
                   basis |-> loc[t].basis]
<1>2. PICK d \in DecisionIds :
        /\ decisions[d] = None
        /\ decisions' = [decisions EXCEPT ![d] = row]
        /\ loc' = [loc EXCEPT ![t].decision = d]
  BY DEF SaveDecision, FreshDecision
<1>3. UNCHANGED <<snapshots, nodes, edges>> /\ pc' = [pc EXCEPT ![t] = "attach"]
  BY DEF SaveDecision, Goto
<1>4. /\ loc[t].session \in Sessions /\ loc[t].session = loc[t].facts.session
      /\ loc[t].snapshot \in SnapshotIds /\ loc[t].op = "authorize"
      /\ loc[t].basis \in Facts /\ loc[t].facts \in Facts
      /\ KeyOf(loc[t].basis) = KeyOf(loc[t].facts)
  BY <1>1, FactsAreRecords DEF LocOK, Drawing
<1>5. row # None
  <2>1. row \in Decision
    BY <1>4 DEF Decision
  <2> QED BY <2>1, RecordsAssumption
<1>6. snapshots[loc[t].snapshot] # None
  <2>1. snapshots[loc[t].snapshot] \in Snapshot
    BY <1>1, <1>4 DEF Holds, Snapshot
  <2> QED BY <2>1, RecordsAssumption
<1>7. /\ row.session = loc[t].session /\ row.snapshot = loc[t].snapshot
      /\ row.basis = loc[t].basis
  OBVIOUS
<1> HIDE DEF row
<1>8. decisions'[d] = row /\ \A c \in DecisionIds \ {d} : decisions'[c] = decisions[c]
  BY <1>1, <1>2 DEF TypeOK
<1>9. \A u \in Threads \ {t} : pc'[u] = pc[u] /\ loc'[u] = loc[u]
  BY <1>1, <1>2, <1>3 DEF TypeOK
<1>10. /\ pc'[t] = "attach" /\ loc'[t].decision = d
       /\ loc'[t].snapshot = loc[t].snapshot /\ loc'[t].op = loc[t].op
       /\ loc'[t].facts = loc[t].facts /\ loc'[t].todo = loc[t].todo
       /\ loc'[t].session = loc[t].session /\ loc'[t].basis = loc[t].basis
  BY <1>1, <1>2, <1>3 DEF TypeOK
<1>11. DecisionHasItsSnapshot'
  <2>1. ASSUME NEW c \in DecisionIds, c # d, decisions'[c] # None
        PROVE  /\ snapshots'[decisions'[c].snapshot] # None
               /\ snapshots'[decisions'[c].snapshot].phase = "authorize"
               /\ snapshots'[decisions'[c].snapshot].facts.session = decisions'[c].session
               /\ snapshots'[decisions'[c].snapshot].decision \in {c, None}
               /\ decisions'[c].basis.session = decisions'[c].session
               /\ decisions'[c].basis.key = snapshots'[decisions'[c].snapshot].facts.key
    BY <1>3, <1>8, <2>1 DEF DecisionHasItsSnapshot
  <2>2. loc[t].basis.session = loc[t].facts.session /\ loc[t].basis.key = loc[t].facts.key
    BY <1>4 DEF KeyOf
  <2>3. /\ snapshots'[row.snapshot] # None
        /\ snapshots'[row.snapshot].phase = "authorize"
        /\ snapshots'[row.snapshot].facts.session = row.session
        /\ snapshots'[row.snapshot].decision \in {d, None}
        /\ row.basis.session = row.session
        /\ row.basis.key = snapshots'[row.snapshot].facts.key
    BY <1>1, <1>3, <1>4, <1>6, <1>7, <2>2 DEF Holds
  <2> QED BY <1>8, <2>1, <2>3 DEF DecisionHasItsSnapshot
<1>12. SnapshotHasItsDecision'
  BY <1>1, <1>2, <1>3, <1>8 DEF SnapshotHasItsDecision, TypeOK, OrNone, Snapshot
<1>13. Rooted'
  BY <1>3 DEF Rooted
<1>14. Holds(t)' /\ Draws(t)'
  <2>1. \A c \in DecisionIds \ {d} :
          decisions'[c] # None => decisions'[c].snapshot # loc[t].snapshot
    BY <1>1, <1>8 DEF Holds
  <2>2. Holds(t)'
    BY <1>1, <1>3, <1>8, <1>10, <2>1 DEF Holds, row
  <2> QED BY <1>1, <1>3, <1>10, <2>2 DEF Draws
<1>15. ASSUME NEW u \in Threads \ {t}, pc'[u] \in Drawing PROVE Holds(u)' /\ Draws(u)'
  <2>1. Holds(u) /\ Draws(u) /\ loc[u].snapshot # loc[t].snapshot
    BY <1>1, <1>9, <1>15 DEF OwnSnapshots, Drawing
  <2>2. pc[u] = "attach" => loc[u].decision \in DecisionIds \ {d}
    <3>1. pc[u] = "attach" => loc[u].decision \in DecisionIds
      BY DEF TypeInv, LocOK
    <3>2. pc[u] = "attach" =>
            decisions[loc[u].decision] \in Decision
      BY <1>9, <1>15, <2>1, FactsAreRecords DEF Holds, TypeInv, LocOK, Decision, Drawing
    <3> QED BY <1>2, <3>1, <3>2, RecordsAssumption
  <2>3. Holds(u)'
    BY <1>3, <1>7, <1>8, <1>9, <2>1, <2>2 DEF Holds
  <2> QED BY <1>3, <1>9, <2>1, <2>3 DEF Draws
<1>16. OwnSnapshots'
  BY <1>1, <1>9, <1>10 DEF OwnSnapshots, Drawing
<1> QED BY <1>11, <1>12, <1>13, <1>14, <1>15, <1>16

LEMMA AttachDecisionOK ==
  ASSUME TypeInv, Recorded, NEW t \in Threads, AttachDecision(t)
  PROVE  Recorded'
<1> USE DEF Recorded
<1>1. pc[t] = "attach" /\ TypeOK /\ LocOK(t) /\ Holds(t)
  BY DEF AttachDecision, TypeInv, Drawing
<1> DEFINE i == loc[t].snapshot
           d == loc[t].decision
<1>2. i \in SnapshotIds /\ d \in DecisionIds
  BY <1>1 DEF LocOK, Drawing
<1>3. /\ UNCHANGED <<decisions, nodes, edges>>
      /\ pc' = [pc EXCEPT ![t] = "idle"] /\ loc' = [loc EXCEPT ![t] = Idle]
  BY DEF AttachDecision, Return, Goto
<1>4. /\ snapshots[i] # None /\ snapshots[i] \in Snapshot
      /\ snapshots' = [snapshots EXCEPT ![i] = [snapshots[i] EXCEPT !.decision = d]]
  <2>1. snapshots[i] \in Snapshot
    BY <1>1, <1>2 DEF LocOK, Drawing, Holds, Snapshot
  <2>2. snapshots[i] # None
    BY <2>1, RecordsAssumption
  <2> QED BY <2>1, <2>2 DEF AttachDecision
<1>5. decisions[d] # None /\ decisions[d].snapshot = i
  <2>1. decisions[d] = [session |-> loc[t].session, snapshot |-> i, basis |-> loc[t].basis]
    BY <1>1 DEF Holds
  <2>2. decisions[d] \in Decision
    BY <1>1, <1>2, <2>1, FactsAreRecords DEF LocOK, Drawing, Decision
  <2> QED BY <2>1, <2>2, RecordsAssumption
<1>6. \A c \in DecisionIds \ {d} : decisions[c] # None => decisions[c].snapshot # i
  BY <1>1 DEF Holds
<1> HIDE DEF i, d
<1>7. /\ \A j \in SnapshotIds \ {i} : snapshots'[j] = snapshots[j]
      /\ snapshots'[i] = [snapshots[i] EXCEPT !.decision = d]
  BY <1>1, <1>2, <1>4 DEF TypeOK
<1>8. snapshots'[i] # None
  <2>1. snapshots'[i] \in Snapshot
    BY <1>2, <1>4, <1>7 DEF Snapshot
  <2> QED BY <2>1, RecordsAssumption
<1>9. /\ snapshots'[i].phase = snapshots[i].phase /\ snapshots'[i].facts = snapshots[i].facts
      /\ snapshots'[i].decision = d
  BY <1>4, <1>7 DEF Snapshot
<1>10. \A u \in Threads \ {t} : pc'[u] = pc[u] /\ loc'[u] = loc[u]
  BY <1>1, <1>3 DEF TypeOK
<1>11. pc'[t] = "idle"
  BY <1>1, <1>3 DEF TypeOK
<1>12. DecisionHasItsSnapshot'
  <2>1. ASSUME NEW c \in DecisionIds, decisions[c] # None
        PROVE  decisions[c].snapshot \in SnapshotIds
    BY <1>1, <2>1 DEF TypeOK, OrNone, Decision
  <2>2. ASSUME NEW c \in DecisionIds, c # d, decisions[c] # None
        PROVE  snapshots'[decisions[c].snapshot] = snapshots[decisions[c].snapshot]
    BY <1>6, <1>7, <2>1, <2>2
  <2> QED BY <1>3, <1>5, <1>8, <1>9, <2>2 DEF DecisionHasItsSnapshot
<1>13. SnapshotHasItsDecision'
  <2>1. ASSUME NEW j \in SnapshotIds, snapshots'[j] # None, snapshots'[j].decision # None
        PROVE  /\ decisions[snapshots'[j].decision] # None
               /\ decisions[snapshots'[j].decision].snapshot = j
    <3>1. CASE j = i
      BY <1>5, <1>9, <3>1
    <3>2. CASE j # i
      BY <1>7, <2>1, <3>2 DEF SnapshotHasItsDecision
    <3> QED BY <3>1, <3>2
  <2> QED BY <1>3, <2>1 DEF SnapshotHasItsDecision
<1>14. Rooted'
  <2>1. \A j \in SnapshotIds : snapshots[j] # None => snapshots'[j] # None
    BY <1>7, <1>8
  <2>2. \A x \in Nodes : nodes[x] # None => nodes[x] \in SnapshotIds
    BY <1>1 DEF TypeOK, OrNone
  <2>3. \A e \in edges : e.snapshot \in SnapshotIds
    BY <1>1 DEF TypeOK, Edge
  <2> QED BY <1>3, <2>1, <2>2, <2>3 DEF Rooted
<1>15. ASSUME NEW u \in Threads, pc'[u] \in Drawing PROVE Holds(u)' /\ Draws(u)'
  <2>1. u # t
    BY <1>11, <1>15 DEF Drawing
  <2>2. Holds(u) /\ Draws(u) /\ loc[u].snapshot \in SnapshotIds \ {i}
    <3>1. pc[u] \in Drawing /\ LocOK(u)
      BY <1>10, <1>15, <2>1 DEF TypeInv
    <3>2. loc[u].snapshot # loc[t].snapshot
      BY <1>1, <2>1, <3>1 DEF OwnSnapshots, Drawing
    <3> QED BY <3>1, <3>2 DEF LocOK, i
  <2> QED BY <1>3, <1>7, <1>10, <2>1, <2>2 DEF Holds, Draws
<1>16. OwnSnapshots'
  BY <1>10, <1>11 DEF OwnSnapshots, Drawing
<1> QED BY <1>12, <1>13, <1>14, <1>15, <1>16

-----------------------------------------------------------------------------
(* What a reseed that is alone at work has erased by each statement.       *)
Erased(t) ==
  /\ \A u \in Threads : u # t => pc[u] = "idle"
  /\ snapshots = NoRows(SnapshotIds)
  /\ pc[t] # "delete_edges" => edges = {}
  /\ pc[t] \in {"delete_proposals", "delete_decisions"} => nodes = NoRows(Nodes)

(* Either a reseed got in the way, or one is alone at work, or none is and *)
(* the records are in order.                                               *)
RecordsInv ==
  \/ torn
  \/ \E t \in Threads : pc[t] \in Erasing /\ Erased(t)
  \/ Recorded /\ \A t \in Threads : pc[t] \notin Erasing

LEMMA EmptyIsRecorded ==
  ASSUME snapshots' = NoRows(SnapshotIds), decisions' = NoRows(DecisionIds),
         nodes' = NoRows(Nodes), edges' = {}, \A t \in Threads : pc'[t] = "idle"
  PROVE  Recorded'
BY DEF Recorded, DecisionHasItsSnapshot, SnapshotHasItsDecision, Rooted,
   OwnSnapshots, NoRows, Drawing

(* Handlers beside no reseed keep the records in order.                    *)
LEMMA HandlersStep ==
  ASSUME TypeInv, Recorded, \A t \in Threads : pc[t] \notin Erasing,
         HistoryNext, ~torn'
  PROVE  \/ \E t \in Threads : (pc[t] \in Erasing /\ Erased(t))'
         \/ Recorded' /\ \A t \in Threads : pc'[t] \notin Erasing
<1>0. TypeOK
  BY DEF TypeInv
<1>1. ASSUME NEW t \in Threads, NEW op \in {"preflight", "authorize"}, NEW facts \in Facts,
             Run(t, op, facts)
      PROVE  Recorded' /\ \A u \in Threads : pc'[u] \notin Erasing
  <2>1. /\ UNCHANGED <<snapshots, decisions, nodes, edges>>
        /\ pc' = [pc EXCEPT ![t] = "snapshot"] /\ \E v : loc' = [loc EXCEPT ![t] = v]
    BY <1>1 DEF Run, Goto, tables
  <2>2. \A u \in Threads : pc'[u] \in Drawing => pc'[u] = pc[u] /\ loc'[u] = loc[u]
    BY <1>0, <2>1 DEF TypeOK, Drawing
  <2> QED BY <1>0, <2>1, <2>2, OtherTables DEF TypeOK, Erasing
<1>2. ASSUME NEW t \in Threads, NEW s \in Sessions, Propose(t, s)
      PROVE  Recorded' /\ \A u \in Threads : pc'[u] \notin Erasing
  <2>1. /\ UNCHANGED <<snapshots, decisions, nodes, edges>>
        /\ pc' = [pc EXCEPT ![t] = "delete_proposal"] /\ \E v : loc' = [loc EXCEPT ![t] = v]
    BY <1>2 DEF Propose, Goto, tables
  <2>2. \A u \in Threads : pc'[u] \in Drawing => pc'[u] = pc[u] /\ loc'[u] = loc[u]
    BY <1>0, <2>1 DEF TypeOK, Drawing
  <2> QED BY <1>0, <2>1, <2>2, OtherTables DEF TypeOK, Erasing
<1>3. ASSUME NEW t \in Threads, DeleteProposal(t)
      PROVE  Recorded' /\ \A u \in Threads : pc'[u] \notin Erasing
  <2>1. /\ UNCHANGED <<snapshots, decisions, nodes, edges, loc>>
        /\ pc' = [pc EXCEPT ![t] = "insert_proposal"]
    BY <1>3 DEF DeleteProposal, Goto
  <2>2. \A u \in Threads : pc'[u] \in Drawing => pc'[u] = pc[u] /\ loc'[u] = loc[u]
    BY <1>0, <2>1 DEF TypeOK, Drawing
  <2> QED BY <1>0, <2>1, <2>2, OtherTables DEF TypeOK, Erasing
<1>4. ASSUME NEW t \in Threads, InsertProposal(t) \/ Fail(t)
      PROVE  Recorded' /\ \A u \in Threads : pc'[u] \notin Erasing
  <2>1. /\ UNCHANGED <<snapshots, decisions, nodes, edges>>
        /\ pc' = [pc EXCEPT ![t] = "idle"] /\ loc' = [loc EXCEPT ![t] = Idle]
    BY <1>4 DEF InsertProposal, Fail, Return, Goto, tables
  <2>2. \A u \in Threads : pc'[u] \in Drawing => pc'[u] = pc[u] /\ loc'[u] = loc[u]
    BY <1>0, <2>1 DEF TypeOK, Drawing
  <2> QED BY <1>0, <2>1, <2>2, OtherTables DEF TypeOK, Erasing
<1>5. ASSUME NEW t \in Threads,
             \/ SaveSnapshot(t) \/ PutRow(t) \/ Evaluate(t)
             \/ SaveDecision(t) \/ AttachDecision(t)
      PROVE  Recorded' /\ \A u \in Threads : pc'[u] \notin Erasing
  <2>1. Recorded'
    BY <1>5, SaveSnapshotOK, PutRowOK, EvaluateOK, SaveDecisionOK, AttachDecisionOK
  <2>2. pc' = pc \/ \E l \in {"graph", "evaluate", "decision", "attach", "idle"} : Goto(t, l)
    BY <1>5 DEF SaveSnapshot, PutRow, Evaluate, SaveDecision, AttachDecision, Return
  <2>3. \A u \in Threads : pc'[u] \notin Erasing
    BY <1>0, <2>2 DEF Goto, TypeOK, Erasing
  <2> QED BY <2>1, <2>3
<1>6. ASSUME NEW t \in Threads, Reseed(t) PROVE (pc[t] \in Erasing /\ Erased(t))'
  <2>1. /\ pc' = [pc EXCEPT ![t] = "delete_edges"]
        /\ loc' = [loc EXCEPT ![t] = [Idle EXCEPT !.op = "reseed"]]
        /\ snapshots' = NoRows(SnapshotIds)
    BY <1>6 DEF Reseed, Goto
  <2>2. pc'[t] = "delete_edges" /\ loc'[t].op = "reseed"
    BY <1>0, <2>1 DEF TypeOK, Idle
  <2>3. \A u \in Threads : u # t => pc'[u] = "idle"
    BY <2>2 DEF HistoryNext
  <2> QED BY <2>1, <2>2, <2>3 DEF Erased, Erasing
<1>7. ASSUME NEW t \in Threads,
             \/ DeleteEdges(t) \/ DeleteNodes(t) \/ DeleteProposals(t) \/ DeleteDecisions(t)
      PROVE  FALSE
  BY <1>7 DEF DeleteEdges, DeleteNodes, DeleteProposals, DeleteDecisions, Erasing
<1> QED
  BY <1>1, <1>2, <1>3, <1>4, <1>5, <1>6, <1>7 DEF HistoryNext, Next

(* A reseed that nobody joins and nothing cuts off leaves empty tables.    *)
LEMMA ReseedStep ==
  ASSUME TypeInv, NEW t \in Threads, pc[t] \in Erasing, Erased(t), HistoryNext, ~torn'
  PROVE  \/ (pc[t] \in Erasing /\ Erased(t))'
         \/ Recorded' /\ \A u \in Threads : pc'[u] \notin Erasing
<1>0. TypeOK /\ loc[t].op = "reseed"
  BY DEF TypeInv, LocOK
<1>1. ASSUME NEW u \in Threads, u # t
      PROVE  /\ \A op, facts : ~Run(u, op, facts)
             /\ \A s : ~Propose(u, s)
             /\ ~Reseed(u)
             /\ ~(\/ SaveSnapshot(u) \/ PutRow(u) \/ Evaluate(u)
                  \/ SaveDecision(u) \/ AttachDecision(u)
                  \/ DeleteProposal(u) \/ InsertProposal(u)
                  \/ DeleteEdges(u) \/ DeleteNodes(u)
                  \/ DeleteProposals(u) \/ DeleteDecisions(u) \/ Fail(u))
  <2>1. pc[u] = "idle"
    BY <1>1 DEF Erased
  <2>2. ASSUME NEW l \in {"snapshot", "delete_proposal", "delete_edges"},
               NEW v, Goto(u, l), loc' = [loc EXCEPT ![u] = v]
        PROVE  FALSE
    <3>1. pc'[u] # "idle" /\ pc'[t] = pc[t] /\ loc'[t] = loc[t]
      BY <1>0, <1>1, <2>2 DEF Goto, TypeOK
    <3>2. pc'[t] # "idle"
      BY <3>1 DEF Erasing
    <3> QED BY <1>0, <1>1, <3>1, <3>2 DEF HistoryNext
  <2>3. \A op, facts : ~Run(u, op, facts)
    BY <2>2 DEF Run
  <2>4. (\A s : ~Propose(u, s)) /\ ~Reseed(u)
    BY <2>2 DEF Propose, Reseed
  <2> QED
    BY <2>1, <2>3, <2>4
       DEF SaveSnapshot, PutRow, Evaluate, SaveDecision, AttachDecision, DeleteProposal,
           InsertProposal, DeleteEdges, DeleteNodes, DeleteProposals, DeleteDecisions, Fail
<1>2. /\ \A op, facts : ~Run(t, op, facts)
      /\ \A s : ~Propose(t, s)
      /\ ~(\/ SaveSnapshot(t) \/ PutRow(t) \/ Evaluate(t)
           \/ SaveDecision(t) \/ AttachDecision(t)
           \/ DeleteProposal(t) \/ InsertProposal(t) \/ Reseed(t))
  BY DEF Erasing, Run, Propose, SaveSnapshot, PutRow, Evaluate, SaveDecision,
         AttachDecision, DeleteProposal, InsertProposal, Reseed
<1>3. CASE DeleteEdges(t)
  BY <1>0, <1>3 DEF DeleteEdges, Goto, TypeOK, Erasing, Erased
<1>4. CASE DeleteNodes(t)
  BY <1>0, <1>4 DEF DeleteNodes, Goto, TypeOK, Erasing, Erased
<1>5. CASE DeleteProposals(t)
  BY <1>0, <1>5 DEF DeleteProposals, Goto, TypeOK, Erasing, Erased
<1>6. CASE /\ pc[t] = "delete_decisions" /\ Return(t)
           /\ UNCHANGED <<snapshots, nodes, edges>> /\ decisions' = NoRows(DecisionIds)
  <2>1. \A u \in Threads : pc'[u] = "idle"
    BY <1>0, <1>6 DEF Return, Goto, TypeOK, Erased
  <2>2. /\ snapshots' = NoRows(SnapshotIds) /\ decisions' = NoRows(DecisionIds)
        /\ nodes' = NoRows(Nodes) /\ edges' = {}
    BY <1>6 DEF Erased
  <2>3. Recorded'
    BY <2>1, <2>2, EmptyIsRecorded
  <2> QED BY <2>1, <2>3 DEF Erasing
<1>7. CASE DeleteDecisions(t)
  BY <1>6, <1>7 DEF DeleteDecisions
<1>8. CASE Fail(t)
  <2>1. pc'[t] = "idle" /\ Return(t) /\ UNCHANGED tables
    BY <1>0, <1>8 DEF Fail, Return, Goto, TypeOK
  <2>2. pc[t] = "delete_decisions" /\ decisions' = NoRows(DecisionIds)
    BY <1>0, <2>1 DEF HistoryNext
  <2> QED BY <1>6, <2>1, <2>2 DEF tables
<1> QED
  BY <1>1, <1>2, <1>3, <1>4, <1>5, <1>7, <1>8 DEF HistoryNext, Next

LEMMA HistoryInit == MCInit => TypeInv /\ RecordsInv
<1> SUFFICES ASSUME MCInit PROVE TypeInv /\ RecordsInv
  OBVIOUS
<1>1. TypeInv /\ Recorded
  BY TypeInit, RecordedInit DEF MCInit
<1>2. \A t \in Threads : pc[t] \notin Erasing
  BY DEF MCInit, Init, Erasing
<1> QED BY <1>1, <1>2 DEF RecordsInv

LEMMA HistoryStep ==
  TypeInv /\ RecordsInv /\ [HistoryNext]_<<vars, torn, learned>> => TypeInv' /\ RecordsInv'
<1> SUFFICES ASSUME TypeInv, RecordsInv, [HistoryNext]_<<vars, torn, learned>>
             PROVE  TypeInv' /\ RecordsInv'
  OBVIOUS
<1>1. TypeInv'
  BY TypeStep DEF HistoryNext
<1>2. CASE HistoryNext /\ ~torn'
  <2>1. ~torn
    BY <1>2 DEF HistoryNext
  <2>2. ASSUME NEW t \in Threads, pc[t] \in Erasing, Erased(t) PROVE RecordsInv'
    <3>1. \/ (pc[t] \in Erasing /\ Erased(t))'
          \/ Recorded' /\ \A u \in Threads : pc'[u] \notin Erasing
      BY <1>2, <2>2, ReseedStep
    <3> QED BY <3>1 DEF RecordsInv
  <2>3. ASSUME Recorded, \A t \in Threads : pc[t] \notin Erasing PROVE RecordsInv'
    <3>1. \/ \E t \in Threads : (pc[t] \in Erasing /\ Erased(t))'
          \/ Recorded' /\ \A t \in Threads : pc'[t] \notin Erasing
      BY <1>2, <2>3, HandlersStep
    <3> QED BY <3>1 DEF RecordsInv
  <2>4. \/ \E t \in Threads : pc[t] \in Erasing /\ Erased(t)
        \/ Recorded /\ \A t \in Threads : pc[t] \notin Erasing
    BY <2>1 DEF RecordsInv
  <2> QED BY <1>1, <2>2, <2>3, <2>4
<1>3. CASE torn'
  BY <1>1, <1>3 DEF RecordsInv
<1>4. CASE UNCHANGED <<vars, torn, learned>>
  <2>1. UNCHANGED <<snapshots, decisions, nodes, edges, pc, loc, torn>>
    BY <1>4 DEF vars
  <2>2. \A t \in Threads : Erased(t)' <=> Erased(t)
    BY <2>1 DEF Erased
  <2>3. Recorded => Recorded'
    BY <2>1, OtherTables
  <2> QED BY <1>1, <2>1, <2>2, <2>3 DEF RecordsInv
<1> QED BY <1>2, <1>3, <1>4

(* What the records claim holds whenever no reseed is at work and none has *)
(* got in the way.                                                         *)
LEMMA RecordsInOrder == TypeInv /\ RecordsInv /\ Settled => TypeOK /\ Recorded
BY DEF RecordsInv, Settled, Reseeding, TypeInv, LocOK, Erasing

(* A decision on record names a snapshot that an authorization took of its *)
(* session, with the key it was decided on, however requests, failures and *)
(* reseeds follow one another.                                             *)
THEOREM DecisionsDocumented == HistorySpec => []DecisionsAreDocumented
<1>1. TypeInv /\ RecordsInv => DecisionsAreDocumented
  BY RecordsInOrder DEF DecisionsAreDocumented, Recorded
<1> QED BY <1>1, HistoryInit, HistoryStep, PTL DEF HistorySpec

(* A snapshot leads to the decision it names, and back.                    *)
THEOREM SnapshotsDocumented == HistorySpec => []SnapshotsAreDocumented
<1>1. TypeInv /\ RecordsInv => SnapshotsAreDocumented
  BY RecordsInOrder DEF SnapshotsAreDocumented, Recorded
<1> QED BY <1>1, HistoryInit, HistoryStep, PTL DEF HistorySpec

(* The context graph hangs together at every statement of every handler    *)
(* that draws it, and shows a session its edges to itself and to recipes.  *)
THEOREM GraphWhole == HistorySpec => []GraphIsWhole
<1>1. TypeInv /\ RecordsInv => GraphIsWhole
  BY RecordsInOrder, RootedIsEnough DEF GraphIsWhole, Recorded
<1> QED BY <1>1, HistoryInit, HistoryStep, PTL DEF HistorySpec

-----------------------------------------------------------------------------
(* learned is reset by any step of a reseed, and by a run that breaks off  *)
(* with the proposal deleted.                                              *)
LEMMA ProposalStep ==
  TypeInv /\ ProposalIsKept /\ [HistoryNext]_<<vars, torn, learned>> => ProposalIsKept'
<1> SUFFICES ASSUME TypeInv, ProposalIsKept, [HistoryNext]_<<vars, torn, learned>>,
                    learned', proposal' = None
             PROVE  \E t \in Threads : pc'[t] = "insert_proposal"
  BY DEF ProposalIsKept
<1>0. TypeOK
  BY DEF TypeInv
<1>1. CASE UNCHANGED <<vars, torn, learned>>
  BY <1>1 DEF vars, ProposalIsKept
<1>2. CASE HistoryNext
  <2>1. learned /\ ~Reseeding'
    BY <1>2 DEF HistoryNext
  <2>2. ASSUME NEW t \in Threads, DeleteProposal(t)
        PROVE  \E u \in Threads : pc'[u] = "insert_proposal"
    BY <1>0, <2>2 DEF DeleteProposal, Goto, TypeOK
  <2>3. ASSUME NEW t \in Threads, DeleteProposals(t) PROVE FALSE
    <3>1. pc'[t] = "delete_decisions" /\ loc'[t].op = "reseed"
      BY <1>0, <2>3 DEF DeleteProposals, Goto, TypeOK, TypeInv, LocOK, Erasing
    <3> QED BY <2>1, <3>1 DEF Reseeding
  <2>4. CASE \A t \in Threads : ~DeleteProposal(t) /\ ~DeleteProposals(t)
    <3>1. proposal = None
      <4>1. \A t \in Threads : InsertProposal(t) => proposal = None
        BY <1>0 DEF InsertProposal
      <4> QED
        BY <1>2, <2>4, <4>1
           DEF HistoryNext, Next, Run, Propose, SaveSnapshot, PutRow, Evaluate, SaveDecision,
               AttachDecision, Reseed, DeleteEdges, DeleteNodes, DeleteDecisions, Fail, tables
    <3>2. PICK t \in Threads : pc[t] = "insert_proposal"
      BY <2>1, <3>1 DEF ProposalIsKept
    <3>3. pc'[t] # "idle"
      BY <1>2, <3>1, <3>2 DEF HistoryNext
    <3>4. PICK u \in Threads : pc' = pc \/ \E l : Goto(u, l) /\ (u = t => l = "idle")
      BY <1>2, <3>2
         DEF HistoryNext, Next, Run, Propose, SaveSnapshot, PutRow, Evaluate, SaveDecision,
             AttachDecision, DeleteProposal, InsertProposal, Reseed, DeleteEdges, DeleteNodes,
             DeleteProposals, DeleteDecisions, Fail, Return
    <3>5. pc'[t] = pc[t]
      BY <1>0, <3>3, <3>4 DEF Goto, TypeOK
    <3> QED BY <3>2, <3>5
  <2> QED BY <2>2, <2>3, <2>4
<1> QED BY <1>1, <1>2

(* However many runs of the learning worker delete and insert the proposal *)
(* at once, it is there or about to be inserted, unless a reseed erases it *)
(* or a run that has deleted it breaks off.                                *)
THEOREM ProposalKept == HistorySpec => []ProposalIsKept
<1>1. MCInit => ProposalIsKept
  BY DEF MCInit, ProposalIsKept
<1> QED BY <1>1, HistoryInit, HistoryStep, ProposalStep, PTL DEF HistorySpec

(* What is claimed of HistorySpec is claimed of its instances.             *)
THEOREM InstancesAreHistories == MCSpec => HistorySpec
<1>1. [MCNext]_<<vars, torn, learned>> => [HistoryNext]_<<vars, torn, learned>>
  BY DEF MCNext
<1> QED BY <1>1, PTL DEF MCSpec, HistorySpec
=============================================================================
