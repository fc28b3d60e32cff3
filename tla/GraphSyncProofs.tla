--------------------------- MODULE GraphSyncProofs ---------------------------
(* Proofs about the derived graph, for any number of threads that rebuild  *)
(* it at the same time, and any sessions, scopes and resources.            *)
EXTENDS MCGraphSync, TLAPS

(* Every edge, every row in process and every row a rebuild still holds    *)
(* comes from a grant there once was.                                      *)
Backed ==
  /\ \A e \in granted : \E g \in ever : e = <<g[1], g[2]>>
  /\ \A e \in applies : \E g \in ever : e = <<g[2], g[3]>>
  /\ memory.rows \subseteq ever
  /\ \A t \in Threads : loc[t].rows \subseteq ever

ReadsBacked ==
  \A t \in Threads : loc[t].facts.grant =>
    /\ \E g \in ever : g[1] = loc[t].query[1] /\ g[2] = loc[t].query[2]
    /\ \E g \in ever : g[2] = loc[t].query[2] /\ g[3] = loc[t].query[3]

QueriesAreTriples == \A t \in Threads : pc[t] # "idle" => loc[t].query \in Triples

IInv == TypeOK /\ Backed /\ ReadsBacked /\ QueriesAreTriples

-----------------------------------------------------------------------------
Locals == [query : Triples \cup {NoQuery}, rows : SUBSET Triples, facts : Facts]

LEMMA IdleIsLocal == Idle \in Locals /\ Idle.rows = {} /\ ~Idle.facts.grant
BY DEF Idle, Locals, NoFacts, Facts

LEMMA InitOK == Init => IInv
<1> SUFFICES ASSUME Init PROVE IInv
  OBVIOUS
<1>1. TypeOK
  BY IdleIsLocal DEF Init, TypeOK, Locals, Labels, Unloaded
<1>2. Backed /\ ReadsBacked /\ QueriesAreTriples
  BY IdleIsLocal DEF Init, Backed, ReadsBacked, QueriesAreTriples, Unloaded
<1> QED BY <1>1, <1>2 DEF IInv

(* A step that neither touches the graph's edges nor the tables in Dolt.   *)
LEMMA ThreadStepOK ==
  ASSUME IInv, NEW t \in Threads, NEW label \in Labels, NEW mine \in Locals,
         pc' = [pc EXCEPT ![t] = label], loc' = [loc EXCEPT ![t] = mine],
         UNCHANGED <<live, ever>>,
         backend' \in {"memgraph", "inmemory"},
         layers' \subseteq Layers, resources' \subseteq Resources,
         granted' \subseteq Sessions \X Scopes, applies' \subseteq Scopes \X Resources,
         memory' \in [loaded : BOOLEAN, rows : SUBSET Triples],
         \A e \in granted' : \E g \in ever : e = <<g[1], g[2]>>,
         \A e \in applies' : \E g \in ever : e = <<g[2], g[3]>>,
         memory'.rows \subseteq ever, mine.rows \subseteq ever,
         mine.facts.grant =>
           /\ \E g \in ever : g[1] = mine.query[1] /\ g[2] = mine.query[2]
           /\ \E g \in ever : g[2] = mine.query[2] /\ g[3] = mine.query[3],
         label # "idle" => mine.query \in Triples
  PROVE  IInv'
<1>1. /\ pc' \in [Threads -> Labels] /\ loc' \in [Threads -> Locals]
      /\ pc'[t] = label /\ loc'[t] = mine
      /\ \A u \in Threads \ {t} : pc'[u] = pc[u] /\ loc'[u] = loc[u]
  BY DEF IInv, TypeOK, Locals
<1>2. TypeOK'
  BY <1>1 DEF IInv, TypeOK, Locals
<1>3. Backed'
  BY <1>1 DEF IInv, Backed
<1>4. ReadsBacked'
  BY <1>1 DEF IInv, ReadsBacked
<1>5. QueriesAreTriples'
  BY <1>1 DEF IInv, QueriesAreTriples
<1> QED BY <1>2, <1>3, <1>4, <1>5 DEF IInv

(* The same, when the graph and the process memory are not written at all, *)
(* and the thread keeps its query and the facts it has read.               *)
LEMMA QuietStepOK ==
  ASSUME IInv, NEW t \in Threads, NEW label \in Labels, NEW rows \in SUBSET Triples,
         pc[t] # "idle", rows \subseteq ever,
         Goto(t, label), loc' = [loc EXCEPT ![t].rows = rows] \/
                         (loc' = loc /\ rows = loc[t].rows),
         UNCHANGED <<live, ever, granted, applies>>,
         backend' \in {"memgraph", "inmemory"},
         layers' \subseteq Layers, resources' \subseteq Resources,
         memory' \in [loaded : BOOLEAN, rows : SUBSET Triples],
         memory'.rows \subseteq ever
  PROVE  IInv'
<1> DEFINE mine == [loc[t] EXCEPT !.rows = rows]
<1>1. loc[t] \in Locals /\ loc \in [Threads -> Locals] /\ loc[t].query \in Triples
  BY DEF IInv, TypeOK, Locals, QueriesAreTriples
<1>2. mine \in Locals /\ mine.rows = rows /\ mine.query = loc[t].query
      /\ mine.facts = loc[t].facts
  BY <1>1 DEF Locals
<1>3. loc' = [loc EXCEPT ![t] = mine]
  BY <1>1 DEF Locals
<1>4. pc' = [pc EXCEPT ![t] = label]
  BY DEF Goto
<1> HIDE DEF mine
<1>5. /\ granted' \subseteq Sessions \X Scopes /\ applies' \subseteq Scopes \X Resources
      /\ \A e \in granted' : \E g \in ever : e = <<g[1], g[2]>>
      /\ \A e \in applies' : \E g \in ever : e = <<g[2], g[3]>>
  BY DEF IInv, TypeOK, Backed
<1>6. mine.facts.grant =>
        /\ \E g \in ever : g[1] = mine.query[1] /\ g[2] = mine.query[2]
        /\ \E g \in ever : g[2] = mine.query[2] /\ g[3] = mine.query[3]
  BY <1>2 DEF IInv, ReadsBacked
<1> QED BY <1>1, <1>2, <1>3, <1>4, <1>5, <1>6, ThreadStepOK

LEMMA QuietFacts ==
  ASSUME IInv, NEW t \in Threads
  PROVE  /\ loc[t].rows \in SUBSET Triples /\ loc[t].rows \subseteq ever
         /\ live \in SUBSET Triples /\ live \subseteq ever
         /\ backend \in {"memgraph", "inmemory"}
         /\ layers \subseteq Layers /\ resources \subseteq Resources
         /\ memory \in [loaded : BOOLEAN, rows : SUBSET Triples]
         /\ memory.rows \subseteq ever
BY DEF IInv, TypeOK, Backed

LEMMA GrantsChangeOK ==
  ASSUME IInv, NEW t \in Threads, NEW g \in Triples, Issue(t, g) \/ Spend(t, g)
  PROVE  IInv'
<1>1. ever \subseteq ever' /\ live' \subseteq ever' /\ ever' \subseteq Triples
      /\ UNCHANGED <<backend, memgraph, memory, pc, loc>>
  BY DEF Issue, Spend, IInv, TypeOK
<1>2. TypeOK'
  BY <1>1 DEF IInv, TypeOK, memgraph
<1>3. Backed' /\ ReadsBacked' /\ QueriesAreTriples'
  BY <1>1 DEF IInv, Backed, ReadsBacked, QueriesAreTriples, memgraph
<1> QED BY <1>2, <1>3 DEF IInv

LEMMA BeginEndOK ==
  ASSUME IInv, NEW t \in Threads, Answer(t) \/ \E q \in Triples : Authorize(t, q)
  PROVE  IInv'
<1>1. /\ granted \subseteq Sessions \X Scopes /\ applies \subseteq Scopes \X Resources
      /\ \A e \in granted : \E g \in ever : e = <<g[1], g[2]>>
      /\ \A e \in applies : \E g \in ever : e = <<g[2], g[3]>>
  BY DEF IInv, TypeOK, Backed
<1>2. CASE Answer(t)
  BY <1>1, <1>2, IdleIsLocal, QuietFacts, ThreadStepOK DEF Answer, Goto, Labels, memgraph
<1>3. ASSUME NEW q \in Triples, Authorize(t, q) PROVE IInv'
  <2> DEFINE mine == [Idle EXCEPT !.query = q]
  <2>1. mine \in Locals /\ mine.rows = {} /\ ~mine.facts.grant /\ mine.query = q
    BY IdleIsLocal DEF Locals, Idle
  <2>2. loc' = [loc EXCEPT ![t] = mine]
    BY <1>3 DEF Authorize
  <2> HIDE DEF mine
  <2> QED BY <1>1, <1>3, <2>1, <2>2, QuietFacts, ThreadStepOK
          DEF Authorize, Goto, Labels, memgraph
<1> QED BY <1>2, <1>3

LEMMA RebuildOK ==
  ASSUME IInv, NEW t \in Threads,
         \/ \E name \in {"memgraph", "inmemory"} : Probe(t, name)
         \/ Fetch(t) \/ MergeLayer(t) \/ MergeResources(t) \/ MergeDone(t)
         \/ SyncFails(t) \/ Reload(t)
  PROVE  IInv'
<1> USE QuietFacts DEF memgraph
<1>1. ASSUME NEW name \in {"memgraph", "inmemory"}, Probe(t, name) PROVE IInv'
  <2> DEFINE label == IF name = "memgraph" THEN "fetch" ELSE "reload_fetch"
  <2>1. label \in Labels /\ Goto(t, label)
    BY <1>1 DEF Probe, Labels
  <2> QED BY <1>1, <2>1, QuietStepOK DEF Probe
<1>2. CASE Fetch(t)
  <2> DEFINE label == IF pc[t] = "fetch" THEN "clear" ELSE "reload"
  <2>1. label \in Labels /\ Goto(t, label)
    BY <1>2 DEF Fetch, Labels
  <2> QED BY <1>2, <2>1, QuietStepOK DEF Fetch
<1>3. CASE MergeLayer(t)
  <2>1. ASSUME NEW layer \in Layers, NEW next \in Labels, Merge(t, layer, next)
        PROVE  IInv'
    <3>1. layers' \subseteq Layers /\ pc[t] # "idle"
      BY <2>1 DEF Merge, Layers
    <3>2. Goto(t, next) /\ loc' = loc /\ UNCHANGED <<live, ever, granted, applies>>
          /\ UNCHANGED <<backend, resources, memory>>
      BY <2>1 DEF Merge
    <3> QED BY <3>1, <3>2, QuietStepOK
  <2>2. {"users", "sessions", "delegations", "recipes", "tools", "resources"}
          \subseteq Labels
    BY DEF Labels, Layers
  <2> QED BY <1>3, <2>1, <2>2 DEF MergeLayer, Layers
<1>4. CASE MergeResources(t)
  BY <1>4, QuietStepOK DEF MergeResources, Labels
<1>5. CASE MergeDone(t)
  BY <1>5, QuietStepOK DEF MergeDone, Labels
<1>6. CASE SyncFails(t)
  <2>1. pc[t] # "idle" /\ "reload_fetch" \in Labels
    BY <1>6 DEF SyncFails, Labels, Layers
  <2>2. Goto(t, "reload_fetch") /\ loc' = [loc EXCEPT ![t].rows = {}]
        /\ {} \in SUBSET Triples /\ {} \subseteq ever
        /\ backend' \in {"memgraph", "inmemory"}
        /\ UNCHANGED <<live, ever, layers, resources, granted, applies, memory>>
    BY <1>6 DEF SyncFails
  <2> QED BY <2>1, <2>2, QuietStepOK
<1>7. CASE Reload(t)
  <2>1. pc[t] # "idle" /\ "read" \in Labels
    BY <1>7 DEF Reload, Labels
  <2>2. Goto(t, "read") /\ loc' = [loc EXCEPT ![t].rows = {}]
        /\ {} \in SUBSET Triples /\ {} \subseteq ever
        /\ memory' \in [loaded : BOOLEAN, rows : SUBSET Triples]
        /\ memory'.rows \subseteq ever
        /\ UNCHANGED <<live, ever, backend, layers, resources, granted, applies>>
    BY <1>7 DEF Reload
  <2> QED BY <2>1, <2>2, QuietStepOK
<1> QED BY <1>1, <1>2, <1>3, <1>4, <1>5, <1>6, <1>7

(* The steps that write edges: all are dropped, or those of one row added. *)
LEMMA EdgesOK ==
  ASSUME IInv, NEW t \in Threads, Clear(t) \/ MergeGrant(t)
  PROVE  IInv'
<1> USE QuietFacts
<1>1. loc[t] \in Locals /\ loc[t].query \in Triples
  BY DEF IInv, TypeOK, Locals, QueriesAreTriples, Clear, MergeGrant
<1>2. loc[t].facts.grant =>
        /\ \E g \in ever : g[1] = loc[t].query[1] /\ g[2] = loc[t].query[2]
        /\ \E g \in ever : g[2] = loc[t].query[2] /\ g[3] = loc[t].query[3]
  BY DEF IInv, ReadsBacked
<1>3. CASE Clear(t)
  <2>1. loc' = [loc EXCEPT ![t] = loc[t]]
    BY <1>3 DEF Clear, IInv, TypeOK
  <2> QED BY <1>1, <1>2, <1>3, <2>1, ThreadStepOK DEF Clear, Goto, Labels, Layers
<1>4. CASE MergeGrant(t)
  <2>1. PICK g \in loc[t].rows :
          /\ loc' = [loc EXCEPT ![t].rows = @ \ {g}]
          /\ IF "sessions" \in layers
             THEN /\ granted' = granted \cup {<<g[1], g[2]>>}
                  /\ applies' = applies \cup {<<g[2], g[3]>>}
                  /\ resources' = resources \cup {g[3]}
             ELSE UNCHANGED <<granted, applies, resources>>
    BY <1>4 DEF MergeGrant
  <2>2. g \in ever /\ g \in Triples
    BY DEF IInv, Backed
  <2>3. g[1] \in Sessions /\ g[2] \in Scopes /\ g[3] \in Resources
    BY <2>2 DEF Triples
  <2>4. /\ granted \subseteq Sessions \X Scopes /\ applies \subseteq Scopes \X Resources
        /\ \A e \in granted : \E h \in ever : e = <<h[1], h[2]>>
        /\ \A e \in applies : \E h \in ever : e = <<h[2], h[3]>>
    BY DEF IInv, TypeOK, Backed
  <2>5. /\ granted' \subseteq Sessions \X Scopes /\ applies' \subseteq Scopes \X Resources
        /\ resources' \subseteq Resources
    BY <2>1, <2>3, <2>4
  <2>6. /\ \A e \in granted' : \E h \in ever : e = <<h[1], h[2]>>
        /\ \A e \in applies' : \E h \in ever : e = <<h[2], h[3]>>
    BY <2>1, <2>2, <2>4
  <2> DEFINE mine == [loc[t] EXCEPT !.rows = @ \ {g}]
  <2>7. mine \in Locals /\ mine.rows \subseteq ever /\ mine.query = loc[t].query
        /\ mine.facts = loc[t].facts
    BY <1>1 DEF Locals
  <2>8. loc' = [loc EXCEPT ![t] = mine]
    BY <2>1
  <2>9. pc' = [pc EXCEPT ![t] = pc[t]] /\ pc[t] \in Labels
        /\ UNCHANGED <<live, ever, backend, layers, memory>>
    BY <1>4 DEF MergeGrant, IInv, TypeOK
  <2> HIDE DEF mine
  <2> QED BY <1>1, <1>2, <2>5, <2>6, <2>7, <2>8, <2>9, ThreadStepOK
<1> QED BY <1>3, <1>4

LEMMA ReadOK ==
  ASSUME IInv, NEW t \in Threads, Read(t)
  PROVE  IInv'
<1> USE QuietFacts
<1> DEFINE q == loc[t].query
           facts == IF backend = "memgraph" THEN MemgraphFacts(q) ELSE InMemoryFacts(q)
           mine == [loc[t] EXCEPT !.facts = facts]
<1>1. loc[t] \in Locals /\ q \in Triples
  BY DEF IInv, TypeOK, Locals, QueriesAreTriples, Read
<1>2. facts \in Facts
  BY DEF MemgraphFacts, InMemoryFacts, NoFacts, Facts
<1>3. /\ MemgraphFacts(q).grant => <<q[1], q[2]>> \in granted /\ <<q[2], q[3]>> \in applies
      /\ InMemoryFacts(q).grant => q \in memory.rows
  BY DEF MemgraphFacts, InMemoryFacts, NoFacts
<1>4. facts.grant => \/ <<q[1], q[2]>> \in granted /\ <<q[2], q[3]>> \in applies
                     \/ q \in memory.rows
  BY <1>3
<1> HIDE DEF facts
<1>5. facts.grant => /\ \E g \in ever : g[1] = q[1] /\ g[2] = q[2]
                     /\ \E g \in ever : g[2] = q[2] /\ g[3] = q[3]
  BY <1>4 DEF IInv, Backed
<1>6. mine \in Locals /\ mine.facts = facts /\ mine.query = q /\ mine.rows = loc[t].rows
  BY <1>1, <1>2 DEF Locals
<1>7. loc' = [loc EXCEPT ![t] = mine]
  BY DEF Read, facts
<1>8. /\ granted \subseteq Sessions \X Scopes /\ applies \subseteq Scopes \X Resources
      /\ \A e \in granted : \E g \in ever : e = <<g[1], g[2]>>
      /\ \A e \in applies : \E g \in ever : e = <<g[2], g[3]>>
  BY DEF IInv, TypeOK, Backed
<1>9. pc' = [pc EXCEPT ![t] = "decide"] /\ "decide" \in Labels
      /\ UNCHANGED <<live, ever, backend, memgraph, memory>>
  BY DEF Read, Goto, Labels
<1> HIDE DEF mine, q
<1> QED BY <1>1, <1>5, <1>6, <1>7, <1>8, <1>9, ThreadStepOK DEF memgraph

LEMMA NextOK == IInv /\ [Next]_vars => IInv'
<1> SUFFICES ASSUME IInv, [Next]_vars PROVE IInv'
  OBVIOUS
<1>1. CASE Next
  BY <1>1, GrantsChangeOK, BeginEndOK, RebuildOK, EdgesOK, ReadOK DEF Next
<1>2. CASE UNCHANGED vars
  BY <1>2 DEF vars, memgraph, IInv, TypeOK, Backed, ReadsBacked, QueriesAreTriples
<1> QED BY <1>1, <1>2

(* The invariant holds in every behaviour.                                 *)
THEOREM GraphKeepsOrder == Spec => []IInv
BY InitOK, NextOK, PTL DEF Spec

(* The graph, the rows and the threads' variables keep their shape.        *)
THEOREM TypeCorrect == Spec => []TypeOK
<1>1. IInv => TypeOK
  BY DEF IInv
<1> QED BY <1>1, GraphKeepsOrder, PTL

(* Whatever rebuilds, failures and queries interleave, a grant that is     *)
(* seen was issued: to the session for its scope, and for the resource.    *)
THEOREM NothingInvented == Spec => []GrantsAreNeverInvented
<1>1. IInv => GrantsAreNeverInvented
  <2> SUFFICES ASSUME IInv, NEW t \in Threads, Deciding(t), loc[t].facts.grant
               PROVE  LET q == loc[t].query IN
                      /\ \E r \in Resources : <<q[1], q[2], r>> \in ever
                      /\ \E s \in Sessions : <<s, q[2], q[3]>> \in ever
    BY DEF GrantsAreNeverInvented
  <2>1. PICK g \in ever : g[1] = loc[t].query[1] /\ g[2] = loc[t].query[2]
    BY DEF IInv, ReadsBacked
  <2>2. PICK h \in ever : h[2] = loc[t].query[2] /\ h[3] = loc[t].query[3]
    BY DEF IInv, ReadsBacked
  <2>3. g \in Triples /\ h \in Triples
    BY DEF IInv, TypeOK
  <2>4. /\ g = <<g[1], g[2], g[3]>> /\ g[3] \in Resources
        /\ h = <<h[1], h[2], h[3]>> /\ h[1] \in Sessions
    BY <2>3 DEF Triples
  <2> QED BY <2>1, <2>2, <2>4
<1> QED BY <1>1, GraphKeepsOrder, PTL

-----------------------------------------------------------------------------
(* A request that is not interrupted: what the rebuild has merged so far   *)
(* at each of its steps, whatever graph it found when it began.            *)
Merged ==
  [ users |-> {}, sessions |-> {"users"}, delegations |-> {"users", "sessions"},
    recipes |-> {"users", "sessions", "delegations"},
    tools |-> {"users", "sessions", "delegations", "recipes"},
    resources |-> Layers, grants |-> Layers ]

Merging == {"resources", "grants"} \cup Layers

Drawn(rows) ==
  \A g \in rows : <<g[1], g[2]>> \in granted /\ <<g[2], g[3]>> \in applies

FromLive ==
  /\ \A e \in granted : \E g \in live : e = <<g[1], g[2]>>
  /\ \A e \in applies : \E g \in live : e = <<g[2], g[3]>>

(* The backend that a query would ask is a copy of Dolt.                   *)
Whole ==
  \/ /\ backend = "memgraph" /\ layers = Layers /\ resources = Resources
     /\ Drawn(live) /\ FromLive
  \/ backend = "inmemory" /\ memory.loaded /\ memory.rows = live

(* What Memgraph says of a triple: its session has a live grant for the    *)
(* scope, and somebody has one in this scope for the resource.             *)
Crossed(q) ==
  /\ \E g \in live : g[1] = q[1] /\ g[2] = q[2]
  /\ \E g \in live : g[2] = q[2] /\ g[3] = q[3]

(* What a decision sees of the grants is what its backend can tell.        *)
Exact(t) ==
  loc[t].facts.grant <=> IF backend = "inmemory" THEN loc[t].query \in live
                                                 ELSE Crossed(loc[t].query)

Progress(t) ==
  /\ pc[t] \in Merging => Merged[pc[t]] \subseteq layers /\ FromLive
  /\ pc[t] \in {"fetch", "clear"} \cup Merging => backend = "memgraph"
  /\ pc[t] \in {"reload_fetch", "reload"} => backend = "inmemory"
  /\ pc[t] \in {"clear", "resources", "reload"} \cup Layers => loc[t].rows = live
  /\ pc[t] = "grants" => /\ resources = Resources
                         /\ loc[t].rows \subseteq live /\ Drawn(live \ loc[t].rows)
  /\ pc[t] = "read" => Whole
  /\ pc[t] = "decide" =>
       /\ loc[t].facts.found /\ loc[t].facts.delegation /\ loc[t].facts.recipe
       /\ loc[t].query \in Triples /\ Exact(t)

OwnProgress == \A t \in uninterrupted : t \in Threads /\ Progress(t)

(* Where a step leaves the thread that took it.                            *)
LEMMA Arrives ==
  ASSUME TypeOK, NEW t \in Threads, NEW label, Goto(t, label)
  PROVE  pc'[t] = label
BY DEF TypeOK, Goto

LEMMA BeginProgress ==
  ASSUME TypeOK, NEW t \in Threads, Answer(t) \/ \E q \in Triples : Authorize(t, q)
  PROVE  Progress(t)'
<1>1. pc'[t] \in {"idle", "probe"}
  BY Arrives DEF Answer, Authorize
<1> QED BY <1>1 DEF Progress, Merging, Layers

LEMMA ProbeProgress ==
  ASSUME TypeOK, NEW t \in Threads, NEW name \in {"memgraph", "inmemory"},
         Probe(t, name)
  PROVE  Progress(t)'
<1>1. \/ pc'[t] = "fetch" /\ backend' = "memgraph"
      \/ pc'[t] = "reload_fetch" /\ backend' = "inmemory"
  BY Arrives DEF Probe
<1> QED BY <1>1 DEF Progress, Merging, Layers

LEMMA FetchProgress ==
  ASSUME TypeOK, NEW t \in Threads, Progress(t), Fetch(t)
  PROVE  Progress(t)'
<1>1. loc'[t].rows = live /\ live' = live /\ backend' = backend
  BY DEF Fetch, TypeOK
<1>2. \/ pc'[t] = "clear" /\ backend = "memgraph"
      \/ pc'[t] = "reload" /\ backend = "inmemory"
  BY Arrives DEF Fetch, Progress
<1> QED BY <1>1, <1>2 DEF Progress, Merging, Layers

LEMMA ClearProgress ==
  ASSUME TypeOK, NEW t \in Threads, Progress(t), Clear(t)
  PROVE  Progress(t)'
<1>1. pc'[t] = "users" /\ loc' = loc /\ live' = live /\ backend' = backend
  BY Arrives DEF Clear
<1>2. loc[t].rows = live /\ backend = "memgraph"
  BY DEF Clear, Progress
<1>3. Merged["users"] = {}
  BY DEF Merged
<1>4. FromLive'
  BY DEF Clear, FromLive
<1> QED BY <1>1, <1>2, <1>3, <1>4 DEF Progress, Merging, Layers

(* The nodes a layer's edges are matched on are there, so it is merged.    *)
LEMMA LayerIsMerged ==
  ASSUME TypeOK, NEW t \in Threads, Progress(t), NEW layer \in Layers,
         NEW next \in Merging \ {"grants"}, Merge(t, layer, next),
         Needs[layer] \subseteq Merged[layer],
         Merged[next] \subseteq Merged[layer] \cup {layer}
  PROVE  Progress(t)'
<1>1. pc'[t] = next /\ loc' = loc /\ live' = live /\ backend' = backend
  BY Arrives DEF Merge
<1>2. pc[t] = layer /\ pc[t] \in Merging /\ pc[t] \in Layers
  BY DEF Merge, Merging
<1>3. /\ loc[t].rows = live /\ backend = "memgraph"
      /\ Merged[layer] \subseteq layers /\ FromLive
  BY <1>2 DEF Progress
<1>4. layers' = layers \cup {layer}
  BY <1>3 DEF Merge
<1>5. Merged[next] \subseteq layers'
  BY <1>3, <1>4
<1>6. next \notin {"grants", "read", "decide", "reload_fetch", "reload"}
  BY DEF Merging, Layers
<1>7. FromLive'
  BY <1>3 DEF Merge, FromLive
<1> QED BY <1>1, <1>3, <1>5, <1>6, <1>7 DEF Progress

LEMMA MergeProgress ==
  ASSUME TypeOK, NEW t \in Threads, Progress(t), MergeLayer(t)
  PROVE  Progress(t)'
<1>1. {"users", "sessions", "delegations", "recipes", "tools", "resources"}
        \subseteq Merging \ {"grants"}
  BY DEF Merging, Layers
<1>2. /\ Merged["sessions"] \subseteq Merged["users"] \cup {"users"}
      /\ Merged["delegations"] \subseteq Merged["sessions"] \cup {"sessions"}
      /\ Merged["recipes"] \subseteq Merged["delegations"] \cup {"delegations"}
      /\ Merged["tools"] \subseteq Merged["recipes"] \cup {"recipes"}
      /\ Merged["resources"] \subseteq Merged["tools"] \cup {"tools"}
  BY DEF Merged, Layers
<1>3. \A layer \in Layers : Needs[layer] \subseteq Merged[layer]
  BY DEF Needs, Merged, Layers
<1> QED BY <1>1, <1>2, <1>3, LayerIsMerged DEF MergeLayer, Layers

LEMMA ResourcesProgress ==
  ASSUME TypeOK, NEW t \in Threads, Progress(t), MergeResources(t)
  PROVE  Progress(t)'
<1>1. /\ pc'[t] = "grants" /\ loc' = loc /\ resources' = Resources
      /\ UNCHANGED <<live, backend, layers, granted, applies>>
  BY Arrives DEF MergeResources
<1>2. /\ loc[t].rows = live /\ backend = "memgraph"
      /\ Layers \subseteq layers /\ FromLive
  BY DEF MergeResources, Progress, Merging, Merged
<1>3. Merged["grants"] = Layers
  BY DEF Merged
<1>4. Drawn(live \ loc[t].rows)' /\ FromLive'
  BY <1>1, <1>2 DEF Drawn, FromLive
<1> QED BY <1>1, <1>2, <1>3, <1>4 DEF Progress, Layers

LEMMA GrantsProgress ==
  ASSUME TypeOK, NEW t \in Threads, Progress(t), MergeGrant(t)
  PROVE  Progress(t)'
<1>1. PICK g \in loc[t].rows :
        /\ loc' = [loc EXCEPT ![t].rows = @ \ {g}]
        /\ IF "sessions" \in layers
           THEN /\ granted' = granted \cup {<<g[1], g[2]>>}
                /\ applies' = applies \cup {<<g[2], g[3]>>}
                /\ resources' = resources \cup {g[3]}
           ELSE UNCHANGED <<granted, applies, resources>>
  BY DEF MergeGrant
<1>2. /\ resources = Resources /\ Drawn(live \ loc[t].rows) /\ loc[t].rows \subseteq live
      /\ backend = "memgraph" /\ Layers \subseteq layers /\ FromLive
  BY DEF MergeGrant, Progress, Merging, Merged
<1>3. g[3] \in Resources /\ loc'[t].rows = loc[t].rows \ {g}
  BY <1>1 DEF TypeOK, Triples
<1>4. /\ granted' = granted \cup {<<g[1], g[2]>>}
      /\ applies' = applies \cup {<<g[2], g[3]>>}
      /\ resources' = Resources
  BY <1>1, <1>2, <1>3 DEF Layers
<1>5. pc' = pc /\ pc[t] = "grants" /\ UNCHANGED <<live, backend, layers>>
  BY DEF MergeGrant
<1>6. Drawn(live \ loc[t].rows)'
  BY <1>2, <1>3, <1>4, <1>5 DEF Drawn
<1>7. FromLive'
  BY <1>2, <1>4, <1>5 DEF FromLive
<1>8. Merged["grants"] = Layers
  BY DEF Merged
<1> QED BY <1>2, <1>3, <1>4, <1>5, <1>6, <1>7, <1>8 DEF Progress, Layers

LEMMA MergeDoneProgress ==
  ASSUME TypeOK, NEW t \in Threads, Progress(t), MergeDone(t)
  PROVE  Progress(t)'
<1>1. pc'[t] = "read" /\ UNCHANGED <<live, backend, memgraph, memory>>
  BY Arrives DEF MergeDone
<1>2. /\ resources = Resources /\ backend = "memgraph" /\ Merged["grants"] \subseteq layers
      /\ Drawn(live \ loc[t].rows) /\ loc[t].rows = {} /\ FromLive
  BY DEF MergeDone, Progress, Merging
<1>3. Drawn(live) /\ layers = Layers
  BY <1>2 DEF Drawn, Merged, TypeOK
<1>4. Whole'
  BY <1>1, <1>2, <1>3 DEF Whole, Drawn, FromLive, memgraph
<1> QED BY <1>1, <1>4 DEF Progress, Merging, Layers

LEMMA ReloadProgress ==
  ASSUME TypeOK, NEW t \in Threads, Progress(t), SyncFails(t) \/ Reload(t)
  PROVE  Progress(t)'
<1>1. CASE SyncFails(t)
  <2>1. pc'[t] = "reload_fetch" /\ backend' = "inmemory"
    BY <1>1, Arrives DEF SyncFails
  <2> QED BY <2>1 DEF Progress, Merging, Layers
<1>2. CASE Reload(t)
  <2>1. /\ pc'[t] = "read" /\ memory' = [loaded |-> TRUE, rows |-> loc[t].rows]
        /\ UNCHANGED <<live, backend>>
    BY <1>2, Arrives DEF Reload
  <2>2. backend = "inmemory" /\ loc[t].rows = live
    BY <1>2 DEF Reload, Progress
  <2>3. Whole'
    BY <2>1, <2>2 DEF Whole
  <2> QED BY <2>1, <2>3 DEF Progress, Merging, Layers
<1> QED BY <1>1, <1>2

(* On a copy of Dolt either backend finds everything the decision needs.   *)
LEMMA ReadProgress ==
  ASSUME TypeOK, NEW t \in Threads, Progress(t), Read(t), loc[t].query \in Triples
  PROVE  Progress(t)'
<1> DEFINE q == loc[t].query
           facts == IF backend = "memgraph" THEN MemgraphFacts(q) ELSE InMemoryFacts(q)
<1>1. q[3] \in Resources
  BY DEF Triples
<1>2. Whole
  BY DEF Read, Progress
<1>3. /\ facts.found /\ facts.delegation /\ facts.recipe
      /\ facts.grant <=> IF backend = "inmemory" THEN q \in live ELSE Crossed(q)
  <2>1. CASE backend = "memgraph"
    <3>1. /\ layers = Layers /\ resources = Resources /\ Drawn(live) /\ FromLive
      BY <1>2, <2>1 DEF Whole
    <3>2. Crossed(q) => <<q[1], q[2]>> \in granted /\ <<q[2], q[3]>> \in applies
      BY <3>1 DEF Drawn, Crossed
    <3>3. <<q[1], q[2]>> \in granted /\ <<q[2], q[3]>> \in applies => Crossed(q)
      BY <3>1 DEF FromLive, Crossed
    <3>4. {"sessions", "tools"} \subseteq layers /\ q[3] \in resources
          /\ "delegations" \in layers /\ "recipes" \in layers
      BY <1>1, <3>1 DEF Layers
    <3> QED BY <2>1, <3>2, <3>3, <3>4 DEF MemgraphFacts
  <2>2. CASE backend # "memgraph"
    BY <1>2, <2>2 DEF Whole, InMemoryFacts
  <2> QED BY <2>1, <2>2
<1>4. pc'[t] = "decide" /\ live' = live /\ backend' = backend
  BY Arrives DEF Read
<1>5. loc'[t].facts = facts /\ loc'[t].query = q
  BY DEF Read, TypeOK
<1> HIDE DEF facts, q
<1>6. Exact(t)'
  BY <1>3, <1>4, <1>5 DEF Exact, Crossed
<1>7. loc'[t].query \in Triples
  BY <1>5 DEF q
<1> QED BY <1>3, <1>4, <1>5, <1>6, <1>7 DEF Progress, Merging, Layers

(* A thread's step is its own.                                             *)
LEMMA OthersStay ==
  ASSUME TypeOK, NEW t \in Threads, NEW u \in Threads, u # t,
         \/ \E q \in Triples : Authorize(t, q)
         \/ \E name \in {"memgraph", "inmemory"} : Probe(t, name)
         \/ Fetch(t) \/ Clear(t) \/ MergeLayer(t) \/ MergeResources(t)
         \/ MergeGrant(t) \/ MergeDone(t) \/ SyncFails(t) \/ Reload(t)
         \/ Read(t) \/ Answer(t)
  PROVE  pc'[u] = pc[u] /\ loc'[u] = loc[u]
<1>1. pc'[u] = pc[u]
  BY DEF TypeOK, Goto, Authorize, Probe, Fetch, Clear, MergeLayer, Merge,
     MergeResources, MergeGrant, MergeDone, SyncFails, Reload, Read, Answer
<1>2. loc'[u] = loc[u]
  BY DEF TypeOK, Authorize, Probe, Fetch, Clear, MergeLayer, Merge,
     MergeResources, MergeGrant, MergeDone, SyncFails, Reload, Read, Answer
<1> QED BY <1>1, <1>2

(* A step of its own carries an uninterrupted request on; a step of any    *)
(* other thread, and a grant issued or spent, interrupts every request.    *)
LEMMA OwnStep ==
  ASSUME IInv, OwnProgress, MCNext
  PROVE  OwnProgress'
<1>0. PICK t \in Threads :
        \/ \E g \in Triples : Issue(t, g) \/ Spend(t, g) \/ Authorize(t, g)
        \/ \E name \in {"memgraph", "inmemory"} : Probe(t, name)
        \/ Fetch(t) \/ Clear(t) \/ MergeLayer(t) \/ MergeResources(t)
        \/ MergeGrant(t) \/ MergeDone(t) \/ SyncFails(t) \/ Reload(t)
        \/ Read(t) \/ Answer(t)
  BY DEF MCNext, Next
<1>1. ASSUME NEW u \in uninterrupted' PROVE u \in Threads /\ Progress(u)'
  <2>1. /\ u \in Threads /\ <<pc'[u], loc'[u]>> # <<pc[u], loc[u]>>
        /\ pc[u] = "idle" \/ u \in uninterrupted
    BY <1>1 DEF MCNext
  <2>2. TypeOK
    BY DEF IInv
  <2>3. ~\E g \in Triples : Issue(t, g) \/ Spend(t, g)
    BY <2>1 DEF Issue, Spend
  <2>4. u = t
    BY <1>0, <2>1, <2>2, <2>3, OthersStay
  <2>5. CASE pc[t] = "idle"
    <3>1. \E q \in Triples : Authorize(t, q)
      BY <1>0, <2>3, <2>5 DEF Probe, Fetch, Clear, MergeLayer, Merge, MergeResources,
         MergeGrant, MergeDone, SyncFails, Reload, Read, Answer, Layers
    <3> QED BY <2>2, <2>4, <3>1, BeginProgress
  <2>6. CASE pc[t] # "idle"
    <3>1. Progress(t) /\ loc[t].query \in Triples
      BY <2>1, <2>4, <2>6 DEF OwnProgress, IInv, QueriesAreTriples
    <3> QED BY <1>0, <2>2, <2>3, <2>4, <3>1, BeginProgress, ProbeProgress,
            FetchProgress, ClearProgress, MergeProgress, ResourcesProgress,
            GrantsProgress, MergeDoneProgress, ReloadProgress, ReadProgress
  <2> QED BY <2>5, <2>6
<1> QED BY <1>1 DEF OwnProgress

LEMMA OwnInit == MCInit => OwnProgress
BY DEF MCInit, OwnProgress

LEMMA OwnNext == IInv /\ OwnProgress /\ [MCNext]_<<vars, uninterrupted>> => OwnProgress'
<1> SUFFICES ASSUME IInv, OwnProgress, UNCHANGED <<vars, uninterrupted>>
             PROVE  OwnProgress'
  BY OwnStep
<1> QED BY DEF vars, memgraph, OwnProgress, Progress, Whole, Drawn, FromLive, Exact, Crossed

(* Whatever graph a request finds, and wherever its rebuild fails, it is   *)
(* carried through to a whole copy of Dolt unless somebody interrupts it.  *)
THEOREM UninterruptedProgress == MCSpec => [](IInv /\ OwnProgress)
<1>1. MCInit => IInv
  BY InitOK DEF MCInit
<1>2. IInv /\ [MCNext]_<<vars, uninterrupted>> => IInv'
  BY NextOK DEF MCNext, vars
<1> QED BY <1>1, <1>2, OwnInit, OwnNext, PTL DEF MCSpec

(* A request that is not interrupted finds the session, its delegation and *)
(* its recipe, on either backend.                                          *)
THEOREM UninterruptedFacts == MCSpec => []FactsAreComplete
<1>1. OwnProgress => FactsAreComplete
  BY DEF OwnProgress, Progress, FactsAreComplete, Deciding
<1> QED BY <1>1, UninterruptedProgress, PTL

(* A request that is not interrupted sees every grant that is live.        *)
THEOREM UninterruptedSeesGrants == MCSpec => []LiveGrantIsSeen
<1>1. OwnProgress => LiveGrantIsSeen
  <2> SUFFICES ASSUME OwnProgress, NEW t \in uninterrupted, Deciding(t),
                      loc[t].query \in live
               PROVE  loc[t].facts.grant
    BY DEF LiveGrantIsSeen
  <2>1. Exact(t)
    BY DEF OwnProgress, Progress, Deciding
  <2>2. Crossed(loc[t].query)
    BY DEF Crossed
  <2> QED BY <2>1, <2>2 DEF Exact
<1> QED BY <1>1, UninterruptedProgress, PTL

(* What such a request sees, to the letter: from the rows in process the   *)
(* grants in Dolt; from Memgraph, where the path from the session to the   *)
(* resource crosses the scope, also a grant that the session has for this  *)
(* scope together with one that somebody has in it for this resource.      *)
UninterruptedIsExact == \A t \in uninterrupted : Deciding(t) => Exact(t)

(* So the two backends differ for it in the crossing of grants only.       *)
THEOREM UninterruptedReads == MCSpec => []UninterruptedIsExact
<1>1. OwnProgress => UninterruptedIsExact
  BY DEF OwnProgress, Progress, UninterruptedIsExact, Deciding
<1> QED BY <1>1, UninterruptedProgress, PTL
=============================================================================
