----------------------------- MODULE GraphSync ------------------------------
(***************************************************************************)
(* The derived graph of platform/graph_backend.py: memgraph_sync.py        *)
(* rebuilds Memgraph from Dolt before every decision, graph_fallback.py    *)
(* keeps the rows in process instead when Memgraph is not there, and       *)
(* authorize_context asks whichever of the two backend_name() remembers.   *)
(*                                                                         *)
(* Every Cypher statement commits by itself and neither the rebuild, nor   *)
(* _backend, nor the in-process rows are locked, so the threads' rebuilds  *)
(* and queries interleave.  A loop over the rows of one table is one step, *)
(* except for the grants, which are the rows that change.                  *)
(***************************************************************************)
EXTENDS Naturals, FiniteSets

CONSTANTS Threads, Sessions, Scopes, Resources,
          NoQuery  \* no triple

Triples == Sessions \X Scopes \X Resources

ASSUME GraphAssumption == NoQuery \notin Triples

Layers == {"users", "sessions", "delegations", "recipes", "tools"}

VARIABLES live,      \* the grants in Dolt that still have calls
          ever,      \* the grants there ever were
          backend,   \* _backend
          layers,    \* Memgraph: the tables whose nodes and edges are there
          resources, \* Memgraph: the resource nodes
          granted,   \* Memgraph: GRANTED, from session to scope
          applies,   \* Memgraph: APPLIES_TO, from scope to resource
          memory,    \* InMemoryGraph.data, no table at all or the live grants
          pc, loc    \* each thread's next step, its query, its rows, the facts

memgraph == <<layers, resources, granted, applies>>
vars == <<live, ever, backend, layers, resources, granted, applies, memory, pc, loc>>

NoFacts ==
  [found |-> FALSE, delegation |-> FALSE, recipe |-> FALSE, grant |-> FALSE]

Idle == [query |-> NoQuery, rows |-> {}, facts |-> NoFacts]

Unloaded == [loaded |-> FALSE, rows |-> {}]

Init ==
  /\ live = {} /\ ever = {}
  /\ backend = "inmemory"
  /\ layers = {} /\ resources = {} /\ granted = {} /\ applies = {}
  /\ memory = Unloaded
  /\ pc = [t \in Threads |-> "idle"]
  /\ loc = [t \in Threads |-> Idle]

-----------------------------------------------------------------------------
Goto(t, label) == pc' = [pc EXCEPT ![t] = label]

(* A handler issues a grant, or spends the last call of one.  A grant that *)
(* expires instead is left to AccessGrants.                                *)
Issue(t, g) ==
  /\ pc[t] = "idle" /\ g \notin live
  /\ live' = live \cup {g} /\ ever' = ever \cup {g}
  /\ UNCHANGED <<backend, memgraph, memory, pc, loc>>

Spend(t, g) ==
  /\ pc[t] = "idle" /\ g \in live
  /\ live' = live \ {g}
  /\ UNCHANGED <<ever, backend, memgraph, memory, pc, loc>>

(* run_authorize for a session, a tool's scope and a resource.  Its first  *)
(* sync_graph only serves the recipe search and is left out.               *)
Authorize(t, q) ==
  /\ pc[t] = "idle"
  /\ Goto(t, "probe")
  /\ loc' = [loc EXCEPT ![t] = [Idle EXCEPT !.query = q]]
  /\ UNCHANGED <<live, ever, backend, memgraph, memory>>

(* sync_graph: backend_name(force_probe=True); Memgraph answers or not.    *)
Probe(t, name) ==
  /\ pc[t] = "probe"
  /\ backend' = name
  /\ Goto(t, IF name = "memgraph" THEN "fetch" ELSE "reload_fetch")
  /\ UNCHANGED <<live, ever, memgraph, memory, loc>>

(* fetch_all_for_sync, for either of the two.                              *)
Fetch(t) ==
  /\ pc[t] \in {"fetch", "reload_fetch"}
  /\ loc' = [loc EXCEPT ![t].rows = live]
  /\ Goto(t, IF pc[t] = "fetch" THEN "clear" ELSE "reload")
  /\ UNCHANGED <<live, ever, backend, memgraph, memory>>

Clear(t) ==
  /\ pc[t] = "clear"
  /\ layers' = {} /\ resources' = {} /\ granted' = {} /\ applies' = {}
  /\ Goto(t, "users")
  /\ UNCHANGED <<live, ever, backend, memory, loc>>

(* Variant of Needs: the recipes' edges end at tools not merged yet.       *)
NeedsTools ==
  [ users |-> {}, sessions |-> {}, delegations |-> {"users", "sessions"},
    recipes |-> {"sessions", "tools"}, tools |-> {} ]

(* The nodes that the edges of a layer are MATCHed on; nothing is merged   *)
(* for a layer whose nodes another thread has just cleared.                *)
Needs ==
  [ users |-> {}, sessions |-> {}, delegations |-> {"users", "sessions"},
    recipes |-> {"sessions"}, tools |-> {} ]

Merge(t, layer, next) ==
  /\ pc[t] = layer
  /\ layers' = IF Needs[layer] \subseteq layers THEN layers \cup {layer} ELSE layers
  /\ Goto(t, next)
  /\ UNCHANGED <<live, ever, backend, resources, granted, applies, memory, loc>>

MergeLayer(t) ==
  \/ Merge(t, "users", "sessions")
  \/ Merge(t, "sessions", "delegations")
  \/ Merge(t, "delegations", "recipes")
  \/ Merge(t, "recipes", "tools")
  \/ Merge(t, "tools", "resources")

MergeResources(t) ==
  /\ pc[t] = "resources"
  /\ resources' = Resources
  /\ Goto(t, "grants")
  /\ UNCHANGED <<live, ever, backend, layers, granted, applies, memory, loc>>

(* One grant row.  The edge from the session carries the grant's id, not   *)
(* the resource; the edge to the resource carries nothing.                 *)
MergeGrant(t) ==
  /\ pc[t] = "grants"
  /\ \E g \in loc[t].rows :
       /\ loc' = [loc EXCEPT ![t].rows = @ \ {g}]
       /\ IF "sessions" \in layers
          THEN /\ granted' = granted \cup {<<g[1], g[2]>>}
               /\ applies' = applies \cup {<<g[2], g[3]>>}
               /\ resources' = resources \cup {g[3]}
          ELSE UNCHANGED <<granted, applies, resources>>
  /\ UNCHANGED <<live, ever, backend, layers, memory, pc>>

(* Variant of MergeDone: the loop may end before the last row.             *)
MergeDoneEarly(t) ==
  /\ pc[t] = "grants"
  /\ Goto(t, "read")
  /\ UNCHANGED <<live, ever, backend, memgraph, memory, loc>>

MergeDone(t) ==
  /\ pc[t] = "grants" /\ loc[t].rows = {}
  /\ Goto(t, "read")
  /\ UNCHANGED <<live, ever, backend, memgraph, memory, loc>>

(* Memgraph goes away during the rebuild: the rows are reloaded in process.*)
SyncFails(t) ==
  /\ pc[t] \in {"clear", "resources", "grants"} \cup Layers
  /\ backend' = "inmemory"
  /\ Goto(t, "reload_fetch")
  /\ loc' = [loc EXCEPT ![t].rows = {}]
  /\ UNCHANGED <<live, ever, memgraph, memory>>

Reload(t) ==
  /\ pc[t] = "reload"
  /\ memory' = [loaded |-> TRUE, rows |-> loc[t].rows]
  /\ loc' = [loc EXCEPT ![t].rows = {}]
  /\ Goto(t, "read")
  /\ UNCHANGED <<live, ever, backend, memgraph>>

(* Variant of MemgraphFacts: one of the two optional matches is enough.    *)
MemgraphFactsFromEither(q) ==
  IF {"sessions", "tools"} \subseteq layers /\ q[3] \in resources
  THEN [ found |-> TRUE,
         delegation |-> "delegations" \in layers,
         recipe |-> "recipes" \in layers,
         grant |-> <<q[1], q[2]>> \in granted \/ <<q[2], q[3]>> \in applies ]
  ELSE NoFacts

(* authorize_context of memgraph_queries.py: the grant is looked for along *)
(* GRANTED and then APPLIES_TO.                                            *)
MemgraphFacts(q) ==
  IF {"sessions", "tools"} \subseteq layers /\ q[3] \in resources
  THEN [ found |-> TRUE,
         delegation |-> "delegations" \in layers,
         recipe |-> "recipes" \in layers,
         grant |-> <<q[1], q[2]>> \in granted /\ <<q[2], q[3]>> \in applies ]
  ELSE NoFacts

(* InMemoryGraph.authorize.                                                *)
InMemoryFacts(q) ==
  IF memory.loaded
  THEN [ found |-> TRUE, delegation |-> TRUE, recipe |-> TRUE,
         grant |-> q \in memory.rows ]
  ELSE NoFacts

(* The facts a decision is made on; without the session the request fails. *)
Read(t) ==
  /\ pc[t] = "read"
  /\ loc' = [loc EXCEPT ![t].facts = IF backend = "memgraph"
                                     THEN MemgraphFacts(loc[t].query)
                                     ELSE InMemoryFacts(loc[t].query)]
  /\ Goto(t, "decide")
  /\ UNCHANGED <<live, ever, backend, memgraph, memory>>

Answer(t) ==
  /\ pc[t] = "decide"
  /\ Goto(t, "idle")
  /\ loc' = [loc EXCEPT ![t] = Idle]
  /\ UNCHANGED <<live, ever, backend, memgraph, memory>>

Next ==
  \E t \in Threads :
    \/ \E g \in Triples : Issue(t, g) \/ Spend(t, g) \/ Authorize(t, g)
    \/ \E name \in {"memgraph", "inmemory"} : Probe(t, name)
    \/ Fetch(t) \/ Clear(t) \/ MergeLayer(t) \/ MergeResources(t)
    \/ MergeGrant(t) \/ MergeDone(t) \/ SyncFails(t) \/ Reload(t)
    \/ Read(t) \/ Answer(t)

Spec == Init /\ [][Next]_vars
-----------------------------------------------------------------------------
Labels ==
  { "idle", "probe", "fetch", "clear", "resources", "grants", "reload_fetch",
    "reload", "read", "decide" } \cup Layers

Facts == [found : BOOLEAN, delegation : BOOLEAN, recipe : BOOLEAN, grant : BOOLEAN]

(* The database, both graphs and every thread's variables are well formed. *)
TypeOK ==
  /\ live \subseteq ever /\ ever \subseteq Triples
  /\ backend \in {"memgraph", "inmemory"}
  /\ layers \subseteq Layers /\ resources \subseteq Resources
  /\ granted \subseteq Sessions \X Scopes /\ applies \subseteq Scopes \X Resources
  /\ memory \in [loaded : BOOLEAN, rows : SUBSET Triples]
  /\ pc \in [Threads -> Labels]
  /\ loc \in [Threads -> [ query : Triples \cup {NoQuery}, rows : SUBSET Triples,
                           facts : Facts ]]

Deciding(t) == pc[t] = "decide"

(* No interleaving of rebuilds makes up a grant: whoever sees one has, or  *)
(* had, a grant of that scope, and the resource was granted in that scope  *)
(* to somebody.                                                            *)
GrantsAreNeverInvented ==
  \A t \in Threads :
    Deciding(t) /\ loc[t].facts.grant =>
      LET q == loc[t].query IN
      /\ \E r \in Resources : <<q[1], q[2], r>> \in ever
      /\ \E s \in Sessions : <<s, q[2], q[3]>> \in ever

(* RFC-02: ALLOW if a grants row exists for (session, scope, resource).    *)
SeenGrantIsLive ==
  \A t \in Threads :
    Deciding(t) /\ loc[t].facts.grant => loc[t].query \in live
=============================================================================
