# ScopeMemory in TLA+

ScopeMemory is a gateway that decides, for every tool call of an AI agent,
whether it runs at once, runs on a short-lived grant, waits for a human, or is
denied.  It keeps its records in Dolt (a SQL database), derives a graph from
them, asks a Datalog engine for a decision, and writes a hash-chained audit
trail.  This directory holds TLA+ models of its core, the TLC configurations
that check them, and proofs about them that TLAPS checks.  Source paths below
are relative to `src/platform/`.

To check a module: `tlc -config <name>.cfg <MC module>.tla` (the module of each
configuration is in the table of runs).  To prove: `tlapm <...>Proofs.tla`.

## 1. Inventory

| Component | State | Operations | Correct when | Here |
|---|---|---|---|---|
| Policy engine, `cozo_policy.py` | none; relations compiled per call | `compile_policy_facts`, `decide`, the Cozo rules, an unused Python ladder | one winner; what executes is earned; auto-approval is bounded | `PolicyEngine` |
| Authorization checks, `authorization_checks.py` | `_checks`, `_by_idempotency_key`, `_decisions` (dictionaries, no lock) | `create`, `evaluate`, `get`, `cancel`, `can_execute`, `decision_for` | records, index and answers fit each other; a verdict is not revised | `AuthorizationChecks`, `VerdictCache` |
| Session events, `dolt_store.py` | table `session_events` | `append_session_event`, reseed | every event links to the one before it | `SessionEvents` |
| Access requests and grants, `dolt_store.py`, `gateway_service.py`, `mcp/handlers.py` | `access_requests`, `grants`, `sessions.status` | authorize, anticipate (preflight), approve, issue, consume, mark a call seen | a grant pays for what it was issued for; a human approved what needs one; the columns that say where a request came from agree | `AccessGrants`, `RequestProvenance` |
| Derived graph, `graph_backend.py`, `memgraph_sync.py`, `memgraph_queries.py`, `graph_fallback.py` | Memgraph, `InMemoryGraph.data`, `_backend` | `sync_graph`, `authorize_context` | what a decision sees follows from the tables | `GraphSync` |
| Credential leases, `credential_runtime.py`, `credential_broker.py`, `onepassword_provider.py`, `onepassword_readiness.py` | `credential_bindings`, `credential_leases`, `policy_decisions.credential_lease_id`, the broker's records | mint, save, attach, authorize use, resolve, mark used | every credential use points to a lease; no use without one | `CredentialLease` |
| Gateway service, `gateway_service.py` | none of its own | `run_preflight`, `run_authorize` | composes the above | parts of all modules |
| MCP endpoint, `mcp/` | none | dispatch, `handle_tool_call`, visibility | a call executes only after its delegation was checked, its grant spent and its lease used | `handle_tool_call` in `AccessGrants`, `CredentialLease`, `Delegation` |
| Downstream tools, `runtime_execution.py`, `demo_apps.py` | demo issue, comment and message tables | execute, redact | results are redacted; rows name decision and lease | `Execute` steps; redaction is not modelled |
| Identity, `agentic_iam.py`, `agentic_identity/` | `sessions`, `delegations`; the tokens issued | create a delegated session, mint a token, verify it; the legacy check | a call acts for the user and agent of its claims; a token stands for a delegation | `Delegation` |
| Hook adapter, `hook_adapter.py`, `codex_hook.py` | none | classify a pre-tool-use intent | direct secret access is refused | not modelled, section 6 |
| Context snapshots and graph, `dolt_store.py` | `session_context_snapshots`, `policy_decisions`, `graph_nodes`, `graph_edges`, similarity rows | save, draw, attach, list | a decision leads to the facts it was made on, and back | `ContextRecords` |
| Learning worker, `person_b/` | `recipe_proposals` | propose | a proposal is not lost | `ContextRecords` |
| Demo ReBAC, `../demo/rebac.py` | a small in-memory graph | check | reachability | not modelled, apart from the platform |
| App and REST handlers, `app.py` | none | lifespan, endpoints | – | which thread runs what; see below |
| Consoles, bridges, installers, demo scripts | none of the system's | render, relay, script | – | not modelled: clients and rendering |

### How the parts interact

A tool call arrives at `/mcp` and is served by `handle_tool_call` on the event
loop; the REST endpoints (`/auth/preflight`, `/auth/authorize`, approvals,
`/admin/reseed`, `/admin/sync`) are plain functions and are served by a thread
pool.  All of them call `gateway_service`, which rebuilds the graph
(`sync_graph`), reads the facts of the call from it, asks
`AuthorizationCheckService` for a decision, records it in Dolt, and issues a
grant or makes an access request.  `handle_tool_call` goes on to consume a
grant, take a credential lease and execute.  Before any of that, a call proves
by a token, or by the session alone where tokens are not required, that a user
has delegated the session to its agent; and along the way it leaves a snapshot
of the facts, a drawing of them (the context graph) and the decision with its
proof.  Every step appends session events.

Nothing in this is locked.  SQL statements autocommit one by one, Cypher
statements too, and the dictionaries, `_backend` and `InMemoryGraph.data` are
shared by all threads.  So the behaviours that are hard are these:

* interleavings of the event loop with REST workers, between any two statements;
* handlers that stop between two statements, by an exception; a process that
  stops takes the tables with it, because the next start reseeds them;
* copies that are out of date when used: a check record, a grants row, the
  previous hash, the backend's name, the graph;
* reseeds (`seed_demo`) that delete and refill tables while others use them;
* precedences and thresholds with defaults that depend on other facts.

`PROJECT.json` lists them as hazards, each at its line, with the properties
that would notice.

## 2. Modules

| Module | Role |
|---|---|
| `PolicyEngine`, `MCPolicy`, `PolicyAndProvenanceProofs` | the decision function |
| `AuthorizationChecks`, `VerdictCache`, `MCChecks`, `AuthorizationChecksProofs` | the check service, its abstract specification, the refinement mapping |
| `SessionEvents`, `MCSessionEvents`, `SessionEventsProofs` | the audit chain |
| `AccessGrants`, `GrantLedger`, `MCGrants`, `AccessGrantsProofs` | requests, approvals, grants, executions, and the ledger they implement |
| `GraphSync`, `MCGraphSync`, `GraphSyncProofs` | the derived graph |
| `CredentialLease`, `MCLease`, `CredentialLeaseProofs` | leases from mint to execution |
| `RequestProvenance`, `MCProvenance`, `PolicyAndProvenanceProofs` | where a request came from, and when its tool was first called |
| `Delegation`, `MCDelegation`, `DelegationProofs` | delegated sessions, their tokens, and the checks of a call |
| `ContextRecords`, `MCContextRecords`, `ContextRecordsProofs` | snapshots, context graph, decisions, proposals |

An `MC` module gives constants their values, declares symmetry and, where a
property is about how a run went, keeps a history variable.  A `Proofs` module
extends the component (or its `MC` module, where a theorem is about a history
variable) and holds its theorems, the type invariant among them; once proved,
a type invariant is left out of the runs.  `PolicyAndProvenanceProofs` holds the
theorems of two machines that have no variable in common; the names of the
policy engine's specification begin with `Policy` for that reason.  In the
components, a definition
that a comment introduces as a *variant* is a plausible mistake in the
definition that follows it; the specification does not use variants.  They show
that the properties notice such a mistake.

### PolicyEngine
A relation of the code is a field of a record, because one session, tool,
resource and scope are asked about at a time; scores are percentages.
`Compile` is `compile_policy_facts` with its defaults (an absent score is 1.0
or 0.0 by whether a recipe is known; an absent trust score is no row).  A recipe
is known (`RecipeKnown`) when the caller names its id or the context path has a
second element; whether there is a path at all (`HasPath`) is another question,
and the default of the snapshot flag.  `HardDenyFires`
and `PathRuleFires` are the rules of the Cozo program, `Precedence` its table,
`Effective` the max-precedence query, `EvaluateWithCozo` the one action: it
answers, or raises `RuntimeError` when the winner is not unique.  `PyRule` is
the Python ladder.  `GatewayContext` is what `run_authorize` passes, with the
score of either graph backend.

### AuthorizationChecks
One action per access to a shared dictionary, because the service has no lock
and threads switch anywhere: `Evaluate`, `Insert`, `Publish` are `create`;
`Get`, `ExpireIfNeeded`, `FactsCompiled`, `PolicyEvaluating`, `Decide`,
`Settle` are `evaluate`; `Answer` is the `decision_for` that `run_authorize`
does next.  `Age` lets `expires_at` pass.  A thread keeps its own copy of a
record, as the code does, and `_transition` stores the whole copy.
`VerdictCache` is what the service promises: a verdict per key, decided at most
once and repeated for ever.

### SessionEvents
An append is three statements: the latest hash, the next order, the INSERT.  A
hash is the position of the hashed content among everything hashed, which makes
`stable_hash` collision free and the seeded events, whose ids are fixed, hash
as before when they are linked as before.  `created_at` has whole seconds, so
among events of equal order any is the latest.

### AccessGrants
The demo session.  A permission stands for a tool with its resource; its
scope's approval mode is fixed.  `ToolCall`, `Authorize`, `Anticipate`,
`Approve` and `Reseed` start a handler; each later action is one statement.
`Fetch` and `Assign` are `InMemoryGraph.reload`.  `Fail` is an exception in any
statement of a handler.  `executed` counts the calls a grant paid for.
Provenance columns of a request are in `RequestProvenance`.

`Init` is what `lifespan` leaves: no request, the one grant of `seed_demo`, a
graph in step.  `DeleteRequests` ... `InsertSeedGrant` are the statements of
`seed_demo` on these tables, in their order, beside whatever other handlers do;
a sync follows.  Requests go before grants and grants before the session, so for
a while grants name requests that are gone, and a session has neither.  A
deleted row stays in its variable and its id joins `gone`: no query returns it,
but a handler that read it goes on with what it read.  An UPDATE by id finds
the row that has the id now; ids are uuids except that of the seeded grant, so
a call that selected the seeded grant may be charged to the one that a reseed
has put in its place (`SameId`, `RowsFound`).  Where the tables are half empty
the code denies or raises; the model allows that (`Fail`) and also lets the
handler go on, which is more than the code does.  `Restart` ends every handler
and leaves what `Init` describes, because `lifespan` reseeds before it serves.
`/admin/sync` alone is a handler that fails after its `Assign`.

`GrantLedger` is what the tables promise once statements, threads, the derived
graph and the session's status are forgotten: requests are asked and approved,
grants issued (freely, seeded, or for an approved request), expired, and a call
chooses a grant, pays, and is executed or abandoned.  A reseed revokes requests
and grants (`RevokeRequests`, `RevokeGrants`): no call chooses a revoked grant,
but what is at work on one is finished, and charged to a grant of the same
permission.  `Restart` begins anew.  The mapping, at the end of
`AccessGrants`, shows it the two tables, what is gone, and as its
`call` the event loop's between `select` and `execute`, the only handler that
chooses and pays.  A handler that fails after it has paid is an `Abandon`: a
payment may be lost, an execution is never unpaid.

### GraphSync
`Clear`, `MergeLayer`, `MergeResources`, `MergeGrant`, `MergeDone` are
`sync_to_memgraph`; a loop over one table's rows is a step, except for the
grants.  `SyncFails` is the fallback in the middle of a rebuild, `Probe` the
global `_backend`, `Read` is `authorize_context` on whichever backend the name
says by then.

### CredentialLease
`Decide` (the decision row) to `Execute`, one action per statement of
`mint_gateway_credential_lease`.  `Mint` covers every outcome of the readiness
probe; `Resolve`, `SignIn`, `Retry` every outcome of `op`: success, an error a
sign-in may mend, any other error, a timeout, no executable.  Each call has a
broker of its own, so lease, decision and issue rows are named by the call.
`injected` counts the runs of `op` that succeeded: one that times out
(`onepassword_provider.py:115`) blocks the call, but may have handed the secret
to its child before it was stopped, which no record shows.
`DeleteIssues` ... `InsertBindings` are `seed_demo` as far as these tables go;
`Issue` stands for whatever issues grants (`AccessGrants`).  The broker's
refusals of a wrong session, tool, scope, resource or boundary cannot occur in
the gateway, which presents the lease it has just minted; they are left out.  `overlapped` is history: the calls a reseed was under way in.

### RequestProvenance
One permission of one session, because every statement selects by session, tool
and resource.  `MarkSelect` and `MarkUpdate` are
`mark_access_request_tool_call_seen`; `FindPending`, `UpdateFound` and
`InsertRequest` are `create_access_request`, with its four merge rules in
`Merged`; `MarkApproved` is the approval, which may hit a row between the two.
`Decide` escalates or not, whatever the policy says: grants are in
`AccessGrants`.  `auth.request_scope` is an `Authorize` on the event loop.

### Delegation
A user stands for a user in a team, which the code always compares together.
`Create` ... `IssueToken` are `create_delegated_session`, `Mint` the minting of
another token, `RestCall` and `McpCall` the arrival of a call with any token
ever issued or none.  `VerifyToken` is `resolve_delegation_token` up to its
delegation, `Legacy` the check without a token, `OwnSession` the reads of
`app.py` and of `run_preflight` and `run_authorize`.  Each read of `sessions` or `delegations` is a step; comparing what was read,
and the claims with the request, touches nothing shared and goes with it.  `Fail` is every exception, also the
registry's refusals and timeouts and an expired token, which may occur at any
statement.  `Reseed` ... are `seed_demo` as far as these tables go.

### ContextRecords
The facts of a snapshot are a key, which the idempotency key of the check is
made of, and a rest (trust, delegation and the like) that it leaves out.
`Evaluate` uses the check service as `AuthorizationChecks` describes it: the
answer is a decision on these facts, or one remembered for the same key.
`SaveSnapshot`, `PutRow` (a node or an edge, an UPSERT each), `SaveDecision`
and `AttachDecision` are statements; `ShownNodes` and `ShownEdges` are
`list_context_graph`.  `Propose`, `DeleteProposal` and `InsertProposal` are the
learning worker; `Reseed` ... `DeleteDecisions` the reseed.

## 3. Runs

| Run | Module | Instance | Shows |
|---|---|---|---|
| `policy_engine` | MCPolicy | 68,098 states | one winner; what executes is delegated, on the team, of a known recipe, predicted, reified, at the threshold and free of violations, and lacks a context path only without a snapshot and a grant; what auto-approval reaches; a grant ends escalation; losing a fact never helps; the ladder agrees above the threshold |
| `checks` | MCChecks | 2 threads, 2 keys, 2 checks, 3 decisions (2,960,000 states) | index, records and answers stay in order; while no two threads have been at work at once, answers match their checks, terminal states are final, a key has one check, and the service implements `VerdictCache` |
| `events_chain` | MCSessionEvents | 3 writers, 2 sessions, 4 hashes, 2 reseeds | links stay in their session; predecessors come first until a reseed; linear while nobody races |
| `events_fork` | MCSessionEvents | 2 writers | *violated*: the chain forks |
| `grants_concurrent` | MCGrants | event loop and 1 worker, 2 permissions, 3 grants, 2 requests, failures, reseeds, restarts (1,674,000 states) | no grant overspent; humans approve; one grant per approval; the handlers implement `GrantLedger` |
| `grants_serial` | MCGrants | one thread, handlers run to their end, 3 grants, 3 requests, no failure or reseed (767,000 states) | requests, status and grants in step; approvals lead to grants |
| `graph_sync` | MCGraphSync | 2 threads, 1 session, 2 resources | no grant made up; uninterrupted requests see complete and current facts |
| `graph_exact` | MCGraphSync | 1 thread, 2 sessions, 2 resources | *violated*: a grant the session never had |
| `provenance` | MCProvenance | event loop, 2 workers, 4 requests, 3 seconds (378,000 states) | the provenance columns agree; the first call's time is written once |
| `delegation` | MCDelegation | event loop, 2 workers, 2 sessions, 2 users, 2 agents, tokens optional (725,000 states) | whom a served call acts for; sessions and delegations agree; tokens stand for delegations |
| `context_records` | MCContextRecords | 2 threads, 2 sessions, 2 snapshots, 2 decisions, a reseed (1,130,000 states) | decisions and snapshots lead to each other; the graph hangs together; proposals are not lost |
| `lease` | MCLease | 2 calls, 3 permissions, reseeds, restarts, every `op` outcome | leases, injections, executions and issues fit each other |

### Bounds, and why they are enough
* `Contexts` of `MCPolicy`: two slices of the space, through the facts that the
  hard denies read and through those the approval paths read, the others at the
  values that let the paths fire, plus everything the gateway can pass from
  Memgraph and its demo call from the in-process graph.  The paths have no, one
  or enough elements, with and without a recipe id of the caller's.  Numbers take the values next to the thresholds.  The proofs cover
  all contexts and thresholds.
* `RoomForAnother` (checks, provenance), `RoomFor` (grants), `RoomForSnapshot`: a
  row is free for every handler that may insert.  Two checks are enough for two
  of one key.  Three grants are the seeded one and two more, of one permission
  or of two, or the seeded one and those of two reseeds; two requests are
  two of one permission or one that a reseed has deleted and one after it.
* `MaxHashes`, `MaxReseeds` (events): three writers in one append each and a
  reseed with its two seeded events fit; a fork takes two, a lost predecessor
  three.
* `MaxSecond` (grants, provenance): two or three seconds tell equal `created_at`
  from different ones.  `grants_concurrent` has one second: any live grant of the
  permission may then be the newest, which allows every choice that more seconds
  would.
* `HumanCalls` is 2 where the code has 5: a grant with a call left after one;
  `SeedCalls` is 1 where the code has 10: a grant that one call uses up, so that
  a charge to the wrong row shows.
* `Calls` (leases): one call runs at a time and rows are named by call; two
  calls are a finished one and a running one.
* `MaxWriters`, `MaxCalls`, `MaxBusy` (delegation): three handlers that write
  (create, mint, reseed), so that a session can be created, deleted and created
  anew while a token of the first is still good; one call at work, since calls
  change nothing and do not see each other; two handlers at work at once.  The
  proofs have no such bounds.
* `MaxReseeds`, `MCNext` (context records): one reseed.  Once it has run beside
  another handler or was cut off, nothing is claimed and the search ends
  (`torn`); `HistorySpec`, of which the theorems are, goes on.  Two snapshots are one session's two or one each of two sessions;
  `Named` and `Links` draw one recipe and one tool, enough for a node a session
  shares, a node it does not, and edges that touch either.  Proposals are made
  from one session, for no property tells them apart.
* Symmetry is only used for runs without liveness properties and over values
  the module treats alike.
* `CHECK_DEADLOCK FALSE`: `policy_engine` decides once and stops; in the other
  runs that say so the rows, writers or reseeds of the instance run out.

### Fairness
Only `ApprovalIssuesGrant` needs any.  `ReliableSpec` has no exception, no reseed
and no restart and is weakly fair in the steps of a handler, which are
straight-line code of a thread that nothing blocks: a server that stays up runs
them.  No arrival of a call or an approval is fair.  With exceptions the
property fails: the status is set before the grant is inserted
(`dolt_store.py:1112`), and an INSERT that raises leaves an approved request
that a retry will not repair.  A process that stops in between leaves nothing of
the kind, because the next start deletes the request.  All other specifications are safety only.

## 4. What the runs say about the code

Disagreements between the code and its documents, with a run each (quoted in
`PROJECT.json`):
* `events_fork`: two concurrent appends link to one event or share an order.
* `graph_exact`: `GRANTED` ends at the scope and `APPLIES_TO` starts there, so
  grants for different resources of a scope combine.

Observations without a run of their own:
* A caller of `decide` that names a `recipe_id`, passes no `context_path` and
  claims no snapshot is approved automatically: `auto_approve_recipe_scope`
  (`cozo_policy.py:305`) does not ask for `memory_consistent`, as the rules of
  the grant and of the human do, and `deny_missing_context_path` fires only when
  a snapshot is claimed.  The gateway always claims a snapshot; `ExecutableIsEarned`
  says what is left for other callers.
* An approval whose INSERT of the grant raises leaves an approved request without
  a grant, and a retry is told that it is already approved
  (`dolt_store.py:1104`), until a reseed deletes it.
* The in-process graph scores the seeded goal at 0.6 (`graph_fallback.py:124`),
  below the 0.82 the rules ask for, so the demo call is denied without Memgraph,
  although `README.md:136` of the repository says the fallback keeps the demo
  runnable.
* Two threads that ask with one idempotency key get two checks
  (`authorization_checks.py:51`), although RFC-03 (line 143) says repeated
  requests return the same check record; `OneCheckPerKeyAlone` holds one at a
  time only.
* A pending request that a tool call has made becomes an anticipated one,
  "created before the tool call", when a later preflight finds it
  (`dolt_store.py:986`): its three columns agree, as proved, but on a story the
  order of events does not bear out.
* Two overlapping handlers write `first_tool_call_at` one after the other: the
  UPDATE does not repeat the `IS NULL` of its SELECT (`dolt_store.py:1185`).
  `FirstCallIsKeptAlone` holds one at a time.
* `auth.request_scope` sets `first_tool_call_at` though no tool was called, and
  a tool call marks only the oldest request that has seen none.
* A creation that fails between `INSERT INTO sessions` and `INSERT INTO
  delegations` leaves a session for which no token can be minted and whose id
  cannot be used again until a reseed (`agentic_identity/service.py:42`).
* The reads of a call compare user and agent with the session separately.  A
  reseed and a new session of that name in between let a call run for a session
  of another user than its claims name; the read-only operations of `/mcp` with
  a token never compare the agent with the session record at all.
* A decision remembered for a key is recorded under the new snapshot, whose
  facts outside the key may differ from those it was made on
  (`gateway_service.py:523`); replaying a decision from its snapshot, as
  `INITIAL_ROUGH_PLAN.md:399` asks, is then not exact.
* Context graph nodes are shared by all sessions and belong to whoever wrote
  them last (`dolt_store.py:754`), so `list_context_graph` may hide from a
  session its own edges between two shared nodes other than recipes.
* A proposal has one id for all sessions of a goal class: the last one's
  evidence replaces the others' (`person_b/learning_worker.py:43`).
* `deny_external_write` does not fire between the two trust bounds, where an
  unpredicted external write is escalated (`cozo_policy.py:205`); trust that is
  lowered can therefore turn a denial into an escalation.
* The Python ladder does not look at the similarity score
  (`cozo_policy.py:606`) and `decide` never calls it: an engine error is an
  error of the request (`cozo_policy.py:511`).
* A check whose evaluation raises stays in `policy_evaluating`, later expires
  without a decision, and from then on its key is refused with a `ValueError`.
* Once two threads have been at work at once the four properties of the checks
  whose names end in `Alone` fail, and under event loop and worker
  `OnePendingRequest`, `WaitingHasSomethingToApprove` and
  `NoEscalationWhileGranted`; this is why the former say `raced` and the latter
  have a serial run.  `OneGrantPerApproval` fails with two approvers.
* After a reseed an append may link to an event that is gone.
* An approval that a reseed overtakes issues its grant all the same, for a
  request that is gone, and its `UPDATE` of the session makes the seeded one
  active.
* A reseed during a call hides the credential binding, and the call executes
  without a lease; `app.py:198` calls a reseed safe between demo runs.
* A call whose credential cannot be resolved has already spent a call of its
  grant, and leaves its lease row `minted` with a use left.

## 5. Proofs

All theorems hold for every value of the constants under the named assumptions
of the modules (which TLC evaluates in every run).  Where a theorem needs more
than that, this says so.  Every inductive invariant was checked by TLC on the
run of its component before it was proved.

### PolicyAndProvenanceProofs: the policy engine
`PolicyAssumption`: thresholds are percentages, the sensitive bound is not below
the minimum.  `DecideAnswers`: some candidate always fires and precedences of
rules that can fire together differ, so the effective decision is unique; from
it `PolicyTypeCorrect` and `NeverRaises`.  Invariant: the answer is an effective row
of the compiled context.  The rest argues from that winner:
* `OnlyEarnedCallsExecute`, `AutoApprovalBounded`, `GrantsEndEscalation`: a hard
  deny outranks every path, so none fires when a path wins, and of the paths
  only the escalation of barely trusted external writes outranks a grant.
* `FallbackAgrees`: the Python ladder names the winner.  The context is split by
  whether the path is reified, since the rules that can fire are others then.
* `LosingFactsCannotHelp` compares the winners of a context and of a weaker one
  by rank.  It assumes `TRUST_SCORE_MIN > 0`, which the code does not enforce:
  `config.py:21` reads it from the environment.  At 0 no agent is below the
  minimum, so an untrusted external write is escalated, no longer denied, and
  the claim is false: the theorem says where it stops.

### PolicyAndProvenanceProofs: where requests came from
Any number of workers and requests, failures anywhere.  That the three columns
agree (`ProvenanceAgrees`) needs only that every handler knows the kind of caller
it serves, because `Merged` keeps the agreement of whatever row it finds.  That a
first call is kept (`FirstCallKept`) needs that only one handler is at work, so
a row that `MarkSelect` found without a call is still without one when
`MarkUpdate` writes it.

### AuthorizationChecksProofs
Any number of threads, keys, checks.  The invariant adds to the properties what
a thread relies on between two steps: its copy is of the record it names and of
the key it asked about, may be out of date, but is consistent in itself; records
never disappear (`Grows`).  Storing a consistent copy keeps the dictionaries in
order, whoever's it is.

`SerialInvariant` is for as long as no two requests have been at work at once.
By then (`Alone`) the copy at work *is* the record, it is the one the index
names, and a verdict on file is that of its record or about to be.  From it
`SerialAnswersMatch`, `SerialOneCheckPerKey`, `SerialTerminalIsFinal` and
`SerialServiceIsCache`, the refinement of `VerdictCache`: under the mapping of
`MCChecks` every step of a request at work alone is a step of the cache or a
stutter, because `Decide` is the only one that files a verdict and finds none
filed for the key, and `Answer` repeats what is filed.

### SessionEventsProofs
Any writers, sessions and bounds.  `PredecessorsComeFirst`: until a reseed the
hash a writer holds is that of a row, and the order it reads afterwards is
greater than that row's, because rows are only added and a session with rows
has one of greatest order.  `LinksNeverLeaveSession` holds beyond reseeds: a row
may go, what was hashed stays (`HashesKept`), so a link is to something hashed
in the session (`LinkInv`).  `SerialChainsAreLinear`: one writer at a time holds
the end of its session's chain (`HoldsEnd`), which nobody else moves.

### AccessGrantsProofs
Any number of workers, grants, requests and calls per grant; failures, reseeds
and restarts anywhere.
* `ExecutionsArePaidFor`: the budget adds the call that was consumed but not yet
  executed; it is inductive because only the event loop consumes, so every row
  its UPDATE may find still has calls (`ThreadOK`): the row it selected, since
  nobody else spent from it, or one that a reseed inserted under its id, since
  that one is fresh.  For the latter the seeded rows are all of one permission
  and at most one of them is not gone (`SeedsOK`).
* `HumansApprove`: a handler about to insert a human's grant holds an approved
  request of its permission.

The others name the overlap that breaks them, as a condition on the behaviour
(`Spec /\ []Condition => []Property`), and no other; all states in which one
handler is at work satisfy these conditions, and many more.
* `ApprovalIssuesOnce`: no two approvals of one request overlap
  (`OneWorkerApprovesOnce`: one worker is enough).  A request with a grant is
  approved, so it is not taken up again, and an approval before its INSERT has
  issued nothing.
* `AskingFindsPending`: no two threads are between the SELECT and the INSERT of
  `create_access_request` for one permission.  Who is about to insert has seen
  that nothing is pending, and nobody else has added it since.
* `DecisionsAreFresh`, `WaitingIsForSomething`: handlers do not overlap; the
  latter also needs a server that stays up and is not reseeded (`ReliableSpec`),
  since an approval cut off before it makes the session active leaves it waiting
  for nothing.
* `OneThreadServer`: a server with one thread meets all of these.
* `ApprovalsGoOn` is the safety half of `ApprovalIssuesGrant`, for any number of
  workers: while the server stays up, an approved request has its grant or a
  handler about to insert it.

* `HandlersKeepLedger`, the refinement of `GrantLedger`, for any number of
  threads and with a failure, a reseed or a restart between any two statements.
  `LedgerInv` adds what the ledger sees and `IInv` does not say: a row of no
  grant is blank, only an approval names a request, and whoever is about to ask
  for a human asks for a permission that needs one (`Asking`). Then each
  statement is looked up: `Asks`, `Approves`, `Issues`, `Chooses`, `Pays`,
  `Executes`, `Expires` are steps of the ledger, an INSERT of the seeded grant
  is its `Seed`, the DELETEs revoke, a restart restarts, approving anew what is
  approved is a stutter, and so is every statement that leaves both tables and
  the event loop's call alone (`WorkKept`). No condition on overlaps is needed.
  The ledger lets two approvals of one request issue two grants, as the code
  does: that is what `OneGrantPerApproval` adds.
* `LedgerPromises` says what the ledger is worth, from its own steps and in
  variables of its own: calls left, spent and paid for stay within what was
  issued, a human agreed to every grant that needs it, and a call is at work on
  a grant of its own permission.  The invariant (`BookInv`) adds that a blank
  row is no grant and that a call at work has one.

### GraphSyncProofs
Any number of threads.  `NothingInvented`: every edge, in-process row and row
still in a rebuild's hands comes from a grant there once was; so does every fact
read.  `UninterruptedProgress` follows a request that nobody interrupts through
its rebuild, on whatever graph it found: which layers are merged by each step
(`Merged`), which grants are drawn, that no edge is left from before, and, if
Memgraph fails on the way, that the rows in process are those of Dolt.  So
(`Whole`) what it reads is a copy of Dolt: `UninterruptedFacts`,
`UninterruptedSeesGrants`.  `UninterruptedReads` says exactly which grants it
sees: in process the live ones; in Memgraph also a triple whose session has a
grant in the scope while somebody has one in it for the resource.  The finding
of `graph_exact` is therefore the only way in which the backends differ.

### CredentialLeaseProofs
`LeaseAssumption`.  The invariant follows the running call: which rows its lease
has at each statement, how often its secret was injected, what a call can count
on that no reseed overlaps, and that a reseed under way has been noted.  It
gives the type, the properties of leases and issues, and both action properties.

### DelegationProofs
Any number of threads, sessions, users, agents, tokens and writers.  What a call
has checked (`Checked`) stays true while no reseed overlaps it, because sessions
and delegations are only ever added, never changed, by anything else
(`RowsAreKept`).  `Written` says likewise that the session a handler has
inserted still names its user and agent when it inserts the delegation; so every
delegation equals its session (`Delegates`), and a token is made from a row that
a delegation was seen to match.

### ContextRecordsProofs
Any number of threads, sessions, facts, nodes, links and reseeds
(`RecordsAssumption`).  `RecordsInv` has three cases.  Either a reseed got in the
way of a handler (`torn`), and nothing is claimed; or one is alone at work, and
has erased what comes before its statement (`Erased`), so that it ends with
empty tables; or none is, and the records are in order (`Recorded`): a handler's
snapshot is as it saved it, and no decision but its own names it (`Holds`); an
edge still to be drawn has ends that are drawn or come first (`Draws`).  From it
`DecisionsDocumented`, `SnapshotsDocumented`, `GraphWhole`.  `ProposalKept` needs
none of this: `learned` is reset by whatever takes the proposal away for good.
The theorems are about `HistorySpec`; `InstancesAreHistories` carries them over
to the instance, whose `MCNext` only adds bounds.

### What stays with TLC
`ApprovalIssuesGrant` alone: it is liveness, which this prover does not reach
(nor ENABLED, inductions over data and recursive operators; no model here has
any of these).  Every safety property that a passing run checks is a theorem.
`ChainIsLinear` and `SeenGrantIsLive`, of the two runs that refute them, are
proved under the conditions that restore them: `SerialChainsAreLinear`,
`UninterruptedReads`.

## 6. Not modelled

* The hook adapter: it classifies one intent by regular expressions over the
  text of a command or path and keeps no state.  What could be wrong with it is
  in the strings, which these models abstract from.
* The recipe search and its ranking, and with it `save_recipe_hits`: which
  recipes match is an input of the models.
* Leases of several uses and the broker's other callers: the gateway mints
  leases of one use and presents them itself.
* Redaction, argument validation, the views for listing tools and records,
  JSON-RPC dispatch: text processing and queries that change no state.
* Secret values, prompts and payloads, proof hashes, token signatures; the
  failures of Memgraph, Dolt and the agent registry beyond a statement that
  raises.
* `demo/rebac.py`, a stand-alone example the platform does not use; consoles,
  bridges, installers and demo scripts, which are clients.

## 7. Plan

Done, in this order: policy engine; checks with the abstract cache; events;
grants; graph; leases; the provenance of requests; delegation; the records that
explain a decision; the ledger of grants; the theorems above.  Next:

1. that a tool call pays once, from `GrantLedger` and `CredentialLease`
   together: a lease stands for a call that a grant has paid for;
2. `run_authorize` composed of check, grants and graph for one key, which would
   show the promise made to an agent as a whole; its state space is the product
   of theirs and needs coarser steps than the modules have.
