---------------------------- MODULE AccessGrants ----------------------------
(***************************************************************************)
(* The demo session's access requests and grants, from the tool call that  *)
(* needs one to the call that spends it: platform/dolt_store.py under      *)
(* run_authorize (gateway_service.py) and handle_tool_call                 *)
(* (mcp/handlers.py).  Each SQL statement autocommits and is one step, so  *)
(* handlers interleave between statements, and an exception between two    *)
(* leaves the first one's effect behind.  So do the statements of          *)
(* seed_demo, which /admin/reseed runs beside the other handlers and every *)
(* start of the process (app.py) before it serves any.                     *)
(*                                                                         *)
(* A deleted row stays in its variable as a record of the past: its id is  *)
(* in gone, no query sees it, and an UPDATE that no longer finds it is     *)
(* noted on it.  Ids are uuids, never used again, but for the one of the   *)
(* seeded grant; here each seeded row has an id of its own and SameId says *)
(* which rows an UPDATE takes for one.                                     *)
(*                                                                         *)
(* Loop is the event-loop thread, the only one that serves /mcp and so the *)
(* only one that consumes grants; Workers serve the REST handlers (with    *)
(* Workers = {Loop} one thread serves it all, one request at a time).  The *)
(* graph is the in-process one: reload() reads the live grants and then    *)
(* replaces what every thread sees.  A permission is a tool with a         *)
(* resource; its approval mode is fixed.  The idempotency key holds        *)
(* grant_present, so a remembered decision is the one made afresh.         *)
(***************************************************************************)
EXTENDS Naturals, FiniteSets

CONSTANTS Loop, Workers,
          Perms, HumanPerms,      \* the permissions, those of human_required
          GrantIds, RequestIds,
          None,                   \* no permission, grant or request
          SeedPerm,               \* the permission of the seeded grant
          HumanCalls, AutoCalls,  \* calls of a grant: 5 and 1 in the code,
          SeedCalls,              \* and 10 for the seeded one
          MaxSecond               \* bound of the instance: the clock

Threads == {Loop} \cup Workers

ASSUME GrantsAssumption ==
  /\ HumanPerms \subseteq Perms /\ SeedPerm \in Perms \ HumanPerms
  /\ None \notin Perms \cup GrantIds \cup RequestIds
  /\ GrantIds \cap RequestIds = {}
  /\ HumanCalls \in Nat \ {0} /\ AutoCalls \in Nat \ {0}
  /\ SeedCalls \in Nat \ {0} /\ MaxSecond \in Nat

Grant ==
  [ perm : Perms \cup {None},
    issuer : {"none", "seed", "policy:auto_approve", "human"},
    request : RequestIds \cup {None}, calls : Nat, executed : Nat,
    expired : BOOLEAN ]

Request == [ perm : Perms \cup {None}, status : {"none", "pending", "approved"} ]

NewGrant(perm, issuer, request, calls) ==
  [ perm |-> perm, issuer |-> issuer, request |-> request, calls |-> calls,
    executed |-> 0, expired |-> FALSE ]
NoGrant == NewGrant(None, "none", None, 0)
NoRequest == [ perm |-> None, status |-> "none" ]

SeedGrant == NewGrant(SeedPerm, "seed", None, SeedCalls)

Idle == [ op |-> "none", perm |-> None, rows |-> {}, grant |-> None,
          request |-> None, issued |-> FALSE ]

VARIABLES grants,    \* table grants; executed counts tool_call_executed events
          requests,  \* table access_requests
          gone,      \* the rows of both that a reseed has deleted
          status,    \* sessions.status ("active" also for delegated),
                     \* "missing" while there is no row
          graph,     \* the grant rows in the graph's data
          created,   \* the second of each grant's created_at
          second,    \* the latest of them
          pc, loc    \* each thread's next statement and local variables

vars == <<grants, requests, gone, status, graph, created, second, pc, loc>>

(* What lifespan leaves: the tables as seed_demo fills them, of a session  *)
(* that somebody has delegated, and a graph in step with them.             *)
SeededWith(g) == [h \in GrantIds |-> IF h = g THEN SeedGrant ELSE NoGrant]
NoRequests == [r \in RequestIds |-> NoRequest]
AllIdle == [t \in Threads |-> "idle"]
NotCreated == [g \in GrantIds |-> 0]
NoLocals == [t \in Threads |-> Idle]

Init ==
  /\ \E g \in GrantIds : grants = SeededWith(g) /\ graph = {g}
  /\ requests = NoRequests /\ gone = {}
  /\ status = "active"
  /\ created = NotCreated /\ second = 0
  /\ pc = AllIdle /\ loc = NoLocals

-----------------------------------------------------------------------------
Goto(t, label) == pc' = [pc EXCEPT ![t] = label]

Return(t) ==
  /\ Goto(t, "idle")
  /\ loc' = [loc EXCEPT ![t] = Idle]

Keep == UNCHANGED loc

(* Bound of the instance: rows are left for every handler that may insert. *)
Issuers == {"call", "authorize", "approve", "reseed"}
Askers == {"call", "authorize", "anticipate"}

RoomFor(op) ==
  /\ op \in Issuers =>
       Cardinality({g \in GrantIds : grants[g] = NoGrant})
         > Cardinality({t \in Threads : loc[t].op \in Issuers})
  /\ op \in Askers =>
       Cardinality({r \in RequestIds : requests[r] = NoRequest})
         > Cardinality({t \in Threads : loc[t].op \in Askers})

Start(t, op, p, r, label) ==
  /\ pc[t] = "idle" /\ RoomFor(op)
  /\ loc' = [loc EXCEPT ![t] = [Idle EXCEPT !.op = op, !.perm = p, !.request = r]]
  /\ Goto(t, label)
  /\ UNCHANGED <<grants, requests, gone, status, graph, created, second>>

(* Variant of Active: the remaining calls are not looked at.               *)
ActiveUntilExpiry(g) ==
  grants[g].issuer # "none" /\ g \notin gone /\ ~grants[g].expired

(* grant_row_is_active, and the WHERE clause of every query for live rows. *)
Active(g) ==
  /\ grants[g].issuer # "none" /\ g \notin gone
  /\ grants[g].calls > 0 /\ ~grants[g].expired

(* Variant of LiveFor: the query is for the session's grants only.         *)
LiveForSession(p) == {g \in GrantIds : Active(g)}

LiveFor(p) == {g \in GrantIds : Active(g) /\ grants[g].perm = p}

(* ORDER BY created_at DESC LIMIT 1: any of the rows of the latest second. *)
Newest(ids) == {g \in ids : \A h \in ids : created[h] <= created[g]}

(* Variant of ToolCall: the graph left by the last sync is good enough.    *)
ToolCallWithoutSync(p) == status # "missing" /\ Start(Loop, "call", p, None, "decide")

(* handle_tool_call of a downstream tool, and authorize alone: the REST    *)
(* endpoint or auth.request_scope.  Without the session's row it raises.   *)
ToolCall(p) == status # "missing" /\ Start(Loop, "call", p, None, "fetch")
Authorize(t, p) == status # "missing" /\ Start(t, "authorize", p, None, "fetch")

(* run_preflight, for one scope that the matched recipe says needs a human.*)
Anticipate(t, p) ==
  /\ p \in HumanPerms /\ status # "missing"
  /\ Start(t, "anticipate", p, None, "fetch")

(* Variant of Approve: an approved request can be approved again.          *)
ApproveAgain(t, r) ==
  /\ t \in Workers
  /\ requests[r] # NoRequest /\ r \notin gone
  /\ Start(t, "approve", requests[r].perm, r, "approve")

(* approve_access_request: the SELECT; an approved request is left alone.  *)
Approve(t, r) ==
  /\ t \in Workers
  /\ requests[r].status = "pending" /\ r \notin gone
  /\ Start(t, "approve", requests[r].perm, r, "approve")

(* sync_graph: fetch_all_for_sync, and then the assignment of self.data.   *)
Fetch(t) ==
  /\ pc[t] = "fetch"
  /\ loc' = [loc EXCEPT ![t].rows = {g \in GrantIds : Active(g)}]
  /\ Goto(t, "assign")
  /\ UNCHANGED <<grants, requests, gone, status, graph, created, second>>

(* What follows a sync: authorize_context, or whatever comes after the one *)
(* that follows an INSERT of a grant.                                      *)
AfterSync(t) ==
  IF loc[t].issued
  THEN IF loc[t].op = "call"
       THEN Goto(t, "select") /\ loc' = [loc EXCEPT ![t].rows = {}]
       ELSE Return(t)
  ELSE /\ Goto(t, IF loc[t].op = "anticipate" THEN "find" ELSE "decide")
       /\ loc' = [loc EXCEPT ![t].rows = {}]

Assign(t) ==
  /\ pc[t] = "assign"
  /\ graph' = loc[t].rows
  /\ AfterSync(t)
  /\ UNCHANGED <<grants, requests, gone, status, created, second>>

(* After a grant was issued a failing sync is swallowed.                   *)
SyncFails(t) ==
  /\ pc[t] \in {"fetch", "assign"} /\ loc[t].issued
  /\ AfterSync(t)
  /\ UNCHANGED <<grants, requests, gone, status, graph, created, second>>

(* authorize_context and the policy: a grant in the graph is ALLOW, else   *)
(* the permission's approval mode decides.  REST is done after an ALLOW.   *)
GrantPresent(p) == \E g \in graph : grants[g].perm = p /\ ~grants[g].expired

DecideAllow(t) ==
  /\ pc[t] = "decide" /\ GrantPresent(loc[t].perm)
  /\ IF loc[t].op = "call" THEN Goto(t, "select") /\ Keep ELSE Return(t)
  /\ UNCHANGED <<grants, requests, gone, status, graph, created, second>>

DecideMode(t) ==
  /\ pc[t] = "decide" /\ ~GrantPresent(loc[t].perm)
  /\ Goto(t, IF loc[t].perm \in HumanPerms THEN "find" ELSE "issue")
  /\ Keep
  /\ UNCHANGED <<grants, requests, gone, status, graph, created, second>>

(* _insert_grant, under a fresh id.  created_at counts whole seconds.      *)
InsertGrant(t, issuer, calls) ==
  \E g \in GrantIds, s \in {second, second + 1} :
    /\ grants[g].issuer = "none" /\ s <= MaxSecond
    /\ grants' = [grants EXCEPT ![g] =
                    NewGrant(loc[t].perm, issuer, loc[t].request, calls)]
    /\ created' = [created EXCEPT ![g] = s] /\ second' = s
    /\ loc' = [loc EXCEPT ![t].issued = TRUE]

IssueEphemeral(t) ==
  /\ pc[t] = "issue"
  /\ InsertGrant(t, "policy:auto_approve", AutoCalls)
  /\ Goto(t, "fetch")
  /\ UNCHANGED <<requests, gone, status, graph>>

(* Variant of FindPending: a pending request is not looked for.            *)
FindNothing(t) ==
  /\ pc[t] = "find"
  /\ Goto(t, "request")
  /\ Keep
  /\ UNCHANGED <<grants, requests, gone, status, graph, created, second>>

(* create_access_request: the SELECT of a pending request of this scope,   *)
(* tool and resource; the UPDATE of the one found touches nothing below.   *)
FindPending(t) ==
  /\ pc[t] = "find"
  /\ Goto(t, IF \E r \in RequestIds :
                  /\ requests[r] = [perm |-> loc[t].perm, status |-> "pending"]
                  /\ r \notin gone
             THEN "wait" ELSE "request")
  /\ Keep
  /\ UNCHANGED <<grants, requests, gone, status, graph, created, second>>

InsertRequest(t) ==
  /\ pc[t] = "request"
  /\ \E r \in RequestIds :
       /\ requests[r] = NoRequest
       /\ requests' = [requests EXCEPT ![r] =
                         [perm |-> loc[t].perm, status |-> "pending"]]
  /\ Goto(t, "wait")
  /\ Keep
  /\ UNCHANGED <<grants, gone, status, graph, created, second>>

(* UPDATE sessions: a row that a reseed has deleted is not found.          *)
SetStatus(new) == status' = IF status = "missing" THEN status ELSE new

WaitForHuman(t) ==
  /\ pc[t] = "wait"
  /\ SetStatus("waiting_for_human")
  /\ Return(t)
  /\ UNCHANGED <<grants, requests, gone, graph, created, second>>

(* Variants of MarkApproved: the status is left for the end of the         *)
(* approval, and the grant is left to a later request.                     *)
MarkNothingYet(t) ==
  /\ pc[t] = "approve"
  /\ Goto(t, "grant")
  /\ Keep
  /\ UNCHANGED <<grants, requests, gone, status, graph, created, second>>

MarkApprovedOnly(t) ==
  /\ pc[t] = "approve"
  /\ requests' = [requests EXCEPT ![loc[t].request].status = "approved"]
  /\ Goto(t, "activate")
  /\ Keep
  /\ UNCHANGED <<grants, gone, status, graph, created, second>>

MarkApproved(t) ==
  /\ pc[t] = "approve"
  /\ requests' = [requests EXCEPT ![loc[t].request].status = "approved"]
  /\ Goto(t, "grant")
  /\ Keep
  /\ UNCHANGED <<grants, gone, status, graph, created, second>>

IssueApproved(t) ==
  /\ pc[t] = "grant"
  /\ InsertGrant(t, "human", HumanCalls)
  /\ Goto(t, "activate")
  /\ UNCHANGED <<requests, gone, status, graph>>

(* Variant of Activate: the session goes on waiting.                       *)
ActivateNothing(t) ==
  /\ pc[t] = "activate"
  /\ Goto(t, "fetch")
  /\ Keep
  /\ UNCHANGED <<grants, requests, gone, status, graph, created, second>>

Activate(t) ==
  /\ pc[t] = "activate"
  /\ SetStatus("active")
  /\ Goto(t, "fetch")
  /\ Keep
  /\ UNCHANGED <<grants, requests, gone, graph, created, second>>

(* consume_grant_for_tool: the SELECT, without a row an error; the UPDATE  *)
(* by the id of the row found, which nobody looks at the outcome of.  It   *)
(* takes a call from the row that has the id by now, or from none.         *)
SelectGrant(t) ==
  /\ pc[t] = "select"
  /\ IF LiveFor(loc[t].perm) = {} THEN Return(t)
     ELSE \E g \in Newest(LiveFor(loc[t].perm)) :
            /\ loc' = [loc EXCEPT ![t].grant = g]
            /\ Goto(t, "consume")
  /\ UNCHANGED <<grants, requests, gone, status, graph, created, second>>

SameId(g, h) == g = h \/ (grants[g].issuer = "seed" /\ grants[h].issuer = "seed")

RowsFound(g) == {h \in GrantIds \ gone : SameId(g, h)}

ConsumeGrant(t) ==
  LET g == loc[t].grant IN
  /\ pc[t] = "consume"
  /\ \E h \in IF RowsFound(g) # {} THEN RowsFound(g) ELSE {g} :
       /\ grants' = IF grants[h].calls > 0
                    THEN [grants EXCEPT ![h].calls = @ - 1] ELSE grants
       /\ loc' = [loc EXCEPT ![t].grant = h]
  /\ Goto(t, "execute")
  /\ UNCHANGED <<requests, gone, status, graph, created, second>>

(* The credential lease and the downstream call; if either is refused, see *)
(* Fail, the call of the grant is gone.                                    *)
Execute(t) ==
  /\ pc[t] = "execute"
  /\ grants' = [grants EXCEPT ![loc[t].grant].executed = @ + 1]
  /\ Return(t)
  /\ UNCHANGED <<requests, gone, status, graph, created, second>>

(* An exception ends the handler where it is.                              *)
Fail(t) ==
  /\ pc[t] # "idle"
  /\ Return(t)
  /\ UNCHANGED <<grants, requests, gone, status, graph, created, second>>

(* seed_demo and then sync_graph, by /admin/reseed: the statements on the  *)
(* tables here, in their order among the others.  A row that another       *)
(* reseed has inserted is a duplicate key, which raises: see Fail.  What   *)
(* other handlers decide on half-empty tables is a denial or an error,     *)
(* which ends them as Fail does; here they may also go on, which is more   *)
(* than the code allows.                                                   *)
Reseed(t) == t \in Workers /\ Start(t, "reseed", SeedPerm, None, "delete requests")

DeleteRequests(t) ==
  /\ pc[t] = "delete requests"
  /\ gone' = gone \cup {r \in RequestIds : requests[r] # NoRequest}
  /\ Goto(t, "delete grants")
  /\ Keep
  /\ UNCHANGED <<grants, requests, status, graph, created, second>>

DeleteGrants(t) ==
  /\ pc[t] = "delete grants"
  /\ gone' = gone \cup {g \in GrantIds : grants[g].issuer # "none"}
  /\ Goto(t, "delete session")
  /\ Keep
  /\ UNCHANGED <<grants, requests, status, graph, created, second>>

DeleteSession(t) ==
  /\ pc[t] = "delete session"
  /\ status' = "missing"
  /\ Goto(t, "insert session")
  /\ Keep
  /\ UNCHANGED <<grants, requests, gone, graph, created, second>>

InsertSession(t) ==
  /\ pc[t] = "insert session" /\ status = "missing"
  /\ status' = "active"
  /\ Goto(t, "insert grant")
  /\ Keep
  /\ UNCHANGED <<grants, requests, gone, graph, created, second>>

InsertSeedGrant(t) ==
  /\ pc[t] = "insert grant"
  /\ \A g \in GrantIds : grants[g].issuer = "seed" => g \in gone
  /\ InsertGrant(t, "seed", SeedCalls)
  /\ Goto(t, "fetch")
  /\ UNCHANGED <<requests, gone, status, graph>>

(* The process stops and starts again: lifespan reseeds, on tables that    *)
(* nobody else uses, and builds the graph before a handler runs.           *)
Restart ==
  /\ \E g \in GrantIds : grants' = SeededWith(g) /\ graph' = {g}
  /\ requests' = NoRequests /\ gone' = {}
  /\ status' = "active"
  /\ created' = NotCreated /\ second' = 0
  /\ pc' = AllIdle /\ loc' = NoLocals

(* expires_at passes.                                                      *)
Expire(g) ==
  /\ grants[g].issuer # "none" /\ ~grants[g].expired
  /\ grants' = [grants EXCEPT ![g].expired = TRUE]
  /\ UNCHANGED <<requests, gone, status, graph, created, second, pc, loc>>

Handle(t) ==
  \/ Fetch(t) \/ Assign(t) \/ SyncFails(t) \/ DecideAllow(t) \/ DecideMode(t)
  \/ IssueEphemeral(t) \/ FindPending(t) \/ InsertRequest(t) \/ WaitForHuman(t)
  \/ MarkApproved(t) \/ IssueApproved(t) \/ Activate(t)
  \/ SelectGrant(t) \/ ConsumeGrant(t) \/ Execute(t)

Arrive ==
  \/ \E p \in Perms : ToolCall(p)
  \/ \E t \in Threads, p \in Perms : Authorize(t, p) \/ Anticipate(t, p)
  \/ \E t \in Workers, r \in RequestIds : Approve(t, r)

Reliable ==
  \/ Arrive
  \/ \E t \in Threads : Handle(t)
  \/ \E g \in GrantIds : Expire(g)

Reseeding(t) ==
  \/ Reseed(t) \/ DeleteRequests(t) \/ DeleteGrants(t) \/ DeleteSession(t)
  \/ InsertSession(t) \/ InsertSeedGrant(t)

Next == Reliable \/ (\E t \in Threads : Reseeding(t) \/ Fail(t)) \/ Restart

Spec == Init /\ [][Next]_vars

(* No exception, reseed or restart, and every handler runs to its end, as  *)
(* the threads of a server that stays up do.                               *)
ReliableSpec == Init /\ [][Reliable]_vars /\ \A t \in Threads : WF_vars(Handle(t))
-----------------------------------------------------------------------------
Labels ==
  { "idle", "fetch", "assign", "decide", "issue", "find", "request", "wait",
    "approve", "grant", "activate", "select", "consume", "execute",
    "delete requests", "delete grants", "delete session", "insert session",
    "insert grant" }

Locals ==
  [ op : {"none", "call", "authorize", "anticipate", "approve", "reseed"},
    perm : Perms \cup {None}, rows : SUBSET GrantIds, grant : GrantIds \cup {None},
    request : RequestIds \cup {None}, issued : BOOLEAN ]

(* Rows, the graph's data and every thread's variables are well formed; in *)
(* particular no grant's call count goes below zero.                       *)
TypeOK ==
  /\ grants \in [GrantIds -> Grant]
  /\ requests \in [RequestIds -> Request]
  /\ gone \subseteq GrantIds \cup RequestIds
  /\ status \in {"active", "waiting_for_human", "missing"}
  /\ graph \subseteq GrantIds
  /\ created \in [GrantIds -> Nat] /\ second \in Nat
  /\ pc \in [Threads -> Labels]
  /\ loc \in [Threads -> Locals]

Issued(g) ==
  CASE grants[g].issuer = "human" -> HumanCalls
    [] grants[g].issuer = "policy:auto_approve" -> AutoCalls
    [] grants[g].issuer = "seed" -> SeedCalls
    [] OTHER -> 0

(* The downstream tool runs under a grant at most as often as the grant    *)
(* was issued for, whatever the REST handlers do in between, wherever a    *)
(* handler fails and whichever rows a reseed deletes under it: the         *)
(* UPDATE's row count is ignored, so this rests on the event loop being    *)
(* the one consumer.                                                       *)
ExecutionsWithinGrant ==
  \A g \in GrantIds : grants[g].executed + grants[g].calls <= Issued(g)

(* A permission that needs a human is only ever granted, and so executed,  *)
(* for a request of that very permission which a human has approved; no    *)
(* failure between the statements of an approval breaks this.  A reseed    *)
(* may have deleted the request's row, before or after the approval.       *)
HumanCallsAreApproved ==
  \A g \in GrantIds :
    grants[g].issuer # "none" /\ grants[g].perm \in HumanPerms =>
      /\ grants[g].issuer = "human"
      /\ grants[g].request # None
      /\ requests[grants[g].request] =
           [perm |-> grants[g].perm, status |-> "approved"]

(* One approval issues one grant.  It takes approvals that are handled one *)
(* after the other: the status is read before it is written.               *)
OneGrantPerApproval ==
  \A g, h \in GrantIds :
    grants[g].request # None /\ grants[g].request = grants[h].request => g = h

(* A permission has one pending request at a time: asking again finds it.  *)
OnePendingRequest ==
  \A r, q \in RequestIds \ gone :
    /\ requests[r].status = "pending" /\ requests[q].status = "pending"
    /\ requests[r].perm = requests[q].perm
    => r = q

(* A session that waits for a human waits for a request that can still be  *)
(* approved: nothing else makes it active again.                           *)
WaitingHasSomethingToApprove ==
  (\A t \in Threads : pc[t] = "idle") /\ status = "waiting_for_human" =>
    \E r \in RequestIds \ gone : requests[r].status = "pending"

(* The facts of a decision are fresh: nobody is asked for, or issued, a    *)
(* grant that the session already has.                                     *)
NoEscalationWhileGranted ==
  \A t \in Threads :
    pc[t] \in {"find", "issue"} /\ loc[t].op # "anticipate" =>
      LiveFor(loc[t].perm) = {}

(* An approved request gets its grant: the two are separate statements, so *)
(* only a handler that is not cut off in between guarantees it.            *)
ApprovalIssuesGrant ==
  \A r \in RequestIds :
    requests[r].status = "approved" ~> \E g \in GrantIds : grants[g].request = r

(* Any number of handlers that interleave, fail, are reseeded under and    *)
(* are restarted do no more to requests and grants than the ledger allows, *)
(* step by step: the call at work is the event loop's between its SELECT   *)
(* of a grant and the execution.  Who approves, and on which copy of the   *)
(* graph a handler decides, does not show.                                 *)
Ledger == INSTANCE GrantLedger WITH
  call <- IF pc[Loop] \in {"consume", "execute"}
          THEN [ perm |-> loc[Loop].perm, grant |-> loc[Loop].grant,
                 paid |-> pc[Loop] = "execute" ]
          ELSE [ perm |-> None, grant |-> None, paid |-> FALSE ]

LedgerSpec == Ledger!Spec
=============================================================================
