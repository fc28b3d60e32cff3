----------------------------- MODULE Delegation -----------------------------
(***************************************************************************)
(* Agentic identity: sessions that a user delegates to an agent, the JWTs  *)
(* that prove it (platform/agentic_identity), and the checks a gateway     *)
(* call passes before it acts for a session (app.py, mcp/handlers.py,      *)
(* gateway_service.py).  Every SQL statement autocommits and is a step; a  *)
(* handler that raises, or that is cut off, leaves what it has written.    *)
(* Each handler reads the session several times while POST /admin/reseed   *)
(* may delete the tables and create the demo session anew.                 *)
(*                                                                         *)
(* A user stands for a user in a team.  The registry (the agents table, or *)
(* Agentic-IAM over HTTP) is external: whether it knows an agent, and      *)
(* vouches for it, may change between any two questions.  A token is what  *)
(* its claims say: signatures are trusted, and any token may have expired. *)
(***************************************************************************)
EXTENDS Naturals, FiniteSets

CONSTANTS Loop,          \* the event-loop thread, which serves /mcp
          Workers,       \* the threads of the REST handlers
          SessionIds, DemoSession,
          Users, DemoUser,
          Agents, DemoAgent,
          NoRow,         \* no row, no token
          TokenRequired, \* DELEGATION_JWT_REQUIRED
          MaxWriters,    \* bounds of the instance: handlers that create,
          MaxCalls,      \* mint or reseed, calls at work at once (they
          MaxBusy        \* change nothing), and handlers at work at once

Threads == {Loop} \cup Workers

Identity == [user : Users, agent : Agents]
Claims == [session : SessionIds, user : Users, agent : Agents]

ASSUME DelegationAssumption ==
  /\ DemoSession \in SessionIds /\ DemoUser \in Users /\ DemoAgent \in Agents
  /\ NoRow \notin Identity \cup Claims
  /\ TokenRequired \in BOOLEAN
  /\ MaxWriters \in Nat /\ MaxCalls \in Nat /\ MaxBusy \in Nat

VARIABLES sessions,     \* table sessions
          delegations,  \* table delegations
          seeded,       \* the users table has its rows
          tokens,       \* every token ever issued
          writers,      \* handlers started that create, mint or reseed
          pc, loc       \* each thread's next statement and local variables

tables == <<sessions, delegations, seeded, tokens, writers>>
vars == <<sessions, delegations, seeded, tokens, writers, pc, loc>>

ClaimsOf(s, row) == [session |-> s, user |-> row.user, agent |-> row.agent]
Demo == [user |-> DemoUser, agent |-> DemoAgent]
Idle == [op |-> "none", session |-> DemoSession, who |-> Demo,
         row |-> NoRow, token |-> NoRow]

Init ==
  /\ sessions = [s \in SessionIds |-> IF s = DemoSession THEN Demo ELSE NoRow]
  /\ delegations = sessions
  /\ seeded = TRUE
  /\ tokens = {}
  /\ writers = 0
  /\ pc = [t \in Threads |-> "idle"]
  /\ loc = [t \in Threads |-> Idle]

-----------------------------------------------------------------------------
Goto(t, label) == pc' = [pc EXCEPT ![t] = label]

Return(t) ==
  /\ Goto(t, "idle")
  /\ loc' = [loc EXCEPT ![t] = Idle]

Start(t, op, s, who, token, label) ==
  /\ pc[t] = "idle"
  /\ Cardinality({u \in Threads : pc[u] # "idle"}) < MaxBusy
  /\ Goto(t, label)
  /\ loc' = [loc EXCEPT ![t] = [op |-> op, session |-> s, who |-> who,
                                row |-> NoRow, token |-> token]]

StartsWriter == writers < MaxWriters /\ writers' = writers + 1

(* A handler raises.  It may do so at any statement: the connection or the *)
(* process is lost, the registry refuses or does not answer, or a token    *)
(* has expired.                                                            *)
Fail(t) ==
  /\ pc[t] # "idle"
  /\ Return(t)
  /\ UNCHANGED tables

(* A read-only statement: go on if what is read passes, else raise.        *)
Check(t, label, next, ok) ==
  /\ pc[t] = label
  /\ IF ok THEN Goto(t, next) /\ UNCHANGED loc ELSE Return(t)
  /\ UNCHANGED tables

(* get_session, for its row.                                               *)
GetSession(t, label, next) ==
  /\ pc[t] = label
  /\ LET row == sessions[loc[t].session] IN
       IF row = NoRow THEN Return(t)
       ELSE Goto(t, next) /\ loc' = [loc EXCEPT ![t].row = row]
  /\ UNCHANGED tables

(* get_delegation is asked only whether the session has a row.             *)
GetDelegation(t, label, next) ==
  Check(t, label, next, delegations[loc[t].session] # NoRow)

-----------------------------------------------------------------------------
(* POST /iam/sessions: create_delegated_session, once the registry has     *)
(* vouched for the agent.                                                  *)
Create(t, s, who) ==
  /\ t \in Workers
  /\ Start(t, "create", s, who, NoRow, "create_user")
  /\ StartsWriter
  /\ UNCHANGED <<sessions, delegations, seeded, tokens>>

KnownUser(t) == Check(t, "create_user", "create_session", seeded)

(* Variant of InsertSession: ON DUPLICATE KEY UPDATE, as other tables have.*)
UpsertSession(t) ==
  /\ pc[t] = "create_session"
  /\ sessions' = [sessions EXCEPT ![loc[t].session] = loc[t].who]
  /\ Goto(t, "create_delegation")
  /\ UNCHANGED <<delegations, seeded, tokens, writers, loc>>

(* INSERT: raises on a duplicate key.                                      *)
InsertSession(t) ==
  /\ pc[t] = "create_session"
  /\ IF sessions[loc[t].session] # NoRow THEN Return(t) /\ UNCHANGED sessions
     ELSE /\ sessions' = [sessions EXCEPT ![loc[t].session] = loc[t].who]
          /\ Goto(t, "create_delegation") /\ UNCHANGED loc
  /\ UNCHANGED <<delegations, seeded, tokens, writers>>

InsertDelegation(t) ==
  /\ pc[t] = "create_delegation"
  /\ IF delegations[loc[t].session] # NoRow THEN Return(t) /\ UNCHANGED delegations
     ELSE /\ delegations' = [delegations EXCEPT ![loc[t].session] = loc[t].who]
          /\ Goto(t, "create_reread") /\ UNCHANGED loc
  /\ UNCHANGED <<sessions, seeded, tokens, writers>>

(* issue_delegation_token signs what the session read last says, after the *)
(* registry has vouched for the agent of that session.                     *)
IssueToken(t) ==
  /\ pc[t] = "issue"
  /\ tokens' = tokens \cup {ClaimsOf(loc[t].session, loc[t].row)}
  /\ Return(t)
  /\ UNCHANGED <<sessions, delegations, seeded, writers>>

CreateStep(t) ==
  \/ KnownUser(t) \/ InsertSession(t) \/ InsertDelegation(t)
  \/ GetSession(t, "create_reread", "issue")

(* POST /iam/delegation-token: mint_delegation_token_for_session.          *)
Mint(t, s) ==
  /\ t \in Workers
  /\ Start(t, "mint", s, Demo, NoRow, "mint_session")
  /\ StartsWriter
  /\ UNCHANGED <<sessions, delegations, seeded, tokens>>

(* Variant of MintStep: a session is enough.                               *)
MintWithoutDelegation(t) == GetSession(t, "mint_session", "issue")

MintStep(t) ==
  \/ GetSession(t, "mint_session", "mint_delegation")
  \/ GetDelegation(t, "mint_delegation", "issue")

-----------------------------------------------------------------------------
RoomForCall ==
  Cardinality({t \in Threads : loc[t].op \in {"run", "read"}}) < MaxCalls

(* A call for session s by agent a, with any token issued so far or none.  *)
(* /auth/preflight and /auth/authorize read the session and ask the        *)
(* registry first; /mcp starts with the token.                             *)
RestCall(t, s, a, token) ==
  /\ t \in Workers /\ RoomForCall
  /\ Start(t, "run", s, [user |-> DemoUser, agent |-> a], token, "rest_session")
  /\ UNCHANGED tables

McpCall(op, s, a, token) ==
  /\ RoomForCall
  /\ Start(Loop, op, s, [user |-> DemoUser, agent |-> a], token, "token")
  /\ UNCHANGED tables

(* The session must exist and be the calling agent's.                      *)
OwnSession(t, label, next) ==
  Check(t, label, next,
        LET row == sessions[loc[t].session] IN
          row # NoRow /\ row.agent = loc[t].who.agent)

(* Variant of TokenFits: the claims are compared with the request only.    *)
TokenFitsRequest(t) ==
  loc[t].token.session = loc[t].session /\ loc[t].token.agent = loc[t].who.agent

(* claims_match_session and the claims against the session record.         *)
TokenFits(t) ==
  LET token == loc[t].token
      row   == sessions[loc[t].session]
  IN
  /\ token.session = loc[t].session /\ token.agent = loc[t].who.agent
  /\ row # NoRow /\ row.user = token.user

(* resolve_delegation_token: 401 without a token, or with one that is of   *)
(* another session or agent, or whose user the session does not have.      *)
VerifyToken(t) ==
  /\ loc[t].token # NoRow \/ TokenRequired
  /\ Check(t, "token", "delegation", loc[t].token # NoRow /\ TokenFits(t))

(* _legacy_delegation_check makes its claims from the session.             *)
Legacy(t) ==
  /\ pc[t] = "token"
  /\ loc[t].token = NoRow /\ ~TokenRequired
  /\ LET row == sessions[loc[t].session] IN
       IF row = NoRow \/ row.agent # loc[t].who.agent THEN Return(t)
       ELSE /\ loc' = [loc EXCEPT ![t].token = ClaimsOf(loc[t].session, row)]
            /\ Goto(t, "delegation")
  /\ UNCHANGED tables

(* auth.show_decision_proof, auth.explain_denial and workflow feedback act *)
(* on the session right away; run_preflight and run_authorize read it once *)
(* more, ask the registry and compare the agent, but not the user.         *)
Delegated(t) ==
  GetDelegation(t, "delegation", IF loc[t].op = "read" THEN "serve" ELSE "run_session")

Serve(t) ==
  /\ pc[t] = "serve"
  /\ Return(t)
  /\ UNCHANGED tables

CallStep(t) ==
  \/ OwnSession(t, "rest_session", "token")
  \/ VerifyToken(t) \/ Legacy(t) \/ Delegated(t)
  \/ OwnSession(t, "run_session", "serve")
  \/ Serve(t)

-----------------------------------------------------------------------------
(* seed_demo, as far as these tables go: DELETE FROM delegations, sessions *)
(* and users, then the users, the demo session and its delegation.         *)
Reseed(t) ==
  /\ t \in Workers
  /\ StartsWriter
  /\ Start(t, "reseed", DemoSession, Demo, NoRow, "delete_sessions")
  /\ delegations' = [s \in SessionIds |-> NoRow]
  /\ UNCHANGED <<sessions, seeded, tokens>>

DeleteSessions(t) ==
  /\ pc[t] = "delete_sessions"
  /\ sessions' = [s \in SessionIds |-> NoRow]
  /\ Goto(t, "delete_users")
  /\ UNCHANGED <<delegations, seeded, tokens, writers, loc>>

DeleteUsers(t) ==
  /\ pc[t] = "delete_users"
  /\ seeded' = FALSE
  /\ Goto(t, "insert_users")
  /\ UNCHANGED <<sessions, delegations, tokens, writers, loc>>

(* Duplicate keys if another reseed has inserted the users.                *)
InsertUsers(t) ==
  /\ pc[t] = "insert_users"
  /\ IF seeded THEN Return(t) ELSE Goto(t, "insert_session") /\ UNCHANGED loc
  /\ seeded' = TRUE
  /\ UNCHANGED <<sessions, delegations, tokens, writers>>

InsertDemoSession(t) ==
  /\ pc[t] = "insert_session"
  /\ IF sessions[DemoSession] # NoRow THEN Return(t) /\ UNCHANGED sessions
     ELSE /\ sessions' = [sessions EXCEPT ![DemoSession] = Demo]
          /\ Goto(t, "insert_delegation") /\ UNCHANGED loc
  /\ UNCHANGED <<delegations, seeded, tokens, writers>>

InsertDemoDelegation(t) ==
  /\ pc[t] = "insert_delegation"
  /\ delegations' =
       [delegations EXCEPT ![DemoSession] = IF @ = NoRow THEN Demo ELSE @]
  /\ Return(t)
  /\ UNCHANGED <<sessions, seeded, tokens, writers>>

ReseedStep(t) ==
  \/ DeleteSessions(t) \/ DeleteUsers(t) \/ InsertUsers(t)
  \/ InsertDemoSession(t) \/ InsertDemoDelegation(t)

Step(t) ==
  \/ \E s \in SessionIds, who \in Identity : Create(t, s, who)
  \/ \E s \in SessionIds : Mint(t, s)
  \/ \E s \in SessionIds, a \in Agents, token \in tokens \cup {NoRow} :
       \/ RestCall(t, s, a, token)
       \/ \E op \in {"run", "read"} : t = Loop /\ McpCall(op, s, a, token)
  \/ Reseed(t)
  \/ CreateStep(t) \/ MintStep(t) \/ IssueToken(t) \/ CallStep(t)
  \/ ReseedStep(t) \/ Fail(t)

Next == \E t \in Threads : Step(t)

Spec == Init /\ [][Next]_vars
-----------------------------------------------------------------------------
Labels ==
  { "idle", "create_user", "create_session", "create_delegation",
    "create_reread", "mint_session", "mint_delegation", "issue",
    "rest_session", "token", "delegation", "run_session", "serve",
    "delete_sessions", "delete_users", "insert_users", "insert_session",
    "insert_delegation" }

(* Rows, tokens and local variables are well formed; a thread that acts on *)
(* a session's row or a token has one.                                     *)
TypeOK ==
  /\ sessions \in [SessionIds -> Identity \cup {NoRow}]
  /\ delegations \in [SessionIds -> Identity \cup {NoRow}]
  /\ seeded \in BOOLEAN
  /\ tokens \subseteq Claims
  /\ writers \in Nat
  /\ pc \in [Threads -> Labels]
  /\ loc \in [Threads -> [ op : {"none", "create", "mint", "run", "read", "reseed"},
                           session : SessionIds, who : Identity,
                           row : Identity \cup {NoRow}, token : Claims \cup {NoRow} ]]
  /\ \A t \in Threads :
       /\ pc[t] = "issue" => loc[t].row # NoRow
       /\ pc[t] \in {"delegation", "run_session", "serve"} => loc[t].token # NoRow
=============================================================================
