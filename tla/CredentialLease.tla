--------------------------- MODULE CredentialLease ---------------------------
(***************************************************************************)
(* The credential lease of a tool call that may execute: handle_tool_call  *)
(* (mcp/handlers.py) from the decision it records to the downstream call,  *)
(* through mint_gateway_credential_lease (credential_runtime.py), the      *)
(* broker, the 1Password provider and its readiness.                       *)
(*                                                                         *)
(* The event loop serves one call at a time.  Beside it a REST worker may  *)
(* reseed the database (seed_demo), statement by statement, and the        *)
(* process may restart, which reseeds as well.  Every call mints its lease *)
(* in a broker of its own under a fresh id, so lease, decision and issue   *)
(* rows are named by the call they belong to.                              *)
(***************************************************************************)
EXTENDS Naturals, FiniteSets

CONSTANTS Calls,
          Perms,       \* a permission: a tool with its scope and resource
          BoundPerms,  \* those that seed_demo binds to a credential
          IssuePerms,  \* those of linear.create_issue
          InjectionModes, InjectionMode,  \* the mode a binding asks for
          None

ASSUME LeaseAssumption ==
  /\ BoundPerms \subseteq Perms /\ IssuePerms \subseteq Perms
  /\ None \notin Calls \cup Perms
  /\ InjectionMode \in [BoundPerms -> InjectionModes]

MaxUses == 1  \* max_uses of every lease the gateway mints

Lease == [ status : {"none", "minted", "used"}, uses : 0..MaxUses,
           operation : {"none", "pending", "resolved"} ]

NoLease == [ status |-> "none", uses |-> 0, operation |-> "none" ]

VARIABLES bindings,   \* table credential_bindings: the permissions with a row
          leases,     \* table credential_leases
          decisions,  \* table policy_decisions: absent, bare or leased rows
          grants,     \* table grants: the permissions with a live row
          issues,     \* table demo_linear_issues: its call, and if it has a lease
          injected,   \* how often op run succeeded for a call
          outcome,    \* how each call ended
          perms,      \* the permission of each call
          pc, call,   \* the event loop's next statement and its call
          loc,        \* its local variables
          seeding,    \* the reseed's next statement
          overlapped  \* the calls a reseed has overlapped (history)

vars == <<bindings, leases, decisions, grants, issues, injected, outcome,
          perms, pc, call, loc, seeding, overlapped>>

tables == <<bindings, leases, decisions, grants, issues>>

-----------------------------------------------------------------------------
(* detect_onepassword_readiness: what is found of the local tools.         *)
Tools == [ mcp : BOOLEAN, op : {"missing", "no_account", "ready"},
           token : BOOLEAN, desktop : BOOLEAN ]

provider_modes(t) ==
  (IF t.mcp THEN {"onepassword_mcp_environment"} ELSE {})
  \cup (IF t.op = "ready" THEN {"op_cli_secret_reference", "op_run_process_env"}
        ELSE {})
  \cup (IF t.token THEN {"onepassword_sdk_service_account"} ELSE {})

IsReady(t) == t.mcp \/ t.token \/ (t.desktop /\ t.op = "ready")

(* choose_provider_mode: the modes that serve an injection mode.           *)
Serving(injection) ==
  CASE injection = "onepassword_mcp_environment" -> {"onepassword_mcp_environment"}
    [] injection = "process_env" ->
         {"onepassword_mcp_environment", "op_run_process_env"}
    [] injection = "gateway_header" ->
         {"op_cli_secret_reference", "onepassword_sdk_service_account",
          "onepassword_sdk_desktop"}
    [] injection \in {"stdin_or_fd", "local_socket", "provider_native"} ->
         {"onepassword_sdk_service_account", "op_cli_secret_reference",
          "op_run_process_env", "onepassword_mcp_environment"}
    [] OTHER -> {}

(* mint_lease for the gateway, whose TTL and uses are positive and which   *)
(* exposes nothing to the agent: minted iff a mode is to be had.           *)
Mintable(t, injection) ==
  IsReady(t) /\ provider_modes(t) \cap Serving(injection) # {}

-----------------------------------------------------------------------------
Idle == [ uses |-> 0, leased |-> FALSE ]

Init ==
  /\ bindings = BoundPerms
  /\ leases = [c \in Calls |-> NoLease]
  /\ decisions = [c \in Calls |-> "absent"]
  /\ grants = {}
  /\ issues = {}
  /\ injected = [c \in Calls |-> 0]
  /\ outcome = [c \in Calls |-> "none"]
  /\ perms = [c \in Calls |-> None]
  /\ pc = "idle" /\ call = None /\ loc = Idle
  /\ seeding = "idle"
  /\ overlapped = {}

Goto(label) == pc' = label /\ UNCHANGED <<call, outcome>>

Return(result) ==
  /\ pc' = "idle" /\ call' = None /\ loc' = Idle
  /\ outcome' = [outcome EXCEPT ![call] = result]

(* Frame of a statement of the event loop.                                 *)
Loop == UNCHANGED <<seeding, overlapped>>

(* run_authorize has decided to let a call of p execute: the decision row. *)
Decide(c, p) ==
  /\ pc = "idle" /\ outcome[c] = "none"
  /\ pc' = "consume" /\ call' = c
  /\ outcome' = [outcome EXCEPT ![c] = "running"]
  /\ perms' = [perms EXCEPT ![c] = p]
  /\ decisions' = [decisions EXCEPT ![c] = "bare"]
  /\ overlapped' = IF seeding # "idle" THEN overlapped \cup {c} ELSE overlapped
  /\ UNCHANGED <<bindings, leases, grants, issues, injected, loc, seeding>>

(* consume_grant_for_tool; the spent call may have been the grant's last.  *)
Consume ==
  /\ pc = "consume"
  /\ \/ /\ perms[call] \in grants
        /\ grants' \in {grants, grants \ {perms[call]}}
        /\ Goto("bind")
        /\ UNCHANGED loc
     \/ /\ perms[call] \notin grants
        /\ Return("blocked")
        /\ UNCHANGED grants
  /\ UNCHANGED <<bindings, leases, decisions, issues, injected, perms>> /\ Loop

(* find_credential_binding: without a row the call needs no lease.         *)
FindBinding ==
  /\ pc = "bind"
  /\ Goto(IF perms[call] \in bindings THEN "mint" ELSE "execute")
  /\ UNCHANGED <<tables, injected, perms, loc>> /\ Loop

(* Variant of Mint: a call whose lease is refused goes on all the same.    *)
MintOrGoOn ==
  /\ pc = "mint"
  /\ \E t \in Tools :
       /\ loc' = [uses |-> MaxUses, leased |-> FALSE]
       /\ Goto(IF Mintable(t, InjectionMode[perms[call]]) THEN "save" ELSE "execute")
  /\ UNCHANGED <<tables, injected, perms>> /\ Loop

(* detect_onepassword_readiness and mint_lease, whose record is the        *)
(* broker's alone until it is saved.                                       *)
Mint ==
  /\ pc = "mint"
  /\ \E t \in Tools :
       \/ /\ Mintable(t, InjectionMode[perms[call]])
          /\ loc' = [uses |-> MaxUses, leased |-> FALSE]
          /\ Goto("save")
       \/ /\ ~Mintable(t, InjectionMode[perms[call]])
          /\ Return("blocked")
  /\ UNCHANGED <<tables, injected, perms>> /\ Loop

(* The row save_credential_lease inserts.                                  *)
Minted == [ status |-> "minted", uses |-> MaxUses, operation |-> "pending" ]

(* Variant of Save: the row is not written before the lease is used.       *)
SaveNothingYet ==
  /\ pc = "save" /\ Goto("attach")
  /\ UNCHANGED <<tables, injected, perms, loc>> /\ Loop

(* save_credential_lease, attach_credential_lease_to_decision.             *)
Save ==
  /\ pc = "save"
  /\ leases' = [leases EXCEPT ![call] = Minted]
  /\ Goto("attach")
  /\ UNCHANGED <<bindings, decisions, grants, issues, injected, perms, loc>>
  /\ Loop

Attach ==
  /\ pc = "attach"
  /\ decisions' = [decisions EXCEPT ![call] = IF @ = "absent" THEN @ ELSE "leased"]
  /\ Goto("authorize")
  /\ UNCHANGED <<bindings, leases, grants, issues, injected, perms, loc>> /\ Loop

(* authorize_use.  The gateway asks for the lease it has just minted, under *)
(* the same names and as itself, so it is refused only when the lease has  *)
(* expired meanwhile or has no use left.                                   *)
AuthorizeUse ==
  /\ pc = "authorize"
  /\ \/ /\ loc.uses > 0
        /\ loc' = [loc EXCEPT !.uses = @ - 1]
        /\ Goto("resolve")
     \/ Return("blocked")
  /\ UNCHANGED <<tables, injected, perms>> /\ Loop

-----------------------------------------------------------------------------
(* resolve_for_lease: one run of op with the secret's reference succeeds,  *)
(* or asks for a sign-in, or fails for good: another error, a timeout, no  *)
(* op to execute.  The caller goes on at retry after an error a sign-in    *)
(* may mend, and only once.  A run that times out may have handed the      *)
(* secret to its child before it was stopped: injected does not count it.  *)
Attempt(retry) ==
  \/ /\ injected' = [injected EXCEPT ![call] = @ + 1]
     /\ Goto("operation")
     /\ UNCHANGED loc
  \/ /\ retry # "none"
     /\ Goto(retry)
     /\ UNCHANGED <<injected, loc>>
  \/ Return("blocked") /\ UNCHANGED injected

(* Without a path the provider looks for op again: it may be there by now. *)
(* A reference that is not op:// is refused without an attempt.            *)
Resolve ==
  /\ pc = "resolve"
  /\ Attempt("signin")
  /\ UNCHANGED <<tables, perms>> /\ Loop

(* Variant of SignIn: a sign-in that fails is taken for a resolution.      *)
SignInTaken ==
  /\ pc = "signin"
  /\ (Goto("retry") \/ Goto("operation")) /\ UNCHANGED loc
  /\ UNCHANGED <<tables, injected, perms>> /\ Loop

(* _attempt_desktop_signin: only one that succeeds is worth another try.   *)
SignIn ==
  /\ pc = "signin"
  /\ \/ Goto("retry") /\ UNCHANGED loc
     \/ Return("blocked")
  /\ UNCHANGED <<tables, injected, perms>> /\ Loop

Retry ==
  /\ pc = "retry"
  /\ Attempt("none")
  /\ UNCHANGED <<tables, perms>> /\ Loop

-----------------------------------------------------------------------------
(* An UPDATE of a lease row changes nothing when a reseed has deleted it.  *)
UpdateLease(c, row) ==
  leases' = IF leases[c] = NoLease THEN leases ELSE [leases EXCEPT ![c] = row]

(* update_credential_lease_provider_operation.                             *)
RecordOperation ==
  /\ pc = "operation"
  /\ UpdateLease(call, [leases[call] EXCEPT !.operation = "resolved"])
  /\ Goto("mark")
  /\ UNCHANGED <<bindings, decisions, grants, issues, injected, perms, loc>>
  /\ Loop

(* mark_credential_lease_used, with the uses the broker has left.          *)
MarkUsed ==
  /\ pc = "mark"
  /\ UpdateLease(call, [leases[call] EXCEPT !.status = "used", !.uses = loc.uses])
  /\ loc' = [loc EXCEPT !.leased = TRUE]
  /\ Goto("execute")
  /\ UNCHANGED <<bindings, decisions, grants, issues, injected, perms>> /\ Loop

(* execute_downstream_tool: linear.create_issue writes a row that names    *)
(* the decision and, if there is one, the lease.                           *)
Execute ==
  /\ pc = "execute"
  /\ issues' = IF perms[call] \in IssuePerms
               THEN issues \cup {[call |-> call, leased |-> loc.leased]} ELSE issues
  /\ Return("executed")
  /\ UNCHANGED <<bindings, leases, decisions, grants, injected, perms>> /\ Loop

(* A statement, an event's or a table's, raises.                           *)
Fail ==
  /\ pc # "idle"
  /\ Return("failed")
  /\ UNCHANGED <<tables, injected, perms>> /\ Loop

-----------------------------------------------------------------------------
(* approve_access_request and issue_ephemeral_grant, of any thread.        *)
Issue(p) ==
  /\ grants' = grants \cup {p}
  /\ UNCHANGED <<bindings, leases, decisions, issues, injected, outcome, perms,
                 pc, call, loc, seeding, overlapped>>

SeedGoto(label) ==
  /\ seeding' = label
  /\ overlapped' = IF call # None THEN overlapped \cup {call} ELSE overlapped
  /\ UNCHANGED <<injected, outcome, perms, pc, call, loc>>

(* seed_demo, by /admin/reseed: DELETE FROM each table in the order of its *)
(* list, then the INSERT of the bindings.                                  *)
DeleteIssues ==
  /\ seeding = "idle" /\ issues' = {} /\ SeedGoto("leases")
  /\ UNCHANGED <<bindings, leases, decisions, grants>>

DeleteLeases ==
  /\ seeding = "leases" /\ leases' = [c \in Calls |-> NoLease] /\ SeedGoto("bindings")
  /\ UNCHANGED <<bindings, decisions, grants, issues>>

DeleteBindings ==
  /\ seeding = "bindings" /\ bindings' = {} /\ SeedGoto("decisions")
  /\ UNCHANGED <<leases, decisions, grants, issues>>

DeleteDecisions ==
  /\ seeding = "decisions" /\ decisions' = [c \in Calls |-> "absent"]
  /\ SeedGoto("grants")
  /\ UNCHANGED <<bindings, leases, grants, issues>>

DeleteGrants ==
  /\ seeding = "grants" /\ grants' = {} /\ SeedGoto("insert")
  /\ UNCHANGED <<bindings, leases, decisions, issues>>

InsertBindings ==
  /\ seeding = "insert" /\ bindings' = BoundPerms /\ SeedGoto("idle")
  /\ UNCHANGED <<leases, decisions, grants, issues>>

(* Variant of Reseed: the leases go before the issues that name them.      *)
ReseedLeasesFirst ==
  \/ /\ seeding = "idle" /\ leases' = [c \in Calls |-> NoLease]
     /\ SeedGoto("leases") /\ UNCHANGED <<bindings, decisions, grants, issues>>
  \/ /\ seeding = "leases" /\ issues' = {}
     /\ SeedGoto("bindings") /\ UNCHANGED <<bindings, leases, decisions, grants>>
  \/ DeleteBindings \/ DeleteDecisions \/ DeleteGrants \/ InsertBindings

Reseed ==
  \/ DeleteIssues \/ DeleteLeases \/ DeleteBindings
  \/ DeleteDecisions \/ DeleteGrants \/ InsertBindings

(* The process stops and starts again; lifespan reseeds before it serves.  *)
Restart ==
  /\ IF pc = "idle" THEN UNCHANGED <<pc, call, loc, outcome>> ELSE Return("failed")
  /\ bindings' = BoundPerms
  /\ leases' = [c \in Calls |-> NoLease]
  /\ decisions' = [c \in Calls |-> "absent"]
  /\ grants' = {} /\ issues' = {}
  /\ seeding' = "idle"
  /\ UNCHANGED <<injected, perms>>
  /\ overlapped' = IF call # None THEN overlapped \cup {call} ELSE overlapped

Step ==
  \/ Consume \/ FindBinding \/ Mint \/ Save \/ Attach \/ AuthorizeUse
  \/ Resolve \/ SignIn \/ Retry
  \/ RecordOperation \/ MarkUsed \/ Execute \/ Fail

Next ==
  \/ \E c \in Calls, p \in Perms : Decide(c, p)
  \/ Step
  \/ \E p \in Perms : Issue(p)
  \/ Reseed
  \/ Restart

Spec == Init /\ [][Next]_vars

-----------------------------------------------------------------------------
Labels == {"idle", "consume", "bind", "mint", "save", "attach", "authorize",
           "resolve", "signin", "retry", "operation", "mark", "execute"}

(* Tables and variables are well formed; uses_remaining stays within what  *)
(* the lease was minted with (credential_leases.uses_remaining).           *)
TypeOK ==
  /\ bindings \subseteq BoundPerms /\ grants \subseteq Perms
  /\ leases \in [Calls -> Lease]
  /\ decisions \in [Calls -> {"absent", "bare", "leased"}]
  /\ issues \subseteq [call : Calls, leased : BOOLEAN]
  /\ injected \in [Calls -> Nat]
  /\ outcome \in [Calls -> {"none", "running", "blocked", "executed", "failed"}]
  /\ perms \in [Calls -> Perms \cup {None}]
  /\ pc \in Labels /\ call \in Calls \cup {None}
  /\ loc \in [uses : 0..MaxUses, leased : BOOLEAN]
  /\ seeding \in {"idle", "leases", "bindings", "decisions", "grants", "insert"}
  /\ overlapped \subseteq Calls

(* A lease row says used only if its secret was injected, exactly once,    *)
(* and then says that it was resolved and has no use left: no failure,     *)
(* sign-in, retry or reseed makes mark_credential_lease_used lie.          *)
UsedMeansInjected ==
  \A c \in Calls :
    leases[c].status = "used" =>
      injected[c] = 1 /\ leases[c].uses = 0 /\ leases[c].operation = "resolved"

(* Every credential use points to a credential lease: when op run injects  *)
(* a secret the lease row is there, not used yet, the decision names it,   *)
(* and it is the lease's first injection.  A reseed under way may have     *)
(* deleted the rows.                                                       *)
InjectionIsLeased ==
  [][\A c \in Calls :
       injected'[c] # injected[c] =>
         /\ injected[c] = 0
         /\ c \notin overlapped =>
              leases[c].status = "minted" /\ decisions[c] = "leased"]_vars

(* A call of a tool bound to a credential executes only after its own      *)
(* lease was used, whichever way the provider failed in between: what      *)
(* handle_tool_call checks before execute_downstream_tool.  A reseed under *)
(* way hides the binding, and the call then executes without a lease.      *)
ExecutionIsLeased ==
  [][\A c \in Calls :
       /\ outcome'[c] = "executed" /\ outcome[c] # "executed"
       /\ perms[c] \in BoundPerms /\ c \notin overlapped
       => leases[c].status = "used" /\ decisions[c] = "leased"]_vars

(* An issue row that names a lease always leads to a used lease and to a   *)
(* decision that names it too, also while later reseeds delete the tables  *)
(* one by one; and an issue of a bound permission names one.               *)
IssueLeadsToLease ==
  \A i \in issues :
    i.call \notin overlapped =>
      /\ i.leased <=> perms[i.call] \in BoundPerms
      /\ i.leased => /\ leases[i.call].status = "used"
                     /\ decisions[i.call] = "leased"
=============================================================================
