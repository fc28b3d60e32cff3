------------------------ MODULE AuthorizationChecks -------------------------
(***************************************************************************)
(* AuthorizationCheckService of platform/authorization_checks.py, one      *)
(* instance of which (AUTHZ_CHECKS) is shared without a lock by the REST   *)
(* handlers, which run on a thread pool, and by the MCP endpoint.  Every   *)
(* read or write of a shared dictionary is a step of its own; between two  *)
(* steps a thread holds its own copy of the check, and _transition writes  *)
(* the copy back whole.                                                    *)
(*                                                                         *)
(* A key is a (session_id, idempotency_key) pair.  What decide() answers   *)
(* for it is left open: the key omits trust, approval mode and delegation, *)
(* so two contexts of one key may be decided differently.                  *)
(***************************************************************************)
EXTENDS Naturals, FiniteSets

CONSTANTS Threads, Keys, CheckIds,
          NoKey, NoId,      \* absent from Keys and CheckIds
          Outcomes          \* the decisions decide() may answer

Decisions ==
  {"ALLOW", "AUTO_APPROVE_EPHEMERAL_GRANT", "ESCALATE_HUMAN", "DENY", "REPAIR"}

ASSUME ChecksAssumption ==
  NoKey \notin Keys /\ NoId \notin CheckIds /\ Outcomes \subseteq Decisions

TERMINAL_STATES ==
  {"approved", "auto_approved", "denied", "repairable", "expired", "cancelled"}

EXECUTABLE_STATES == {"approved", "auto_approved"}

AuthorizationCheckState ==
  {"created", "facts_compiled", "policy_evaluating", "waiting_for_human"}
    \cup TERMINAL_STATES

(* Variant of state_for_decision: an escalation counts as approved.        *)
state_lets_escalations_pass ==
  [ ALLOW |-> "approved", AUTO_APPROVE_EPHEMERAL_GRANT |-> "auto_approved",
    ESCALATE_HUMAN |-> "approved", REPAIR |-> "repairable", DENY |-> "denied" ]

state_for_decision ==
  [ ALLOW |-> "approved", AUTO_APPROVE_EPHEMERAL_GRANT |-> "auto_approved",
    ESCALATE_HUMAN |-> "waiting_for_human", REPAIR |-> "repairable",
    DENY |-> "denied" ]

AuthorizationCheck ==
  [ key : Keys \cup {NoKey}, state : AuthorizationCheckState \cup {"absent"},
    decision : Decisions \cup {"none"} ]

PolicyDecision == [ key : Keys \cup {NoKey}, decision : Decisions \cup {"none"} ]

NoCheck == [ key |-> NoKey, state |-> "absent", decision |-> "none" ]
NoDecision == [ key |-> NoKey, decision |-> "none" ]
Idle == [ op |-> "none", key |-> NoKey, id |-> NoId, check |-> NoCheck,
          answer |-> NoDecision ]

VARIABLES checks,    \* _checks: the record of each id, NoCheck if there is none
          index,     \* _idempotency_index: the id of each key, or NoId
          decisions, \* _decisions: the policy decision of each id
          aged,      \* the ids whose expires_at has passed
          pc,        \* where each thread is
          loc        \* each thread's arguments, its copy of the check, its answer

vars == <<checks, index, decisions, aged, pc, loc>>

Init ==
  /\ checks = [i \in CheckIds |-> NoCheck]
  /\ index = [k \in Keys |-> NoId]
  /\ decisions = [i \in CheckIds |-> NoDecision]
  /\ aged = {}
  /\ pc = [t \in Threads |-> "idle"]
  /\ loc = [t \in Threads |-> Idle]

-----------------------------------------------------------------------------
Goto(t, label) == pc' = [pc EXCEPT ![t] = label]

(* Variants of Moved: the fields are merged into the record as it is by    *)
(* now, and an expired check is evicted.                                   *)
MovedMerges(t, state, decision) ==
  [checks[loc[t].id] EXCEPT !.state = state,
     !.decision = IF decision = "none" THEN @ ELSE decision]

MovedEvicts(t, state, decision) ==
  IF state = "expired" THEN NoCheck
  ELSE [loc[t].check EXCEPT !.state = state, !.decision = decision]

(* _transition: the thread's copy, moved to state, replaces the record.    *)
Moved(t, state, decision) ==
  [loc[t].check EXCEPT !.state = state, !.decision = decision]

Store(t, check) == checks' = [checks EXCEPT ![loc[t].id] = check]

Transition(t, state, decision) ==
  /\ Store(t, Moved(t, state, decision))
  /\ loc' = [loc EXCEPT ![t].check = Moved(t, state, decision)]

(* The call is over and nothing of it is looked at any more.               *)
Return(t) ==
  /\ Goto(t, "idle")
  /\ loc' = [loc EXCEPT ![t] = Idle]

Begin(t, op, k, i) ==
  /\ pc[t] = "idle"
  /\ loc' = [loc EXCEPT ![t] = [Idle EXCEPT !.op = op, !.key = k, !.id = i]]
  /\ UNCHANGED <<checks, index, decisions, aged>>

(* Bound of the instance: an id is left for every thread that may need one.*)
RoomForAnother ==
  Cardinality({i \in CheckIds : checks[i] = NoCheck})
    > Cardinality({t \in Threads : pc[t] = "insert"})

(* Variant of Evaluate: a check that is past its time is looked past.      *)
EvaluateUnlessAged(t, k) ==
  LET known == index[k] # NoId /\ index[k] \notin aged IN
  /\ known \/ RoomForAnother
  /\ Begin(t, "evaluate", k, IF known THEN index[k] ELSE NoId)
  /\ Goto(t, IF known THEN "get" ELSE "insert")

(* evaluate(): create() looks the key up.                                  *)
Evaluate(t, k) ==
  /\ index[k] = NoId => RoomForAnother
  /\ Begin(t, "evaluate", k, index[k])
  /\ Goto(t, IF index[k] = NoId THEN "insert" ELSE "get")

Cancel(t, i) ==
  /\ checks[i] # NoCheck
  /\ Begin(t, "cancel", NoKey, i)
  /\ Goto(t, "get")

(* get(), alone or as all that can_execute() does.                         *)
Inspect(t, i) ==
  /\ checks[i] # NoCheck
  /\ Begin(t, "get", NoKey, i)
  /\ Goto(t, "get")

(* Variant of Insert: the id need not be fresh.                            *)
InsertUnderAnyId(t) ==
  /\ pc[t] = "insert"
  /\ \E i \in CheckIds :
       LET check == [key |-> loc[t].key, state |-> "created", decision |-> "none"] IN
       /\ checks' = [checks EXCEPT ![i] = check]
       /\ loc' = [loc EXCEPT ![t].id = i, ![t].check = check]
  /\ Goto(t, "publish")
  /\ UNCHANGED <<index, decisions, aged>>

(* create(): a record under a fresh id, and then the index entry.          *)
Insert(t) ==
  /\ pc[t] = "insert"
  /\ \E i \in CheckIds :
       LET check == [key |-> loc[t].key, state |-> "created", decision |-> "none"] IN
       /\ checks[i] = NoCheck
       /\ checks' = [checks EXCEPT ![i] = check]
       /\ loc' = [loc EXCEPT ![t].id = i, ![t].check = check]
  /\ Goto(t, "publish")
  /\ UNCHANGED <<index, decisions, aged>>

Publish(t) ==
  /\ pc[t] = "publish"
  /\ index' = [index EXCEPT ![loc[t].key] = loc[t].id]
  /\ Goto(t, "dispatch")
  /\ UNCHANGED <<checks, decisions, aged, loc>>

Get(t) ==
  /\ pc[t] = "get"
  /\ loc' = [loc EXCEPT ![t].check = checks[loc[t].id]]
  /\ Goto(t, "expire")
  /\ UNCHANGED <<checks, index, decisions, aged>>

(* _expire_if_needed, on the thread's copy: in get(), and again in         *)
(* evaluate() before it returns a check that is already settled.           *)
ExpireIfNeeded(t) ==
  LET overdue == loc[t].check.state \notin TERMINAL_STATES /\ loc[t].id \in aged
      check   == IF overdue THEN Moved(t, "expired", loc[t].check.decision)
                 ELSE loc[t].check
  IN
  /\ pc[t] \in {"expire", "expire_settled"}
  /\ IF overdue THEN Store(t, check) ELSE UNCHANGED checks
  /\ \/ loc[t].op = "get" /\ Return(t)
     \/ /\ loc[t].op # "get"
        /\ loc' = [loc EXCEPT ![t].check = check]
        /\ Goto(t, CASE pc[t] = "expire_settled" -> "answer"
                     [] loc[t].op = "cancel" -> "cancel"
                     [] OTHER -> "dispatch")
  /\ UNCHANGED <<index, decisions, aged>>

CancelUnlessTerminal(t) ==
  /\ pc[t] = "cancel"
  /\ IF loc[t].check.state \in TERMINAL_STATES
     THEN UNCHANGED checks
     ELSE Store(t, Moved(t, "cancelled", loc[t].check.decision))
  /\ Return(t)
  /\ UNCHANGED <<index, decisions, aged>>

(* Variants of Settled: only what may execute is final, and a check that   *)
(* waits for a human is decided again.                                     *)
SettledIfExecutable(check) ==
  check.state \in EXECUTABLE_STATES \cup {"waiting_for_human"}

SettledIfTerminal(check) == check.state \in TERMINAL_STATES

Settled(check) ==
  check.state \in TERMINAL_STATES \cup {"waiting_for_human"}

ReturnSettled(t) ==
  /\ pc[t] = "dispatch"
  /\ Settled(loc[t].check)
  /\ Goto(t, "expire_settled")
  /\ UNCHANGED <<checks, index, decisions, aged, loc>>

FactsCompiled(t) ==
  /\ pc[t] = "dispatch"
  /\ ~Settled(loc[t].check)
  /\ Transition(t, "facts_compiled", loc[t].check.decision)
  /\ Goto(t, "policy")
  /\ UNCHANGED <<index, decisions, aged>>

PolicyEvaluating(t) ==
  /\ pc[t] = "policy"
  /\ Transition(t, "policy_evaluating", loc[t].check.decision)
  /\ Goto(t, "decide")
  /\ UNCHANGED <<index, decisions, aged>>

(* decide() answers and the decision is recorded, or it raises and the     *)
(* check stays in policy_evaluating.                                       *)
Decide(t, d) ==
  /\ pc[t] = "decide"
  /\ LET decision == [key |-> loc[t].key, decision |-> d] IN
     /\ decisions' = [decisions EXCEPT ![loc[t].id] = decision]
     /\ loc' = [loc EXCEPT ![t].answer = decision]
  /\ Goto(t, "settle")
  /\ UNCHANGED <<checks, index, aged>>

DecideRaises(t) ==
  /\ pc[t] = "decide"
  /\ Return(t)
  /\ UNCHANGED <<checks, index, decisions, aged>>

Settle(t) ==
  LET d == loc[t].answer.decision IN
  /\ pc[t] = "settle"
  /\ Transition(t, state_for_decision[d], d)
  /\ Goto(t, "answer")
  /\ UNCHANGED <<index, decisions, aged>>

(* run_authorize: decision_for(check_id), read back from the service.      *)
(* Without a decision the request fails with ValueError.                   *)
Answer(t) ==
  /\ pc[t] = "answer"
  /\ loc' = [loc EXCEPT ![t].answer = decisions[loc[t].id]]
  /\ Goto(t, "idle")
  /\ UNCHANGED <<checks, index, decisions, aged>>

(* The clock passes expires_at.                                            *)
Age(i) ==
  /\ checks[i] # NoCheck /\ i \notin aged
  /\ aged' = aged \cup {i}
  /\ UNCHANGED <<checks, index, decisions, pc, loc>>

Step(t) ==
  \/ Insert(t) \/ Publish(t) \/ Get(t) \/ ExpireIfNeeded(t)
  \/ CancelUnlessTerminal(t) \/ ReturnSettled(t)
  \/ FactsCompiled(t) \/ PolicyEvaluating(t)
  \/ \E d \in Outcomes : Decide(t, d)
  \/ DecideRaises(t) \/ Settle(t) \/ Answer(t)

Next ==
  \/ \E t \in Threads :
       \/ \E k \in Keys : Evaluate(t, k)
       \/ \E i \in CheckIds : Cancel(t, i) \/ Inspect(t, i)
       \/ Step(t)
  \/ \E i \in CheckIds : Age(i)

Spec == Init /\ [][Next]_vars
-----------------------------------------------------------------------------
Labels ==
  { "idle", "insert", "publish", "get", "expire", "expire_settled", "cancel",
    "dispatch", "policy", "decide", "settle", "answer" }

Locals ==
  [ op : {"none", "evaluate", "cancel", "get"}, key : Keys \cup {NoKey},
    id : CheckIds \cup {NoId}, check : AuthorizationCheck,
    answer : PolicyDecision ]

(* Every dictionary and every thread's copy holds well-formed records.     *)
TypeOK ==
  /\ checks \in [CheckIds -> AuthorizationCheck]
  /\ index \in [Keys -> CheckIds \cup {NoId}]
  /\ decisions \in [CheckIds -> PolicyDecision]
  /\ aged \subseteq CheckIds
  /\ pc \in [Threads -> Labels]
  /\ loc \in [Threads -> Locals]

(* A thread that finds an id in the index finds the record, of its key:    *)
(* get() never fails with KeyError, whatever the interleaving.             *)
IndexIsNeverDangling ==
  \A k \in Keys : index[k] # NoId => checks[index[k]].key = k

Consistent(check, i) ==
  /\ check.state \in {"approved", "auto_approved", "denied", "repairable",
                      "waiting_for_human"} =>
       /\ check.decision # "none"
       /\ check.state = state_for_decision[check.decision]
       /\ decisions[i] # NoDecision
  /\ check.state \in {"created", "facts_compiled", "policy_evaluating"} =>
       check.decision = "none"

(* A state that follows from a decision is the state of the record's       *)
(* decision, and the decision can be read back; a check still under        *)
(* evaluation has none.  Two threads that evaluate one check write each    *)
(* other's work over and never mix it.                                     *)
RecordIsConsistent == \A i \in CheckIds : Consistent(checks[i], i)

(* The decision run_authorize acts on was made for the key it asked about, *)
(* never for another request's.                                            *)
AnswerIsForItsKey ==
  \A t \in Threads :
    pc[t] = "idle" /\ loc[t].answer # NoDecision => loc[t].answer.key = loc[t].key

Answered(t) ==
  pc[t] = "idle" /\ loc[t].op = "evaluate" /\ loc[t].answer # NoDecision

(* The gateway acts on the decision it reads back and on the check it was   *)
(* given, and _assert_executable wants both to allow the call.  They agree: *)
(* else a grant would be issued or a call of one consumed for an execution  *)
(* that is then refused.                                                    *)
AnswerMatchesCheck ==
  \A t \in Threads : Answered(t) =>
    (loc[t].answer.decision \in {"ALLOW", "AUTO_APPROVE_EPHEMERAL_GRANT"}
       <=> loc[t].check.state \in EXECUTABLE_STATES)

(* RFC-03: repeated requests with the same idempotency key return the same *)
(* check record.                                                           *)
SameKeySameCheck ==
  \A t, u \in Threads :
    /\ Answered(t) /\ Answered(u) /\ loc[t].key = loc[u].key
    => loc[t].id = loc[u].id
=============================================================================
