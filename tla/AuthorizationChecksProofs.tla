---------------------- MODULE AuthorizationChecksProofs ----------------------
(* Proofs about AuthorizationCheckService for any number of threads, keys  *)
(* and checks: what holds for every interleaving of their steps, and what  *)
(* holds as long as one request is served at a time.                       *)
EXTENDS MCChecks, TLAPS

(* Every record written has a key and a state, and a decision is filed     *)
(* under the id of a record of its own key.                                *)
RecordsAreKeyed ==
  \A i \in CheckIds :
    /\ checks[i] # NoCheck => checks[i].key \in Keys /\ checks[i].state # "absent"
    /\ decisions[i] # NoDecision =>
         checks[i] # NoCheck /\ decisions[i].key = checks[i].key

HoldsCopy(t) ==
  pc[t] \in {"publish", "expire", "expire_settled", "cancel", "dispatch",
             "policy", "decide", "settle", "answer"}

(* What a thread between two steps relies on: its copy is of the record it *)
(* names and of the key it asked about, may be out of date, but is never   *)
(* inconsistent in itself.                                                 *)
ThreadOK(t) ==
  /\ pc[t] = "idle" /\ loc[t].answer # NoDecision => loc[t].answer.key = loc[t].key
  /\ pc[t] # "idle" => loc[t].op # "none"
  /\ pc[t] \notin {"idle", "get", "expire", "cancel"} => loc[t].op = "evaluate"
  /\ loc[t].op = "evaluate" => loc[t].key \in Keys
  /\ pc[t] = "get" \/ HoldsCopy(t) =>
       /\ loc[t].id \in CheckIds
       /\ checks[loc[t].id] # NoCheck
       /\ loc[t].op = "evaluate" => checks[loc[t].id].key = loc[t].key
  /\ HoldsCopy(t) =>
       /\ loc[t].check.key = checks[loc[t].id].key
       /\ loc[t].check.state # "absent"
       /\ Consistent(loc[t].check, loc[t].id)
  /\ pc[t] \in {"policy", "decide", "settle"} => loc[t].check.decision = "none"
  /\ pc[t] = "settle" =>
       /\ loc[t].answer.decision \in Decisions
       /\ decisions[loc[t].id] # NoDecision

IInv ==
  /\ TypeOK
  /\ IndexIsNeverDangling
  /\ RecordIsConsistent
  /\ RecordsAreKeyed
  /\ \A t \in Threads : ThreadOK(t)

-----------------------------------------------------------------------------
(* The facts a step must keep for the threads that do not take it.         *)
Grows ==
  \A i \in CheckIds :
    /\ checks[i] # NoCheck => checks'[i] # NoCheck /\ checks'[i].key = checks[i].key
    /\ decisions[i] # NoDecision => decisions'[i] # NoDecision

LEMMA BystanderOK ==
  ASSUME NEW u, ThreadOK(u), Grows, pc'[u] = pc[u], loc'[u] = loc[u]
  PROVE  ThreadOK(u)'
BY DEF ThreadOK, Grows, HoldsCopy, Consistent

(* A copy written back whole keeps every dictionary in order.              *)
LEMMA StoreOK ==
  ASSUME IInv, NEW t \in Threads, HoldsCopy(t), NEW c \in AuthorizationCheck,
         c.key = loc[t].check.key, c.state # "absent",
         Consistent(c, loc[t].id), Store(t, c), UNCHANGED <<index, decisions>>
  PROVE  /\ checks' \in [CheckIds -> AuthorizationCheck]
         /\ IndexIsNeverDangling' /\ RecordIsConsistent' /\ RecordsAreKeyed'
         /\ Grows
         /\ checks'[loc[t].id] = c
<1> DEFINE id == loc[t].id
<1>1. /\ id \in CheckIds /\ checks[id] # NoCheck
      /\ loc[t].check.key = checks[id].key
  BY DEF IInv, ThreadOK
<1>2. /\ checks' = [checks EXCEPT ![id] = c]
      /\ checks \in [CheckIds -> AuthorizationCheck]
  BY DEF IInv, TypeOK, Store
<1>3. checks'[id] = c /\ \A i \in CheckIds \ {id} : checks'[i] = checks[i]
  BY <1>1, <1>2
<1>4. c # NoCheck
  BY DEF NoCheck
<1>5. Grows
  BY <1>1, <1>3, <1>4 DEF Grows
<1>6. IndexIsNeverDangling'
  BY <1>1, <1>3, <1>5 DEF IInv, TypeOK, IndexIsNeverDangling, Grows
<1>7. RecordIsConsistent'
  BY <1>1, <1>3 DEF IInv, RecordIsConsistent, Consistent
<1>8. RecordsAreKeyed'
  BY <1>1, <1>3, <1>4, <1>5 DEF IInv, RecordsAreKeyed
<1> QED BY <1>1, <1>2, <1>3, <1>5, <1>6, <1>7, <1>8

LEMMA SettledStates ==
  \A d \in Decisions :
    /\ state_for_decision[d] \in AuthorizationCheckState
    /\ state_for_decision[d] # "absent"
    /\ state_for_decision[d] \notin {"created", "facts_compiled", "policy_evaluating"}
    /\ d # "none"
BY DEF Decisions, state_for_decision, AuthorizationCheckState, TERMINAL_STATES

LEMMA IdleIsLocal == Idle \in Locals
BY DEF Idle, Locals, NoCheck, NoDecision, AuthorizationCheck, PolicyDecision

LEMMA InitOK == Init => IInv
<1> SUFFICES ASSUME Init PROVE IInv
  OBVIOUS
<1>1. TypeOK
  BY IdleIsLocal DEF Init, TypeOK, AuthorizationCheck, PolicyDecision, Labels, NoCheck, NoDecision
<1>2. IndexIsNeverDangling
  BY DEF Init, IndexIsNeverDangling
<1>3. RecordIsConsistent /\ RecordsAreKeyed
  BY DEF Init, RecordIsConsistent, RecordsAreKeyed, Consistent, NoCheck, NoDecision
<1>4. \A t \in Threads : ThreadOK(t)
  BY DEF Init, ThreadOK, HoldsCopy, Idle
<1> QED BY <1>1, <1>2, <1>3, <1>4 DEF IInv

(* A step of one thread leaves the others where they are.                  *)
Moves(t, label, mine) ==
  pc' = [pc EXCEPT ![t] = label] /\ loc' = [loc EXCEPT ![t] = mine]

LEMMA MovesOK ==
  ASSUME TypeOK, NEW t \in Threads, NEW label \in Labels, NEW mine \in Locals,
         Moves(t, label, mine)
  PROVE  /\ pc' \in [Threads -> Labels] /\ loc' \in [Threads -> Locals]
         /\ pc'[t] = label /\ loc'[t] = mine
         /\ \A u \in Threads \ {t} : pc'[u] = pc[u] /\ loc'[u] = loc[u]
BY DEF TypeOK, Moves

LEMMA ThreadStepOK ==
  ASSUME IInv, NEW t \in Threads, NEW label \in Labels, NEW mine \in Locals,
         Moves(t, label, mine), Grows, ThreadOK(t)',
         checks' \in [CheckIds -> AuthorizationCheck],
         index' \in [Keys -> CheckIds \cup {NoId}],
         decisions' \in [CheckIds -> PolicyDecision], UNCHANGED aged,
         IndexIsNeverDangling', RecordIsConsistent', RecordsAreKeyed'
  PROVE  IInv'
<1>1. TypeOK'
  BY MovesOK DEF IInv, TypeOK
<1>2. ASSUME NEW u \in Threads \ {t} PROVE ThreadOK(u)'
  BY <1>2, MovesOK, BystanderOK DEF IInv
<1> QED BY <1>1, <1>2 DEF IInv

(* A step that writes none of the dictionaries.                            *)
LEMMA QuietStepOK ==
  ASSUME IInv, NEW t \in Threads, NEW label \in Labels, NEW mine \in Locals,
         Moves(t, label, mine), ThreadOK(t)',
         UNCHANGED <<checks, index, decisions, aged>>
  PROVE  IInv'
<1>1. Grows /\ IndexIsNeverDangling' /\ RecordIsConsistent' /\ RecordsAreKeyed'
  BY DEF IInv, Grows, IndexIsNeverDangling, RecordIsConsistent, Consistent, RecordsAreKeyed
<1>2. /\ checks' \in [CheckIds -> AuthorizationCheck]
      /\ index' \in [Keys -> CheckIds \cup {NoId}]
      /\ decisions' \in [CheckIds -> PolicyDecision]
  BY DEF IInv, TypeOK
<1> QED BY <1>1, <1>2, ThreadStepOK

LEMMA BeginOK ==
  ASSUME IInv, NEW t \in Threads, NEW op \in {"evaluate", "cancel", "get"},
         NEW k \in Keys \cup {NoKey}, NEW i \in CheckIds \cup {NoId},
         NEW label \in {"get", "insert"},
         Begin(t, op, k, i), Goto(t, label),
         op = "evaluate" => k \in Keys,
         label = "insert" => op = "evaluate",
         label = "get" => /\ i \in CheckIds /\ checks[i] # NoCheck
                          /\ op = "evaluate" => checks[i].key = k
  PROVE  IInv'
<1> DEFINE mine == [Idle EXCEPT !.op = op, !.key = k, !.id = i]
<1>1. mine \in Locals /\ mine.op = op /\ mine.key = k /\ mine.id = i
  BY DEF Idle, Locals, NoCheck, NoDecision, AuthorizationCheck, PolicyDecision
<1>2. Moves(t, label, mine) /\ UNCHANGED <<checks, index, decisions, aged>>
  BY DEF Begin, Goto, Moves
<1>3. label \in Labels
  BY DEF Labels
<1> HIDE DEF mine
<1>4. pc'[t] = label /\ loc'[t] = mine
  BY <1>1, <1>2, <1>3, MovesOK DEF IInv
<1>5. ThreadOK(t)'
  BY <1>1, <1>2, <1>4 DEF ThreadOK, HoldsCopy
<1> QED BY <1>1, <1>2, <1>3, <1>5, QuietStepOK

(* A step that forgets the call.                                           *)
LEMMA ReturnedOK ==
  ASSUME NEW t, pc'[t] = "idle", loc'[t] = Idle PROVE ThreadOK(t)'
BY DEF ThreadOK, HoldsCopy, Idle, NoDecision

(* A step that writes the thread's copy back and keeps it.                 *)
LEMMA TransitionOK ==
  ASSUME IInv, NEW t \in Threads, HoldsCopy(t),
         NEW state \in AuthorizationCheckState,
         NEW d \in Decisions \cup {"none"}, NEW label \in Labels,
         Consistent(Moved(t, state, d), loc[t].id),
         Transition(t, state, d), Goto(t, label),
         label \notin {"idle", "get", "settle"},
         label \notin {"expire", "cancel"} => loc[t].op = "evaluate",
         label \in {"policy", "decide"} => d = "none",
         UNCHANGED <<index, decisions, aged>>
  PROVE  IInv'
<1> DEFINE c == Moved(t, state, d)
           mine == [loc[t] EXCEPT !.check = c]
<1>1. loc[t] \in Locals /\ ThreadOK(t)
  BY DEF IInv, TypeOK
<1>2. /\ c \in AuthorizationCheck /\ c.key = loc[t].check.key
      /\ c.state = state /\ c.decision = d
  BY <1>1 DEF Moved, Locals, AuthorizationCheck
<1>3. c.state # "absent"
  BY <1>2 DEF AuthorizationCheckState, TERMINAL_STATES
<1>4. Store(t, c) /\ Moves(t, label, mine)
  BY DEF Transition, Moves, Goto
<1>5. Consistent(c, loc[t].id)
  OBVIOUS
<1> HIDE DEF c
<1>6. /\ mine \in Locals /\ mine.check = c /\ mine.op = loc[t].op
      /\ mine.key = loc[t].key /\ mine.id = loc[t].id /\ mine.answer = loc[t].answer
  BY <1>1, <1>2 DEF Locals
<1> HIDE DEF mine
<1>7. /\ checks' \in [CheckIds -> AuthorizationCheck] /\ Grows
      /\ IndexIsNeverDangling' /\ RecordIsConsistent' /\ RecordsAreKeyed'
      /\ checks'[loc[t].id] = c
  BY <1>2, <1>3, <1>4, <1>5, StoreOK
<1>8. pc'[t] = label /\ loc'[t] = mine
  BY <1>4, <1>6, MovesOK DEF IInv
<1>9. /\ loc[t].id \in CheckIds /\ checks'[loc[t].id] # NoCheck
      /\ loc[t].op = "evaluate" => loc[t].key \in Keys /\ checks'[loc[t].id].key = loc[t].key
  BY <1>1, <1>7 DEF ThreadOK, Grows
<1>10. loc[t].op # "none" /\ label # "idle" /\ label # "get" /\ label # "settle"
  BY <1>1 DEF ThreadOK, HoldsCopy
<1>11. /\ loc'[t].id = loc[t].id /\ loc'[t].op = loc[t].op /\ loc'[t].key = loc[t].key
       /\ loc'[t].check = c
  BY <1>6, <1>8
<1>12. ThreadOK(t)'
  BY <1>2, <1>3, <1>7, <1>8, <1>9, <1>10, <1>11
    DEF ThreadOK, HoldsCopy, RecordIsConsistent, Consistent
<1>13. /\ index' \in [Keys -> CheckIds \cup {NoId}]
       /\ decisions' \in [CheckIds -> PolicyDecision]
  BY DEF IInv, TypeOK
<1> QED BY <1>4, <1>6, <1>7, <1>12, <1>13, ThreadStepOK

-----------------------------------------------------------------------------
(* One lemma per step that is none of the above.                           *)
LEMMA InsertOK ==
  ASSUME IInv, NEW t \in Threads, Insert(t) PROVE IInv'
<1> DEFINE check == [key |-> loc[t].key, state |-> "created", decision |-> "none"]
<1>1. PICK i \in CheckIds :
        /\ checks[i] = NoCheck
        /\ checks' = [checks EXCEPT ![i] = check]
        /\ loc' = [loc EXCEPT ![t].id = i, ![t].check = check]
  BY DEF Insert
<1> DEFINE mine == [loc[t] EXCEPT !.id = i, !.check = check]
<1>2. /\ loc[t] \in Locals /\ ThreadOK(t) /\ loc[t].key \in Keys /\ loc[t].op = "evaluate"
      /\ checks \in [CheckIds -> AuthorizationCheck]
  BY DEF IInv, TypeOK, ThreadOK, Insert
<1>3. check \in AuthorizationCheck /\ check # NoCheck
  BY <1>2 DEF AuthorizationCheck, AuthorizationCheckState, NoCheck
<1>4. /\ mine \in Locals /\ mine.id = i /\ mine.check = check
      /\ mine.op = "evaluate" /\ mine.key = loc[t].key
  BY <1>2, <1>3 DEF Locals
<1>5. Moves(t, "publish", mine) /\ "publish" \in Labels
  BY <1>1 DEF Insert, Moves, Goto, Labels
<1>6. pc'[t] = "publish" /\ loc'[t] = mine
  BY <1>4, <1>5, MovesOK DEF IInv
<1>7. /\ checks' \in [CheckIds -> AuthorizationCheck] /\ checks'[i] = check
      /\ \A j \in CheckIds \ {i} : checks'[j] = checks[j]
  BY <1>1, <1>2, <1>3
<1>8. UNCHANGED <<index, decisions, aged>>
  BY DEF Insert
<1>9. Grows
  BY <1>1, <1>7, <1>8 DEF Grows
<1>10. IndexIsNeverDangling'
  <2>1. \A k \in Keys : index[k] # NoId => index[k] \in CheckIds /\ index[k] # i
    BY <1>1, ChecksAssumption DEF IInv, TypeOK, IndexIsNeverDangling, NoCheck
  <2> QED BY <1>7, <1>8, <2>1 DEF IInv, IndexIsNeverDangling
<1>11. RecordIsConsistent'
  BY <1>7, <1>8 DEF IInv, RecordIsConsistent, Consistent
<1>12. RecordsAreKeyed'
  <2>1. decisions[i] = NoDecision
    BY <1>1 DEF IInv, RecordsAreKeyed
  <2> QED BY <1>2, <1>3, <1>7, <1>8, <2>1 DEF IInv, RecordsAreKeyed
<1>13. ThreadOK(t)'
  BY <1>2, <1>3, <1>4, <1>6, <1>7 DEF ThreadOK, HoldsCopy, Consistent
<1>14. /\ index' \in [Keys -> CheckIds \cup {NoId}]
       /\ decisions' \in [CheckIds -> PolicyDecision]
  BY <1>8 DEF IInv, TypeOK
<1> QED BY <1>4, <1>5, <1>7, <1>8, <1>9, <1>10, <1>11, <1>12, <1>13, <1>14, ThreadStepOK

LEMMA PublishOK ==
  ASSUME IInv, NEW t \in Threads, Publish(t) PROVE IInv'
<1> DEFINE k == loc[t].key  id == loc[t].id
<1>1. /\ loc[t] \in Locals /\ ThreadOK(t) /\ k \in Keys /\ id \in CheckIds
      /\ checks[id].key = k
  BY DEF IInv, TypeOK, ThreadOK, HoldsCopy, Publish
<1>2. /\ index' \in [Keys -> CheckIds \cup {NoId}] /\ index'[k] = id
      /\ \A j \in Keys \ {k} : index'[j] = index[j]
  BY <1>1 DEF IInv, TypeOK, Publish
<1>3. UNCHANGED <<checks, decisions, aged, loc>>
  BY DEF Publish
<1>4. Moves(t, "dispatch", loc[t]) /\ "dispatch" \in Labels
  BY <1>3 DEF IInv, TypeOK, Publish, Moves, Goto, Labels
<1>5. pc'[t] = "dispatch" /\ loc'[t] = loc[t]
  BY <1>1, <1>4, MovesOK DEF IInv
<1>6. Grows
  BY <1>3 DEF Grows
<1>7. IndexIsNeverDangling'
  BY <1>1, <1>2, <1>3 DEF IInv, IndexIsNeverDangling
<1>8. RecordIsConsistent' /\ RecordsAreKeyed'
  BY <1>3 DEF IInv, RecordIsConsistent, Consistent, RecordsAreKeyed
<1>9. ThreadOK(t)'
  BY <1>1, <1>3, <1>5 DEF ThreadOK, HoldsCopy, Consistent, Publish
<1>10. /\ checks' \in [CheckIds -> AuthorizationCheck]
       /\ decisions' \in [CheckIds -> PolicyDecision]
  BY <1>3 DEF IInv, TypeOK
<1> QED BY <1>1, <1>2, <1>3, <1>4, <1>6, <1>7, <1>8, <1>9, <1>10, ThreadStepOK

LEMMA DecideOK ==
  ASSUME IInv, NEW t \in Threads, NEW d \in Outcomes, Decide(t, d) PROVE IInv'
<1> DEFINE id == loc[t].id
           decision == [key |-> loc[t].key, decision |-> d]
           mine == [loc[t] EXCEPT !.answer = decision]
<1>1. /\ loc[t] \in Locals /\ ThreadOK(t) /\ loc[t].key \in Keys /\ id \in CheckIds
      /\ checks[id] # NoCheck /\ checks[id].key = loc[t].key
      /\ loc[t].check.decision = "none" /\ loc[t].op = "evaluate"
  BY DEF IInv, TypeOK, ThreadOK, HoldsCopy, Decide
<1>2. d \in Decisions /\ d # "none"
  BY ChecksAssumption DEF Decisions
<1>3. decision \in PolicyDecision /\ decision # NoDecision
  BY <1>1, <1>2 DEF PolicyDecision, NoDecision
<1>4. /\ decisions' \in [CheckIds -> PolicyDecision] /\ decisions'[id] = decision
      /\ \A j \in CheckIds \ {id} : decisions'[j] = decisions[j]
  BY <1>1, <1>3 DEF IInv, TypeOK, Decide
<1>5. UNCHANGED <<checks, index, aged>>
  BY DEF Decide
<1>6. Moves(t, "settle", mine) /\ "settle" \in Labels
  BY DEF Decide, Moves, Goto, Labels
<1>7. /\ mine \in Locals /\ mine.answer = decision /\ mine.id = id
      /\ mine.key = loc[t].key /\ mine.op = "evaluate" /\ mine.check = loc[t].check
  BY <1>1, <1>3 DEF Locals
<1>8. pc'[t] = "settle" /\ loc'[t] = mine
  BY <1>6, <1>7, MovesOK DEF IInv
<1>9. Grows
  BY <1>3, <1>4, <1>5 DEF Grows
<1>10. IndexIsNeverDangling'
  BY <1>5 DEF IInv, IndexIsNeverDangling
<1>11. RecordIsConsistent'
  BY <1>3, <1>4, <1>5 DEF IInv, RecordIsConsistent, Consistent
<1>12. RecordsAreKeyed'
  BY <1>1, <1>4, <1>5 DEF IInv, RecordsAreKeyed
<1>13. ThreadOK(t)'
  <2>1. /\ loc'[t].id = id /\ loc'[t].key = loc[t].key /\ loc'[t].op = "evaluate"
        /\ loc'[t].check = loc[t].check /\ loc'[t].answer.decision = d
    BY <1>7, <1>8
  <2>2. loc[t].check.key = checks[id].key /\ loc[t].check.state # "absent"
    BY <1>1 DEF ThreadOK, HoldsCopy, Decide
  <2>3. Consistent(loc[t].check, id)
    BY <1>1 DEF ThreadOK, HoldsCopy, Decide
  <2> HIDE DEF decision, mine
  <2>4. decisions'[id] # NoDecision
    BY <1>3, <1>4
  <2> QED BY <1>1, <1>2, <1>5, <1>8, <2>1, <2>2, <2>3, <2>4 DEF ThreadOK, HoldsCopy, Consistent
<1>14. /\ checks' \in [CheckIds -> AuthorizationCheck]
       /\ index' \in [Keys -> CheckIds \cup {NoId}]
  BY <1>5 DEF IInv, TypeOK
<1> QED BY <1>4, <1>5, <1>6, <1>7, <1>9, <1>10, <1>11, <1>12, <1>13, <1>14, ThreadStepOK

(* _expire_if_needed and cancel() may write and then forget the call.      *)
LEMMA ReturnOK ==
  ASSUME IInv, NEW t \in Threads, HoldsCopy(t), Return(t),
         \/ UNCHANGED checks
         \/ \E state \in {"expired", "cancelled"} :
              Store(t, Moved(t, state, loc[t].check.decision)),
         UNCHANGED <<index, decisions, aged>>
  PROVE  IInv'
<1>1. Moves(t, "idle", Idle) /\ "idle" \in Labels /\ Idle \in Locals
  BY IdleIsLocal DEF Return, Goto, Moves, Labels
<1>2. pc'[t] = "idle" /\ loc'[t] = Idle
  BY <1>1, MovesOK DEF IInv
<1>3. ThreadOK(t)'
  BY <1>2, ReturnedOK
<1>4. CASE UNCHANGED checks
  BY <1>1, <1>3, <1>4, QuietStepOK
<1>5. ASSUME NEW state \in {"expired", "cancelled"},
             Store(t, Moved(t, state, loc[t].check.decision))
      PROVE  IInv'
  <2> DEFINE c == Moved(t, state, loc[t].check.decision)
  <2>1. loc[t] \in Locals
    BY DEF IInv, TypeOK
  <2>2. c \in AuthorizationCheck /\ c.key = loc[t].check.key /\ c.state = state
    BY <2>1 DEF Moved, Locals, AuthorizationCheck, AuthorizationCheckState, TERMINAL_STATES
  <2>3. c.state # "absent" /\ Consistent(c, loc[t].id)
    BY <2>2 DEF Consistent
  <2> HIDE DEF c
  <2>4. /\ checks' \in [CheckIds -> AuthorizationCheck] /\ Grows
        /\ IndexIsNeverDangling' /\ RecordIsConsistent' /\ RecordsAreKeyed'
    BY <1>5, <2>2, <2>3, StoreOK DEF c
  <2>5. /\ index' \in [Keys -> CheckIds \cup {NoId}]
        /\ decisions' \in [CheckIds -> PolicyDecision]
    BY DEF IInv, TypeOK
  <2> QED BY <1>1, <1>3, <2>4, <2>5, ThreadStepOK
<1> QED BY <1>4, <1>5

-----------------------------------------------------------------------------
LEMMA StepOK == IInv /\ [Next]_vars => IInv'
<1> SUFFICES ASSUME IInv, [Next]_vars PROVE IInv'
  OBVIOUS
<1>1. ASSUME NEW t \in Threads, NEW k \in Keys, Evaluate(t, k) PROVE IInv'
  <2> DEFINE label == IF index[k] = NoId THEN "insert" ELSE "get"
  <2>1. Begin(t, "evaluate", k, index[k]) /\ Goto(t, label)
    BY <1>1 DEF Evaluate
  <2>2. index[k] \in CheckIds \cup {NoId}
    BY DEF IInv, TypeOK
  <2>3. index[k] # NoId =>
          /\ index[k] \in CheckIds /\ checks[index[k]].key = k
          /\ checks[index[k]] # NoCheck
    BY <2>2, ChecksAssumption DEF IInv, IndexIsNeverDangling, NoCheck
  <2> QED BY <2>1, <2>2, <2>3, BeginOK
<1>2. ASSUME NEW t \in Threads, NEW i \in CheckIds, Cancel(t, i) \/ Inspect(t, i)
      PROVE  IInv'
  <2>1. PICK op \in {"cancel", "get"} :
          Begin(t, op, NoKey, i) /\ Goto(t, "get") /\ checks[i] # NoCheck
    BY <1>2 DEF Cancel, Inspect
  <2> QED BY <2>1, BeginOK
<1>3. ASSUME NEW t \in Threads, Insert(t) \/ Publish(t) PROVE IInv'
  BY <1>3, InsertOK, PublishOK
<1>4. ASSUME NEW t \in Threads, Get(t) PROVE IInv'
  <2> DEFINE check == checks[loc[t].id]
             mine == [loc[t] EXCEPT !.check = check]
  <2>1. /\ loc[t] \in Locals /\ ThreadOK(t) /\ loc[t].id \in CheckIds
        /\ check \in AuthorizationCheck /\ check # NoCheck
    BY <1>4 DEF IInv, TypeOK, ThreadOK, Get
  <2>2. check.state # "absent" /\ Consistent(check, loc[t].id)
    BY <2>1 DEF IInv, RecordsAreKeyed, RecordIsConsistent
  <2>3. /\ mine \in Locals /\ mine.check = check /\ mine.op = loc[t].op
        /\ mine.key = loc[t].key /\ mine.id = loc[t].id
    BY <2>1 DEF Locals
  <2>4. Moves(t, "expire", mine) /\ UNCHANGED <<checks, index, decisions, aged>>
    BY <1>4 DEF Get, Goto, Moves
  <2>5. "expire" \in Labels
    BY DEF Labels
  <2>6. pc'[t] = "expire" /\ loc'[t] = mine
    BY <2>3, <2>4, <2>5, MovesOK DEF IInv
  <2>7. ThreadOK(t)'
    <3>1. /\ checks'[loc[t].id] = check /\ decisions' = decisions /\ pc[t] = "get"
          /\ loc'[t].check = check /\ loc'[t].op = loc[t].op
          /\ loc'[t].key = loc[t].key /\ loc'[t].id = loc[t].id
      BY <1>4, <2>3, <2>6 DEF Get
    <3>2. /\ loc[t].op # "none" /\ loc[t].op = "evaluate" => loc[t].key \in Keys
          /\ loc[t].op = "evaluate" => check.key = loc[t].key
      BY <2>1, <3>1 DEF ThreadOK
    <3>3. pc'[t] = "expire"
      BY <2>6
    <3> HIDE DEF check, mine
    <3>4. Consistent(loc[t].check, loc[t].id)'
      BY <2>2, <3>1 DEF Consistent
    <3> QED BY <2>1, <2>2, <3>1, <3>2, <3>3, <3>4 DEF ThreadOK, HoldsCopy
  <2> QED BY <2>3, <2>4, <2>5, <2>7, QuietStepOK
<1>5. ASSUME NEW t \in Threads, ExpireIfNeeded(t) PROVE IInv'
  <2> DEFINE overdue == loc[t].check.state \notin TERMINAL_STATES /\ loc[t].id \in aged
             d == loc[t].check.decision
             check == IF overdue THEN Moved(t, "expired", d) ELSE loc[t].check
             label == CASE pc[t] = "expire_settled" -> "answer"
                        [] loc[t].op = "cancel" -> "cancel"
                        [] OTHER -> "dispatch"
  <2>1. HoldsCopy(t) /\ ThreadOK(t) /\ loc[t] \in Locals
    BY <1>5 DEF IInv, TypeOK, HoldsCopy, ExpireIfNeeded
  <2>2. CASE loc[t].op = "get"
    <3>1. Return(t) /\ UNCHANGED <<index, decisions, aged>>
      BY <1>5, <2>2 DEF ExpireIfNeeded
    <3>2. \/ UNCHANGED checks
          \/ \E state \in {"expired", "cancelled"} :
               Store(t, Moved(t, state, loc[t].check.decision))
      BY <1>5 DEF ExpireIfNeeded
    <3> HIDE DEF d
    <3> QED BY <2>1, <3>1, <3>2, ReturnOK
  <2>3. CASE loc[t].op # "get"
    <3>1. /\ loc' = [loc EXCEPT ![t].check = check] /\ Goto(t, label)
          /\ UNCHANGED <<index, decisions, aged>>
      BY <1>5, <2>3 DEF ExpireIfNeeded
    <3>2. label \in {"answer", "cancel", "dispatch"} /\ label \in Labels
      BY DEF Labels
    <3>3. label # "cancel" => loc[t].op = "evaluate"
      BY <1>5, <2>1, <2>3 DEF ExpireIfNeeded, ThreadOK, Locals
    <3>4. CASE overdue
      <4>1. Transition(t, "expired", d)
        BY <1>5, <3>1, <3>4 DEF ExpireIfNeeded, Transition
      <4>2. d \in Decisions \cup {"none"} /\ "expired" \in AuthorizationCheckState
        BY <2>1 DEF Locals, AuthorizationCheck, AuthorizationCheckState, TERMINAL_STATES
      <4>3. Consistent(Moved(t, "expired", d), loc[t].id)
        <5>1. Moved(t, "expired", d).state = "expired"
          BY <2>1 DEF Moved, Locals, AuthorizationCheck
        <5> QED BY <5>1 DEF Consistent
      <4> HIDE DEF label, d, overdue
      <4> QED BY <2>1, <3>1, <3>2, <3>3, <4>1, <4>2, <4>3, TransitionOK
    <3>5. CASE ~overdue
      <4>1. UNCHANGED checks /\ check = loc[t].check
        BY <1>5, <3>5 DEF ExpireIfNeeded
      <4>2. Moves(t, label, loc[t]) /\ UNCHANGED <<checks, index, decisions, aged>>
        BY <2>1, <3>1, <4>1 DEF Moves, Goto, Locals, IInv, TypeOK
      <4> HIDE DEF label, d, overdue
      <4>3. pc'[t] = label /\ loc'[t] = loc[t]
        BY <2>1, <3>2, <4>2, MovesOK DEF IInv
      <4>4. ThreadOK(t)'
        BY <2>1, <3>2, <3>3, <4>2, <4>3 DEF ThreadOK, HoldsCopy, Consistent
      <4> QED BY <2>1, <3>2, <4>2, <4>4, QuietStepOK
    <3> QED BY <3>4, <3>5
  <2> QED BY <2>2, <2>3
<1>6. ASSUME NEW t \in Threads, CancelUnlessTerminal(t) PROVE IInv'
  BY <1>6, ReturnOK DEF CancelUnlessTerminal, HoldsCopy
<1>7. ASSUME NEW t \in Threads, ReturnSettled(t) PROVE IInv'
  <2>1. /\ loc[t] \in Locals /\ ThreadOK(t)
        /\ Moves(t, "expire_settled", loc[t]) /\ "expire_settled" \in Labels
        /\ UNCHANGED <<checks, index, decisions, aged>>
    BY <1>7 DEF IInv, TypeOK, ReturnSettled, Moves, Goto, Labels
  <2>2. pc'[t] = "expire_settled" /\ loc'[t] = loc[t]
    BY <2>1, MovesOK DEF IInv
  <2>3. ThreadOK(t)'
    BY <1>7, <2>1, <2>2 DEF ReturnSettled, ThreadOK, HoldsCopy, Consistent
  <2> QED BY <2>1, <2>3, QuietStepOK
<1>8. ASSUME NEW t \in Threads,
             FactsCompiled(t) \/ PolicyEvaluating(t)
      PROVE  IInv'
  <2>1. /\ loc[t] \in Locals /\ ThreadOK(t) /\ HoldsCopy(t)
        /\ loc[t].op = "evaluate" /\ loc[t].check.decision = "none"
    BY <1>8 DEF IInv, TypeOK, ThreadOK, HoldsCopy, FactsCompiled, PolicyEvaluating,
       Settled, Consistent, Locals, AuthorizationCheck, AuthorizationCheckState
  <2>2. PICK state \in {"facts_compiled", "policy_evaluating"}, label \in {"policy", "decide"} :
          /\ Transition(t, state, "none") /\ Goto(t, label)
          /\ UNCHANGED <<index, decisions, aged>>
    BY <1>8, <2>1 DEF FactsCompiled, PolicyEvaluating
  <2>3. state \in AuthorizationCheckState /\ label \in Labels
    BY DEF AuthorizationCheckState, Labels
  <2>4. Consistent(Moved(t, state, "none"), loc[t].id)
    <3>1. /\ Moved(t, state, "none").state = state
          /\ Moved(t, state, "none").decision = "none"
      BY <2>1 DEF Moved, Locals, AuthorizationCheck
    <3> QED BY <3>1 DEF Consistent
  <2> QED BY <2>1, <2>2, <2>3, <2>4, TransitionOK
<1>9. ASSUME NEW t \in Threads, NEW d \in Outcomes, Decide(t, d) PROVE IInv'
  BY <1>9, DecideOK
<1>10. ASSUME NEW t \in Threads, DecideRaises(t) PROVE IInv'
  BY <1>10, ReturnOK DEF DecideRaises, HoldsCopy
<1>11. ASSUME NEW t \in Threads, Settle(t) PROVE IInv'
  <2> DEFINE d == loc[t].answer.decision
  <2>1. /\ loc[t] \in Locals /\ ThreadOK(t) /\ HoldsCopy(t)
        /\ loc[t].op = "evaluate" /\ d \in Decisions
        /\ decisions[loc[t].id] # NoDecision
    BY <1>11 DEF IInv, TypeOK, ThreadOK, HoldsCopy, Settle
  <2>2. /\ Transition(t, state_for_decision[d], d) /\ Goto(t, "answer")
        /\ UNCHANGED <<index, decisions, aged>> /\ "answer" \in Labels
    BY <1>11 DEF Settle, Labels
  <2>3. Consistent(Moved(t, state_for_decision[d], d), loc[t].id)
    <3>1. /\ Moved(t, state_for_decision[d], d).state = state_for_decision[d]
          /\ Moved(t, state_for_decision[d], d).decision = d
      BY <2>1 DEF Moved, Locals, AuthorizationCheck
    <3> QED BY <2>1, <3>1, SettledStates DEF Consistent
  <2>4. state_for_decision[d] \in AuthorizationCheckState
    BY <2>1, SettledStates
  <2> HIDE DEF d
  <2> QED BY <2>1, <2>2, <2>3, <2>4, TransitionOK
<1>12. ASSUME NEW t \in Threads, Answer(t) PROVE IInv'
  <2> DEFINE id == loc[t].id
             mine == [loc[t] EXCEPT !.answer = decisions[id]]
  <2>1. /\ loc[t] \in Locals /\ ThreadOK(t) /\ id \in CheckIds
        /\ decisions[id] \in PolicyDecision /\ checks[id].key = loc[t].key
        /\ loc[t].op = "evaluate" /\ loc[t].key \in Keys
    BY <1>12 DEF IInv, TypeOK, ThreadOK, HoldsCopy, Answer
  <2>2. decisions[id] # NoDecision => decisions[id].key = loc[t].key
    BY <2>1 DEF IInv, RecordsAreKeyed
  <2>3. /\ mine \in Locals /\ mine.answer = decisions[id] /\ mine.key = loc[t].key
        /\ mine.op = "evaluate"
    BY <2>1 DEF Locals
  <2>4. /\ Moves(t, "idle", mine) /\ "idle" \in Labels
        /\ UNCHANGED <<checks, index, decisions, aged>>
    BY <1>12 DEF Answer, Goto, Moves, Labels
  <2>5. pc'[t] = "idle" /\ loc'[t] = mine
    BY <2>3, <2>4, MovesOK DEF IInv
  <2> HIDE DEF mine
  <2>6. ThreadOK(t)'
    BY <2>1, <2>2, <2>3, <2>5 DEF ThreadOK, HoldsCopy
  <2> QED BY <2>3, <2>4, <2>6, QuietStepOK
<1>13. ASSUME NEW i \in CheckIds, Age(i) PROVE IInv'
  <2>1. UNCHANGED <<checks, index, decisions, pc, loc>> /\ aged' \subseteq CheckIds
    BY <1>13 DEF IInv, TypeOK, Age
  <2>2. TypeOK' /\ IndexIsNeverDangling' /\ RecordIsConsistent' /\ RecordsAreKeyed'
    BY <2>1 DEF IInv, TypeOK, IndexIsNeverDangling, RecordIsConsistent, Consistent, RecordsAreKeyed
  <2>3. ASSUME NEW t \in Threads PROVE ThreadOK(t)'
    BY <2>1, BystanderOK DEF IInv, Grows
  <2> QED BY <2>2, <2>3 DEF IInv
<1>14. CASE UNCHANGED vars
  <2>1. UNCHANGED <<checks, index, decisions, aged, pc, loc>>
    BY <1>14 DEF vars
  <2>2. TypeOK' /\ IndexIsNeverDangling' /\ RecordIsConsistent' /\ RecordsAreKeyed'
    BY <2>1 DEF IInv, TypeOK, IndexIsNeverDangling, RecordIsConsistent, Consistent, RecordsAreKeyed
  <2>3. ASSUME NEW t \in Threads PROVE ThreadOK(t)'
    BY <2>1, BystanderOK DEF IInv, Grows
  <2> QED BY <2>2, <2>3 DEF IInv
<1> QED
  BY <1>1, <1>2, <1>3, <1>4, <1>5, <1>6, <1>7, <1>8, <1>9, <1>10, <1>11, <1>12,
     <1>13, <1>14 DEF Next, Step

(* The dictionaries and the threads' copies fit in every behaviour.        *)
THEOREM ThreadsKeepOrder == Spec => []IInv
BY InitOK, StepOK, PTL DEF Spec

(* Every dictionary is well typed, whoever writes it and when.             *)
THEOREM TypeCorrect == Spec => []TypeOK
<1>1. IInv => TypeOK BY DEF IInv
<1> QED BY <1>1, ThreadsKeepOrder, PTL

(* get() finds the record of every id the index names, of the index's key: *)
(* create() publishes an id only after its record.                         *)
THEOREM IndexSafe == Spec => []IndexIsNeverDangling
<1>1. IInv => IndexIsNeverDangling BY DEF IInv
<1> QED BY <1>1, ThreadsKeepOrder, PTL

(* Writing stale copies back whole never leaves a record whose state and   *)
(* decision disagree, nor a settled check without a decision to read.      *)
THEOREM RecordsConsistent == Spec => []RecordIsConsistent
<1>1. IInv => RecordIsConsistent BY DEF IInv
<1> QED BY <1>1, ThreadsKeepOrder, PTL

(* No request is answered with the decision of another session's or        *)
(* another tool's check.                                                   *)
THEOREM AnswersKeyed == Spec => []AnswerIsForItsKey
<1>1. IInv => AnswerIsForItsKey BY DEF IInv, ThreadOK, AnswerIsForItsKey
<1> QED BY <1>1, ThreadsKeepOrder, PTL

-----------------------------------------------------------------------------
(* One request at a time.                                                  *)
AtMostOneBusy ==
  \A t, u \in Threads : pc[t] # "idle" /\ pc[u] # "idle" => t = u

(* A decision on file is that of a settled record, except between Decide   *)
(* and Settle; a check only expires or is cancelled undecided or while it  *)
(* waits for a human.                                                      *)
VerdictKept(i) ==
  /\ decisions[i] # NoDecision =>
       /\ decisions[i].decision \in Outcomes
       /\ \/ Settled(checks[i]) /\ checks[i].decision = decisions[i].decision
          \/ \E t \in Threads : pc[t] = "settle" /\ loc[t].id = i
  /\ checks[i].state \in {"expired", "cancelled"} =>
       checks[i].decision \in {"none", "ESCALATE_HUMAN"}

(* A thread's copy is the record, and the index names the check of every   *)
(* thread that evaluates one or has been answered.                         *)
AloneOK(t) ==
  /\ HoldsCopy(t) => loc[t].check = checks[loc[t].id]
  /\ pc[t] \in {"insert", "publish"} => index[loc[t].key] = NoId
  /\ pc[t] = "publish" => decisions[loc[t].id] = NoDecision
  /\ pc[t] \in {"policy", "decide", "settle"} => ~Settled(loc[t].check)
  /\ pc[t] \in {"expire_settled", "answer"} => Settled(loc[t].check)
  /\ pc[t] = "settle" => loc[t].answer.decision = decisions[loc[t].id].decision
  /\ \/ Answered(t)
     \/ loc[t].op = "evaluate" /\ pc[t] \notin {"idle", "insert", "publish"}
     => loc[t].id \in CheckIds /\ index[loc[t].key] = loc[t].id
  /\ Answered(t) =>
       (loc[t].answer.decision \in {"ALLOW", "AUTO_APPROVE_EPHEMERAL_GRANT"}
          <=> loc[t].check.state \in EXECUTABLE_STATES)

Alone ==
  /\ AtMostOneBusy
  /\ \A i \in CheckIds : VerdictKept(i)
  /\ \A t \in Threads : AloneOK(t)

LEMMA InitAlone == Init => Alone
<1> SUFFICES ASSUME Init PROVE Alone
  OBVIOUS
<1>1. AtMostOneBusy
  BY DEF Init, AtMostOneBusy
<1>2. ASSUME NEW i \in CheckIds PROVE VerdictKept(i)
  BY DEF Init, VerdictKept, NoCheck
<1>3. ASSUME NEW t \in Threads PROVE AloneOK(t)
  BY DEF Init, AloneOK, HoldsCopy, Answered, Idle
<1> QED BY <1>1, <1>2, <1>3 DEF Alone

(* A step of one thread leaves the others where they are, and an index     *)
(* entry is never overwritten.                                             *)
OthersStay(t) ==
  \A u \in Threads \ {t} : pc'[u] = pc[u] /\ loc'[u] = loc[u]

IndexKept == \A k \in Keys : index[k] # NoId => index'[k] = index[k]

LEMMA AloneStepOK ==
  ASSUME IInv, Alone, AtMostOneBusy', NEW t \in Threads,
         pc[t] # "idle" \/ pc'[t] # "idle", OthersStay(t), IndexKept,
         \A i \in CheckIds : VerdictKept(i)', AloneOK(t)'
  PROVE  Alone'
<1>1. ASSUME NEW u \in Threads \ {t} PROVE AloneOK(u)'
  <2>1. pc'[u] = pc[u] /\ loc'[u] = loc[u] /\ pc[u] = "idle"
    BY DEF OthersStay, Alone, AtMostOneBusy
  <2>2. Answered(u) =>
          /\ loc[u].key \in Keys /\ loc[u].id \in CheckIds
          /\ index[loc[u].key] = loc[u].id
    BY DEF IInv, ThreadOK, Alone, AloneOK, Answered
  <2>3. Answered(u) => index'[loc[u].key] = loc[u].id
    BY <2>2, ChecksAssumption DEF IndexKept
  <2> QED BY <2>1, <2>2, <2>3 DEF Alone, AloneOK, HoldsCopy, Answered
<1> QED BY <1>1 DEF Alone

LEMMA VerdictsUntouched ==
  ASSUME Alone, NEW t \in Threads, pc[t] # "settle", OthersStay(t),
         UNCHANGED <<checks, decisions>>
  PROVE  \A i \in CheckIds : VerdictKept(i)'
<1> SUFFICES ASSUME NEW i \in CheckIds PROVE VerdictKept(i)'
  OBVIOUS
<1>1. VerdictKept(i)
  BY DEF Alone
<1>2. ASSUME NEW u \in Threads, pc[u] = "settle", loc[u].id = i
      PROVE  pc'[u] = "settle" /\ loc'[u].id = i
  BY <1>2 DEF OthersStay
<1> QED BY <1>1, <1>2 DEF VerdictKept, Settled

(* A copy written back replaces the record it was read from.               *)
LEMMA VerdictsWritten ==
  ASSUME IInv, Alone, NEW t \in Threads, HoldsCopy(t), OthersStay(t),
         NEW c, Store(t, c), UNCHANGED decisions,
         c.state \in {"expired", "cancelled"} =>
           c.decision \in {"none", "ESCALATE_HUMAN"},
         decisions[loc[t].id] # NoDecision =>
           Settled(c) /\ c.decision = decisions[loc[t].id].decision
  PROVE  \A i \in CheckIds : VerdictKept(i)'
<1> SUFFICES ASSUME NEW i \in CheckIds PROVE VerdictKept(i)'
  OBVIOUS
<1>1. VerdictKept(i) /\ loc[t].id \in CheckIds
  BY DEF Alone, IInv, ThreadOK
<1>2. checks' = [checks EXCEPT ![loc[t].id] = c] /\ DOMAIN checks = CheckIds
  BY DEF Store, IInv, TypeOK
<1>3. CASE i = loc[t].id
  BY <1>1, <1>2, <1>3 DEF VerdictKept, Settled
<1>4. CASE i # loc[t].id
  <2>1. checks'[i] = checks[i] /\ decisions'[i] = decisions[i]
    BY <1>2, <1>4
  <2>2. ASSUME NEW u \in Threads, pc[u] = "settle", loc[u].id = i PROVE FALSE
    BY <1>4, <2>2 DEF Alone, AtMostOneBusy, HoldsCopy
  <2> QED BY <1>1, <2>1, <2>2 DEF VerdictKept, Settled
<1> QED BY <1>3, <1>4

(* What a thread that holds a copy and is not about to settle it knows.    *)
LEMMA CopyOnFile ==
  ASSUME IInv, Alone, NEW t \in Threads, HoldsCopy(t), pc[t] # "settle"
  PROVE  /\ loc[t] \in Locals /\ loc[t].id \in CheckIds
         /\ loc[t].check = checks[loc[t].id]
         /\ decisions[loc[t].id] # NoDecision =>
              /\ Settled(loc[t].check)
              /\ loc[t].check.decision = decisions[loc[t].id].decision
              /\ decisions[loc[t].id].decision \in Outcomes
         /\ loc[t].check.state \notin TERMINAL_STATES =>
              loc[t].check.decision \in {"none", "ESCALATE_HUMAN"}
<1> DEFINE id == loc[t].id
<1>1. /\ loc[t] \in Locals /\ id \in CheckIds /\ loc[t].check = checks[id]
      /\ Consistent(loc[t].check, id) /\ loc[t].check.state # "absent"
  BY DEF IInv, TypeOK, ThreadOK, Alone, AloneOK
<1>2. ASSUME NEW u \in Threads, pc[u] = "settle" PROVE FALSE
  BY <1>2 DEF Alone, AtMostOneBusy, HoldsCopy
<1>3. VerdictKept(id)
  BY <1>1 DEF Alone
<1>4. decisions[id] # NoDecision =>
        /\ Settled(checks[id]) /\ checks[id].decision = decisions[id].decision
        /\ decisions[id].decision \in Outcomes
  BY <1>2, <1>3 DEF VerdictKept
<1>5. ASSUME loc[t].check.state \notin TERMINAL_STATES
      PROVE  loc[t].check.decision \in {"none", "ESCALATE_HUMAN"}
  <2>1. loc[t].check.state \in AuthorizationCheckState /\ loc[t].check.decision \in Decisions \cup {"none"}
    BY <1>1 DEF Locals, AuthorizationCheck
  <2>2. CASE loc[t].check.state = "waiting_for_human"
    BY <1>1, <2>1, <2>2 DEF Consistent, state_for_decision, Decisions
  <2>3. CASE loc[t].check.state # "waiting_for_human"
    BY <1>1, <1>5, <2>1, <2>3 DEF Consistent, AuthorizationCheckState
  <2> QED BY <2>2, <2>3
<1> QED BY <1>1, <1>4, <1>5

-----------------------------------------------------------------------------
(* One lemma per kind of step.                                             *)
LEMMA TypedThread ==
  ASSUME IInv, NEW t \in Threads
  PROVE  /\ loc[t] \in Locals /\ ThreadOK(t)
         /\ DOMAIN loc = Threads /\ DOMAIN pc = Threads /\ DOMAIN index = Keys
         /\ DOMAIN checks = CheckIds /\ DOMAIN decisions = CheckIds
BY DEF IInv, TypeOK

LEMMA BeginAlone ==
  ASSUME IInv, Alone, AtMostOneBusy', NEW t \in Threads, NEW op, NEW k, NEW i,
         NEW label \in {"get", "insert"}, Begin(t, op, k, i), Goto(t, label),
         op = "evaluate" => k \in Keys /\ i = index[k],
         op = "evaluate" => label = (IF i = NoId THEN "insert" ELSE "get"),
         label = "insert" => op = "evaluate"
  PROVE  Alone'
<1>1. /\ loc' = [loc EXCEPT ![t] = [Idle EXCEPT !.op = op, !.key = k, !.id = i]]
      /\ pc' = [pc EXCEPT ![t] = label] /\ UNCHANGED <<checks, index, decisions>>
      /\ pc[t] = "idle"
  BY DEF Begin, Goto
<1>2. /\ pc'[t] = label /\ loc'[t].op = op /\ loc'[t].key = k /\ loc'[t].id = i
      /\ OthersStay(t)
  BY <1>1, TypedThread DEF OthersStay, Idle
<1>3. IndexKept
  BY <1>1 DEF IndexKept
<1>4. \A j \in CheckIds : VerdictKept(j)'
  BY <1>1, <1>2, VerdictsUntouched
<1>5. op = "evaluate" /\ label = "get" => i \in CheckIds
  BY DEF IInv, TypeOK
<1>6. AloneOK(t)'
  BY <1>1, <1>2, <1>5 DEF AloneOK, HoldsCopy, Answered
<1> QED BY <1>2, <1>3, <1>4, <1>6, AloneStepOK

LEMMA InsertAlone ==
  ASSUME IInv, Alone, AtMostOneBusy', NEW t \in Threads, Insert(t) PROVE Alone'
<1> DEFINE check == [key |-> loc[t].key, state |-> "created", decision |-> "none"]
<1>1. PICK i \in CheckIds :
        /\ checks[i] = NoCheck
        /\ checks' = [checks EXCEPT ![i] = check]
        /\ loc' = [loc EXCEPT ![t].id = i, ![t].check = check]
  BY DEF Insert
<1>2. /\ pc' = [pc EXCEPT ![t] = "publish"] /\ pc[t] = "insert"
      /\ UNCHANGED <<index, decisions>>
  BY DEF Insert, Goto
<1>3. /\ pc'[t] = "publish" /\ loc'[t].id = i /\ loc'[t].check = check
      /\ loc'[t].key = loc[t].key /\ checks'[i] = check /\ OthersStay(t)
      /\ \A j \in CheckIds \ {i} : checks'[j] = checks[j]
  BY <1>1, <1>2, TypedThread DEF OthersStay, Locals
<1>4. IndexKept
  BY <1>2 DEF IndexKept
<1>5. decisions[i] = NoDecision
  BY <1>1 DEF IInv, RecordsAreKeyed
<1>6. ASSUME NEW j \in CheckIds PROVE VerdictKept(j)'
  <2>1. CASE j = i
    BY <1>2, <1>3, <1>5, <2>1 DEF VerdictKept
  <2>2. CASE j # i
    <3>1. VerdictKept(j) /\ checks'[j] = checks[j] /\ decisions'[j] = decisions[j]
      BY <1>2, <1>3, <2>2 DEF Alone
    <3>2. ASSUME NEW u \in Threads, pc[u] = "settle" PROVE FALSE
      BY <1>2, <3>2 DEF Alone, AtMostOneBusy
    <3> QED BY <3>1, <3>2 DEF VerdictKept, Settled
  <2> QED BY <2>1, <2>2
<1>7. index[loc[t].key] = NoId
  BY <1>2 DEF Alone, AloneOK
<1> HIDE DEF check
<1>8. AloneOK(t)'
  BY <1>2, <1>3, <1>5, <1>7 DEF AloneOK, HoldsCopy, Answered
<1> QED BY <1>2, <1>3, <1>4, <1>6, <1>8, AloneStepOK

LEMMA PublishAlone ==
  ASSUME IInv, Alone, AtMostOneBusy', NEW t \in Threads, Publish(t) PROVE Alone'
<1>1. /\ pc[t] = "publish" /\ index' = [index EXCEPT ![loc[t].key] = loc[t].id]
      /\ pc' = [pc EXCEPT ![t] = "dispatch"]
      /\ UNCHANGED <<checks, decisions, loc>>
  BY DEF Publish, Goto
<1>2. /\ pc'[t] = "dispatch" /\ loc'[t] = loc[t] /\ OthersStay(t)
      /\ loc[t].key \in Keys /\ loc[t].id \in CheckIds
  BY <1>1, TypedThread DEF OthersStay, ThreadOK, HoldsCopy
<1>3. index[loc[t].key] = NoId /\ loc[t].check = checks[loc[t].id]
  BY <1>1 DEF Alone, AloneOK, HoldsCopy
<1>4. index'[loc[t].key] = loc[t].id
  BY <1>1, <1>2, TypedThread
<1>5. IndexKept
  BY <1>1, <1>2, <1>3, TypedThread DEF IndexKept
<1>6. \A i \in CheckIds : VerdictKept(i)'
  BY <1>1, <1>2, VerdictsUntouched
<1>7. AloneOK(t)'
  BY <1>1, <1>2, <1>3, <1>4 DEF AloneOK, HoldsCopy, Answered
<1> QED BY <1>1, <1>2, <1>5, <1>6, <1>7, AloneStepOK

LEMMA GetAlone ==
  ASSUME IInv, Alone, AtMostOneBusy', NEW t \in Threads, Get(t) PROVE Alone'
<1>1. /\ pc[t] = "get" /\ loc' = [loc EXCEPT ![t].check = checks[loc[t].id]]
      /\ pc' = [pc EXCEPT ![t] = "expire"]
      /\ UNCHANGED <<checks, index, decisions>>
  BY DEF Get, Goto
<1>2. /\ pc'[t] = "expire" /\ loc'[t].check = checks[loc[t].id]
      /\ loc'[t].id = loc[t].id /\ loc'[t].key = loc[t].key /\ loc'[t].op = loc[t].op
      /\ OthersStay(t)
  BY <1>1, TypedThread DEF OthersStay, Locals
<1>3. IndexKept
  BY <1>1 DEF IndexKept
<1>4. \A i \in CheckIds : VerdictKept(i)'
  BY <1>1, <1>2, VerdictsUntouched
<1>5. AloneOK(t)'
  BY <1>1, <1>2 DEF Alone, AloneOK, HoldsCopy, Answered
<1> QED BY <1>1, <1>2, <1>3, <1>4, <1>5, AloneStepOK

(* A check that expires or is cancelled keeps the decision it has.         *)
LEMMA EndedAlone ==
  ASSUME IInv, Alone, NEW t \in Threads, HoldsCopy(t), pc[t] # "settle",
         OthersStay(t), UNCHANGED decisions, NEW state \in {"expired", "cancelled"},
         loc[t].check.state \notin TERMINAL_STATES,
         Store(t, Moved(t, state, loc[t].check.decision))
  PROVE  /\ \A i \in CheckIds : VerdictKept(i)'
         /\ checks'[loc[t].id] = Moved(t, state, loc[t].check.decision)
         /\ Settled(Moved(t, state, loc[t].check.decision))
<1> DEFINE c == Moved(t, state, loc[t].check.decision)
<1>1. c.state = state /\ c.decision = loc[t].check.decision
  BY CopyOnFile DEF Moved, Locals, AuthorizationCheck
<1>2. Settled(c)
  BY <1>1 DEF Settled, TERMINAL_STATES
<1>3. checks'[loc[t].id] = c
  BY CopyOnFile, TypedThread DEF Store
<1> HIDE DEF c
<1>4. \A i \in CheckIds : VerdictKept(i)'
  BY <1>1, <1>2, CopyOnFile, VerdictsWritten DEF c
<1> QED BY <1>2, <1>3, <1>4 DEF c

(* The thread forgets the call.                                            *)
LEMMA ReturnAlone ==
  ASSUME IInv, Alone, AtMostOneBusy', NEW t \in Threads, pc[t] # "idle", Return(t),
         UNCHANGED index, \A i \in CheckIds : VerdictKept(i)'
  PROVE  Alone'
<1>1. /\ pc'[t] = "idle" /\ loc'[t] = Idle /\ OthersStay(t)
  BY TypedThread DEF Return, Goto, OthersStay
<1>2. IndexKept
  BY DEF IndexKept
<1>3. AloneOK(t)'
  BY <1>1 DEF AloneOK, HoldsCopy, Answered, Idle
<1> QED BY <1>1, <1>2, <1>3, AloneStepOK

LEMMA ReturnsStay ==
  ASSUME IInv, NEW t \in Threads, Return(t) PROVE OthersStay(t)
BY TypedThread DEF Return, Goto, OthersStay

LEMMA ExpireAlone ==
  ASSUME IInv, Alone, AtMostOneBusy', NEW t \in Threads, ExpireIfNeeded(t)
  PROVE  Alone'
<1> DEFINE overdue == loc[t].check.state \notin TERMINAL_STATES /\ loc[t].id \in aged
           moved == Moved(t, "expired", loc[t].check.decision)
           check == IF overdue THEN moved ELSE loc[t].check
           label == CASE pc[t] = "expire_settled" -> "answer"
                      [] loc[t].op = "cancel" -> "cancel"
                      [] OTHER -> "dispatch"
<1>1. /\ pc[t] \in {"expire", "expire_settled"} /\ UNCHANGED <<index, decisions>>
      /\ IF overdue THEN Store(t, check) ELSE UNCHANGED checks
      /\ \/ loc[t].op = "get" /\ Return(t)
         \/ /\ loc[t].op # "get" /\ loc' = [loc EXCEPT ![t].check = check]
            /\ pc' = [pc EXCEPT ![t] = label]
  BY DEF ExpireIfNeeded, Goto
<1>2. HoldsCopy(t) /\ pc[t] # "settle" /\ OthersStay(t)
  BY <1>1, ReturnsStay, TypedThread DEF OthersStay, HoldsCopy
<1>3. /\ \A i \in CheckIds : VerdictKept(i)'
      /\ checks'[loc[t].id] = check
      /\ overdue => Settled(check)
  <2>1. CASE overdue
    <3>1. Store(t, moved) /\ check = moved
      BY <1>1, <2>1
    <3> QED BY <1>1, <1>2, <2>1, <3>1, EndedAlone
  <2>2. CASE ~overdue
    <3>1. UNCHANGED checks /\ check = loc[t].check
      BY <1>1, <2>2
    <3> HIDE DEF overdue, check
    <3> QED BY <1>1, <1>2, <2>2, <3>1, VerdictsUntouched, CopyOnFile
  <2> QED BY <2>1, <2>2
<1>4. CASE loc[t].op = "get"
  <2>1. Return(t) /\ pc[t] # "idle"
    BY <1>1, <1>4
  <2> QED BY <1>1, <1>3, <2>1, ReturnAlone
<1>5. CASE loc[t].op # "get"
  <2>1. /\ loc' = [loc EXCEPT ![t].check = check] /\ pc' = [pc EXCEPT ![t] = label]
        /\ label \in {"answer", "cancel", "dispatch"}
        /\ label = "answer" => pc[t] = "expire_settled"
    BY <1>1, <1>5
  <2>2. pc[t] = "expire_settled" => Settled(check)
    <3>1. pc[t] = "expire_settled" => Settled(loc[t].check)
      BY DEF Alone, AloneOK
    <3> QED BY <1>3, <3>1
  <2> HIDE DEF check, label, overdue
  <2>3. /\ pc'[t] = label /\ loc'[t].check = check /\ loc'[t].id = loc[t].id
        /\ loc'[t].key = loc[t].key /\ loc'[t].op = loc[t].op
    BY <2>1, TypedThread DEF Locals
  <2>4. IndexKept
    BY <1>1 DEF IndexKept
  <2>5. AloneOK(t)'
    <3>1. loc[t].op = "evaluate" => loc[t].id \in CheckIds /\ index[loc[t].key] = loc[t].id
      BY <1>1 DEF Alone, AloneOK
    <3> QED BY <1>1, <1>3, <2>1, <2>2, <2>3, <3>1 DEF AloneOK, HoldsCopy, Answered
  <2> QED BY <1>1, <1>2, <1>3, <2>4, <2>5, AloneStepOK
<1> QED BY <1>4, <1>5

LEMMA CancelAlone ==
  ASSUME IInv, Alone, AtMostOneBusy', NEW t \in Threads, CancelUnlessTerminal(t)
  PROVE  Alone'
<1>1. /\ pc[t] = "cancel" /\ Return(t) /\ UNCHANGED <<index, decisions>>
  BY DEF CancelUnlessTerminal
<1>2. HoldsCopy(t) /\ pc[t] # "settle" /\ pc[t] # "idle" /\ OthersStay(t)
  BY <1>1, ReturnsStay DEF HoldsCopy
<1>3. \A i \in CheckIds : VerdictKept(i)'
  <2>1. CASE loc[t].check.state \in TERMINAL_STATES
    <3>1. UNCHANGED checks
      BY <2>1 DEF CancelUnlessTerminal
    <3> QED BY <1>1, <1>2, <3>1, VerdictsUntouched
  <2>2. CASE loc[t].check.state \notin TERMINAL_STATES
    <3>1. Store(t, Moved(t, "cancelled", loc[t].check.decision))
      BY <2>2 DEF CancelUnlessTerminal
    <3> QED BY <1>1, <1>2, <2>2, <3>1, EndedAlone
  <2> QED BY <2>1, <2>2
<1> QED BY <1>1, <1>2, <1>3, ReturnAlone

(* A step of evaluate() that only moves its own thread on.                 *)
LEMMA ReturnSettledAlone ==
  ASSUME IInv, Alone, AtMostOneBusy', NEW t \in Threads, ReturnSettled(t)
  PROVE  Alone'
<1>1. /\ pc[t] = "dispatch" /\ Settled(loc[t].check)
      /\ pc' = [pc EXCEPT ![t] = "expire_settled"]
      /\ UNCHANGED <<checks, index, decisions, loc>>
  BY DEF ReturnSettled, Goto
<1>2. pc'[t] = "expire_settled" /\ OthersStay(t)
  BY <1>1, TypedThread DEF OthersStay
<1>3. IndexKept
  BY <1>1 DEF IndexKept
<1>4. \A i \in CheckIds : VerdictKept(i)'
  BY <1>1, <1>2, VerdictsUntouched
<1>5. AloneOK(t)'
  BY <1>1, <1>2 DEF Alone, AloneOK, HoldsCopy, Answered, Settled
<1> QED BY <1>1, <1>2, <1>3, <1>4, <1>5, AloneStepOK

LEMMA EvaluatingAlone ==
  ASSUME IInv, Alone, AtMostOneBusy', NEW t \in Threads,
         FactsCompiled(t) \/ PolicyEvaluating(t)
  PROVE  Alone'
<1>1. PICK state \in {"facts_compiled", "policy_evaluating"}, label \in {"policy", "decide"} :
        /\ Transition(t, state, loc[t].check.decision) /\ Goto(t, label)
        /\ UNCHANGED <<index, decisions>>
        /\ pc[t] \in {"dispatch", "policy"} /\ ~Settled(loc[t].check)
  BY DEF FactsCompiled, PolicyEvaluating, Alone, AloneOK
<1> DEFINE c == Moved(t, state, loc[t].check.decision)
<1>2. /\ Store(t, c) /\ loc' = [loc EXCEPT ![t].check = c]
      /\ pc' = [pc EXCEPT ![t] = label]
  BY <1>1 DEF Transition, Goto
<1>3. HoldsCopy(t) /\ pc[t] # "settle" /\ loc[t].op = "evaluate"
  BY <1>1, TypedThread DEF HoldsCopy, ThreadOK
<1>4. c.state = state
  BY <1>3, CopyOnFile DEF Moved, Locals, AuthorizationCheck
<1>5. ~Settled(c) /\ c.state \notin {"expired", "cancelled"}
  BY <1>4 DEF Settled, TERMINAL_STATES
<1>6. decisions[loc[t].id] = NoDecision
  BY <1>1, <1>3, CopyOnFile
<1> HIDE DEF c
<1>7. /\ pc'[t] = label /\ loc'[t].check = c /\ loc'[t].id = loc[t].id
      /\ loc'[t].key = loc[t].key /\ loc'[t].op = loc[t].op /\ OthersStay(t)
      /\ checks'[loc[t].id] = c
  BY <1>2, <1>3, TypedThread, CopyOnFile DEF OthersStay, Locals, Store
<1>8. \A i \in CheckIds : VerdictKept(i)'
  BY <1>1, <1>2, <1>3, <1>5, <1>6, <1>7, VerdictsWritten
<1>9. IndexKept
  BY <1>1 DEF IndexKept
<1>10. loc[t].id \in CheckIds /\ index[loc[t].key] = loc[t].id
  BY <1>1, <1>3 DEF Alone, AloneOK
<1>11. AloneOK(t)'
  BY <1>1, <1>5, <1>7, <1>10 DEF AloneOK, HoldsCopy, Answered
<1> QED BY <1>1, <1>7, <1>8, <1>9, <1>11, AloneStepOK

LEMMA DecideAlone ==
  ASSUME IInv, Alone, AtMostOneBusy', NEW t \in Threads, NEW d \in Outcomes,
         Decide(t, d)
  PROVE  /\ Alone'
         /\ decisions[loc[t].id] = NoDecision
<1> DEFINE decision == [key |-> loc[t].key, decision |-> d]
<1>1. /\ pc[t] = "decide" /\ pc' = [pc EXCEPT ![t] = "settle"]
      /\ decisions' = [decisions EXCEPT ![loc[t].id] = decision]
      /\ loc' = [loc EXCEPT ![t].answer = decision]
      /\ UNCHANGED <<checks, index>>
  BY DEF Decide, Goto
<1>2. HoldsCopy(t) /\ pc[t] # "settle" /\ loc[t].op = "evaluate" /\ ~Settled(loc[t].check)
  BY <1>1, TypedThread DEF HoldsCopy, ThreadOK, Alone, AloneOK
<1>3. decisions[loc[t].id] = NoDecision
  BY <1>2, CopyOnFile
<1>4. /\ loc[t].id \in CheckIds /\ loc[t].check = checks[loc[t].id]
      /\ index[loc[t].key] = loc[t].id
  BY <1>1, <1>2 DEF Alone, AloneOK
<1>5. /\ pc'[t] = "settle" /\ loc'[t].check = loc[t].check /\ loc'[t].id = loc[t].id
      /\ loc'[t].key = loc[t].key /\ loc'[t].op = loc[t].op
      /\ loc'[t].answer = decision /\ OthersStay(t)
  BY <1>1, TypedThread DEF OthersStay, Locals
<1>6. /\ decisions'[loc[t].id] = decision /\ decision.decision = d
      /\ \A i \in CheckIds \ {loc[t].id} : decisions'[i] = decisions[i]
  BY <1>1, <1>4, TypedThread
<1> HIDE DEF decision
<1>7. ASSUME NEW i \in CheckIds PROVE VerdictKept(i)'
  <2>1. VerdictKept(i) /\ checks'[i] = checks[i]
    BY <1>1 DEF Alone
  <2>2. CASE i = loc[t].id
    BY <1>5, <1>6, <2>1, <2>2 DEF VerdictKept
  <2>3. CASE i # loc[t].id
    <3>1. decisions'[i] = decisions[i]
      BY <1>6, <2>3
    <3>2. ASSUME NEW u \in Threads, pc[u] = "settle" PROVE FALSE
      BY <1>1, <3>2 DEF Alone, AtMostOneBusy
    <3> QED BY <2>1, <3>1, <3>2 DEF VerdictKept, Settled
  <2> QED BY <2>2, <2>3
<1>8. IndexKept
  BY <1>1 DEF IndexKept
<1>9. AloneOK(t)'
  BY <1>1, <1>2, <1>4, <1>5, <1>6 DEF AloneOK, HoldsCopy, Answered, Settled
<1> QED BY <1>1, <1>3, <1>5, <1>7, <1>8, <1>9, AloneStepOK

LEMMA SettleAlone ==
  ASSUME IInv, Alone, AtMostOneBusy', NEW t \in Threads, Settle(t) PROVE Alone'
<1> DEFINE d == loc[t].answer.decision
           c == Moved(t, state_for_decision[d], d)
<1>1. /\ pc[t] = "settle" /\ pc' = [pc EXCEPT ![t] = "answer"]
      /\ Store(t, c) /\ loc' = [loc EXCEPT ![t].check = c]
      /\ UNCHANGED <<index, decisions>>
  BY DEF Settle, Transition, Goto
<1>2. /\ HoldsCopy(t) /\ loc[t].op = "evaluate" /\ d \in Decisions
      /\ decisions[loc[t].id] # NoDecision
      /\ loc[t] \in Locals
  BY <1>1, TypedThread DEF ThreadOK, HoldsCopy
<1>3. /\ d = decisions[loc[t].id].decision /\ loc[t].id \in CheckIds
      /\ index[loc[t].key] = loc[t].id
  BY <1>1, <1>2 DEF Alone, AloneOK
<1>4. c.decision = d /\ c.state = state_for_decision[d]
  BY <1>2 DEF Moved, Locals, AuthorizationCheck
<1>5. Settled(c) /\ c.state \notin {"expired", "cancelled"}
  BY <1>2, <1>4 DEF Settled, state_for_decision, TERMINAL_STATES, Decisions
<1> HIDE DEF c, d
<1>6. /\ pc'[t] = "answer" /\ loc'[t].check = c /\ loc'[t].id = loc[t].id
      /\ loc'[t].key = loc[t].key /\ loc'[t].op = loc[t].op /\ OthersStay(t)
      /\ checks'[loc[t].id] = c
  BY <1>1, <1>3, TypedThread DEF OthersStay, Locals, Store
<1>7. \A i \in CheckIds : VerdictKept(i)'
  BY <1>1, <1>2, <1>3, <1>4, <1>5, <1>6, VerdictsWritten
<1>8. IndexKept
  BY <1>1 DEF IndexKept
<1>9. AloneOK(t)'
  BY <1>1, <1>3, <1>5, <1>6 DEF AloneOK, HoldsCopy, Answered
<1> QED BY <1>1, <1>6, <1>7, <1>8, <1>9, AloneStepOK

(* The state of a settled check allows the call when its decision does.    *)
LEMMA AnswerAlone ==
  ASSUME IInv, Alone, AtMostOneBusy', NEW t \in Threads, Answer(t) PROVE Alone'
<1> DEFINE id == loc[t].id  check == loc[t].check
<1>1. /\ pc[t] = "answer" /\ pc' = [pc EXCEPT ![t] = "idle"]
      /\ loc' = [loc EXCEPT ![t].answer = decisions[id]]
      /\ UNCHANGED <<checks, index, decisions>>
  BY DEF Answer, Goto
<1>2. HoldsCopy(t) /\ pc[t] # "settle" /\ loc[t].op = "evaluate"
  BY <1>1, TypedThread DEF ThreadOK, HoldsCopy
<1>3. /\ Settled(check) /\ id \in CheckIds /\ index[loc[t].key] = id /\ check = checks[id]
  BY <1>1, <1>2 DEF Alone, AloneOK
<1>4. decisions[id] # NoDecision => check.decision = decisions[id].decision
  BY <1>2, CopyOnFile
<1>5. /\ pc'[t] = "idle" /\ loc'[t].check = check /\ loc'[t].id = id
      /\ loc'[t].key = loc[t].key /\ loc'[t].op = loc[t].op
      /\ loc'[t].answer = decisions[id] /\ OthersStay(t)
  BY <1>1, TypedThread DEF OthersStay, Locals
<1>6. decisions[id] # NoDecision =>
        (decisions[id].decision \in {"ALLOW", "AUTO_APPROVE_EPHEMERAL_GRANT"}
           <=> check.state \in EXECUTABLE_STATES)
  <2>1. Consistent(check, id) /\ VerdictKept(id) /\ check \in AuthorizationCheck
    BY <1>2, <1>3, TypedThread DEF ThreadOK, Alone, Locals
  <2>2. CASE check.state \in {"expired", "cancelled"}
    <3>1. check.decision \in {"none", "ESCALATE_HUMAN"}
      BY <1>3, <2>1, <2>2 DEF VerdictKept
    <3> QED BY <1>4, <2>2, <3>1 DEF EXECUTABLE_STATES
  <2>3. CASE check.state \notin {"expired", "cancelled"}
    <3>1. check.decision \in Decisions /\ check.state = state_for_decision[check.decision]
      BY <1>3, <2>1, <2>3 DEF Consistent, Settled, TERMINAL_STATES, AuthorizationCheck
    <3> QED BY <1>4, <3>1 DEF state_for_decision, EXECUTABLE_STATES, Decisions
  <2> QED BY <2>2, <2>3
<1>7. \A i \in CheckIds : VerdictKept(i)'
  BY <1>1, <1>5, VerdictsUntouched
<1>8. IndexKept
  BY <1>1 DEF IndexKept
<1> HIDE DEF check, id
<1>9. AloneOK(t)'
  BY <1>1, <1>3, <1>5, <1>6 DEF AloneOK, HoldsCopy, Answered
<1> QED BY <1>1, <1>5, <1>7, <1>8, <1>9, AloneStepOK

LEMMA StillAlone ==
  ASSUME Alone, UNCHANGED <<checks, index, decisions, pc, loc>> PROVE Alone'
<1>1. ASSUME NEW i \in CheckIds PROVE VerdictKept(i)'
  BY DEF Alone, VerdictKept, Settled
<1>2. ASSUME NEW t \in Threads PROVE AloneOK(t)'
  BY DEF Alone, AloneOK, HoldsCopy, Answered, Settled
<1> QED BY <1>1, <1>2 DEF Alone, AtMostOneBusy

LEMMA StepAlone ==
  ASSUME IInv, Alone, AtMostOneBusy', [Next]_vars PROVE Alone'
<1>1. ASSUME NEW t \in Threads, NEW k \in Keys, Evaluate(t, k) PROVE Alone'
  BY <1>1, BeginAlone DEF Evaluate
<1>2. ASSUME NEW t \in Threads, NEW i \in CheckIds, Cancel(t, i) \/ Inspect(t, i)
      PROVE  Alone'
  <2>1. PICK op \in {"cancel", "get"} : Begin(t, op, NoKey, i) /\ Goto(t, "get")
    BY <1>2 DEF Cancel, Inspect
  <2> QED BY <2>1, BeginAlone
<1>3. ASSUME NEW t \in Threads, DecideRaises(t) PROVE Alone'
  <2>1. pc[t] = "decide" /\ Return(t) /\ UNCHANGED <<checks, index, decisions>>
    BY <1>3 DEF DecideRaises
  <2>2. \A i \in CheckIds : VerdictKept(i)'
    BY <2>1, ReturnsStay, VerdictsUntouched
  <2> QED BY <2>1, <2>2, ReturnAlone
<1>4. ASSUME NEW i \in CheckIds, Age(i) PROVE Alone'
  BY <1>4, StillAlone DEF Age
<1>5. CASE UNCHANGED vars
  BY <1>5, StillAlone DEF vars
<1>6. ASSUME NEW t \in Threads, Step(t) PROVE Alone'
  BY <1>3, <1>6, InsertAlone, PublishAlone, GetAlone, ExpireAlone, CancelAlone,
     ReturnSettledAlone, EvaluatingAlone, DecideAlone, SettleAlone, AnswerAlone DEF Step
<1> QED BY <1>1, <1>2, <1>4, <1>5, <1>6 DEF Next

(* Until two threads are first at work at once, every step is Alone's.     *)
LEMMA SerialStep ==
  ASSUME IInv, raced \/ Alone, [MCNext]_<<vars, raced>>
  PROVE  /\ [Next]_vars
         /\ raced' \/ (~raced /\ Alone /\ AtMostOneBusy')
<1>1. CASE MCNext
  BY <1>1 DEF MCNext, AtMostOneBusy
<1>2. CASE UNCHANGED <<vars, raced>>
  <2>1. UNCHANGED <<checks, index, decisions, pc, loc, raced>>
    BY <1>2 DEF vars
  <2>2. raced' \/ (~raced /\ Alone /\ Alone')
    BY <2>1, StillAlone
  <2> QED BY <1>2, <2>2 DEF Alone
<1> QED BY <1>1, <1>2

(* Until two requests have been at work at once, a verdict on file is that *)
(* of its record or about to be, and the request at work holds its record  *)
(* as it is, under the id that the index names.                            *)
THEOREM SerialInvariant == MCSpec => [](IInv /\ (raced \/ Alone))
<1>1. MCInit => IInv /\ (raced \/ Alone)
  BY InitOK, InitAlone DEF MCInit
<1>2. IInv /\ (raced \/ Alone) /\ [MCNext]_<<vars, raced>>
        => (IInv /\ (raced \/ Alone))'
  <2> SUFFICES ASSUME IInv, raced \/ Alone, [MCNext]_<<vars, raced>>
               PROVE  (IInv /\ (raced \/ Alone))'
    OBVIOUS
  <2>1. [Next]_vars /\ (raced' \/ (~raced /\ Alone /\ AtMostOneBusy'))
    BY SerialStep
  <2>2. IInv'
    BY <2>1, StepOK
  <2>3. raced' \/ Alone'
    BY <2>1, StepAlone
  <2> QED BY <2>2, <2>3
<1> QED BY <1>1, <1>2, PTL DEF MCSpec

(* Served one request at a time, the decision a request reads back and the *)
(* check it was given agree: nothing is granted or consumed for a call     *)
(* that _assert_executable then refuses.                                   *)
THEOREM SerialAnswersMatch == MCSpec => []AnswerMatchesCheckAlone
<1>1. IInv /\ (raced \/ Alone) => AnswerMatchesCheckAlone
  BY DEF Alone, AloneOK, AnswerMatchesCheckAlone, AnswerMatchesCheck
<1> QED BY <1>1, SerialInvariant, PTL

(* Served one request at a time, requests of one idempotency key are given *)
(* one check, whatever became of the first request or of its check.        *)
THEOREM SerialOneCheckPerKey == MCSpec => []OneCheckPerKeyAlone
<1>1. IInv /\ (raced \/ Alone) => OneCheckPerKeyAlone
  BY DEF Alone, AloneOK, OneCheckPerKeyAlone, SameKeySameCheck
<1> QED BY <1>1, SerialInvariant, PTL

-----------------------------------------------------------------------------
TerminalKept ==
  \A i \in CheckIds : checks[i].state \in TERMINAL_STATES => checks'[i] = checks[i]

(* Who writes a copy back has just read it and found it not terminal.      *)
LEMMA TerminalStored ==
  ASSUME IInv, Alone, NEW t \in Threads, HoldsCopy(t), NEW c, Store(t, c),
         loc[t].check.state \notin TERMINAL_STATES
  PROVE  TerminalKept
<1>1. loc[t].check = checks[loc[t].id]
  BY DEF Alone, AloneOK
<1> QED BY <1>1, TypedThread DEF Store, TerminalKept

LEMMA TerminalStep ==
  ASSUME IInv, Alone, [Next]_vars PROVE TerminalKept
<1>1. CASE UNCHANGED checks
  BY <1>1 DEF TerminalKept
<1>2. ASSUME NEW t \in Threads, Insert(t) PROVE TerminalKept
  <2>1. PICK i, c :
          i \in CheckIds /\ checks[i] = NoCheck /\ checks' = [checks EXCEPT ![i] = c]
    BY <1>2 DEF Insert
  <2>2. checks[i].state \notin TERMINAL_STATES
    BY <2>1 DEF NoCheck, TERMINAL_STATES
  <2> QED BY <2>1, <2>2, TypedThread DEF TerminalKept
<1>3. ASSUME NEW t \in Threads, ExpireIfNeeded(t) PROVE TerminalKept
  BY <1>1, <1>3, TerminalStored DEF ExpireIfNeeded, HoldsCopy
<1>4. ASSUME NEW t \in Threads, CancelUnlessTerminal(t) PROVE TerminalKept
  BY <1>1, <1>4, TerminalStored DEF CancelUnlessTerminal, HoldsCopy
<1>5. ASSUME NEW t \in Threads, FactsCompiled(t) \/ PolicyEvaluating(t) \/ Settle(t)
      PROVE  TerminalKept
  <2>1. ~Settled(loc[t].check) /\ HoldsCopy(t)
    BY <1>5 DEF FactsCompiled, PolicyEvaluating, Settle, Alone, AloneOK, HoldsCopy
  <2>2. PICK c : Store(t, c)
    BY <1>5 DEF FactsCompiled, PolicyEvaluating, Settle, Transition
  <2> QED BY <2>1, <2>2, TerminalStored DEF Settled
<1>6. ASSUME NEW t \in Threads, NEW k \in Keys, Evaluate(t, k) PROVE TerminalKept
  BY <1>1, <1>6 DEF Evaluate, Begin
<1>7. ASSUME NEW t \in Threads, NEW i \in CheckIds, Cancel(t, i) \/ Inspect(t, i)
      PROVE  TerminalKept
  BY <1>1, <1>7 DEF Cancel, Inspect, Begin
<1>8. ASSUME NEW t \in Threads, Step(t) PROVE TerminalKept
  BY <1>1, <1>2, <1>3, <1>4, <1>5, <1>8
    DEF Step, Publish, Get, ReturnSettled, Decide, DecideRaises, Answer
<1>9. CASE UNCHANGED vars
  BY <1>1, <1>9 DEF vars
<1> QED BY <1>1, <1>6, <1>7, <1>8, <1>9 DEF Next, Age

(* Served one request at a time, a check that was approved, denied,        *)
(* repaired, expired or cancelled is never written again.                  *)
THEOREM SerialTerminalIsFinal == MCSpec => TerminalIsFinalAlone
<1>1. IInv /\ (raced \/ Alone) /\ [MCNext]_<<vars, raced>>
        => [raced' \/ \A i \in CheckIds :
              checks[i].state \in TERMINAL_STATES => checks'[i] = checks[i]]_vars
  BY SerialStep, TerminalStep DEF TerminalKept
<1> QED BY <1>1, SerialInvariant, PTL DEF MCSpec, TerminalIsFinalAlone

-----------------------------------------------------------------------------
(* The refinement: what a client of the service sees of its state.         *)
VerdictOf(k) == IF index[k] = NoId THEN "none" ELSE decisions[index[k]].decision

ReplyTo(t) == IF Answered(t) THEN loc[t].answer ELSE NoDecision

VerdictsSeen == [k \in Keys |-> VerdictOf(k)]

RepliesSeen == [t \in Threads |-> ReplyTo(t)]

LEMMA CacheVars ==
  /\ Cache!vars = <<VerdictsSeen, RepliesSeen>>
  /\ (Cache!vars)' = <<VerdictsSeen', RepliesSeen'>>
BY DEF Cache!vars, VerdictsSeen, RepliesSeen, VerdictOf, ReplyTo

LEMMA OtherReplies ==
  ASSUME NEW t \in Threads, OthersStay(t)
  PROVE  RepliesSeen' = [RepliesSeen EXCEPT ![t] = ReplyTo(t)']
<1>1. \A u \in Threads \ {t} : ReplyTo(u)' = ReplyTo(u)
  BY DEF OthersStay, ReplyTo, Answered
<1> QED BY <1>1 DEF RepliesSeen

LEMMA SameVerdicts ==
  ASSUME UNCHANGED <<index, decisions>> PROVE VerdictsSeen' = VerdictsSeen
BY DEF VerdictsSeen, VerdictOf

(* A step inside a call is not seen.                                       *)
LEMMA UnseenStep ==
  ASSUME NEW t \in Threads, OthersStay(t), VerdictsSeen' = VerdictsSeen,
         ~Answered(t), ~Answered(t)'
  PROVE  UNCHANGED Cache!vars
<1>1. ReplyTo(t)' = ReplyTo(t)
  BY DEF ReplyTo
<1>2. RepliesSeen' = RepliesSeen
  BY <1>1, OtherReplies DEF RepliesSeen
<1> QED BY <1>2, CacheVars

(* A call that begins takes the last reply back.                           *)
LEMMA AskStep ==
  ASSUME IInv, NEW t \in Threads, NEW op, NEW k, NEW i,
         NEW label \in {"get", "insert"}, Begin(t, op, k, i), Goto(t, label)
  PROVE  Cache!Ask(t)
<1>1. /\ OthersStay(t) /\ pc'[t] = label /\ UNCHANGED <<index, decisions>>
  BY TypedThread DEF Begin, Goto, OthersStay
<1>2. ReplyTo(t)' = NoDecision
  BY <1>1 DEF ReplyTo, Answered
<1>3. RepliesSeen' = [RepliesSeen EXCEPT ![t] = NoDecision]
  BY <1>1, <1>2, OtherReplies
<1> QED BY <1>1, <1>3, SameVerdicts DEF Cache!Ask, VerdictsSeen, RepliesSeen, VerdictOf, ReplyTo

(* The record a thread decides is the one its key's index entry names, so  *)
(* a decision is the first verdict of its key, and of no other key.        *)
LEMMA DecideStep ==
  ASSUME IInv, Alone, AtMostOneBusy', NEW t \in Threads, NEW d \in Outcomes,
         Decide(t, d)
  PROVE  \E key \in Keys : Cache!Decide(key, d)
<1> DEFINE id == loc[t].id
<1>0. PICK key \in Keys : key = loc[t].key
  BY TypedThread DEF Decide, ThreadOK
<1>1. /\ pc[t] = "decide" /\ pc' = [pc EXCEPT ![t] = "settle"]
      /\ decisions' = [decisions EXCEPT ![id] = [key |-> key, decision |-> d]]
      /\ loc' = [loc EXCEPT ![t].answer = [key |-> key, decision |-> d]]
      /\ index' = index
  BY <1>0 DEF Decide, Goto
<1>2. /\ loc[t].op = "evaluate" /\ checks[id].key = key
      /\ id \in CheckIds /\ index[key] = id
  BY <1>0, <1>1, TypedThread DEF ThreadOK, HoldsCopy, Alone, AloneOK
<1>3. decisions[id] = NoDecision
  BY DecideAlone
<1>4. OthersStay(t) /\ pc'[t] = "settle"
  BY <1>1, TypedThread DEF OthersStay
<1>5. RepliesSeen' = RepliesSeen
  <2>1. ReplyTo(t) = NoDecision /\ ReplyTo(t)' = NoDecision
    BY <1>1, <1>4 DEF ReplyTo, Answered
  <2> QED BY <1>4, <2>1, OtherReplies DEF RepliesSeen
<1>6. VerdictOf(key) = "none" /\ VerdictOf(key)' = d
  BY <1>1, <1>2, <1>3, TypedThread, ChecksAssumption DEF VerdictOf, NoDecision
<1>7. ASSUME NEW k \in Keys \ {key} PROVE VerdictOf(k)' = VerdictOf(k)
  <2>1. index[k] # NoId => index[k] \in CheckIds /\ index[k] # id
    BY <1>2, <1>7 DEF IInv, TypeOK, IndexIsNeverDangling
  <2> QED BY <1>1, <2>1, TypedThread DEF VerdictOf
<1> HIDE DEF id
<1>8. VerdictsSeen' = [VerdictsSeen EXCEPT ![key] = d]
  BY <1>6, <1>7 DEF VerdictsSeen
<1>9. VerdictsSeen[key] = "none"
  BY <1>6 DEF VerdictsSeen
<1> QED
  BY <1>0, <1>5, <1>8, <1>9 DEF Cache!Decide, VerdictsSeen, RepliesSeen, VerdictOf, ReplyTo

(* A reply is the verdict of the key asked about.                          *)
LEMMA ReplyStep ==
  ASSUME IInv, Alone, NEW t \in Threads, Answer(t)
  PROVE  \/ UNCHANGED Cache!vars
         \/ \E key \in Keys : Cache!Reply(t, key)
<1> DEFINE id == loc[t].id
<1>0. PICK key \in Keys : key = loc[t].key
  BY TypedThread DEF Answer, ThreadOK
<1>1. /\ pc[t] = "answer" /\ pc' = [pc EXCEPT ![t] = "idle"]
      /\ loc' = [loc EXCEPT ![t].answer = decisions[id]]
      /\ UNCHANGED <<index, decisions>>
  BY DEF Answer, Goto
<1>2. /\ loc[t].op = "evaluate" /\ HoldsCopy(t)
      /\ id \in CheckIds /\ index[key] = id /\ checks[id].key = key
  BY <1>0, <1>1, TypedThread DEF ThreadOK, HoldsCopy, Alone, AloneOK
<1>3. /\ OthersStay(t) /\ pc'[t] = "idle" /\ loc'[t].op = "evaluate"
      /\ loc'[t].answer = decisions[id]
  BY <1>1, <1>2, TypedThread DEF OthersStay, Locals
<1>4. CASE decisions[id] = NoDecision
  <2>1. ~Answered(t) /\ ~Answered(t)'
    BY <1>1, <1>3, <1>4 DEF Answered
  <2> QED BY <1>1, <1>3, <2>1, SameVerdicts, UnseenStep
<1>5. CASE decisions[id] # NoDecision
  <2>1. decisions[id].key = key /\ decisions[id] \in PolicyDecision
    BY <1>2, <1>5 DEF IInv, TypeOK, RecordsAreKeyed
  <2>2. decisions[id].decision \in Outcomes
    BY <1>1, <1>2, <1>5, CopyOnFile
  <2>3. decisions[id].decision # "none"
    BY <2>2, ChecksAssumption DEF Decisions
  <2>4. VerdictsSeen[key] = decisions[id].decision
    BY <1>2, ChecksAssumption DEF VerdictsSeen, VerdictOf
  <2>5. decisions[id] = [key |-> key, decision |-> VerdictsSeen[key]]
    BY <2>1, <2>4 DEF PolicyDecision
  <2>6. ReplyTo(t)' = decisions[id]
    BY <1>3, <1>5 DEF ReplyTo, Answered
  <2>7. RepliesSeen' = [RepliesSeen EXCEPT ![t] = [key |-> key, decision |-> VerdictsSeen[key]]]
    BY <1>3, <2>5, <2>6, OtherReplies
  <2>8. VerdictsSeen[key] # "none" /\ VerdictsSeen' = VerdictsSeen
    BY <1>1, <2>3, <2>4, SameVerdicts
  <2> HIDE DEF id
  <2>9. Cache!Reply(t, key)
    BY <2>7, <2>8 DEF Cache!Reply, VerdictsSeen, RepliesSeen, VerdictOf, ReplyTo
  <2> QED BY <2>9
<1> QED BY <1>4, <1>5

LEMMA CacheInit == Init => Cache!Init
<1> SUFFICES ASSUME Init PROVE Cache!Init
  OBVIOUS
<1>1. \A k \in Keys : VerdictOf(k) = "none"
  BY DEF Init, VerdictOf
<1>2. \A t \in Threads : ReplyTo(t) = NoDecision
  BY DEF Init, ReplyTo, Answered, Idle
<1> QED BY <1>1, <1>2 DEF Cache!Init, VerdictOf, ReplyTo

LEMMA CacheStep ==
  ASSUME IInv, Alone, AtMostOneBusy', [Next]_vars
  PROVE  [Cache!Next]_(Cache!vars)
<1>1. ASSUME NEW t \in Threads, NEW k \in Keys, Evaluate(t, k) PROVE Cache!Next
  BY <1>1, AskStep DEF Evaluate, Cache!Next
<1>2. ASSUME NEW t \in Threads, NEW i \in CheckIds, Cancel(t, i) \/ Inspect(t, i)
      PROVE  Cache!Next
  BY <1>2, AskStep DEF Cancel, Inspect, Cache!Next
<1>3. ASSUME NEW t \in Threads, NEW d \in Outcomes, Decide(t, d) PROVE Cache!Next
  BY <1>3, DecideStep DEF Cache!Next
<1>4. ASSUME NEW t \in Threads, Answer(t) PROVE [Cache!Next]_(Cache!vars)
  BY <1>4, ReplyStep DEF Cache!Next
<1>5. ASSUME NEW t \in Threads, pc[t] # "idle", OthersStay(t),
             VerdictsSeen' = VerdictsSeen, pc'[t] # "idle" \/ loc'[t] = Idle
      PROVE  UNCHANGED Cache!vars
  BY <1>5, UnseenStep DEF Answered, Idle
<1>6. ASSUME NEW t \in Threads, Publish(t) PROVE UNCHANGED Cache!vars
  <2>1. /\ pc[t] = "publish" /\ pc' = [pc EXCEPT ![t] = "dispatch"]
        /\ index' = [index EXCEPT ![loc[t].key] = loc[t].id]
        /\ UNCHANGED <<decisions, loc>>
    BY <1>6 DEF Publish, Goto
  <2>2. index[loc[t].key] = NoId /\ decisions[loc[t].id] = NoDecision
    BY <2>1 DEF Alone, AloneOK
  <2>3. \A k \in Keys : VerdictOf(k)' = VerdictOf(k)
    BY <2>1, <2>2, TypedThread DEF VerdictOf, NoDecision
  <2>4. VerdictsSeen' = VerdictsSeen
    BY <2>3 DEF VerdictsSeen
  <2>5. OthersStay(t) /\ pc'[t] # "idle" /\ pc[t] # "idle"
    BY <2>1, TypedThread DEF OthersStay
  <2> QED BY <1>5, <2>4, <2>5
<1>7. ASSUME NEW t \in Threads,
             \/ Insert(t) \/ Get(t) \/ ExpireIfNeeded(t) \/ CancelUnlessTerminal(t)
             \/ ReturnSettled(t) \/ FactsCompiled(t) \/ PolicyEvaluating(t)
             \/ DecideRaises(t) \/ Settle(t)
      PROVE  UNCHANGED Cache!vars
  <2>1. pc[t] # "idle" /\ UNCHANGED <<index, decisions>>
    BY <1>7 DEF Insert, Get, ExpireIfNeeded, CancelUnlessTerminal, ReturnSettled,
       FactsCompiled, PolicyEvaluating, DecideRaises, Settle
  <2>2. \/ Return(t)
        \/ /\ \E label \in Labels \ {"idle"} : Goto(t, label)
           /\ OthersStay(t)
    <3>1. CASE CancelUnlessTerminal(t) \/ DecideRaises(t)
      BY <3>1 DEF CancelUnlessTerminal, DecideRaises
    <3>2. CASE ExpireIfNeeded(t)
      <4>1. CASE loc[t].op = "get"
        BY <3>2, <4>1 DEF ExpireIfNeeded
      <4>2. CASE loc[t].op # "get"
        <5> DEFINE label == CASE pc[t] = "expire_settled" -> "answer"
                              [] loc[t].op = "cancel" -> "cancel"
                              [] OTHER -> "dispatch"
        <5>1. \E c : loc' = [loc EXCEPT ![t].check = c]
          BY <3>2, <4>2 DEF ExpireIfNeeded
        <5>2. Goto(t, label)
          BY <3>2, <4>2 DEF ExpireIfNeeded
        <5>3. label \in Labels \ {"idle"}
          BY DEF Labels
        <5> HIDE DEF label
        <5> QED BY <5>1, <5>2, <5>3, TypedThread DEF OthersStay, Goto
      <4> QED BY <4>1, <4>2
    <3>3. CASE Insert(t)
      <4>1. PICK i, c : loc' = [loc EXCEPT ![t].id = i, ![t].check = c]
        BY <3>3 DEF Insert
      <4> QED BY <3>3, <4>1, TypedThread DEF Insert, OthersStay, Goto, Labels
    <3>4. CASE \/ Get(t) \/ FactsCompiled(t) \/ PolicyEvaluating(t) \/ Settle(t)
      <4>1. PICK c : loc' = [loc EXCEPT ![t].check = c]
        BY <3>4 DEF Get, FactsCompiled, PolicyEvaluating, Settle, Transition
      <4> QED BY <3>4, <4>1, TypedThread DEF Get, FactsCompiled, PolicyEvaluating, Settle,
                 OthersStay, Goto, Labels
    <3>5. CASE ReturnSettled(t)
      BY <3>5, TypedThread DEF ReturnSettled, OthersStay, Goto, Labels
    <3> QED BY <1>7, <3>1, <3>2, <3>3, <3>4, <3>5
  <2>3. CASE Return(t)
    BY <1>5, <2>1, <2>3, SameVerdicts, ReturnsStay, TypedThread DEF Return
  <2>4. CASE \E label \in Labels \ {"idle"} : Goto(t, label) /\ OthersStay(t)
    <3>1. pc'[t] # "idle" /\ OthersStay(t)
      BY <2>4, TypedThread DEF Goto
    <3> QED BY <1>5, <2>1, <3>1, SameVerdicts
  <2> QED BY <2>2, <2>3, <2>4
<1>8. CASE UNCHANGED <<index, decisions, pc, loc>>
  <2>1. \A t \in Threads : ReplyTo(t)' = ReplyTo(t)
    BY <1>8 DEF ReplyTo, Answered
  <2>2. RepliesSeen' = RepliesSeen
    BY <2>1 DEF RepliesSeen
  <2> QED BY <1>8, <2>2, SameVerdicts, CacheVars
<1>9. ASSUME NEW t \in Threads, Step(t) PROVE [Cache!Next]_(Cache!vars)
  BY <1>3, <1>4, <1>6, <1>7, <1>9 DEF Step
<1> QED BY <1>1, <1>2, <1>8, <1>9 DEF Next, Age, vars

(* Served one request at a time, the service is a write-once cache: a      *)
(* key's verdict is set by one decision, every reply repeats it, and no    *)
(* later step takes it back.                                               *)
THEOREM SerialServiceIsCache == MCSpec => CacheSpecAlone
<1>1. MCInit => Cache!Init
  BY CacheInit DEF MCInit
<1>2. IInv /\ (raced \/ Alone) /\ [MCNext]_<<vars, raced>>
        => [raced' \/ Cache!Next]_(Cache!vars)
  BY SerialStep, CacheStep
<1> QED BY <1>1, <1>2, SerialInvariant, PTL DEF MCSpec, CacheSpecAlone
=============================================================================
