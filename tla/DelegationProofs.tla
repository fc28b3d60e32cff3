-------------------------- MODULE DelegationProofs --------------------------
(***************************************************************************)
(* That served calls fit their claims, and sessions and tokens their       *)
(* delegations, for any number of threads, sessions, users and agents: the *)
(* inductive invariant says what each thread has read or written so far    *)
(* that no other thread can undo, except a reseed.                         *)
(***************************************************************************)
EXTENDS MCDelegation, TLAPS

CreateLabels == {"create_user", "create_session", "create_delegation", "create_reread"}
MintLabels == {"mint_session", "mint_delegation"}
CallLabels == {"rest_session", "token", "delegation", "run_session", "serve"}
ReseedLabels ==
  {"delete_sessions", "delete_users", "insert_users", "insert_session", "insert_delegation"}

(* The statement a thread is at tells its operation, and the reverse.      *)
OpFits(t) ==
  /\ pc[t] = "idle" <=> loc[t].op = "none"
  /\ pc[t] \in CreateLabels => loc[t].op = "create"
  /\ pc[t] \in MintLabels => loc[t].op = "mint"
  /\ pc[t] = "mint_delegation" => loc[t].row # NoRow
  /\ pc[t] = "issue" => loc[t].op \in {"create", "mint"}
  /\ pc[t] \in CallLabels => loc[t].op \in {"run", "read"}
  /\ pc[t] \in ReseedLabels => loc[t].op = "reseed" /\ loc[t].session = DemoSession

TypeInv == TypeOK /\ \A t \in Threads : OpFits(t)

LEMMA TypeInit == Init => TypeInv
BY DelegationAssumption
   DEF Init, TypeInv, TypeOK, OpFits, Idle, Demo, Labels, CreateLabels, MintLabels,
       CallLabels, ReseedLabels, Identity

(* A step writes one thread's variables.                                   *)
LEMMA OneThread ==
  ASSUME TypeInv, NEW w \in Threads, Step(w), NEW u \in Threads, u # w
  PROVE  pc'[u] = pc[u] /\ loc'[u] = loc[u]
<1> USE DEF TypeInv, TypeOK, Goto, Return
<1>1. CASE \/ \E s \in SessionIds, who \in Identity : Create(w, s, who)
           \/ \E s \in SessionIds : Mint(w, s)
           \/ \E s \in SessionIds, a \in Agents, token \in tokens \cup {NoRow} :
                \/ RestCall(w, s, a, token)
                \/ \E op \in {"run", "read"} : w = Loop /\ McpCall(op, s, a, token)
           \/ Reseed(w)
  BY <1>1 DEF Create, Mint, RestCall, McpCall, Reseed, Start
<1>2. CASE CreateStep(w)
  BY <1>2 DEF CreateStep, KnownUser, Check, InsertSession, InsertDelegation, GetSession
<1>3. CASE MintStep(w) \/ IssueToken(w)
  BY <1>3 DEF MintStep, GetSession, GetDelegation, Check, IssueToken
<1>4. CASE CallStep(w)
  BY <1>4 DEF CallStep, OwnSession, VerifyToken, Legacy, Delegated, GetDelegation, Check, Serve
<1>5. CASE ReseedStep(w) \/ Fail(w)
  BY <1>5 DEF ReseedStep, DeleteSessions, DeleteUsers, InsertUsers, InsertDemoSession,
              InsertDemoDelegation, Fail
<1> QED BY <1>1, <1>2, <1>3, <1>4, <1>5 DEF Step

(* The threads' variables start well formed.                               *)
LEMMA StartType ==
  ASSUME TypeInv, NEW w \in Threads, NEW op, NEW s \in SessionIds, NEW who \in Identity,
         NEW token \in Claims \cup {NoRow}, NEW label,
         Start(w, op, s, who, token, label),
         \/ op = "create" /\ label = "create_user"
         \/ op = "mint" /\ label = "mint_session"
         \/ op \in {"run", "read"} /\ label \in {"rest_session", "token"}
         \/ op = "reseed" /\ label = "delete_sessions" /\ s = DemoSession,
         sessions' \in [SessionIds -> Identity \cup {NoRow}],
         delegations' \in [SessionIds -> Identity \cup {NoRow}],
         seeded' \in BOOLEAN, tokens' \subseteq Claims, writers' \in Nat
  PROVE  TypeInv'
<1>1. pc' \in [Threads -> Labels]
  BY DEF TypeInv, TypeOK, Start, Goto, Labels
<1>2. loc' \in [Threads -> [ op : {"none", "create", "mint", "run", "read", "reseed"},
                           session : SessionIds, who : Identity,
                           row : Identity \cup {NoRow}, token : Claims \cup {NoRow} ]]
  BY DEF TypeInv, TypeOK, Start
<1>3. ASSUME NEW t \in Threads
      PROVE  /\ pc'[t] = "issue" => loc'[t].row # NoRow
             /\ pc'[t] \in {"delegation", "run_session", "serve"} => loc'[t].token # NoRow
             /\ OpFits(t)'
  <2>1. CASE t = w
    BY <2>1 DEF TypeInv, TypeOK, Start, Goto, OpFits, CreateLabels, MintLabels, CallLabels,
                ReseedLabels
  <2>2. CASE t # w
    BY <2>2 DEF TypeInv, TypeOK, Start, Goto, OpFits
  <2> QED BY <2>1, <2>2
<1> QED BY <1>1, <1>2, <1>3 DEF TypeInv, TypeOK

(* So do those of a thread that goes on to another statement of its        *)
(* operation, having read what it holds there, or that returns.            *)
LEMMA GotoType ==
  ASSUME TypeInv, NEW w \in Threads, NEW label \in Labels,
         pc' = [pc EXCEPT ![w] = label],
         NEW row \in Identity \cup {NoRow}, NEW token \in Claims \cup {NoRow},
         loc' = [loc EXCEPT ![w].row = row, ![w].token = token],
         \/ pc[w] \in CreateLabels /\ label \in CreateLabels \cup {"issue"}
         \/ pc[w] \in MintLabels /\ label \in MintLabels \cup {"issue"}
         \/ pc[w] \in CallLabels /\ label \in CallLabels
         \/ pc[w] \in ReseedLabels /\ label \in ReseedLabels,
         label \in {"mint_delegation", "issue"} => row # NoRow,
         label \in {"delegation", "run_session", "serve"} => token # NoRow,
         sessions' \in [SessionIds -> Identity \cup {NoRow}],
         delegations' \in [SessionIds -> Identity \cup {NoRow}],
         seeded' \in BOOLEAN, tokens' \subseteq Claims, writers' \in Nat
  PROVE  TypeInv'
<1>1. pc' \in [Threads -> Labels]
  BY DEF TypeInv, TypeOK
<1> DEFINE new == [loc[w] EXCEPT !.row = row, !.token = token]
<1>2. /\ new \in [ op : {"none", "create", "mint", "run", "read", "reseed"},
                   session : SessionIds, who : Identity,
                   row : Identity \cup {NoRow}, token : Claims \cup {NoRow} ]
      /\ new.op = loc[w].op /\ new.session = loc[w].session
      /\ new.row = row /\ new.token = token
  BY DEF TypeInv, TypeOK
<1>3. loc' = [loc EXCEPT ![w] = new]
  BY DEF TypeInv, TypeOK
<1> HIDE DEF new
<1>4. loc' \in [Threads -> [ op : {"none", "create", "mint", "run", "read", "reseed"},
                           session : SessionIds, who : Identity,
                           row : Identity \cup {NoRow}, token : Claims \cup {NoRow} ]]
  BY <1>2, <1>3 DEF TypeInv, TypeOK
<1>5. ASSUME NEW t \in Threads
      PROVE  /\ pc'[t] = "issue" => loc'[t].row # NoRow
             /\ pc'[t] \in {"delegation", "run_session", "serve"} => loc'[t].token # NoRow
             /\ OpFits(t)'
  <2>1. CASE t = w
    <3>1. pc'[w] = label /\ loc'[w] = new
      BY <1>3 DEF TypeInv, TypeOK
    <3> QED BY <1>2, <2>1, <3>1 DEF TypeInv, TypeOK, OpFits, CreateLabels, MintLabels, CallLabels,
                ReseedLabels
  <2>2. CASE t # w
    BY <2>2, <1>3 DEF TypeInv, TypeOK, OpFits
  <2> QED BY <2>1, <2>2
<1> QED BY <1>1, <1>4, <1>5 DEF TypeInv, TypeOK

LEMMA StayType ==
  ASSUME TypeInv, NEW w \in Threads, NEW label \in Labels, Goto(w, label), UNCHANGED loc,
         \/ pc[w] \in CreateLabels /\ label \in CreateLabels
         \/ pc[w] = "mint_delegation" /\ label = "issue" /\ loc[w].row # NoRow
         \/ pc[w] \in CallLabels /\ label \in {"token"}
         \/ /\ pc[w] \in CallLabels /\ label \in CallLabels
            /\ loc[w].token # NoRow
         \/ pc[w] \in ReseedLabels /\ label \in ReseedLabels,
         sessions' \in [SessionIds -> Identity \cup {NoRow}],
         delegations' \in [SessionIds -> Identity \cup {NoRow}],
         seeded' \in BOOLEAN, tokens' \subseteq Claims, writers' \in Nat
  PROVE  TypeInv'
<1> DEFINE row == loc[w].row
           token == loc[w].token
<1>1. /\ row \in Identity \cup {NoRow} /\ token \in Claims \cup {NoRow}
      /\ loc[w] = [loc[w] EXCEPT !.row = row, !.token = token]
  BY DEF TypeInv, TypeOK
<1>2. loc' = [loc EXCEPT ![w].row = row, ![w].token = token]
  BY <1>1 DEF TypeInv, TypeOK
<1>3. label \in {"mint_delegation", "issue"} => row # NoRow
  BY DEF CreateLabels, MintLabels, CallLabels, ReseedLabels
<1>4. label \in {"delegation", "run_session", "serve"} => token # NoRow
  BY DEF CreateLabels, MintLabels, CallLabels, ReseedLabels
<1>5. \/ pc[w] \in CreateLabels /\ label \in CreateLabels \cup {"issue"}
      \/ pc[w] \in MintLabels /\ label \in MintLabels \cup {"issue"}
      \/ pc[w] \in CallLabels /\ label \in CallLabels
      \/ pc[w] \in ReseedLabels /\ label \in ReseedLabels
  BY DEF MintLabels, CallLabels
<1>6. pc' = [pc EXCEPT ![w] = label]
  BY DEF Goto
<1> HIDE DEF row, token
<1> QED BY <1>1, <1>2, <1>3, <1>4, <1>5, <1>6, GotoType

LEMMA ReturnType ==
  ASSUME TypeInv, NEW w \in Threads, Return(w),
         sessions' \in [SessionIds -> Identity \cup {NoRow}],
         delegations' \in [SessionIds -> Identity \cup {NoRow}],
         seeded' \in BOOLEAN, tokens' \subseteq Claims, writers' \in Nat
  PROVE  TypeInv'
<1>1. Idle \in [ op : {"none", "create", "mint", "run", "read", "reseed"},
                 session : SessionIds, who : Identity,
                 row : Identity \cup {NoRow}, token : Claims \cup {NoRow} ]
  BY DelegationAssumption DEF Idle, Demo, Identity
<1>2. pc' = [pc EXCEPT ![w] = "idle"] /\ loc' = [loc EXCEPT ![w] = Idle] /\ Idle.op = "none"
  BY DEF Return, Goto, Idle
<1> HIDE DEF Idle
<1>3. \A t \in Threads : OpFits(t)'
  BY <1>1, <1>2 DEF TypeInv, TypeOK, OpFits, CreateLabels, MintLabels, CallLabels, ReseedLabels
<1>4. TypeOK'
  BY <1>1, <1>2 DEF TypeInv, TypeOK, Labels
<1> QED BY <1>3, <1>4 DEF TypeInv

LEMMA RowsAreIdentities ==
  ASSUME TypeInv, NEW t \in Threads
  PROVE  /\ loc[t].session \in SessionIds /\ loc[t].who \in Identity
         /\ loc[t].who # NoRow /\ loc[t].who.user \in Users /\ loc[t].who.agent \in Agents
         /\ sessions[loc[t].session] \in Identity \cup {NoRow}
         /\ \A row \in Identity : ClaimsOf(loc[t].session, row) \in Claims
         /\ \A row \in Identity : ClaimsOf(loc[t].session, row) # NoRow
         /\ loc[t].row \in Identity \cup {NoRow} /\ loc[t].token \in Claims \cup {NoRow}
BY DelegationAssumption DEF TypeInv, TypeOK, Identity, Claims, ClaimsOf

LEMMA CheckType ==
  ASSUME TypeInv, NEW w \in Threads, NEW label, NEW next \in Labels, NEW ok,
         Check(w, label, next, ok),
         \/ label \in CreateLabels /\ next \in CreateLabels
         \/ label = "mint_delegation" /\ next = "issue" /\ loc[w].row # NoRow
         \/ label \in CallLabels /\ next = "token"
         \/ label \in CallLabels /\ next \in CallLabels /\ (ok => loc[w].token # NoRow)
  PROVE  TypeInv'
<1>1. UNCHANGED tables /\ pc[w] = label
  BY DEF Check
<1>2. CASE Return(w)
  BY <1>1, <1>2, ReturnType DEF tables, TypeInv, TypeOK
<1>3. CASE ok /\ Goto(w, next) /\ UNCHANGED loc
  BY <1>1, <1>3, StayType DEF tables, TypeInv, TypeOK, Labels
<1> QED BY <1>2, <1>3 DEF Check

LEMMA GetSessionType ==
  ASSUME TypeInv, NEW w \in Threads, NEW label, NEW next, GetSession(w, label, next),
         \/ label = "create_reread" /\ next = "issue"
         \/ label = "mint_session" /\ next = "mint_delegation"
  PROVE  TypeInv'
<1> DEFINE row == sessions[loc[w].session]
           token == loc[w].token
<1>1. UNCHANGED tables /\ pc[w] = label
  BY DEF GetSession
<1>2. CASE Return(w)
  BY <1>1, <1>2, ReturnType DEF tables, TypeInv, TypeOK
<1>3. CASE row # NoRow /\ Goto(w, next) /\ loc' = [loc EXCEPT ![w].row = row]
  <2>1. row \in Identity \cup {NoRow} /\ token \in Claims \cup {NoRow}
    BY RowsAreIdentities
  <2>2. [loc[w] EXCEPT !.row = row] = [loc[w] EXCEPT !.row = row, !.token = token]
    BY DEF TypeInv, TypeOK
  <2>3. loc' = [loc EXCEPT ![w].row = row, ![w].token = token]
    BY <1>3, <2>2 DEF TypeInv, TypeOK
  <2>4. next \in Labels /\ pc' = [pc EXCEPT ![w] = next]
    BY <1>3 DEF Goto, Labels
  <2> HIDE DEF row, token
  <2> QED
    BY <1>1, <1>3, <2>1, <2>3, <2>4, GotoType
       DEF tables, TypeInv, TypeOK, CreateLabels, MintLabels
<1> QED BY <1>2, <1>3 DEF GetSession

LEMMA TypeStep == TypeInv /\ [Next]_vars => TypeInv'
<1> SUFFICES ASSUME TypeInv, [Next]_vars PROVE TypeInv'
  OBVIOUS
<1>1. CASE UNCHANGED vars
  BY <1>1 DEF vars, TypeInv, TypeOK, OpFits
<1>2. ASSUME NEW w \in Threads, Step(w) PROVE TypeInv'
  <2>1. DemoSession \in SessionIds /\ Demo \in Identity /\ NoRow \in Claims \cup {NoRow}
    BY DelegationAssumption DEF Demo, Identity
  <2>2. ASSUME NEW s \in SessionIds, NEW who \in Identity, Create(w, s, who) PROVE TypeInv'
    <3>1. UNCHANGED <<sessions, delegations, seeded, tokens>> /\ writers' \in Nat
      BY <2>2 DEF Create, StartsWriter, TypeInv, TypeOK
    <3> QED BY <2>1, <2>2, <3>1, StartType DEF Create, TypeInv, TypeOK
  <2>3. ASSUME NEW s \in SessionIds, Mint(w, s) PROVE TypeInv'
    <3>1. UNCHANGED <<sessions, delegations, seeded, tokens>> /\ writers' \in Nat
      BY <2>3 DEF Mint, StartsWriter, TypeInv, TypeOK
    <3> QED BY <2>1, <2>3, <3>1, StartType DEF Mint, TypeInv, TypeOK
  <2>4. ASSUME NEW s \in SessionIds, NEW a \in Agents, NEW token \in tokens \cup {NoRow},
               \/ RestCall(w, s, a, token)
               \/ \E op \in {"run", "read"} : w = Loop /\ McpCall(op, s, a, token)
        PROVE TypeInv'
    <3>1. UNCHANGED tables /\ token \in Claims \cup {NoRow}
      BY <2>4 DEF RestCall, McpCall, TypeInv, TypeOK
    <3>2. [user |-> DemoUser, agent |-> a] \in Identity
      BY DelegationAssumption DEF Identity
    <3>3. PICK op \in {"run", "read"}, label \in {"rest_session", "token"} :
            Start(w, op, s, [user |-> DemoUser, agent |-> a], token, label)
      BY <2>4 DEF RestCall, McpCall
    <3> QED BY <3>1, <3>2, <3>3, StartType DEF tables, TypeInv, TypeOK
  <2>5. CASE Reseed(w)
    <3>1. /\ UNCHANGED <<sessions, seeded, tokens>> /\ writers' \in Nat
          /\ delegations' \in [SessionIds -> Identity \cup {NoRow}]
      BY <2>5 DEF Reseed, StartsWriter, TypeInv, TypeOK
    <3> QED BY <2>1, <2>5, <3>1, StartType DEF Reseed, TypeInv, TypeOK
  <2>6. CASE KnownUser(w)
    BY <2>6, CheckType DEF KnownUser, CreateLabels, Labels
  <2>7. CASE InsertSession(w)
    <3>1. /\ sessions' \in [SessionIds -> Identity \cup {NoRow}]
          /\ UNCHANGED <<delegations, seeded, tokens, writers>>
      BY <2>7, RowsAreIdentities DEF InsertSession, TypeInv, TypeOK
    <3> QED
      BY <2>7, <3>1, ReturnType, StayType
         DEF InsertSession, TypeInv, TypeOK, Labels, CreateLabels
  <2>8. CASE InsertDelegation(w)
    <3>1. /\ delegations' \in [SessionIds -> Identity \cup {NoRow}]
          /\ UNCHANGED <<sessions, seeded, tokens, writers>>
      BY <2>8, RowsAreIdentities DEF InsertDelegation, TypeInv, TypeOK
    <3> QED
      BY <2>8, <3>1, ReturnType, StayType
         DEF InsertDelegation, TypeInv, TypeOK, Labels, CreateLabels
  <2>9. CASE GetSession(w, "create_reread", "issue") \/ GetSession(w, "mint_session", "mint_delegation")
    BY <2>9, GetSessionType
  <2>10. CASE GetDelegation(w, "mint_delegation", "issue")
    <3>1. loc[w].row # NoRow
      BY <2>10 DEF GetDelegation, Check, TypeInv, OpFits
    <3> QED BY <2>10, <3>1, CheckType DEF GetDelegation, Labels
  <2>11. CASE IssueToken(w)
    <3>1. loc[w].row # NoRow
      BY <2>11 DEF IssueToken, TypeInv, TypeOK
    <3>2. tokens' \subseteq Claims /\ UNCHANGED <<sessions, delegations, seeded, writers>>
      BY <2>11, <3>1, RowsAreIdentities DEF IssueToken, TypeInv, TypeOK
    <3> QED BY <2>11, <3>2, ReturnType DEF IssueToken, TypeInv, TypeOK
  <2>12. CASE OwnSession(w, "rest_session", "token")
    BY <2>12, CheckType DEF OwnSession, CallLabels, Labels
  <2>13. CASE VerifyToken(w)
    BY <2>13, CheckType DEF VerifyToken, CallLabels, Labels
  <2>14. CASE Legacy(w)
    <3> DEFINE row == loc[w].row
               token == ClaimsOf(loc[w].session, sessions[loc[w].session])
    <3>1. CASE Return(w)
      BY <2>14, <3>1, ReturnType DEF Legacy, tables, TypeInv, TypeOK
    <3>2. CASE /\ sessions[loc[w].session] # NoRow
               /\ loc' = [loc EXCEPT ![w].token = token]
               /\ Goto(w, "delegation")
      <4>1. row \in Identity \cup {NoRow} /\ token \in Claims \cup {NoRow} /\ token # NoRow
        BY <3>2, RowsAreIdentities
      <4>2. [loc[w] EXCEPT !.token = token] = [loc[w] EXCEPT !.row = row, !.token = token]
        BY DEF TypeInv, TypeOK
      <4>3. loc' = [loc EXCEPT ![w].row = row, ![w].token = token]
        BY <3>2, <4>2 DEF TypeInv, TypeOK
      <4>4. "delegation" \in Labels /\ pc' = [pc EXCEPT ![w] = "delegation"]
        BY <3>2 DEF Goto, Labels
      <4>5. UNCHANGED tables /\ pc[w] = "token"
        BY <2>14 DEF Legacy
      <4> HIDE DEF row, token
      <4> QED BY <4>1, <4>3, <4>4, <4>5, GotoType DEF tables, TypeInv, TypeOK, CallLabels
    <3> QED BY <2>14, <3>1, <3>2 DEF Legacy
  <2>15. CASE Delegated(w)
    <3>1. PICK next \in {"serve", "run_session"} : GetDelegation(w, "delegation", next)
      BY <2>15 DEF Delegated
    <3>2. loc[w].token # NoRow
      BY <3>1 DEF GetDelegation, Check, TypeInv, TypeOK
    <3> QED BY <3>1, <3>2, CheckType DEF GetDelegation, CallLabels, Labels
  <2>16. CASE OwnSession(w, "run_session", "serve")
    <3>1. loc[w].token # NoRow
      BY <2>16 DEF OwnSession, Check, TypeInv, TypeOK
    <3> QED BY <2>16, <3>1, CheckType DEF OwnSession, CallLabels, Labels
  <2>17. CASE Serve(w) \/ Fail(w)
    BY <2>17, ReturnType DEF Serve, Fail, tables, TypeInv, TypeOK
  <2>18. CASE DeleteSessions(w)
    <3>1. /\ sessions' \in [SessionIds -> Identity \cup {NoRow}]
          /\ UNCHANGED <<delegations, seeded, tokens, writers>>
      BY <2>18 DEF DeleteSessions
    <3> QED BY <2>18, <3>1, StayType DEF DeleteSessions, TypeInv, TypeOK, Labels, ReseedLabels
  <2>19. CASE DeleteUsers(w)
    BY <2>19, StayType DEF DeleteUsers, TypeInv, TypeOK, Labels, ReseedLabels
  <2>20. CASE InsertUsers(w)
    BY <2>20, StayType, ReturnType DEF InsertUsers, TypeInv, TypeOK, Labels, ReseedLabels
  <2>21. CASE InsertDemoSession(w)
    <3>1. /\ sessions' \in [SessionIds -> Identity \cup {NoRow}]
          /\ UNCHANGED <<delegations, seeded, tokens, writers>>
      BY <2>1, <2>21 DEF InsertDemoSession, TypeInv, TypeOK
    <3> QED
      BY <2>21, <3>1, StayType, ReturnType
         DEF InsertDemoSession, TypeInv, TypeOK, Labels, ReseedLabels
  <2>22. CASE InsertDemoDelegation(w)
    <3>1. /\ delegations' \in [SessionIds -> Identity \cup {NoRow}]
          /\ UNCHANGED <<sessions, seeded, tokens, writers>>
      BY <2>1, <2>22 DEF InsertDemoDelegation, TypeInv, TypeOK
    <3> QED BY <2>22, <3>1, ReturnType DEF InsertDemoDelegation, TypeInv, TypeOK
  <2> QED
    BY <1>2, <2>2, <2>3, <2>4, <2>5, <2>6, <2>7, <2>8, <2>9, <2>10, <2>11, <2>12, <2>13,
       <2>14, <2>15, <2>16, <2>17, <2>18, <2>19, <2>20, <2>21, <2>22
       DEF Step, CreateStep, MintStep, CallStep, ReseedStep
<1> QED BY <1>1, <1>2 DEF Next

(* Rows, tokens and local variables are well formed, and a thread that     *)
(* issues a token or acts for a session has a row or claims to do so.      *)
THEOREM TypeCorrect == Spec => []TypeOK
<1>1. TypeInv => TypeOK BY DEF TypeInv
<1> QED BY <1>1, TypeInit, TypeStep, PTL DEF Spec

-----------------------------------------------------------------------------
(* What the steps of a thread do to the two tables.                        *)

(* A gateway call writes nothing.                                          *)
LEMMA CallsChangeNothing ==
  ASSUME TypeInv, NEW w \in Threads, Step(w),
         loc[w].op \in {"run", "read"} \/ loc'[w].op \in {"run", "read"}
  PROVE  UNCHANGED <<sessions, delegations, tokens>>
<1> USE DEF TypeInv, TypeOK, OpFits, CreateLabels, MintLabels, CallLabels, ReseedLabels,
            tables
<1>1. CASE \/ \E s \in SessionIds, who \in Identity : Create(w, s, who)
           \/ \E s \in SessionIds : Mint(w, s)
           \/ \E s \in SessionIds, a \in Agents, token \in tokens \cup {NoRow} :
                \/ RestCall(w, s, a, token)
                \/ \E op \in {"run", "read"} : w = Loop /\ McpCall(op, s, a, token)
  BY <1>1 DEF Create, Mint, RestCall, McpCall
<1>2. CASE Reseed(w)
  BY <1>2 DEF Reseed, Start
<1>3. CASE CreateStep(w)
  BY <1>3 DEF CreateStep, KnownUser, Check, InsertSession, InsertDelegation, GetSession, Return,
              Idle, Goto
<1>4. CASE MintStep(w) \/ IssueToken(w)
  BY <1>4 DEF MintStep, GetSession, GetDelegation, Check, IssueToken, Return, Idle
<1>5. CASE CallStep(w) \/ Fail(w)
  BY <1>5 DEF CallStep, OwnSession, VerifyToken, Legacy, Delegated, GetDelegation, Check, Serve,
              Fail
<1>6. CASE ReseedStep(w)
  BY <1>6 DEF ReseedStep, DeleteSessions, DeleteUsers, InsertUsers, InsertDemoSession,
              InsertDemoDelegation, Return, Idle
<1> QED BY <1>1, <1>2, <1>3, <1>4, <1>5, <1>6 DEF Step

(* Only a reseed takes rows away or changes them.                          *)
LEMMA RowsAreKept ==
  ASSUME TypeInv, NEW w \in Threads, Step(w),
         loc[w].op # "reseed", loc'[w].op # "reseed",
         NEW s \in SessionIds
  PROVE  /\ sessions[s] # NoRow => sessions'[s] = sessions[s]
         /\ delegations[s] # NoRow => delegations'[s] = delegations[s]
<1> USE DEF TypeInv, TypeOK, OpFits, CreateLabels, MintLabels, CallLabels, ReseedLabels,
            tables
<1>1. CASE \/ \E r \in SessionIds, who \in Identity : Create(w, r, who)
           \/ \E r \in SessionIds : Mint(w, r)
           \/ \E r \in SessionIds, a \in Agents, token \in tokens \cup {NoRow} :
                \/ RestCall(w, r, a, token)
                \/ \E op \in {"run", "read"} : w = Loop /\ McpCall(op, r, a, token)
  BY <1>1 DEF Create, Mint, RestCall, McpCall
<1>2. CASE Reseed(w)
  BY <1>2 DEF Reseed, Start
<1>3. CASE CreateStep(w)
  BY <1>3 DEF CreateStep, KnownUser, Check, InsertSession, InsertDelegation, GetSession
<1>4. CASE MintStep(w) \/ IssueToken(w)
  BY <1>4 DEF MintStep, GetSession, GetDelegation, Check, IssueToken
<1>5. CASE CallStep(w) \/ Fail(w)
  BY <1>5 DEF CallStep, OwnSession, VerifyToken, Legacy, Delegated, GetDelegation, Check, Serve,
              Fail
<1>6. CASE ReseedStep(w)
  BY <1>6 DEF ReseedStep, DeleteSessions, DeleteUsers, InsertUsers, InsertDemoSession,
              InsertDemoDelegation
<1> QED BY <1>1, <1>2, <1>3, <1>4, <1>5, <1>6 DEF Step

-----------------------------------------------------------------------------
(* The record of interference: who has been at work beside a reseed.       *)
Writing == {"create", "mint", "reseed"}

OverlapInv ==
  /\ overlapped \subseteq Threads
  /\ \A t, u \in Threads :
       t # u /\ pc[t] # "idle" /\ pc[u] # "idle" /\ loc[u].op = "reseed" => t \in overlapped
  /\ crossed \/ \A t \in overlapped : loc[t].op \notin Writing

(* What a call that no reseed has interfered with has checked still holds. *)
Checked(t) ==
  LET row   == sessions[loc[t].session]
      token == loc[t].token
  IN
  /\ pc[t] \in {"delegation", "run_session", "serve"} =>
       row # NoRow /\ row.user = token.user /\ token.agent = loc[t].who.agent
  /\ pc[t] \in {"run_session", "serve"} => delegations[loc[t].session] # NoRow
  /\ pc[t] = "serve" /\ loc[t].op = "run" => row.agent = loc[t].who.agent

CallInv == \A t \in Threads \ overlapped : Checked(t)

(* What a handler that writes has read or written is still there.          *)
Written(t) ==
  LET s == loc[t].session IN
  /\ pc[t] = "create_delegation" => sessions[s] = loc[t].who
  /\ pc[t] = "create_reread" => delegations[s] # NoRow
  /\ pc[t] = "mint_delegation" => sessions[s] = loc[t].row
  /\ pc[t] = "issue" => delegations[s] = loc[t].row
  /\ pc[t] = "delete_sessions" => \A r \in SessionIds : delegations[r] = NoRow
  /\ pc[t] = "insert_delegation" => sessions[DemoSession] = Demo

(* A delegation has a session of the same user and agent.                  *)
Delegates == \A s \in SessionIds : delegations[s] # NoRow => delegations[s] = sessions[s]

WriteInv == crossed \/ (Delegates /\ \A t \in Threads : Written(t))

Inv == TypeInv /\ OverlapInv /\ CallInv /\ WriteInv

LEMMA InvInit == MCInit => Inv
<1> SUFFICES ASSUME MCInit PROVE Inv
  OBVIOUS
<1>1. TypeInv
  BY TypeInit DEF MCInit
<1>2. OverlapInv /\ CallInv /\ WriteInv
  BY DEF MCInit, Init, OverlapInv, CallInv, Checked, WriteInv, Written, Delegates
<1> QED BY <1>1, <1>2 DEF Inv

LEMMA OverlapStep ==
  ASSUME Inv, MCNext, TypeInv'
  PROVE  OverlapInv'
<1>1. overlapped' \subseteq Threads
  BY DEF MCNext
<1>2. ASSUME NEW t \in Threads, NEW u \in Threads, t # u,
             pc'[t] # "idle", pc'[u] # "idle", loc'[u].op = "reseed"
      PROVE  t \in overlapped'
  BY <1>2 DEF MCNext
<1>3. crossed' \/ \A t \in overlapped' : loc'[t].op \notin Writing
  BY DEF MCNext, Writing
<1> QED BY <1>1, <1>2, <1>3 DEF OverlapInv

(* A reseed's thread, before or after the step, taints the others at work. *)
LEMMA Untainted ==
  ASSUME Inv, MCNext, TypeInv', NEW w \in Threads, Step(w), NEW t \in Threads, t # w,
         pc'[t] # "idle", t \notin overlapped'
  PROVE  /\ t \notin overlapped /\ loc[w].op # "reseed" /\ loc'[w].op # "reseed"
         /\ pc'[t] = pc[t] /\ loc'[t] = loc[t]
<1>1. pc'[t] = pc[t] /\ loc'[t] = loc[t]
  BY OneThread DEF Inv
<1>2. t \notin overlapped
  BY DEF MCNext
<1>3. loc'[w].op # "reseed"
  <2>1. loc'[w].op = "reseed" => pc'[w] # "idle"
    BY DEF TypeInv, OpFits
  <2> QED BY <2>1 DEF MCNext
<1>4. loc[w].op # "reseed"
  <2>1. loc[w].op = "reseed" => pc[w] # "idle"
    BY DEF Inv, TypeInv, OpFits
  <2> QED BY <2>1, <1>1, <1>2 DEF Inv, OverlapInv
<1> QED BY <1>1, <1>2, <1>3, <1>4

LEMMA CallInvStep ==
  ASSUME Inv, MCNext, TypeInv'
  PROVE  CallInv'
<1> SUFFICES ASSUME NEW t \in Threads, t \notin overlapped' PROVE Checked(t)'
  BY DEF CallInv
<1>1. PICK w \in Threads : Step(w)
  BY DEF MCNext, Next
<1>2. CASE pc'[t] \notin {"delegation", "run_session", "serve"}
  BY <1>2 DEF Checked
<1>3. CASE pc'[t] \in {"delegation", "run_session", "serve"} /\ t # w
  <2>1. /\ t \notin overlapped /\ loc[w].op # "reseed" /\ loc'[w].op # "reseed"
        /\ pc'[t] = pc[t] /\ loc'[t] = loc[t]
    BY <1>1, <1>3, Untainted
  <2>2. Checked(t)
    BY <2>1 DEF Inv, CallInv
  <2>3. loc[t].session \in SessionIds
    BY RowsAreIdentities DEF Inv
  <2>4. /\ sessions[loc[t].session] # NoRow =>
             sessions'[loc[t].session] = sessions[loc[t].session]
        /\ delegations[loc[t].session] # NoRow =>
             delegations'[loc[t].session] = delegations[loc[t].session]
    BY <1>1, <2>1, <2>3, RowsAreKept DEF Inv
  <2> QED BY <1>3, <2>1, <2>2, <2>4 DEF Checked
<1>4. CASE pc'[t] \in {"delegation", "run_session", "serve"} /\ t = w
  <2>1. loc'[w].op \in {"run", "read"}
    BY <1>4 DEF TypeInv, OpFits, CallLabels
  <2>2. UNCHANGED <<sessions, delegations>>
    BY <1>1, <2>1, CallsChangeNothing DEF Inv
  <2>3. VerifyToken(w) \/ Legacy(w) \/ Delegated(w) \/ OwnSession(w, "run_session", "serve")
    <3> USE DEF Inv, TypeInv, TypeOK, Goto, Return
    <3>1. ~ \/ \E s \in SessionIds, who \in Identity : Create(w, s, who)
            \/ \E s \in SessionIds : Mint(w, s)
            \/ \E s \in SessionIds, a \in Agents, token \in tokens \cup {NoRow} :
                 \/ RestCall(w, s, a, token)
                 \/ \E op \in {"run", "read"} : w = Loop /\ McpCall(op, s, a, token)
            \/ Reseed(w)
      BY <1>4 DEF Create, Mint, RestCall, McpCall, Reseed, Start
    <3>2. ~ (CreateStep(w) \/ MintStep(w) \/ IssueToken(w))
      <4>1. ~ CreateStep(w)
        BY <1>4 DEF CreateStep, KnownUser, Check, InsertSession, InsertDelegation, GetSession
      <4>2. ~ (MintStep(w) \/ IssueToken(w))
        BY <1>4 DEF MintStep, GetSession, GetDelegation, Check, IssueToken
      <4> QED BY <4>1, <4>2
    <3>3. ~ (OwnSession(w, "rest_session", "token") \/ Serve(w) \/ Fail(w))
      BY <1>4 DEF OwnSession, Check, Serve, Fail
    <3>4. ~ ReseedStep(w)
      BY <1>4 DEF ReseedStep, DeleteSessions, DeleteUsers, InsertUsers, InsertDemoSession,
                  InsertDemoDelegation
    <3> QED BY <1>1, <3>1, <3>2, <3>3, <3>4 DEF Step, CallStep
  <2>4. pc[w] # "idle" /\ t \notin overlapped
    <3>1. pc[w] # "idle"
      BY <2>3 DEF VerifyToken, Legacy, Delegated, GetDelegation, OwnSession, Check
    <3>2. t \notin overlapped
      BY <1>4 DEF MCNext
    <3> QED BY <3>1, <3>2
  <2>5. Checked(w)
    BY <1>4, <2>4 DEF Inv, CallInv
  <2>6. ~Return(w)
    BY <1>4 DEF Return, Goto, Inv, TypeInv, TypeOK
  <2>7. CASE VerifyToken(w)
    <3>1. TokenFits(w) /\ Goto(w, "delegation") /\ UNCHANGED loc
      BY <2>6, <2>7 DEF VerifyToken, Check
    <3>2. pc'[w] = "delegation"
      BY <3>1 DEF Goto, Inv, TypeInv, TypeOK
    <3> QED BY <1>4, <2>2, <3>1, <3>2 DEF TokenFits, Checked
  <2>8. CASE Legacy(w)
    <3> DEFINE row == sessions[loc[w].session]
    <3>1. /\ row # NoRow /\ row.agent = loc[w].who.agent /\ Goto(w, "delegation")
          /\ loc' = [loc EXCEPT ![w].token = ClaimsOf(loc[w].session, row)]
      BY <2>6, <2>8 DEF Legacy
    <3>2. /\ pc'[w] = "delegation" /\ loc'[w].session = loc[w].session
          /\ loc'[w].who = loc[w].who /\ loc'[w].token = ClaimsOf(loc[w].session, row)
      BY <3>1 DEF Goto, Inv, TypeInv, TypeOK
    <3>3. loc'[w].token.user = row.user /\ loc'[w].token.agent = row.agent
      BY <3>2 DEF ClaimsOf
    <3> QED BY <1>4, <2>2, <3>1, <3>2, <3>3 DEF Checked
  <2>9. CASE Delegated(w)
    <3>1. /\ delegations[loc[w].session] # NoRow /\ UNCHANGED loc
          /\ Goto(w, IF loc[w].op = "read" THEN "serve" ELSE "run_session")
          /\ pc[w] = "delegation"
      BY <2>6, <2>9 DEF Delegated, GetDelegation, Check
    <3>2. pc'[w] = IF loc[w].op = "read" THEN "serve" ELSE "run_session"
      BY <3>1 DEF Goto, Inv, TypeInv, TypeOK
    <3> QED BY <1>4, <2>2, <2>5, <3>1, <3>2 DEF Checked
  <2>10. CASE OwnSession(w, "run_session", "serve")
    <3>1. /\ sessions[loc[w].session].agent = loc[w].who.agent /\ UNCHANGED loc
          /\ Goto(w, "serve") /\ pc[w] = "run_session"
      BY <2>6, <2>10 DEF OwnSession, Check
    <3>2. pc'[w] = "serve"
      BY <3>1 DEF Goto, Inv, TypeInv, TypeOK
    <3> QED BY <1>4, <2>2, <2>5, <3>1, <3>2 DEF Checked
  <2> QED BY <2>3, <2>7, <2>8, <2>9, <2>10
<1> QED BY <1>2, <1>3, <1>4

-----------------------------------------------------------------------------
(* What a handler that writes has found, the step of another thread leaves *)
(* as it is, unless one of the two is a reseed.                            *)
LEMMA Bystander ==
  ASSUME Inv, MCNext, TypeInv', OverlapInv', ~crossed',
         NEW w \in Threads, Step(w), NEW t \in Threads, t # w
  PROVE  Written(t)'
<1>1. pc'[t] = pc[t] /\ loc'[t] = loc[t]
  BY OneThread DEF Inv
<1>2. ~crossed /\ Written(t)
  BY DEF MCNext, Inv, WriteInv
<1>3. loc[t].op \in Writing =>
        /\ loc[w].op = "reseed" => pc[w] # "idle"
        /\ loc'[w].op = "reseed" => pc'[w] # "idle"
        /\ pc[t] # "idle" /\ pc'[t] # "idle"
  BY <1>1 DEF Inv, TypeInv, OpFits, Writing
<1>4. CASE loc[t].op \notin Writing
  BY <1>1, <1>4 DEF TypeInv, OpFits, Written, Writing, CreateLabels, MintLabels, ReseedLabels
<1>5. CASE loc[t].op \in {"create", "mint"}
  <2>1. loc[w].op # "reseed"
    BY <1>2, <1>3, <1>5 DEF Inv, OverlapInv, Writing
  <2>2. loc'[w].op # "reseed"
    BY <1>1, <1>3, <1>5 DEF OverlapInv, Writing
  <2>3. loc[t].session \in SessionIds /\ loc[t].who # NoRow
    BY RowsAreIdentities DEF Inv
  <2>4. /\ sessions[loc[t].session] # NoRow =>
             sessions'[loc[t].session] = sessions[loc[t].session]
        /\ delegations[loc[t].session] # NoRow =>
             delegations'[loc[t].session] = delegations[loc[t].session]
    BY <2>1, <2>2, <2>3, RowsAreKept DEF Inv
  <2>5. pc[t] \notin ReseedLabels /\ (pc[t] \in {"mint_delegation", "issue"} => loc[t].row # NoRow)
    BY <1>5 DEF Inv, TypeInv, TypeOK, OpFits
  <2> QED BY <1>1, <1>2, <2>3, <2>4, <2>5 DEF Written, ReseedLabels
<1>6. CASE loc[t].op = "reseed"
  <2>1. loc[w].op \notin Writing
    <3>1. pc[w] = "idle" => loc[w].op = "none"
      BY DEF Inv, TypeInv, OpFits
    <3> QED BY <1>2, <1>3, <1>6, <3>1 DEF Inv, OverlapInv, Writing
  <2>2. loc'[w].op \notin Writing
    <3>1. pc'[w] = "idle" => loc'[w].op = "none"
      BY DEF TypeInv, OpFits
    <3> QED BY <1>1, <1>3, <1>6, <3>1 DEF OverlapInv, Writing
  <2>3. loc[w].op \in {"run", "read"} \/ loc'[w].op \in {"run", "read"}
    <3>1. CASE pc[w] # "idle"
      <4>1. loc[w].op \in {"none", "create", "mint", "run", "read", "reseed"}
        BY DEF Inv, TypeInv, TypeOK
      <4>2. loc[w].op # "none"
        BY <3>1 DEF Inv, TypeInv, OpFits
      <4> QED BY <2>1, <4>1, <4>2 DEF Writing
    <3>2. CASE pc[w] = "idle"
      <4>1. loc'[w].op \in {"none", "create", "mint", "run", "read", "reseed"}
        BY DEF TypeInv, TypeOK
      <4>2. pc'[w] # "idle"
        BY <3>2
           DEF Step, Create, Mint, RestCall, McpCall, Reseed, Start, Goto, CreateStep,
               KnownUser, Check, InsertSession, InsertDelegation, GetSession, MintStep,
               GetDelegation, IssueToken, CallStep, OwnSession, VerifyToken, Legacy,
               Delegated, Serve, ReseedStep, DeleteSessions, DeleteUsers, InsertUsers,
               InsertDemoSession, InsertDemoDelegation, Fail, Inv, TypeInv, TypeOK
      <4>3. loc'[w].op # "none"
        BY <4>2 DEF TypeInv, OpFits
      <4> QED BY <2>2, <4>1, <4>3 DEF Writing
    <3> QED BY <3>1, <3>2
  <2>4. UNCHANGED <<sessions, delegations>>
    BY <2>3, CallsChangeNothing DEF Inv
  <2> QED BY <1>1, <1>2, <2>4 DEF Written
<1>7. loc[t].op \in Writing => loc[t].op \in {"create", "mint"} \/ loc[t].op = "reseed"
  BY DEF Writing
<1> QED BY <1>4, <1>5, <1>6, <1>7

LEMMA OwnStep ==
  ASSUME TypeInv, TypeInv', Delegates, NEW w \in Threads, Written(w), Step(w)
  PROVE  Delegates' /\ Written(w)'
<1>0. /\ loc[w].session \in SessionIds /\ loc[w].who # NoRow
      /\ loc[w].who \in Identity /\ DemoSession \in SessionIds /\ Demo # NoRow
  BY RowsAreIdentities, DelegationAssumption DEF Demo, Identity
<1>1. ASSUME pc'[w] \notin {"create_delegation", "create_reread", "mint_delegation", "issue",
                            "delete_sessions", "insert_delegation"},
             UNCHANGED <<sessions, delegations>>
      PROVE  Delegates' /\ Written(w)'
  BY <1>1 DEF Written, Delegates
<1> USE DEF Delegates
<1>2. ASSUME \/ \E s \in SessionIds, who \in Identity : Create(w, s, who)
             \/ \E s \in SessionIds : Mint(w, s)
             \/ \E s \in SessionIds, a \in Agents, token \in tokens \cup {NoRow} :
                  \/ RestCall(w, s, a, token)
                  \/ \E op \in {"run", "read"} : w = Loop /\ McpCall(op, s, a, token)
      PROVE  Delegates' /\ Written(w)'
  <2>1. pc'[w] \in {"create_user", "mint_session", "rest_session", "token"}
    BY <1>2 DEF Create, Mint, RestCall, McpCall, Start, Goto, TypeInv, TypeOK
  <2>2. UNCHANGED <<sessions, delegations>>
    BY <1>2 DEF Create, Mint, RestCall, McpCall, tables
  <2> QED BY <1>1, <2>1, <2>2
<1>3. CASE Reseed(w)
  BY <1>3 DEF Reseed, Start, Goto, Written, TypeInv, TypeOK
<1>4. CASE KnownUser(w)
  BY <1>1, <1>4 DEF KnownUser, Check, Return, Goto, tables, TypeInv, TypeOK
<1>5. CASE InsertSession(w)
  <2>1. CASE Return(w) /\ UNCHANGED sessions
    BY <1>1, <1>5, <2>1 DEF InsertSession, Return, Goto, TypeInv, TypeOK
  <2>2. CASE /\ sessions[loc[w].session] = NoRow
             /\ sessions' = [sessions EXCEPT ![loc[w].session] = loc[w].who]
             /\ Goto(w, "create_delegation") /\ UNCHANGED loc
    <3>1. pc'[w] = "create_delegation" /\ sessions'[loc[w].session] = loc[w].who
      BY <1>0, <2>2 DEF Goto, TypeInv, TypeOK
    <3>2. Delegates'
      BY <1>0, <1>5, <2>2 DEF InsertSession, TypeInv, TypeOK
    <3> QED BY <2>2, <3>1, <3>2 DEF Written
  <2> QED BY <1>5, <2>1, <2>2 DEF InsertSession
<1>6. CASE InsertDelegation(w)
  <2>1. CASE Return(w) /\ UNCHANGED delegations
    BY <1>1, <1>6, <2>1 DEF InsertDelegation, Return, Goto, TypeInv, TypeOK
  <2>2. CASE /\ delegations' = [delegations EXCEPT ![loc[w].session] = loc[w].who]
             /\ Goto(w, "create_reread") /\ UNCHANGED loc
    <3>1. pc'[w] = "create_reread" /\ delegations'[loc[w].session] = loc[w].who
      BY <1>0, <2>2 DEF Goto, TypeInv, TypeOK
    <3>2. sessions[loc[w].session] = loc[w].who /\ UNCHANGED sessions
      BY <1>6 DEF InsertDelegation, Written
    <3>3. Delegates'
      BY <1>0, <2>2, <3>2 DEF TypeInv, TypeOK
    <3> QED BY <1>0, <2>2, <3>1, <3>3 DEF Written
  <2> QED BY <1>6, <2>1, <2>2 DEF InsertDelegation
<1>7. ASSUME NEW label, NEW next, GetSession(w, label, next),
             \/ label = "create_reread" /\ next = "issue"
             \/ label = "mint_session" /\ next = "mint_delegation"
      PROVE  Delegates' /\ Written(w)'
  <2>1. UNCHANGED <<sessions, delegations>> /\ pc[w] = label
    BY <1>7 DEF GetSession, tables
  <2>2. CASE Return(w)
    BY <1>1, <2>1, <2>2 DEF Return, Goto, TypeInv, TypeOK
  <2>3. CASE /\ Goto(w, next) /\ loc' = [loc EXCEPT ![w].row = sessions[loc[w].session]]
    <3>1. /\ pc'[w] = next /\ loc'[w].session = loc[w].session
          /\ loc'[w].row = sessions[loc[w].session]
      BY <2>3 DEF Goto, TypeInv, TypeOK
    <3>2. label = "create_reread" => delegations[loc[w].session] = sessions[loc[w].session]
      BY <1>0, <2>1 DEF Written
    <3> QED BY <1>7, <2>1, <3>1, <3>2 DEF Written
  <2> QED BY <1>7, <2>2, <2>3 DEF GetSession
<1>8. CASE GetDelegation(w, "mint_delegation", "issue")
  <2>1. UNCHANGED <<sessions, delegations>> /\ pc[w] = "mint_delegation"
    BY <1>8 DEF GetDelegation, Check, tables
  <2>2. CASE Return(w)
    BY <1>1, <2>1, <2>2 DEF Return, Goto, TypeInv, TypeOK
  <2>3. CASE delegations[loc[w].session] # NoRow /\ Goto(w, "issue") /\ UNCHANGED loc
    <3>1. pc'[w] = "issue" /\ delegations[loc[w].session] = loc[w].row
      BY <1>0, <2>1, <2>3 DEF Goto, Written, TypeInv, TypeOK
    <3> QED BY <2>1, <2>3, <3>1 DEF Written
  <2> QED BY <1>8, <2>2, <2>3 DEF GetDelegation, Check
<1>9. CASE IssueToken(w) \/ Fail(w)
  BY <1>1, <1>9 DEF IssueToken, Fail, Return, Goto, tables, TypeInv, TypeOK
<1>10. CASE CallStep(w)
  BY <1>1, <1>10
     DEF CallStep, OwnSession, VerifyToken, Legacy, Delegated, GetDelegation, Check, Serve,
         Return, Goto, tables, TypeInv, TypeOK
<1>11. CASE DeleteSessions(w)
  BY <1>11 DEF DeleteSessions, Goto, Written, TypeInv, TypeOK
<1>12. CASE DeleteUsers(w) \/ InsertUsers(w)
  BY <1>1, <1>12 DEF DeleteUsers, InsertUsers, Return, Goto, TypeInv, TypeOK
<1>13. CASE InsertDemoSession(w)
  <2>1. CASE Return(w) /\ UNCHANGED sessions
    BY <1>1, <1>13, <2>1 DEF InsertDemoSession, Return, Goto, TypeInv, TypeOK
  <2>2. CASE /\ sessions[DemoSession] = NoRow /\ Goto(w, "insert_delegation")
             /\ sessions' = [sessions EXCEPT ![DemoSession] = Demo]
    <3>1. pc'[w] = "insert_delegation" /\ sessions'[DemoSession] = Demo
      BY <1>0, <2>2 DEF Goto, TypeInv, TypeOK
    <3>2. Delegates'
      BY <1>0, <1>13, <2>2 DEF InsertDemoSession, TypeInv, TypeOK
    <3> QED BY <3>1, <3>2 DEF Written
  <2> QED BY <1>13, <2>1, <2>2 DEF InsertDemoSession
<1>14. CASE InsertDemoDelegation(w)
  <2>1. pc'[w] = "idle"
    BY <1>14 DEF InsertDemoDelegation, Return, Goto, TypeInv, TypeOK
  <2>2. Delegates'
    BY <1>0, <1>14 DEF InsertDemoDelegation, Written, TypeInv, TypeOK
  <2> QED BY <2>1, <2>2 DEF Written
<1> QED
  BY <1>2, <1>3, <1>4, <1>5, <1>6, <1>7, <1>8, <1>9, <1>10, <1>11, <1>12, <1>13, <1>14
     DEF Step, CreateStep, MintStep, ReseedStep

LEMMA InvStep == Inv /\ [MCNext]_<<vars, overlapped, crossed>> => Inv'
<1> SUFFICES ASSUME Inv, [MCNext]_<<vars, overlapped, crossed>> PROVE Inv'
  OBVIOUS
<1>1. CASE UNCHANGED <<vars, overlapped, crossed>>
  <2>1. TypeInv'
    BY <1>1, TypeStep DEF Inv
  <2>2. OverlapInv' /\ CallInv'
    BY <1>1 DEF Inv, OverlapInv, CallInv, Checked, vars
  <2>3. WriteInv'
    BY <1>1 DEF Inv, WriteInv, Written, Delegates, vars
  <2> QED BY <2>1, <2>2, <2>3 DEF Inv
<1>2. CASE MCNext
  <2>1. TypeInv'
    BY <1>2, TypeStep DEF Inv, MCNext
  <2>2. OverlapInv' /\ CallInv'
    BY <1>2, <2>1, OverlapStep, CallInvStep
  <2>3. ASSUME ~crossed' PROVE Delegates' /\ \A t \in Threads : Written(t)'
    <3>1. PICK w \in Threads : Step(w)
      BY <1>2 DEF MCNext, Next
    <3>2. Delegates /\ Written(w)
      BY <1>2, <2>3 DEF MCNext, Inv, WriteInv
    <3>3. Delegates' /\ Written(w)'
      BY <2>1, <3>1, <3>2, OwnStep DEF Inv
    <3>4. ASSUME NEW t \in Threads, t # w PROVE Written(t)'
      BY <1>2, <2>1, <2>2, <2>3, <3>1, <3>4, Bystander
    <3> QED BY <3>3, <3>4
  <2> QED BY <2>1, <2>2, <2>3 DEF Inv, WriteInv
<1> QED BY <1>1, <1>2

(* However handlers interleave, a call that no reseed overlaps is served   *)
(* for the user of its claims on a delegated session, and run_preflight or *)
(* run_authorize for the session's agent.                                  *)
THEOREM ServedClaimsFit == MCSpec => []ServedClaimsFitSession
<1>1. Inv => ServedClaimsFitSession
  <2> SUFFICES ASSUME Inv, NEW t \in Threads \ overlapped, pc[t] = "serve"
               PROVE  LET row == sessions[loc[t].session] IN
                      /\ row # NoRow /\ delegations[loc[t].session] # NoRow
                      /\ row.user = loc[t].token.user
                      /\ loc[t].op = "run" => row.agent = loc[t].token.agent
    BY DEF ServedClaimsFitSession
  <2> QED BY DEF Inv, CallInv, Checked
<1> QED BY <1>1, InvInit, InvStep, PTL DEF MCSpec

(* Unless a reseed runs beside a handler that writes, a session and its    *)
(* delegation name one user and one agent, wherever handlers are cut off.  *)
THEOREM DelegationsFit == MCSpec => []DelegationFitsSession
<1>1. Inv => DelegationFitsSession
  BY DEF Inv, WriteInv, Delegates, DelegationFitsSession
<1> QED BY <1>1, InvInit, InvStep, PTL DEF MCSpec

(* Likewise a token is issued only for what a delegation on record says.   *)
THEOREM TokensDelegated == MCSpec => TokensAreDelegated
<1>1. Inv /\ [MCNext]_<<vars, overlapped, crossed>> =>
        [\A c \in tokens' \ tokens :
           crossed' \/ delegations[c.session] = [user |-> c.user, agent |-> c.agent]]_vars
  <2> SUFFICES ASSUME Inv, MCNext, ~crossed', NEW c \in tokens' \ tokens
               PROVE  delegations[c.session] = [user |-> c.user, agent |-> c.agent]
    BY DEF vars
  <2>1. PICK w \in Threads : IssueToken(w)
    <3>1. PICK w \in Threads : Step(w)
      BY DEF MCNext, Next
    <3>2. tokens' # tokens
      OBVIOUS
    <3>3. ~ \/ \E s \in SessionIds, who \in Identity : Create(w, s, who)
            \/ \E s \in SessionIds : Mint(w, s)
            \/ \E s \in SessionIds, a \in Agents, token \in tokens \cup {NoRow} :
                 \/ RestCall(w, s, a, token)
                 \/ \E op \in {"run", "read"} : w = Loop /\ McpCall(op, s, a, token)
            \/ Reseed(w)
      BY <3>2 DEF Create, Mint, RestCall, McpCall, Reseed, tables
    <3>4. ~ (CreateStep(w) \/ MintStep(w))
      BY <3>2 DEF CreateStep, KnownUser, Check, InsertSession, InsertDelegation, GetSession,
                  MintStep, GetDelegation, tables
    <3>5. ~ (CallStep(w) \/ Fail(w))
      BY <3>2 DEF CallStep, OwnSession, VerifyToken, Legacy, Delegated, GetDelegation, Check,
                  Serve, Fail, tables
    <3>6. ~ ReseedStep(w)
      BY <3>2 DEF ReseedStep, DeleteSessions, DeleteUsers, InsertUsers, InsertDemoSession,
                  InsertDemoDelegation
    <3> QED BY <3>1, <3>3, <3>4, <3>5, <3>6 DEF Step
  <2>2. c = ClaimsOf(loc[w].session, loc[w].row) /\ pc[w] = "issue"
    BY <2>1 DEF IssueToken
  <2>3. loc[w].row \in Identity
    BY <2>2 DEF Inv, TypeInv, TypeOK
  <2>4. delegations[loc[w].session] = loc[w].row
    BY <2>2 DEF MCNext, Inv, WriteInv, Written
  <2> QED BY <2>2, <2>3, <2>4 DEF ClaimsOf, Identity
<1> QED BY <1>1, InvInit, InvStep, PTL DEF MCSpec, TokensAreDelegated
=============================================================================
