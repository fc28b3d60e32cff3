------------------------- MODULE AccessGrantsProofs -------------------------
(* Proofs about a session's access requests and grants, for any number of  *)
(* REST workers, grants and requests, any number of calls to a grant, and  *)
(* failures, reseeds and restarts anywhere: safety invariants, and the     *)
(* ledger the handlers implement.                                          *)
EXTENDS AccessGrants, TLAPS

(* What a handler between two statements relies on.  Only the event loop   *)
(* is ever about to consume or execute, and every row that its UPDATE may  *)
(* find has a call left, because nobody else consumes and a row that a     *)
(* reseed inserts under the same id is fresh.                              *)
Seeding ==
  { "delete requests", "delete grants", "delete session", "insert session",
    "insert grant" }

ThreadOK(t) ==
  /\ loc[t].op = "call" => t = Loop
  /\ pc[t] \in {"select", "consume", "execute"} => t = Loop
  /\ pc[t] \in {"consume", "execute"} =>
       /\ loc[t].grant \in GrantIds /\ grants[loc[t].grant].issuer # "none"
       /\ grants[loc[t].grant].perm = loc[t].perm
  /\ pc[t] = "consume" =>
       \A h \in GrantIds :
         /\ SameId(loc[t].grant, h)
         /\ h = loc[t].grant \/ h \notin gone
         => grants[h].calls > 0
  /\ pc[t] # "idle" => loc[t].perm \in Perms
  /\ pc[t] = "issue" => loc[t].perm \notin HumanPerms
  /\ pc[t] \in {"approve", "grant"} =>
       /\ loc[t].request \in RequestIds
       /\ requests[loc[t].request].perm = loc[t].perm
       /\ requests[loc[t].request].status # "none"
  /\ pc[t] = "grant" => requests[loc[t].request].status = "approved"
  /\ pc[t] \in Seeding => loc[t].op = "reseed" /\ loc[t].perm = SeedPerm

InFlight(g) == IF pc[Loop] = "execute" /\ loc[Loop].grant = g THEN 1 ELSE 0

(* A call that was consumed and not executed yet is paid for, too.         *)
Budget ==
  \A g \in GrantIds :
    grants[g].executed + grants[g].calls + InFlight(g) <= Issued(g)

RequestsNamePerms ==
  \A r \in RequestIds : requests[r].status # "none" => requests[r].perm \in Perms

(* At most one of the seeded rows is there at a time.                      *)
SeedsOK ==
  /\ \A g \in GrantIds : grants[g].issuer = "seed" => grants[g].perm = SeedPerm
  /\ \A g, h \in GrantIds \ gone :
       grants[g].issuer = "seed" /\ grants[h].issuer = "seed" => g = h

IInv ==
  /\ TypeOK
  /\ Budget
  /\ HumanCallsAreApproved
  /\ RequestsNamePerms
  /\ SeedsOK
  /\ \A t \in Threads : ThreadOK(t)

-----------------------------------------------------------------------------
LEMMA IdleIsLocal == Idle \in Locals
BY DEF Idle, Locals

LEMMA NewGrantOK ==
  ASSUME NEW p \in Perms \cup {None},
         NEW issuer \in {"none", "seed", "policy:auto_approve", "human"},
         NEW r \in RequestIds \cup {None}, NEW calls \in Nat
  PROVE  /\ NewGrant(p, issuer, r, calls) \in Grant
         /\ NewGrant(p, issuer, r, calls).perm = p
         /\ NewGrant(p, issuer, r, calls).issuer = issuer
         /\ NewGrant(p, issuer, r, calls).request = r
         /\ NewGrant(p, issuer, r, calls).calls = calls
         /\ NewGrant(p, issuer, r, calls).executed = 0
         /\ ~NewGrant(p, issuer, r, calls).expired
BY DEF NewGrant, Grant

LEMMA BlankRows ==
  /\ NoGrant \in Grant /\ NoGrant.issuer = "none" /\ NoGrant.perm = None
  /\ NoGrant.request = None /\ NoGrant.calls = 0 /\ NoGrant.executed = 0
  /\ NoRequest \in Request
BY NewGrantOK DEF NoGrant, NoRequest, Request

LEMMA SeedRow ==
  /\ SeedGrant \in Grant /\ SeedGrant.issuer = "seed" /\ SeedGrant.perm = SeedPerm
  /\ SeedGrant.request = None /\ SeedGrant.calls = SeedCalls /\ SeedGrant.executed = 0
BY GrantsAssumption DEF SeedGrant, NewGrant, Grant

(* The tables of a fresh database, whose one grant is the seeded one.      *)
LEMMA InitOK == Init => IInv
<1> SUFFICES ASSUME Init PROVE IInv
  OBVIOUS
<1> USE GrantsAssumption
<1>0. PICK g0 \in GrantIds : grants = SeededWith(g0) /\ graph = {g0}
  BY DEF Init
<1>1. /\ grants[g0] = SeedGrant
      /\ \A g \in GrantIds \ {g0} : grants[g] = NoGrant
  BY <1>0 DEF SeededWith
<1>2. TypeOK
  <2>1. grants \in [GrantIds -> Grant]
    BY <1>0, BlankRows, SeedRow DEF SeededWith
  <2> QED BY <1>0, <2>1, IdleIsLocal, BlankRows DEF Init, TypeOK, Labels, NoRequests,
        AllIdle, NotCreated, NoLocals
<1>3. Budget
  <2>1. ASSUME NEW g \in GrantIds
        PROVE  grants[g].executed + grants[g].calls + InFlight(g) <= Issued(g)
    <3>1. InFlight(g) = 0
      BY DEF Init, InFlight, AllIdle, Threads
    <3>2. CASE g = g0
      BY <1>1, <3>1, <3>2, SeedRow DEF Issued
    <3>3. CASE g # g0
      BY <1>1, <3>1, <3>3, BlankRows DEF Issued
    <3> QED BY <3>2, <3>3
  <2> QED BY <2>1 DEF Budget
<1>4. HumanCallsAreApproved
  BY <1>1, SeedRow, BlankRows DEF HumanCallsAreApproved
<1>5. RequestsNamePerms
  BY DEF Init, NoRequests, RequestsNamePerms, NoRequest
<1>6. SeedsOK
  BY <1>1, SeedRow, BlankRows DEF SeedsOK
<1>7. \A t \in Threads : ThreadOK(t)
  BY DEF Init, ThreadOK, Idle, AllIdle, NoLocals, Seeding
<1> QED BY <1>2, <1>3, <1>4, <1>5, <1>6, <1>7 DEF IInv

Moves(t, label, mine) ==
  pc' = [pc EXCEPT ![t] = label] /\ loc' = [loc EXCEPT ![t] = mine]

LEMMA MovesOK ==
  ASSUME TypeOK, NEW t \in Threads, NEW label \in Labels, NEW mine \in Locals,
         Moves(t, label, mine)
  PROVE  /\ pc' \in [Threads -> Labels] /\ loc' \in [Threads -> Locals]
         /\ pc'[t] = label /\ loc'[t] = mine
         /\ \A u \in Threads \ {t} : pc'[u] = pc[u] /\ loc'[u] = loc[u]
BY DEF TypeOK, Moves

(* What a step must keep for the handlers that do not take it: rows stay,  *)
(* deleted ones stay deleted, an approval stays, and a grant loses calls   *)
(* only if t is the event loop.                                            *)
Keeps(t) ==
  /\ \A g \in GrantIds :
       /\ grants[g].issuer # "none" =>
            /\ grants'[g].issuer = grants[g].issuer /\ grants'[g].perm = grants[g].perm
            /\ t # Loop => grants'[g].calls = grants[g].calls
       /\ grants[g].issuer = "none" /\ grants'[g].issuer # "none" => grants'[g].calls > 0
  /\ \A r \in RequestIds :
       /\ requests[r].status # "none" =>
            requests'[r].perm = requests[r].perm /\ requests'[r].status # "none"
       /\ requests[r].status = "approved" => requests'[r].status = "approved"

(* The variables that no handler relies on keep their shape.               *)
RestKept ==
  /\ gone \subseteq gone' /\ gone' \subseteq GrantIds \cup RequestIds
  /\ status' \in {"active", "waiting_for_human", "missing"}
  /\ graph' \subseteq GrantIds
  /\ created' \in [GrantIds -> Nat] /\ second' \in Nat

LEMMA RestUnchanged ==
  ASSUME IInv, UNCHANGED <<gone, created, second>>,
         status' = status \/ status' \in {"active", "waiting_for_human", "missing"},
         graph' = graph \/ graph' \subseteq GrantIds
  PROVE  RestKept
BY DEF IInv, TypeOK, RestKept

LEMMA BystanderOK ==
  ASSUME NEW t, NEW u, u # t, ThreadOK(u), Keeps(t), gone \subseteq gone',
         pc'[u] = pc[u], loc'[u] = loc[u]
  PROVE  ThreadOK(u)'
<1>1. pc[u] \in {"consume", "execute"} =>
        /\ loc[u].grant \in GrantIds /\ grants'[loc[u].grant].issuer # "none"
        /\ grants'[loc[u].grant].perm = loc[u].perm
  BY DEF ThreadOK, Keeps
<1>2. ASSUME pc[u] = "consume", NEW h \in GrantIds, SameId(loc[u].grant, h)',
             h = loc[u].grant \/ h \notin gone'
      PROVE  grants'[h].calls > 0
  <2>1. u = Loop /\ loc[u].grant \in GrantIds /\ grants[loc[u].grant].issuer # "none"
    BY <1>2 DEF ThreadOK
  <2>2. CASE grants[h].issuer = "none"
    BY <1>2, <2>1, <2>2 DEF Keeps, SameId
  <2>3. CASE grants[h].issuer # "none"
    <3>1. SameId(loc[u].grant, h)
      BY <1>2, <2>1, <2>3 DEF Keeps, SameId
    <3>2. grants[h].calls > 0
      BY <1>2, <3>1 DEF ThreadOK
    <3> QED BY <2>1, <2>3, <3>2 DEF Keeps
  <2> QED BY <2>2, <2>3
<1> QED BY <1>1, <1>2 DEF ThreadOK, Keeps

(* Any step of one thread, from what it does to the rows and to itself.    *)
LEMMA ThreadStepOK ==
  ASSUME IInv, NEW t \in Threads, NEW label \in Labels, NEW mine \in Locals,
         Moves(t, label, mine), Keeps(t), RestKept, ThreadOK(t)',
         grants' \in [GrantIds -> Grant], requests' \in [RequestIds -> Request],
         Budget', HumanCallsAreApproved', RequestsNamePerms', SeedsOK'
  PROVE  IInv'
<1>1. TypeOK'
  BY MovesOK DEF IInv, TypeOK, RestKept
<1>2. ASSUME NEW u \in Threads \ {t} PROVE ThreadOK(u)'
  BY <1>2, MovesOK, BystanderOK DEF IInv, RestKept
<1> QED BY <1>1, <1>2 DEF IInv

LEMMA LoopMoves ==
  ASSUME TypeOK, NEW t \in Threads, NEW label \in Labels, NEW mine \in Locals,
         Moves(t, label, mine), label # "execute"
  PROVE  \A g \in GrantIds : InFlight(g)' <= InFlight(g) /\ InFlight(g)' \in Nat
                             /\ InFlight(g) \in Nat
<1> USE GrantsAssumption
<1>1. Loop \in Threads
  BY DEF Threads
<1>2. CASE t = Loop
  BY <1>1, <1>2, MovesOK DEF InFlight
<1>3. CASE t # Loop
  BY <1>1, <1>3, MovesOK DEF InFlight
<1> QED BY <1>2, <1>3

(* A step that writes neither grants nor requests, but may delete rows.    *)
LEMMA QuietStepOK ==
  ASSUME IInv, NEW t \in Threads, NEW label \in Labels, NEW mine \in Locals,
         Moves(t, label, mine), label # "execute", ThreadOK(t)',
         UNCHANGED <<grants, requests>>, RestKept
  PROVE  IInv'
<1>1. Keeps(t)
  BY DEF Keeps, IInv, TypeOK
<1>2. \A g \in GrantIds : InFlight(g)' <= InFlight(g) /\ InFlight(g)' \in Nat
                          /\ InFlight(g) \in Nat
  BY LoopMoves DEF IInv
<1>3. ASSUME NEW g \in GrantIds
      PROVE  (grants[g].executed + grants[g].calls + InFlight(g) <= Issued(g))'
  <2>1. /\ grants[g].executed + grants[g].calls + InFlight(g) <= Issued(g)
        /\ grants[g].executed \in Nat /\ grants[g].calls \in Nat /\ Issued(g) \in Nat
    BY GrantsAssumption DEF IInv, Budget, TypeOK, Grant, Issued
  <2>2. Issued(g)' = Issued(g)
    BY DEF Issued
  <2> QED BY <1>2, <2>1, <2>2
<1>4. Budget'
  BY <1>3 DEF Budget
<1>5. HumanCallsAreApproved' /\ RequestsNamePerms' /\ SeedsOK'
  BY DEF IInv, HumanCallsAreApproved, RequestsNamePerms, SeedsOK, RestKept
<1> QED BY <1>1, <1>4, <1>5, ThreadStepOK DEF IInv, TypeOK

LEMMA ReturnOK ==
  ASSUME IInv, NEW t \in Threads, Return(t), UNCHANGED <<grants, requests>>, RestKept
  PROVE  IInv'
<1>1. Moves(t, "idle", Idle) /\ "idle" \in Labels /\ Idle \in Locals
  BY IdleIsLocal DEF Return, Goto, Moves, Labels
<1>2. pc'[t] = "idle" /\ loc'[t] = Idle
  BY <1>1, MovesOK DEF IInv
<1>3. ThreadOK(t)'
  BY <1>2 DEF ThreadOK, Idle, Seeding
<1> QED BY <1>1, <1>3, QuietStepOK

LEMMA KeepMoves ==
  ASSUME TypeOK, NEW t \in Threads, NEW label, Goto(t, label), Keep
  PROVE  Moves(t, label, loc[t]) /\ loc[t] \in Locals
BY DEF TypeOK, Goto, Keep, Moves

(* Where a handler goes on from without having written or read anything.   *)
LEMMA KeepOK ==
  ASSUME IInv, NEW t \in Threads, NEW label \in Labels, Goto(t, label), Keep,
         pc[t] # "idle",
         label \in Seeding \cup {"find", "request", "wait", "fetch", "select", "issue"},
         label = "select" => loc[t].op = "call",
         label = "issue" => loc[t].perm \notin HumanPerms,
         label \in Seeding => pc[t] \in Seeding,
         UNCHANGED <<grants, requests>>, RestKept
  PROVE  IInv'
<1>1. Moves(t, label, loc[t]) /\ loc[t] \in Locals
  BY KeepMoves DEF IInv
<1>2. pc'[t] = label /\ loc'[t] = loc[t]
  BY <1>1, MovesOK DEF IInv
<1>3. ThreadOK(t)'
  BY <1>2 DEF IInv, ThreadOK, Seeding
<1> QED BY <1>1, <1>3, QuietStepOK DEF Seeding

LEMMA StartOK ==
  ASSUME IInv, NEW t \in Threads,
         NEW op \in {"call", "authorize", "anticipate", "approve", "reseed"},
         NEW p \in Perms, NEW r \in RequestIds \cup {None},
         NEW label \in {"fetch", "approve", "delete requests"}, Start(t, op, p, r, label),
         op = "call" => t = Loop,
         label = "approve" => /\ r \in RequestIds /\ requests[r].perm = p
                              /\ requests[r].status # "none",
         label = "delete requests" => op = "reseed" /\ p = SeedPerm
  PROVE  IInv'
<1> DEFINE mine == [Idle EXCEPT !.op = op, !.perm = p, !.request = r]
<1>1. mine \in Locals
  BY DEF Idle, Locals
<1>2. mine.op = op /\ mine.perm = p /\ mine.request = r
  BY DEF Idle
<1>3. /\ Moves(t, label, mine) /\ label \in Labels /\ label # "execute"
      /\ UNCHANGED <<grants, requests, gone, status, graph, created, second>>
  BY DEF Start, Moves, Goto, Labels
<1> HIDE DEF mine
<1>4. pc'[t] = label /\ loc'[t] = mine
  BY <1>1, <1>3, MovesOK DEF IInv
<1>5. ThreadOK(t)'
  BY <1>2, <1>3, <1>4 DEF ThreadOK, Seeding
<1>6. RestKept
  BY <1>3, RestUnchanged
<1> QED BY <1>1, <1>3, <1>5, <1>6, QuietStepOK

LEMMA ArriveOK == IInv /\ Arrive => IInv'
<1> SUFFICES ASSUME IInv, Arrive PROVE IInv'
  OBVIOUS
<1>1. ASSUME NEW p \in Perms, ToolCall(p) PROVE IInv'
  BY <1>1, StartOK DEF ToolCall, Threads
<1>2. ASSUME NEW t \in Threads, NEW p \in Perms, Authorize(t, p) PROVE IInv'
  BY <1>2, StartOK DEF Authorize
<1>3. ASSUME NEW t \in Threads, NEW p \in Perms, Anticipate(t, p) PROVE IInv'
  BY <1>3, StartOK DEF Anticipate
<1>4. ASSUME NEW t \in Workers, NEW r \in RequestIds, Approve(t, r) PROVE IInv'
  <2>1. requests[r].perm \in Perms /\ requests[r].status # "none"
    BY <1>4 DEF Approve, IInv, RequestsNamePerms
  <2> QED BY <1>4, <2>1, StartOK DEF Approve, Threads
<1> QED BY <1>1, <1>2, <1>3, <1>4 DEF Arrive

-----------------------------------------------------------------------------
LEMMA FetchOK ==
  ASSUME IInv, NEW t \in Threads, Fetch(t)
  PROVE  IInv'
<1> DEFINE mine == [loc[t] EXCEPT !.rows = {g \in GrantIds : Active(g)}]
<1>1. mine \in Locals /\ loc[t] \in Locals
  BY DEF IInv, TypeOK, Locals
<1>2. mine.op = loc[t].op /\ mine.perm = loc[t].perm
  BY <1>1 DEF Locals
<1>3. Moves(t, "assign", mine) /\ "assign" \in Labels
      /\ UNCHANGED <<grants, requests, gone, status, graph, created, second>>
  BY DEF Fetch, Moves, Goto, Labels, IInv, TypeOK
<1> HIDE DEF mine
<1>4. pc'[t] = "assign" /\ loc'[t] = mine
  BY <1>1, <1>3, MovesOK DEF IInv
<1>5. ThreadOK(t)'
  BY <1>2, <1>4 DEF ThreadOK, IInv, Fetch, Seeding
<1>6. RestKept
  BY <1>3, RestUnchanged
<1> QED BY <1>1, <1>3, <1>5, <1>6, QuietStepOK

LEMMA AfterSyncOK ==
  ASSUME IInv, NEW t \in Threads, pc[t] \in {"fetch", "assign"}, AfterSync(t),
         UNCHANGED <<grants, requests, gone, status, created, second>>,
         graph' \subseteq GrantIds
  PROVE  IInv'
<1>0. RestKept
  BY RestUnchanged
<1> DEFINE mine == [loc[t] EXCEPT !.rows = {}]
<1>1. mine \in Locals /\ loc[t] \in Locals
  BY DEF IInv, TypeOK, Locals
<1>2. mine.op = loc[t].op /\ mine.perm = loc[t].perm
  BY <1>1 DEF Locals
<1>3. ASSUME NEW label \in {"select", "find", "decide"}, Goto(t, label),
             loc' = [loc EXCEPT ![t].rows = {}],
             label = "select" => loc[t].op = "call"
      PROVE  IInv'
  <2>1. Moves(t, label, mine) /\ label \in Labels
    BY <1>3 DEF Moves, Goto, Labels, IInv, TypeOK
  <2> HIDE DEF mine
  <2>2. pc'[t] = label /\ loc'[t] = mine
    BY <1>1, <2>1, MovesOK DEF IInv
  <2>3. ThreadOK(t)'
    BY <1>2, <1>3, <2>2 DEF ThreadOK, IInv, Seeding
  <2> QED BY <1>0, <1>1, <1>3, <2>1, <2>3, QuietStepOK
<1>4. CASE loc[t].issued /\ loc[t].op = "call"
  BY <1>3, <1>4 DEF AfterSync
<1>5. CASE loc[t].issued /\ loc[t].op # "call"
  BY <1>0, <1>5, ReturnOK DEF AfterSync
<1>6. CASE ~loc[t].issued
  BY <1>3, <1>6 DEF AfterSync
<1> QED BY <1>4, <1>5, <1>6

LEMMA SyncOK ==
  ASSUME IInv, NEW t \in Threads, Assign(t) \/ SyncFails(t)
  PROVE  IInv'
<1>1. loc[t].rows \subseteq GrantIds /\ graph \subseteq GrantIds
  BY DEF IInv, TypeOK, Locals
<1>2. CASE Assign(t)
  BY <1>1, <1>2, AfterSyncOK DEF Assign
<1>3. CASE SyncFails(t)
  BY <1>1, <1>3, AfterSyncOK DEF SyncFails
<1> QED BY <1>2, <1>3

LEMMA DecideOK ==
  ASSUME IInv, NEW t \in Threads,
         DecideAllow(t) \/ DecideMode(t) \/ FindPending(t) \/ Activate(t) \/ WaitForHuman(t)
  PROVE  IInv'
<1> USE DEF Labels
<1>0. RestKept
  <2>1. /\ UNCHANGED <<gone, graph, created, second>>
        /\ status' = status \/ status' \in {"active", "waiting_for_human", "missing"}
    BY DEF DecideAllow, DecideMode, FindPending, Activate, WaitForHuman, SetStatus
  <2> QED BY <2>1, RestUnchanged
<1>1. CASE DecideAllow(t) /\ loc[t].op = "call"
  BY <1>0, <1>1, KeepOK DEF DecideAllow, Seeding
<1>2. CASE DecideAllow(t) /\ loc[t].op # "call"
  BY <1>0, <1>2, ReturnOK DEF DecideAllow
<1>3. CASE DecideMode(t) /\ loc[t].perm \in HumanPerms
  BY <1>0, <1>3, KeepOK DEF DecideMode, Seeding
<1>4. CASE DecideMode(t) /\ loc[t].perm \notin HumanPerms
  BY <1>0, <1>4, KeepOK DEF DecideMode, Seeding
<1>5. CASE FindPending(t) /\ Goto(t, "wait")
  BY <1>0, <1>5, KeepOK DEF FindPending, Seeding
<1>6. CASE FindPending(t) /\ Goto(t, "request")
  BY <1>0, <1>6, KeepOK DEF FindPending, Seeding
<1>7. CASE Activate(t)
  BY <1>0, <1>7, KeepOK DEF Activate, Seeding
<1>8. CASE WaitForHuman(t)
  BY <1>0, <1>8, ReturnOK DEF WaitForHuman
<1> QED BY <1>1, <1>2, <1>3, <1>4, <1>5, <1>6, <1>7, <1>8 DEF FindPending

(* The statements of a reseed that write neither table but delete rows.    *)
LEMMA ReseedOK ==
  ASSUME IInv, NEW t \in Threads,
         \/ Reseed(t) \/ DeleteRequests(t) \/ DeleteGrants(t) \/ DeleteSession(t)
         \/ InsertSession(t)
  PROVE  IInv'
<1> USE DEF Labels
<1>1. CASE Reseed(t)
  <2>1. SeedPerm \in Perms /\ None \in RequestIds \cup {None}
    BY GrantsAssumption
  <2> QED BY <1>1, <2>1, StartOK DEF Reseed
<1>2. CASE ~Reseed(t)
  <2>1. RestKept
    <3>1. /\ UNCHANGED <<graph, created, second>>
          /\ gone \subseteq gone' /\ gone' \subseteq GrantIds \cup RequestIds
          /\ status' \in {"active", "waiting_for_human", "missing"}
      BY <1>2 DEF DeleteRequests, DeleteGrants, DeleteSession, InsertSession, IInv, TypeOK
    <3> QED BY <3>1 DEF RestKept, IInv, TypeOK
  <2>2. CASE DeleteRequests(t)
    BY <2>1, <2>2, KeepOK DEF DeleteRequests, Seeding
  <2>3. CASE DeleteGrants(t)
    BY <2>1, <2>3, KeepOK DEF DeleteGrants, Seeding
  <2>4. CASE DeleteSession(t)
    BY <2>1, <2>4, KeepOK DEF DeleteSession, Seeding
  <2>5. CASE InsertSession(t)
    BY <2>1, <2>5, KeepOK DEF InsertSession, Seeding
  <2> QED BY <1>2, <2>2, <2>3, <2>4, <2>5
<1> QED BY <1>1, <1>2

-----------------------------------------------------------------------------
(* What the three INSERTs of a grant have in common.                       *)
LEMMA InsertShape ==
  ASSUME IInv, NEW t \in Threads, pc[t] # "idle",
         NEW issuer \in {"seed", "policy:auto_approve", "human"}, NEW calls \in Nat,
         InsertGrant(t, issuer, calls)
  PROVE  \E g \in GrantIds :
           /\ grants[g].issuer = "none"
           /\ grants' = [grants EXCEPT ![g] =
                           NewGrant(loc[t].perm, issuer, loc[t].request, calls)]
           /\ grants' \in [GrantIds -> Grant]
           /\ grants'[g].issuer = issuer /\ grants'[g].perm = loc[t].perm
           /\ grants'[g].request = loc[t].request
           /\ grants'[g].calls = calls /\ grants'[g].executed = 0
           /\ \A h \in GrantIds \ {g} : grants'[h] = grants[h]
           /\ created' \in [GrantIds -> Nat] /\ second' \in Nat
           /\ loc' = [loc EXCEPT ![t].issued = TRUE]
<1>1. PICK g \in GrantIds, s \in {second, second + 1} :
        /\ grants[g].issuer = "none"
        /\ grants' = [grants EXCEPT ![g] =
                        NewGrant(loc[t].perm, issuer, loc[t].request, calls)]
        /\ created' = [created EXCEPT ![g] = s] /\ second' = s
        /\ loc' = [loc EXCEPT ![t].issued = TRUE]
  BY DEF InsertGrant
<1> DEFINE row == NewGrant(loc[t].perm, issuer, loc[t].request, calls)
<1>2. s \in Nat /\ loc[t] \in Locals /\ grants \in [GrantIds -> Grant]
      /\ created \in [GrantIds -> Nat]
  BY DEF IInv, TypeOK
<1>3. /\ row \in Grant /\ row.issuer = issuer /\ row.perm = loc[t].perm
      /\ row.request = loc[t].request /\ row.calls = calls /\ row.executed = 0
  <2>1. loc[t].perm \in Perms \cup {None} /\ loc[t].request \in RequestIds \cup {None}
    BY <1>2 DEF Locals
  <2> QED BY <2>1, NewGrantOK
<1> HIDE DEF row
<1>4. /\ grants' = [grants EXCEPT ![g] = row]
      /\ grants' = [grants EXCEPT ![g] =
                      NewGrant(loc[t].perm, issuer, loc[t].request, calls)]
  BY <1>1 DEF row
<1>5. grants' \in [GrantIds -> Grant] /\ grants'[g] = row
      /\ \A h \in GrantIds \ {g} : grants'[h] = grants[h]
  BY <1>2, <1>3, <1>4
<1>6. created' \in [GrantIds -> Nat] /\ second' \in Nat
  BY <1>1, <1>2
<1> QED BY <1>1, <1>3, <1>4, <1>5, <1>6

(* A fresh grant holds the calls it was issued for and nobody uses it yet. *)
LEMMA InsertGrantOK ==
  ASSUME IInv, NEW t \in Threads, pc[t] # "idle",
         NEW issuer \in {"seed", "policy:auto_approve", "human"}, NEW calls \in Nat \ {0},
         issuer = "human" => calls = HumanCalls,
         issuer = "policy:auto_approve" => calls = AutoCalls,
         issuer = "seed" =>
           /\ calls = SeedCalls /\ loc[t].perm = SeedPerm
           /\ \A h \in GrantIds : grants[h].issuer = "seed" => h \in gone,
         InsertGrant(t, issuer, calls), NEW label \in {"fetch", "activate"},
         Goto(t, label), UNCHANGED <<requests, gone, status, graph>>,
         loc[t].perm \in HumanPerms =>
           /\ issuer = "human" /\ loc[t].request \in RequestIds
           /\ requests[loc[t].request] = [perm |-> loc[t].perm, status |-> "approved"]
  PROVE  IInv'
<1> USE GrantsAssumption
<1>1. PICK g \in GrantIds :
        /\ grants[g].issuer = "none"
        /\ grants' \in [GrantIds -> Grant]
        /\ grants'[g].issuer = issuer /\ grants'[g].perm = loc[t].perm
        /\ grants'[g].request = loc[t].request
        /\ grants'[g].calls = calls /\ grants'[g].executed = 0
        /\ \A h \in GrantIds \ {g} : grants'[h] = grants[h]
        /\ created' \in [GrantIds -> Nat] /\ second' \in Nat
        /\ loc' = [loc EXCEPT ![t].issued = TRUE]
  BY InsertShape
<1> DEFINE mine == [loc[t] EXCEPT !.issued = TRUE]
<1>2. loc[t] \in Locals
  BY DEF IInv, TypeOK
<1>4. /\ mine \in Locals /\ mine.op = loc[t].op /\ mine.perm = loc[t].perm
  BY <1>2 DEF Locals
<1>5. Moves(t, label, mine) /\ label \in Labels /\ label # "execute"
  BY <1>1 DEF Moves, Goto, Labels, IInv, TypeOK
<1> HIDE DEF mine
<1>7. pc'[t] = label /\ loc'[t] = mine
  BY <1>4, <1>5, MovesOK DEF IInv
<1>8. ThreadOK(t)'
  BY <1>4, <1>7 DEF ThreadOK, IInv, Seeding
<1>9. Keeps(t)
  BY <1>1 DEF Keeps, IInv, TypeOK
<1>10. \A h \in GrantIds : InFlight(h)' <= InFlight(h) /\ InFlight(h)' \in Nat
                           /\ InFlight(h) \in Nat
  BY <1>4, <1>5, LoopMoves DEF IInv
<1>11. InFlight(g) = 0
  BY <1>1 DEF InFlight, IInv, ThreadOK, Threads
<1>12. Budget'
  <2>1. ASSUME NEW h \in GrantIds \ {g}
        PROVE  (grants[h].executed + grants[h].calls + InFlight(h) <= Issued(h))'
    <3>1. Issued(h)' = Issued(h) /\ Issued(h) \in Nat
      BY <1>1 DEF Issued
    <3>2. /\ grants[h].executed \in Nat /\ grants[h].calls \in Nat
          /\ grants[h].executed + grants[h].calls + InFlight(h) <= Issued(h)
      BY DEF IInv, TypeOK, Budget, Grant
    <3> QED BY <1>1, <1>10, <3>1, <3>2
  <2>2. Issued(g)' = calls
    BY <1>1 DEF Issued
  <2>3. (grants[g].executed + grants[g].calls + InFlight(g) <= Issued(g))'
    BY <1>1, <1>10, <1>11, <2>2
  <2> QED BY <2>1, <2>3 DEF Budget
<1>13. HumanCallsAreApproved'
  BY <1>1 DEF IInv, HumanCallsAreApproved
<1>14. RequestsNamePerms'
  BY DEF IInv, RequestsNamePerms
<1>15. SeedsOK'
  BY <1>1 DEF IInv, SeedsOK
<1>16. RestKept
  BY <1>1 DEF RestKept, IInv, TypeOK
<1> QED BY <1>1, <1>4, <1>5, <1>8, <1>9, <1>12, <1>13, <1>14, <1>15, <1>16,
           ThreadStepOK DEF IInv, TypeOK

LEMMA IssueOK ==
  ASSUME IInv, NEW t \in Threads,
         IssueEphemeral(t) \/ IssueApproved(t) \/ InsertSeedGrant(t)
  PROVE  IInv'
<1> USE GrantsAssumption
<1>1. CASE IssueEphemeral(t)
  <2>1. loc[t].perm \notin HumanPerms
    BY <1>1 DEF IInv, ThreadOK, IssueEphemeral
  <2> QED BY <1>1, <2>1, InsertGrantOK DEF IssueEphemeral
<1>2. CASE IssueApproved(t)
  <2>1. /\ loc[t].request \in RequestIds
        /\ requests[loc[t].request].perm = loc[t].perm
        /\ requests[loc[t].request].status = "approved"
        /\ requests[loc[t].request] \in Request
    BY <1>2 DEF IInv, TypeOK, ThreadOK, IssueApproved
  <2>2. requests[loc[t].request] = [perm |-> loc[t].perm, status |-> "approved"]
    BY <2>1 DEF Request
  <2> QED BY <1>2, <2>1, <2>2, InsertGrantOK DEF IssueApproved
<1>3. CASE InsertSeedGrant(t)
  <2>1. loc[t].perm = SeedPerm
    BY <1>3 DEF IInv, ThreadOK, InsertSeedGrant, Seeding
  <2> QED BY <1>3, <2>1, InsertGrantOK DEF InsertSeedGrant
<1> QED BY <1>1, <1>2, <1>3

(* A step that writes one request's row, which keeps what it has.          *)
LEMMA RequestStepOK ==
  ASSUME IInv, NEW t \in Threads, NEW r \in RequestIds, NEW row \in Request,
         requests' = [requests EXCEPT ![r] = row], row.perm \in Perms,
         row.status # "none",
         requests[r].status # "none" => row.perm = requests[r].perm,
         requests[r].status = "approved" => row.status = "approved",
         NEW label \in Labels, label # "execute", Goto(t, label), Keep,
         ThreadOK(t)', UNCHANGED <<grants, gone, status, graph, created, second>>
  PROVE  IInv'
<1>1. /\ requests' \in [RequestIds -> Request] /\ requests'[r] = row
      /\ \A q \in RequestIds \ {r} : requests'[q] = requests[q]
  BY DEF IInv, TypeOK
<1>2. Moves(t, label, loc[t]) /\ loc[t] \in Locals
  BY KeepMoves DEF IInv
<1>3. Keeps(t)
  BY <1>1 DEF Keeps, IInv, TypeOK
<1>4. \A g \in GrantIds : InFlight(g)' <= InFlight(g) /\ InFlight(g)' \in Nat
                          /\ InFlight(g) \in Nat
  BY <1>2, LoopMoves DEF IInv
<1>5. ASSUME NEW g \in GrantIds
      PROVE  (grants[g].executed + grants[g].calls + InFlight(g) <= Issued(g))'
  <2>1. /\ grants[g].executed + grants[g].calls + InFlight(g) <= Issued(g)
        /\ grants[g].executed \in Nat /\ grants[g].calls \in Nat /\ Issued(g) \in Nat
    BY GrantsAssumption DEF IInv, Budget, TypeOK, Grant, Issued
  <2>2. Issued(g)' = Issued(g)
    BY DEF Issued
  <2> QED BY <1>4, <2>1, <2>2
<1>6. Budget'
  BY <1>5 DEF Budget
<1>7. HumanCallsAreApproved'
  <2> SUFFICES ASSUME NEW g \in GrantIds, grants[g].issuer # "none",
                      grants[g].perm \in HumanPerms
               PROVE  requests'[grants[g].request]
                        = [perm |-> grants[g].perm, status |-> "approved"]
    BY DEF IInv, HumanCallsAreApproved
  <2> DEFINE q == grants[g].request
  <2>1. q \in RequestIds /\ requests[q] = [perm |-> grants[g].perm, status |-> "approved"]
    BY DEF IInv, TypeOK, Grant, HumanCallsAreApproved
  <2>2. CASE q = r
    BY <1>1, <2>1, <2>2 DEF Request
  <2> QED BY <1>1, <2>1, <2>2
<1>8. RequestsNamePerms' /\ SeedsOK'
  BY <1>1 DEF IInv, RequestsNamePerms, SeedsOK
<1>9. RestKept
  BY RestUnchanged
<1> QED BY <1>1, <1>2, <1>3, <1>6, <1>7, <1>8, <1>9, ThreadStepOK DEF IInv, TypeOK

LEMMA RequestsOK ==
  ASSUME IInv, NEW t \in Threads, InsertRequest(t) \/ MarkApproved(t)
  PROVE  IInv'
<1>1. CASE InsertRequest(t)
  <2> DEFINE row == [perm |-> loc[t].perm, status |-> "pending"]
  <2>1. PICK r \in RequestIds :
          requests[r] = NoRequest /\ requests' = [requests EXCEPT ![r] = row]
    BY <1>1 DEF InsertRequest
  <2>2. loc[t].perm \in Perms /\ requests[r].status = "none"
    BY <1>1, <2>1 DEF IInv, ThreadOK, InsertRequest, NoRequest
  <2>3. row \in Request /\ row.perm = loc[t].perm /\ row.status = "pending"
    BY <2>2 DEF Request
  <2> HIDE DEF row
  <2>4. pc'[t] = "wait" /\ loc'[t] = loc[t] /\ "wait" \in Labels
        /\ Goto(t, "wait") /\ Keep /\ UNCHANGED <<grants, gone, status, graph, created, second>>
    BY <1>1 DEF InsertRequest, Goto, Keep, IInv, TypeOK, Labels
  <2>5. ThreadOK(t)'
    BY <2>2, <2>4, <1>1 DEF ThreadOK, IInv, Seeding
  <2> QED BY <2>1, <2>2, <2>3, <2>4, <2>5, RequestStepOK
<1>2. CASE MarkApproved(t)
  <2> DEFINE r == loc[t].request
             row == [requests[r] EXCEPT !.status = "approved"]
  <2>1. /\ r \in RequestIds /\ requests[r].perm = loc[t].perm
        /\ requests[r].status # "none" /\ loc[t].perm \in Perms
        /\ requests[r] \in Request
    BY <1>2 DEF IInv, TypeOK, ThreadOK, MarkApproved
  <2>2. row \in Request /\ row.perm = loc[t].perm /\ row.status = "approved"
    BY <2>1 DEF Request
  <2>3. requests' = [requests EXCEPT ![r] = row]
    BY <1>2 DEF MarkApproved, IInv, TypeOK
  <2>4. requests'[r] = row
    BY <2>1, <2>3 DEF IInv, TypeOK
  <2>5. pc'[t] = "grant" /\ loc'[t] = loc[t] /\ "grant" \in Labels
        /\ Goto(t, "grant") /\ Keep /\ UNCHANGED <<grants, gone, status, graph, created, second>>
    BY <1>2 DEF MarkApproved, Goto, Keep, IInv, TypeOK, Labels
  <2>6. /\ loc'[t].request = r
    BY <2>5
  <2> HIDE DEF row, r
  <2>7. ThreadOK(t)'
    BY <2>1, <2>2, <2>4, <2>5, <2>6, <1>2 DEF ThreadOK, IInv, Seeding
  <2> QED BY <2>1, <2>2, <2>3, <2>5, <2>7, RequestStepOK
<1> QED BY <1>1, <1>2

-----------------------------------------------------------------------------
LEMMA SelectOK ==
  ASSUME IInv, NEW t \in Threads, SelectGrant(t)
  PROVE  IInv'
<1>0. RestKept
  BY RestUnchanged DEF SelectGrant
<1>1. CASE Return(t)
  BY <1>0, <1>1, ReturnOK DEF SelectGrant
<1>2. CASE ~Return(t)
  <2>1. PICK g \in Newest(LiveFor(loc[t].perm)) :
          loc' = [loc EXCEPT ![t].grant = g] /\ Goto(t, "consume")
    BY <1>2 DEF SelectGrant
  <2>2. /\ g \in GrantIds \ gone /\ grants[g].issuer # "none" /\ grants[g].calls > 0
        /\ grants[g].perm = loc[t].perm
    BY <2>1 DEF Newest, LiveFor, Active
  <2> DEFINE mine == [loc[t] EXCEPT !.grant = g]
  <2>3. mine \in Locals /\ loc[t] \in Locals
    BY <2>2 DEF IInv, TypeOK, Locals
  <2>4. mine.op = loc[t].op /\ mine.perm = loc[t].perm /\ mine.grant = g
    BY <2>3 DEF Locals
  <2>5. Moves(t, "consume", mine) /\ "consume" \in Labels
        /\ UNCHANGED <<grants, requests, gone, status, graph, created, second>>
    BY <2>1 DEF SelectGrant, Moves, Goto, Labels, IInv, TypeOK
  <2> HIDE DEF mine
  <2>6. pc'[t] = "consume" /\ loc'[t] = mine
    BY <2>3, <2>5, MovesOK DEF IInv
  <2>7. \A h \in GrantIds \ gone : SameId(g, h) => h = g
    BY <2>2 DEF SameId, IInv, SeedsOK
  <2>8. ASSUME NEW h \in GrantIds, SameId(g, h)', h = g \/ h \notin gone'
        PROVE  grants'[h].calls > 0
    BY <2>2, <2>5, <2>7, <2>8 DEF SameId
  <2>9. ThreadOK(t)'
    BY <2>2, <2>4, <2>5, <2>6, <2>8 DEF ThreadOK, IInv, SelectGrant, Seeding
  <2> QED BY <1>0, <2>3, <2>5, <2>9, QuietStepOK
<1> QED BY <1>1, <1>2

(* The event loop moves a call from calls to in flight, or from in flight  *)
(* to executed: paid is what the grant's budget has lost since it was made.*)
LEMMA LoopStepOK ==
  ASSUME IInv, NEW g \in GrantIds, NEW row \in Grant,
         grants' = [grants EXCEPT ![g] = row],
         grants[g].issuer # "none",
         row.perm = grants[g].perm, row.issuer = grants[g].issuer,
         row.request = grants[g].request,
         NEW label \in Labels, NEW mine \in Locals, Moves(Loop, label, mine),
         ThreadOK(Loop)', UNCHANGED <<requests, gone, status, graph, created, second>>,
         row.executed + row.calls + InFlight(g)'
           <= grants[g].executed + grants[g].calls + InFlight(g),
         \A h \in GrantIds \ {g} : InFlight(h)' = InFlight(h)
  PROVE  IInv'
<1>0. Loop \in Threads
  BY DEF Threads
<1>1. /\ grants' \in [GrantIds -> Grant] /\ grants'[g] = row
      /\ \A h \in GrantIds \ {g} : grants'[h] = grants[h]
  BY DEF IInv, TypeOK
<1>2. Keeps(Loop)
  BY <1>1 DEF Keeps, IInv, TypeOK
<1>3. \A h \in GrantIds : Issued(h)' = Issued(h) /\ Issued(h) \in Nat
  BY <1>1, GrantsAssumption DEF Issued
<1>4. \A h \in GrantIds : InFlight(h) \in Nat /\ InFlight(h)' \in Nat
  BY DEF InFlight
<1>5. /\ row.executed \in Nat /\ row.calls \in Nat
      /\ \A h \in GrantIds : grants[h].executed \in Nat /\ grants[h].calls \in Nat
  BY DEF IInv, TypeOK, Grant
<1>6. ASSUME NEW h \in GrantIds
      PROVE  (grants[h].executed + grants[h].calls + InFlight(h) <= Issued(h))'
  <2>1. grants[h].executed + grants[h].calls + InFlight(h) <= Issued(h)
    BY DEF IInv, Budget
  <2>2. CASE h = g
    BY <1>1, <1>3, <1>4, <1>5, <2>1, <2>2
  <2>3. CASE h # g
    BY <1>1, <1>3, <1>4, <1>5, <2>1, <2>3
  <2> QED BY <2>2, <2>3
<1>7. Budget'
  BY <1>6 DEF Budget
<1>8. HumanCallsAreApproved' /\ RequestsNamePerms'
  BY <1>1 DEF IInv, HumanCallsAreApproved, RequestsNamePerms
<1>9. SeedsOK'
  BY <1>1 DEF IInv, SeedsOK
<1>10. RestKept
  BY RestUnchanged
<1> QED BY <1>0, <1>1, <1>2, <1>7, <1>8, <1>9, <1>10, ThreadStepOK DEF IInv, TypeOK

(* The row that ConsumeGrant's UPDATE is noted on.                         *)
LEMMA ConsumeShape ==
  ASSUME IInv, NEW t \in Threads, ConsumeGrant(t)
  PROVE  \E h \in GrantIds :
           /\ t = Loop /\ Loop \in Threads /\ pc[Loop] = "consume"
           /\ grants[h].issuer # "none" /\ grants[h].calls > 0
           /\ grants[h].perm = loc[Loop].perm
           /\ grants' = [grants EXCEPT ![h].calls = @ - 1]
           /\ loc' = [loc EXCEPT ![Loop].grant = h]
           /\ Goto(Loop, "execute")
           /\ UNCHANGED <<requests, gone, status, graph, created, second>>
<1> DEFINE g == loc[Loop].grant
<1>1. /\ t = Loop /\ Loop \in Threads /\ pc[Loop] = "consume"
      /\ g \in GrantIds /\ grants[g].issuer # "none" /\ grants[g].perm = loc[Loop].perm
      /\ \A h \in GrantIds :
           SameId(g, h) /\ (h = g \/ h \notin gone) => grants[h].calls > 0
      /\ Goto(Loop, "execute")
      /\ UNCHANGED <<requests, gone, status, graph, created, second>>
  BY DEF IInv, ThreadOK, ConsumeGrant
<1>2. PICK h \in IF RowsFound(g) # {} THEN RowsFound(g) ELSE {g} :
        /\ grants' = IF grants[h].calls > 0
                     THEN [grants EXCEPT ![h].calls = @ - 1] ELSE grants
        /\ loc' = [loc EXCEPT ![Loop].grant = h]
  BY <1>1 DEF ConsumeGrant
<1>3. h \in GrantIds /\ SameId(g, h) /\ (h = g \/ h \notin gone)
  BY <1>1, <1>2 DEF RowsFound, SameId
<1>4. grants[h].calls > 0
  BY <1>1, <1>3
<1>5. grants[h].issuer # "none" /\ grants[h].perm = loc[Loop].perm
  BY <1>1, <1>3 DEF SameId, IInv, SeedsOK
<1> QED BY <1>1, <1>2, <1>3, <1>4, <1>5

LEMMA ConsumeOK ==
  ASSUME IInv, NEW t \in Threads, ConsumeGrant(t)
  PROVE  IInv'
<1>1. PICK g \in GrantIds :
        /\ t = Loop /\ Loop \in Threads /\ pc[Loop] = "consume"
        /\ grants[g].issuer # "none" /\ grants[g].calls > 0
        /\ grants[g].perm = loc[Loop].perm
        /\ grants' = [grants EXCEPT ![g].calls = @ - 1]
        /\ loc' = [loc EXCEPT ![Loop].grant = g]
        /\ Goto(Loop, "execute")
        /\ UNCHANGED <<requests, gone, status, graph, created, second>>
  BY ConsumeShape
<1> DEFINE row == [grants[g] EXCEPT !.calls = @ - 1]
           mine == [loc[Loop] EXCEPT !.grant = g]
<1>2. /\ grants[g] \in Grant /\ grants[g].calls \in Nat /\ grants[g].executed \in Nat
      /\ loc[Loop] \in Locals
  BY <1>1 DEF IInv, TypeOK, Grant
<1>3. /\ row \in Grant /\ row.calls = grants[g].calls - 1
      /\ row.executed = grants[g].executed /\ row.perm = grants[g].perm
      /\ row.issuer = grants[g].issuer /\ row.request = grants[g].request
  BY <1>1, <1>2 DEF Grant
<1>4. grants' = [grants EXCEPT ![g] = row]
  BY <1>1, <1>2 DEF IInv, TypeOK
<1>5. /\ mine \in Locals /\ mine.grant = g /\ mine.perm = loc[Loop].perm
      /\ mine.op = loc[Loop].op
  BY <1>2 DEF Locals
<1>6. Moves(Loop, "execute", mine) /\ "execute" \in Labels
  BY <1>1 DEF Moves, Goto, Labels, IInv, TypeOK
<1> HIDE DEF row, mine
<1>7. pc'[Loop] = "execute" /\ loc'[Loop] = mine
  BY <1>1, <1>5, <1>6, MovesOK DEF IInv
<1>8. grants'[g] = row
  BY <1>4 DEF IInv, TypeOK
<1>9. InFlight(g)' = 1 /\ InFlight(g) = 0
      /\ \A h \in GrantIds \ {g} : InFlight(h)' = InFlight(h)
  BY <1>1, <1>5, <1>7 DEF InFlight
<1>10. ThreadOK(Loop)'
  BY <1>1, <1>3, <1>5, <1>7, <1>8 DEF ThreadOK, IInv, Seeding
<1>11. row.executed + row.calls + InFlight(g)' <= grants[g].executed + grants[g].calls + InFlight(g)
  BY <1>2, <1>3, <1>9
<1> QED BY <1>1, <1>3, <1>4, <1>5, <1>6, <1>9, <1>10, <1>11, LoopStepOK

LEMMA ExecuteOK ==
  ASSUME IInv, NEW t \in Threads, Execute(t)
  PROVE  IInv'
<1>1. PICK g \in GrantIds :
        /\ t = Loop /\ g = loc[Loop].grant
        /\ grants[g].issuer # "none" /\ pc[Loop] = "execute"
  BY DEF IInv, ThreadOK, Execute
<1> DEFINE row == [grants[g] EXCEPT !.executed = @ + 1]
<1>2. grants[g] \in Grant /\ grants[g].calls \in Nat /\ grants[g].executed \in Nat
  BY <1>1 DEF IInv, TypeOK, Grant
<1>3. /\ row \in Grant /\ row.calls = grants[g].calls
      /\ row.executed = grants[g].executed + 1 /\ row.perm = grants[g].perm
      /\ row.issuer = grants[g].issuer /\ row.request = grants[g].request
  BY <1>2 DEF Grant
<1>4. grants' = [grants EXCEPT ![g] = row]
  BY <1>1, <1>2 DEF Execute, IInv, TypeOK
<1>5. /\ Moves(Loop, "idle", Idle) /\ Idle \in Locals /\ "idle" \in Labels
      /\ UNCHANGED <<requests, gone, status, graph, created, second>>
  BY <1>1, IdleIsLocal DEF Execute, Return, Goto, Moves, Labels
<1>6. pc'[Loop] = "idle" /\ loc'[Loop] = Idle
  BY <1>1, <1>5, MovesOK DEF IInv
<1>7. InFlight(g)' = 0 /\ InFlight(g) = 1
      /\ \A h \in GrantIds \ {g} : InFlight(h)' = InFlight(h)
  BY <1>1, <1>6 DEF InFlight
<1>8. ThreadOK(Loop)'
  BY <1>6 DEF ThreadOK, Idle, Seeding
<1> HIDE DEF row
<1>9. row.executed + row.calls + InFlight(g)' <= grants[g].executed + grants[g].calls + InFlight(g)
  BY <1>2, <1>3, <1>7
<1> QED BY <1>1, <1>3, <1>4, <1>5, <1>7, <1>8, <1>9, LoopStepOK

(* A restart leaves what Init describes.                                   *)
LEMMA RestartsInit == Restart => Init'
BY DEF Restart, Init

LEMMA RestartOK == Restart => IInv'
<1>1. Init' => IInv'
  BY InitOK, PTL
<1> QED BY <1>1, RestartsInit

LEMMA ExpireOK ==
  ASSUME IInv, NEW g \in GrantIds, Expire(g)
  PROVE  IInv'
<1> DEFINE row == [grants[g] EXCEPT !.expired = TRUE]
<1>1. grants[g] \in Grant
  BY DEF IInv, TypeOK
<1>2. /\ row \in Grant /\ row.calls = grants[g].calls
      /\ row.executed = grants[g].executed /\ row.perm = grants[g].perm
      /\ row.issuer = grants[g].issuer /\ row.request = grants[g].request
  BY <1>1 DEF Grant
<1>3. grants' = [grants EXCEPT ![g] = row] /\ UNCHANGED <<requests, gone, status, graph, created, second, pc, loc>>
  BY <1>1 DEF Expire, IInv, TypeOK
<1> HIDE DEF row
<1>4. /\ grants' \in [GrantIds -> Grant]
      /\ \A h \in GrantIds :
           /\ grants'[h].calls = grants[h].calls /\ grants'[h].executed = grants[h].executed
           /\ grants'[h].perm = grants[h].perm /\ grants'[h].issuer = grants[h].issuer
           /\ grants'[h].request = grants[h].request
  BY <1>2, <1>3 DEF IInv, TypeOK
<1>5. TypeOK'
  BY <1>3, <1>4 DEF IInv, TypeOK
<1>6. Budget'
  BY <1>3, <1>4 DEF IInv, Budget, Issued, InFlight
<1>7. HumanCallsAreApproved' /\ RequestsNamePerms' /\ SeedsOK'
  BY <1>3, <1>4 DEF IInv, HumanCallsAreApproved, RequestsNamePerms, SeedsOK
<1>8. ASSUME NEW t \in Threads PROVE ThreadOK(t)'
  BY <1>3, <1>4 DEF IInv, ThreadOK, SameId
<1> QED BY <1>5, <1>6, <1>7, <1>8 DEF IInv

LEMMA NextOK == IInv /\ [Next]_vars => IInv'
<1> SUFFICES ASSUME IInv, [Next]_vars PROVE IInv'
  OBVIOUS
<1>1. CASE Arrive
  BY <1>1, ArriveOK
<1>2. ASSUME NEW t \in Threads, Handle(t) PROVE IInv'
  BY <1>2, FetchOK, SyncOK, DecideOK, IssueOK, RequestsOK, SelectOK, ConsumeOK,
     ExecuteOK DEF Handle
<1>3. ASSUME NEW g \in GrantIds, Expire(g) PROVE IInv'
  BY <1>3, ExpireOK
<1>4. ASSUME NEW t \in Threads, Fail(t) PROVE IInv'
  BY <1>4, ReturnOK, RestUnchanged DEF Fail
<1>5. CASE Restart
  BY <1>5, RestartOK
<1>6. ASSUME NEW t \in Threads, Reseeding(t) PROVE IInv'
  BY <1>6, ReseedOK, IssueOK DEF Reseeding
<1>7. CASE UNCHANGED vars
  BY <1>7 DEF vars, IInv, TypeOK, Budget, Issued, InFlight, HumanCallsAreApproved,
     RequestsNamePerms, SeedsOK, ThreadOK, SameId
<1> QED BY <1>1, <1>2, <1>3, <1>4, <1>5, <1>6, <1>7 DEF Next, Reliable

(* The invariant holds in every behaviour.                                 *)
THEOREM GrantsKeepOrder == Spec => []IInv
BY InitOK, NextOK, PTL DEF Spec

(* A call count never goes below zero and no row loses its shape.          *)
THEOREM TypeCorrect == Spec => []TypeOK
<1>1. IInv => TypeOK
  BY DEF IInv
<1> QED BY <1>1, GrantsKeepOrder, PTL

(* No grant pays for more executions than it was issued for, with any      *)
(* number of REST workers and whatever fails.                              *)
THEOREM ExecutionsArePaidFor == Spec => []ExecutionsWithinGrant
<1>1. IInv => ExecutionsWithinGrant
  <2> SUFFICES ASSUME IInv, NEW g \in GrantIds
               PROVE  grants[g].executed + grants[g].calls <= Issued(g)
    BY DEF ExecutionsWithinGrant
  <2>1. /\ grants[g].executed + grants[g].calls + InFlight(g) <= Issued(g)
        /\ grants[g].executed \in Nat /\ grants[g].calls \in Nat
        /\ InFlight(g) \in Nat /\ Issued(g) \in Nat
    BY GrantsAssumption DEF IInv, Budget, TypeOK, Grant, InFlight, Issued
  <2> QED BY <2>1
<1> QED BY <1>1, GrantsKeepOrder, PTL

(* A human permission is only granted for an approved request of it.       *)
THEOREM HumansApprove == Spec => []HumanCallsAreApproved
<1>1. IInv => HumanCallsAreApproved
  BY DEF IInv
<1> QED BY <1>1, GrantsKeepOrder, PTL

-----------------------------------------------------------------------------
(* What a handler may count on when no other handler is doing the same.    *)
LEMMA Arrives ==
  ASSUME TypeOK, NEW t \in Threads, NEW label, Goto(t, label)
  PROVE  pc'[t] = label
BY DEF TypeOK, Goto

LEMMA Returns ==
  ASSUME TypeOK, NEW t \in Threads, Return(t)
  PROVE  pc'[t] = "idle" /\ loc'[t] = Idle
BY DEF TypeOK, Return, Goto

OthersStay(t) == \A u \in Threads \ {t} : pc'[u] = pc[u] /\ loc'[u] = loc[u]

LEMMA SyncShape ==
  ASSUME TypeOK, NEW t \in Threads, AfterSync(t)
  PROVE  /\ OthersStay(t)
         /\ pc'[t] \in {"select", "idle", "find", "decide"}
         /\ pc'[t] = "select" => loc[t].op = "call"
         /\ pc'[t] = "idle" => loc'[t] = Idle
         /\ pc'[t] \in {"find", "decide"} => ~loc[t].issued
         /\ pc'[t] = "find" => loc[t].op = "anticipate"
         /\ pc'[t] # "idle" => /\ loc'[t].op = loc[t].op
                               /\ loc'[t].perm = loc[t].perm
                               /\ loc'[t].request = loc[t].request
                               /\ loc'[t].issued = loc[t].issued
<1>0. loc[t] \in Locals /\ loc \in [Threads -> Locals] /\ pc \in [Threads -> Labels]
  BY DEF TypeOK
<1>1. ASSUME loc' = [loc EXCEPT ![t].rows = {}]
      PROVE  /\ loc'[t].op = loc[t].op /\ loc'[t].perm = loc[t].perm
             /\ loc'[t].request = loc[t].request /\ loc'[t].issued = loc[t].issued
             /\ \A u \in Threads \ {t} : loc'[u] = loc[u]
  <2>1. loc'[t] = [loc[t] EXCEPT !.rows = {}]
    BY <1>0, <1>1
  <2> QED BY <1>0, <1>1, <2>1 DEF Locals
<1>2. CASE loc[t].issued /\ loc[t].op = "call"
  BY <1>0, <1>1, <1>2 DEF AfterSync, Goto, OthersStay
<1>3. CASE loc[t].issued /\ loc[t].op # "call"
  <2>1. pc'[t] = "idle" /\ loc'[t] = Idle
    BY <1>3, Returns DEF AfterSync
  <2>2. OthersStay(t)
    BY <1>0, <1>3 DEF AfterSync, Return, Goto, OthersStay
  <2> QED BY <2>1, <2>2
<1>4. CASE ~loc[t].issued
  BY <1>0, <1>1, <1>4 DEF AfterSync, Goto, OthersStay
<1> QED BY <1>2, <1>3, <1>4

LEMMA HandlersStay ==
  ASSUME TypeOK, NEW t \in Threads, Handle(t) \/ Fail(t)
  PROVE  OthersStay(t) /\ pc[t] # "idle"
<1> USE DEF Goto, Return, Keep, TypeOK, OthersStay
<1>1. CASE Assign(t) \/ SyncFails(t)
  BY <1>1, SyncShape DEF Assign, SyncFails
<1>2. CASE IssueEphemeral(t) \/ IssueApproved(t)
  BY <1>2 DEF IssueEphemeral, IssueApproved, InsertGrant
<1>3. CASE Fetch(t) \/ DecideAllow(t) \/ DecideMode(t) \/ FindPending(t)
           \/ InsertRequest(t) \/ WaitForHuman(t)
  BY <1>3 DEF Fetch, DecideAllow, DecideMode, FindPending, InsertRequest, WaitForHuman
<1>4. CASE MarkApproved(t) \/ Activate(t) \/ ConsumeGrant(t) \/ Execute(t) \/ Fail(t)
  BY <1>4 DEF MarkApproved, Activate, ConsumeGrant, Execute, Fail
<1>5. CASE SelectGrant(t)
  BY <1>5 DEF SelectGrant
<1> QED BY <1>1, <1>2, <1>3, <1>4, <1>5 DEF Handle

LEMMA StartShape ==
  ASSUME TypeOK, NEW t \in Threads, NEW op, NEW p, NEW r, NEW label,
         Start(t, op, p, r, label)
  PROVE  /\ OthersStay(t) /\ pc[t] = "idle" /\ pc'[t] = label
         /\ loc'[t].op = op /\ loc'[t].perm = p /\ loc'[t].request = r
         /\ UNCHANGED <<grants, requests, gone, status, graph, created, second>>
<1>1. loc'[t] = [Idle EXCEPT !.op = op, !.perm = p, !.request = r]
  BY DEF Start, TypeOK
<1>2. loc'[t].op = op /\ loc'[t].perm = p /\ loc'[t].request = r
  BY <1>1 DEF Idle
<1> QED BY <1>2, Arrives DEF Start, Goto, TypeOK, OthersStay

(* A request arrives at one thread, which has only begun.                  *)
Arrived(t) ==
  /\ OthersStay(t) /\ pc[t] = "idle" /\ pc'[t] \in {"fetch", "approve", "delete requests"}
  /\ UNCHANGED <<grants, requests, gone, status, graph, created, second>>

LEMMA ArriveShape ==
  ASSUME TypeOK, Arrive
  PROVE  \E t \in Threads :
           /\ Arrived(t)
           /\ \/ pc'[t] = "fetch" /\ loc'[t].op # "approve" /\ loc'[t].request = None
              \/ \E r \in RequestIds :
                   /\ pc'[t] = "approve" /\ loc'[t].op = "approve" /\ t \in Workers
                   /\ loc'[t].request = r /\ requests[r].status = "pending"
<1>1. ASSUME NEW p \in Perms, ToolCall(p)
      PROVE  Arrived(Loop) /\ pc'[Loop] = "fetch" /\ loc'[Loop].op = "call"
             /\ loc'[Loop].request = None /\ Loop \in Threads
  BY <1>1, StartShape DEF ToolCall, Arrived, Threads
<1>2. ASSUME NEW t \in Threads, NEW p \in Perms, Authorize(t, p)
      PROVE  Arrived(t) /\ pc'[t] = "fetch" /\ loc'[t].op = "authorize"
             /\ loc'[t].request = None
  BY <1>2, StartShape DEF Authorize, Arrived
<1>3. ASSUME NEW t \in Threads, NEW p \in Perms, Anticipate(t, p)
      PROVE  Arrived(t) /\ pc'[t] = "fetch" /\ loc'[t].op = "anticipate"
             /\ loc'[t].request = None
  BY <1>3, StartShape DEF Anticipate, Arrived
<1>4. ASSUME NEW t \in Workers, NEW r \in RequestIds, Approve(t, r)
      PROVE  Arrived(t) /\ pc'[t] = "approve" /\ loc'[t].op = "approve"
             /\ loc'[t].request = r /\ requests[r].status = "pending" /\ t \in Threads
  <2>1. t \in Threads /\ Start(t, "approve", requests[r].perm, r, "approve")
        /\ requests[r].status = "pending"
    BY <1>4 DEF Approve, Threads
  <2>2. /\ OthersStay(t) /\ pc[t] = "idle" /\ pc'[t] = "approve"
        /\ loc'[t].op = "approve" /\ loc'[t].request = r
        /\ UNCHANGED <<grants, requests, gone, status, graph, created, second>>
    BY <2>1, StartShape
  <2> QED BY <2>1, <2>2 DEF Arrived
<1> QED BY <1>1, <1>2, <1>3, <1>4 DEF Arrive

(* The statements of a reseed, but for the first and the last that matter. *)
Deletes(t) ==
  DeleteRequests(t) \/ DeleteGrants(t) \/ DeleteSession(t) \/ InsertSession(t)

LEMMA ReseedShape ==
  ASSUME TypeOK, NEW t \in Threads, Reseed(t)
  PROVE  /\ Arrived(t) /\ pc'[t] = "delete requests" /\ loc'[t].op = "reseed"
         /\ loc'[t].request = None
BY StartShape DEF Reseed, Arrived

LEMMA DeletesShape ==
  ASSUME IInv, NEW t \in Threads, Deletes(t)
  PROVE  /\ OthersStay(t) /\ loc'[t] = loc[t] /\ loc[t].op = "reseed"
         /\ pc[t] \in Seeding /\ pc'[t] \in Seeding
         /\ UNCHANGED <<grants, requests, graph, created, second>> /\ gone \subseteq gone'
<1>1. pc[t] \in Seeding
  BY DEF Deletes, DeleteRequests, DeleteGrants, DeleteSession, InsertSession, Seeding
<1>2. loc[t].op = "reseed"
  BY <1>1 DEF IInv, ThreadOK
<1>3. PICK label \in Seeding : Goto(t, label) /\ Keep
  BY DEF Deletes, DeleteRequests, DeleteGrants, DeleteSession, InsertSession, Seeding
<1>4. UNCHANGED <<grants, requests, graph, created, second>> /\ gone \subseteq gone'
  BY DEF Deletes, DeleteRequests, DeleteGrants, DeleteSession, InsertSession
<1> QED BY <1>1, <1>2, <1>3, <1>4 DEF Goto, Keep, OthersStay, IInv, TypeOK

(* The INSERT of a grant, whoever issues it.                               *)
Inserts(t) == IssueEphemeral(t) \/ IssueApproved(t) \/ InsertSeedGrant(t)

InsertedBy(t, g, issuer, calls) ==
  /\ grants[g].issuer = "none"
  /\ grants' = [grants EXCEPT ![g] =
                  NewGrant(loc[t].perm, issuer, loc[t].request, calls)]
  /\ grants'[g].issuer = issuer /\ grants'[g].perm = loc[t].perm
  /\ grants'[g].request = loc[t].request
  /\ grants'[g].calls = calls /\ grants'[g].executed = 0
  /\ \A h \in GrantIds \ {g} : grants'[h] = grants[h]
  /\ loc' = [loc EXCEPT ![t].issued = TRUE]
  /\ \/ IssueEphemeral(t) /\ issuer = "policy:auto_approve" /\ calls = AutoCalls
     \/ InsertSeedGrant(t) /\ issuer = "seed" /\ calls = SeedCalls
     \/ IssueApproved(t) /\ issuer = "human" /\ calls = HumanCalls

LEMMA InsertsRow ==
  ASSUME IInv, NEW t \in Threads, Inserts(t)
  PROVE  \E g \in GrantIds, issuer \in {"seed", "policy:auto_approve", "human"},
            calls \in Nat : InsertedBy(t, g, issuer, calls)
<1> USE GrantsAssumption
<1>1. PICK issuer \in {"seed", "policy:auto_approve", "human"}, calls \in Nat :
        /\ pc[t] # "idle" /\ InsertGrant(t, issuer, calls)
        /\ \/ IssueEphemeral(t) /\ issuer = "policy:auto_approve" /\ calls = AutoCalls
           \/ InsertSeedGrant(t) /\ issuer = "seed" /\ calls = SeedCalls
           \/ IssueApproved(t) /\ issuer = "human" /\ calls = HumanCalls
  <2>1. CASE IssueEphemeral(t)
    BY <2>1 DEF IssueEphemeral
  <2>2. CASE InsertSeedGrant(t)
    BY <2>2 DEF InsertSeedGrant
  <2>3. CASE IssueApproved(t)
    BY <2>3 DEF IssueApproved
  <2> QED BY <2>1, <2>2, <2>3 DEF Inserts
<1>2. \E g \in GrantIds : InsertedBy(t, g, issuer, calls)
  BY <1>1, InsertShape DEF InsertedBy
<1> QED BY <1>2

LEMMA InsertsShape ==
  ASSUME IInv, NEW t \in Threads, Inserts(t)
  PROVE  /\ OthersStay(t) /\ UNCHANGED <<requests, gone, status, graph>>
         /\ loc'[t].op = loc[t].op /\ loc'[t].perm = loc[t].perm
         /\ loc'[t].request = loc[t].request /\ loc'[t].issued
         /\ \/ IssueEphemeral(t) /\ pc[t] = "issue" /\ pc'[t] = "fetch"
            \/ InsertSeedGrant(t) /\ pc[t] = "insert grant" /\ pc'[t] = "fetch"
            \/ IssueApproved(t) /\ pc[t] = "grant" /\ pc'[t] = "activate"
<1>2. loc' = [loc EXCEPT ![t].issued = TRUE]
  BY InsertsRow DEF InsertedBy
<1>3. loc[t] \in Locals /\ loc'[t] = [loc[t] EXCEPT !.issued = TRUE]
  BY <1>2 DEF IInv, TypeOK
<1>4. /\ loc'[t].op = loc[t].op /\ loc'[t].perm = loc[t].perm
      /\ loc'[t].request = loc[t].request /\ loc'[t].issued
  BY <1>3 DEF Locals
<1>5. \/ IssueEphemeral(t) /\ pc[t] = "issue" /\ pc'[t] = "fetch"
      \/ InsertSeedGrant(t) /\ pc[t] = "insert grant" /\ pc'[t] = "fetch"
      \/ IssueApproved(t) /\ pc[t] = "grant" /\ pc'[t] = "activate"
  BY Arrives DEF Inserts, IssueEphemeral, IssueApproved, InsertSeedGrant, IInv
<1>6. OthersStay(t) /\ UNCHANGED <<requests, gone, status, graph>>
  BY <1>2 DEF Inserts, IssueEphemeral, IssueApproved, InsertSeedGrant, Goto, OthersStay,
     IInv, TypeOK
<1> QED BY <1>4, <1>5, <1>6

LEMMA ReseedingShape ==
  ASSUME IInv, NEW t \in Threads, Reseeding(t)
  PROVE  /\ OthersStay(t) /\ requests' = requests /\ graph' = graph /\ gone \subseteq gone'
         /\ pc[t] \in Seeding \cup {"idle"} /\ pc'[t] \in Seeding \cup {"fetch"}
         /\ ~InsertSeedGrant(t) => grants' = grants
<1>1. CASE InsertSeedGrant(t)
  <2>1. pc[t] = "insert grant" /\ pc'[t] = "fetch"
    BY <1>1, Arrives DEF InsertSeedGrant, IInv
  <2> QED BY <1>1, <2>1, InsertsShape DEF Inserts, Seeding
<1>2. CASE Reseed(t)
  BY <1>2, ReseedShape DEF Arrived, Seeding, IInv
<1>3. CASE Deletes(t)
  BY <1>3, DeletesShape
<1> QED BY <1>1, <1>2, <1>3 DEF Reseeding, Deletes

LEMMA GoneStays ==
  ASSUME NEW t, Handle(t) \/ Fail(t)
  PROVE  gone' = gone
<1>1. CASE Assign(t) \/ SyncFails(t) \/ Fail(t)
  BY <1>1 DEF Assign, SyncFails, Fail
<1>2. CASE IssueEphemeral(t) \/ IssueApproved(t)
  BY <1>2 DEF IssueEphemeral, IssueApproved
<1>3. CASE ~(Assign(t) \/ SyncFails(t) \/ Fail(t) \/ IssueEphemeral(t) \/ IssueApproved(t))
  BY <1>3 DEF Handle, Fetch, DecideAllow, DecideMode, FindPending, InsertRequest,
     WaitForHuman, MarkApproved, Activate, SelectGrant, ConsumeGrant, Execute
<1> QED BY <1>1, <1>2, <1>3

-----------------------------------------------------------------------------
(* Two approvals of one request are never handled at the same time.        *)
ApprovalsDoNotOverlap ==
  \A t, u \in Threads :
    /\ pc[t] \in {"approve", "grant"} /\ pc[u] \in {"approve", "grant"}
    /\ loc[t].request = loc[u].request
    => t = u

(* An approval that is under way has issued no grant before IssueApproved, *)
(* and one that is beyond it does not come back.                           *)
Approver(t) ==
  /\ loc[t].op = "approve" =>
       /\ t \in Workers
       /\ pc[t] \in {"approve", "grant", "activate", "fetch", "assign"}
       /\ pc[t] \in {"activate", "fetch", "assign"} => loc[t].issued
  /\ loc[t].op # "approve" => loc[t].request = None
  /\ pc[t] \in {"approve", "grant"} =>
       /\ loc[t].op = "approve"
       /\ \A g \in GrantIds : grants[g].request # loc[t].request

(* A request that a grant was issued for is approved: it is not taken up   *)
(* again.                                                                  *)
GrantedIsApproved ==
  \A g \in GrantIds :
    grants[g].request # None => requests[grants[g].request].status = "approved"

ApprovalInv ==
  OneGrantPerApproval /\ GrantedIsApproved /\ \A t \in Threads : Approver(t)

LEMMA ApprovalInit == Init => ApprovalInv
<1> SUFFICES ASSUME Init PROVE ApprovalInv
  OBVIOUS
<1>1. \A g \in GrantIds : grants[g].request = None
  BY SeedRow, BlankRows DEF Init, SeededWith
<1>2. \A t \in Threads : pc[t] = "idle" /\ loc[t] = Idle
  BY DEF Init, AllIdle, NoLocals
<1> QED BY <1>1, <1>2 DEF ApprovalInv, OneGrantPerApproval, GrantedIsApproved, Approver, Idle

SameLinks == \A g \in GrantIds : grants'[g].request = grants[g].request

StayApproved ==
  \A r \in RequestIds : requests[r].status = "approved" => requests'[r].status = "approved"

LEMMA ApproverIdle ==
  ASSUME NEW t, pc'[t] = "idle", loc'[t] = Idle
  PROVE  Approver(t)'
BY DEF Approver, Idle

LEMMA ApprovalKept ==
  ASSUME IInv, ApprovalInv, NEW t \in Threads, OthersStay(t), SameLinks, StayApproved,
         Approver(t)'
  PROVE  ApprovalInv'
<1>1. \A g \in GrantIds : grants[g].request \in RequestIds \cup {None}
  BY DEF IInv, TypeOK, Grant
<1>2. OneGrantPerApproval'
  BY DEF ApprovalInv, OneGrantPerApproval, SameLinks
<1>3. GrantedIsApproved'
  BY <1>1 DEF ApprovalInv, GrantedIsApproved, SameLinks, StayApproved
<1>4. ASSUME NEW u \in Threads \ {t} PROVE Approver(u)'
  BY <1>4 DEF ApprovalInv, Approver, SameLinks, OthersStay
<1> QED BY <1>2, <1>3, <1>4 DEF ApprovalInv

(* A thread that goes on with what it has.                                 *)
LEMMA ApproverGoesOn ==
  ASSUME NEW t, Approver(t), SameLinks,
         pc'[t] \notin {"approve", "grant"},
         loc'[t].op = loc[t].op, loc'[t].request = loc[t].request,
         loc'[t].issued = loc[t].issued,
         loc[t].op = "approve" => loc[t].issued /\ pc'[t] \in {"fetch", "assign"}
  PROVE  Approver(t)'
BY DEF Approver

(* The handlers that neither issue a grant nor write a request's status.   *)
LEMMA ApproverQuiet ==
  ASSUME IInv, ApprovalInv, NEW t \in Threads,
         \/ Fetch(t) \/ Assign(t) \/ SyncFails(t) \/ DecideAllow(t) \/ DecideMode(t)
         \/ FindPending(t) \/ InsertRequest(t) \/ WaitForHuman(t) \/ Activate(t)
         \/ SelectGrant(t) \/ ConsumeGrant(t) \/ Execute(t) \/ Fail(t),
         SameLinks
  PROVE  Approver(t)'
<1>0. TypeOK /\ Approver(t) /\ loc[t] \in Locals
  BY DEF IInv, TypeOK, ApprovalInv
<1>1. CASE Fetch(t)
  <2>1. loc'[t] = [loc[t] EXCEPT !.rows = {g \in GrantIds : Active(g)}]
    BY <1>0, <1>1 DEF Fetch, TypeOK
  <2>2. loc'[t].op = loc[t].op /\ loc'[t].request = loc[t].request
        /\ loc'[t].issued = loc[t].issued
    BY <1>0, <2>1 DEF Locals
  <2>3. pc'[t] = "assign" /\ pc[t] = "fetch"
    BY <1>0, <1>1, Arrives DEF Fetch
  <2> QED BY <1>0, <2>2, <2>3, ApproverGoesOn DEF Approver
<1>2. CASE Assign(t) \/ SyncFails(t)
  <2>1. AfterSync(t) /\ pc[t] \in {"fetch", "assign"}
    BY <1>2 DEF Assign, SyncFails
  <2>2. CASE pc'[t] = "idle"
    BY <1>0, <2>1, <2>2, SyncShape, ApproverIdle
  <2>3. CASE pc'[t] # "idle"
    <3>1. loc[t].op # "approve"
      BY <1>0, <2>1, <2>3, SyncShape DEF Approver
    <3> QED BY <1>0, <2>1, <2>3, <3>1, SyncShape, ApproverGoesOn
  <2> QED BY <2>2, <2>3
<1>3. ASSUME NEW label \in {"select", "find", "issue", "wait", "request", "execute"},
             Goto(t, label), Keep,
             pc[t] \in {"decide", "find", "request", "consume"}
      PROVE  Approver(t)'
  <2>1. pc'[t] = label /\ loc'[t] = loc[t] /\ loc[t].op # "approve"
    BY <1>0, <1>3, Arrives DEF Keep, Approver
  <2> QED BY <1>0, <2>1, ApproverGoesOn
<1>4. CASE Return(t)
  BY <1>0, <1>4, Returns, ApproverIdle
<1>5. CASE DecideAllow(t)
  BY <1>3, <1>4, <1>5 DEF DecideAllow
<1>6. CASE DecideMode(t) \/ FindPending(t) \/ InsertRequest(t)
  BY <1>3, <1>6 DEF DecideMode, FindPending, InsertRequest
<1>7. CASE WaitForHuman(t) \/ Execute(t) \/ Fail(t)
  BY <1>4, <1>7 DEF WaitForHuman, Execute, Fail
<1>8. CASE Activate(t)
  <2>1. pc'[t] = "fetch" /\ loc'[t] = loc[t] /\ pc[t] = "activate"
    BY <1>0, <1>8, Arrives DEF Activate, Keep
  <2> QED BY <1>0, <2>1, ApproverGoesOn DEF Approver
<1>9. CASE ConsumeGrant(t) \/ (SelectGrant(t) /\ ~Return(t))
  <2>1. PICK g \in GrantIds, label \in {"consume", "execute"} :
          loc' = [loc EXCEPT ![t].grant = g] /\ Goto(t, label)
    <3>1. CASE ConsumeGrant(t)
      BY <3>1, ConsumeShape
    <3>2. CASE SelectGrant(t) /\ ~Return(t)
      BY <3>2 DEF SelectGrant, Newest, LiveFor
    <3> QED BY <1>9, <3>1, <3>2
  <2>2. /\ loc'[t] = [loc[t] EXCEPT !.grant = g] /\ pc'[t] \in {"consume", "execute"}
        /\ pc[t] \in {"select", "consume"}
    BY <1>0, <1>9, <2>1, Arrives DEF SelectGrant, ConsumeGrant, TypeOK
  <2>3. loc'[t].op = loc[t].op /\ loc'[t].request = loc[t].request
        /\ loc'[t].issued = loc[t].issued
    BY <1>0, <2>2 DEF Locals
  <2> QED BY <1>0, <2>2, <2>3, ApproverGoesOn DEF Approver
<1> QED BY <1>1, <1>2, <1>4, <1>5, <1>6, <1>7, <1>8, <1>9

LEMMA RowsKept ==
  ASSUME IInv, NEW t \in Threads,
         \/ Fetch(t) \/ Assign(t) \/ SyncFails(t) \/ DecideAllow(t) \/ DecideMode(t)
         \/ FindPending(t) \/ InsertRequest(t) \/ WaitForHuman(t) \/ MarkApproved(t)
         \/ Activate(t) \/ SelectGrant(t) \/ ConsumeGrant(t) \/ Execute(t) \/ Fail(t)
  PROVE  SameLinks /\ StayApproved
<1>1. SameLinks
  <2>1. CASE ConsumeGrant(t) \/ Execute(t)
    BY <2>1 DEF ConsumeGrant, Execute, SameLinks, IInv, TypeOK, Grant
  <2>2. CASE ~ConsumeGrant(t) /\ ~Execute(t)
    BY <2>2 DEF Fetch, Assign, SyncFails, DecideAllow, DecideMode, FindPending,
       InsertRequest, WaitForHuman, MarkApproved, Activate, SelectGrant, Fail, SameLinks
  <2> QED BY <2>1, <2>2
<1>2. StayApproved
  <2>1. CASE InsertRequest(t)
    BY <2>1 DEF InsertRequest, StayApproved, NoRequest, IInv, TypeOK
  <2>2. CASE MarkApproved(t)
    BY <2>2 DEF MarkApproved, StayApproved, IInv, TypeOK, Request
  <2>3. CASE ~InsertRequest(t) /\ ~MarkApproved(t)
    BY <2>3 DEF Fetch, Assign, SyncFails, DecideAllow, DecideMode, FindPending,
       WaitForHuman, Activate, SelectGrant, ConsumeGrant, Execute, Fail, StayApproved
  <2> QED BY <2>1, <2>2, <2>3
<1> QED BY <1>1, <1>2

LEMMA ApproverMarks ==
  ASSUME IInv, ApprovalInv, NEW t \in Threads, MarkApproved(t), SameLinks
  PROVE  Approver(t)'
<1>1. pc'[t] = "grant" /\ loc'[t] = loc[t] /\ pc[t] = "approve"
  BY Arrives DEF MarkApproved, Keep, IInv
<1> QED BY <1>1 DEF ApprovalInv, Approver, SameLinks

(* The one place where a grant gets its request.                           *)
LEMMA ApproverIssues ==
  ASSUME IInv, ApprovalInv, ApprovalsDoNotOverlap, NEW t \in Threads, Inserts(t)
  PROVE  ApprovalInv'
<1> USE GrantsAssumption
<1> DEFINE r == loc[t].request
<1>1. /\ OthersStay(t) /\ requests' = requests
      /\ loc'[t].op = loc[t].op /\ loc'[t].request = r /\ loc'[t].issued
      /\ \/ pc[t] \in {"issue", "insert grant"} /\ pc'[t] = "fetch"
         \/ pc[t] = "grant" /\ pc'[t] = "activate"
  BY InsertsShape
<1>2. PICK g \in GrantIds :
        /\ grants'[g].request = r
        /\ \A h \in GrantIds \ {g} : grants'[h].request = grants[h].request
  BY InsertsRow DEF InsertedBy
<1>3. \A u \in Threads : pc[u] \in {"approve", "grant"} => loc[u].request # None
  BY DEF IInv, ThreadOK
<1>4. \A h \in GrantIds : grants[h].request \in RequestIds \cup {None}
  BY DEF IInv, TypeOK, Grant
<1>5. CASE pc[t] \in {"issue", "insert grant"}
  <2>1. loc[t].op # "approve" /\ r = None
    BY <1>5 DEF ApprovalInv, Approver
  <2>2. OneGrantPerApproval' /\ GrantedIsApproved'
    BY <1>1, <1>2, <1>4, <2>1 DEF ApprovalInv, OneGrantPerApproval, GrantedIsApproved
  <2>3. Approver(t)'
    BY <1>1, <1>5, <2>1 DEF Approver
  <2>4. ASSUME NEW u \in Threads \ {t} PROVE Approver(u)'
    <3>1. pc'[u] = pc[u] /\ loc'[u] = loc[u] /\ Approver(u)
      BY <1>1 DEF OthersStay, ApprovalInv
    <3> QED BY <1>2, <1>3, <2>1, <3>1 DEF Approver
  <2> QED BY <2>2, <2>3, <2>4 DEF ApprovalInv
<1>6. CASE pc[t] = "grant"
  <2>1. /\ loc[t].op = "approve" /\ t \in Workers
        /\ \A h \in GrantIds : grants[h].request # r
        /\ requests[r].status = "approved"
    BY <1>6 DEF ApprovalInv, Approver, IInv, ThreadOK
  <2>2. OneGrantPerApproval'
    BY <1>2, <1>4, <2>1 DEF ApprovalInv, OneGrantPerApproval
  <2>5. GrantedIsApproved'
    BY <1>1, <1>2, <1>4, <2>1 DEF ApprovalInv, GrantedIsApproved
  <2>3. Approver(t)'
    BY <1>1, <1>6, <2>1 DEF Approver
  <2>4. ASSUME NEW u \in Threads \ {t} PROVE Approver(u)'
    <3>1. pc'[u] = pc[u] /\ loc'[u] = loc[u] /\ Approver(u)
      BY <1>1 DEF OthersStay, ApprovalInv
    <3>2. pc[u] \in {"approve", "grant"} => loc[u].request # r
      BY <1>6 DEF ApprovalsDoNotOverlap
    <3> QED BY <1>2, <3>1, <3>2 DEF Approver
  <2> QED BY <2>2, <2>3, <2>4, <2>5 DEF ApprovalInv
<1> QED BY <1>1, <1>5, <1>6

LEMMA ApprovalNext ==
  IInv /\ ApprovalInv /\ ApprovalsDoNotOverlap /\ [Next]_vars => ApprovalInv'
<1> SUFFICES ASSUME IInv, ApprovalInv, ApprovalsDoNotOverlap, [Next]_vars
             PROVE  ApprovalInv'
  OBVIOUS
<1>0. TypeOK
  BY DEF IInv
<1>1. CASE Arrive
  <2>1. PICK t \in Threads :
           /\ Arrived(t)
           /\ \/ pc'[t] = "fetch" /\ loc'[t].op # "approve" /\ loc'[t].request = None
              \/ \E r \in RequestIds :
                   /\ pc'[t] = "approve" /\ loc'[t].op = "approve" /\ t \in Workers
                   /\ loc'[t].request = r /\ requests[r].status = "pending"
    BY <1>0, <1>1, ArriveShape
  <2>2. SameLinks /\ StayApproved /\ UNCHANGED <<grants, requests>> /\ OthersStay(t)
    BY <2>1 DEF Arrived, SameLinks, StayApproved
  <2>3. Approver(t)'
    BY <2>1, <2>2, GrantsAssumption DEF Approver, ApprovalInv, GrantedIsApproved
  <2> QED BY <2>2, <2>3, ApprovalKept
<1>2. ASSUME NEW t \in Threads, Handle(t) \/ Fail(t) PROVE ApprovalInv'
  <2>1. CASE IssueEphemeral(t) \/ IssueApproved(t)
    BY <2>1, ApproverIssues DEF Inserts
  <2>2. CASE ~(IssueEphemeral(t) \/ IssueApproved(t))
    <3>1. SameLinks /\ StayApproved /\ OthersStay(t)
      BY <1>0, <1>2, <2>2, RowsKept, HandlersStay DEF Handle
    <3>2. Approver(t)'
      BY <1>2, <2>2, <3>1, ApproverQuiet, ApproverMarks DEF Handle
    <3> QED BY <3>1, <3>2, ApprovalKept
  <2> QED BY <2>1, <2>2
<1>3. ASSUME NEW g \in GrantIds, Expire(g) PROVE ApprovalInv'
  <2>1. SameLinks /\ UNCHANGED <<requests, pc, loc>>
    BY <1>3 DEF Expire, SameLinks, IInv, TypeOK, Grant
  <2> QED BY <2>1 DEF SameLinks, ApprovalInv, OneGrantPerApproval, GrantedIsApproved, Approver
<1>4. ASSUME NEW t \in Threads, Reseeding(t) PROVE ApprovalInv'
  <2>1. CASE Inserts(t)
    BY <2>1, ApproverIssues
  <2>2. CASE Reseed(t)
    <3>1. SameLinks /\ StayApproved /\ OthersStay(t) /\ Approver(t)'
      BY <1>0, <2>2, ReseedShape DEF Arrived, SameLinks, StayApproved, Approver
    <3> QED BY <3>1, ApprovalKept
  <2>3. CASE Deletes(t)
    <3>1. SameLinks /\ StayApproved /\ OthersStay(t)
      BY <2>3, DeletesShape DEF SameLinks, StayApproved
    <3>2. Approver(t)'
      BY <2>3, <3>1, DeletesShape, ApproverGoesOn DEF ApprovalInv, Seeding
    <3> QED BY <3>1, <3>2, ApprovalKept
  <2> QED BY <1>4, <2>1, <2>2, <2>3 DEF Reseeding, Inserts, Deletes
<1>5. CASE UNCHANGED vars
  BY <1>5 DEF vars, ApprovalInv, OneGrantPerApproval, GrantedIsApproved, Approver
<1>6. Init' => ApprovalInv'
  BY ApprovalInit, PTL
<1> QED BY <1>1, <1>2, <1>3, <1>4, <1>5, <1>6, RestartsInit DEF Next, Reliable

(* One approval issues one grant, with any number of workers and failures  *)
(* anywhere, unless a second approval of the same request overlaps it.     *)
THEOREM ApprovalIssuesOnce ==
  Spec /\ []ApprovalsDoNotOverlap => []OneGrantPerApproval
<1>1. ApprovalInv => OneGrantPerApproval
  BY DEF ApprovalInv
<1> QED BY <1>1, ApprovalInit, ApprovalNext, GrantsKeepOrder, PTL DEF Spec

(* With one worker, as in the instance that is checked, none overlaps.     *)
THEOREM OneWorkerApprovesOnce ==
  ASSUME \A t, u \in Workers : t = u
  PROVE  Spec => []OneGrantPerApproval
<1>1. ApprovalInv => ApprovalsDoNotOverlap
  BY DEF ApprovalInv, Approver, ApprovalsDoNotOverlap
<1>2. ApprovalInv => OneGrantPerApproval
  BY DEF ApprovalInv
<1> QED BY <1>1, <1>2, ApprovalInit, ApprovalNext, GrantsKeepOrder, PTL DEF Spec

-----------------------------------------------------------------------------
(* create_access_request is never in two threads for one permission.       *)
AsksDoNotOverlap ==
  \A t, u \in Threads :
    /\ pc[t] \in {"find", "request"} /\ pc[u] \in {"find", "request"}
    /\ loc[t].perm = loc[u].perm
    => t = u

Pending == {r \in RequestIds \ gone : requests[r].status = "pending"}

(* Whoever is about to insert a request has seen that there is none.       *)
AskInv ==
  /\ OnePendingRequest
  /\ \A t \in Threads : pc[t] = "request" =>
       \A r \in Pending : requests[r].perm # loc[t].perm

NoNewPending ==
  /\ gone \subseteq gone'
  /\ \A r \in RequestIds : requests'[r].status = "pending" =>
       requests[r].status = "pending" /\ requests'[r].perm = requests[r].perm

LEMMA AskInit == Init => AskInv
BY DEF Init, AskInv, OnePendingRequest, Pending, NoRequests, NoRequest, AllIdle

LEMMA AskKept ==
  ASSUME AskInv, NEW t \in Threads, OthersStay(t), NoNewPending,
         pc'[t] = "request" => \A r \in Pending : requests[r].perm # loc'[t].perm
  PROVE  AskInv'
<1>1. OnePendingRequest'
  BY DEF AskInv, OnePendingRequest, NoNewPending
<1>2. ASSUME NEW u \in Threads, pc'[u] = "request", NEW r \in Pending'
      PROVE  requests'[r].perm # loc'[u].perm
  <2>1. r \in Pending /\ requests'[r].perm = requests[r].perm
    BY <1>2 DEF Pending, NoNewPending
  <2> QED BY <1>2, <2>1 DEF AskInv, OthersStay
<1> QED BY <1>1, <1>2 DEF AskInv

(* Only FindPending leads to the INSERT.                                   *)
LEMMA ElsewhereNoRequest ==
  ASSUME TypeOK, NEW t \in Threads, Handle(t) \/ Fail(t), ~FindPending(t)
  PROVE  pc'[t] # "request"
<1>1. CASE Assign(t) \/ SyncFails(t)
  BY <1>1, SyncShape DEF Assign, SyncFails
<1>2. CASE IssueEphemeral(t) \/ IssueApproved(t) \/ Fetch(t)
  BY <1>2, Arrives DEF IssueEphemeral, IssueApproved, Fetch
<1>3. CASE DecideAllow(t) \/ DecideMode(t)
  BY <1>3, Arrives, Returns DEF DecideAllow, DecideMode
<1>4. CASE InsertRequest(t) \/ WaitForHuman(t) \/ MarkApproved(t) \/ Activate(t)
  BY <1>4, Arrives, Returns DEF InsertRequest, WaitForHuman, MarkApproved, Activate
<1>5. CASE SelectGrant(t) \/ ConsumeGrant(t) \/ Execute(t) \/ Fail(t)
  BY <1>5, Arrives, Returns DEF SelectGrant, ConsumeGrant, Execute, Fail
<1> QED BY <1>1, <1>2, <1>3, <1>4, <1>5 DEF Handle

LEMMA RequestsElsewhere ==
  ASSUME IInv, NEW t \in Threads, Handle(t) \/ Fail(t), ~InsertRequest(t)
  PROVE  NoNewPending /\ (~MarkApproved(t) => requests' = requests)
<1>0. gone' = gone
  BY GoneStays
<1>1. CASE MarkApproved(t)
  BY <1>0, <1>1 DEF MarkApproved, NoNewPending, IInv, TypeOK, Request
<1>2. CASE ~MarkApproved(t)
  <2>1. requests' = requests
    BY <1>2 DEF Handle, Fetch, Assign, SyncFails, DecideAllow, DecideMode,
       IssueEphemeral, FindPending, WaitForHuman, IssueApproved, Activate,
       SelectGrant, ConsumeGrant, Execute, Fail
  <2> QED BY <1>0, <1>2, <2>1 DEF NoNewPending
<1> QED BY <1>1, <1>2

LEMMA AskInserts ==
  ASSUME IInv, AskInv, AsksDoNotOverlap, NEW t \in Threads, InsertRequest(t)
  PROVE  AskInv'
<1> DEFINE p == loc[t].perm
<1>0. gone' = gone
  BY DEF InsertRequest
<1>1. PICK r \in RequestIds :
        requests' = [requests EXCEPT ![r] = [perm |-> p, status |-> "pending"]]
  BY DEF InsertRequest
<1>2. /\ requests'[r].perm = p /\ requests'[r].status = "pending"
      /\ \A q \in RequestIds \ {r} : requests'[q] = requests[q]
  BY <1>1 DEF IInv, TypeOK
<1>3. pc[t] = "request" /\ pc'[t] = "wait" /\ OthersStay(t)
  BY Arrives, HandlersStay DEF InsertRequest, Handle, IInv
<1>4. \A q \in Pending : requests[q].perm # p
  BY <1>3 DEF AskInv
<1>5. OnePendingRequest'
  BY <1>0, <1>2, <1>4 DEF AskInv, OnePendingRequest, Pending
<1>6. ASSUME NEW u \in Threads, pc'[u] = "request", NEW q \in Pending'
      PROVE  requests'[q].perm # loc'[u].perm
  <2>1. u # t /\ pc[u] = "request" /\ loc'[u] = loc[u]
    BY <1>3, <1>6 DEF OthersStay
  <2>2. loc[u].perm # p
    BY <1>3, <2>1 DEF AsksDoNotOverlap
  <2> QED BY <1>0, <1>2, <1>6, <2>1, <2>2 DEF AskInv, Pending
<1> QED BY <1>5, <1>6 DEF AskInv

LEMMA AskFinds ==
  ASSUME IInv, AskInv, NEW t \in Threads, FindPending(t)
  PROVE  AskInv'
<1>0. OthersStay(t) /\ requests' = requests /\ loc' = loc /\ gone' = gone
  BY HandlersStay DEF FindPending, Keep, Handle, IInv
<1>1. NoNewPending
  BY <1>0 DEF NoNewPending
<1>2. ASSUME pc'[t] = "request", NEW r \in Pending PROVE requests[r].perm # loc[t].perm
  <2>1. requests[r] # [perm |-> loc[t].perm, status |-> "pending"]
    BY <1>2, Arrives DEF FindPending, Pending, IInv
  <2>2. requests[r] \in Request /\ requests[r].status = "pending"
    BY <1>2 DEF IInv, TypeOK, Pending
  <2> QED BY <2>1, <2>2 DEF Request
<1> QED BY <1>0, <1>1, <1>2, AskKept

LEMMA AskNext == IInv /\ AskInv /\ AsksDoNotOverlap /\ [Next]_vars => AskInv'
<1> SUFFICES ASSUME IInv, AskInv, AsksDoNotOverlap, [Next]_vars PROVE AskInv'
  OBVIOUS
<1>0. TypeOK
  BY DEF IInv
<1>1. CASE Arrive
  <2>1. PICK t \in Threads : Arrived(t)
    BY <1>0, <1>1, ArriveShape
  <2>2. OthersStay(t) /\ NoNewPending /\ pc'[t] # "request"
    BY <2>1 DEF Arrived, NoNewPending
  <2> QED BY <2>2, AskKept
<1>2. ASSUME NEW t \in Threads, Handle(t) \/ Fail(t) PROVE AskInv'
  <2>1. CASE ~InsertRequest(t) /\ ~FindPending(t)
    <3>1. OthersStay(t) /\ NoNewPending /\ pc'[t] # "request"
      BY <1>0, <1>2, <2>1, HandlersStay, RequestsElsewhere, ElsewhereNoRequest
    <3> QED BY <3>1, AskKept
  <2> QED BY <2>1, AskInserts, AskFinds
<1>3. ASSUME NEW g \in GrantIds, Expire(g) PROVE AskInv'
  BY <1>3 DEF Expire, AskInv, OnePendingRequest, Pending
<1>4. ASSUME NEW t \in Threads, Reseeding(t) PROVE AskInv'
  <2>1. OthersStay(t) /\ NoNewPending /\ pc'[t] # "request"
    BY <1>4, ReseedingShape DEF NoNewPending, Seeding
  <2> QED BY <2>1, AskKept
<1>5. CASE UNCHANGED vars
  BY <1>5 DEF vars, AskInv, OnePendingRequest, Pending
<1>6. Init' => AskInv'
  BY AskInit, PTL
<1> QED BY <1>1, <1>2, <1>3, <1>4, <1>5, <1>6, RestartsInit DEF Next, Reliable

(* Asking again finds the pending request, with any number of workers and  *)
(* failures anywhere, unless two threads ask for one permission at once.   *)
THEOREM AskingFindsPending == Spec /\ []AsksDoNotOverlap => []OnePendingRequest
<1>1. AskInv => OnePendingRequest
  BY DEF AskInv
<1> QED BY <1>1, AskInit, AskNext, GrantsKeepOrder, PTL DEF Spec

-----------------------------------------------------------------------------
(* What takes more: that no two handlers overlap at all.                   *)
OneHandlerAtATime ==
  \A t, u \in Threads : pc[t] # "idle" /\ pc[u] # "idle" => t = u

(* Whoever is to wait has something to wait for; an approval that takes it *)
(* away is on its way to make the session active again.  Nothing is ever   *)
(* deleted while no reseed runs.                                           *)
WaitInv ==
  /\ gone = {} /\ status # "missing"
  /\ status = "waiting_for_human" =>
       Pending # {} \/ \E t \in Threads : pc[t] \in {"grant", "activate"}
  /\ \A t \in Threads : pc[t] = "wait" => Pending # {}

LEMMA WaitInit == Init => WaitInv
BY DEF Init, WaitInv, AllIdle

LEMMA WaitKept ==
  ASSUME WaitInv, NEW t \in Threads, OthersStay(t), UNCHANGED <<gone, status>>,
         Pending \subseteq Pending',
         pc[t] \in {"grant", "activate"} => pc'[t] \in {"grant", "activate"},
         pc'[t] = "wait" => Pending' # {}
  PROVE  WaitInv'
<1>1. status' = "waiting_for_human" =>
        Pending' # {} \/ \E u \in Threads : pc'[u] \in {"grant", "activate"}
  BY DEF WaitInv, OthersStay
<1>2. ASSUME NEW u \in Threads, pc'[u] = "wait" PROVE Pending' # {}
  BY <1>2 DEF WaitInv, OthersStay
<1> QED BY <1>1, <1>2 DEF WaitInv

LEMMA PendingGrows ==
  ASSUME IInv, NEW t \in Threads, Handle(t), ~MarkApproved(t)
  PROVE  Pending \subseteq Pending'
<1>0. gone' = gone
  BY GoneStays
<1>1. CASE InsertRequest(t)
  BY <1>0, <1>1 DEF InsertRequest, Pending, IInv, TypeOK, NoRequest
<1>2. CASE ~InsertRequest(t)
  BY <1>0, <1>2, RequestsElsewhere DEF Pending
<1> QED BY <1>1, <1>2

(* The handlers that neither decide on waiting nor end it.                 *)
LEMMA WaitQuiet ==
  ASSUME IInv, NEW t \in Threads,
         \/ Fetch(t) \/ Assign(t) \/ SyncFails(t) \/ DecideAllow(t) \/ DecideMode(t)
         \/ IssueEphemeral(t) \/ IssueApproved(t)
         \/ SelectGrant(t) \/ ConsumeGrant(t) \/ Execute(t)
  PROVE  /\ status' = status /\ pc'[t] # "wait"
         /\ pc[t] \in {"grant", "activate"} => pc'[t] = "activate"
<1>0. TypeOK
  BY DEF IInv
<1>1. CASE Assign(t) \/ SyncFails(t)
  BY <1>0, <1>1, SyncShape DEF Assign, SyncFails
<1>2. CASE IssueEphemeral(t) \/ IssueApproved(t) \/ Fetch(t)
  BY <1>0, <1>2, Arrives DEF IssueEphemeral, IssueApproved, Fetch
<1>3. CASE DecideAllow(t) \/ DecideMode(t)
  BY <1>0, <1>3, Arrives, Returns DEF DecideAllow, DecideMode
<1>4. CASE SelectGrant(t) \/ ConsumeGrant(t) \/ Execute(t)
  BY <1>0, <1>4, Arrives, Returns DEF SelectGrant, ConsumeGrant, Execute
<1> QED BY <1>1, <1>2, <1>3, <1>4

LEMMA WaitNext ==
  IInv /\ WaitInv /\ OneHandlerAtATime /\ [Reliable]_vars => WaitInv'
<1> SUFFICES ASSUME IInv, WaitInv, OneHandlerAtATime, [Reliable]_vars PROVE WaitInv'
  OBVIOUS
<1>0. TypeOK
  BY DEF IInv
<1>1. CASE Arrive
  <2>1. PICK t \in Threads : Arrived(t)
    BY <1>0, <1>1, ArriveShape
  <2>2. /\ OthersStay(t) /\ UNCHANGED <<gone, status>> /\ Pending' = Pending
        /\ pc[t] = "idle" /\ pc'[t] # "wait"
    BY <2>1 DEF Arrived, Pending
  <2> QED BY <2>2, WaitKept
<1>2. ASSUME NEW t \in Threads, Handle(t) PROVE WaitInv'
  <2>0. OthersStay(t) /\ pc[t] # "idle" /\ gone' = gone /\ gone = {}
    BY <1>0, <1>2, HandlersStay, GoneStays DEF WaitInv
  <2>1. \A u \in Threads \ {t} : pc'[u] = "idle"
    BY <2>0 DEF OneHandlerAtATime, OthersStay
  <2>2. CASE FindPending(t)
    <3>1. status' = status /\ requests' = requests /\ pc[t] = "find"
      BY <2>2 DEF FindPending
    <3>2. pc'[t] = "wait" => Pending # {}
      BY <1>0, <2>2, Arrives DEF FindPending, Pending
    <3> QED BY <2>0, <3>1, <3>2, WaitKept DEF Pending
  <2>3. CASE InsertRequest(t)
    <3>1. status' = status /\ pc[t] = "request"
      BY <2>3 DEF InsertRequest
    <3>2. Pending' # {}
      BY <2>0, <2>3 DEF InsertRequest, Pending, IInv, TypeOK
    <3>3. Pending \subseteq Pending'
      BY <1>2, <2>3, PendingGrows DEF InsertRequest, MarkApproved
    <3> QED BY <2>0, <3>1, <3>2, <3>3, WaitKept
  <2>4. CASE WaitForHuman(t)
    <3>1. Pending # {} /\ Pending' = Pending
      BY <2>4 DEF WaitForHuman, WaitInv, Pending
    <3>2. status' = "waiting_for_human"
      BY <2>4 DEF WaitForHuman, SetStatus, WaitInv
    <3> QED BY <2>0, <3>1, <3>2 DEF WaitInv
  <2>5. CASE MarkApproved(t)
    <3>1. pc'[t] = "grant" /\ status' = status
      BY <1>0, <2>5, Arrives DEF MarkApproved
    <3> QED BY <2>0, <2>1, <3>1 DEF WaitInv
  <2>6. CASE Activate(t)
    <3>1. pc'[t] = "fetch" /\ status' = "active"
      BY <1>0, <2>6, Arrives DEF Activate, SetStatus, WaitInv
    <3> QED BY <2>0, <2>1, <3>1 DEF WaitInv
  <2>7. CASE \/ Fetch(t) \/ Assign(t) \/ SyncFails(t) \/ DecideAllow(t) \/ DecideMode(t)
             \/ IssueEphemeral(t) \/ IssueApproved(t)
             \/ SelectGrant(t) \/ ConsumeGrant(t) \/ Execute(t)
    <3>1. Pending \subseteq Pending'
      BY <2>7 DEF Pending, Fetch, Assign, SyncFails, DecideAllow, DecideMode,
         IssueEphemeral, IssueApproved, SelectGrant, ConsumeGrant, Execute
    <3> QED BY <2>0, <2>7, <3>1, WaitQuiet, WaitKept
  <2> QED BY <1>2, <2>2, <2>3, <2>4, <2>5, <2>6, <2>7 DEF Handle
<1>3. ASSUME NEW g \in GrantIds, Expire(g) PROVE WaitInv'
  BY <1>3 DEF Expire, WaitInv, Pending
<1>4. CASE UNCHANGED vars
  BY <1>4 DEF vars, WaitInv, Pending
<1> QED BY <1>1, <1>2, <1>3, <1>4 DEF Reliable

(* A server that stays up and handles one request at a time leaves no      *)
(* session waiting for a human who has nothing left to approve.            *)
THEOREM WaitingIsForSomething ==
  ReliableSpec /\ []OneHandlerAtATime => []WaitingHasSomethingToApprove
<1>1. WaitInv => WaitingHasSomethingToApprove
  BY DEF WaitInv, WaitingHasSomethingToApprove, Pending
<1>2. [Reliable]_vars => [Next]_vars
  BY DEF Next
<1> QED BY <1>1, <1>2, WaitInit, WaitNext, InitOK, NextOK, PTL DEF ReliableSpec

-----------------------------------------------------------------------------
(* The copy of the grants that a decision is made on has every live one.   *)
Actives == {g \in GrantIds : Active(g)}

FreshAt(t) ==
  /\ pc[t] = "assign" => Actives \subseteq loc[t].rows
  /\ pc[t] = "decide" => Actives \subseteq graph
  /\ pc[t] \in {"find", "issue"} /\ loc[t].op # "anticipate" =>
       LiveFor(loc[t].perm) = {}

FreshInv == \A t \in Threads : FreshAt(t)

LEMMA FreshInit == Init => FreshInv
BY DEF Init, FreshInv, FreshAt, AllIdle

FewerActive ==
  \A g \in GrantIds : Active(g)' => Active(g) /\ grants'[g].perm = grants[g].perm

LEMMA FewerLive ==
  ASSUME FewerActive
  PROVE  Actives' \subseteq Actives /\ \A p : LiveFor(p)' \subseteq LiveFor(p)
BY DEF FewerActive, Actives, LiveFor

LEMMA FreshBystander ==
  ASSUME NEW u, FreshAt(u), FewerActive, graph' = graph, pc'[u] = pc[u], loc'[u] = loc[u]
  PROVE  FreshAt(u)'
BY FewerLive DEF FreshAt

(* Calls are spent and time passes, but only an INSERT makes a grant live. *)
LEMMA NothingNewLive ==
  ASSUME IInv, NEW t \in Threads, Handle(t) \/ Fail(t),
         ~IssueEphemeral(t), ~IssueApproved(t)
  PROVE  FewerActive
<1>0. gone' = gone
  BY GoneStays
<1>1. CASE ConsumeGrant(t)
  <2>1. \A g \in GrantIds : grants[g] \in Grant /\ grants[g].calls \in Nat
    BY DEF IInv, TypeOK, Grant
  <2>2. \A g \in GrantIds :
          /\ grants'[g].issuer = grants[g].issuer /\ grants'[g].perm = grants[g].perm
          /\ grants'[g].expired = grants[g].expired
          /\ grants'[g].calls \in {grants[g].calls, grants[g].calls - 1}
    <3>1. PICK h \in GrantIds : grants' = [grants EXCEPT ![h].calls = @ - 1]
      BY <1>1, ConsumeShape
    <3> QED BY <2>1, <3>1 DEF IInv, TypeOK, Grant
  <2> QED BY <1>0, <2>1, <2>2 DEF FewerActive, Active
<1>2. CASE Execute(t)
  <2>1. \A g \in GrantIds :
          /\ grants'[g].issuer = grants[g].issuer /\ grants'[g].perm = grants[g].perm
          /\ grants'[g].expired = grants[g].expired
          /\ grants'[g].calls = grants[g].calls
    BY <1>2 DEF Execute, IInv, TypeOK, Grant
  <2> QED BY <1>0, <2>1 DEF FewerActive, Active
<1>3. CASE ~ConsumeGrant(t) /\ ~Execute(t)
  <2>1. grants' = grants
    BY <1>3 DEF Handle, Fetch, Assign, SyncFails, DecideAllow, DecideMode, FindPending,
       InsertRequest, WaitForHuman, MarkApproved, Activate, SelectGrant, Fail
  <2> QED BY <1>0, <2>1 DEF FewerActive, Active
<1> QED BY <1>1, <1>2, <1>3

LEMMA FreshOwn ==
  ASSUME IInv, FreshInv, NEW t \in Threads, Handle(t) \/ Fail(t)
  PROVE  FreshAt(t)'
<1>0. TypeOK /\ loc[t] \in Locals /\ FreshAt(t) /\ gone' = gone
  BY GoneStays DEF IInv, TypeOK, FreshInv
<1>1. CASE Fetch(t)
  <2>1. pc'[t] = "assign" /\ loc'[t].rows = Actives /\ grants' = grants
    BY <1>0, <1>1, Arrives DEF Fetch, TypeOK, Locals, Actives
  <2> QED BY <1>0, <2>1 DEF FreshAt, Actives, Active
<1>2. CASE Assign(t)
  <2>1. graph' = loc[t].rows /\ grants' = grants /\ pc[t] = "assign"
    BY <1>2 DEF Assign
  <2>2. Actives' \subseteq graph'
    BY <1>0, <2>1 DEF FreshAt, Actives, Active
  <2>3. /\ pc'[t] \in {"select", "idle", "find", "decide"}
        /\ pc'[t] = "find" => loc[t].op = "anticipate" /\ loc'[t].op = loc[t].op
    BY <1>0, <1>2, SyncShape DEF Assign
  <2> QED BY <2>2, <2>3 DEF FreshAt
<1>3. CASE SyncFails(t)
  BY <1>0, <1>3, SyncShape DEF SyncFails, FreshAt
<1>4. CASE DecideMode(t)
  <2>1. pc[t] = "decide" /\ loc' = loc /\ UNCHANGED <<grants, graph>>
        /\ pc'[t] \in {"find", "issue"}
    BY <1>0, <1>4, Arrives DEF DecideMode, Keep
  <2>2. ~GrantPresent(loc[t].perm) /\ Actives \subseteq graph
    BY <1>0, <1>4, <2>1 DEF DecideMode, FreshAt
  <2>3. LiveFor(loc[t].perm) = {}
    BY <2>2 DEF GrantPresent, LiveFor, Actives, Active
  <2>4. LiveFor(loc[t].perm)' = {}
    BY <1>0, <2>1, <2>3 DEF LiveFor, Active
  <2> QED BY <2>1, <2>4 DEF FreshAt
<1>5. CASE DecideAllow(t) \/ FindPending(t) \/ InsertRequest(t) \/ WaitForHuman(t)
  <2>1. pc'[t] \in {"select", "idle", "wait", "request"}
    BY <1>0, <1>5, Arrives, Returns DEF DecideAllow, FindPending, InsertRequest, WaitForHuman
  <2> QED BY <2>1 DEF FreshAt
<1>6. CASE IssueEphemeral(t) \/ MarkApproved(t) \/ IssueApproved(t) \/ Activate(t)
  <2>1. pc'[t] \in {"fetch", "grant", "activate"}
    BY <1>0, <1>6, Arrives DEF IssueEphemeral, MarkApproved, IssueApproved, Activate
  <2> QED BY <2>1 DEF FreshAt
<1>7. CASE SelectGrant(t) \/ ConsumeGrant(t) \/ Execute(t) \/ Fail(t)
  <2>1. pc'[t] \in {"idle", "consume", "execute"}
    BY <1>0, <1>7, Arrives, Returns DEF SelectGrant, ConsumeGrant, Execute, Fail
  <2> QED BY <2>1 DEF FreshAt
<1> QED BY <1>1, <1>2, <1>3, <1>4, <1>5, <1>6, <1>7 DEF Handle

LEMMA FreshNext ==
  IInv /\ FreshInv /\ OneHandlerAtATime /\ [Next]_vars => FreshInv'
<1> SUFFICES ASSUME IInv, FreshInv, OneHandlerAtATime, [Next]_vars PROVE FreshInv'
  OBVIOUS
<1>0. TypeOK
  BY DEF IInv
<1>1. CASE Arrive
  <2>1. PICK t \in Threads : Arrived(t)
    BY <1>0, <1>1, ArriveShape
  <2>2. FewerActive /\ graph' = graph /\ OthersStay(t)
    BY <2>1 DEF Arrived, FewerActive, Active
  <2>3. FreshAt(t)'
    BY <2>1 DEF Arrived, FreshAt
  <2>4. ASSUME NEW u \in Threads \ {t} PROVE FreshAt(u)'
    BY <2>2, FreshBystander DEF FreshInv, OthersStay
  <2> QED BY <2>3, <2>4 DEF FreshInv
<1>2. ASSUME NEW t \in Threads, Handle(t) \/ Fail(t) PROVE FreshInv'
  <2>1. OthersStay(t) /\ pc[t] # "idle"
    BY <1>0, <1>2, HandlersStay
  <2>2. \A u \in Threads \ {t} : pc'[u] = "idle"
    BY <2>1 DEF OneHandlerAtATime, OthersStay
  <2>3. ASSUME NEW u \in Threads \ {t} PROVE FreshAt(u)'
    BY <2>2 DEF FreshAt
  <2> QED BY <1>2, <2>3, FreshOwn DEF FreshInv
<1>3. ASSUME NEW g \in GrantIds, Expire(g) PROVE FreshInv'
  <2>1. FewerActive /\ UNCHANGED <<graph, pc, loc>>
    BY <1>3 DEF Expire, FewerActive, Active, IInv, TypeOK, Grant
  <2> QED BY <2>1, FreshBystander DEF FreshInv
<1>4. ASSUME NEW t \in Threads, Reseeding(t) PROVE FreshInv'
  <2>1. /\ OthersStay(t) /\ gone \subseteq gone'
        /\ pc'[t] \in Seeding \cup {"fetch"} /\ pc[t] \in Seeding \cup {"idle"}
        /\ graph' = graph
        /\ ~InsertSeedGrant(t) => grants' = grants
    BY <1>4, ReseedingShape
  <2>2. FreshAt(t)'
    BY <2>1 DEF FreshAt, Seeding
  <2>3. ASSUME NEW u \in Threads \ {t} PROVE FreshAt(u)'
    <3>1. CASE pc[t] = "idle"
      <4>1. grants' = grants
        BY <2>1, <3>1 DEF InsertSeedGrant
      <4>2. FewerActive
        BY <2>1, <4>1 DEF FewerActive, Active
      <4> QED BY <2>1, <4>2, FreshBystander DEF FreshInv, OthersStay
    <3>2. CASE pc[t] # "idle"
      BY <2>1, <3>2 DEF OneHandlerAtATime, OthersStay, FreshAt
    <3> QED BY <3>1, <3>2
  <2> QED BY <2>2, <2>3 DEF FreshInv
<1>5. CASE UNCHANGED vars
  <2>1. FewerActive /\ UNCHANGED <<graph, pc, loc>>
    BY <1>5 DEF vars, FewerActive, Active
  <2> QED BY <2>1, FreshBystander DEF FreshInv
<1>6. Init' => FreshInv'
  BY FreshInit, PTL
<1> QED BY <1>1, <1>2, <1>3, <1>4, <1>5, <1>6, RestartsInit DEF Next, Reliable

(* When handlers do not overlap, a decision is made on every live grant:   *)
(* nobody is asked for, or issued, one that the session has, also after    *)
(* failures, reseeds and restarts.                                         *)
THEOREM DecisionsAreFresh ==
  Spec /\ []OneHandlerAtATime => []NoEscalationWhileGranted
<1>1. FreshInv => NoEscalationWhileGranted
  BY DEF FreshInv, FreshAt, NoEscalationWhileGranted
<1> QED BY <1>1, FreshInit, FreshNext, GrantsKeepOrder, PTL DEF Spec

-----------------------------------------------------------------------------
(* One thread that serves everything meets all of these conditions.        *)
THEOREM OneThreadServer ==
  ASSUME Workers \subseteq {Loop}
  PROVE  ReliableSpec => [](/\ OnePendingRequest
                            /\ WaitingHasSomethingToApprove
                            /\ NoEscalationWhileGranted)
<1>1. OneHandlerAtATime /\ AsksDoNotOverlap
  BY DEF OneHandlerAtATime, AsksDoNotOverlap, Threads
<1>2. [Reliable]_vars => [Next]_vars
  BY DEF Next
<1> QED BY <1>1, <1>2, AskingFindsPending, WaitingIsForSomething, DecisionsAreFresh,
        PTL DEF ReliableSpec, Spec

-----------------------------------------------------------------------------
(* The safety half of ApprovalIssuesGrant: without exceptions and restarts *)
(* an approved request has its grant, or a handler that is about to insert *)
(* it, however many workers there are.                                     *)
ApprovalIsUnderWay ==
  \A r \in RequestIds : requests[r].status = "approved" =>
    \/ \E g \in GrantIds : grants[g].request = r
    \/ \E t \in Threads : pc[t] = "grant" /\ loc[t].request = r

(* A fresh grant's row is blank, so no INSERT takes a request's grant away.*)
FreshIsBlank ==
  \A g \in GrantIds : grants[g].issuer = "none" => grants[g].request = None

UnderWayInv == ApprovalIsUnderWay /\ FreshIsBlank

LEMMA UnderWayInit == Init => UnderWayInv
BY SeedRow, BlankRows DEF Init, UnderWayInv, ApprovalIsUnderWay, FreshIsBlank, SeededWith,
   NoRequests, NoRequest

LEMMA UnderWayKept ==
  ASSUME UnderWayInv, NEW t \in Threads, OthersStay(t), SameLinks, pc[t] # "grant",
         \A g \in GrantIds : grants'[g].issuer = "none" => grants[g].issuer = "none",
         \A r \in RequestIds :
           requests'[r].status = "approved" => requests[r].status = "approved"
  PROVE  UnderWayInv'
<1>1. FreshIsBlank'
  BY DEF UnderWayInv, FreshIsBlank, SameLinks
<1>2. ASSUME NEW r \in RequestIds, requests'[r].status = "approved"
      PROVE  \/ \E g \in GrantIds : grants'[g].request = r
             \/ \E u \in Threads : pc'[u] = "grant" /\ loc'[u].request = r
  <2>1. \/ \E g \in GrantIds : grants[g].request = r
        \/ \E u \in Threads : pc[u] = "grant" /\ loc[u].request = r
    BY <1>2 DEF UnderWayInv, ApprovalIsUnderWay
  <2> QED BY <2>1 DEF SameLinks, OthersStay
<1> QED BY <1>1, <1>2 DEF UnderWayInv, ApprovalIsUnderWay

LEMMA UnderWayMarks ==
  ASSUME IInv, UnderWayInv, NEW t \in Threads, MarkApproved(t)
  PROVE  UnderWayInv'
<1>1. /\ pc[t] = "approve" /\ pc'[t] = "grant" /\ loc' = loc /\ grants' = grants
      /\ OthersStay(t)
  BY Arrives, HandlersStay DEF MarkApproved, Keep, Handle, IInv
<1>2. \A r \in RequestIds \ {loc[t].request} : requests'[r] = requests[r]
  BY DEF MarkApproved, IInv, TypeOK
<1>3. ASSUME NEW r \in RequestIds, requests'[r].status = "approved"
      PROVE  \/ \E g \in GrantIds : grants'[g].request = r
             \/ \E u \in Threads : pc'[u] = "grant" /\ loc'[u].request = r
  <2>1. CASE r = loc[t].request
    BY <1>1, <2>1
  <2>2. CASE r # loc[t].request
    <3>1. \/ \E g \in GrantIds : grants[g].request = r
          \/ \E u \in Threads : pc[u] = "grant" /\ loc[u].request = r
      BY <1>2, <1>3, <2>2 DEF UnderWayInv, ApprovalIsUnderWay
    <3> QED BY <1>1, <3>1 DEF OthersStay
  <2> QED BY <2>1, <2>2
<1> QED BY <1>1, <1>3 DEF UnderWayInv, ApprovalIsUnderWay, FreshIsBlank

LEMMA UnderWayIssues ==
  ASSUME IInv, UnderWayInv, NEW t \in Threads, IssueEphemeral(t) \/ IssueApproved(t)
  PROVE  UnderWayInv'
<1>1. PICK g \in GrantIds, issuer \in {"seed", "policy:auto_approve", "human"}, calls \in Nat :
        InsertedBy(t, g, issuer, calls)
  BY InsertsRow DEF Inserts
<1>2. grants[g].issuer = "none"
  BY <1>1 DEF InsertedBy
<1>3. /\ grants'[g].request = loc[t].request /\ grants'[g].issuer # "none"
      /\ \A h \in GrantIds \ {g} : grants'[h] = grants[h]
  BY <1>1 DEF InsertedBy
<1>4. OthersStay(t) /\ requests' = requests
  BY HandlersStay DEF Handle, IInv, IssueEphemeral, IssueApproved
<1>5. grants[g].request = None
  BY <1>2 DEF UnderWayInv, FreshIsBlank
<1>6. ASSUME NEW r \in RequestIds, requests'[r].status = "approved"
      PROVE  \/ \E h \in GrantIds : grants'[h].request = r
             \/ \E u \in Threads : pc'[u] = "grant" /\ loc'[u].request = r
  <2>1. \/ \E h \in GrantIds : grants[h].request = r
        \/ \E u \in Threads : pc[u] = "grant" /\ loc[u].request = r
    BY <1>4, <1>6 DEF UnderWayInv, ApprovalIsUnderWay
  <2>2. ASSUME NEW h \in GrantIds, grants[h].request = r
        PROVE  grants'[h].request = r
    BY <1>3, <1>5, <2>2, GrantsAssumption
  <2>3. ASSUME NEW u \in Threads, pc[u] = "grant", loc[u].request = r
        PROVE  \/ \E h \in GrantIds : grants'[h].request = r
               \/ pc'[u] = "grant" /\ loc'[u].request = r
    BY <1>3, <1>4, <2>3 DEF OthersStay
  <2> QED BY <2>1, <2>2, <2>3
<1>7. FreshIsBlank'
  BY <1>3 DEF UnderWayInv, FreshIsBlank
<1> QED BY <1>6, <1>7 DEF UnderWayInv, ApprovalIsUnderWay

LEMMA UnderWayNext == IInv /\ UnderWayInv /\ [Reliable]_vars => UnderWayInv'
<1> SUFFICES ASSUME IInv, UnderWayInv, [Reliable]_vars PROVE UnderWayInv'
  OBVIOUS
<1>0. TypeOK
  BY DEF IInv
<1>1. CASE Arrive
  <2>1. PICK t \in Threads : Arrived(t)
    BY <1>0, <1>1, ArriveShape
  <2>2. OthersStay(t) /\ SameLinks /\ pc[t] # "grant" /\ UNCHANGED <<grants, requests>>
    BY <2>1 DEF Arrived, SameLinks
  <2> QED BY <2>2, UnderWayKept
<1>2. ASSUME NEW t \in Threads, Handle(t),
             ~MarkApproved(t), ~IssueEphemeral(t), ~IssueApproved(t)
      PROVE  UnderWayInv'
  <2>1. OthersStay(t) /\ SameLinks
    BY <1>0, <1>2, HandlersStay, RowsKept DEF Handle
  <2>2. \A g \in GrantIds : grants'[g].issuer = grants[g].issuer
    <3>1. CASE ConsumeGrant(t) \/ Execute(t)
      <4>1. CASE Execute(t)
        BY <4>1 DEF Execute, IInv, TypeOK, Grant
      <4>2. CASE ConsumeGrant(t)
        <5>1. PICK h \in GrantIds : grants' = [grants EXCEPT ![h].calls = @ - 1]
          BY <4>2, ConsumeShape
        <5> QED BY <5>1 DEF IInv, TypeOK, Grant
      <4> QED BY <3>1, <4>1, <4>2
    <3>2. CASE ~ConsumeGrant(t) /\ ~Execute(t)
      BY <1>2, <3>2 DEF Handle, Fetch, Assign, SyncFails, DecideAllow, DecideMode,
         FindPending, InsertRequest, WaitForHuman, Activate, SelectGrant
    <3> QED BY <3>1, <3>2
  <2>3. \A r \in RequestIds :
          requests'[r].status = "approved" => requests[r].status = "approved"
    <3>1. CASE InsertRequest(t)
      BY <3>1 DEF InsertRequest, IInv, TypeOK
    <3>2. CASE ~InsertRequest(t)
      BY <1>2, <3>2, RequestsElsewhere
    <3> QED BY <3>1, <3>2
  <2>4. pc[t] # "grant"
    BY <1>2 DEF Handle, Fetch, Assign, SyncFails, DecideAllow, DecideMode,
       FindPending, InsertRequest, WaitForHuman, Activate, SelectGrant, ConsumeGrant,
       Execute
  <2> QED BY <2>1, <2>2, <2>3, <2>4, UnderWayKept
<1>3. ASSUME NEW g \in GrantIds, Expire(g) PROVE UnderWayInv'
  <2>1. /\ SameLinks /\ UNCHANGED <<requests, pc, loc>>
        /\ \A h \in GrantIds : grants'[h].issuer = grants[h].issuer
    BY <1>3 DEF Expire, SameLinks, IInv, TypeOK, Grant
  <2> QED BY <2>1 DEF SameLinks, UnderWayInv, ApprovalIsUnderWay, FreshIsBlank
<1>4. CASE UNCHANGED vars
  BY <1>4 DEF vars, UnderWayInv, ApprovalIsUnderWay, FreshIsBlank
<1> QED BY <1>1, <1>2, <1>3, <1>4, UnderWayMarks, UnderWayIssues DEF Reliable

(* An approved request is never forgotten while the server stays up: what  *)
(* fairness has to add is that the handler goes on.                        *)
THEOREM ApprovalsGoOn == ReliableSpec => []ApprovalIsUnderWay
<1>1. UnderWayInv => ApprovalIsUnderWay
  BY DEF UnderWayInv
<1>2. [Reliable]_vars => [Next]_vars
  BY DEF Next
<1> QED BY <1>1, <1>2, UnderWayInit, UnderWayNext, InitOK, NextOK, PTL DEF ReliableSpec

-----------------------------------------------------------------------------
(* The refinement: GrantLedger, seen through the mapping of AccessGrants.  *)
(* What the ledger needs besides IInv: a row of no grant is blank, only an *)
(* approval knows a request, and humans are asked about their permissions. *)
Asking(t) ==
  /\ loc[t].op # "approve" => loc[t].request = None
  /\ loc[t].op = "approve" =>
       \/ pc[t] \in {"approve", "grant"}
       \/ loc[t].issued /\ pc[t] \in {"activate", "fetch", "assign"}
  /\ loc[t].op = "anticipate" => loc[t].perm \in HumanPerms
  /\ pc[t] \in {"find", "request"} => loc[t].perm \in HumanPerms

LedgerInv ==
  /\ \A g \in GrantIds :
       IF grants[g].issuer = "none" THEN grants[g] = NoGrant ELSE grants[g].perm \in Perms
  /\ \A t \in Threads : Asking(t)

LEMMA LedgerInit == Init => LedgerInv
<1> SUFFICES ASSUME Init PROVE LedgerInv
  OBVIOUS
<1>1. \A g \in GrantIds : grants[g] = NoGrant \/ grants[g] = SeedGrant
  BY DEF Init, SeededWith
<1>2. \A t \in Threads : Asking(t)
  BY DEF Init, Asking, Idle, AllIdle, NoLocals
<1> QED BY <1>1, <1>2, SeedRow, BlankRows, GrantsAssumption DEF LedgerInv

LEMMA AskingIdle ==
  ASSUME NEW t \in Threads, pc'[t] = "idle", loc'[t] = Idle
  PROVE  Asking(t)'
BY DEF Asking, Idle

LEMMA AskingGoesOn ==
  ASSUME NEW t \in Threads, Asking(t),
         loc'[t].op = loc[t].op, loc'[t].perm = loc[t].perm,
         loc'[t].request = loc[t].request,
         loc[t].op = "approve" =>
           \/ pc'[t] = "grant"
           \/ loc'[t].issued /\ pc'[t] \in {"activate", "fetch", "assign"},
         pc'[t] \in {"find", "request"} => loc[t].perm \in HumanPerms
  PROVE  Asking(t)'
BY DEF Asking

LEMMA AskingStart ==
  ASSUME TypeOK, NEW t \in Threads, NEW op, NEW p, NEW r, NEW label \in {"fetch", "approve"},
         Start(t, op, p, r, label), op = "approve" => label = "approve",
         op # "approve" => r = None, op = "anticipate" => p \in HumanPerms
  PROVE  Arrived(t) /\ Asking(t)'
<1>1. /\ OthersStay(t) /\ pc[t] = "idle" /\ pc'[t] = label
      /\ loc'[t].op = op /\ loc'[t].perm = p /\ loc'[t].request = r
      /\ UNCHANGED <<grants, requests, gone, status, graph, created, second>>
  BY StartShape
<1> QED BY <1>1 DEF Arrived, Asking

LEMMA AskingStarts ==
  ASSUME TypeOK, Arrive
  PROVE  \E t \in Threads : Arrived(t) /\ Asking(t)'
<1>1. ASSUME NEW p \in Perms, ToolCall(p)
      PROVE  Arrived(Loop) /\ Asking(Loop)' /\ Loop \in Threads
  BY <1>1, AskingStart DEF ToolCall, Threads
<1>2. ASSUME NEW t \in Threads, NEW p \in Perms, Authorize(t, p) \/ Anticipate(t, p)
      PROVE  Arrived(t) /\ Asking(t)'
  BY <1>2, AskingStart DEF Authorize, Anticipate
<1>3. ASSUME NEW t \in Workers, NEW r \in RequestIds, Approve(t, r)
      PROVE  Arrived(t) /\ Asking(t)' /\ t \in Threads
  BY <1>3, AskingStart DEF Approve, Threads
<1> QED BY <1>1, <1>2, <1>3 DEF Arrive

LEMMA AskingHandles ==
  ASSUME IInv, NEW t \in Threads, Handle(t) \/ Fail(t), Asking(t)
  PROVE  Asking(t)'
<1>0. TypeOK /\ loc[t] \in Locals
  BY DEF IInv, TypeOK
<1>1. CASE Fetch(t)
  <2>1. loc'[t] = [loc[t] EXCEPT !.rows = {g \in GrantIds : Active(g)}]
    BY <1>0, <1>1 DEF Fetch, TypeOK
  <2>2. /\ loc'[t].op = loc[t].op /\ loc'[t].perm = loc[t].perm
        /\ loc'[t].request = loc[t].request /\ loc'[t].issued = loc[t].issued
    BY <1>0, <2>1 DEF Locals
  <2>3. pc'[t] = "assign" /\ pc[t] = "fetch"
    BY <1>0, <1>1, Arrives DEF Fetch
  <2> QED BY <2>2, <2>3, AskingGoesOn DEF Asking
<1>2. CASE Assign(t) \/ SyncFails(t)
  <2>1. AfterSync(t) /\ pc[t] \in {"fetch", "assign"}
    BY <1>2 DEF Assign, SyncFails
  <2>2. CASE pc'[t] = "idle"
    BY <1>0, <2>1, <2>2, SyncShape, AskingIdle
  <2>3. CASE pc'[t] # "idle"
    <3>1. loc[t].op # "approve"
      BY <1>0, <2>1, <2>3, SyncShape DEF Asking
    <3>2. pc'[t] \in {"find", "request"} => loc[t].perm \in HumanPerms
      BY <1>0, <2>1, <2>3, SyncShape DEF Asking
    <3> QED BY <1>0, <2>1, <2>3, <3>1, <3>2, SyncShape, AskingGoesOn
  <2> QED BY <2>2, <2>3
<1>3. ASSUME NEW label \in Labels, Goto(t, label), Keep,
             loc[t].op = "approve" =>
               label = "grant" \/ (loc[t].issued /\ label = "fetch"),
             label \in {"find", "request"} => loc[t].perm \in HumanPerms
      PROVE  Asking(t)'
  <2>1. pc'[t] = label /\ loc'[t] = loc[t]
    BY <1>0, <1>3, Arrives DEF Keep
  <2> QED BY <1>3, <2>1, AskingGoesOn
<1>4. CASE Return(t)
  BY <1>0, <1>4, Returns, AskingIdle
<1>5. CASE DecideAllow(t) \/ DecideMode(t)
  BY <1>3, <1>4, <1>5 DEF DecideAllow, DecideMode, Asking, Labels
<1>6. CASE FindPending(t) \/ InsertRequest(t)
  BY <1>3, <1>6 DEF FindPending, InsertRequest, Asking, Labels
<1>7. CASE WaitForHuman(t) \/ Execute(t) \/ Fail(t)
  BY <1>4, <1>7 DEF WaitForHuman, Execute, Fail
<1>8. CASE IssueEphemeral(t) \/ IssueApproved(t)
  BY <1>8, InsertsShape, AskingGoesOn DEF Inserts, Asking
<1>9. CASE MarkApproved(t) \/ Activate(t)
  <2>1. /\ Keep
        /\ \/ pc[t] = "approve" /\ Goto(t, "grant")
           \/ pc[t] = "activate" /\ Goto(t, "fetch")
    BY <1>9 DEF MarkApproved, Activate
  <2> QED BY <1>3, <2>1 DEF Asking, Labels
<1>10. CASE ConsumeGrant(t) \/ (SelectGrant(t) /\ ~Return(t))
  <2>1. PICK g \in GrantIds, label \in {"consume", "execute"} :
          loc' = [loc EXCEPT ![t].grant = g] /\ Goto(t, label)
    <3>1. CASE ConsumeGrant(t)
      BY <3>1, ConsumeShape
    <3>2. CASE SelectGrant(t) /\ ~Return(t)
      BY <3>2 DEF SelectGrant, Newest, LiveFor
    <3> QED BY <1>10, <3>1, <3>2
  <2>2. /\ loc'[t] = [loc[t] EXCEPT !.grant = g] /\ pc'[t] \in {"consume", "execute"}
        /\ loc[t].op # "approve"
    BY <1>0, <1>10, <2>1, Arrives DEF SelectGrant, ConsumeGrant, TypeOK, Asking
  <2>3. /\ loc'[t].op = loc[t].op /\ loc'[t].perm = loc[t].perm
        /\ loc'[t].request = loc[t].request
    BY <1>0, <2>2 DEF Locals
  <2> QED BY <2>2, <2>3, AskingGoesOn DEF Asking
<1> QED BY <1>1, <1>2, <1>4, <1>5, <1>6, <1>7, <1>8, <1>9, <1>10 DEF Handle

LEMMA AskingReseeds ==
  ASSUME IInv, NEW t \in Threads, Reseeding(t), Asking(t)
  PROVE  Asking(t)'
<1>1. CASE InsertSeedGrant(t)
  <2>1. loc[t].op = "reseed"
    BY <1>1 DEF InsertSeedGrant, IInv, ThreadOK, Seeding
  <2> QED BY <1>1, <2>1, InsertsShape, AskingGoesOn DEF Inserts, Asking
<1>2. CASE Reseed(t)
  BY <1>2, ReseedShape DEF Asking, IInv
<1>3. CASE Deletes(t)
  BY <1>3, DeletesShape, AskingGoesOn DEF Seeding
<1> QED BY <1>1, <1>2, <1>3 DEF Reseeding, Deletes

(* Rows that are not issued by a step keep their permission and request.   *)
LEMMA NoGrantIssued ==
  ASSUME IInv, NEW t \in Threads, Handle(t) \/ Fail(t),
         ~IssueEphemeral(t), ~IssueApproved(t), ~ConsumeGrant(t), ~Execute(t)
  PROVE  grants' = grants
BY DEF Handle, Fetch, Assign, SyncFails, DecideAllow, DecideMode, FindPending,
   InsertRequest, WaitForHuman, MarkApproved, Activate, SelectGrant, Fail

(* A step that writes the row of one grant.                                *)
LEMMA LedgerRow ==
  ASSUME LedgerInv, NEW g \in GrantIds, grants'[g].issuer # "none",
         grants'[g].perm \in Perms, \A h \in GrantIds \ {g} : grants'[h] = grants[h],
         \A t \in Threads : Asking(t)'
  PROVE  LedgerInv'
<1>1. ASSUME NEW h \in GrantIds
      PROVE  IF grants'[h].issuer = "none" THEN grants'[h] = NoGrant
             ELSE grants'[h].perm \in Perms
  BY DEF LedgerInv
<1> QED BY <1>1 DEF LedgerInv, NoGrant, NewGrant

LEMMA LedgerNext == IInv /\ LedgerInv /\ [Next]_vars => LedgerInv'
<1> SUFFICES ASSUME IInv, LedgerInv, [Next]_vars PROVE LedgerInv'
  OBVIOUS
<1>0. TypeOK
  BY DEF IInv
<1>1. CASE Arrive
  <2>1. PICK t \in Threads : Arrived(t) /\ Asking(t)'
    BY <1>0, <1>1, AskingStarts
  <2> QED BY <2>1 DEF LedgerInv, Arrived, OthersStay, Asking
<1>2. ASSUME NEW t \in Threads, Handle(t) \/ Fail(t) \/ Reseeding(t) PROVE LedgerInv'
  <2>1. \A u \in Threads : Asking(u)'
    <3>1. OthersStay(t) /\ Asking(t)'
      BY <1>0, <1>2, HandlersStay, AskingHandles, ReseedingShape, AskingReseeds DEF LedgerInv
    <3> QED BY <3>1 DEF LedgerInv, OthersStay, Asking
  <2>2. CASE Inserts(t)
    <3>1. PICK g \in GrantIds, issuer \in {"seed", "policy:auto_approve", "human"},
               calls \in Nat : InsertedBy(t, g, issuer, calls)
      BY <2>2, InsertsRow
    <3>2. loc[t].perm \in Perms
      BY <2>2, InsertsShape DEF IInv, ThreadOK
    <3> QED BY <2>1, <3>1, <3>2, LedgerRow DEF InsertedBy
  <2>3. CASE ConsumeGrant(t) \/ Execute(t)
    <3>1. PICK g \in GrantIds :
            /\ grants[g].issuer # "none" /\ grants[g].perm \in Perms
            /\ \/ grants' = [grants EXCEPT ![g].calls = @ - 1]
               \/ grants' = [grants EXCEPT ![g].executed = @ + 1]
      <4>1. CASE ConsumeGrant(t)
        BY <4>1, ConsumeShape DEF LedgerInv
      <4>2. CASE Execute(t)
        BY <4>2 DEF Execute, IInv, ThreadOK, LedgerInv
      <4> QED BY <2>3, <4>1, <4>2
    <3>2. /\ grants'[g].issuer = grants[g].issuer /\ grants'[g].perm = grants[g].perm
          /\ \A h \in GrantIds \ {g} : grants'[h] = grants[h]
      BY <3>1 DEF IInv, TypeOK, Grant
    <3> QED BY <2>1, <3>1, <3>2, LedgerRow
  <2>4. CASE ~(Inserts(t) \/ ConsumeGrant(t) \/ Execute(t))
    <3>1. grants' = grants
      BY <1>2, <2>4, NoGrantIssued, ReseedingShape DEF Inserts
    <3> QED BY <2>1, <3>1 DEF LedgerInv
  <2> QED BY <2>2, <2>3, <2>4
<1>3. ASSUME NEW g \in GrantIds, Expire(g) PROVE LedgerInv'
  <2>1. /\ \A h \in GrantIds \ {g} : grants'[h] = grants[h]
        /\ grants'[g].issuer = grants[g].issuer /\ grants'[g].perm = grants[g].perm
    BY <1>3 DEF Expire, IInv, TypeOK, Grant
  <2>2. \A t \in Threads : Asking(t)'
    BY <1>3 DEF Expire, LedgerInv, Asking
  <2> QED BY <1>3, <2>1, <2>2, LedgerRow DEF Expire, LedgerInv
<1>4. CASE UNCHANGED vars
  BY <1>4 DEF vars, LedgerInv, Asking
<1>5. Init' => LedgerInv'
  BY LedgerInit, PTL
<1> QED BY <1>1, <1>2, <1>3, <1>4, <1>5, RestartsInit DEF Next, Reliable

-----------------------------------------------------------------------------
(* The event loop's call as the ledger sees it.                            *)
Work ==
  IF pc[Loop] \in {"consume", "execute"}
  THEN [ perm |-> loc[Loop].perm, grant |-> loc[Loop].grant, paid |-> pc[Loop] = "execute" ]
  ELSE [ perm |-> None, grant |-> None, paid |-> FALSE ]

LEMMA WorkKept ==
  ASSUME NEW t \in Threads, OthersStay(t),
         t = Loop => /\ pc[Loop] \notin {"consume", "execute"}
                     /\ pc'[Loop] \notin {"consume", "execute"}
  PROVE  Work' = Work
BY DEF Work, OthersStay, Threads

LEMMA Stutters ==
  ASSUME UNCHANGED <<requests, grants, gone>>, Work' = Work
  PROVE  UNCHANGED Ledger!vars
BY DEF Ledger!vars, Work

LEMMA Abandons ==
  ASSUME UNCHANGED <<requests, grants, gone>>, pc'[Loop] \notin {"consume", "execute"}
  PROVE  Ledger!Next
<1>1. Ledger!Abandon
  BY DEF Ledger!Abandon, Ledger!NoCall
<1> QED BY <1>1 DEF Ledger!Next

LEMMA SameSeed ==
  /\ Ledger!NoGrant = NoGrant /\ Ledger!NoRequest = NoRequest
  /\ \A g : Ledger!SeededWith(g) = SeededWith(g)
BY DEF Ledger!NoGrant, Ledger!NoRequest, Ledger!SeededWith, Ledger!Granted,
   NoGrant, NoRequest, SeedGrant, SeededWith, NewGrant

LEMMA LedgerStarts == Init => Ledger!Init
BY SameSeed DEF Init, Ledger!Init, Ledger!NoCall, NoRequests, AllIdle, Threads

(* One step of a handler at a time: which step of the ledger it is.        *)
LEMMA Asks ==
  ASSUME IInv, LedgerInv, NEW t \in Threads, InsertRequest(t)
  PROVE  Ledger!Next
<1> DEFINE p == loc[t].perm
<1>1. PICK r \in RequestIds :
        /\ requests[r] = NoRequest
        /\ requests' = [requests EXCEPT ![r] = [perm |-> p, status |-> "pending"]]
  BY DEF InsertRequest
<1>2. p \in HumanPerms /\ p \in Perms /\ UNCHANGED <<grants, gone>>
  BY DEF InsertRequest, IInv, ThreadOK, LedgerInv, Asking
<1>3. Work' = Work
  BY Arrives, HandlersStay, WorkKept DEF InsertRequest, Handle, IInv
<1>4. Ledger!Ask(r, p)
  BY <1>1, <1>2, <1>3, SameSeed DEF Ledger!Ask, Work
<1> QED BY <1>2, <1>4 DEF Ledger!Next

LEMMA Approves ==
  ASSUME IInv, NEW t \in Threads, MarkApproved(t)
  PROVE  [Ledger!Next]_(Ledger!vars)
<1> DEFINE r == loc[t].request
<1>1. /\ r \in RequestIds /\ requests[r] \in Request
      /\ requests[r].status \in {"pending", "approved"}
  BY DEF MarkApproved, IInv, ThreadOK, TypeOK, Request
<1>2. /\ requests' = [requests EXCEPT ![r].status = "approved"]
      /\ UNCHANGED <<grants, gone>>
  BY DEF MarkApproved
<1>3. Work' = Work
  BY Arrives, HandlersStay, WorkKept DEF MarkApproved, Handle, IInv
<1>4. CASE requests[r].status = "pending"
  <2>1. Ledger!Approve(r)
    BY <1>1, <1>2, <1>3, <1>4 DEF Ledger!Approve, Work
  <2> QED BY <1>1, <2>1 DEF Ledger!Next
<1>5. CASE requests[r].status = "approved"
  <2>1. requests' = requests
    BY <1>1, <1>2, <1>5 DEF Request, IInv, TypeOK
  <2> QED BY <1>2, <1>3, <2>1, Stutters
<1> QED BY <1>1, <1>4, <1>5

LEMMA Issues ==
  ASSUME IInv, LedgerInv, NEW t \in Threads, Inserts(t)
  PROVE  Ledger!Next
<1> DEFINE p == loc[t].perm
           r == loc[t].request
<1>1. /\ UNCHANGED <<requests, gone>> /\ Work' = Work
      /\ \/ IssueEphemeral(t) /\ pc[t] = "issue"
         \/ InsertSeedGrant(t) /\ pc[t] = "insert grant"
         \/ IssueApproved(t) /\ pc[t] = "grant"
  BY InsertsShape, WorkKept
<1>2. PICK g \in GrantIds, issuer \in {"seed", "policy:auto_approve", "human"}, calls \in Nat :
        /\ grants[g].issuer = "none"
        /\ grants' = [grants EXCEPT ![g] = NewGrant(p, issuer, r, calls)]
        /\ \/ IssueEphemeral(t) /\ issuer = "policy:auto_approve" /\ calls = AutoCalls
           \/ InsertSeedGrant(t) /\ issuer = "seed" /\ calls = SeedCalls
           \/ IssueApproved(t) /\ issuer = "human" /\ calls = HumanCalls
  BY InsertsRow DEF InsertedBy
<1>3. grants[g] = Ledger!NoGrant
  BY <1>2, SameSeed DEF LedgerInv
<1>4. Ledger!Issue(g, p, issuer, r, calls)
  BY <1>1, <1>2, <1>3 DEF Ledger!Issue, Ledger!Granted, NewGrant, Work
<1>5. CASE IssueEphemeral(t)
  <2>1. /\ p \in Perms \ HumanPerms /\ r = None
        /\ issuer = "policy:auto_approve" /\ calls = AutoCalls
    BY <1>2, <1>5 DEF IssueEphemeral, IssueApproved, InsertSeedGrant, IInv, ThreadOK,
       LedgerInv, Asking
  <2>2. Ledger!IssueFreely(g, p)
    BY <1>4, <2>1 DEF Ledger!IssueFreely
  <2> QED BY <2>1, <2>2 DEF Ledger!Next
<1>6. CASE InsertSeedGrant(t)
  <2>1. p = SeedPerm /\ r = None /\ issuer = "seed" /\ calls = SeedCalls
    BY <1>2, <1>6 DEF IssueEphemeral, IssueApproved, InsertSeedGrant, IInv, ThreadOK,
       LedgerInv, Asking, Seeding
  <2>2. Ledger!Seed(g)
    BY <1>4, <2>1 DEF Ledger!Seed
  <2> QED BY <2>2 DEF Ledger!Next
<1>7. CASE IssueApproved(t)
  <2>1. /\ r \in RequestIds /\ requests[r].status = "approved" /\ requests[r].perm = p
        /\ issuer = "human" /\ calls = HumanCalls
    BY <1>2, <1>7 DEF IssueEphemeral, IssueApproved, InsertSeedGrant, IInv, ThreadOK
  <2>2. Ledger!IssueApproved(g, r)
    BY <1>4, <2>1 DEF Ledger!IssueApproved
  <2> QED BY <2>1, <2>2 DEF Ledger!Next
<1> QED BY <1>1, <1>5, <1>6, <1>7

LEMMA Chooses ==
  ASSUME IInv, NEW t \in Threads, SelectGrant(t)
  PROVE  [Ledger!Next]_(Ledger!vars)
<1>1. /\ t = Loop /\ Loop \in Threads /\ pc[Loop] = "select"
      /\ loc[Loop].perm \in Perms /\ UNCHANGED <<grants, requests, gone>>
  BY DEF SelectGrant, IInv, ThreadOK
<1>2. CASE Return(t)
  <2>1. Work' = Work
    BY <1>1, <1>2, Returns DEF Work, IInv
  <2> QED BY <1>1, <2>1, Stutters
<1>3. CASE ~Return(t)
  <2> DEFINE p == loc[Loop].perm
  <2>1. PICK g \in Newest(LiveFor(p)) :
          loc' = [loc EXCEPT ![Loop].grant = g] /\ Goto(Loop, "consume")
    BY <1>1, <1>3 DEF SelectGrant
  <2>2. /\ g \in GrantIds /\ grants[g].perm = p /\ g \notin gone
        /\ grants[g].calls > 0 /\ ~grants[g].expired
    BY <2>1 DEF Newest, LiveFor, Active
  <2>3. Work' = [perm |-> p, grant |-> g, paid |-> FALSE]
    <3>1. pc'[Loop] = "consume" /\ loc'[Loop] = [loc[Loop] EXCEPT !.grant = g]
      BY <1>1, <2>1, Arrives DEF IInv, TypeOK
    <3>2. loc[Loop] \in Locals
      BY <1>1 DEF IInv, TypeOK
    <3> QED BY <3>1, <3>2 DEF Work, Locals
  <2>4. Ledger!Choose(p, g)
    BY <1>1, <2>2, <2>3 DEF Ledger!Choose, Ledger!NoCall, Work
  <2> QED BY <1>1, <2>2, <2>4 DEF Ledger!Next
<1> QED BY <1>2, <1>3

LEMMA Pays ==
  ASSUME IInv, NEW t \in Threads, ConsumeGrant(t)
  PROVE  Ledger!Next
<1>1. PICK g \in GrantIds :
        /\ Loop \in Threads /\ pc[Loop] = "consume"
        /\ grants[g].issuer # "none" /\ grants[g].calls > 0
        /\ grants[g].perm = loc[Loop].perm
        /\ grants' = [grants EXCEPT ![g].calls = @ - 1]
        /\ loc' = [loc EXCEPT ![Loop].grant = g]
        /\ Goto(Loop, "execute")
        /\ UNCHANGED <<requests, gone, status, graph, created, second>>
  BY ConsumeShape
<1>2. pc'[Loop] = "execute" /\ loc'[Loop].grant = g /\ loc'[Loop].perm = loc[Loop].perm
  <2>1. pc'[Loop] = "execute" /\ loc'[Loop] = [loc[Loop] EXCEPT !.grant = g]
        /\ loc[Loop] \in Locals
    BY <1>1, Arrives DEF IInv, TypeOK
  <2> QED BY <2>1 DEF Locals
<1>3. Work' = [perm |-> Work.perm, grant |-> g, paid |-> TRUE]
  BY <1>1, <1>2 DEF Work
<1>4. loc[Loop].perm # None
  BY <1>1, GrantsAssumption DEF IInv, ThreadOK
<1>5. Ledger!Pay(g)
  BY <1>1, <1>3, <1>4 DEF Ledger!Pay, Ledger!NoCall, Work
<1> QED BY <1>5 DEF Ledger!Next

LEMMA Executes ==
  ASSUME IInv, NEW t \in Threads, Execute(t)
  PROVE  Ledger!Next
<1>1. PICK g \in GrantIds :
        /\ t = Loop /\ Loop \in Threads /\ g = loc[Loop].grant /\ pc[Loop] = "execute"
        /\ UNCHANGED <<requests, gone>>
  BY DEF IInv, ThreadOK, Execute
<1>2. grants' = [grants EXCEPT ![g].executed = @ + 1] /\ pc'[Loop] = "idle"
  BY <1>1, Returns DEF Execute, IInv
<1>3. Ledger!Execute(g)
  BY <1>1, <1>2 DEF Ledger!Execute, Ledger!NoCall, Work
<1> QED BY <1>3 DEF Ledger!Next

LEMMA Expires ==
  ASSUME NEW g \in GrantIds, Expire(g)
  PROVE  Ledger!Next
<1>1. /\ grants[g].issuer # "none" /\ grants' = [grants EXCEPT ![g].expired = TRUE]
      /\ UNCHANGED <<requests, gone, pc, loc>>
  BY DEF Expire
<1>2. grants[g] # Ledger!NoGrant
  BY <1>1, SameSeed, BlankRows
<1>3. Ledger!Expire(g)
  BY <1>1, <1>2 DEF Ledger!Expire
<1> QED BY <1>3 DEF Ledger!Next

LEMMA Revokes ==
  ASSUME IInv, LedgerInv, NEW t \in Threads, Reseeding(t)
  PROVE  [Ledger!Next]_(Ledger!vars)
<1>1. CASE InsertSeedGrant(t)
  BY <1>1, Issues DEF Inserts
<1>2. CASE ~InsertSeedGrant(t)
  <2>1. /\ UNCHANGED <<grants, requests>> /\ Work' = Work
    <3>1. pc[t] \notin {"consume", "execute"} /\ pc'[t] \notin {"consume", "execute"}
      BY ReseedingShape DEF Seeding
    <3> QED BY <1>2, <3>1, ReseedingShape, WorkKept
  <2>2. CASE DeleteRequests(t)
    <3>1. Ledger!RevokeRequests
      BY <2>1, <2>2, SameSeed DEF DeleteRequests, Ledger!RevokeRequests, Work
    <3> QED BY <3>1 DEF Ledger!Next
  <2>3. CASE DeleteGrants(t)
    <3>1. \A g \in GrantIds : grants[g].issuer # "none" <=> grants[g] # Ledger!NoGrant
      BY SameSeed, BlankRows DEF LedgerInv
    <3>2. Ledger!RevokeGrants
      BY <2>1, <2>3, <3>1 DEF DeleteGrants, Ledger!RevokeGrants, Work
    <3> QED BY <3>2 DEF Ledger!Next
  <2>4. CASE Reseed(t) \/ DeleteSession(t) \/ InsertSession(t)
    <3>1. gone' = gone
      BY <2>4 DEF Reseed, Start, DeleteSession, InsertSession
    <3> QED BY <2>1, <3>1, Stutters
  <2> QED BY <1>2, <2>2, <2>3, <2>4 DEF Reseeding
<1> QED BY <1>1, <1>2

LEMMA Restarts == Restart => Ledger!Next
<1> SUFFICES ASSUME Restart PROVE Ledger!Next
  OBVIOUS
<1>1. Ledger!Restart
  BY SameSeed DEF Restart, Ledger!Restart, Ledger!NoCall, NoRequests, AllIdle, Threads
<1> QED BY <1>1 DEF Ledger!Next

LEMMA LedgerStep == IInv /\ LedgerInv /\ [Next]_vars => [Ledger!Next]_(Ledger!vars)
<1> SUFFICES ASSUME IInv, LedgerInv, [Next]_vars PROVE [Ledger!Next]_(Ledger!vars)
  OBVIOUS
<1>0. TypeOK
  BY DEF IInv
<1>1. CASE Arrive
  <2>1. PICK t \in Threads : Arrived(t)
    BY <1>0, <1>1, ArriveShape
  <2>2. UNCHANGED <<grants, requests, gone>> /\ Work' = Work
    BY <2>1, WorkKept DEF Arrived
  <2> QED BY <2>2, Stutters
<1>2. ASSUME NEW t \in Threads,
             \/ Fetch(t) \/ Assign(t) \/ SyncFails(t) \/ DecideAllow(t)
             \/ DecideMode(t) \/ FindPending(t) \/ WaitForHuman(t) \/ Activate(t)
      PROVE  UNCHANGED Ledger!vars
  <2>1. UNCHANGED <<grants, requests, gone>> /\ OthersStay(t)
    BY <1>0, <1>2, HandlersStay DEF Handle, Fetch, Assign, SyncFails, DecideAllow,
       DecideMode, FindPending, WaitForHuman, Activate
  <2>2. pc[t] \notin {"consume", "execute"}
    BY <1>2 DEF Fetch, Assign, SyncFails, DecideAllow, DecideMode, FindPending,
       WaitForHuman, Activate
  <2>3. pc'[t] \notin {"consume", "execute"}
    <3>1. CASE Assign(t) \/ SyncFails(t)
      BY <1>0, <3>1, SyncShape DEF Assign, SyncFails
    <3>2. CASE Fetch(t) \/ DecideAllow(t) \/ DecideMode(t)
      BY <1>0, <3>2, Arrives, Returns DEF Fetch, DecideAllow, DecideMode
    <3>3. CASE FindPending(t) \/ WaitForHuman(t) \/ Activate(t)
      BY <1>0, <3>3, Arrives, Returns DEF FindPending, WaitForHuman, Activate
    <3> QED BY <1>2, <3>1, <3>2, <3>3
  <2>4. Work' = Work
    BY <2>1, <2>2, <2>3, WorkKept
  <2> QED BY <2>1, <2>4, Stutters
<1>3. ASSUME NEW t \in Threads, Handle(t) PROVE [Ledger!Next]_(Ledger!vars)
  BY <1>2, <1>3, Asks, Approves, Issues, Chooses, Pays, Executes DEF Handle, Inserts
<1>4. ASSUME NEW g \in GrantIds, Expire(g) PROVE Ledger!Next
  BY <1>4, Expires
<1>5. ASSUME NEW t \in Threads, Fail(t) PROVE [Ledger!Next]_(Ledger!vars)
  <2>1. UNCHANGED <<grants, requests, gone>> /\ OthersStay(t) /\ pc'[t] = "idle"
    BY <1>0, <1>5, HandlersStay, Returns DEF Fail
  <2>2. CASE t = Loop
    BY <2>1, <2>2, Abandons
  <2>3. CASE t # Loop
    BY <2>1, <2>3, WorkKept, Stutters
  <2> QED BY <2>2, <2>3
<1>6. ASSUME NEW t \in Threads, Reseeding(t) PROVE [Ledger!Next]_(Ledger!vars)
  BY <1>6, Revokes
<1>7. CASE UNCHANGED vars
  <2>1. UNCHANGED <<grants, requests, gone>> /\ Work' = Work
    BY <1>7 DEF vars, Work
  <2> QED BY <2>1, Stutters
<1> QED BY <1>1, <1>3, <1>4, <1>5, <1>6, <1>7, Restarts DEF Next, Reliable

(* The handlers implement the ledger: any number of threads, wherever they *)
(* are cut off, with reseeds between their statements and restarts, change *)
(* requests and grants only as GrantLedger allows.                         *)
THEOREM HandlersKeepLedger == Spec => LedgerSpec
BY InitOK, NextOK, LedgerInit, LedgerNext, LedgerStarts, LedgerStep, PTL
   DEF Spec, LedgerSpec, Ledger!Spec

-----------------------------------------------------------------------------
(* What the ledger itself promises, in any of its behaviours: here it has  *)
(* variables of its own.                                                   *)
VARIABLES book, work
Book == INSTANCE GrantLedger WITH grants <- book, call <- work

Calls == [perm : Perms \cup {None}, grant : GrantIds \cup {None}, paid : BOOLEAN]

BookTypeOK ==
  /\ requests \in [RequestIds -> Request]
  /\ book \in [GrantIds -> Grant]
  /\ work \in Calls

(* A blank row is no grant, and a call has a grant, which is one.          *)
BookInv ==
  /\ BookTypeOK
  /\ \A g \in GrantIds :
       IF book[g].issuer = "none" THEN book[g] = Book!NoGrant ELSE book[g].perm \in Perms
  /\ \A r \in RequestIds : requests[r].status # "none" => requests[r].perm \in Perms
  /\ work.grant = None => work = Book!NoCall
  /\ work.grant # None => work.perm \in Perms /\ book[work.grant].issuer # "none"
  /\ Book!PaidFor /\ Book!HumansAgreed /\ Book!CallsTheirOwn

LEMMA BookRows ==
  /\ Book!NoGrant = NoGrant /\ Book!NoRequest = NoRequest
  /\ \A g : Book!SeededWith(g) = SeededWith(g)
  /\ Book!NoCall \in Calls /\ Book!NoCall.grant = None /\ ~Book!NoCall.paid
BY DEF Book!NoGrant, Book!NoRequest, Book!SeededWith, Book!Granted, Book!NoCall, Calls,
   NoGrant, NoRequest, SeedGrant, SeededWith, NewGrant

(* The tables of the beginning, at a beginning and at a restart.           *)
LEMMA BookInit == Book!Init => BookInv
<1> SUFFICES ASSUME Book!Init PROVE BookInv
  OBVIOUS
<1> USE GrantsAssumption
<1>1. PICK g0 \in GrantIds : book = SeededWith(g0)
  BY BookRows DEF Book!Init
<1>2. /\ book \in [GrantIds -> Grant] /\ book[g0] = SeedGrant
      /\ \A g \in GrantIds \ {g0} : book[g] = NoGrant
  BY <1>1, BlankRows, SeedRow DEF SeededWith
<1>3. /\ requests = [r \in RequestIds |-> NoRequest] /\ work = Book!NoCall
  BY BookRows DEF Book!Init
<1>4. BookTypeOK
  BY <1>2, <1>3, BlankRows, BookRows DEF BookTypeOK
<1>5. \A g \in GrantIds :
        IF book[g].issuer = "none" THEN book[g] = Book!NoGrant ELSE book[g].perm \in Perms
  <2>1. book[g0].issuer # "none" /\ book[g0].perm \in Perms
    BY <1>2, SeedRow
  <2>2. \A g \in GrantIds \ {g0} : book[g].issuer = "none" /\ book[g] = Book!NoGrant
    BY <1>2, BookRows, BlankRows
  <2> QED BY <2>1, <2>2
<1>6. Book!PaidFor
  <2>1. \A g \in GrantIds : Book!InFlight(g) = 0
    BY <1>3, BookRows DEF Book!InFlight
  <2>2. ASSUME NEW g \in GrantIds
        PROVE  book[g].executed + book[g].calls + Book!InFlight(g) <= Book!Issued(g)
    <3>1. CASE g = g0
      BY <1>2, <2>1, <3>1, SeedRow DEF Book!Issued
    <3>2. CASE g # g0
      BY <1>2, <2>1, <3>2, BlankRows DEF Book!Issued
    <3> QED BY <3>1, <3>2
  <2> QED BY <2>2 DEF Book!PaidFor
<1>7. Book!HumansAgreed
  BY <1>2, SeedRow, BlankRows DEF Book!HumansAgreed
<1>8. Book!CallsTheirOwn /\ work.grant = None
  BY <1>3, BookRows DEF Book!CallsTheirOwn
<1>9. \A r \in RequestIds : requests[r].status # "none" => requests[r].perm \in Perms
  BY <1>3 DEF NoRequest
<1> QED BY <1>3, <1>4, <1>5, <1>6, <1>7, <1>8, <1>9 DEF BookInv

(* A step that changes one row, to a grant that is paid for and agreed to, *)
(* and leaves the other calls alone.                                       *)
LEMMA BookRow ==
  ASSUME BookInv, NEW g \in GrantIds, requests' = requests,
         \A h \in GrantIds \ {g} : book'[h] = book[h],
         book' \in [GrantIds -> Grant],
         book'[g].issuer # "none", book'[g].perm \in Perms,
         book[g].issuer # "none" => book'[g].perm = book[g].perm,
         book'[g].perm \in HumanPerms =>
           /\ book'[g].request \in RequestIds
           /\ requests[book'[g].request] = [perm |-> book'[g].perm, status |-> "approved"],
         book'[g].executed + book'[g].calls + Book!InFlight(g)' <= Book!Issued(g)',
         work' \in Calls,
         \/ work' = work
         \/ work' = Book!NoCall
         \/ work'.grant = g /\ work'.perm \in Perms /\ work'.perm = book'[g].perm
  PROVE  BookInv'
<1> USE GrantsAssumption
<1>1. BookTypeOK'
  BY DEF BookInv, BookTypeOK
<1>2. ASSUME NEW h \in GrantIds
      PROVE  IF book'[h].issuer = "none" THEN book'[h] = Book!NoGrant
             ELSE book'[h].perm \in Perms
  BY DEF BookInv
<1>3. \A r \in RequestIds : requests'[r].status # "none" => requests'[r].perm \in Perms
  BY DEF BookInv
<1>4. /\ work'.grant = None => work' = Book!NoCall
      /\ work'.grant # None => work'.perm \in Perms /\ book'[work'.grant].issuer # "none"
  BY BookRows DEF BookInv, BookTypeOK, Calls
<1>5. Book!PaidFor'
  <2>1. ASSUME NEW h \in GrantIds \ {g} PROVE Book!InFlight(h)' <= Book!InFlight(h)
    BY BookRows DEF Book!InFlight, BookInv, BookTypeOK, Calls
  <2>2. \A h \in GrantIds : Book!InFlight(h) \in Nat /\ Book!InFlight(h)' \in Nat
    BY DEF Book!InFlight
  <2> HIDE DEF Book!InFlight
  <2>3. ASSUME NEW h \in GrantIds \ {g}
        PROVE  book'[h].executed + book'[h].calls + Book!InFlight(h)' <= Book!Issued(h)'
    <3>1. /\ book[h].executed \in Nat /\ book[h].calls \in Nat
          /\ Book!Issued(h)' = Book!Issued(h) /\ Book!Issued(h) \in Nat
      BY DEF BookInv, BookTypeOK, Grant, Book!Issued
    <3>2. book[h].executed + book[h].calls + Book!InFlight(h) <= Book!Issued(h)
      BY DEF BookInv, Book!PaidFor
    <3> QED BY <2>1, <2>2, <3>1, <3>2
  <2> QED BY <2>3 DEF Book!PaidFor
<1>6. Book!HumansAgreed'
  BY DEF BookInv, Book!HumansAgreed
<1>7. Book!CallsTheirOwn'
  BY BookRows DEF BookInv, BookTypeOK, Calls, Book!CallsTheirOwn
<1> QED BY <1>1, <1>2, <1>3, <1>4, <1>5, <1>6, <1>7 DEF BookInv

LEMMA BookIssue ==
  ASSUME BookInv, NEW g \in GrantIds, NEW p \in Perms, NEW r \in RequestIds \cup {None},
         NEW issuer \in {"seed", "policy:auto_approve", "human"}, NEW calls \in Nat,
         issuer = "human" => calls = HumanCalls,
         issuer = "policy:auto_approve" => calls = AutoCalls,
         issuer = "seed" => calls = SeedCalls,
         Book!Issue(g, p, issuer, r, calls),
         p \in HumanPerms =>
           r \in RequestIds /\ requests[r] = [perm |-> p, status |-> "approved"]
  PROVE  BookInv'
<1> DEFINE row == NewGrant(p, issuer, r, calls)
<1>1. /\ book[g] = NoGrant /\ requests' = requests /\ work' = work
      /\ book' = [book EXCEPT ![g] = row]
  BY BookRows DEF Book!Issue, Book!Granted, NewGrant
<1>2. /\ row \in Grant /\ row.perm = p /\ row.issuer = issuer /\ row.request = r
      /\ row.calls = calls /\ row.executed = 0
  BY NewGrantOK
<1> HIDE DEF row
<1>3. book' \in [GrantIds -> Grant] /\ book'[g] = row
      /\ \A h \in GrantIds \ {g} : book'[h] = book[h]
  BY <1>1, <1>2 DEF BookInv, BookTypeOK
<1>4. book[g].issuer = "none"
  BY <1>1, BlankRows
<1>5. Book!InFlight(g)' = 0
  BY <1>1, <1>4, GrantsAssumption DEF Book!InFlight, BookInv, BookTypeOK
<1>6. Book!Issued(g)' = calls
  BY <1>2, <1>3 DEF Book!Issued
<1>7. book'[g].executed + book'[g].calls + Book!InFlight(g)' <= Book!Issued(g)'
  BY <1>2, <1>3, <1>5, <1>6
<1>8. work' \in Calls
  BY <1>1 DEF BookInv, BookTypeOK
<1>9. book'[g].perm \in HumanPerms =>
        /\ book'[g].request \in RequestIds
        /\ requests[book'[g].request] = [perm |-> book'[g].perm, status |-> "approved"]
  BY <1>2, <1>3
<1> QED BY <1>1, <1>2, <1>3, <1>4, <1>7, <1>8, <1>9, BookRow

(* A step that leaves the rows alone and ends a call or keeps it.          *)
LEMMA BookQuiet ==
  ASSUME BookInv, UNCHANGED <<requests, book>>, work' = work \/ work' = Book!NoCall
  PROVE  BookInv'
<1> USE GrantsAssumption
<1>1. \A g \in GrantIds :
        /\ Book!InFlight(g)' <= Book!InFlight(g)
        /\ Book!InFlight(g)' \in Nat /\ Book!InFlight(g) \in Nat
  BY BookRows DEF Book!InFlight
<1> HIDE DEF Book!InFlight
<1>2. \A g \in GrantIds :
        /\ Book!Issued(g)' = Book!Issued(g) /\ Book!Issued(g) \in Nat
        /\ book[g].executed \in Nat /\ book[g].calls \in Nat
  BY DEF BookInv, BookTypeOK, Grant, Book!Issued
<1>3. Book!PaidFor'
  BY <1>1, <1>2 DEF BookInv, Book!PaidFor
<1>4. Book!CallsTheirOwn' /\ Book!HumansAgreed'
  BY BookRows DEF BookInv, Book!CallsTheirOwn, Book!HumansAgreed
<1> QED BY <1>3, <1>4, BookRows DEF BookInv, BookTypeOK

LEMMA BookRequests ==
  ASSUME BookInv, NEW r \in RequestIds, NEW row \in Request, row.perm \in Perms,
         requests' = [requests EXCEPT ![r] = row],
         requests[r].status = "approved" => row = requests[r],
         UNCHANGED <<book, work>>
  PROVE  BookInv'
<1>1. requests' \in [RequestIds -> Request] /\ requests'[r] = row
      /\ \A q \in RequestIds \ {r} : requests'[q] = requests[q]
  BY DEF BookInv, BookTypeOK
<1>2. Book!PaidFor' /\ Book!CallsTheirOwn'
  BY DEF BookInv, Book!PaidFor, Book!CallsTheirOwn, Book!InFlight, Book!Issued
<1>3. Book!HumansAgreed'
  <2> SUFFICES ASSUME NEW g \in GrantIds, book[g].perm \in HumanPerms
               PROVE  /\ book[g].request \in RequestIds
                      /\ requests'[book[g].request]
                           = [perm |-> book[g].perm, status |-> "approved"]
    BY DEF Book!HumansAgreed
  <2>1. /\ book[g].request \in RequestIds
        /\ requests[book[g].request] = [perm |-> book[g].perm, status |-> "approved"]
    BY DEF BookInv, Book!HumansAgreed
  <2> QED BY <1>1, <2>1
<1> QED BY <1>1, <1>2, <1>3 DEF BookInv, BookTypeOK

LEMMA BookNext == BookInv /\ [Book!Next]_(Book!vars) => BookInv'
<1> SUFFICES ASSUME BookInv, [Book!Next]_(Book!vars) PROVE BookInv'
  OBVIOUS
<1> USE GrantsAssumption
<1>1. ASSUME NEW r \in RequestIds, NEW p \in Perms, Book!Ask(r, p) PROVE BookInv'
  <2>1. [perm |-> p, status |-> "pending"] \in Request
    BY DEF Request
  <2>2. requests[r].status # "approved"
    BY <1>1 DEF Book!Ask, Book!NoRequest
  <2> QED BY <1>1, <2>1, <2>2, BookRequests DEF Book!Ask
<1>2. ASSUME NEW r \in RequestIds, Book!Approve(r) PROVE BookInv'
  <2> DEFINE row == [requests[r] EXCEPT !.status = "approved"]
  <2>1. row \in Request /\ row.perm \in Perms /\ requests[r].status # "approved"
    BY <1>2 DEF Book!Approve, BookInv, BookTypeOK, Request
  <2>2. requests' = [requests EXCEPT ![r] = row] /\ UNCHANGED <<book, work>>
    BY <1>2 DEF Book!Approve, BookInv, BookTypeOK
  <2> QED BY <2>1, <2>2, BookRequests
<1>3. ASSUME NEW g \in GrantIds, NEW p \in Perms, Book!IssueFreely(g, p) PROVE BookInv'
  BY <1>3, BookIssue DEF Book!IssueFreely
<1>4. ASSUME NEW g \in GrantIds, NEW r \in RequestIds, Book!IssueApproved(g, r) PROVE BookInv'
  <2>1. requests[r] = [perm |-> requests[r].perm, status |-> "approved"]
    BY <1>4 DEF Book!IssueApproved, BookInv, BookTypeOK, Request
  <2>2. requests[r].perm \in Perms
    BY <1>4 DEF Book!IssueApproved, BookInv
  <2> QED BY <1>4, <2>1, <2>2, BookIssue DEF Book!IssueApproved
<1>5. ASSUME NEW g \in GrantIds, Book!Seed(g) PROVE BookInv'
  BY <1>5, BookIssue DEF Book!Seed
<1>6. ASSUME NEW g \in GrantIds, Book!Expire(g) \/ Book!Pay(g) \/ Book!Execute(g)
      PROVE  BookInv'
  <2>0. book[g] \in Grant /\ work \in Calls
    BY DEF BookInv, BookTypeOK
  <2>1. book[g].issuer # "none" /\ book[g].perm \in Perms
    BY <1>6, <2>0, BookRows, BlankRows
       DEF Book!Expire, Book!Pay, Book!Execute, BookInv, Calls
  <2>2. book' \in [GrantIds -> Grant]
    <3>1. CASE Book!Pay(g) \/ Book!Execute(g)
      BY <3>1, <2>0 DEF Book!Pay, Book!Execute, BookInv, BookTypeOK, Grant
    <3>2. CASE Book!Expire(g)
      <4>1. \A b \in BOOLEAN : [book[g] EXCEPT !.expired = b] \in Grant
        BY <2>0 DEF Grant
      <4>2. [book[g] EXCEPT !.expired = TRUE] \in Grant
        BY <4>1
      <4> QED BY <3>2, <4>2 DEF Book!Expire, BookInv, BookTypeOK
    <3> QED BY <1>6, <3>1, <3>2
  <2>3. /\ requests' = requests
        /\ \A h \in GrantIds \ {g} : book'[h] = book[h]
        /\ book'[g].issuer = book[g].issuer /\ book'[g].perm = book[g].perm
        /\ book'[g].request = book[g].request
    BY <1>6, <2>0 DEF Book!Expire, Book!Pay, Book!Execute, BookInv, BookTypeOK, Grant
  <2>4. /\ work' \in Calls
        /\ \/ work' = work
           \/ work' = Book!NoCall
           \/ work'.grant = g /\ work'.perm = work.perm /\ work.perm = book[g].perm
    <3>1. CASE Book!Expire(g)
      BY <3>1, <2>0 DEF Book!Expire
    <3>2. CASE Book!Execute(g)
      BY <3>2, BookRows DEF Book!Execute
    <3>3. CASE Book!Pay(g)
      <4>1. \A b \in BOOLEAN :
              LET w == [perm |-> work.perm, grant |-> g, paid |-> b]
              IN  w \in Calls /\ w.grant = g /\ w.perm = work.perm
        BY <2>0 DEF Calls
      <4>2. /\ work' = [perm |-> work.perm, grant |-> g, paid |-> TRUE]
            /\ work.perm = book[g].perm
        BY <3>3 DEF Book!Pay
      <4> QED BY <4>1, <4>2, Zenon
    <3> QED BY <1>6, <3>1, <3>2, <3>3
  <2>5. book'[g].executed + book'[g].calls + Book!InFlight(g)'
          <= book[g].executed + book[g].calls + Book!InFlight(g)
    BY <1>6, <2>0, BookRows DEF Book!Expire, Book!Pay, Book!Execute, BookInv, BookTypeOK,
       Grant, Calls, Book!InFlight
  <2>6. /\ book[g].executed + book[g].calls + Book!InFlight(g) <= Book!Issued(g)
        /\ Book!Issued(g)' = Book!Issued(g) /\ Book!Issued(g) \in Nat
        /\ book[g].executed \in Nat /\ book[g].calls \in Nat
        /\ book'[g].executed \in Nat /\ book'[g].calls \in Nat
        /\ Book!InFlight(g) \in Nat /\ Book!InFlight(g)' \in Nat
    BY <2>0, <2>2, <2>3 DEF BookInv, Book!PaidFor, Book!Issued, Book!InFlight, Grant
  <2>7. book'[g].executed + book'[g].calls + Book!InFlight(g)' <= Book!Issued(g)'
    BY <2>5, <2>6
  <2>8. book'[g].perm \in HumanPerms =>
          /\ book'[g].request \in RequestIds
          /\ requests[book'[g].request] = [perm |-> book'[g].perm, status |-> "approved"]
    BY <2>3 DEF BookInv, Book!HumansAgreed
  <2> QED BY <2>1, <2>2, <2>3, <2>4, <2>7, <2>8, BookRow
<1>7. ASSUME NEW g \in GrantIds, NEW p \in Perms, Book!Choose(p, g) PROVE BookInv'
  <2>1. /\ book[g] \in Grant /\ work = Book!NoCall /\ book' = book /\ requests' = requests
        /\ book[g].perm = p /\ book[g].calls > 0
    BY <1>7 DEF Book!Choose, BookInv, BookTypeOK
  <2>2. book[g].issuer # "none"
    BY <2>1, BookRows, BlankRows DEF BookInv
  <2>3. work' \in Calls /\ work'.grant = g /\ work'.perm = p /\ ~work'.paid
    <3>1. \A b \in BOOLEAN :
            LET w == [perm |-> p, grant |-> g, paid |-> b]
            IN  w \in Calls /\ w.grant = g /\ w.perm = p /\ w.paid = b
      BY DEF Calls
    <3> QED BY <1>7, <3>1, Zenon DEF Book!Choose
  <2>4. Book!InFlight(g)' = 0 /\ Book!InFlight(g) = 0
    BY <2>1, <2>3, BookRows DEF Book!InFlight
  <2>5. book'[g].executed + book'[g].calls + Book!InFlight(g)' <= Book!Issued(g)'
    BY <2>1, <2>4 DEF BookInv, Book!PaidFor, Book!Issued
  <2>6. book'[g].perm \in HumanPerms =>
          /\ book'[g].request \in RequestIds
          /\ requests[book'[g].request] = [perm |-> book'[g].perm, status |-> "approved"]
    BY <2>1 DEF BookInv, Book!HumansAgreed
  <2>7. book' \in [GrantIds -> Grant]
    BY <2>1 DEF BookInv, BookTypeOK
  <2> QED BY <2>1, <2>2, <2>3, <2>5, <2>6, <2>7, BookRow
<1>8. CASE Book!Abandon
  BY <1>8, BookQuiet DEF Book!Abandon
<1>9. CASE Book!RevokeRequests \/ Book!RevokeGrants
  BY <1>9, BookQuiet DEF Book!RevokeRequests, Book!RevokeGrants
<1>10. CASE Book!Restart
  <2>1. Book!Init'
    BY <1>10 DEF Book!Restart, Book!Init
  <2>2. Book!Init' => BookInv'
    BY BookInit, PTL
  <2> QED BY <2>1, <2>2
<1>11. CASE UNCHANGED Book!vars
  BY <1>11, BookQuiet DEF Book!vars
<1> QED
  BY <1>1, <1>2, <1>3, <1>4, <1>5, <1>6, <1>7, <1>8, <1>9, <1>10, <1>11 DEF Book!Next

(* Whoever keeps the ledger keeps these promises.                          *)
THEOREM LedgerPromises ==
  Book!Spec => [](Book!PaidFor /\ Book!HumansAgreed /\ Book!CallsTheirOwn)
<1>1. BookInv => Book!PaidFor /\ Book!HumansAgreed /\ Book!CallsTheirOwn
  BY DEF BookInv
<1> QED BY <1>1, BookInit, BookNext, PTL DEF Book!Spec
=============================================================================
