------------------------- MODULE RequestProvenance -------------------------
(***************************************************************************)
(* Where an access request came from: the columns request_origin,          *)
(* prediction_id, created_before_tool_call and first_tool_call_at of table *)
(* access_requests (platform/dolt_store.py), which a preflight, tool calls *)
(* and approvals write.  The consoles list a request as anticipated by     *)
(* these columns.                                                          *)
(*                                                                         *)
(* Every SELECT here is for one session, tool and resource (and the scope  *)
(* that belongs to them), so one permission is modelled.  Each statement   *)
(* autocommits and is a step; a handler may end after any of them.  Grants *)
(* and the session's status are in AccessGrants: here the policy may       *)
(* escalate or not.                                                        *)
(***************************************************************************)
EXTENDS Naturals, FiniteSets

CONSTANTS Loop,        \* the event-loop thread, which serves tool calls
          Workers,     \* the threads of the REST handlers
          RequestIds,
          None,        \* no request
          MaxSecond    \* bound of the instance: the clock

Threads == {Loop} \cup Workers

ASSUME ProvenanceAssumption == None \notin RequestIds /\ MaxSecond \in Nat

Seconds == 0 .. MaxSecond
Never == MaxSecond + 1   \* the NULL of first_tool_call_at

Request ==
  [ status : {"none", "pending", "approved"},
    origin : {"none", "tool_call_escalation", "preflight_prediction"},
    predicted : BOOLEAN,           \* prediction_id is not NULL
    before : BOOLEAN,              \* created_before_tool_call
    first : Seconds \cup {Never},  \* first_tool_call_at
    created : Seconds ]            \* created_at

NoRequest == [ status |-> "none", origin |-> "none", predicted |-> FALSE,
               before |-> FALSE, first |-> Never, created |-> 0 ]

Idle == [ op |-> "none", request |-> None ]

VARIABLES requests,  \* table access_requests
          second,    \* the database's clock
          pc, loc    \* each thread's next statement and local variables

vars == <<requests, second, pc, loc>>

Init ==
  /\ requests = [r \in RequestIds |-> NoRequest]
  /\ second = 0
  /\ pc = [t \in Threads |-> "idle"]
  /\ loc = [t \in Threads |-> Idle]

-----------------------------------------------------------------------------
Goto(t, label) == pc' = [pc EXCEPT ![t] = label]

Return(t) ==
  /\ Goto(t, "idle")
  /\ loc' = [loc EXCEPT ![t] = Idle]

(* Bound of the instance: a row is left for every handler that may insert. *)
RoomForAnother ==
  Cardinality({r \in RequestIds : requests[r] = NoRequest})
    > Cardinality({t \in Threads : pc[t] # "idle"})

Start(t, op, r, label) ==
  /\ pc[t] = "idle" /\ RoomForAnother
  /\ loc' = [loc EXCEPT ![t] = [op |-> op, request |-> r]]
  /\ Goto(t, label)
  /\ UNCHANGED <<requests, second>>

(* handle_tool_call of a downstream tool, run_authorize alone (REST, or    *)
(* auth.request_scope), and run_preflight's _create_anticipated_requests.  *)
ToolCall == Start(Loop, "call", None, "mark")
Authorize(t) == Start(t, "authorize", None, "decide")
Preflight(t) == Start(t, "preflight", None, "find")

(* approve_access_request: an approved request is left alone.              *)
Approve(t, r) ==
  /\ t \in Workers /\ requests[r].status = "pending"
  /\ Start(t, "approve", r, "approve")

(* mark_access_request_tool_call_seen: the oldest request, of any status,  *)
(* that has seen no call (the ids that break ties are random).             *)
Unseen == {r \in RequestIds : requests[r].status # "none" /\ requests[r].first = Never}

Oldest(ids) == {r \in ids : \A q \in ids : requests[r].created <= requests[q].created}
Newest(ids) == {r \in ids : \A q \in ids : requests[q].created <= requests[r].created}

(* Variant of MarkSelect: the requests are not filtered by whether they    *)
(* have seen a call.                                                       *)
MarkSelectAny(t) ==
  /\ pc[t] = "mark"
  /\ LET rows == {r \in RequestIds : requests[r].status # "none"} IN
       IF rows = {} THEN Goto(t, "decide") /\ UNCHANGED loc
       ELSE \E r \in Oldest(rows) :
              loc' = [loc EXCEPT ![t].request = r] /\ Goto(t, "mark_update")
  /\ UNCHANGED <<requests, second>>

MarkSelect(t) ==
  /\ pc[t] = "mark"
  /\ IF Unseen = {} THEN Goto(t, "decide") /\ UNCHANGED loc
     ELSE \E r \in Oldest(Unseen) :
            loc' = [loc EXCEPT ![t].request = r] /\ Goto(t, "mark_update")
  /\ UNCHANGED <<requests, second>>

MarkUpdate(t) ==
  /\ pc[t] = "mark_update"
  /\ requests' = [requests EXCEPT ![loc[t].request].first = second]
  /\ Goto(t, "decide")
  /\ UNCHANGED <<second, loc>>

(* run_authorize up to its decision.  Only ESCALATE_HUMAN makes a request. *)
Decide(t) ==
  /\ pc[t] = "decide"
  /\ \/ Goto(t, "find") /\ UNCHANGED loc
     \/ Return(t)
  /\ UNCHANGED <<requests, second>>

(* create_access_request: the SELECT of the newest pending request.        *)
FindPending(t) ==
  /\ pc[t] = "find"
  /\ LET pending == {r \in RequestIds : requests[r].status = "pending"} IN
       IF pending = {} THEN Goto(t, "insert") /\ UNCHANGED loc
       ELSE \E r \in Newest(pending) :
              loc' = [loc EXCEPT ![t].request = r] /\ Goto(t, "update")
  /\ UNCHANGED <<requests, second>>

OriginOf(op) ==
  IF op = "preflight" THEN "preflight_prediction" ELSE "tool_call_escalation"

(* Variant of Merged: the latest caller names the origin.                  *)
MergedByLatest(row, op) ==
  [row EXCEPT !.origin = OriginOf(op),
              !.predicted = @ \/ op = "preflight",
              !.before = @ \/ op = "preflight",
              !.first = IF op # "preflight" /\ @ = Never THEN second ELSE @]

(* The SET clause of the UPDATE: CASE, COALESCE, GREATEST and CASE.        *)
Merged(row, op) ==
  [row EXCEPT !.origin = IF @ = "preflight_prediction" THEN @ ELSE OriginOf(op),
              !.predicted = @ \/ op = "preflight",
              !.before = @ \/ op = "preflight",
              !.first = IF op # "preflight" /\ @ = Never THEN second ELSE @]

(* The row found may have been approved since; it is updated all the same. *)
UpdateFound(t) ==
  /\ pc[t] = "update"
  /\ requests' = [requests EXCEPT ![loc[t].request] = Merged(@, loc[t].op)]
  /\ Return(t)
  /\ UNCHANGED second

InsertRequest(t) ==
  /\ pc[t] = "insert"
  /\ \E r \in RequestIds :
       /\ requests[r] = NoRequest
       /\ requests' = [requests EXCEPT ![r] =
            [ status |-> "pending", origin |-> OriginOf(loc[t].op),
              predicted |-> loc[t].op = "preflight",
              before |-> loc[t].op = "preflight",
              first |-> IF loc[t].op = "preflight" THEN Never ELSE second,
              created |-> second ]]
  /\ Return(t)
  /\ UNCHANGED second

MarkApproved(t) ==
  /\ pc[t] = "approve"
  /\ requests' = [requests EXCEPT ![loc[t].request].status = "approved"]
  /\ Return(t)
  /\ UNCHANGED second

(* An exception, or the end of the process, cuts a handler off.            *)
Fail(t) ==
  /\ pc[t] # "idle"
  /\ Return(t)
  /\ UNCHANGED <<requests, second>>

Tick ==
  /\ second < MaxSecond
  /\ second' = second + 1
  /\ UNCHANGED <<requests, pc, loc>>

Handle(t) ==
  \/ MarkSelect(t) \/ MarkUpdate(t) \/ Decide(t) \/ FindPending(t)
  \/ UpdateFound(t) \/ InsertRequest(t) \/ MarkApproved(t) \/ Fail(t)

Next ==
  \/ ToolCall
  \/ \E t \in Threads :
       \/ Authorize(t) \/ Preflight(t) \/ Handle(t)
       \/ \E r \in RequestIds : Approve(t, r)
  \/ Tick

Spec == Init /\ [][Next]_vars
-----------------------------------------------------------------------------
Labels == { "idle", "mark", "mark_update", "decide", "find", "update",
            "insert", "approve" }

(* Rows and the threads' variables are well formed.                        *)
TypeOK ==
  /\ requests \in [RequestIds -> Request]
  /\ second \in Seconds
  /\ pc \in [Threads -> Labels]
  /\ loc \in [Threads -> [ op : {"none", "call", "authorize", "preflight", "approve"},
                           request : RequestIds \cup {None} ]]

(* The three columns that say whether a request was anticipated tell one   *)
(* story, although each is merged by a rule of its own and several         *)
(* handlers may update a row on what they read of it earlier.              *)
ProvenanceIsOneStory ==
  \A r \in RequestIds :
    LET row == requests[r] IN
    /\ row.before <=> row.origin = "preflight_prediction"
    /\ row.before <=> row.predicted
=============================================================================
