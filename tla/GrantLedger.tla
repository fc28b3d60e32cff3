---------------------------- MODULE GrantLedger ----------------------------
(* What access requests and grants promise, whoever handles a request and  *)
(* wherever a handler is cut off: permissions that need a human are asked  *)
(* for and approved before they are granted, a grant keeps its permission  *)
(* and its call count only falls, and a tool is executed for a call that   *)
(* chose a live grant of its own permission and took a call from a grant   *)
(* of that permission.  A payment may be lost, but no execution goes       *)
(* unpaid.  Requests and grants may be revoked under everybody's hands:    *)
(* nothing that starts later uses them, and what is at work is finished.   *)
EXTENDS Naturals

CONSTANTS Perms, HumanPerms, GrantIds, RequestIds, None, SeedPerm,
          HumanCalls, AutoCalls, SeedCalls

VARIABLES requests,  \* what was asked for, and whether a human agreed
          grants,    \* what each is for, its calls left and those executed
          gone,      \* the requests and grants that have been revoked
          call       \* the tool call at work, of which there is one at most

vars == <<requests, grants, gone, call>>

NoRequest == [ perm |-> None, status |-> "none" ]
Granted(p, issuer, r, calls) ==
  [ perm |-> p, issuer |-> issuer, request |-> r, calls |-> calls, executed |-> 0,
    expired |-> FALSE ]
NoGrant == Granted(None, "none", None, 0)
NoCall == [ perm |-> None, grant |-> None, paid |-> FALSE ]

SeededWith(g) ==
  [h \in GrantIds |-> IF h = g THEN Granted(SeedPerm, "seed", None, SeedCalls) ELSE NoGrant]

Init ==
  /\ requests = [r \in RequestIds |-> NoRequest]
  /\ \E g \in GrantIds : grants = SeededWith(g)
  /\ gone = {}
  /\ call = NoCall

Ask(r, p) ==
  /\ p \in HumanPerms /\ requests[r] = NoRequest
  /\ requests' = [requests EXCEPT ![r] = [perm |-> p, status |-> "pending"]]
  /\ UNCHANGED <<grants, gone, call>>

(* The request may have been revoked since the human saw it.               *)
Approve(r) ==
  /\ requests[r].status = "pending"
  /\ requests' = [requests EXCEPT ![r].status = "approved"]
  /\ UNCHANGED <<grants, gone, call>>

Issue(g, p, issuer, r, calls) ==
  /\ grants[g] = NoGrant
  /\ grants' = [grants EXCEPT ![g] = Granted(p, issuer, r, calls)]
  /\ UNCHANGED <<requests, gone, call>>

IssueFreely(g, p) ==
  p \notin HumanPerms /\ Issue(g, p, "policy:auto_approve", None, AutoCalls)

IssueApproved(g, r) ==
  /\ requests[r].status = "approved"
  /\ Issue(g, requests[r].perm, "human", r, HumanCalls)

Seed(g) == Issue(g, SeedPerm, "seed", None, SeedCalls)

RevokeRequests ==
  /\ gone' = gone \cup {r \in RequestIds : requests[r] # NoRequest}
  /\ UNCHANGED <<requests, grants, call>>

RevokeGrants ==
  /\ gone' = gone \cup {g \in GrantIds : grants[g] # NoGrant}
  /\ UNCHANGED <<requests, grants, call>>

Expire(g) ==
  /\ grants[g] # NoGrant
  /\ grants' = [grants EXCEPT ![g].expired = TRUE]
  /\ UNCHANGED <<requests, gone, call>>

Choose(p, g) ==
  /\ call = NoCall
  /\ grants[g].perm = p /\ grants[g].calls > 0 /\ ~grants[g].expired /\ g \notin gone
  /\ call' = [perm |-> p, grant |-> g, paid |-> FALSE]
  /\ UNCHANGED <<requests, grants, gone>>

(* The grant chosen may have expired or been revoked since; a grant of the *)
(* same permission may have taken its place.                               *)
Pay(g) ==
  /\ call # NoCall /\ ~call.paid
  /\ grants[g].perm = call.perm /\ grants[g].calls > 0
  /\ grants' = [grants EXCEPT ![g].calls = @ - 1]
  /\ call' = [perm |-> call.perm, grant |-> g, paid |-> TRUE]
  /\ UNCHANGED <<requests, gone>>

Execute(g) ==
  /\ call.grant = g /\ call.paid
  /\ grants' = [grants EXCEPT ![g].executed = @ + 1]
  /\ call' = NoCall
  /\ UNCHANGED <<requests, gone>>

Abandon ==
  /\ call' = NoCall
  /\ UNCHANGED <<gone, requests, grants>>

(* All is forgotten and begins anew.                                       *)
Restart ==
  /\ gone' = {} /\ call' = NoCall
  /\ requests' = [r \in RequestIds |-> NoRequest]
  /\ \E g \in GrantIds : grants' = SeededWith(g)

Next ==
  \/ Abandon \/ Restart \/ RevokeRequests \/ RevokeGrants
  \/ \E r \in RequestIds : Approve(r) \/ \E p \in Perms : Ask(r, p)
  \/ \E g \in GrantIds :
       \/ \E p \in Perms : IssueFreely(g, p) \/ Choose(p, g)
       \/ \E r \in RequestIds : IssueApproved(g, r)
       \/ Seed(g) \/ Expire(g) \/ Pay(g) \/ Execute(g)

Spec == Init /\ [][Next]_vars
-----------------------------------------------------------------------------
(* What follows from these steps alone.                                    *)
InFlight(g) == IF call.grant = g /\ call.paid THEN 1 ELSE 0

Issued(g) ==
  CASE grants[g].issuer = "human" -> HumanCalls
    [] grants[g].issuer = "policy:auto_approve" -> AutoCalls
    [] grants[g].issuer = "seed" -> SeedCalls
    [] OTHER -> 0

(* The calls left, executed and paid for never exceed what was issued.     *)
PaidFor ==
  \A g \in GrantIds : grants[g].executed + grants[g].calls + InFlight(g) <= Issued(g)

(* A grant that needed a human belongs to an approved request for it.      *)
HumansAgreed ==
  \A g \in GrantIds : grants[g].perm \in HumanPerms =>
    /\ grants[g].request \in RequestIds
    /\ requests[grants[g].request] = [perm |-> grants[g].perm, status |-> "approved"]

(* A call is at work on a grant of its own permission.                     *)
CallsTheirOwn ==
  call.grant # None => call.grant \in GrantIds /\ grants[call.grant].perm = call.perm
=============================================================================
