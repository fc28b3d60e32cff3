---------------------------- MODULE MCProvenance ----------------------------
(* Instances of RequestProvenance, with a record of whether two handlers   *)
(* have ever been at work at once.                                         *)
EXTENDS RequestProvenance, TLC

VARIABLE raced

MCInit == Init /\ raced = FALSE

MCNext ==
  /\ Next
  /\ raced' = (raced \/ \E t, u \in Threads :
                          t # u /\ pc'[t] # "idle" /\ pc'[u] # "idle")

MCSpec == MCInit /\ [][MCNext]_<<vars, raced>>

Symmetry == Permutations(RequestIds)
-----------------------------------------------------------------------------
(* As long as handlers are served to their end one after the other, the    *)
(* time of a request's first tool call is written once, by whichever of    *)
(* mark_access_request_tool_call_seen and create_access_request sees the   *)
(* call first.  (Two at once may each find none and write one after the    *)
(* other.)                                                                 *)
FirstCallIsKeptAlone ==
  [][raced' \/ \A r \in RequestIds :
       requests[r].first # Never => requests'[r].first = requests[r].first]_vars
=============================================================================
