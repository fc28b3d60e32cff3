---------------------------- MODULE MCDelegation ----------------------------
(* Instances of Delegation, with a record of which handlers a reseed has   *)
(* interfered with; the REST threads are interchangeable.                  *)
EXTENDS Delegation, TLC

VARIABLES overlapped,  \* the threads at work since or while a reseed ran
          crossed      \* a reseed ran beside a handler that writes

MCInit ==
  /\ Init
  /\ overlapped = {}
  /\ crossed = FALSE

MCNext ==
  /\ Next
  /\ overlapped' = {t \in Threads :
       /\ pc'[t] # "idle"
       /\ \/ t \in overlapped
          \/ \E u \in Threads \ {t} : pc'[u] # "idle" /\ loc'[u].op = "reseed"}
  /\ crossed' = (crossed \/ \E t \in overlapped' : loc'[t].op \in {"create", "mint", "reseed"})

MCSpec == MCInit /\ [][MCNext]_<<vars, overlapped, crossed>>

Symmetry == Permutations(Workers)
-----------------------------------------------------------------------------
(* A gateway call that no reseed has interfered with acts for the user of  *)
(* its claims, on a delegated session, and a preflight or an authorization *)
(* also for the agent of its claims, whatever tokens of earlier sessions   *)
(* of the same name are still good.  The three are compared on different   *)
(* reads, against different values.                                        *)
ServedClaimsFitSession ==
  \A t \in Threads \ overlapped : pc[t] = "serve" =>
    LET row == sessions[loc[t].session] IN
    /\ row # NoRow /\ delegations[loc[t].session] # NoRow
    /\ row.user = loc[t].token.user
    /\ loc[t].op = "run" => row.agent = loc[t].token.agent

(* A session and its delegation name one user and one agent, although they *)
(* are written one after the other by handlers that race for one name and  *)
(* may be cut off, unless a reseed has run beside one of them.  Delegated  *)
(* asks only whether there is a delegation, so this is what makes it one   *)
(* of the session's user to the session's agent.                           *)
DelegationFitsSession ==
  crossed \/ \A s \in SessionIds :
    sessions[s] # NoRow /\ delegations[s] # NoRow => delegations[s] = sessions[s]

(* Likewise a token is issued only for what a delegation on record says,   *)
(* also where creating the session has failed half way before.             *)
TokensAreDelegated ==
  [][\A c \in tokens' \ tokens :
       crossed' \/ delegations[c.session] = [user |-> c.user, agent |-> c.agent]]_vars
=============================================================================
