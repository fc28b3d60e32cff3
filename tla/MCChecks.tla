------------------------------ MODULE MCChecks ------------------------------
(* Instances of AuthorizationChecks, with a record of whether two threads  *)
(* have ever been at work at once, and what holds until they are.          *)
EXTENDS AuthorizationChecks, TLC

VARIABLE raced

MCInit == Init /\ raced = FALSE

MCNext ==
  /\ Next
  /\ raced' = (raced \/ \E t, u \in Threads :
                          t # u /\ pc'[t] # "idle" /\ pc'[u] # "idle")

MCSpec == MCInit /\ [][MCNext]_<<vars, raced>>

Symmetry == Permutations(Threads) \cup Permutations(Keys) \cup Permutations(CheckIds)
-----------------------------------------------------------------------------
(* Served one request at a time, the gateway acts on a decision and a      *)
(* check that agree.                                                       *)
AnswerMatchesCheckAlone == raced \/ AnswerMatchesCheck

(* One request at a time, a terminal check is final.                       *)
TerminalIsFinalAlone ==
  [][raced' \/ \A i \in CheckIds :
       checks[i].state \in TERMINAL_STATES => checks'[i] = checks[i]]_vars

(* One request at a time, the service is a write-once cache of verdicts,   *)
(* for several clients.  A key's verdict is the decision recorded for the  *)
(* check its index entry names.                                            *)
Cache == INSTANCE VerdictCache WITH
  Clients <- Threads, Verdicts <- Outcomes,
  Undecided <- "none", Silence <- NoDecision,
  verdict <- [k \in Keys |->
                IF index[k] = NoId THEN "none" ELSE decisions[index[k]].decision],
  reply <- [t \in Threads |-> IF Answered(t) THEN loc[t].answer ELSE NoDecision]

CacheSpecAlone == Cache!Init /\ [][raced' \/ Cache!Next]_(Cache!vars)

(* RFC-03: repeated requests with the same idempotency key return the same *)
(* check record.  They do one request at a time, also when the first was   *)
(* cut short by an exception or the check has expired or been cancelled.   *)
OneCheckPerKeyAlone == raced \/ SameKeySameCheck
=============================================================================
