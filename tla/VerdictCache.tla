---------------------------- MODULE VerdictCache ----------------------------
(* What an idempotent authorization service promises: a verdict per key    *)
(* that is decided at most once, and replies that repeat it.  A verdict is *)
(* never taken back, however much later and on whatever facts the same key *)
(* is asked about again.                                                   *)
CONSTANTS Clients, Keys, Verdicts,
          Undecided,  \* no verdict yet
          Silence     \* no reply yet

VARIABLES verdict,  \* the verdict of each key
          reply     \* the last reply to each client, a key and a verdict

vars == <<verdict, reply>>

Init ==
  /\ verdict = [k \in Keys |-> Undecided]
  /\ reply = [c \in Clients |-> Silence]

Decide(k, v) ==
  /\ verdict[k] = Undecided
  /\ verdict' = [verdict EXCEPT ![k] = v]
  /\ UNCHANGED reply

Reply(c, k) ==
  /\ verdict[k] # Undecided
  /\ reply' = [reply EXCEPT ![c] = [key |-> k, decision |-> verdict[k]]]
  /\ UNCHANGED verdict

Ask(c) ==
  /\ reply' = [reply EXCEPT ![c] = Silence]
  /\ UNCHANGED verdict

Next ==
  \/ \E k \in Keys, v \in Verdicts : Decide(k, v)
  \/ \E c \in Clients : Ask(c) \/ \E k \in Keys : Reply(c, k)

Spec == Init /\ [][Next]_vars
=============================================================================
