----------------------- MODULE CredentialLeaseProofs -----------------------
(* Proofs about credential leases for any calls, permissions, bindings and *)
(* injection modes.  The inductive invariant follows the running call from *)
(* statement to statement: which rows its lease has by then, how often its *)
(* secret was injected, and that a reseed under way has been noted.        *)
EXTENDS CredentialLease, TLAPS

Unleased  == {"consume", "bind", "mint", "save"}
Minting   == {"mint", "save", "attach", "authorize", "resolve", "signin",
              "retry", "operation", "mark"}
Uninjected == {"consume", "bind", "mint", "save", "attach", "authorize",
               "resolve", "signin", "retry"}
Injecting == {"resolve", "signin", "retry"}
Recording == {"operation", "mark"}

(* One call runs at a time; calls to come have left nothing behind.        *)
OneCall ==
  /\ pc = "idle" <=> call = None
  /\ call # None => outcome[call] = "running"
  /\ \A c \in Calls : outcome[c] = "running" => c = call
  /\ \A c \in Calls : outcome[c] = "none" => leases[c] = NoLease /\ injected[c] = 0

(* The seeding worker: rows it has not come to yet, and whom it overlaps.  *)
SeedingIsSeen ==
  /\ seeding \in {"idle", "leases", "bindings"} => bindings = BoundPerms
  /\ seeding # "idle" /\ call # None => call \in overlapped
  /\ \A i \in issues : outcome[i.call] = "executed"
  /\ seeding # "idle" => \A i \in issues : i.call \in overlapped

(* What the running call has done by now, reseeds or not.                  *)
Progress ==
  /\ pc \in Unleased => leases[call] = NoLease
  /\ pc \in Uninjected => injected[call] = 0
  /\ pc \in Minting => perms[call] \in BoundPerms /\ leases[call].status # "used"
  /\ pc \in Injecting \cup Recording => loc.uses = 0
  /\ pc \in Recording => injected[call] = 1
  /\ pc = "mark" => leases[call] = NoLease \/ leases[call].operation = "resolved"
  /\ pc # "execute" => ~loc.leased
  /\ loc.leased => perms[call] \in BoundPerms

(* And what it can count on if no reseed has overlapped it.                *)
Undisturbed ==
  call # None /\ call \notin overlapped =>
    /\ pc \in Unleased \cup {"attach"} => decisions[call] = "bare"
    /\ pc \in Minting \ Unleased => leases[call].status = "minted"
    /\ pc \in Minting \ (Unleased \cup {"attach"}) => decisions[call] = "leased"
    /\ pc = "execute" =>
         /\ loc.leased <=> perms[call] \in BoundPerms
         /\ loc.leased => leases[call].status = "used" /\ decisions[call] = "leased"

IInv ==
  /\ TypeOK
  /\ OneCall
  /\ SeedingIsSeen
  /\ Progress
  /\ Undisturbed
  /\ UsedMeansInjected
  /\ IssueLeadsToLease

USE DEF MaxUses

Locals == [uses : 0..MaxUses, leased : BOOLEAN]

(* The values the statements give to the local variables.                  *)
LEMMA LocalsOK ==
  /\ Idle \in Locals
  /\ [uses |-> MaxUses, leased |-> FALSE] \in Locals
  /\ \A l \in Locals : l.uses > 0 => [l EXCEPT !.uses = @ - 1] \in Locals
  /\ \A l \in Locals : [l EXCEPT !.leased = TRUE] \in Locals
<1>1. Idle \in Locals /\ [uses |-> MaxUses, leased |-> FALSE] \in Locals
  BY DEF Locals, Idle
<1>2. ASSUME NEW l \in Locals, l.uses > 0
      PROVE  [l EXCEPT !.uses = @ - 1] \in Locals
  <2>1. l.uses - 1 \in 0..MaxUses
    BY <1>2 DEF Locals
  <2> QED BY <2>1 DEF Locals
<1>3. ASSUME NEW l \in Locals PROVE [l EXCEPT !.leased = TRUE] \in Locals
  BY DEF Locals
<1> QED BY <1>1, <1>2, <1>3

LEMMA MarkedIsLease ==
  ASSUME NEW row \in Lease, NEW n \in 0..MaxUses
  PROVE  [row EXCEPT !.status = "used", !.uses = n] \in Lease
BY DEF Lease

(* Any rows, calls and labels: what the definitions above stand for.       *)
LEMMA InitOK == Init => IInv
BY LeaseAssumption
   DEF Init, IInv, TypeOK, OneCall, SeedingIsSeen, Progress, Undisturbed,
     UsedMeansInjected, IssueLeadsToLease,
       Lease, NoLease, Idle, MaxUses, Labels, Unleased, Minting, Uninjected, Injecting, Recording

LEMMA DecideOK == ASSUME IInv, NEW c \in Calls, NEW p \in Perms, Decide(c, p) PROVE IInv'
<1> USE LeaseAssumption
    DEF Decide, tables, Unleased, Minting, Uninjected, Injecting, Recording,
        IInv
<1>1. TypeOK'
  BY DEF TypeOK, Lease, NoLease, Labels, OneCall, Idle
<1>2. OneCall'
  BY DEF TypeOK, OneCall
<1>3. SeedingIsSeen'
  BY DEF TypeOK, OneCall, SeedingIsSeen
<1>4. Progress'
  BY DEF TypeOK, OneCall, Progress, SeedingIsSeen, NoLease, Lease, Idle
<1>5. Undisturbed'
  BY DEF TypeOK, OneCall, Progress, SeedingIsSeen, Undisturbed, NoLease, Lease,
         Idle
<1>6. UsedMeansInjected'
  BY DEF TypeOK, OneCall, Progress, UsedMeansInjected, NoLease, Lease
<1>7. IssueLeadsToLease'
  BY DEF TypeOK, OneCall, Progress, Undisturbed, SeedingIsSeen, IssueLeadsToLease,
         NoLease, Lease
<1> QED BY <1>1, <1>2, <1>3, <1>4, <1>5, <1>6, <1>7

LEMMA ConsumeOK == ASSUME IInv, Consume PROVE IInv'
<1> USE LeaseAssumption
    DEF Consume, Return, Goto, Loop, tables, Unleased, Minting, Uninjected, Injecting, Recording,
        IInv
<1>1. TypeOK'
  <2>1. loc' \in Locals
    <3>1. loc \in Locals
      BY DEF TypeOK, Locals
    <3> QED BY <3>1, LocalsOK DEF TypeOK
  <2>2. leases' \in [Calls -> Lease] /\ injected' \in [Calls -> Nat]
    BY DEF TypeOK, OneCall, Lease, NoLease
  <2>3. outcome' \in [Calls -> {"none", "running", "blocked", "executed", "failed"}]
    BY DEF TypeOK
  <2> QED BY <2>1, <2>2, <2>3 DEF TypeOK, Labels, OneCall, Locals
<1>2. OneCall'
  BY DEF TypeOK, OneCall
<1>3. SeedingIsSeen'
  BY DEF TypeOK, OneCall, SeedingIsSeen
<1>4. Progress'
  BY DEF TypeOK, OneCall, Progress, SeedingIsSeen, NoLease, Lease, Idle
<1>5. Undisturbed'
  BY DEF TypeOK, OneCall, Progress, SeedingIsSeen, Undisturbed, NoLease, Lease,
         Idle
<1>6. UsedMeansInjected'
  BY DEF TypeOK, OneCall, Progress, UsedMeansInjected, NoLease, Lease
<1>7. IssueLeadsToLease'
  BY DEF TypeOK, OneCall, Progress, Undisturbed, SeedingIsSeen, IssueLeadsToLease,
         NoLease, Lease
<1> QED BY <1>1, <1>2, <1>3, <1>4, <1>5, <1>6, <1>7

LEMMA FindBindingOK == ASSUME IInv, FindBinding PROVE IInv'
BY LeaseAssumption
   DEF FindBinding, Goto, Loop, tables, IInv, TypeOK, OneCall, SeedingIsSeen, Progress, Undisturbed,
       UsedMeansInjected, IssueLeadsToLease, Lease, NoLease, Labels,
       Unleased, Minting, Uninjected, Injecting, Recording

LEMMA MintOK == ASSUME IInv, Mint PROVE IInv'
<1> USE LeaseAssumption
    DEF Mint, Return, Goto, Loop, tables, Unleased, Minting, Uninjected, Injecting, Recording,
        IInv
<1>1. TypeOK'
  <2>1. loc' \in Locals
    <3>1. loc \in Locals
      BY DEF TypeOK, Locals
    <3> QED BY <3>1, LocalsOK DEF TypeOK
  <2>2. leases' \in [Calls -> Lease] /\ injected' \in [Calls -> Nat]
    BY DEF TypeOK, OneCall, Lease, NoLease
  <2>3. outcome' \in [Calls -> {"none", "running", "blocked", "executed", "failed"}]
    BY DEF TypeOK
  <2> QED BY <2>1, <2>2, <2>3 DEF TypeOK, Labels, OneCall, Locals
<1>2. OneCall'
  BY DEF TypeOK, OneCall
<1>3. SeedingIsSeen'
  BY DEF TypeOK, OneCall, SeedingIsSeen
<1>4. Progress'
  BY DEF TypeOK, OneCall, Progress, SeedingIsSeen, NoLease, Lease, Idle
<1>5. Undisturbed'
  BY DEF TypeOK, OneCall, Progress, SeedingIsSeen, Undisturbed, NoLease, Lease,
         Idle
<1>6. UsedMeansInjected'
  BY DEF TypeOK, OneCall, Progress, UsedMeansInjected, NoLease, Lease
<1>7. IssueLeadsToLease'
  BY DEF TypeOK, OneCall, Progress, Undisturbed, SeedingIsSeen, IssueLeadsToLease,
         NoLease, Lease
<1> QED BY <1>1, <1>2, <1>3, <1>4, <1>5, <1>6, <1>7

LEMMA SaveOK == ASSUME IInv, Save PROVE IInv'
<1> USE LeaseAssumption
    DEF Save, Minted, Goto, Loop, tables, Unleased, Minting, Uninjected, Injecting, Recording,
        IInv
<1>1. TypeOK'
  BY DEF TypeOK, Lease, NoLease, Labels, OneCall, Idle
<1>2. OneCall'
  BY DEF TypeOK, OneCall
<1>3. SeedingIsSeen'
  BY DEF TypeOK, OneCall, SeedingIsSeen
<1>4. Progress'
  BY DEF TypeOK, OneCall, Progress, SeedingIsSeen, NoLease, Lease, Idle
<1>5. Undisturbed'
  BY DEF TypeOK, OneCall, Progress, SeedingIsSeen, Undisturbed, NoLease, Lease,
         Idle
<1>6. UsedMeansInjected'
  BY DEF TypeOK, OneCall, Progress, UsedMeansInjected, NoLease, Lease
<1>7. IssueLeadsToLease'
  BY DEF TypeOK, OneCall, Progress, Undisturbed, SeedingIsSeen, IssueLeadsToLease,
         NoLease, Lease
<1> QED BY <1>1, <1>2, <1>3, <1>4, <1>5, <1>6, <1>7

LEMMA AttachOK == ASSUME IInv, Attach PROVE IInv'
<1> USE LeaseAssumption
    DEF Attach, Goto, Loop, tables, Unleased, Minting, Uninjected, Injecting, Recording,
        IInv
<1>1. TypeOK'
  BY DEF TypeOK, Lease, NoLease, Labels, OneCall, Idle
<1>2. OneCall'
  BY DEF TypeOK, OneCall
<1>3. SeedingIsSeen'
  BY DEF TypeOK, OneCall, SeedingIsSeen
<1>4. Progress'
  BY DEF TypeOK, OneCall, Progress, SeedingIsSeen, NoLease, Lease, Idle
<1>5. Undisturbed'
  BY DEF TypeOK, OneCall, Progress, SeedingIsSeen, Undisturbed, NoLease, Lease,
         Idle
<1>6. UsedMeansInjected'
  BY DEF TypeOK, OneCall, Progress, UsedMeansInjected, NoLease, Lease
<1>7. IssueLeadsToLease'
  BY DEF TypeOK, OneCall, Progress, Undisturbed, SeedingIsSeen, IssueLeadsToLease,
         NoLease, Lease
<1> QED BY <1>1, <1>2, <1>3, <1>4, <1>5, <1>6, <1>7

LEMMA AuthorizeUseOK == ASSUME IInv, AuthorizeUse PROVE IInv'
<1> USE LeaseAssumption
    DEF AuthorizeUse, Return, Goto, Loop, tables, Unleased, Minting, Uninjected, Injecting, Recording,
        IInv
<1>1. TypeOK'
  <2>1. loc' \in Locals
    <3>1. loc \in Locals
      BY DEF TypeOK, Locals
    <3>2. loc' = Idle \/ (loc.uses > 0 /\ loc' = [loc EXCEPT !.uses = @ - 1])
      OBVIOUS
    <3> HIDE DEF MaxUses
    <3> QED BY ONLY <3>1, <3>2, LocalsOK
  <2>2. leases' \in [Calls -> Lease] /\ injected' \in [Calls -> Nat]
    BY DEF TypeOK, OneCall, Lease, NoLease
  <2>3. outcome' \in [Calls -> {"none", "running", "blocked", "executed", "failed"}]
    BY DEF TypeOK
  <2> QED BY <2>1, <2>2, <2>3 DEF TypeOK, Labels, OneCall, Locals
<1>2. OneCall'
  BY DEF TypeOK, OneCall
<1>3. SeedingIsSeen'
  BY DEF TypeOK, OneCall, SeedingIsSeen
<1>4. Progress'
  BY DEF TypeOK, OneCall, Progress, SeedingIsSeen, NoLease, Lease, Idle
<1>5. Undisturbed'
  BY DEF TypeOK, OneCall, Progress, SeedingIsSeen, Undisturbed, NoLease, Lease,
         Idle
<1>6. UsedMeansInjected'
  BY DEF TypeOK, OneCall, Progress, UsedMeansInjected, NoLease, Lease
<1>7. IssueLeadsToLease'
  BY DEF TypeOK, OneCall, Progress, Undisturbed, SeedingIsSeen, IssueLeadsToLease,
         NoLease, Lease
<1> QED BY <1>1, <1>2, <1>3, <1>4, <1>5, <1>6, <1>7

LEMMA ResolveOK == ASSUME IInv, Resolve PROVE IInv'
<1> USE LeaseAssumption
    DEF Resolve, Attempt, Return, Goto, Loop, tables, Unleased, Minting, Uninjected, Injecting, Recording,
        IInv
<1>1. TypeOK'
  <2>1. loc' \in Locals
    <3>1. loc \in Locals
      BY DEF TypeOK, Locals
    <3> QED BY <3>1, LocalsOK DEF TypeOK
  <2>2. leases' \in [Calls -> Lease] /\ injected' \in [Calls -> Nat]
    BY DEF TypeOK, OneCall, Lease, NoLease
  <2>3. outcome' \in [Calls -> {"none", "running", "blocked", "executed", "failed"}]
    BY DEF TypeOK
  <2> QED BY <2>1, <2>2, <2>3 DEF TypeOK, Labels, OneCall, Locals
<1>2. OneCall'
  BY DEF TypeOK, OneCall
<1>3. SeedingIsSeen'
  BY DEF TypeOK, OneCall, SeedingIsSeen
<1>4. Progress'
  BY DEF TypeOK, OneCall, Progress, SeedingIsSeen, NoLease, Lease, Idle
<1>5. Undisturbed'
  BY DEF TypeOK, OneCall, Progress, SeedingIsSeen, Undisturbed, NoLease, Lease,
         Idle
<1>6. UsedMeansInjected'
  BY DEF TypeOK, OneCall, Progress, UsedMeansInjected, NoLease, Lease
<1>7. IssueLeadsToLease'
  BY DEF TypeOK, OneCall, Progress, Undisturbed, SeedingIsSeen, IssueLeadsToLease,
         NoLease, Lease
<1> QED BY <1>1, <1>2, <1>3, <1>4, <1>5, <1>6, <1>7

LEMMA SignInOK == ASSUME IInv, SignIn PROVE IInv'
<1> USE LeaseAssumption
    DEF SignIn, Return, Goto, Loop, tables, Unleased, Minting, Uninjected, Injecting, Recording,
        IInv
<1>1. TypeOK'
  <2>1. loc' \in Locals
    <3>1. loc \in Locals
      BY DEF TypeOK, Locals
    <3> QED BY <3>1, LocalsOK DEF TypeOK
  <2>2. leases' \in [Calls -> Lease] /\ injected' \in [Calls -> Nat]
    BY DEF TypeOK, OneCall, Lease, NoLease
  <2>3. outcome' \in [Calls -> {"none", "running", "blocked", "executed", "failed"}]
    BY DEF TypeOK
  <2> QED BY <2>1, <2>2, <2>3 DEF TypeOK, Labels, OneCall, Locals
<1>2. OneCall'
  BY DEF TypeOK, OneCall
<1>3. SeedingIsSeen'
  BY DEF TypeOK, OneCall, SeedingIsSeen
<1>4. Progress'
  BY DEF TypeOK, OneCall, Progress, SeedingIsSeen, NoLease, Lease, Idle
<1>5. Undisturbed'
  BY DEF TypeOK, OneCall, Progress, SeedingIsSeen, Undisturbed, NoLease, Lease,
         Idle
<1>6. UsedMeansInjected'
  BY DEF TypeOK, OneCall, Progress, UsedMeansInjected, NoLease, Lease
<1>7. IssueLeadsToLease'
  BY DEF TypeOK, OneCall, Progress, Undisturbed, SeedingIsSeen, IssueLeadsToLease,
         NoLease, Lease
<1> QED BY <1>1, <1>2, <1>3, <1>4, <1>5, <1>6, <1>7

LEMMA RetryOK == ASSUME IInv, Retry PROVE IInv'
<1> USE LeaseAssumption
    DEF Retry, Attempt, Return, Goto, Loop, tables, Unleased, Minting, Uninjected, Injecting, Recording,
        IInv
<1>1. TypeOK'
  <2>1. loc' \in Locals
    <3>1. loc \in Locals
      BY DEF TypeOK, Locals
    <3> QED BY <3>1, LocalsOK DEF TypeOK
  <2>2. leases' \in [Calls -> Lease] /\ injected' \in [Calls -> Nat]
    BY DEF TypeOK, OneCall, Lease, NoLease
  <2>3. outcome' \in [Calls -> {"none", "running", "blocked", "executed", "failed"}]
    BY DEF TypeOK
  <2> QED BY <2>1, <2>2, <2>3 DEF TypeOK, Labels, OneCall, Locals
<1>2. OneCall'
  BY DEF TypeOK, OneCall
<1>3. SeedingIsSeen'
  BY DEF TypeOK, OneCall, SeedingIsSeen
<1>4. Progress'
  BY DEF TypeOK, OneCall, Progress, SeedingIsSeen, NoLease, Lease, Idle
<1>5. Undisturbed'
  BY DEF TypeOK, OneCall, Progress, SeedingIsSeen, Undisturbed, NoLease, Lease,
         Idle
<1>6. UsedMeansInjected'
  BY DEF TypeOK, OneCall, Progress, UsedMeansInjected, NoLease, Lease
<1>7. IssueLeadsToLease'
  BY DEF TypeOK, OneCall, Progress, Undisturbed, SeedingIsSeen, IssueLeadsToLease,
         NoLease, Lease
<1> QED BY <1>1, <1>2, <1>3, <1>4, <1>5, <1>6, <1>7

LEMMA RecordOperationOK == ASSUME IInv, RecordOperation PROVE IInv'
<1> USE LeaseAssumption
    DEF RecordOperation, UpdateLease, Goto, Loop, tables, Unleased, Minting, Uninjected, Injecting, Recording,
        IInv
<1>1. TypeOK'
  BY DEF TypeOK, Lease, NoLease, Labels, OneCall, Idle
<1>2. OneCall'
  BY DEF TypeOK, OneCall
<1>3. SeedingIsSeen'
  BY DEF TypeOK, OneCall, SeedingIsSeen
<1>4. Progress'
  BY DEF TypeOK, OneCall, Progress, SeedingIsSeen, NoLease, Lease, Idle
<1>5. Undisturbed'
  BY DEF TypeOK, OneCall, Progress, SeedingIsSeen, Undisturbed, NoLease, Lease,
         Idle
<1>6. UsedMeansInjected'
  BY DEF TypeOK, OneCall, Progress, UsedMeansInjected, NoLease, Lease
<1>7. IssueLeadsToLease'
  BY DEF TypeOK, OneCall, Progress, Undisturbed, SeedingIsSeen, IssueLeadsToLease,
         NoLease, Lease
<1> QED BY <1>1, <1>2, <1>3, <1>4, <1>5, <1>6, <1>7

LEMMA MarkUsedOK == ASSUME IInv, MarkUsed PROVE IInv'
<1> USE LeaseAssumption
    DEF MarkUsed, UpdateLease, Goto, Loop, tables, Unleased, Minting, Uninjected, Injecting, Recording,
        IInv
<1>1. TypeOK'
  <2>1. loc' \in Locals
    <3>1. loc \in Locals
      BY DEF TypeOK, Locals
    <3> QED BY <3>1, LocalsOK DEF TypeOK
  <2>2. leases' \in [Calls -> Lease] /\ injected' \in [Calls -> Nat]
    <3>1. [leases[call] EXCEPT !.status = "used", !.uses = loc.uses] \in Lease
      <4>1. leases[call] \in Lease /\ loc.uses \in 0..MaxUses
        BY DEF TypeOK, OneCall
      <4> QED BY <4>1, MarkedIsLease
    <3> QED BY <3>1 DEF TypeOK
  <2>3. outcome' \in [Calls -> {"none", "running", "blocked", "executed", "failed"}]
    BY DEF TypeOK
  <2> QED BY <2>1, <2>2, <2>3 DEF TypeOK, Labels, OneCall, Locals
<1>2. OneCall'
  BY DEF TypeOK, OneCall
<1>3. SeedingIsSeen'
  BY DEF TypeOK, OneCall, SeedingIsSeen
<1>4. Progress'
  BY DEF TypeOK, OneCall, Progress, SeedingIsSeen, NoLease, Lease, Idle
<1>5. Undisturbed'
  BY DEF TypeOK, OneCall, Progress, SeedingIsSeen, Undisturbed, NoLease, Lease,
         Idle
<1>6. UsedMeansInjected'
  BY DEF TypeOK, OneCall, Progress, UsedMeansInjected, NoLease, Lease
<1>7. IssueLeadsToLease'
  BY DEF TypeOK, OneCall, Progress, Undisturbed, SeedingIsSeen, IssueLeadsToLease,
         NoLease, Lease
<1> QED BY <1>1, <1>2, <1>3, <1>4, <1>5, <1>6, <1>7

LEMMA ExecuteOK == ASSUME IInv, Execute PROVE IInv'
<1> USE LeaseAssumption
    DEF Execute, Return, Goto, Loop, tables, Unleased, Minting, Uninjected, Injecting, Recording,
        IInv
<1>1. TypeOK'
  BY DEF TypeOK, Lease, NoLease, Labels, OneCall, Idle
<1>2. OneCall'
  BY DEF TypeOK, OneCall
<1>3. SeedingIsSeen'
  BY DEF TypeOK, OneCall, SeedingIsSeen
<1>4. Progress'
  BY DEF TypeOK, OneCall, Progress, SeedingIsSeen, NoLease, Lease, Idle
<1>5. Undisturbed'
  BY DEF TypeOK, OneCall, Progress, SeedingIsSeen, Undisturbed, NoLease, Lease,
         Idle
<1>6. UsedMeansInjected'
  BY DEF TypeOK, OneCall, Progress, UsedMeansInjected, NoLease, Lease
<1>7. IssueLeadsToLease'
  BY DEF TypeOK, OneCall, Progress, Undisturbed, SeedingIsSeen, IssueLeadsToLease,
         NoLease, Lease
<1> QED BY <1>1, <1>2, <1>3, <1>4, <1>5, <1>6, <1>7

LEMMA FailOK == ASSUME IInv, Fail PROVE IInv'
<1> USE LeaseAssumption
    DEF Fail, Return, Goto, Loop, tables, Unleased, Minting, Uninjected, Injecting, Recording,
        IInv
<1>1. TypeOK'
  BY DEF TypeOK, Lease, NoLease, Labels, OneCall, Idle
<1>2. OneCall'
  BY DEF TypeOK, OneCall
<1>3. SeedingIsSeen'
  BY DEF TypeOK, OneCall, SeedingIsSeen
<1>4. Progress'
  BY DEF TypeOK, OneCall, Progress, SeedingIsSeen, NoLease, Lease, Idle
<1>5. Undisturbed'
  BY DEF TypeOK, OneCall, Progress, SeedingIsSeen, Undisturbed, NoLease, Lease,
         Idle
<1>6. UsedMeansInjected'
  BY DEF TypeOK, OneCall, Progress, UsedMeansInjected, NoLease, Lease
<1>7. IssueLeadsToLease'
  BY DEF TypeOK, OneCall, Progress, Undisturbed, SeedingIsSeen, IssueLeadsToLease,
         NoLease, Lease
<1> QED BY <1>1, <1>2, <1>3, <1>4, <1>5, <1>6, <1>7

LEMMA IssueOK == ASSUME IInv, NEW p \in Perms, Issue(p) PROVE IInv'
BY LeaseAssumption
   DEF Issue, tables, IInv, TypeOK, OneCall, SeedingIsSeen, Progress, Undisturbed,
       UsedMeansInjected, IssueLeadsToLease, Lease, NoLease, Labels,
       Unleased, Minting, Uninjected, Injecting, Recording

LEMMA DeleteIssuesOK == ASSUME IInv, DeleteIssues PROVE IInv'
BY LeaseAssumption
   DEF DeleteIssues, SeedGoto, tables, IInv, TypeOK, OneCall, SeedingIsSeen, Progress, Undisturbed,
       UsedMeansInjected, IssueLeadsToLease, Lease, NoLease, Labels,
       Unleased, Minting, Uninjected, Injecting, Recording

LEMMA DeleteLeasesOK == ASSUME IInv, DeleteLeases PROVE IInv'
BY LeaseAssumption
   DEF DeleteLeases, SeedGoto, tables, IInv, TypeOK, OneCall, SeedingIsSeen, Progress, Undisturbed,
       UsedMeansInjected, IssueLeadsToLease, Lease, NoLease, Labels,
       Unleased, Minting, Uninjected, Injecting, Recording

LEMMA DeleteBindingsOK == ASSUME IInv, DeleteBindings PROVE IInv'
BY LeaseAssumption
   DEF DeleteBindings, SeedGoto, tables, IInv, TypeOK, OneCall, SeedingIsSeen, Progress, Undisturbed,
       UsedMeansInjected, IssueLeadsToLease, Lease, NoLease, Labels,
       Unleased, Minting, Uninjected, Injecting, Recording

LEMMA DeleteDecisionsOK == ASSUME IInv, DeleteDecisions PROVE IInv'
BY LeaseAssumption
   DEF DeleteDecisions, SeedGoto, tables, IInv, TypeOK, OneCall, SeedingIsSeen, Progress, Undisturbed,
       UsedMeansInjected, IssueLeadsToLease, Lease, NoLease, Labels,
       Unleased, Minting, Uninjected, Injecting, Recording

LEMMA DeleteGrantsOK == ASSUME IInv, DeleteGrants PROVE IInv'
BY LeaseAssumption
   DEF DeleteGrants, SeedGoto, tables, IInv, TypeOK, OneCall, SeedingIsSeen, Progress, Undisturbed,
       UsedMeansInjected, IssueLeadsToLease, Lease, NoLease, Labels,
       Unleased, Minting, Uninjected, Injecting, Recording

LEMMA InsertBindingsOK == ASSUME IInv, InsertBindings PROVE IInv'
BY LeaseAssumption
   DEF InsertBindings, SeedGoto, tables, IInv, TypeOK, OneCall, SeedingIsSeen, Progress, Undisturbed,
       UsedMeansInjected, IssueLeadsToLease, Lease, NoLease, Labels,
       Unleased, Minting, Uninjected, Injecting, Recording

LEMMA RestartOK == ASSUME IInv, Restart PROVE IInv'
<1> USE LeaseAssumption
    DEF Restart, Return, tables, Unleased, Minting, Uninjected, Injecting, Recording,
        IInv
<1>1. TypeOK'
  <2>1. loc' \in Locals
    <3>1. loc \in Locals
      BY DEF TypeOK, Locals
    <3> QED BY <3>1, LocalsOK DEF TypeOK
  <2>2. leases' \in [Calls -> Lease] /\ injected' \in [Calls -> Nat]
    BY DEF TypeOK, OneCall, Lease, NoLease
  <2>3. outcome' \in [Calls -> {"none", "running", "blocked", "executed", "failed"}]
    BY DEF TypeOK
  <2> QED BY <2>1, <2>2, <2>3 DEF TypeOK, Labels, OneCall, Locals
<1>2. OneCall'
  BY DEF TypeOK, OneCall
<1>3. SeedingIsSeen'
  BY DEF TypeOK, OneCall, SeedingIsSeen
<1>4. Progress'
  BY DEF TypeOK, OneCall, Progress, SeedingIsSeen, NoLease, Lease, Idle
<1>5. Undisturbed'
  BY DEF TypeOK, OneCall, Progress, SeedingIsSeen, Undisturbed, NoLease, Lease,
         Idle
<1>6. UsedMeansInjected'
  BY DEF TypeOK, OneCall, Progress, UsedMeansInjected, NoLease, Lease
<1>7. IssueLeadsToLease'
  BY DEF TypeOK, OneCall, Progress, Undisturbed, SeedingIsSeen, IssueLeadsToLease,
         NoLease, Lease
<1> QED BY <1>1, <1>2, <1>3, <1>4, <1>5, <1>6, <1>7

-----------------------------------------------------------------------------
LEMMA StepOK == ASSUME IInv, Next PROVE IInv'
<1>1. ASSUME NEW c \in Calls, NEW p \in Perms, Decide(c, p) PROVE IInv'
  BY <1>1, DecideOK
<1>2. CASE Step
  BY <1>2, ConsumeOK, FindBindingOK, MintOK, SaveOK, AttachOK, AuthorizeUseOK,
     ResolveOK, SignInOK, RetryOK, RecordOperationOK, MarkUsedOK, ExecuteOK, FailOK
     DEF Step
<1>3. ASSUME NEW p \in Perms, Issue(p) PROVE IInv'
  BY <1>3, IssueOK
<1>4. CASE Reseed
  BY <1>4, DeleteIssuesOK, DeleteLeasesOK, DeleteBindingsOK, DeleteDecisionsOK,
     DeleteGrantsOK, InsertBindingsOK DEF Reseed
<1>5. CASE Restart
  BY <1>5, RestartOK
<1> QED BY <1>1, <1>2, <1>3, <1>4, <1>5 DEF Next

LEMMA StutterOK == ASSUME IInv, UNCHANGED vars PROVE IInv'
BY DEF vars, IInv, TypeOK, OneCall, SeedingIsSeen, Progress, Undisturbed,
       UsedMeansInjected, IssueLeadsToLease

(* The invariant holds in every behaviour.                                 *)
THEOREM Invariance == Spec => []IInv
<1>1. IInv /\ [Next]_vars => IInv'
  BY StepOK, StutterOK
<1> QED BY InitOK, <1>1, PTL DEF Spec

(* Tables and variables stay well formed for any calls and permissions;    *)
(* in particular credential_leases.uses_remaining stays within max_uses.   *)
THEOREM TypeCorrect == Spec => []TypeOK
<1>1. IInv => TypeOK
  BY DEF IInv
<1> QED BY Invariance, <1>1, PTL

(* A lease row that says used (mark_credential_lease_used) stands for one  *)
(* injection, resolved, with no use left.                                  *)
THEOREM UsedLeasesInjected == Spec => []UsedMeansInjected
<1>1. IInv => UsedMeansInjected
  BY DEF IInv
<1> QED BY Invariance, <1>1, PTL

(* An issue row that create_linear_issue wrote for a call no reseed has    *)
(* overlapped leads to a used lease and its decision, while both exist and *)
(* while seed_demo deletes the tables in the order of its list.            *)
THEOREM IssuesLeadToLeases == Spec => []IssueLeadsToLease
<1>1. IInv => IssueLeadsToLease
  BY DEF IInv
<1> QED BY Invariance, <1>1, PTL

(* op run injects a secret only into a call whose lease row and decision   *)
(* reference are written, and only once (resolve_for_lease with its retry).*)
THEOREM InjectionsLeased == Spec => InjectionIsLeased
<1> DEFINE Leased ==
      \A c \in Calls :
        injected'[c] # injected[c] =>
          /\ injected[c] = 0
          /\ c \notin overlapped =>
               leases[c].status = "minted" /\ decisions[c] = "leased"
<1>1. ASSUME IInv, Next PROVE Leased
  <2>1. CASE Resolve \/ Retry
    BY <1>1, <2>1 DEF Resolve, Retry, Attempt, Return, Goto, IInv, TypeOK, OneCall,
       Progress, Undisturbed, Unleased, Minting, Uninjected
  <2>2. CASE ~(Resolve \/ Retry)
    <3>1. injected' = injected
      BY <1>1, <2>2 DEF Next, Step, Reseed, Decide, Consume, FindBinding, Mint, Save,
         Attach, AuthorizeUse, SignIn, RecordOperation, MarkUsed, Execute, Fail,
         Issue, DeleteIssues, DeleteLeases, DeleteBindings, DeleteDecisions,
         DeleteGrants, InsertBindings, SeedGoto, Restart
    <3> QED BY <3>1
  <2> QED BY <2>1, <2>2
<1>2. ASSUME IInv, UNCHANGED vars PROVE Leased
  BY <1>2 DEF vars
<1>3. IInv /\ [Next]_vars => [Leased]_vars
  BY <1>1, <1>2
<1> QED BY Invariance, <1>3, PTL DEF Spec, InjectionIsLeased

(* A tool bound to a credential executes only after its own lease was used *)
(* (handle_tool_call requires the state "used").                           *)
THEOREM ExecutionsLeased == Spec => ExecutionIsLeased
<1> DEFINE Leased ==
      \A c \in Calls :
        /\ outcome'[c] = "executed" /\ outcome[c] # "executed"
        /\ perms[c] \in BoundPerms /\ c \notin overlapped
        => leases[c].status = "used" /\ decisions[c] = "leased"
<1>1. ASSUME IInv, Next PROVE Leased
  <2>1. CASE Execute
    BY <1>1, <2>1 DEF Execute, Return, IInv, TypeOK, OneCall, Undisturbed
  <2>2. CASE ~Execute
    <3>1. \A c \in Calls : outcome'[c] = "executed" => outcome[c] = "executed"
      BY <1>1, <2>2 DEF Next, Step, Reseed, Decide, Consume, FindBinding, Mint, Save,
         Attach, AuthorizeUse, Resolve, SignIn, Retry, Attempt, RecordOperation,
         MarkUsed, Fail, Issue, DeleteIssues, DeleteLeases, DeleteBindings,
         DeleteDecisions, DeleteGrants, InsertBindings, SeedGoto, Restart,
         Return, Goto, IInv, TypeOK, OneCall
    <3> QED BY <3>1
  <2> QED BY <2>1, <2>2
<1>2. ASSUME IInv, UNCHANGED vars PROVE Leased
  BY <1>2 DEF vars
<1>3. IInv /\ [Next]_vars => [Leased]_vars
  BY <1>1, <1>2
<1> QED BY Invariance, <1>3, PTL DEF Spec, ExecutionIsLeased
=============================================================================
