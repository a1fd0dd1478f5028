----------------------------- MODULE WalletProofs ----------------------------
(***************************************************************************)
(* Proofs about Wallet, for every set of users, calls and jobs, both       *)
(* backends, every pool size and with failures: the types, the balance     *)
(* and ledger invariants, the refinement of CreditAccount and what each    *)
(* call leaves in the tables.                                              *)
(***************************************************************************)
EXTENDS Wallet, TLAPS, FiniteSetTheorems

(* The actions of a call that touch neither wallets nor ledger.            *)
Silent(c) ==
    \/ InsertUsageEvent(c) \/ BeginTx(c) \/ SelectWallet(c) \/ SelectNoWallet(c)
    \/ InsertWallet(c) \/ RejectUsage(c) \/ WriteTx(c) \/ AuditGrant(c)
    \/ PoolTimeout(c) \/ Busy(c) \/ DbError(c) \/ EventReplyLost(c)
    \/ AuditDropped(c) \/ Cancel(c)

(* The two ways COMMIT takes effect.                                       *)
Committing(c) == CommitTx(c) \/ CommitReplyLost(c)

(* A step of the system is one of these.                                   *)
LEMMA NextCases ==
    Next <=> \/ \E c \in Calls : Call(c) \/ Silent(c) \/ Committing(c)
             \/ Terminated
  BY Zenon DEF Next, Step, Fault, Silent, Committing

-----------------------------------------------------------------------------
(* The locals of a call that is not running are a job.                     *)
LEMMA NoJobType == NoJob \in Job
<1>1. (CHOOSE u \in Users : TRUE) \in Users
  BY WalletAssumption
<1>2. QED
  BY <1>1 DEF NoJob, Job, Kinds

(* The initial state has the types.                                        *)
LEMMA InitType == Init => TypeOK
<1>1. SUFFICES ASSUME Init PROVE TypeOK
  OBVIOUS
<1>2. job \in [Calls -> Job]
  BY <1>1, NoJobType DEF Init
<1>3. ledger \in [Users -> Seq(Row)] /\ usage \in [Calls -> Seq({200, 402, 502})]
  BY <1>1 DEF Init
<1>4. QED
  BY <1>1, <1>2, <1>3, WalletAssumption
     DEF Init, TypeOK, PcSet, Active, InTx, Results

(* The parts of the state that a call's end leaves well typed.             *)
LEMMA EndTxType ==
    ASSUME NEW c \in Calls, TypeOK, EndTx(c)
    PROVE  /\ conns' \subseteq Calls
           /\ rowLock' \in [Users -> Calls \cup {NoCall}]
           /\ shared' \subseteq Calls
           /\ reserved' \in Calls \cup {NoCall}
           /\ fresh' \in [Calls -> BOOLEAN]
<1>1. fresh' \in [Calls -> BOOLEAN]
  BY Zenon DEF EndTx, TypeOK
<1>2. QED
  BY <1>1 DEF EndTx, TypeOK

(* Taking or keeping a row lock keeps the lock table typed.                *)
LEMMA RowLockType ==
    ASSUME NEW c \in Calls, NEW u \in Users, TypeOK
    PROVE  [rowLock EXCEPT ![u] = c] \in [Users -> Calls \cup {NoCall}]
  BY Zenon DEF TypeOK

(* Returning from a call keeps the call's state typed.                     *)
LEMMA FinishType ==
    ASSUME NEW c \in Calls, TypeOK, NEW r \in Results, Finish(c, r)
    PROVE  pc' \in [Calls -> PcSet] /\ result' \in [Calls -> Results]
  BY DEF Finish, Goto, TypeOK, PcSet

(* A grant or charge posts a well-typed row.                               *)
LEMMA NewBalanceInt ==
    ASSUME NEW c \in Calls, TypeOK, job[c].kind \in {"grant", "usage"}
    PROVE  NewBalance(c) \in Int /\ Delta(c) \in Int
<1>1. job[c] \in Job /\ read[c] \in Int
  BY DEF TypeOK
<1>2. job[c].amount \in Int
  BY <1>1 DEF Job
<1>3. QED
  BY <1>1, <1>2, WalletAssumption
     DEF NewBalance, Delta, SatAdd, Account!SatAdd

(* COMMIT keeps the tables typed.                                          *)
LEMMA PublishType ==
    ASSUME NEW c \in Calls, TypeOK, Publish(c)
    PROVE  /\ exists' \subseteq Users
           /\ balance' \in [Users -> Int]
           /\ ledger' \in [Users -> Seq(Row)]
           /\ usage' \in [Calls -> Seq({200, 402, 502})]
           /\ audited' \subseteq Calls
<1> DEFINE u == job[c].user
           row == [call |-> c, delta |-> Delta(c), after |-> NewBalance(c)]
<1>1. u \in Users /\ job[c].status \in {200, 502}
  BY DEF TypeOK, Job
<1>2. exists' \subseteq Users /\ audited' \subseteq Calls
  BY <1>1 DEF Publish, TypeOK
<1>3. usage' \in [Calls -> Seq({200, 402, 502})]
  BY <1>1 DEF Publish, TypeOK
<1>4. balance' \in [Users -> Int] /\ ledger' \in [Users -> Seq(Row)]
  <2>1. CASE job[c].kind \in {"grant", "usage"}
    <3>1. NewBalance(c) \in Int /\ row \in Row
      BY <2>1, NewBalanceInt DEF Row
    <3>2. /\ balance' = [balance EXCEPT ![u] = NewBalance(c)]
          /\ ledger' = [ledger EXCEPT ![u] = Append(@, row)]
      BY <2>1 DEF Publish
    <3>3. ledger[u] \in Seq(Row)
      BY <1>1 DEF TypeOK
    <3>4. Append(ledger[u], row) \in Seq(Row)
      BY <3>1, <3>3
    <3> HIDE DEF row, u
    <3>5. QED
      BY <1>1, <3>1, <3>2, <3>4 DEF TypeOK
  <2>2. CASE job[c].kind \notin {"grant", "usage"}
    BY <2>2 DEF Publish, TypeOK
  <2>3. QED
    BY <2>1, <2>2
<1>5. QED
  BY <1>2, <1>3, <1>4

(* The fields of the job a call has.                                       *)
LEMMA JobType ==
    ASSUME TypeOK, NEW c \in Calls
    PROVE  /\ job[c] \in Job
           /\ job[c].user \in Users
           /\ job[c].amount \in Int
           /\ job[c].kind \in Kinds
           /\ job[c].status \in {200, 502}
<1>1. job[c] \in Job
  BY DEF TypeOK
<1>2. QED
  BY <1>1 DEF Job

(* Type correctness: no step leaves the declared domains.                  *)
LEMMA NextType == TypeOK /\ [Next]_vars => TypeOK'
<1> USE DEF PcSet, Active, InTx, Results
<1>1. SUFFICES ASSUME TypeOK, [Next]_vars PROVE TypeOK'
  OBVIOUS
<1>2. ASSUME NEW c \in Calls, Call(c) PROVE TypeOK'
  <2>1. PICK j \in Jobs : /\ job' = [job EXCEPT ![c] = j]
                          /\ \/ CallGrant(c, j) \/ CallUsage(c, j)
                             \/ CallWallet(c, j) \/ CallPreflight(c, j)
    BY <1>2 DEF Call
  <2>2. job' \in [Calls -> Job]
    BY <2>1, <1>1, WalletAssumption DEF TypeOK
  <2>3. \/ \E l \in PcSet : pc' = [pc EXCEPT ![c] = l] /\ UNCHANGED result
        \/ \E r \in Results : Finish(c, r)
    <3>1. CASE CallGrant(c, j)
      BY <3>1, Zenon DEF CallGrant, Goto
    <3>2. CASE CallUsage(c, j)
      BY <3>2, Zenon DEF CallUsage, Goto
    <3>3. CASE CallWallet(c, j)
      BY <3>3, Zenon DEF CallWallet, Goto
    <3>4. CASE CallPreflight(c, j)
      BY <3>4, Zenon DEF CallPreflight, Goto
    <3>5. QED
      BY <2>1, <3>1, <3>2, <3>3, <3>4
  <2>6. pc' \in [Calls -> PcSet] /\ result' \in [Calls -> Results]
    <3>1. CASE \E l \in PcSet : pc' = [pc EXCEPT ![c] = l] /\ UNCHANGED result
      BY <3>1, <1>1 DEF TypeOK
    <3>2. CASE \E r \in Results : Finish(c, r)
      BY <3>2, <1>1, FinishType, Zenon
    <3>3. QED
      BY <2>3, <3>1, <3>2
  <2>4. UNCHANGED <<tables, locks, read, fresh>>
    BY <1>2 DEF Call
  <2>5. QED
    BY <2>2, <2>6, <2>4, <1>1 DEF TypeOK, tables, locks
<1>3. ASSUME NEW c \in Calls, Silent(c) PROVE TypeOK'
  <2>1. CASE InsertUsageEvent(c)
    <3>1. job[c].status \in {200, 502}
      BY <1>1 DEF TypeOK, Job
    <3>2. usage' \in [Calls -> Seq({200, 402, 502})]
      BY <2>1, <3>1, <1>1 DEF InsertUsageEvent, TypeOK
    <3>3. QED
      BY <2>1, <3>2, <1>1 DEF InsertUsageEvent, TypeOK, Finish, Goto, locks
  <2>2. CASE BeginTx(c)
    BY <2>2, <1>1 DEF BeginTx, TypeOK, Goto, tables
  <2>3. CASE SelectWallet(c)
    <3>1. job[c].user \in Users
      BY <1>1 DEF TypeOK, Job
    <3>2. /\ rowLock' \in [Users -> Calls \cup {NoCall}]
          /\ shared' \subseteq Calls
      <4>1. CASE Backend = "Postgres"
        <5>1. /\ rowLock' = [rowLock EXCEPT ![job[c].user] = c]
              /\ UNCHANGED shared
          BY <2>3, <4>1 DEF SelectWallet, LockWallet
        <5>2. [rowLock EXCEPT ![job[c].user] = c] \in [Users -> Calls \cup {NoCall}]
          BY <3>1, <1>1, RowLockType
        <5>3. QED
          BY <5>1, <5>2, <1>1 DEF TypeOK
      <4>2. CASE Backend # "Postgres"
        BY <2>3, <3>1, <4>2, <1>1 DEF SelectWallet, LockWallet, TypeOK
      <4>3. QED
        BY <4>1, <4>2
    <3>3. pc' \in [Calls -> PcSet]
      BY <2>3, <1>1 DEF SelectWallet, Goto, Decide, TypeOK
    <3>4. read' \in [Calls -> Int]
      BY <2>3, <3>1, <1>1 DEF SelectWallet, TypeOK
    <3>5. QED
      BY <2>3, <3>2, <3>3, <3>4, <1>1 DEF SelectWallet, TypeOK, tables
  <2>4. CASE SelectNoWallet(c)
    BY <2>4, <1>1 DEF SelectNoWallet, TypeOK, Goto, tables
  <2>5. CASE InsertWallet(c)
    <3>1. job[c].user \in Users
      BY <1>1 DEF TypeOK, Job
    <3>2. fresh' \in [Calls -> BOOLEAN]
      BY <2>5, <1>1, Zenon DEF InsertWallet, TypeOK
    <3>3. /\ rowLock' \in [Users -> Calls \cup {NoCall}]
          /\ reserved' \in Calls \cup {NoCall}
      <4>1. [rowLock EXCEPT ![job[c].user] = c] \in [Users -> Calls \cup {NoCall}]
        BY <3>1, <1>1, RowLockType
      <4>2. /\ rowLock' \in {rowLock, [rowLock EXCEPT ![job[c].user] = c]}
            /\ reserved' \in {reserved, c}
        BY <2>5 DEF InsertWallet, Reserve
      <4>3. rowLock' \in [Users -> Calls \cup {NoCall}]
        BY <4>1, <4>2, <1>1, Zenon DEF TypeOK
      <4>4. reserved' \in Calls \cup {NoCall}
        BY <4>2, <1>1 DEF TypeOK
      <4>5. QED
        BY <4>3, <4>4
    <3>4. QED
      BY <2>5, <3>2, <3>3, <1>1 DEF InsertWallet, TypeOK, Goto, tables
  <2>6. CASE RejectUsage(c)
    <3>1. usage' \in [Calls -> Seq({200, 402, 502})]
      BY <2>6, <1>1 DEF RejectUsage, TypeOK
    <3>2. pc' \in [Calls -> PcSet] /\ result' \in [Calls -> Results]
      BY <2>6, <1>1, FinishType DEF RejectUsage
    <3>3. EndTx(c)
      BY <2>6 DEF RejectUsage
    <3>4. /\ conns' \subseteq Calls
          /\ rowLock' \in [Users -> Calls \cup {NoCall}]
          /\ shared' \subseteq Calls
          /\ reserved' \in Calls \cup {NoCall}
          /\ fresh' \in [Calls -> BOOLEAN]
      BY <3>3, <1>1, EndTxType
    <3>5. QED
      BY <2>6, <3>1, <3>2, <3>4, <1>1 DEF RejectUsage, TypeOK
  <2>7. CASE WriteTx(c)
    BY <2>7, <1>1 DEF WriteTx, TypeOK, Goto, tables, Reserve
  <2>8. CASE AuditGrant(c)
    BY <2>8, <1>1 DEF AuditGrant, TypeOK, Finish, Goto, locks
  <2>9. ASSUME NEW r \in Results, Abort(c, r) PROVE TypeOK'
    <3>1. pc' \in [Calls -> PcSet] /\ result' \in [Calls -> Results]
      BY <2>9, <1>1, FinishType DEF Abort
    <3>2. EndTx(c) /\ UNCHANGED <<tables, job, read>>
      BY <2>9 DEF Abort
    <3>3. QED
      BY <3>1, <3>2, <1>1, EndTxType DEF TypeOK, tables
  <2>11. CASE EventReplyLost(c)
    <3>1. job[c].status \in {200, 402, 502}
      BY <1>1 DEF TypeOK, Job
    <3>2. usage' \in [Calls -> Seq({200, 402, 502})]
      BY <2>11, <3>1, <1>1 DEF EventReplyLost, TypeOK
    <3>3. PICK r \in Results : Finish(c, r)
      BY <2>11 DEF EventReplyLost, Unheard
    <3>4. pc' \in [Calls -> PcSet] /\ result' \in [Calls -> Results]
      BY <3>3, <1>1, FinishType
    <3>5. EndTx(c)
      BY <2>11 DEF EventReplyLost
    <3>6. /\ conns' \subseteq Calls
          /\ rowLock' \in [Users -> Calls \cup {NoCall}]
          /\ shared' \subseteq Calls
          /\ reserved' \in Calls \cup {NoCall}
          /\ fresh' \in [Calls -> BOOLEAN]
      BY <3>5, <1>1, EndTxType
    <3>7. QED
      BY <2>11, <3>2, <3>4, <3>6, <1>1 DEF EventReplyLost, TypeOK
  <2>12. CASE AuditDropped(c)
    BY <2>12, <1>1 DEF AuditDropped, TypeOK, Finish, Goto, locks
  <2>10. QED
    BY <1>3, <2>1, <2>2, <2>3, <2>4, <2>5, <2>6, <2>7, <2>8, <2>9, <2>11, <2>12
       DEF Silent, PoolTimeout, Busy, DbError, Cancel
<1>4. ASSUME NEW c \in Calls, Committing(c) PROVE TypeOK'
  <2>1. /\ Publish(c) /\ EndTx(c) /\ UNCHANGED <<job, read>>
    BY <1>4 DEF Committing, CommitTx, CommitReplyLost
  <2>2. pc' \in [Calls -> PcSet] /\ result' \in [Calls -> Results]
    <3>1. CASE Goto(c, "audit") /\ UNCHANGED result
      BY <3>1, <1>1 DEF Goto, TypeOK, PcSet, Active
    <3>2. ASSUME NEW r \in Results, Finish(c, r)
          PROVE  pc' \in [Calls -> PcSet] /\ result' \in [Calls -> Results]
      BY <3>2, <1>1, FinishType
    <3>3. \/ Goto(c, "audit") /\ UNCHANGED result
          \/ \E r \in Results : Finish(c, r)
      BY <1>4 DEF Committing, CommitTx, CommitReplyLost, Unheard
    <3>4. QED
      BY <3>1, <3>2, <3>3, Zenon
  <2>3. /\ exists' \subseteq Users
        /\ balance' \in [Users -> Int]
        /\ ledger' \in [Users -> Seq(Row)]
        /\ usage' \in [Calls -> Seq({200, 402, 502})]
        /\ audited' \subseteq Calls
    BY <2>1, <1>1, PublishType
  <2>4. /\ conns' \subseteq Calls
        /\ rowLock' \in [Users -> Calls \cup {NoCall}]
        /\ shared' \subseteq Calls
        /\ reserved' \in Calls \cup {NoCall}
        /\ fresh' \in [Calls -> BOOLEAN]
    BY <2>1, <1>1, EndTxType
  <2>5. job' \in [Calls -> Job] /\ read' \in [Calls -> Int]
    BY <2>1, <1>1 DEF TypeOK
  <2>6. QED
    BY <2>2, <2>3, <2>4, <2>5, Zenon DEF TypeOK
<1>5. CASE UNCHANGED vars
  BY <1>5, <1>1 DEF TypeOK, vars, tables, locks
<1>6. QED
  BY <1>1, <1>2, <1>3, <1>4, <1>5, NextCases DEF Terminated

(* Wallet is type correct: no call, failure or backend leaves the domains  *)
(* of the tables, locks and locals.                                        *)
THEOREM TypeCorrect == Spec => []TypeOK
  BY InitType, NextType, PTL DEF Spec

-----------------------------------------------------------------------------
(* The inductive invariant.  BalanceInRange and LedgerExplainsBalance need *)
(* that a writer's read is current (BalanceReadIsCurrent), which needs the *)
(* locks; the range also needs that the amount posted is positive and a    *)
(* charge covered by the balance read.                                     *)

Posting(c) == job[c].kind \in {"grant", "usage"}

(* What holds of one call c.                                               *)
CallInv(c) ==
    /\ pc[c] \in {"reject", "write", "commit"} =>
           HoldsWallet(c) /\ read[c] = balance[job[c].user]
    /\ pc[c] \in InTx \cup {"begin"} /\ Posting(c) => job[c].amount > 0
    /\ pc[c] \in {"write", "commit"} /\ job[c].kind = "usage" =>
           job[c].amount <= read[c]
    /\ pc[c] = "commit" /\ Backend = "Sqlite" /\ Posting(c) => reserved = c
    /\ pc[c] # "idle" => job[c] \in Jobs

(* The call of a ledger row has committed: it posts no second one.         *)
PostedCallsCommitted ==
    \A u \in Users : \A i \in 1 .. Len(ledger[u]) :
        pc[ledger[u][i].call] \in {"audit", "done"}

WalletInv ==
    /\ TypeOK
    /\ BalanceInRange
    /\ LedgerExplainsBalance
    /\ PostedCallsCommitted
    /\ \A c \in Calls : CallInv(c)

(* The initial state satisfies the inductive invariant.                    *)
LEMMA InitInv == Init => WalletInv
<1>1. SUFFICES ASSUME Init PROVE WalletInv
  OBVIOUS
<1>2. TypeOK
  BY <1>1, InitType
<1>3. \A u \in Users : balance[u] = 0 /\ ledger[u] = <<>> /\ Len(ledger[u]) = 0
  BY <1>1 DEF Init
<1>4. BalanceInRange /\ LedgerExplainsBalance /\ PostedCallsCommitted
  BY <1>3, WalletAssumption
     DEF BalanceInRange, LedgerExplainsBalance, PostedCallsCommitted, Before
<1>5. \A c \in Calls : CallInv(c)
  BY <1>1 DEF Init, CallInv, InTx
<1>6. QED
  BY <1>2, <1>4, <1>5 DEF WalletInv

(* Ending c's transaction takes no lock from another call.                 *)
LEMMA EndTxOthers ==
    ASSUME NEW c \in Calls, NEW d \in Calls, d # c, TypeOK, EndTx(c),
           UNCHANGED job
    PROVE  /\ HoldsWallet(d) => HoldsWallet(d)'
           /\ reserved = d => reserved' = d
<1>1. job[d].user \in Users
  BY DEF TypeOK, Job
<1>2. QED
  BY <1>1, WalletAssumption DEF EndTx, HoldsWallet

(* A call that is done, waiting or auditing satisfies its part whatever    *)
(* the locks are.                                                          *)
LEMMA RestingCall ==
    ASSUME NEW c \in Calls, pc'[c] \in {"audit", "done"}, job'[c] \in Jobs
    PROVE  CallInv(c)'
  BY DEF CallInv, InTx

(* The fields of a ledger row.                                             *)
LEMMA RowType ==
    ASSUME TypeOK, NEW u \in Users, NEW i \in 1 .. Len(ledger[u])
    PROVE  ledger[u][i] \in Row /\ ledger[u][i].call \in Calls
<1>1. ledger[u] \in Seq(Row)
  BY DEF TypeOK
<1>2. ledger[u][i] \in Row
  BY <1>1
<1>3. QED
  BY <1>2 DEF Row

(* The rows stay those of committed calls when only c's place changes and  *)
(* c has posted none, or has committed.                                    *)
LEMMA PostedKept ==
    ASSUME NEW c \in Calls, TypeOK, PostedCallsCommitted, UNCHANGED ledger,
           \A d \in Calls : d # c => pc'[d] = pc[d],
           pc[c] \in {"audit", "done"} => pc'[c] \in {"audit", "done"}
    PROVE  PostedCallsCommitted'
<1>1. \A u \in Users : \A i \in 1 .. Len(ledger[u]) : ledger[u][i].call \in Calls
  BY RowType
<1>2. QED
  BY <1>1 DEF PostedCallsCommitted

(* A step that leaves wallets, ledger and the other calls' locks alone     *)
(* keeps the invariant if it keeps the part of the call that moves.        *)
LEMMA QuietStep ==
    ASSUME NEW c \in Calls, WalletInv, TypeOK',
           UNCHANGED <<balance, ledger>>,
           \A d \in Calls : d # c => /\ pc'[d] = pc[d] /\ job'[d] = job[d]
                                     /\ read'[d] = read[d]
                                     /\ HoldsWallet(d) => HoldsWallet(d)'
                                     /\ reserved = d => reserved' = d,
           pc[c] \in {"audit", "done"} => pc'[c] \in {"audit", "done"},
           CallInv(c)'
    PROVE  WalletInv'
<1>1. BalanceInRange' /\ LedgerExplainsBalance'
  BY DEF WalletInv, BalanceInRange, LedgerExplainsBalance, Before
<1>2. PostedCallsCommitted'
  BY PostedKept DEF WalletInv
<1>3. ASSUME NEW d \in Calls, d # c PROVE CallInv(d)'
  BY <1>3 DEF WalletInv, CallInv, Posting
<1>4. QED
  BY <1>1, <1>2, <1>3 DEF WalletInv

(* Starting a call keeps the invariant: it holds no lock yet.              *)
LEMMA CallKeeps ==
    ASSUME WalletInv, TypeOK', NEW c \in Calls, Call(c)
    PROVE  WalletInv'
<1>1. PICK j \in Jobs : /\ job' = [job EXCEPT ![c] = j]
                        /\ \/ CallGrant(c, j) \/ CallUsage(c, j)
                           \/ CallWallet(c, j) \/ CallPreflight(c, j)
  BY DEF Call
<1>2. /\ pc[c] = "idle"
      /\ UNCHANGED <<exists, balance, ledger, usage, audited>>
      /\ UNCHANGED <<conns, rowLock, shared, reserved, read, fresh>>
  BY DEF Call, tables, locks
<1>3. /\ job \in [Calls -> Job] /\ pc \in [Calls -> PcSet]
      /\ j \in Job
  BY WalletAssumption DEF WalletInv, TypeOK
<1>4. /\ job'[c] = j
      /\ \A d \in Calls : d # c => job'[d] = job[d]
  BY <1>1, <1>3
<1>5. \E l \in PcSet : pc' = [pc EXCEPT ![c] = l]
  BY <1>1, Zenon DEF CallGrant, CallUsage, CallWallet, CallPreflight, Goto, Finish,
                     PcSet, Active, InTx
<1>6. \A d \in Calls : d # c => pc'[d] = pc[d]
  BY <1>5, <1>3
<1>7. \A d \in Calls : d # c => (HoldsWallet(d) => HoldsWallet(d)')
  BY <1>2, <1>4 DEF HoldsWallet
<1>8. /\ pc'[c] \in {"begin", "event", "done"}
      /\ pc'[c] = "begin" /\ j.kind \in {"grant", "usage"} => j.amount > 0
  <2>0. j.amount \in Int
    BY <1>3 DEF Job
  <2>1. CASE CallGrant(c, j)
    BY <2>0, <2>1, <1>3 DEF CallGrant, Goto, Finish
  <2>2. CASE CallUsage(c, j)
    BY <2>0, <2>2, <1>3 DEF CallUsage, Goto
  <2>3. CASE CallWallet(c, j)
    BY <2>3, <1>3 DEF CallWallet, Goto
  <2>4. CASE CallPreflight(c, j)
    BY <2>4, <1>3 DEF CallPreflight, Goto, Finish
  <2>5. QED
    BY <1>1, <2>1, <2>2, <2>3, <2>4
<1>9. CallInv(c)'
  BY <1>4, <1>8 DEF CallInv, Posting, InTx
<1>10. QED
  BY <1>2, <1>4, <1>6, <1>7, <1>9, QuietStep

(* A step after which c rests: it gave up, was refused or finished.        *)
LEMMA RestingKeeps ==
    ASSUME WalletInv, TypeOK', NEW c \in Calls, NEW r \in Results,
           pc[c] # "idle", Finish(c, r),
           EndTx(c) \/ UNCHANGED <<rowLock, shared, reserved>>,
           UNCHANGED <<balance, ledger, job, read>>
    PROVE  WalletInv'
<1>1. TypeOK /\ pc \in [Calls -> PcSet] /\ CallInv(c)
  BY DEF WalletInv, TypeOK
<1>2. pc'[c] = "done" /\ \A d \in Calls : d # c => pc'[d] = pc[d]
  BY <1>1 DEF Finish, Goto
<1>3. \A d \in Calls : d # c => /\ HoldsWallet(d) => HoldsWallet(d)'
                                /\ reserved = d => reserved' = d
  <2>1. CASE EndTx(c)
    BY <2>1, <1>1, EndTxOthers
  <2>2. CASE UNCHANGED <<rowLock, shared, reserved>>
    BY <2>2 DEF HoldsWallet
  <2>3. QED
    BY <2>1, <2>2
<1>4. CallInv(c)'
  BY <1>1, <1>2, RestingCall DEF CallInv
<1>5. QED
  BY <1>2, <1>3, <1>4, QuietStep

(* ensure_wallet_in_tx: the SELECT takes the lock and reads the balance.   *)
LEMMA SelectKeeps ==
    ASSUME WalletInv, TypeOK', NEW c \in Calls, SelectWallet(c)
    PROVE  WalletInv'
<1> DEFINE u == job[c].user
<1>1. /\ TypeOK /\ CallInv(c) /\ u \in Users /\ job[c] \in Job
      /\ pc \in [Calls -> PcSet] /\ read \in [Calls -> Int]
      /\ rowLock \in [Users -> Calls \cup {NoCall}]
      /\ job[c].amount \in Int /\ job[c].kind \in Kinds
  <2>1. TypeOK /\ CallInv(c)
    BY DEF WalletInv
  <2>2. QED
    BY <2>1, JobType DEF TypeOK
<1>2. /\ pc[c] \in {"select", "reselect"}
      /\ LockWallet(c, u)
      /\ read' = [read EXCEPT ![c] = balance[u]]
      /\ pc' = [pc EXCEPT ![c] = Decide(c, balance[u])]
      /\ UNCHANGED <<balance, ledger, reserved, job>>
  BY DEF SelectWallet, Goto, tables
<1>3. /\ read'[c] = balance[u] /\ pc'[c] = Decide(c, balance[u])
      /\ \A d \in Calls : d # c => pc'[d] = pc[d] /\ read'[d] = read[d]
  BY <1>1, <1>2
<1>4. HoldsWallet(c)'
  BY <1>1, <1>2 DEF LockWallet, HoldsWallet
<1>5. ASSUME NEW d \in Calls, d # c, HoldsWallet(d) PROVE HoldsWallet(d)'
  <2>1. job[d].user \in Users
    BY <1>1 DEF TypeOK, Job
  <2>2. QED
    BY <1>1, <1>2, <1>5, <2>1, WalletAssumption DEF LockWallet, HoldsWallet
<1>6. CallInv(c)'
  <2>1. balance[u] \in Int
    BY <1>1 DEF TypeOK
  <2>2. /\ pc'[c] \in {"reject", "write", "commit"}
        /\ pc'[c] = "commit" => job[c].kind \in {"wallet", "preflight"}
        /\ pc'[c] = "write" /\ job[c].kind = "usage" => job[c].amount <= balance[u]
    BY <1>1, <1>3, <2>1 DEF Decide
  <2>3. Posting(c) => job[c].amount > 0
    BY <1>1, <1>2 DEF CallInv, InTx
  <2>4. job[c] \in Jobs
    BY <1>1, <1>2 DEF CallInv
  <2>5. job'[c] = job[c] /\ balance' = balance
    BY <1>2
  <2>6. QED
    BY <1>3, <1>4, <2>2, <2>3, <2>4, <2>5 DEF CallInv, Posting
<1>7. QED
  BY <1>2, <1>3, <1>5, <1>6, QuietStep

(* Every step that commits nothing keeps the invariant.                    *)
LEMMA SilentKeeps ==
    ASSUME WalletInv, TypeOK', NEW c \in Calls, Silent(c)
    PROVE  WalletInv'
<1>1. /\ TypeOK /\ CallInv(c) /\ pc \in [Calls -> PcSet]
      /\ rowLock \in [Users -> Calls \cup {NoCall}]
  BY DEF WalletInv, TypeOK
<1>2. CASE InsertUsageEvent(c)
  BY <1>2, RestingKeeps DEF InsertUsageEvent, locks, Results
<1>3. CASE BeginTx(c)
  <2>1. /\ pc[c] = "begin" /\ pc'[c] = "select"
        /\ \A d \in Calls : d # c => pc'[d] = pc[d]
        /\ UNCHANGED <<balance, ledger, rowLock, shared, reserved, job, read>>
    BY <1>3, <1>1 DEF BeginTx, Goto, tables
  <2>2. CallInv(c)'
    BY <2>1, <1>1 DEF CallInv, Posting, InTx
  <2>3. \A d \in Calls : HoldsWallet(d) => HoldsWallet(d)'
    BY <2>1 DEF HoldsWallet
  <2>4. QED
    BY <2>1, <2>2, <2>3, QuietStep
<1>4. CASE SelectWallet(c)
  BY <1>4, SelectKeeps
<1>5. CASE SelectNoWallet(c)
  <2>1. /\ pc[c] = "select" /\ pc'[c] = "insert"
        /\ \A d \in Calls : d # c => pc'[d] = pc[d]
        /\ UNCHANGED <<balance, ledger, rowLock, reserved, job, read>>
        /\ shared \subseteq shared'
    BY <1>5, <1>1 DEF SelectNoWallet, Goto, tables
  <2>2. CallInv(c)'
    BY <2>1, <1>1 DEF CallInv, Posting, InTx
  <2>3. \A d \in Calls : HoldsWallet(d) => HoldsWallet(d)'
    BY <2>1 DEF HoldsWallet
  <2>4. QED
    BY <2>1, <2>2, <2>3, QuietStep
<1>6. CASE InsertWallet(c)
  <2>1. /\ pc[c] = "insert" /\ pc'[c] = "reselect"
        /\ \A d \in Calls : d # c => pc'[d] = pc[d]
        /\ UNCHANGED <<balance, ledger, shared, job, read>>
    BY <1>6, <1>1 DEF InsertWallet, Goto, tables
  <2>2. CallInv(c)'
    BY <2>1, <1>1 DEF CallInv, Posting, InTx
  <2>3. ASSUME NEW d \in Calls, d # c
        PROVE  /\ HoldsWallet(d) => HoldsWallet(d)'
               /\ reserved = d => reserved' = d
    <3>1. job[d].user \in Users /\ job[c].user \in Users
      BY <1>1, JobType
    <3>2. reserved = d => reserved' = d
      BY <1>6, <2>3, WalletAssumption DEF InsertWallet, Reserve, CanReserve
    <3>3. \/ UNCHANGED rowLock
          \/ /\ rowLock[job[c].user] = NoCall
             /\ rowLock' = [rowLock EXCEPT ![job[c].user] = c]
      BY <1>6 DEF InsertWallet
    <3>4. HoldsWallet(d) => HoldsWallet(d)'
      BY <1>1, <2>1, <2>3, <3>1, <3>3, WalletAssumption DEF HoldsWallet
    <3>5. QED
      BY <3>2, <3>4
  <2>4. QED
    BY <2>1, <2>2, <2>3, QuietStep
<1>7. CASE RejectUsage(c)
  BY <1>7, RestingKeeps DEF RejectUsage, Results
<1>8. CASE WriteTx(c)
  <2>1. /\ pc[c] = "write" /\ pc'[c] = "commit"
        /\ \A d \in Calls : d # c => pc'[d] = pc[d]
        /\ UNCHANGED <<balance, ledger, rowLock, shared, job, read>>
    BY <1>8, <1>1 DEF WriteTx, Goto, tables
  <2>2. Backend = "Sqlite" => reserved' = c
    BY <1>8 DEF WriteTx, Reserve
  <2>3. \A d \in Calls : d # c => (reserved = d => reserved' = d)
    BY <1>8, WalletAssumption DEF WriteTx, Reserve, CanReserve
  <2>4. \A d \in Calls : HoldsWallet(d) => HoldsWallet(d)'
    BY <2>1 DEF HoldsWallet
  <2>5. CallInv(c)'
    BY <2>1, <2>2, <2>4, <1>1 DEF CallInv, Posting, InTx
  <2>6. QED
    BY <2>1, <2>3, <2>4, <2>5, QuietStep
<1>9. CASE AuditGrant(c)
  BY <1>9, RestingKeeps DEF AuditGrant, locks, Results
<1>10. ASSUME NEW r \in Results, Abort(c, r), pc[c] # "idle" PROVE WalletInv'
  BY <1>10, RestingKeeps DEF Abort, tables
<1>11. CASE PoolTimeout(c) \/ Busy(c) \/ DbError(c) \/ Cancel(c)
  BY <1>10, <1>11 DEF PoolTimeout, Busy, DbError, Cancel, Active, InTx, Results
<1>12. CASE EventReplyLost(c)
  <2>1. PICK r \in Results : Finish(c, r)
    BY <1>12 DEF EventReplyLost, Unheard, Results
  <2>2. QED
    BY <1>12, <2>1, RestingKeeps DEF EventReplyLost
<1>13. CASE AuditDropped(c)
  BY <1>13, RestingKeeps DEF AuditDropped, locks, Results
<1>14. QED
  BY <1>2, <1>3, <1>4, <1>5, <1>6, <1>7, <1>8, <1>9, <1>11, <1>12, <1>13 DEF Silent

(* No other call has read, and still uses, the wallet c commits to.        *)
LEMMA CommitExclusive ==
    ASSUME WalletInv, NEW c \in Calls, pc[c] = "commit", CanCommit(c),
           Posting(c), NEW d \in Calls, d # c,
           pc[d] \in {"reject", "write", "commit"}
    PROVE  job[d].user # job[c].user
<1>1. HoldsWallet(c) /\ HoldsWallet(d)
  BY DEF WalletInv, CallInv
<1>2. CASE Backend = "Postgres"
  BY <1>1, <1>2 DEF HoldsWallet
<1>3. CASE Backend = "Sqlite"
  <2>1. reserved = c
    BY <1>3 DEF WalletInv, CallInv
  <2>2. QED
    BY <1>1, <1>3, <2>1 DEF HoldsWallet, CanCommit
<1>4. QED
  BY <1>2, <1>3, WalletAssumption

(* What COMMIT of a grant or a charge does to the account: it starts from  *)
(* the committed balance and stays in range.                               *)
LEMMA CommitPosts ==
    ASSUME WalletInv, NEW c \in Calls, pc[c] = "commit", Posting(c)
    PROVE  /\ job[c].user \in Users
           /\ Delta(c) \in Int
           /\ NewBalance(c) = SatAdd(balance[job[c].user], Delta(c))
           /\ NewBalance(c) \in 0 .. MaxI64
<1>1. /\ job[c].user \in Users /\ job[c].amount \in Int
      /\ read[c] = balance[job[c].user]
      /\ job[c].amount > 0
      /\ job[c].kind = "usage" => job[c].amount <= read[c]
  BY JobType DEF WalletInv, CallInv, InTx
<1>2. read[c] \in 0 .. MaxI64
  BY <1>1 DEF WalletInv, BalanceInRange
<1>3. CASE job[c].kind = "grant"
  BY <1>1, <1>2, <1>3, WalletAssumption
     DEF NewBalance, Delta, SatAdd, Account!SatAdd
<1>4. CASE job[c].kind = "usage"
  BY <1>1, <1>2, <1>4, WalletAssumption
     DEF NewBalance, Delta, SatAdd, Account!SatAdd
<1>5. QED
  BY <1>3, <1>4 DEF Posting

(* The effect of COMMIT on wallet and ledger, in one place.                *)
LEMMA PostEffect ==
    ASSUME WalletInv, NEW c \in Calls, pc[c] = "commit", Posting(c), Publish(c),
           NEW u \in Users
    PROVE  LET row == [call |-> c, delta |-> Delta(c), after |-> NewBalance(c)] IN
           /\ u = job[c].user => /\ balance'[u] = NewBalance(c)
                                /\ ledger'[u] = Append(ledger[u], row)
           /\ u # job[c].user => /\ balance'[u] = balance[u]
                                /\ ledger'[u] = ledger[u]
<1>1. balance \in [Users -> Int] /\ ledger \in [Users -> Seq(Row)]
  BY DEF WalletInv, TypeOK
<1>2. job[c].user \in Users
  BY CommitPosts
<1>3. QED
  BY <1>1, <1>2 DEF Publish, Posting

(* What appending one row does to a ledger.                                *)
LEMMA AppendFacts ==
    ASSUME NEW S, NEW s \in Seq(S), NEW e \in S
    PROVE  /\ Len(Append(s, e)) = Len(s) + 1
           /\ \A i \in 1 .. Len(s) : Append(s, e)[i] = s[i]
           /\ Append(s, e)[Len(s) + 1] = e
           /\ Len(s) \in Nat
  OBVIOUS

(* The ledger of the wallet c commits to still explains its balance.       *)
LEMMA ChainKept ==
    ASSUME WalletInv, NEW c \in Calls, pc[c] = "commit", Posting(c), Publish(c)
    PROVE  LedgerExplainsBalance'
<1> DEFINE row == [call |-> c, delta |-> Delta(c), after |-> NewBalance(c)]
<1>1. SUFFICES ASSUME NEW u \in Users
               PROVE  /\ balance'[u] = Before(u, Len(ledger[u]) + 1)'
                      /\ \A i \in 1 .. Len(ledger'[u]) :
                           ledger'[u][i].after = SatAdd(Before(u, i)', ledger'[u][i].delta)
  BY DEF LedgerExplainsBalance, SatAdd, Account!SatAdd
<1>2. CASE u # job[c].user
  <2>1. balance'[u] = balance[u] /\ ledger'[u] = ledger[u]
    BY <1>2, PostEffect
  <2>2. QED
    BY <2>1 DEF WalletInv, LedgerExplainsBalance, Before
<1>3. CASE u = job[c].user
  <2>1. /\ balance'[u] = NewBalance(c)
        /\ ledger'[u] = Append(ledger[u], row)
    BY <1>3, PostEffect
  <2>2. /\ NewBalance(c) = SatAdd(balance[u], Delta(c))
        /\ NewBalance(c) \in Int /\ Delta(c) \in Int
    BY <1>3, CommitPosts, WalletAssumption
  <2>3. row \in Row /\ ledger[u] \in Seq(Row)
    BY <2>2 DEF Row, WalletInv, TypeOK
  <2>4. /\ row.call = c /\ row.delta = Delta(c) /\ row.after = NewBalance(c)
    OBVIOUS
  <2> HIDE DEF row
  <2>5. /\ Len(ledger'[u]) = Len(ledger[u]) + 1
        /\ \A i \in 1 .. Len(ledger[u]) : ledger'[u][i] = ledger[u][i]
        /\ ledger'[u][Len(ledger[u]) + 1] = row
        /\ Len(ledger[u]) \in Nat
    BY <2>1, <2>3, AppendFacts
  <2>6. balance[u] = Before(u, Len(ledger[u]) + 1)
    BY DEF WalletInv, LedgerExplainsBalance
  <2>7. \A i \in 1 .. Len(ledger[u]) + 1 : Before(u, i)' = Before(u, i)
    BY <2>5 DEF Before
  <2>8. balance'[u] = Before(u, Len(ledger[u]) + 1)'
    BY <2>1, <2>4, <2>5 DEF Before
  <2>9. ASSUME NEW i \in 1 .. Len(ledger'[u])
        PROVE  ledger'[u][i].after = SatAdd(Before(u, i)', ledger'[u][i].delta)
    <3>1. CASE i = Len(ledger[u]) + 1
      BY <3>1, <2>2, <2>4, <2>5, <2>6, <2>7
    <3>2. CASE i \in 1 .. Len(ledger[u])
      BY <3>2, <2>5, <2>7 DEF WalletInv, LedgerExplainsBalance
    <3>3. QED
      BY <3>1, <3>2, <2>5
  <2>10. QED
    BY <2>8, <2>9
<1>4. QED
  BY <1>2, <1>3

(* A COMMIT keeps the invariant.                                           *)
LEMMA CommitKeeps ==
    ASSUME WalletInv, TypeOK', NEW c \in Calls, Committing(c)
    PROVE  WalletInv'
<1>1. /\ TypeOK /\ CallInv(c) /\ pc \in [Calls -> PcSet]
      /\ pc[c] = "commit" /\ CanCommit(c) /\ Publish(c) /\ EndTx(c)
      /\ UNCHANGED <<job, read>>
  BY DEF WalletInv, TypeOK, Committing, CommitTx, CommitReplyLost
<1>2. /\ pc'[c] \in {"audit", "done"}
      /\ \A d \in Calls : d # c => pc'[d] = pc[d]
  BY <1>1 DEF Committing, CommitTx, CommitReplyLost, Finish, Goto
<1>3. \A d \in Calls : d # c => /\ HoldsWallet(d) => HoldsWallet(d)'
                                /\ reserved = d => reserved' = d
  BY <1>1, EndTxOthers
<1>4. CallInv(c)'
  BY <1>1, <1>2, RestingCall DEF CallInv
<1>5. CASE ~Posting(c)
  <2>1. UNCHANGED <<balance, ledger>>
    BY <1>1, <1>5 DEF Publish, Posting
  <2>2. QED
    BY <1>1, <1>2, <1>3, <1>4, <2>1, QuietStep
<1>6. CASE Posting(c)
  <2>1. LedgerExplainsBalance'
    BY <1>1, <1>6, ChainKept
  <2>2. BalanceInRange'
    <3>1. SUFFICES ASSUME NEW u \in Users PROVE balance'[u] \in 0 .. MaxI64
      BY DEF BalanceInRange
    <3>2. balance'[u] \in {balance[u], NewBalance(c)}
      BY <1>1, <1>6, PostEffect
    <3>3. NewBalance(c) \in 0 .. MaxI64 /\ balance[u] \in 0 .. MaxI64
      BY <1>1, <1>6, CommitPosts DEF WalletInv, BalanceInRange
    <3>4. QED
      BY <3>2, <3>3
  <2>3. PostedCallsCommitted'
    <3>1. SUFFICES ASSUME NEW u \in Users, NEW i \in 1 .. Len(ledger'[u])
                   PROVE  pc'[ledger'[u][i].call] \in {"audit", "done"}
      BY DEF PostedCallsCommitted
    <3>2. \/ i \in 1 .. Len(ledger[u]) /\ ledger'[u][i] = ledger[u][i]
          \/ ledger'[u][i].call = c
      <4>1. CASE u # job[c].user
        BY <4>1, <1>1, <1>6, PostEffect
      <4>2. CASE u = job[c].user
        <5> DEFINE row == [call |-> c, delta |-> Delta(c), after |-> NewBalance(c)]
        <5>1. ledger'[u] = Append(ledger[u], row)
          BY <4>2, <1>1, <1>6, PostEffect
        <5>2. row \in Row /\ ledger[u] \in Seq(Row) /\ row.call = c
          <6>1. NewBalance(c) \in Int /\ Delta(c) \in Int
            BY <1>1, <1>6, CommitPosts, WalletAssumption
          <6>2. QED
            BY <1>1, <6>1 DEF Row, TypeOK
        <5> HIDE DEF row
        <5>3. QED
          BY <5>1, <5>2, AppendFacts
      <4>3. QED
        BY <4>1, <4>2
    <3>3. CASE i \in 1 .. Len(ledger[u]) /\ ledger'[u][i] = ledger[u][i]
      <4>1. /\ ledger[u][i].call \in Calls
            /\ pc[ledger[u][i].call] \in {"audit", "done"}
        BY <1>1, <3>3, RowType DEF WalletInv, PostedCallsCommitted
      <4>2. QED
        BY <1>1, <1>2, <3>3, <4>1
    <3>4. QED
      BY <1>2, <3>2, <3>3
  <2>4. ASSUME NEW d \in Calls, d # c PROVE CallInv(d)'
    <3>1. CallInv(d) /\ job[d].user \in Users
      BY <1>1, JobType DEF WalletInv
    <3>2. pc[d] \in {"reject", "write", "commit"} =>
              balance'[job[d].user] = balance[job[d].user]
      BY <1>1, <1>6, <2>4, <3>1, CommitExclusive, PostEffect
    <3>3. pc'[d] = pc[d] /\ job' = job /\ read' = read
      BY <1>1, <1>2, <2>4
    <3>4. QED
      BY <1>3, <2>4, <3>1, <3>2, <3>3 DEF CallInv, Posting
  <2>5. QED
    BY <1>4, <2>1, <2>2, <2>3, <2>4 DEF WalletInv
<1>7. QED
  BY <1>5, <1>6

(* Every step of the system keeps the invariant.                           *)
LEMMA NextInv == WalletInv /\ [Next]_vars => WalletInv'
<1>1. SUFFICES ASSUME WalletInv, [Next]_vars PROVE WalletInv'
  OBVIOUS
<1>2. TypeOK'
  BY <1>1, NextType DEF WalletInv
<1>3. ASSUME NEW c \in Calls, Call(c) \/ Silent(c) \/ Committing(c)
      PROVE  WalletInv'
  BY <1>1, <1>2, <1>3, CallKeeps, SilentKeeps, CommitKeeps
<1>4. CASE UNCHANGED vars
  BY <1>1, <1>2, <1>4
     DEF WalletInv, vars, tables, locks, BalanceInRange, LedgerExplainsBalance,
         Before, PostedCallsCommitted, CallInv, Posting, HoldsWallet
<1>5. QED
  BY <1>1, <1>3, <1>4, NextCases DEF Terminated

(* The inductive invariant holds in every state of every behaviour.        *)
THEOREM Inductive == Spec => []WalletInv
  BY InitInv, NextInv, PTL DEF Spec

(* Concurrent grants, charges, failures and dropped requests never push a  *)
(* committed balance below zero or past i64::MAX.                          *)
THEOREM BalanceSafe == Spec => []BalanceInRange
  BY Inductive, PTL DEF WalletInv

(* The cached balance is always the one the ledger rows lead to: no update *)
(* is lost and no row is missing.                                          *)
THEOREM LedgerIsTruth == Spec => []LedgerExplainsBalance
  BY Inductive, PTL DEF WalletInv

(* A transaction decides and writes on the balance that is committed.      *)
THEOREM ReadsAreCurrent == Spec => []BalanceReadIsCurrent
<1>1. WalletInv => BalanceReadIsCurrent
  BY DEF WalletInv, CallInv, BalanceReadIsCurrent
<1>2. QED
  BY <1>1, Inductive, PTL

-----------------------------------------------------------------------------
(* Every step either leaves the accounts alone or posts one row.           *)
LEMMA StepRefines ==
    ASSUME WalletInv, [Next]_vars
    PROVE  [Account!Next]_(Account!vars)
<1>1. ASSUME NEW c \in Calls, Call(c) PROVE UNCHANGED <<balance, ledger>>
  BY <1>1 DEF Call, tables
<1>2. ASSUME NEW c \in Calls, Silent(c) PROVE UNCHANGED <<balance, ledger>>
  BY <1>2 DEF Silent, InsertUsageEvent, BeginTx, SelectWallet, SelectNoWallet,
       InsertWallet, RejectUsage, WriteTx, AuditGrant, PoolTimeout, Busy,
       DbError, EventReplyLost, AuditDropped, Cancel, Abort, tables
<1>3. ASSUME NEW c \in Calls, Committing(c)
      PROVE  Account!Next \/ UNCHANGED <<balance, ledger>>
  <2>1. pc[c] = "commit" /\ Publish(c) /\ TypeOK
    BY <1>3 DEF Committing, CommitTx, CommitReplyLost, WalletInv
  <2>2. CASE ~Posting(c)
    BY <2>1, <2>2 DEF Publish, Posting
  <2>3. CASE Posting(c)
    <3>1. /\ job[c].user \in Users /\ Delta(c) \in Int
          /\ NewBalance(c) = SatAdd(balance[job[c].user], Delta(c))
          /\ NewBalance(c) \in 0 .. MaxI64
      BY <2>1, <2>3, CommitPosts
    <3>2. c \notin Account!Posted
      BY <2>1 DEF Account!Posted, WalletInv, PostedCallsCommitted
    <3>3. Delta(c) \in {j.amount : j \in Jobs} \cup {0 - j.amount : j \in Jobs}
      BY <2>1 DEF WalletInv, CallInv, Delta
    <3>4. Account!Post(c, job[c].user, Delta(c))
      BY <2>1, <2>3, <3>1, <3>2, WalletAssumption
         DEF Account!Post, Publish, Posting, SatAdd
    <3>5. QED
      BY <3>1, <3>3, <3>4 DEF Account!Next
  <2>4. QED
    BY <2>2, <2>3
<1>4. CASE UNCHANGED vars
  BY <1>4 DEF vars, tables, Account!vars
<1>5. QED
  BY <1>1, <1>2, <1>3, <1>4, NextCases DEF Terminated, Account!vars

(* The transactions of billing.rs, with either backend, any pool size and  *)
(* failures anywhere, implement the atomic account CreditAccount.          *)
THEOREM Refinement == Spec => ImplementsAccount
<1>1. Init => Account!Init
  BY DEF Init, Account!Init
<1>2. WalletInv /\ [Next]_vars => [Account!Next]_(Account!vars)
  BY StepRefines
<1>3. QED
  BY <1>1, <1>2, Inductive, PTL DEF Spec, ImplementsAccount, Account!Spec

-----------------------------------------------------------------------------
(* What a call leaves in the tables.  That a call is charged once, and     *)
(* with its usage event, needs the stage it has reached: nothing is        *)
(* visible of it before its commit, and it commits once.                   *)

(* What record_usage may have left behind when it returns or is dropped.   *)
UsageOutcome(c) ==
    \/ RowsOf(c) = {} /\ usage[c] = <<>> /\ result[c] \in Unheard
    \/ RowsOf(c) = {} /\ usage[c] = <<402>>
           /\ result[c] \in {"insufficient"} \cup Unheard /\ Priced(c)
    \/ RowsOf(c) = {} /\ usage[c] = <<job[c].status>>
           /\ result[c] \in {"ok"} \cup Unheard /\ ~Priced(c)
    \/ RowsOf(c) # {} /\ usage[c] = <<200>>
           /\ result[c] \in {"ok"} \cup Unheard /\ Priced(c)

CallRecord(c) ==
    /\ \A p, q \in RowsOf(c) : p = q
    /\ pc[c] \in {"idle", "event", "begin"} \cup InTx =>
           RowsOf(c) = {} /\ usage[c] = <<>> /\ result[c] = "none"
    /\ pc[c] = "event" => job[c].kind = "usage" /\ ~Priced(c)
    /\ pc[c] \in {"begin"} \cup InTx /\ job[c].kind = "usage" => Priced(c)
    /\ pc[c] = "reject" => job[c].kind = "usage"
    /\ pc[c] = "audit" =>
           job[c].kind = "grant" /\ RowsOf(c) # {} /\ usage[c] = <<>> /\ result[c] = "none"
    /\ pc[c] = "done" /\ job[c].kind = "usage" => UsageOutcome(c)
    /\ pc[c] = "done" /\ job[c].kind # "usage" =>
           usage[c] = <<>> /\ (job[c].kind = "grant" /\ result[c] = "ok" => RowsOf(c) # {})
    /\ c \in audited => RowsOf(c) # {}

RecordInv == \A c \in Calls : CallRecord(c)

(* The rows of a call, one by one.                                         *)
LEMMA RowsMember ==
    ASSUME NEW c \in Calls
    PROVE  /\ \A p : p \in RowsOf(c) <=> \E u \in Users : \E i \in 1 .. Len(ledger[u]) :
                                             p = <<u, i>> /\ ledger[u][i].call = c
           /\ UNCHANGED ledger => RowsOf(c)' = RowsOf(c)
  BY DEF RowsOf

(* COMMIT of a grant or a charge posts one row of the call, and no other   *)
(* call's rows change.                                                     *)
LEMMA PostRows ==
    ASSUME WalletInv, NEW c \in Calls, pc[c] = "commit", Posting(c), Publish(c), NEW d \in Calls
    PROVE  IF d = c THEN RowsOf(d)' = RowsOf(d) \cup {<<job[c].user, Len(ledger[job[c].user]) + 1>>}
                    ELSE RowsOf(d)' = RowsOf(d)
<1> DEFINE w   == job[c].user
           row == [call |-> c, delta |-> Delta(c), after |-> NewBalance(c)]
           new == IF d = c THEN {<<w, Len(ledger[w]) + 1>>} ELSE {}
<1>1. w \in Users /\ row \in Row /\ row.call = c /\ \A u \in Users : ledger[u] \in Seq(Row)
  <2>1. w \in Users /\ NewBalance(c) \in Int /\ Delta(c) \in Int
    BY CommitPosts, WalletAssumption
  <2>2. ledger \in [Users -> Seq(Row)]
    BY DEF WalletInv, TypeOK
  <2> HIDE DEF w
  <2>3. row \in Row /\ row.call = c
    BY <2>1 DEF Row
  <2>4. QED
    BY <2>1, <2>2, <2>3
<1>2. \A u \in Users : IF u = w THEN ledger'[u] = Append(ledger[u], row) ELSE ledger'[u] = ledger[u]
  BY PostEffect
<1> HIDE DEF row, w
<1>3. \A p : p \in RowsOf(d) <=> \E u \in Users : \E i \in 1 .. Len(ledger[u]) :
                                     p = <<u, i>> /\ ledger[u][i].call = d
  BY RowsMember
<1>4. \A p : p \in RowsOf(d)' <=> \E u \in Users : \E i \in 1 .. Len(ledger'[u]) :
                                      p = <<u, i>> /\ ledger'[u][i].call = d
  BY DEF RowsOf
<1>5. /\ Len(ledger'[w]) = Len(ledger[w]) + 1 /\ Len(ledger[w]) \in Nat
      /\ \A i \in 1 .. Len(ledger[w]) : ledger'[w][i] = ledger[w][i]
      /\ ledger'[w][Len(ledger[w]) + 1] = row
  BY <1>1, <1>2, AppendFacts
<1>6. ASSUME NEW p PROVE p \in RowsOf(d)' <=> p \in RowsOf(d) \cup new
  <2>1. ASSUME p \in RowsOf(d)' PROVE p \in RowsOf(d) \cup new
    <3>1. PICK u \in Users : \E i \in 1 .. Len(ledger'[u]) :
                                 p = <<u, i>> /\ ledger'[u][i].call = d
      BY <1>4, <2>1
    <3>2. PICK i \in 1 .. Len(ledger'[u]) : p = <<u, i>> /\ ledger'[u][i].call = d
      BY <3>1
    <3>3. CASE i \in 1 .. Len(ledger[u]) /\ ledger'[u][i] = ledger[u][i]
      BY <1>3, <3>2, <3>3
    <3>4. CASE u = w /\ i = Len(ledger[w]) + 1
      BY <1>1, <1>5, <3>2, <3>4
    <3>5. QED
      BY <1>2, <1>5, <3>2, <3>3, <3>4
  <2>2. ASSUME p \in RowsOf(d) PROVE p \in RowsOf(d)'
    <3>1. PICK u \in Users : \E i \in 1 .. Len(ledger[u]) :
                                 p = <<u, i>> /\ ledger[u][i].call = d
      BY <1>3, <2>2
    <3>2. PICK i \in 1 .. Len(ledger[u]) : p = <<u, i>> /\ ledger[u][i].call = d
      BY <3>1
    <3>3. i \in 1 .. Len(ledger'[u]) /\ ledger'[u][i] = ledger[u][i]
      BY <1>2, <1>5, <3>2
    <3>4. QED
      BY <1>4, <3>2, <3>3
  <2>3. ASSUME p \in new PROVE p \in RowsOf(d)'
    <3>1. d = c /\ p = <<w, Len(ledger[w]) + 1>>
      BY <2>3
    <3>2. Len(ledger[w]) + 1 \in 1 .. Len(ledger'[w])
      BY <1>5
    <3>3. ledger'[w][Len(ledger[w]) + 1].call = d
      BY <1>1, <1>5, <3>1
    <3>4. QED
      BY <1>1, <1>4, <3>1, <3>2, <3>3
  <2>4. QED
    BY <2>1, <2>2, <2>3
<1>7. RowsOf(d)' = RowsOf(d) \cup new
  BY <1>6, Zenon
<1>8. QED
  BY <1>7 DEF w

(* A call that does not move keeps its record.                             *)
LEMMA RecordKept ==
    ASSUME NEW d \in Calls, CallRecord(d), RowsOf(d)' = RowsOf(d),
           pc'[d] = pc[d], job'[d] = job[d], usage'[d] = usage[d], result'[d] = result[d],
           d \in audited' => d \in audited
    PROVE  CallRecord(d)'
  BY DEF CallRecord, UsageOutcome, Priced

(* One usage event in an empty list.                                       *)
LEMMA FirstEvent ==
    /\ \A x : Append(<<>>, x) = <<x>>
    /\ <<>> # <<402>> /\ \A x, y : <<x>> = <<y>> => x = y
    /\ Len(<<>>) = 0 /\ \A x : <<>> # <<x>> /\ Len(<<x>>) = 1
  OBVIOUS

(* Starting a call leaves nothing behind yet.                              *)
LEMMA CallRecords ==
    ASSUME WalletInv, NEW c \in Calls, CallRecord(c), Call(c)
    PROVE  CallRecord(c)'
<1>1. pc \in [Calls -> PcSet] /\ job \in [Calls -> Job] /\ result \in [Calls -> Results]
  BY DEF WalletInv, TypeOK
<1>2. PICK j \in Jobs : /\ job' = [job EXCEPT ![c] = j]
                        /\ \/ CallGrant(c, j) \/ CallUsage(c, j)
                           \/ CallWallet(c, j) \/ CallPreflight(c, j)
  BY DEF Call
<1>3. RowsOf(c)' = {} /\ usage'[c] = <<>> /\ c \notin audited' /\ result[c] = "none"
  BY RowsMember DEF Call, CallRecord, tables
<1>4. job'[c] = j
  BY <1>1, <1>2
<1>5. /\ pc'[c] \in {"begin", "event", "done"} /\ (pc'[c] = "done" => j.kind \in {"grant", "preflight"})
      /\ (pc'[c] # "done" => result'[c] = result[c])
      /\ (pc'[c] = "done" /\ j.kind = "grant" => result'[c] = "bad_request")
      /\ (pc'[c] = "event" => j.kind = "usage" /\ ~(j.status = 200 /\ j.amount > 0))
      /\ (pc'[c] = "begin" /\ j.kind = "usage" => j.status = 200 /\ j.amount > 0)
  BY <1>1, <1>2 DEF CallGrant, CallUsage, CallWallet, CallPreflight, Goto, Finish
<1>6. QED
  BY <1>3, <1>4, <1>5 DEF CallRecord, Priced, InTx

(* A call that gives up leaves nothing behind, or a grant that is          *)
(* committed already.                                                      *)
LEMMA AbortRecords ==
    ASSUME WalletInv, NEW c \in Calls, CallRecord(c), pc[c] \in Active,
           Abort(c, "error") \/ Abort(c, "cancelled")
    PROVE  CallRecord(c)'
<1>1. pc \in [Calls -> PcSet] /\ result \in [Calls -> Results]
  BY DEF WalletInv, TypeOK
<1>2. UNCHANGED <<ledger, usage, audited, job>> /\ pc'[c] = "done" /\ result'[c] \in {"error", "cancelled"}
  BY <1>1 DEF Abort, tables, Finish, Goto
<1>3. RowsOf(c)' = RowsOf(c)
  BY <1>2, RowsMember
<1>4. QED
  BY <1>2, <1>3 DEF CallRecord, UsageOutcome, Priced, Active, InTx, Unheard

(* The steps between begin and commit, which nobody else sees, and those   *)
(* that end a call outside a transaction.                                  *)
LEMMA SilentRecords ==
    ASSUME WalletInv, NEW c \in Calls, CallRecord(c), Silent(c)
    PROVE  CallRecord(c)'
<1>1. /\ pc \in [Calls -> PcSet] /\ result \in [Calls -> Results] /\ job \in [Calls -> Job]
      /\ usage \in [Calls -> Seq({200, 402, 502})]
  BY DEF WalletInv, TypeOK
<1>2. CASE BeginTx(c) \/ SelectNoWallet(c) \/ InsertWallet(c) \/ WriteTx(c) \/ SelectWallet(c)
  <2>1. UNCHANGED <<ledger, usage, audited, job, result>> /\ pc[c] \in {"begin"} \cup InTx
    BY <1>2 DEF BeginTx, SelectNoWallet, InsertWallet, WriteTx, SelectWallet, tables, InTx
  <2>2. pc'[c] \in InTx /\ (pc'[c] = "reject" => job[c].kind = "usage")
    BY <1>1, <1>2 DEF BeginTx, SelectNoWallet, InsertWallet, WriteTx, SelectWallet, Goto, Decide, InTx
  <2>3. RowsOf(c)' = RowsOf(c)
    BY <2>1, RowsMember
  <2>4. QED
    BY <2>1, <2>2, <2>3 DEF CallRecord, Priced, InTx
<1>3. CASE InsertUsageEvent(c)
  <2>1. UNCHANGED <<ledger, audited, job>> /\ pc[c] = "event" /\ pc'[c] = "done" /\ result'[c] = "ok"
    BY <1>1, <1>3 DEF InsertUsageEvent, Finish, Goto
  <2>2. usage'[c] = <<job[c].status>>
    BY <1>1, <1>3, <2>1, FirstEvent DEF InsertUsageEvent, CallRecord
  <2>3. RowsOf(c)' = RowsOf(c)
    BY <2>1, RowsMember
  <2>4. QED
    BY <2>1, <2>2, <2>3 DEF CallRecord, UsageOutcome, Priced, InTx, Unheard
<1>4. CASE RejectUsage(c)
  <2>1. /\ UNCHANGED <<ledger, audited, job>> /\ pc[c] = "reject" /\ pc'[c] = "done"
        /\ result'[c] = "insufficient"
    BY <1>1, <1>4 DEF RejectUsage, Finish, Goto
  <2>2. usage'[c] = <<402>>
    BY <1>1, <1>4, <2>1, FirstEvent DEF RejectUsage, CallRecord, InTx
  <2>3. RowsOf(c)' = RowsOf(c)
    BY <2>1, RowsMember
  <2>4. QED
    BY <2>1, <2>2, <2>3 DEF CallRecord, UsageOutcome, Priced, InTx, Unheard
<1>5. CASE AuditGrant(c)
  <2>1. UNCHANGED <<ledger, usage, job>> /\ pc[c] = "audit" /\ pc'[c] = "done"
    BY <1>1, <1>5 DEF AuditGrant, Finish, Goto
  <2>2. RowsOf(c)' = RowsOf(c)
    BY <2>1, RowsMember
  <2>3. QED
    BY <2>1, <2>2 DEF CallRecord, InTx
<1>6. CASE PoolTimeout(c) \/ Busy(c) \/ DbError(c) \/ Cancel(c)
  <2>1. pc[c] \in Active /\ (Abort(c, "error") \/ Abort(c, "cancelled"))
    BY <1>6 DEF PoolTimeout, Busy, DbError, Cancel, Active, InTx
  <2>2. QED
    BY <2>1, AbortRecords
<1>7. CASE EventReplyLost(c)
  <2>1. /\ UNCHANGED <<ledger, audited, job>> /\ pc[c] \in {"event", "reject"}
        /\ pc'[c] = "done" /\ result'[c] \in Unheard
    BY <1>1, <1>7 DEF EventReplyLost, Finish, Goto, Unheard
  <2>2. usage'[c] = <<IF pc[c] = "reject" THEN 402 ELSE job[c].status>>
    <3>1. usage[c] = <<>>
      BY <2>1 DEF CallRecord, InTx
    <3> DEFINE code == IF pc[c] = "reject" THEN 402 ELSE job[c].status
    <3>2. usage'[c] = Append(usage[c], code)
      BY <1>1, <1>7 DEF EventReplyLost
    <3> HIDE DEF code
    <3>3. usage'[c] = <<code>>
      BY <3>1, <3>2, FirstEvent
    <3>4. QED
      BY <3>3 DEF code
  <2>3. RowsOf(c)' = RowsOf(c)
    BY <2>1, RowsMember
  <2>4. QED
    BY <2>1, <2>2, <2>3 DEF CallRecord, UsageOutcome, Priced, InTx, Unheard
<1>8. CASE AuditDropped(c)
  <2>1. UNCHANGED <<ledger, usage, job>> /\ pc[c] = "audit" /\ pc'[c] = "done"
    BY <1>1, <1>8 DEF AuditDropped, Finish, Goto
  <2>2. RowsOf(c)' = RowsOf(c)
    BY <2>1, RowsMember
  <2>3. QED
    BY <2>1, <2>2 DEF CallRecord, InTx
<1>9. QED
  BY <1>2, <1>3, <1>4, <1>5, <1>6, <1>7, <1>8 DEF Silent

(* COMMIT makes the charge and its usage event visible together.           *)
LEMMA CommitRecords ==
    ASSUME WalletInv, NEW c \in Calls, CallRecord(c), Committing(c)
    PROVE  CallRecord(c)'
<1>1. /\ pc \in [Calls -> PcSet] /\ result \in [Calls -> Results] /\ job \in [Calls -> Job]
      /\ usage \in [Calls -> Seq({200, 402, 502})]
  BY DEF WalletInv, TypeOK
<1>2. pc[c] = "commit" /\ Publish(c) /\ UNCHANGED <<job, audited>>
  BY DEF Committing, CommitTx, CommitReplyLost, Publish
<1>3. RowsOf(c) = {} /\ usage[c] = <<>> /\ result[c] = "none" /\ c \notin audited
      /\ (job[c].kind = "usage" => Priced(c))
  BY <1>2 DEF CallRecord, InTx
<1>4. /\ pc'[c] = "audit" => job[c].kind = "grant" /\ result'[c] = "none"
      /\ pc'[c] \in {"audit", "done"}
      /\ pc'[c] = "done" => IF job[c].kind \in {"grant", "usage"} THEN result'[c] \in {"ok"} \cup Unheard
                            ELSE result'[c] \in {"ok", "insufficient"} \cup Unheard
      /\ pc'[c] = "done" /\ job[c].kind = "grant" => result'[c] \in Unheard
  BY <1>1, <1>3 DEF Committing, CommitTx, CommitReplyLost, Goto, Finish, Unheard
<1>5. usage'[c] = IF job[c].kind = "usage" THEN <<200>> ELSE <<>>
  BY <1>1, <1>2, <1>3, FirstEvent DEF Publish, Priced
<1>6. CASE Posting(c)
  <2>1. RowsOf(c)' = {<<job[c].user, Len(ledger[job[c].user]) + 1>>}
    BY <1>2, <1>3, <1>6, PostRows
  <2>2. RowsOf(c)' # {} /\ \A p, q \in RowsOf(c)' : p = q
    BY <2>1
  <2>3. QED
    BY <1>2, <1>3, <1>4, <1>5, <2>2 DEF CallRecord, UsageOutcome, Priced, InTx, Unheard
<1>7. CASE ~Posting(c)
  <2>1. RowsOf(c)' = {}
    BY <1>2, <1>3, <1>7, RowsMember DEF Publish, Posting
  <2>2. QED
    BY <1>2, <1>3, <1>4, <1>5, <1>7, <2>1 DEF CallRecord, Priced, Posting, InTx
<1>8. QED
  BY <1>6, <1>7

(* Every step keeps every call's record.                                   *)
LEMMA NextRecord == WalletInv /\ RecordInv /\ [Next]_vars => RecordInv'
<1>1. SUFFICES ASSUME WalletInv, RecordInv, [Next]_vars, NEW d \in Calls
               PROVE  CallRecord(d)'
  BY DEF RecordInv
<1>2. /\ CallRecord(d) /\ pc \in [Calls -> PcSet] /\ result \in [Calls -> Results]
      /\ job \in [Calls -> Job] /\ usage \in [Calls -> Seq({200, 402, 502})]
  BY <1>1 DEF RecordInv, WalletInv, TypeOK
<1>3. ASSUME NEW c \in Calls, Call(c) \/ Silent(c) \/ Committing(c)
      PROVE  CallRecord(d)'
  <2>1. CASE d = c
    BY <1>1, <1>2, <1>3, <2>1, CallRecords, SilentRecords, CommitRecords
  <2>2. CASE d # c
    <3>1. CASE Call(c)
      <4>1. UNCHANGED <<ledger, usage, audited>>
        BY <3>1 DEF Call, tables
      <4>2. pc'[d] = pc[d] /\ job'[d] = job[d] /\ result'[d] = result[d]
        BY <1>2, <2>2, <3>1 DEF Call, CallGrant, CallUsage, CallWallet, CallPreflight, Goto, Finish
      <4>3. QED
        BY <1>2, <4>1, <4>2, RowsMember, RecordKept
    <3>2. CASE Silent(c)
      <4>1. UNCHANGED <<ledger, job>>
        BY <3>2 DEF Silent, InsertUsageEvent, BeginTx, SelectWallet, SelectNoWallet,
             InsertWallet, RejectUsage, WriteTx, AuditGrant, PoolTimeout, Busy,
             DbError, EventReplyLost, AuditDropped, Cancel, Abort, tables
      <4>2. pc'[d] = pc[d] /\ result'[d] = result[d]
        BY <1>2, <2>2, <3>2 DEF Silent, InsertUsageEvent, BeginTx, SelectWallet, SelectNoWallet,
             InsertWallet, RejectUsage, WriteTx, AuditGrant, PoolTimeout, Busy,
             DbError, EventReplyLost, AuditDropped, Cancel, Abort, Goto, Finish
      <4>3. usage'[d] = usage[d] /\ (d \in audited' => d \in audited)
        BY <1>2, <2>2, <3>2 DEF Silent, InsertUsageEvent, BeginTx, SelectWallet, SelectNoWallet,
             InsertWallet, RejectUsage, WriteTx, AuditGrant, PoolTimeout, Busy,
             DbError, EventReplyLost, AuditDropped, Cancel, Abort, tables
      <4>4. QED
        BY <1>2, <4>1, <4>2, <4>3, RowsMember, RecordKept
    <3>3. CASE Committing(c)
      <4>1. pc[c] = "commit" /\ Publish(c) /\ UNCHANGED <<job, audited>>
        BY <3>3 DEF Committing, CommitTx, CommitReplyLost, Publish
      <4>2. pc'[d] = pc[d] /\ result'[d] = result[d] /\ usage'[d] = usage[d]
        BY <1>2, <2>2, <3>3, <4>1
           DEF Committing, CommitTx, CommitReplyLost, Publish, Goto, Finish
      <4>3. RowsOf(d)' = RowsOf(d)
        <5>1. CASE Posting(c)
          BY <1>1, <2>2, <4>1, <5>1, PostRows
        <5>2. CASE ~Posting(c)
          BY <4>1, <5>2, RowsMember DEF Publish, Posting
        <5>3. QED
          BY <5>1, <5>2
      <4>4. QED
        BY <1>2, <4>1, <4>2, <4>3, RecordKept
    <3>4. QED
      BY <1>3, <3>1, <3>2, <3>3
  <2>3. QED
    BY <2>1, <2>2
<1>4. CASE UNCHANGED vars
  BY <1>2, <1>4, RowsMember, RecordKept DEF vars, tables
<1>5. QED
  BY <1>1, <1>3, <1>4, NextCases DEF Terminated

(* What every call leaves in the tables, in every reachable state.         *)
THEOREM RecordsHold == Spec => []RecordInv
<1>1. Init => RecordInv
  <2>1. SUFFICES ASSUME Init, NEW c \in Calls PROVE CallRecord(c)
    BY DEF RecordInv
  <2>2. RowsOf(c) = {}
    BY <2>1, RowsMember DEF Init
  <2>3. QED
    BY <2>1, <2>2 DEF Init, CallRecord, InTx
<1>2. WalletInv /\ RecordInv /\ [Next]_vars => RecordInv'
  BY NextRecord
<1>3. QED
  BY <1>1, <1>2, Inductive, PTL DEF Spec

(* The number of rows of a call.                                           *)
LEMMA RowCount ==
    ASSUME NEW c \in Calls, CallRecord(c)
    PROVE  Cardinality(RowsOf(c)) = IF RowsOf(c) = {} THEN 0 ELSE 1
<1>1. CASE RowsOf(c) = {}
  BY <1>1, FS_EmptySet
<1>2. CASE RowsOf(c) # {}
  <2>1. PICK p : RowsOf(c) = {p}
    BY <1>2 DEF CallRecord
  <2>2. QED
    BY <2>1, FS_Singleton
<1>3. QED
  BY <1>1, <1>2

(* A call is charged at most once and exactly with its 2xx usage event; a  *)
(* 402 event goes without a charge; and a caller of record_usage or        *)
(* grant_credits who hears of success or refusal finds it in the tables:   *)
(* whatever fails, times out, is dropped or loses its reply on the way.    *)
THEOREM CallsAccounted == Spec => []CallAccounted
<1>1. WalletInv /\ RecordInv => CallAccounted
  <2>1. SUFFICES ASSUME WalletInv, RecordInv, NEW c \in Calls
                 PROVE  LET charged == Cardinality(RowsOf(c)) IN
        /\ charged <= 1 /\ Len(usage[c]) <= 1
        /\ job[c].kind = "usage" =>
               (charged = 1 <=> Priced(c) /\ usage[c] = <<200>>)
        /\ usage[c] = <<402>> => result[c] \in {"insufficient"} \cup Unheard
        /\ result[c] = "insufficient" /\ job[c].kind = "usage" => usage[c] = <<402>>
        /\ result[c] = "ok" /\ job[c].kind = "usage" => usage[c] = <<job[c].status>>
        /\ result[c] = "ok" /\ job[c].kind = "grant" => charged = 1
    BY DEF CallAccounted
  <2>2. /\ CallRecord(c) /\ Cardinality(RowsOf(c)) = IF RowsOf(c) = {} THEN 0 ELSE 1
        /\ pc[c] \in PcSet /\ job[c].status \in {200, 502}
    BY <2>1, RowCount, JobType DEF RecordInv, WalletInv, TypeOK, Job
  <2>3. CASE pc[c] # "done"
    <3>1. /\ result[c] = "none" /\ usage[c] = <<>> /\ Len(usage[c]) = 0
          /\ (RowsOf(c) # {} => job[c].kind = "grant")
      BY <2>2, <2>3 DEF CallRecord, PcSet, Active, InTx
    <3>2. QED
      BY <2>2, <3>1, FirstEvent
  <2>4. CASE pc[c] = "done" /\ job[c].kind # "usage"
    <3>1. /\ usage[c] = <<>> /\ Len(usage[c]) = 0
          /\ (job[c].kind = "grant" /\ result[c] = "ok" => RowsOf(c) # {})
      BY <2>2, <2>4 DEF CallRecord
    <3>2. QED
      BY <2>2, <2>4, <3>1, FirstEvent
  <2>5. CASE pc[c] = "done" /\ job[c].kind = "usage"
    <3>1. UsageOutcome(c)
      BY <2>2, <2>5 DEF CallRecord
    <3>2. CASE RowsOf(c) = {} /\ usage[c] = <<>> /\ result[c] \in Unheard
      BY <2>2, <2>5, <3>2, FirstEvent DEF Unheard
    <3>3. CASE RowsOf(c) = {} /\ usage[c] = <<402>>
               /\ result[c] \in {"insufficient"} \cup Unheard /\ Priced(c)
      BY <2>2, <2>5, <3>3, FirstEvent DEF Unheard
    <3>4. CASE RowsOf(c) = {} /\ usage[c] = <<job[c].status>>
               /\ result[c] \in {"ok"} \cup Unheard /\ ~Priced(c)
      BY <2>2, <2>5, <3>4, FirstEvent DEF Unheard
    <3>5. CASE RowsOf(c) # {} /\ usage[c] = <<200>>
               /\ result[c] \in {"ok"} \cup Unheard /\ Priced(c)
      BY <2>2, <2>5, <3>5, FirstEvent DEF Priced, Unheard
    <3>6. QED
      BY <3>1, <3>2, <3>3, <3>4, <3>5 DEF UsageOutcome
  <2>6. QED
    BY <2>3, <2>4, <2>5
<1>2. QED
  BY <1>1, Inductive, RecordsHold, PTL

(* record_admin_audit writes its row only for a grant that is in the       *)
(* ledger, exactly once.                                                   *)
THEOREM AuditsStand == Spec => []AuditsAreReal
<1>1. WalletInv /\ RecordInv => AuditsAreReal
  <2>1. SUFFICES ASSUME WalletInv, RecordInv, NEW c \in audited
                 PROVE  Cardinality(RowsOf(c)) = 1
    BY DEF AuditsAreReal
  <2>2. c \in Calls /\ CallRecord(c) /\ RowsOf(c) # {}
    BY <2>1 DEF WalletInv, TypeOK, RecordInv, CallRecord
  <2>3. QED
    BY <2>2, RowCount
<1>2. QED
  BY <1>1, Inductive, RecordsHold, PTL
==============================================================================
