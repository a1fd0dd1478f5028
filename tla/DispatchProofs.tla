--------------------------- MODULE DispatchProofs ----------------------------
(***************************************************************************)
(* Proofs about Dispatch, for any number of jobs, daemons and nodes.       *)
(***************************************************************************)
EXTENDS Dispatch, TLAPS

(* What the status of a row says about the provider.                       *)
StatusMatchesRuns ==
    \A j \in Jobs :
        /\ executed[j] <= 1
        /\ status[j] \in {"none", "accepted"} => executed[j] = 0
        /\ status[j] \in {"succeeded", "failed"} => executed[j] = 1

(* What a daemon works on was handed to it, and belongs to its node.       *)
WorkIsHandedOut ==
    \A d \in Daemons :
        /\ dpc[d] \in {"run", "complete"} => work[d] # NoJob
        /\ work[d] # NoJob => /\ executed[work[d]] = 1
                              /\ node[work[d]] = NodeOf[d]
        /\ \A j \in cand[d] : node[j] = NodeOf[d]

(* A request that has not started has no row and no answer; one that waits *)
(* has a row, so that its timeout finds something to close.                *)
WaiterHasRow ==
    \A j \in Jobs :
        /\ waiter[j] = "idle" => status[j] = "none" /\ answer[j] = "none"
        /\ waiter[j] \in {"poll", "check", "mark"} => status[j] # "none"
        /\ answer[j] # "none" => waiter[j] = "returned"

(* A row is timed out only when its time is up, by the sweep or by the     *)
(* gateway's task; and a task that gives up either found it timed out, or  *)
(* found it open when it looked last.                                      *)
TimeIsUp ==
    \A j \in Jobs :
        /\ status[j] # "none" => deadline[j] = created[j] + Timeout
        /\ status[j] = "timed_out" => now >= created[j] + Timeout
        /\ waiter[j] = "check" => ~sawFinal[j]
        /\ waiter[j] = "mark" =>
               /\ now >= created[j] + Timeout
               /\ sawFinal[j] => status[j] = "timed_out"

DispatchInv ==
    /\ TypeOK
    /\ StatusMatchesRuns
    /\ WorkIsHandedOut
    /\ WaiterHasRow
    /\ TimeIsUp
    /\ AnswerMatchesJob

-----------------------------------------------------------------------------
(* The initial state has the types.                                        *)
LEMMA InitType == Init => TypeOK
  BY DEF Init, TypeOK, Status, Open, Terminal, WaiterStates, Answers, DaemonStates

(* A batch is part of what it was chosen from.                             *)
LEMMA BatchIsSubset ==
  ASSUME NEW S, NEW B \in Batches(S) PROVE B \subseteq S
  BY DEF Batches

(* Steps of the gateway's task keep the types.                             *)
LEMMA WaiterType ==
  ASSUME TypeOK, NEW j \in Jobs,
         CreateJob(j) \/ WaiterStep(j) \/ WaiterFault(j)
  PROVE  TypeOK'
<1> USE DispatchAssumption DEF TypeOK, Status, Open, Terminal, WaiterStates, Answers, DaemonStates
<1>1. CASE CreateJob(j)
  BY <1>1 DEF CreateJob, InsertJob, daemon
<1>2. CASE CreateFails(j)
  BY <1>2 DEF CreateFails, InsertJob, Return, table, daemon
<1>3. CASE FetchResult(j)
  BY <1>3 DEF FetchResult, Return, table, daemon
<1>4. CASE CheckElapsed(j)
  BY <1>4 DEF CheckElapsed, table, daemon
<1>5. CASE MarkTimedOut(j)
  BY <1>5 DEF MarkTimedOut, CloseRow, Return, daemon
<1>6. CASE WaiterError(j)
  BY <1>6 DEF WaiterError, CloseRow, Return, table, daemon
<1>7. CASE ClientGone(j)
  BY <1>7 DEF ClientGone, CloseRow, table, daemon
<1> QED BY <1>1, <1>2, <1>3, <1>4, <1>5, <1>6, <1>7 DEF WaiterStep, WaiterFault

(* Steps of a daemon keep the types.                                       *)
LEMMA DaemonType ==
  ASSUME TypeOK, NEW d \in Daemons, DaemonStep(d) \/ DaemonLoses(d)
  PROVE  TypeOK'
<1> USE DispatchAssumption DEF TypeOK, Status, Open, Terminal, WaiterStates, Answers, DaemonStates
<1>1. CASE ExpireJobs(d)
  BY <1>1 DEF ExpireJobs
<1>2. CASE SelectJobs(d)
  <2>1. PICK B \in Batches(Eligible(NodeOf[d])) : cand' = [cand EXCEPT ![d] = B]
    BY <1>2 DEF SelectJobs
  <2>2. B \subseteq Jobs
    BY <2>1, BatchIsSubset DEF Eligible
  <2> QED BY <1>2, <2>1, <2>2 DEF SelectJobs, table
<1>3. CASE ClaimJob(d)
  BY <1>3 DEF ClaimJob, Oldest
<1>4. CASE NothingToLease(d)
  BY <1>4 DEF NothingToLease, table
<1>5. CASE RunProvider(d)
  BY <1>5 DEF RunProvider, table
<1>6. CASE CompleteJob(d)
  BY <1>6 DEF CompleteJob, BackToPoll
<1>7. CASE DaemonLoses(d)
  BY <1>7 DEF DaemonLoses, BackToPoll, table
<1> QED BY <1>1, <1>2, <1>3, <1>4, <1>5, <1>6, <1>7 DEF DaemonStep

(* Every step keeps the types.                                             *)
LEMMA NextType == TypeOK /\ [Next]_vars => TypeOK'
<1> SUFFICES ASSUME TypeOK, [Next]_vars PROVE TypeOK' OBVIOUS
<1>1. CASE Tick
  BY <1>1 DEF Tick, TypeOK, table, daemon
<1>2. CASE UNCHANGED vars
  BY <1>2 DEF vars, TypeOK, table, daemon
<1> QED BY <1>1, <1>2, WaiterType, DaemonType DEF Next

(* The rows of dispatch_jobs and the locals of every process have their    *)
(* types, whatever the number of jobs, daemons and nodes.                  *)
THEOREM TypeCorrect == Spec => []TypeOK
  BY InitType, NextType, PTL DEF Spec

-----------------------------------------------------------------------------
(* The initial state satisfies the invariant.                              *)
LEMMA InitInv == Init => DispatchInv
<1> SUFFICES ASSUME Init PROVE DispatchInv OBVIOUS
<1>1. TypeOK BY InitType
<1> QED BY <1>1 DEF Init, DispatchInv, StatusMatchesRuns, WorkIsHandedOut,
                    WaiterHasRow, TimeIsUp, AnswerMatchesJob, Terminal

(* Steps of the gateway's task keep the invariant: a row is opened only    *)
(* for a request that has no row, and closed only while it is open.        *)
LEMMA WaiterInv ==
  ASSUME DispatchInv, NEW j \in Jobs,
         CreateJob(j) \/ WaiterStep(j) \/ WaiterFault(j)
  PROVE  DispatchInv'
<1>0. TypeOK' BY WaiterType DEF DispatchInv
<1>q. SUFFICES StatusMatchesRuns' /\ WorkIsHandedOut' /\ WaiterHasRow' /\ TimeIsUp' /\ AnswerMatchesJob'
  BY <1>0 DEF DispatchInv
<1> USE DispatchAssumption DEF DispatchInv, TypeOK, StatusMatchesRuns, WorkIsHandedOut, WaiterHasRow,
            TimeIsUp, AnswerMatchesJob, Status, Open, Terminal, WaiterStates, Answers
<1>1. CASE CreateJob(j)
  BY <1>1 DEF CreateJob, InsertJob, daemon
<1>2. CASE CreateFails(j)
  BY <1>2 DEF CreateFails, InsertJob, Return, table, daemon
<1>3. CASE FetchResult(j)
  <2>1. /\ sawFinal'[j] = (status[j] \in Terminal)
        /\ \A i \in Jobs : i # j => sawFinal'[i] = sawFinal[i]
    BY <1>3, Zenon DEF FetchResult
  <2>2. /\ UNCHANGED <<table, now, daemon, executed>>
        /\ \A i \in Jobs : i # j => waiter'[i] = waiter[i] /\ answer'[i] = answer[i]
        /\ waiter[j] = "poll"
        /\ IF status[j] \in {"succeeded", "failed"}
           THEN waiter'[j] = "returned" /\ answer'[j] = status[j]
           ELSE /\ waiter'[j] = IF status[j] = "timed_out" THEN "mark" ELSE "check"
                /\ answer'[j] = answer[j]
    BY <1>3 DEF FetchResult, Return
  <2>3. StatusMatchesRuns' /\ WorkIsHandedOut' /\ WaiterHasRow'
    BY <2>2 DEF table, daemon
  <2>4. TimeIsUp'
    <3>1. SUFFICES ASSUME NEW i \in Jobs
                   PROVE  /\ status'[i] # "none" => deadline'[i] = created'[i] + Timeout
                          /\ status'[i] = "timed_out" => now' >= created'[i] + Timeout
                          /\ waiter'[i] = "check" => ~sawFinal'[i]
                          /\ waiter'[i] = "mark" =>
                                 /\ now' >= created'[i] + Timeout
                                 /\ sawFinal'[i] => status'[i] = "timed_out"
      OBVIOUS
    <3>2. sawFinal'[j] <=> status[j] \in Terminal
      BY <2>1
    <3>3. i # j => (sawFinal'[i] <=> sawFinal[i])
      BY <2>1, <3>1
    <3>4. CASE i = j
      BY <2>2, <3>2, <3>4 DEF table
    <3>5. CASE i # j
      BY <2>2, <3>3, <3>5 DEF table
    <3> QED BY <3>4, <3>5
  <2>5. AnswerMatchesJob'
    BY <2>1, <2>2 DEF table
  <2> QED BY <2>3, <2>4, <2>5
<1>4. CASE CheckElapsed(j)
  BY <1>4 DEF CheckElapsed, table, daemon
<1>5. CASE MarkTimedOut(j)
  BY <1>5 DEF MarkTimedOut, CloseRow, Return, daemon
<1>6. CASE WaiterError(j)
  BY <1>6 DEF WaiterError, CloseRow, Return, table, daemon
<1>7. CASE ClientGone(j)
  BY <1>7 DEF ClientGone, CloseRow, table, daemon
<1> QED BY <1>1, <1>2, <1>3, <1>4, <1>5, <1>6, <1>7 DEF WaiterStep, WaiterFault

(* Steps of a daemon keep the invariant: the conditional UPDATEs claim     *)
(* only an accepted row and complete only a leased one.                    *)
LEMMA DaemonInv ==
  ASSUME DispatchInv, NEW d \in Daemons, DaemonStep(d) \/ DaemonLoses(d)
  PROVE  DispatchInv'
<1>0. TypeOK' BY DaemonType DEF DispatchInv
<1>q. SUFFICES StatusMatchesRuns' /\ WorkIsHandedOut' /\ WaiterHasRow' /\ TimeIsUp' /\ AnswerMatchesJob'
  BY <1>0 DEF DispatchInv
<1> USE DispatchAssumption
    DEF DispatchInv, TypeOK, StatusMatchesRuns, WorkIsHandedOut, WaiterHasRow,
        TimeIsUp, AnswerMatchesJob, Status, Open, Terminal, Answers, DaemonStates
<1>1. CASE ExpireJobs(d)
  BY <1>1 DEF ExpireJobs
<1>2. CASE SelectJobs(d)
  <2>1. PICK B \in Batches(Eligible(NodeOf[d])) : cand' = [cand EXCEPT ![d] = B]
    BY <1>2 DEF SelectJobs
  <2>2. \A j \in B : j \in Jobs /\ node[j] = NodeOf[d]
    BY <2>1, BatchIsSubset DEF Eligible
  <2> QED BY <1>2, <2>1, <2>2 DEF SelectJobs, table
<1>3. CASE ClaimJob(d)
  <2>1. PICK j \in cand[d] :
          IF status[j] = "accepted"
          THEN /\ status' = [status EXCEPT ![j] = "leased"]
               /\ cand' = [cand EXCEPT ![d] = {}]
               /\ \/ /\ work' = [work EXCEPT ![d] = j]
                     /\ executed' = [executed EXCEPT ![j] = @ + 1]
                     /\ dpc' = [dpc EXCEPT ![d] = "run"]
                  \/ /\ dpc' = [dpc EXCEPT ![d] = "poll"]
                     /\ UNCHANGED <<work, executed>>
          ELSE /\ cand' = [cand EXCEPT ![d] = @ \ {j}]
               /\ UNCHANGED <<status, work, executed, dpc>>
    BY <1>3 DEF ClaimJob, Oldest
  <2>2. j \in Jobs /\ node[j] = NodeOf[d] BY <2>1
  <2>3. UNCHANGED <<node, deadline, created, now, waiter, answer, sawFinal>> BY <1>3 DEF ClaimJob
  <2>4. StatusMatchesRuns' BY <2>1, <2>2, <2>3
  <2>5. WorkIsHandedOut' BY <2>1, <2>2, <2>3
  <2>6. WaiterHasRow' BY <2>1, <2>2, <2>3
  <2>7. AnswerMatchesJob' BY <2>1, <2>2, <2>3
  <2>8. TimeIsUp' BY <2>1, <2>2, <2>3
  <2> QED BY <2>4, <2>5, <2>6, <2>7, <2>8
<1>4. CASE NothingToLease(d)
  BY <1>4 DEF NothingToLease, table
<1>5. CASE RunProvider(d)
  BY <1>5 DEF RunProvider, table
<1>6. CASE CompleteJob(d)
  BY <1>6 DEF CompleteJob, BackToPoll
<1>7. CASE DaemonLoses(d)
  BY <1>7 DEF DaemonLoses, BackToPoll, table
<1> QED BY <1>1, <1>2, <1>3, <1>4, <1>5, <1>6, <1>7 DEF DaemonStep

(* Every step keeps the invariant.                                         *)
LEMMA NextInv == DispatchInv /\ [Next]_vars => DispatchInv'
<1> SUFFICES ASSUME DispatchInv, [Next]_vars PROVE DispatchInv' OBVIOUS
<1>1. CASE Tick \/ UNCHANGED vars
  <2>1. TypeOK' BY NextType DEF DispatchInv
  <2> QED BY <1>1, <2>1, DispatchAssumption
          DEF Tick, vars, table, daemon, DispatchInv, TypeOK,
             StatusMatchesRuns, WorkIsHandedOut, WaiterHasRow, TimeIsUp, AnswerMatchesJob
<1> QED BY <1>1, WaiterInv, DaemonInv DEF Next

(* The inductive invariant holds in every reachable state.                 *)
THEOREM Inductive == Spec => []DispatchInv
  BY InitInv, NextInv, PTL DEF Spec

(* However many daemons share a node's token, a job is handed to at most   *)
(* one provider call, and only to a daemon of its own node.                *)
THEOREM HandedOutOnce == Spec => []ExecutedAtMostOnce
<1>1. DispatchInv => ExecutedAtMostOnce
  BY DEF DispatchInv, ExecutedAtMostOnce, StatusMatchesRuns, WorkIsHandedOut
<1> QED BY <1>1, Inductive, PTL

(* A row says succeeded or failed only after a provider call.              *)
THEOREM VerdictsEarned == Spec => []VerdictsAreEarned
<1>1. DispatchInv => VerdictsAreEarned
  BY DEF DispatchInv, VerdictsAreEarned, StatusMatchesRuns
<1> QED BY <1>1, Inductive, PTL

(* A verdict the gateway answers is the row's, for good; a timeout is      *)
(* never answered early, and beside it stands a row that is timed out or   *)
(* got its verdict after the task's last poll.                             *)
THEOREM AnswersMatch == Spec => []AnswerMatchesJob
<1>1. DispatchInv => AnswerMatchesJob BY DEF DispatchInv
<1> QED BY <1>1, Inductive, PTL

(* No step changes a final status or hands out a job that has one.         *)
LEMMA TerminalIsStable ==
  DispatchInv /\ [Next]_vars =>
      \A j \in Jobs : status[j] \in Terminal =>
          status'[j] = status[j] /\ executed'[j] = executed[j]
<1> SUFFICES ASSUME DispatchInv, [Next]_vars, NEW j \in Jobs, status[j] \in Terminal
             PROVE  status'[j] = status[j] /\ executed'[j] = executed[j]
  OBVIOUS
<1> USE DEF DispatchInv, TypeOK, Open, Terminal
<1>1. CASE \E i \in Jobs : CreateJob(i) \/ WaiterStep(i) \/ WaiterFault(i)
  BY <1>1 DEF WaiterStep, WaiterFault, CreateJob, CreateFails, InsertJob, FetchResult,
              CheckElapsed, MarkTimedOut, CloseRow, WaiterError, ClientGone, WaiterHasRow, table
<1>2. CASE \E d \in Daemons : DaemonStep(d) \/ DaemonLoses(d)
  <2> PICK d \in Daemons : DaemonStep(d) \/ DaemonLoses(d) BY <1>2
  <2>1. CASE ExpireJobs(d) BY <2>1 DEF ExpireJobs
  <2>2. CASE ClaimJob(d) BY <2>2 DEF ClaimJob, Oldest
  <2>3. CASE CompleteJob(d) BY <2>3 DEF CompleteJob
  <2>4. CASE SelectJobs(d) \/ NothingToLease(d) \/ RunProvider(d) \/ DaemonLoses(d)
    BY <2>4 DEF SelectJobs, NothingToLease, RunProvider, DaemonLoses, table
  <2> QED BY <2>1, <2>2, <2>3, <2>4 DEF DaemonStep
<1>3. CASE Tick \/ UNCHANGED vars
  BY <1>3 DEF Tick, vars, table
<1> QED BY <1>1, <1>2, <1>3 DEF Next

(* Of a late completion, an expiry sweep and the gateway's timeout, the    *)
(* first one wins and no other overwrites it.                              *)
THEOREM FinalStays == Spec => FinalIsFinal
<1>1. DispatchInv /\ [Next]_vars =>
        [\A j \in Jobs : status[j] \in Terminal => status'[j] = status[j]]_vars
  BY TerminalIsStable
<1> QED BY <1>1, Inductive, PTL DEF Spec, FinalIsFinal

(* After the gateway answered with a verdict or a timeout no daemon is     *)
(* handed the job.                                                         *)
THEOREM NoLateStart == Spec => NoStartAfterAnswer
<1>1. DispatchInv /\ [Next]_vars =>
        [\A j \in Jobs : answer[j] \in Terminal => executed'[j] = executed[j]]_vars
  <2> SUFFICES ASSUME DispatchInv, [Next]_vars, NEW j \in Jobs, answer[j] \in Terminal
               PROVE  executed'[j] = executed[j]
    OBVIOUS
  <2>1. status[j] \in Terminal
    BY DEF DispatchInv, AnswerMatchesJob, Terminal
  <2> QED BY <2>1, TerminalIsStable
<1> QED BY <1>1, Inductive, PTL DEF Spec, NoStartAfterAnswer
==============================================================================
