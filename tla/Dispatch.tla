------------------------------ MODULE Dispatch -------------------------------
(***************************************************************************)
(* Dispatch of chat requests to self-hosted daemons: the dispatch_jobs     *)
(* table and the gateway task that waits on a row                          *)
(* (crates/mizan-api/src/dispatch.rs), and the polling loop of a daemon    *)
(* (crates/mizan-daemon/src/main.rs).  They share nothing but the table;   *)
(* the HTTP calls between daemon and API may be lost either way, daemons   *)
(* restart, and clients go away.                                           *)
(***************************************************************************)
EXTENDS Integers, FiniteSets

CONSTANTS
    Jobs,       \* dispatch jobs, one per daemon-routed gateway request
    Daemons,    \* daemon processes
    Nodes,      \* registered daemon nodes (a token each)
    NodeOf,     \* NodeOf[d]: the node whose token daemon d runs with
    Timeout,    \* timeout_seconds of a dispatch, in ticks
    Batch,      \* how many candidates a lease call looks at (LIMIT 5)
    MaxTime,    \* bound on the clock
    Faults      \* TRUE: calls are lost, daemons restart, clients disconnect

NoJob == "no job"

ASSUME DispatchAssumption ==
    /\ NoJob \notin Jobs
    /\ NodeOf \in [Daemons -> Nodes]
    /\ Timeout \in Nat \ {0}
    /\ Batch \in Nat \ {0}
    /\ MaxTime \in Nat
    /\ Faults \in BOOLEAN

Open == {"accepted", "leased"}
Terminal == {"succeeded", "failed", "timed_out"}
Status == {"none"} \cup Open \cup Terminal

VARIABLES
    \* dispatch_jobs
    status, node, deadline, created,
    now,        \* the clock, in ticks
    \* dispatch_to_daemon_node, per job
    waiter,     \* where the gateway task is
    answer,     \* what it returned
    \* the daemon, with the API handler that serves its current call
    dpc, cand, work, outcome,
    executed,   \* history: how often a provider call was started for a job
    sawFinal    \* history: the task's last fetch found a final status

table  == <<status, node, deadline, created>>
daemon == <<dpc, cand, work, outcome>>
vars   == <<table, now, waiter, answer, daemon, executed, sawFinal>>

WaiterStates == {"idle", "poll", "check", "mark", "returned", "gone"}
DaemonStates == {"poll", "select", "claim", "run", "complete"}
Answers == {"none", "error"} \cup Terminal

Init ==
    /\ status = [j \in Jobs |-> "none"]
    /\ node \in [Jobs -> Nodes]
    /\ deadline = [j \in Jobs |-> 0]
    /\ created = [j \in Jobs |-> 0]
    /\ now = 0
    /\ waiter = [j \in Jobs |-> "idle"]
    /\ answer = [j \in Jobs |-> "none"]
    /\ dpc = [d \in Daemons |-> "poll"]
    /\ cand = [d \in Daemons |-> {}]
    /\ work = [d \in Daemons |-> NoJob]
    /\ outcome = [d \in Daemons |-> "failed"]
    /\ executed = [j \in Jobs |-> 0]
    /\ sawFinal = [j \in Jobs |-> FALSE]

-----------------------------------------------------------------------------
(* The gateway: create_dispatch_job, then wait_for_dispatch_result.        *)

InsertJob(j) ==
    /\ status' = [status EXCEPT ![j] = "accepted"]
    /\ deadline' = [deadline EXCEPT ![j] = now + Timeout]
    /\ created' = [created EXCEPT ![j] = now]
    /\ UNCHANGED node

Return(j, a) ==
    /\ waiter' = [waiter EXCEPT ![j] = "returned"]
    /\ answer' = [answer EXCEPT ![j] = a]

CreateJob(j) ==
    /\ waiter[j] = "idle"
    /\ now + Timeout < MaxTime
    /\ InsertJob(j)
    /\ waiter' = [waiter EXCEPT ![j] = "poll"]
    /\ UNCHANGED <<now, answer, daemon, executed, sawFinal>>

(* The INSERT fails, or its reply is lost and a row is there that nobody   *)
(* waits for.                                                              *)
CreateFails(j) ==
    /\ Faults
    /\ waiter[j] = "idle"
    /\ now + Timeout < MaxTime
    /\ InsertJob(j) \/ UNCHANGED table
    /\ Return(j, "error")
    /\ UNCHANGED <<now, daemon, executed, sawFinal>>

(* Mutant: a failure found in the row is not taken for final.              *)
FetchResultSuccessOnly(j) ==
    /\ waiter[j] = "poll"
    /\ sawFinal' = [sawFinal EXCEPT ![j] = status[j] \in Terminal]
    /\ IF status[j] = "succeeded"
       THEN Return(j, status[j])
       ELSE /\ waiter' = [waiter EXCEPT ![j] =
                             IF status[j] = "timed_out" THEN "mark" ELSE "check"]
            /\ UNCHANGED answer
    /\ UNCHANGED <<table, now, daemon, executed>>

(* fetch_terminal_result; a timeout found in the row goes through          *)
(* mark_job_timed_out like one of the task's own.                          *)
FetchResult(j) ==
    /\ waiter[j] = "poll"
    /\ sawFinal' = [sawFinal EXCEPT ![j] = status[j] \in Terminal]
    /\ IF status[j] \in {"succeeded", "failed"}
       THEN Return(j, status[j])
       ELSE /\ waiter' = [waiter EXCEPT ![j] =
                             IF status[j] = "timed_out" THEN "mark" ELSE "check"]
            /\ UNCHANGED answer
    /\ UNCHANGED <<table, now, daemon, executed>>

(* Mutant: the clock of the wait is restarted by every round.              *)
CheckElapsedNever(j) ==
    /\ waiter[j] = "check"
    /\ waiter' = [waiter EXCEPT ![j] = "poll"]
    /\ UNCHANGED <<table, now, answer, daemon, executed, sawFinal>>

(* The result fetched before was not final: give up or sleep and go on.    *)
CheckElapsed(j) ==
    /\ waiter[j] = "check"
    /\ waiter' = [waiter EXCEPT ![j] =
                     IF now - created[j] >= Timeout THEN "mark" ELSE "poll"]
    /\ UNCHANGED <<table, now, answer, daemon, executed, sawFinal>>

(* Mutant: the row is not updated at all.                                  *)
MarkTimedOutForgotten(j) ==
    /\ waiter[j] = "mark"
    /\ Return(j, "timed_out")
    /\ UNCHANGED <<table, now, daemon, executed, sawFinal>>

(* What mark_job_timed_out does to the row.                                *)
CloseRow(j) ==
    /\ status' = [status EXCEPT ![j] = IF @ \in Open THEN "timed_out" ELSE @]
    /\ UNCHANGED <<node, deadline, created>>

(* mark_job_timed_out, then the answer: how many rows changed is not       *)
(* looked at, so a verdict stored since the last poll is not reported.     *)
MarkTimedOut(j) ==
    /\ waiter[j] = "mark"
    /\ CloseRow(j)
    /\ Return(j, "timed_out")
    /\ UNCHANGED <<now, daemon, executed, sawFinal>>

(* A statement of the waiting task fails: the request ends in an error and *)
(* the row is left as it is, or closed by an UPDATE whose reply is lost.   *)
WaiterError(j) ==
    /\ Faults
    /\ waiter[j] \in {"poll", "mark"}
    /\ UNCHANGED table \/ (waiter[j] = "mark" /\ CloseRow(j))
    /\ Return(j, "error")
    /\ UNCHANGED <<now, daemon, executed, sawFinal>>

(* The client disconnects: the task is dropped, between statements or      *)
(* while the UPDATE is in flight.                                          *)
ClientGone(j) ==
    /\ Faults
    /\ waiter[j] \in {"poll", "check", "mark"}
    /\ UNCHANGED table \/ (waiter[j] = "mark" /\ CloseRow(j))
    /\ waiter' = [waiter EXCEPT ![j] = "gone"]
    /\ UNCHANGED <<now, answer, daemon, executed, sawFinal>>

-----------------------------------------------------------------------------
(* The daemon's loop: lease_and_run_one_job, with lease_next_job_for_node  *)
(* and complete_job on the other side of its calls.                        *)

(* Mutants: an expired job is stored as failed; leased jobs are not swept. *)
ExpireJobsAsFailed(d) ==
    /\ dpc[d] = "poll"
    /\ status' = [j \in Jobs |-> IF status[j] \in Open /\ deadline[j] < now
                                 THEN "failed" ELSE status[j]]
    /\ dpc' = [dpc EXCEPT ![d] = "select"]
    /\ UNCHANGED <<node, deadline, created, now, waiter, answer,
                   cand, work, outcome, executed, sawFinal>>

ExpireJobsAcceptedOnly(d) ==
    /\ dpc[d] = "poll"
    /\ status' = [j \in Jobs |-> IF status[j] = "accepted" /\ deadline[j] < now
                                 THEN "timed_out" ELSE status[j]]
    /\ dpc' = [dpc EXCEPT ![d] = "select"]
    /\ UNCHANGED <<node, deadline, created, now, waiter, answer,
                   cand, work, outcome, executed, sawFinal>>

(* mark_expired_jobs_timed_out, over the jobs of every node.               *)
ExpireJobs(d) ==
    /\ dpc[d] = "poll"
    /\ status' = [j \in Jobs |-> IF status[j] \in Open /\ deadline[j] < now
                                 THEN "timed_out" ELSE status[j]]
    /\ dpc' = [dpc EXCEPT ![d] = "select"]
    /\ UNCHANGED <<node, deadline, created, now, waiter, answer,
                   cand, work, outcome, executed, sawFinal>>

(* The jobs of node n that may be leased.                                  *)
Eligible(n) == {j \in Jobs : /\ node[j] = n
                             /\ status[j] = "accepted"
                             /\ deadline[j] >= now}

(* ORDER BY created_at LIMIT Batch; jobs of one second in any order.       *)
Batches(S) ==
    {B \in SUBSET S :
        /\ Cardinality(B) <= Batch
        /\ B # S => Cardinality(B) = Batch
        /\ \A i \in B, j \in S \ B : created[i] <= created[j]}

SelectJobs(d) ==
    /\ dpc[d] = "select"
    /\ \E B \in Batches(Eligible(NodeOf[d])) : cand' = [cand EXCEPT ![d] = B]
    /\ dpc' = [dpc EXCEPT ![d] = "claim"]
    /\ UNCHANGED <<table, now, waiter, answer, work, outcome, executed, sawFinal>>

(* The candidate tried first.                                              *)
Oldest(S) == {j \in S : \A i \in S : created[j] <= created[i]}

(* Mutant: the UPDATE claims a row whatever its status.                    *)
ClaimJobAnyStatus(d) ==
    /\ dpc[d] = "claim"
    /\ \E j \in Oldest(cand[d]) :
        /\ status' = [status EXCEPT ![j] = "leased"]
        /\ cand' = [cand EXCEPT ![d] = {}]
        /\ work' = [work EXCEPT ![d] = j]
        /\ executed' = [executed EXCEPT ![j] = @ + 1]
        /\ dpc' = [dpc EXCEPT ![d] = "run"]
    /\ UNCHANGED <<node, deadline, created, now, waiter, answer, outcome, sawFinal>>

(* The UPDATE that claims a row only if it is still accepted.              *)
ClaimJob(d) ==
    /\ dpc[d] = "claim"
    /\ \E j \in Oldest(cand[d]) :
        IF status[j] = "accepted"
        THEN /\ status' = [status EXCEPT ![j] = "leased"]
             /\ cand' = [cand EXCEPT ![d] = {}]
             /\ \/ /\ work' = [work EXCEPT ![d] = j]
                   /\ executed' = [executed EXCEPT ![j] = @ + 1]
                   /\ dpc' = [dpc EXCEPT ![d] = "run"]
                \/ /\ Faults                 \* the reply does not arrive
                   /\ dpc' = [dpc EXCEPT ![d] = "poll"]
                   /\ UNCHANGED <<work, executed>>
        ELSE /\ cand' = [cand EXCEPT ![d] = @ \ {j}]
             /\ UNCHANGED <<status, work, executed, dpc>>
    /\ UNCHANGED <<node, deadline, created, now, waiter, answer, outcome, sawFinal>>

(* No candidate is left: the handler answers that there is no job.         *)
NothingToLease(d) ==
    /\ dpc[d] = "claim"
    /\ cand[d] = {}
    /\ dpc' = [dpc EXCEPT ![d] = "poll"]
    /\ UNCHANGED <<table, now, waiter, answer, cand, work, outcome, executed, sawFinal>>

(* call_local_provider answers or fails.                                   *)
RunProvider(d) ==
    /\ dpc[d] = "run"
    /\ \E o \in {"succeeded", "failed"} : outcome' = [outcome EXCEPT ![d] = o]
    /\ dpc' = [dpc EXCEPT ![d] = "complete"]
    /\ UNCHANGED <<table, now, waiter, answer, cand, work, executed, sawFinal>>

BackToPoll(d) ==
    /\ dpc' = [dpc EXCEPT ![d] = "poll"]
    /\ work' = [work EXCEPT ![d] = NoJob]
    /\ cand' = [cand EXCEPT ![d] = {}]

(* Mutant: a completion is stored whatever the row's status.               *)
CompleteJobAnyStatus(d) ==
    LET j == work[d] IN
    /\ dpc[d] = "complete"
    /\ status' = [status EXCEPT ![j] = outcome[d]]
    /\ BackToPoll(d)
    /\ UNCHANGED <<node, deadline, created, now, waiter, answer, outcome, executed, sawFinal>>

(* complete_job: only a row that this node still leases is changed; a      *)
(* rejected completion is only logged by the daemon.                       *)
CompleteJob(d) ==
    LET j == work[d] IN
    /\ dpc[d] = "complete"
    /\ status' = IF status[j] = "leased" /\ node[j] = NodeOf[d]
                 THEN [status EXCEPT ![j] = outcome[d]] ELSE status
    /\ BackToPoll(d)
    /\ UNCHANGED <<node, deadline, created, now, waiter, answer, outcome, executed, sawFinal>>

(* A call is lost before it reaches the API, or the daemon restarts.       *)
DaemonLoses(d) ==
    /\ Faults
    /\ dpc[d] # "poll"
    /\ BackToPoll(d)
    /\ UNCHANGED <<table, now, waiter, answer, outcome, executed, sawFinal>>

Tick ==
    /\ now < MaxTime
    /\ now' = now + 1
    /\ UNCHANGED <<table, waiter, answer, daemon, executed, sawFinal>>

WaiterStep(j) == FetchResult(j) \/ CheckElapsed(j) \/ MarkTimedOut(j)
DaemonStep(d) == \/ ExpireJobs(d) \/ SelectJobs(d) \/ ClaimJob(d)
                 \/ NothingToLease(d) \/ RunProvider(d) \/ CompleteJob(d)

WaiterFault(j) == CreateFails(j) \/ WaiterError(j) \/ ClientGone(j)

Next == \/ \E j \in Jobs : CreateJob(j) \/ WaiterStep(j) \/ WaiterFault(j)
        \/ \E d \in Daemons : DaemonStep(d) \/ DaemonLoses(d)
        \/ Tick

Spec == Init /\ [][Next]_vars

(* The gateway's task is polled and time passes.                           *)
GatewayFair == WF_vars(Tick) /\ \A j \in Jobs : WF_vars(WaiterStep(j))

(* Some daemon that is still there keeps polling.                          *)
DaemonFair == \A d \in Daemons : WF_vars(DaemonStep(d))

FairSpec == Spec /\ GatewayFair

-----------------------------------------------------------------------------
(* Properties.                                                             *)

(* Shape of the state.                                                     *)
TypeOK ==
    /\ status \in [Jobs -> Status]
    /\ node \in [Jobs -> Nodes]
    /\ deadline \in [Jobs -> Nat]
    /\ created \in [Jobs -> Nat]
    /\ now \in Nat
    /\ waiter \in [Jobs -> WaiterStates]
    /\ answer \in [Jobs -> Answers]
    /\ dpc \in [Daemons -> DaemonStates]
    /\ cand \in [Daemons -> SUBSET Jobs]
    /\ work \in [Daemons -> Jobs \cup {NoJob}]
    /\ outcome \in [Daemons -> {"succeeded", "failed"}]
    /\ executed \in [Jobs -> Nat]
    /\ sawFinal \in [Jobs -> BOOLEAN]

(* However many daemons of a node poll at once, restart or lose replies, a *)
(* job is handed to a provider at most once, and by its own node.          *)
ExecutedAtMostOnce ==
    /\ \A j \in Jobs : executed[j] <= 1
    /\ \A d \in Daemons : work[d] # NoJob => node[work[d]] = NodeOf[d]

(* Once the gateway has answered with a verdict or a timeout, no daemon is *)
(* handed the job any more: the client may retry without running it twice. *)
NoStartAfterAnswer ==
    [][\A j \in Jobs : answer[j] \in Terminal => executed'[j] = executed[j]]_vars

(* A final status is final: a late completion, an expiry sweep and the     *)
(* gateway's own timeout never overwrite one another's verdict.            *)
FinalIsFinal ==
    [][\A j \in Jobs : status[j] \in Terminal => status'[j] = status[j]]_vars

(* A job moves only from accepted to leased to a verdict of its daemon; it *)
(* gets a provider's verdict only if it was handed to a provider.          *)
VerdictsAreEarned ==
    \A j \in Jobs : status[j] \in {"succeeded", "failed"} => executed[j] = 1

(* What the gateway answers, against the row.  A verdict it answers is the *)
(* row's, for good.  A timeout is never answered before the time is up,    *)
(* whether the task gave up itself or a daemon's sweep closed the row, and *)
(* it leaves a closed row: timed out, or with a verdict that was stored    *)
(* after the task's last poll.                                             *)
AnswerMatchesJob ==
    \A j \in Jobs :
        /\ answer[j] \in {"succeeded", "failed"} => status[j] = answer[j]
        /\ answer[j] = "timed_out" =>
               /\ now >= created[j] + Timeout
               /\ \/ status[j] = "timed_out"
                  \/ status[j] \in {"succeeded", "failed"} /\ ~sawFinal[j]

(* Every request that waits for a daemon is answered, even if no daemon    *)
(* ever polls.                                                             *)
EveryWaiterReturns ==
    \A j \in Jobs : waiter[j] = "poll" ~> waiter[j] \in {"returned", "gone"}

(* As long as daemons keep polling, no job stays open for good: one whose  *)
(* client left or whose daemon died is closed by the next poll of any      *)
(* daemon after its deadline.                                              *)
EveryJobCloses ==
    DaemonFair => \A j \in Jobs : status[j] \in Open ~> status[j] \in Terminal
==============================================================================
