------------------------------- MODULE Gateway -------------------------------
(***************************************************************************)
(* The life of a gateway request (crates/mizan-api/src/gateway.rs): from   *)
(* the checks of chat_completions_impl over route resolution, credit       *)
(* preflight, runtime limits and the upstream call, as a JSON answer, an   *)
(* SSE stream or a daemon dispatch, to metering, metrics, request log and  *)
(* the release of the limit lease.                                         *)
(*                                                                         *)
(* The services a request calls appear by what they promise: billing is    *)
(* the atomic account of CreditAccount (see Wallet), the limits admit or   *)
(* refuse (see Limits), a dispatch succeeds or fails (see Dispatch).  All  *)
(* requests are of one user, so they compete for one balance.  A token     *)
(* costs one microcredit on a routed model and nothing on a daemon.        *)
(***************************************************************************)
EXTENDS Integers, Sequences

CONSTANTS
    Requests,    \* gateway requests
    Inputs,      \* what a client may send, a subset of Input
    Credit,      \* balance at the start
    Prompt,      \* tokens of every prompt
    RouteMax,    \* max_tokens of the route, 0 when it has none
    MaxTokens,   \* bound on the tokens an upstream produces
    Faults       \* TRUE: the database fails, clients disconnect

(* model: "routed" has a route, "daemon" is served by a node, "unknown" by *)
(* nobody; max: the max_tokens asked for, 0 when absent.                   *)
Input == [endpoint : {"chat", "responses"}, stream : BOOLEAN,
          model : {"empty", "routed", "daemon", "unknown"}, max : Nat]

ASSUME GatewayAssumption ==
    /\ Inputs \subseteq Input
    /\ {Credit, Prompt, RouteMax, MaxTokens} \subseteq Nat
    /\ Faults \in BOOLEAN

VARIABLES
    balance,     \* the user's wallet
    pc, req,     \* where the request is and what it asked for
    status,      \* the local `status` of an error path
    made,        \* completion tokens the upstream produced (and streamed)
    latest,      \* completion tokens it reported, NoUsage before it does
    usage,       \* usage_events of the request: status and tokens metered
    charged,     \* microcredits the ledger took for the request
    observed,    \* statuses handed to the metrics registry
    logged,      \* statuses handed to the request-log task
    lease,       \* the RuntimeLimitLease
    response,    \* HTTP status answered, 0 before
    ended        \* how the event stream ended

local == <<req, status, made, latest>>
money == <<balance, usage, charged>>
vars  == <<local, money, pc, observed, logged, lease, response, ended>>

NoUsage == 0 - 1
Metering == {"refuse", "failed", "meter", "streamEnd", "streamError"}
PcSet == {"idle", "resolve", "node", "preflight", "acquire", "call", "stream",
          "done", "gone"} \cup Metering
Statuses == {200, 400, 402, 429, 500, 502}
Leases == {"none", "held", "releasing", "released", "leaked"}

Init ==
    /\ balance = Credit
    /\ pc = [r \in Requests |-> "idle"]
    /\ req \in [Requests -> Inputs]
    /\ status = [r \in Requests |-> 200]
    /\ made = [r \in Requests |-> 0]
    /\ latest = [r \in Requests |-> NoUsage]
    /\ usage = [r \in Requests |-> <<>>]
    /\ charged = [r \in Requests |-> 0]
    /\ observed = [r \in Requests |-> <<>>]
    /\ logged = [r \in Requests |-> <<>>]
    /\ lease = [r \in Requests |-> "none"]
    /\ response = [r \in Requests |-> 0]
    /\ ended = [r \in Requests |-> "no"]

-----------------------------------------------------------------------------
(* Helpers of the handler.                                                 *)

Routed(r) == req[r].model = "routed"

(* calculate_usage_charge at the request's price.                          *)
Price(r, tokens) == IF Routed(r) THEN tokens ELSE 0

Goto(r, l) == pc' = [pc EXCEPT ![r] = l]
Log(r, s) == logged' = [logged EXCEPT ![r] = Append(@, s)]
Observe(r, s) == observed' = [observed EXCEPT ![r] = Append(@, s)]
Respond(r, s) == Goto(r, "done") /\ response' = [response EXCEPT ![r] = s]

(* release_limit_lease hands the lease to a blocking task.                 *)
Release(r) == lease' = [lease EXCEPT ![r] = "releasing"]

(* An answer before anything was metered: it is logged and not observed.   *)
Refuse(r, s) ==
    /\ Log(r, s)
    /\ Respond(r, s)
    /\ UNCHANGED <<local, money, observed, lease, ended>>

(* resolve_effective_max_tokens.                                           *)
TooMany(r) == Routed(r) /\ RouteMax > 0 /\ req[r].max > RouteMax
EffectiveMax(r) == IF req[r].max = 0 /\ Routed(r) THEN RouteMax ELSE req[r].max

(* The ways record_usage can go for status s and t tokens: ok or refused   *)
(* on the balance; failed without a trace; failed after the commit.        *)
Event(r, s, t) == usage' = [usage EXCEPT ![r] = Append(@, [status |-> s, tokens |-> t])]

Charge(r, t) ==
    /\ balance' = balance - Price(r, t)
    /\ charged' = [charged EXCEPT ![r] = @ + Price(r, t)]

(* Mutant: a failed answer is charged too.                                 *)
RecordUsageAnyStatus(r, s, t) ==
    IF balance < Price(r, t)
    THEN Event(r, 402, t) /\ UNCHANGED <<balance, charged>>
    ELSE Event(r, s, t) /\ Charge(r, t)

RecordUsage(r, s, t) ==
    IF s # 200 \/ Price(r, t) = 0
    THEN Event(r, s, t) /\ UNCHANGED <<balance, charged>>
    ELSE IF balance < Price(r, t)
    THEN Event(r, 402, t) /\ UNCHANGED <<balance, charged>>
    ELSE Event(r, s, t) /\ Charge(r, t)

(* What record_usage returns when it takes effect.                         *)
UsageResult(r, s, t) ==
    IF s = 200 /\ balance < Price(r, t) THEN 402 ELSE s

RecordFails(r, s, t) == Faults /\ (UNCHANGED money \/ RecordUsage(r, s, t))

-----------------------------------------------------------------------------
(* chat_completions_impl up to the upstream call.                          *)

Receive(r) ==
    /\ pc[r] = "idle"
    /\ IF \/ req[r].model = "empty"
          \/ req[r].endpoint = "responses" /\ req[r].stream
       THEN Refuse(r, 400)
       ELSE /\ Goto(r, "resolve")
            /\ UNCHANGED <<local, money, observed, logged, lease, response, ended>>

(* resolve_model_route and the synchronous checks behind it.  A model      *)
(* without a route goes to the daemons, which do not stream.               *)
ResolveRoute(r) ==
    /\ pc[r] = "resolve"
    /\ \/ /\ Routed(r) /\ ~TooMany(r)
          /\ Goto(r, "preflight")
          /\ UNCHANGED <<local, money, observed, logged, lease, response, ended>>
       \/ /\ ~Routed(r) /\ ~req[r].stream
          /\ Goto(r, "node")
          /\ UNCHANGED <<local, money, observed, logged, lease, response, ended>>
       \/ (TooMany(r) \/ (~Routed(r) /\ req[r].stream)) /\ Refuse(r, 400)
       \/ Faults /\ \E s \in {400, 500} : Refuse(r, s)

(* select_eligible_daemon_node.                                            *)
SelectNode(r) ==
    /\ pc[r] = "node"
    /\ \/ /\ req[r].model = "daemon"
          /\ Goto(r, "preflight")
          /\ UNCHANGED <<local, money, observed, logged, lease, response, ended>>
       \/ req[r].model # "daemon" /\ Refuse(r, 400)
       \/ Faults /\ Refuse(r, 500)

(* ensure_sufficient_credit over the admission estimate; a free request    *)
(* does not reach the database.                                            *)
Preflight(r) ==
    LET estimate == Price(r, Prompt + EffectiveMax(r)) IN
    /\ pc[r] = "preflight"
    /\ \/ /\ balance >= estimate
          /\ Goto(r, "acquire")
          /\ UNCHANGED <<status, logged>>
       \/ /\ estimate > 0
          /\ \E s \in {402, 500} :
              /\ IF s = 402 THEN balance < estimate ELSE Faults
              /\ status' = [status EXCEPT ![r] = s]
              /\ Log(r, s)
              /\ Goto(r, "refuse")
    /\ UNCHANGED <<req, made, latest, money, observed, lease, response, ended>>

(* The usage event of a failed preflight; its own failure is only logged.  *)
RefuseUsage(r) ==
    /\ pc[r] = "refuse"
    /\ RecordUsage(r, status[r], Prompt) \/ RecordFails(r, status[r], Prompt)
    /\ Observe(r, status[r])
    /\ Respond(r, status[r])
    /\ UNCHANGED <<local, logged, lease, ended>>

(* acquire_runtime_limits.                                                 *)
Acquire(r) ==
    /\ pc[r] = "acquire"
    /\ \/ /\ lease' = [lease EXCEPT ![r] = "held"]
          /\ Goto(r, "call")
          /\ UNCHANGED <<observed, logged, response>>
       \/ /\ \E s \in {429, 500} : Log(r, s) /\ Observe(r, s) /\ Respond(r, s)
          /\ UNCHANGED lease
    /\ UNCHANGED <<local, money, ended>>

-----------------------------------------------------------------------------
(* The upstream call.                                                      *)

(* The provider or the daemon answers with n tokens, counted or not.       *)
Answered(r) ==
    /\ pc[r] = "call" /\ ~req[r].stream
    /\ \E n \in 0 .. MaxTokens :
        /\ made' = [made EXCEPT ![r] = n]
        /\ \E reported \in {n, NoUsage} : latest' = [latest EXCEPT ![r] = reported]
    /\ Goto(r, "meter")
    /\ UNCHANGED <<req, status, money, observed, logged, lease, response, ended>>

(* The call, the opening of the stream or the dispatch fails.              *)
CallFails(r) ==
    /\ pc[r] = "call"
    /\ status' = [status EXCEPT ![r] = 502]
    /\ Goto(r, "failed")
    /\ UNCHANGED <<req, made, latest, money, observed, logged, lease, response, ended>>

(* Mutant: the early return of the error path forgets the lease.           *)
FailedUsageKeepsLease(r) ==
    /\ pc[r] = "failed"
    /\ RecordUsage(r, status[r], Prompt) \/ RecordFails(r, status[r], Prompt)
    /\ Observe(r, status[r])
    /\ Log(r, status[r])
    /\ Respond(r, status[r])
    /\ UNCHANGED <<local, lease, ended>>

FailedUsage(r) ==
    /\ pc[r] = "failed"
    /\ RecordUsage(r, status[r], Prompt) \/ RecordFails(r, status[r], Prompt)
    /\ Observe(r, status[r])
    /\ Log(r, status[r])
    /\ Release(r)
    /\ Respond(r, status[r])
    /\ UNCHANGED <<local, ended>>

(* Tokens metered for an answer: the upstream's count, else an estimate.   *)
MeteredAnswer(r) == Prompt + (IF latest[r] = NoUsage THEN made[r] ELSE latest[r])

(* Mutant: a failed record_usage is only logged, as on the error paths.    *)
MeterIgnoresFailure(r) ==
    LET t == MeteredAnswer(r) IN
    /\ pc[r] = "meter"
    /\ RecordUsage(r, 200, t) \/ RecordFails(r, 200, t)
    /\ Observe(r, 200)
    /\ Log(r, 200)
    /\ Release(r)
    /\ Respond(r, 200)
    /\ UNCHANGED <<local, ended>>

(* record_usage of a JSON answer decides what is answered.                 *)
Meter(r) ==
    LET t == MeteredAnswer(r) IN
    /\ pc[r] = "meter"
    /\ \E s \in {200, 402, 500} :
        /\ \/ s = UsageResult(r, 200, t) /\ RecordUsage(r, 200, t)
           \/ s = 500 /\ RecordFails(r, 200, t)
        /\ Observe(r, s)
        /\ Log(r, s)
        /\ Release(r)
        /\ Respond(r, s)
    /\ UNCHANGED <<local, ended>>

-----------------------------------------------------------------------------
(* build_stream_events.                                                    *)

OpenStream(r) ==
    /\ pc[r] = "call" /\ req[r].stream
    /\ Goto(r, "stream")
    /\ response' = [response EXCEPT ![r] = 200]
    /\ UNCHANGED <<local, money, observed, logged, lease, ended>>

(* A chunk with or without a token (a role, a finish reason), with or      *)
(* without the usage so far.                                               *)
Chunk(r) ==
    /\ pc[r] = "stream"
    /\ \E n \in made[r] .. made[r] + 1 :
        /\ n <= MaxTokens
        /\ made' = [made EXCEPT ![r] = n]
        /\ \E reported \in {n, latest[r]} : latest' = [latest EXCEPT ![r] = reported]
    /\ UNCHANGED <<req, status, money, pc, observed, logged, lease, response, ended>>

(* The upstream ends, maybe after chunks that carried no token.            *)
UpstreamEnds(r) ==
    /\ pc[r] = "stream"
    /\ Goto(r, "streamEnd")
    /\ UNCHANGED <<local, money, observed, logged, lease, response, ended>>

UpstreamBreaks(r) ==
    /\ pc[r] = "stream"
    /\ Goto(r, "streamError")
    /\ UNCHANGED <<local, money, observed, logged, lease, response, ended>>

(* Tokens metered for a stream: the upstream's count, else the prompt.     *)
MeteredStream(r) == Prompt + (IF latest[r] = NoUsage THEN 0 ELSE latest[r])

(* Mutants: a stream is logged as a success because its headers were sent; *)
(* a stream that ends keeps its lease.                                     *)
FinishStreamLogs200(r, s, e) ==
    /\ Observe(r, s)
    /\ Log(r, 200)
    /\ Release(r)
    /\ Goto(r, "done")
    /\ ended' = [ended EXCEPT ![r] = e]
    /\ UNCHANGED <<local, response>>

FinishStreamKeepsLease(r, s, e) ==
    /\ Observe(r, s)
    /\ Log(r, s)
    /\ Goto(r, "done")
    /\ ended' = [ended EXCEPT ![r] = e]
    /\ UNCHANGED <<local, lease, response>>

FinishStream(r, s, e) ==
    /\ Observe(r, s)
    /\ Log(r, s)
    /\ Release(r)
    /\ Goto(r, "done")
    /\ ended' = [ended EXCEPT ![r] = e]
    /\ UNCHANGED <<local, response>>

(* [DONE] is sent only when the stream was metered, else an error event.   *)
EndStream(r) ==
    LET t == MeteredStream(r) IN
    /\ pc[r] = "streamEnd"
    /\ \/ /\ RecordUsage(r, 200, t)
          /\ FinishStream(r, UsageResult(r, 200, t),
                          IF UsageResult(r, 200, t) = 200 THEN "done" ELSE "error")
       \/ RecordFails(r, 200, t) /\ FinishStream(r, 500, "error")

BreakStream(r) ==
    LET t == MeteredStream(r) IN
    /\ pc[r] = "streamError"
    /\ \/ RecordUsage(r, 502, t) /\ FinishStream(r, 502, "error")
       \/ RecordFails(r, 502, t) /\ FinishStream(r, 500, "error")

-----------------------------------------------------------------------------
(* The client disconnects and the handler, or the stream, is dropped at an *)
(* await.  Only the stream's state has a Drop that releases the lease, and *)
(* the task that acquires one goes on without its owner; a metering        *)
(* transaction may have committed.                                         *)
Streaming == {"stream", "streamEnd", "streamError"}

Dropped(r) ==
    \E l \in Leases :
        /\ lease' = [lease EXCEPT ![r] = l]
        /\ CASE pc[r] \in Streaming -> l = "releasing"
             [] pc[r] = "acquire"     -> l \in {"none", "leaked"}
             [] lease[r] = "held"     -> l = "leaked"
             [] OTHER                 -> l = lease[r]

InFlight(r) ==
    CASE pc[r] \in {"refuse", "failed"} -> RecordUsage(r, status[r], Prompt)
      [] pc[r] = "meter" -> RecordUsage(r, 200, MeteredAnswer(r))
      [] pc[r] = "streamEnd" -> RecordUsage(r, 200, MeteredStream(r))
      [] pc[r] = "streamError" -> RecordUsage(r, 502, MeteredStream(r))

Disconnect(r) ==
    /\ Faults
    /\ pc[r] \notin {"idle", "done", "gone"}
    /\ UNCHANGED money \/ (pc[r] \in Metering /\ InFlight(r))
    /\ Dropped(r)
    /\ Goto(r, "gone")
    /\ UNCHANGED <<local, observed, logged, response, ended>>

(* The blocking task gives the slots back, or Redis fails.                 *)
ReleaseTask(r) ==
    /\ lease[r] = "releasing"
    /\ \E l \in {"released", "leaked"} :
        /\ l = "leaked" => Faults
        /\ lease' = [lease EXCEPT ![r] = l]
    /\ UNCHANGED <<local, money, pc, observed, logged, response, ended>>

Handler(r) ==
    \/ Receive(r) \/ ResolveRoute(r) \/ SelectNode(r) \/ Preflight(r)
    \/ RefuseUsage(r) \/ Acquire(r) \/ FailedUsage(r) \/ Meter(r)
    \/ EndStream(r) \/ BreakStream(r)

Upstream(r) ==
    \/ Answered(r) \/ CallFails(r) \/ OpenStream(r) \/ Chunk(r)
    \/ UpstreamEnds(r) \/ UpstreamBreaks(r)

(* Every request is over and every lease has been dealt with.              *)
Terminated ==
    /\ \A r \in Requests : pc[r] \in {"done", "gone"} /\ lease[r] # "releasing"
    /\ UNCHANGED vars

Next == \/ \E r \in Requests : Handler(r) \/ Upstream(r) \/ Disconnect(r) \/ ReleaseTask(r)
        \/ Terminated

Spec == Init /\ [][Next]_vars

(* The runtime polls the handler and the release task; nothing makes an    *)
(* upstream answer, the provider's HTTP client has no timeout.             *)
FairSpec == Spec /\ \A r \in Requests : WF_vars(Handler(r)) /\ WF_vars(ReleaseTask(r))

-----------------------------------------------------------------------------
(* Properties.                                                             *)

(* Shape of the state; the balance is never negative.                      *)
TypeOK ==
    /\ balance \in Nat
    /\ pc \in [Requests -> PcSet]
    /\ req \in [Requests -> Inputs]
    /\ status \in [Requests -> Statuses]
    /\ made \in [Requests -> Nat]
    /\ latest \in [Requests -> Nat \cup {NoUsage}]
    /\ usage \in [Requests -> Seq([status : Statuses, tokens : Nat])]
    /\ charged \in [Requests -> Nat]
    /\ observed \in [Requests -> Seq(Statuses)]
    /\ logged \in [Requests -> Seq(Statuses)]
    /\ lease \in [Requests -> Leases]
    /\ response \in [Requests -> Statuses \cup {0}]
    /\ ended \in [Requests -> {"no", "done", "error"}]

(* Whatever fails and whenever the client leaves, a request has at most    *)
(* one usage event, and is charged for exactly the tokens of a 200 event.  *)
ChargedAsMetered ==
    \A r \in Requests :
        /\ Len(usage[r]) <= 1
        /\ charged[r] = IF usage[r] # <<>> /\ usage[r][1].status = 200
                        THEN Price(r, usage[r][1].tokens) ELSE 0

(* An answer is paid for and metered when the client gets it: a JSON       *)
(* answer, or the [DONE] of a stream; and a refusal other than a database  *)
(* error costs nothing.                                                    *)
AnswerIsMetered ==
    \A r \in Requests :
        /\ (response[r] = 200 /\ ~req[r].stream) \/ ended[r] = "done" =>
               Len(usage[r]) = 1 /\ usage[r][1].status = 200
        /\ response[r] \in {400, 402, 429, 502} => charged[r] = 0

(* The outcome of a request as its client sees it.                         *)
Outcome(r) == IF ~req[r].stream \/ response[r] # 200 THEN response[r]
              ELSE IF ended[r] = "done" THEN 200 ELSE 500

(* Every request whose client stayed is logged once, with the outcome the  *)
(* client saw, and the metrics saw the same; a request that was charged    *)
(* shows up in both.                                                       *)
RecordsAgree ==
    \A r \in Requests : pc[r] = "done" =>
        /\ Len(logged[r]) = 1
        /\ (logged[r][1] = 200) = (Outcome(r) = 200)
        /\ observed[r] \in {<<>>, logged[r]}
        /\ charged[r] > 0 => observed[r] = logged[r]

(* A lease is released exactly when its request is over: never under a     *)
(* request that is still served, never kept by one that has ended; it is   *)
(* leaked to its TTL only when a client leaves before its answer or its    *)
(* stream began, or Redis fails, and then never under a request in flight. *)
LeaseFollowsRequest ==
    \A r \in Requests :
        /\ lease[r] = "held" <=> pc[r] \in {"call", "failed", "meter"} \cup Streaming
        /\ ~Faults => lease[r] # "leaked"

(* Once the upstream has answered, or the stream's client has left, the    *)
(* lease goes back.                                                        *)
LeaseGivenBack ==
    \A r \in Requests :
        (pc[r] \in {"failed", "meter", "streamEnd", "streamError"}) \/ lease[r] = "releasing"
            ~> lease[r] \in {"released", "leaked"}

(* A stream that reached its end is metered with the tokens it delivered.  *)
StreamUsageCorrect ==
    \A r \in Requests : ended[r] = "done" => usage[r][1].tokens = Prompt + made[r]

==============================================================================
