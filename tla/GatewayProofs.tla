---------------------------- MODULE GatewayProofs ----------------------------
(***************************************************************************)
(* Proofs about Gateway, for any number of requests that compete for one   *)
(* balance, every input, price and token limit, with a failing database    *)
(* and clients that leave at any await.                                    *)
(***************************************************************************)
EXTENDS Gateway, TLAPS

(* Before it is metered, and it is metered in its last step, a request has *)
(* left no trace, except that a failed preflight is logged first and a     *)
(* stream has its headers sent.                                            *)
NoTraceYet(r) ==
    pc[r] \notin {"done", "gone"} =>
        /\ usage[r] = <<>> /\ charged[r] = 0
        /\ observed[r] = <<>> /\ ended[r] = "no"
        /\ logged[r] = IF pc[r] = "refuse" THEN <<status[r]>> ELSE <<>>
        /\ response[r] = IF pc[r] \in Streaming THEN 200 ELSE 0

(* What brought the request where it is.                                   *)
Phase(r) ==
    /\ pc[r] = "refuse" => status[r] \in {402, 500}
    /\ pc[r] = "failed" => status[r] = 502
    /\ pc[r] = "meter" => ~req[r].stream
    /\ pc[r] \in Streaming => req[r].stream
    /\ pc[r] = "gone" => /\ response[r] = 0 \/ (response[r] = 200 /\ req[r].stream)
                         /\ ended[r] = "no"

(* The properties of Gateway, of one request.                              *)
ChargedOnce(r) ==
    /\ Len(usage[r]) <= 1
    /\ charged[r] = IF usage[r] # <<>> /\ usage[r][1].status = 200
                    THEN Price(r, usage[r][1].tokens) ELSE 0

Answer(r) ==
    /\ (response[r] = 200 /\ ~req[r].stream) \/ ended[r] = "done" =>
           Len(usage[r]) = 1 /\ usage[r][1].status = 200
    /\ response[r] \in {400, 402, 429, 502} => charged[r] = 0

Records(r) ==
    pc[r] = "done" =>
        /\ Len(logged[r]) = 1
        /\ (logged[r][1] = 200) = (Outcome(r) = 200)
        /\ observed[r] \in {<<>>, logged[r]}
        /\ charged[r] > 0 => observed[r] = logged[r]

Lease(r) ==
    /\ lease[r] = "held" <=> pc[r] \in {"call", "failed", "meter"} \cup Streaming
    /\ ~Faults => lease[r] # "leaked"

RequestInv(r) ==
    /\ NoTraceYet(r)
    /\ Phase(r)
    /\ ChargedOnce(r)
    /\ Answer(r)
    /\ Records(r)
    /\ Lease(r)

GatewayInv == TypeOK /\ \A r \in Requests : RequestInv(r)

-----------------------------------------------------------------------------
(* The initial state satisfies the invariant.                              *)
LEMMA InitInv == Init => GatewayInv
<1>1. SUFFICES ASSUME Init PROVE GatewayInv
  OBVIOUS
<1>2. TypeOK
  BY <1>1, GatewayAssumption DEF Init, TypeOK, PcSet, Statuses, Leases, NoUsage
<1>3. ASSUME NEW r \in Requests PROVE RequestInv(r)
  BY <1>1, <1>3 DEF Init, RequestInv, NoTraceYet, Phase, ChargedOnce, Answer, Records, Lease,
     Streaming
<1>4. QED
  BY <1>2, <1>3 DEF GatewayInv

(* A step of the system is a step of one request, or the end of all.       *)
Act(r) == Handler(r) \/ Upstream(r) \/ Disconnect(r) \/ ReleaseTask(r)

(* What record_usage does for a request without a trace: one event, with   *)
(* the status it returns, and a charge only for a 200 event; the balance   *)
(* covers it.                                                              *)
LEMMA RecordUsageOnce ==
    ASSUME TypeOK, NEW r \in Requests, NEW s \in Statuses, NEW t \in Nat,
           RecordUsage(r, s, t), usage[r] = <<>>, charged[r] = 0
    PROVE  /\ balance' \in Nat
           /\ UsageResult(r, s, t) \in Statuses
           /\ usage' = [usage EXCEPT ![r] = <<[status |-> UsageResult(r, s, t), tokens |-> t]>>]
           /\ charged' = [charged EXCEPT ![r] =
                              IF UsageResult(r, s, t) = 200 THEN Price(r, t) ELSE 0]
<1>1. Price(r, t) \in Nat /\ balance \in Nat
  BY DEF TypeOK, Price
<1>2. charged = [charged EXCEPT ![r] = 0]
  BY DEF TypeOK
<1>3. \A e : Append(usage[r], e) = <<e>>
  OBVIOUS
<1>4. CASE s # 200
  BY <1>1, <1>2, <1>3, <1>4 DEF RecordUsage, UsageResult, Event
<1>5. CASE s = 200 /\ Price(r, t) = 0
  BY <1>1, <1>2, <1>3, <1>5 DEF RecordUsage, UsageResult, Event
<1>6. CASE s = 200 /\ Price(r, t) # 0 /\ balance < Price(r, t)
  BY <1>1, <1>2, <1>3, <1>6 DEF RecordUsage, UsageResult, Event, Statuses
<1>7. CASE s = 200 /\ Price(r, t) # 0 /\ ~(balance < Price(r, t))
  <2>1. UsageResult(r, s, t) = 200 /\ Event(r, 200, t) /\ Charge(r, t)
    BY <1>1, <1>7 DEF RecordUsage, UsageResult
  <2>2. balance' \in Nat
    BY <1>1, <1>7, <2>1 DEF Charge
  <2>3. charged' = [charged EXCEPT ![r] = Price(r, t)]
    <3>1. charged' = [charged EXCEPT ![r] = charged[r] + Price(r, t)]
      BY <2>1 DEF Charge
    <3>2. charged[r] + Price(r, t) = Price(r, t)
      BY <1>1
    <3>3. QED
      BY <3>1, <3>2
  <2>4. usage' = [usage EXCEPT ![r] = <<[status |-> 200, tokens |-> t]>>]
    BY <1>3, <2>1 DEF Event
  <2>5. QED
    BY <1>7, <2>1, <2>2, <2>3, <2>4
<1>8. QED
  BY <1>4, <1>5, <1>6, <1>7

(* Tokens are counted in natural numbers.                                  *)
LEMMA MeteredType ==
    ASSUME TypeOK, NEW r \in Requests
    PROVE  MeteredAnswer(r) \in Nat /\ MeteredStream(r) \in Nat /\ Prompt \in Nat
  BY GatewayAssumption DEF TypeOK, MeteredAnswer, MeteredStream, NoUsage

(* A request is metered in a step that ends it.                            *)
MeteredIn(r, s, t) ==
    /\ pc[r] \in Metering
    /\ s \in Statuses /\ t \in Nat
    /\ RecordUsage(r, s, t)

(* A step of a request leaves the money alone or meters the request.       *)
LEMMA MoneyMoves ==
    ASSUME GatewayInv, NEW r \in Requests, Act(r)
    PROVE  UNCHANGED money \/ \E s \in Statuses, t \in Nat : MeteredIn(r, s, t)
<1>1. TypeOK /\ Phase(r)
  BY DEF GatewayInv, RequestInv
<1>2. status[r] \in Statuses /\ {200, 502} \subseteq Statuses
  BY <1>1 DEF TypeOK, Statuses
<1>3. CASE RefuseUsage(r) \/ FailedUsage(r)
  BY <1>1, <1>2, <1>3, MeteredType DEF RefuseUsage, FailedUsage, RecordFails, MeteredIn, Metering
<1>4. CASE Meter(r) \/ EndStream(r) \/ BreakStream(r)
  <2>1. CASE Meter(r)
    <3>1. UNCHANGED money \/ RecordUsage(r, 200, MeteredAnswer(r))
      BY <2>1 DEF Meter, RecordFails
    <3>2. QED
      BY <1>1, <1>2, <2>1, <3>1, MeteredType DEF Meter, MeteredIn, Metering
  <2>2. CASE EndStream(r)
    <3>1. UNCHANGED money \/ RecordUsage(r, 200, MeteredStream(r))
      BY <2>2 DEF EndStream, RecordFails
    <3>2. QED
      BY <1>1, <1>2, <2>2, <3>1, MeteredType DEF EndStream, MeteredIn, Metering
  <2>3. CASE BreakStream(r)
    <3>1. UNCHANGED money \/ RecordUsage(r, 502, MeteredStream(r))
      BY <2>3 DEF BreakStream, RecordFails
    <3>2. QED
      BY <1>1, <1>2, <2>3, <3>1, MeteredType DEF BreakStream, MeteredIn, Metering
  <2>4. QED
    BY <1>4, <2>1, <2>2, <2>3
<1>5. CASE Disconnect(r)
  <2>1. SUFFICES ASSUME pc[r] \in Metering, InFlight(r)
                 PROVE  \E s \in Statuses, t \in Nat : MeteredIn(r, s, t)
    BY <1>5 DEF Disconnect
  <2>2. \/ RecordUsage(r, status[r], Prompt)
        \/ RecordUsage(r, 200, MeteredAnswer(r))
        \/ RecordUsage(r, 200, MeteredStream(r))
        \/ RecordUsage(r, 502, MeteredStream(r))
    BY <2>1 DEF InFlight, Metering
  <2>3. QED
    BY <1>1, <1>2, <2>1, <2>2, MeteredType DEF MeteredIn
<1>6. CASE ReleaseTask(r) \/ Upstream(r)
  BY <1>6 DEF ReleaseTask, Upstream, Answered, CallFails, OpenStream, Chunk, UpstreamEnds,
     UpstreamBreaks
<1>7. CASE Receive(r) \/ ResolveRoute(r) \/ SelectNode(r) \/ Preflight(r) \/ Acquire(r)
  BY <1>7 DEF Receive, ResolveRoute, SelectNode, Preflight, Acquire, Refuse
<1>8. QED
  BY <1>3, <1>4, <1>5, <1>6, <1>7 DEF Act, Handler

(* The money after a step: typed, untouched for other requests, and, when  *)
(* the request was metered, one event and its charge.                      *)
LEMMA MoneyAfter ==
    ASSUME GatewayInv, NEW r \in Requests, Act(r)
    PROVE  /\ balance' \in Nat
           /\ usage' \in [Requests -> Seq([status : Statuses, tokens : Nat])]
           /\ charged' \in [Requests -> Nat]
           /\ \A q \in Requests \ {r} : usage'[q] = usage[q] /\ charged'[q] = charged[q]
           /\ UNCHANGED money \/ (pc[r] \in Metering /\ Len(usage'[r]) = 1
                /\ charged'[r] = IF usage'[r][1].status = 200
                                 THEN Price(r, usage'[r][1].tokens) ELSE 0)
<1>1. TypeOK /\ NoTraceYet(r)
  BY DEF GatewayInv, RequestInv
<1>2. CASE UNCHANGED money
  BY <1>1, <1>2 DEF TypeOK, money
<1>3. ASSUME NEW s \in Statuses, NEW t \in Nat, MeteredIn(r, s, t)
      PROVE  /\ balance' \in Nat
             /\ usage' \in [Requests -> Seq([status : Statuses, tokens : Nat])]
             /\ charged' \in [Requests -> Nat]
             /\ \A q \in Requests \ {r} : usage'[q] = usage[q] /\ charged'[q] = charged[q]
             /\ pc[r] \in Metering /\ Len(usage'[r]) = 1
             /\ charged'[r] = IF usage'[r][1].status = 200
                              THEN Price(r, usage'[r][1].tokens) ELSE 0
  <2> DEFINE u == UsageResult(r, s, t)
             e == [status |-> u, tokens |-> t]
             p == IF u = 200 THEN Price(r, t) ELSE 0
  <2>1. pc[r] \in Metering /\ usage[r] = <<>> /\ charged[r] = 0
    BY <1>1, <1>3 DEF MeteredIn, NoTraceYet, Metering
  <2>2. /\ balance' \in Nat /\ u \in Statuses
        /\ usage' = [usage EXCEPT ![r] = <<e>>] /\ charged' = [charged EXCEPT ![r] = p]
    BY <1>1, <1>3, <2>1, RecordUsageOnce DEF MeteredIn
  <2>3. p \in Nat /\ e \in [status : Statuses, tokens : Nat] /\ e.status = u /\ e.tokens = t
    BY <1>1, <2>2 DEF Price
  <2> HIDE DEF u, e
  <2>4. usage'[r] = <<e>> /\ charged'[r] = p
    BY <1>1, <2>2 DEF TypeOK
  <2>5. /\ usage' \in [Requests -> Seq([status : Statuses, tokens : Nat])]
        /\ \A q \in Requests \ {r} : usage'[q] = usage[q]
    <3> DEFINE Events == [status : Statuses, tokens : Nat]
    <3>1. <<e>> \in Seq(Events)
      BY <2>3
    <3>2. usage \in [Requests -> Seq(Events)]
      BY <1>1 DEF TypeOK
    <3> HIDE DEF Events
    <3>3. usage' \in [Requests -> Seq(Events)] /\ \A q \in Requests \ {r} : usage'[q] = usage[q]
      BY <2>2, <3>1, <3>2
    <3>4. QED
      BY <3>3 DEF Events
  <2>6. /\ charged' \in [Requests -> Nat]
        /\ \A q \in Requests \ {r} : charged'[q] = charged[q]
    BY <1>1, <2>2, <2>3 DEF TypeOK
  <2>7. Len(usage'[r]) = 1 /\ usage'[r][1] = e
    BY <2>4
  <2>8. charged'[r] = IF usage'[r][1].status = 200 THEN Price(r, usage'[r][1].tokens) ELSE 0
    BY <2>3, <2>4, <2>7
  <2>9. QED
    BY <2>1, <2>2, <2>5, <2>6, <2>7, <2>8
<1>4. QED
  BY <1>2, <1>3, MoneyMoves

(* What happens to the rest of the state: each variable is changed for one *)
(* request at most.                                                        *)
Elsewhere(r) ==
    \A q \in Requests \ {r} :
        /\ pc'[q] = pc[q] /\ status'[q] = status[q]
        /\ observed'[q] = observed[q] /\ logged'[q] = logged[q]
        /\ lease'[q] = lease[q] /\ response'[q] = response[q] /\ ended'[q] = ended[q]

(* The types of what is neither money nor fixed.                           *)
LocalOK ==
    /\ pc \in [Requests -> PcSet]
    /\ status \in [Requests -> Statuses]
    /\ made \in [Requests -> Nat]
    /\ latest \in [Requests -> Nat \cup {NoUsage}]
    /\ observed \in [Requests -> Seq(Statuses)]
    /\ logged \in [Requests -> Seq(Statuses)]
    /\ lease \in [Requests -> Leases]
    /\ response \in [Requests -> Statuses \cup {0}]
    /\ ended \in [Requests -> {"no", "done", "error"}]

(* Function g is f with at most the entry of r changed, to one in S.       *)
AtMost(r, f, g, S) == g = f \/ \E v \in S : g = [f EXCEPT ![r] = v]

(* It is typed and has the other entries of f.                             *)
Kept(r, f, g, S) == g \in [Requests -> S] /\ \A q \in Requests \ {r} : g[q] = f[q]

(* A change of one entry keeps the function's type and the other entries.  *)
LEMMA OneEntry ==
    ASSUME NEW r \in Requests, NEW S, NEW f \in [Requests -> S], NEW g, AtMost(r, f, g, S)
    PROVE  Kept(r, f, g, S)
<1>1. CASE g = f
  BY <1>1 DEF Kept
<1>2. ASSUME NEW v \in S, g = [f EXCEPT ![r] = v] PROVE Kept(r, f, g, S)
  BY <1>2 DEF Kept
<1>3. QED
  BY <1>1, <1>2 DEF AtMost

(* What a step may do to this part of the state.                           *)
PcMoves(r)       == AtMost(r, pc, pc', PcSet)
StatusMoves(r)   == AtMost(r, status, status', Statuses)
MadeMoves(r)     == AtMost(r, made, made', Nat)
LatestMoves(r)   == AtMost(r, latest, latest', Nat \cup {NoUsage})
ObservedMoves(r) == AtMost(r, observed, observed', Seq(Statuses))
LoggedMoves(r)   == AtMost(r, logged, logged', Seq(Statuses))
LeaseMoves(r)    == AtMost(r, lease, lease', Leases)
ResponseMoves(r) == AtMost(r, response, response', Statuses \cup {0})
EndedMoves(r)    == AtMost(r, ended, ended', {"no", "done", "error"})

LocalMove(r) ==
    /\ PcMoves(r)
    /\ StatusMoves(r)
    /\ MadeMoves(r)
    /\ LatestMoves(r)
    /\ ObservedMoves(r)
    /\ LoggedMoves(r)
    /\ LeaseMoves(r)
    /\ ResponseMoves(r)
    /\ EndedMoves(r)
    /\ req' = req

(* Such a step keeps the types and the state of other requests.            *)
LEMMA LocalMoves ==
    ASSUME TypeOK, NEW r \in Requests, LocalMove(r)
    PROVE  LocalOK' /\ Elsewhere(r)
<1>1. Kept(r, pc, pc', PcSet) /\ Kept(r, status, status', Statuses)
  BY OneEntry, Zenon DEF LocalMove, TypeOK, PcMoves, StatusMoves
<1>2. Kept(r, made, made', Nat) /\ Kept(r, latest, latest', Nat \cup {NoUsage})
  BY OneEntry, Zenon DEF LocalMove, TypeOK, MadeMoves, LatestMoves
<1>3. /\ Kept(r, observed, observed', Seq(Statuses))
      /\ Kept(r, logged, logged', Seq(Statuses))
  BY OneEntry, Zenon DEF LocalMove, TypeOK, ObservedMoves, LoggedMoves
<1>4. /\ Kept(r, lease, lease', Leases)
      /\ Kept(r, response, response', Statuses \cup {0})
      /\ Kept(r, ended, ended', {"no", "done", "error"})
  BY OneEntry, Zenon DEF LocalMove, TypeOK, LeaseMoves, ResponseMoves, EndedMoves
<1>5. LocalOK'
  BY <1>1, <1>2, <1>3, <1>4, Zenon DEF LocalOK, Kept
<1>6. Elsewhere(r)
  BY <1>1, <1>3, <1>4, Zenon DEF Elsewhere, Kept
<1>7. QED
  BY <1>5, <1>6

(* The setters of the handler change one entry.                            *)
LEMMA Setters ==
    ASSUME TypeOK, NEW r \in Requests
    PROVE  /\ pc' = pc \/ (\E l \in PcSet : Goto(r, l)) => PcMoves(r)
           /\ status' = status \/ (\E s \in Statuses : status' = [status EXCEPT ![r] = s]) =>
                  StatusMoves(r)
           /\ observed' = observed \/ (\E s \in Statuses : Observe(r, s)) =>
                  ObservedMoves(r)
           /\ logged' = logged \/ (\E s \in Statuses : Log(r, s)) =>
                  LoggedMoves(r)
           /\ lease' = lease \/ Release(r) => LeaseMoves(r)
           /\ response' = response \/ (\E s \in Statuses : response' = [response EXCEPT ![r] = s]) =>
                  ResponseMoves(r)
           /\ ended' = ended => EndedMoves(r)
           /\ made' = made => MadeMoves(r)
           /\ latest' = latest => LatestMoves(r)
<1>1. ASSUME NEW s \in Statuses
      PROVE  Append(logged[r], s) \in Seq(Statuses) /\ Append(observed[r], s) \in Seq(Statuses)
  BY DEF TypeOK
<1>2. (\E s \in Statuses : Observe(r, s)) => ObservedMoves(r)
  BY <1>1, Zenon DEF Observe, AtMost, ObservedMoves
<1>3. (\E s \in Statuses : Log(r, s)) => LoggedMoves(r)
  BY <1>1, Zenon DEF Log, AtMost, LoggedMoves
<1>4. Release(r) => LeaseMoves(r)
  BY Zenon DEF Release, AtMost, Leases, LeaseMoves
<1>5. (\E l \in PcSet : Goto(r, l)) => PcMoves(r)
  BY Zenon DEF Goto, AtMost, PcMoves
<1>6. (\E s \in Statuses : status' = [status EXCEPT ![r] = s]) => StatusMoves(r)
  BY Zenon DEF AtMost, StatusMoves
<1>7. (\E s \in Statuses : response' = [response EXCEPT ![r] = s]) =>
          ResponseMoves(r)
  BY Zenon DEF AtMost, ResponseMoves
<1>8. /\ pc' = pc => PcMoves(r)
      /\ status' = status => StatusMoves(r)
      /\ made' = made => MadeMoves(r)
      /\ latest' = latest => LatestMoves(r)
      /\ observed' = observed => ObservedMoves(r)
      /\ logged' = logged => LoggedMoves(r)
      /\ lease' = lease => LeaseMoves(r)
      /\ response' = response => ResponseMoves(r)
      /\ ended' = ended => EndedMoves(r)
  BY Zenon DEF AtMost, PcMoves, StatusMoves, MadeMoves, LatestMoves, ObservedMoves, LoggedMoves,
     LeaseMoves, ResponseMoves, EndedMoves
<1>9. QED
  BY <1>2, <1>3, <1>4, <1>5, <1>6, <1>7, <1>8

(* An action is such a step.                                               *)
LEMMA ActLocal ==
    ASSUME GatewayInv, NEW r \in Requests, Act(r)
    PROVE  LocalMove(r)
<1>1. TypeOK /\ status[r] \in Statuses
  BY DEF GatewayInv, TypeOK
<1>2. /\ pc' = pc \/ (\E l \in PcSet : Goto(r, l)) => PcMoves(r)
      /\ status' = status \/ (\E s \in Statuses : status' = [status EXCEPT ![r] = s]) =>
             StatusMoves(r)
      /\ observed' = observed \/ (\E s \in Statuses : Observe(r, s)) =>
             ObservedMoves(r)
      /\ logged' = logged \/ (\E s \in Statuses : Log(r, s)) =>
             LoggedMoves(r)
      /\ lease' = lease \/ Release(r) => LeaseMoves(r)
      /\ response' = response \/ (\E s \in Statuses : response' = [response EXCEPT ![r] = s]) =>
             ResponseMoves(r)
      /\ ended' = ended => EndedMoves(r)
      /\ made' = made => MadeMoves(r)
      /\ latest' = latest => LatestMoves(r)
  BY <1>1, Setters
<1> USE DEF LocalMove, local, PcSet, Metering, Statuses
<1>3. CASE Receive(r) \/ ResolveRoute(r) \/ SelectNode(r)
  BY <1>2, <1>3 DEF Receive, ResolveRoute, SelectNode, Refuse, Respond
<1>4. CASE Preflight(r)
  BY <1>2, <1>4 DEF Preflight
<1>5. CASE RefuseUsage(r) \/ FailedUsage(r)
  BY <1>1, <1>2, <1>5 DEF RefuseUsage, FailedUsage, Respond
<1>6. CASE Acquire(r)
  <2>1. lease' = [lease EXCEPT ![r] = "held"] => LeaseMoves(r)
    BY Zenon DEF AtMost, Leases, LeaseMoves
  <2>2. QED
    BY <1>2, <1>6, <2>1 DEF Acquire, Respond
<1>7. CASE Meter(r)
  <2>1. PICK s \in Statuses : Observe(r, s) /\ Log(r, s) /\ Release(r) /\ Respond(r, s)
    BY <1>7 DEF Meter
  <2>2. UNCHANGED <<local, ended>>
    BY <1>7 DEF Meter
  <2>3. Goto(r, "done") /\ response' = [response EXCEPT ![r] = s]
    BY <2>1 DEF Respond
  <2>4. PcMoves(r) /\ LeaseMoves(r) /\ EndedMoves(r)
    BY <1>2, <2>1, <2>2, <2>3
  <2> HIDE DEF Statuses
  <2>5. ObservedMoves(r) /\ LoggedMoves(r) /\ ResponseMoves(r)
    BY <1>2, <2>1, <2>3, Zenon
  <2>6. QED
    BY <1>2, <2>2, <2>4, <2>5
<1>8. ASSUME NEW s \in Statuses, NEW e \in {"no", "done", "error"}, FinishStream(r, s, e)
      PROVE  LocalMove(r)
  <2>1. EndedMoves(r)
    BY <1>8, Zenon DEF AtMost, FinishStream, EndedMoves
  <2>2. QED
    BY <1>2, <1>8, <2>1 DEF FinishStream
<1>9. CASE EndStream(r)
  <2>1. UsageResult(r, 200, MeteredStream(r)) \in Statuses
    BY DEF UsageResult
  <2>2. CASE FinishStream(r, 500, "error")
    BY <1>8, <2>2
  <2>3. CASE FinishStream(r, UsageResult(r, 200, MeteredStream(r)),
                          IF UsageResult(r, 200, MeteredStream(r)) = 200 THEN "done" ELSE "error")
    BY <1>8, <2>1, <2>3
  <2>4. QED
    BY <1>9, <2>2, <2>3 DEF EndStream
<1>10. CASE BreakStream(r)
  <2>1. FinishStream(r, 502, "error") \/ FinishStream(r, 500, "error")
    BY <1>10 DEF BreakStream
  <2>2. QED
    BY <1>8, <2>1
<1>11. ASSUME NEW n \in Nat, NEW m \in Nat \cup {NoUsage},
              made' = [made EXCEPT ![r] = n], latest' = [latest EXCEPT ![r] = m]
       PROVE  MadeMoves(r) /\ LatestMoves(r)
  BY <1>11, Zenon DEF AtMost, MadeMoves, LatestMoves
<1>12. CASE Answered(r)
  <2>1. PICK n \in 0 .. MaxTokens : /\ made' = [made EXCEPT ![r] = n]
           /\ \E reported \in {n, NoUsage} : latest' = [latest EXCEPT ![r] = reported]
    BY <1>12 DEF Answered
  <2>2. PICK m \in {n, NoUsage} : latest' = [latest EXCEPT ![r] = m]
    BY <2>1
  <2>3. n \in Nat
    BY GatewayAssumption
  <2>4. MadeMoves(r) /\ LatestMoves(r)
    BY <1>11, <2>1, <2>2, <2>3
  <2>5. QED
    BY <1>2, <1>12, <2>4 DEF Answered
<1>13. CASE Chunk(r)
  <2>1. made[r] \in Nat /\ latest[r] \in Nat \cup {NoUsage}
    BY <1>1 DEF TypeOK
  <2>2. PICK n \in made[r] .. made[r] + 1 : /\ made' = [made EXCEPT ![r] = n]
           /\ \E reported \in {n, latest[r]} : latest' = [latest EXCEPT ![r] = reported]
    BY <1>13 DEF Chunk
  <2>3. PICK m \in {n, latest[r]} : latest' = [latest EXCEPT ![r] = m]
    BY <2>2
  <2>4. n \in Nat
    BY <2>1
  <2>5. MadeMoves(r) /\ LatestMoves(r)
    BY <1>11, <2>1, <2>2, <2>3, <2>4
  <2>6. QED
    BY <1>2, <1>13, <2>5 DEF Chunk
<1>14. CASE CallFails(r) \/ OpenStream(r) \/ UpstreamEnds(r) \/ UpstreamBreaks(r)
  BY <1>2, <1>14 DEF CallFails, OpenStream, UpstreamEnds, UpstreamBreaks
<1>15. ASSUME NEW l \in Leases, lease' = [lease EXCEPT ![r] = l]
       PROVE  LeaseMoves(r)
  BY <1>15, Zenon DEF AtMost, LeaseMoves
<1>16. CASE Disconnect(r)
  <2>1. LeaseMoves(r)
    BY <1>15, <1>16, Zenon DEF Disconnect, Dropped
  <2>2. QED
    BY <1>2, <1>16, <2>1 DEF Disconnect
<1>17. CASE ReleaseTask(r)
  <2>1. LeaseMoves(r)
    BY <1>15, <1>17 DEF ReleaseTask, Leases
  <2>2. QED
    BY <1>2, <1>17, <2>1 DEF ReleaseTask
<1>18. QED
  BY <1>3, <1>4, <1>5, <1>6, <1>7, <1>9, <1>10, <1>12, <1>13, <1>14, <1>16, <1>17
     DEF Act, Handler, Upstream

(* What other requests do leaves the invariant of a request alone.         *)
LEMMA OthersKeep ==
    ASSUME GatewayInv, NEW r \in Requests, Act(r), NEW q \in Requests \ {r}
    PROVE  RequestInv(q)'
<1>1. RequestInv(q) /\ TypeOK
  BY DEF GatewayInv
<1>2. /\ pc'[q] = pc[q] /\ status'[q] = status[q] /\ req'[q] = req[q]
      /\ observed'[q] = observed[q] /\ logged'[q] = logged[q]
      /\ lease'[q] = lease[q] /\ response'[q] = response[q] /\ ended'[q] = ended[q]
  BY <1>1, ActLocal, LocalMoves DEF Elsewhere, LocalMove
<1>3. usage'[q] = usage[q] /\ charged'[q] = charged[q]
  BY MoneyAfter
<1>4. NoTraceYet(q)' /\ Phase(q)' /\ Answer(q)' /\ Lease(q)'
  BY <1>1, <1>2, <1>3 DEF RequestInv, NoTraceYet, Phase, Answer, Lease, Streaming
<1>5. ChargedOnce(q)'
  BY <1>1, <1>2, <1>3 DEF RequestInv, ChargedOnce, Price, Routed
<1>6. Records(q)'
  BY <1>1, <1>2, <1>3 DEF RequestInv, Records, Outcome
<1>7. QED
  BY <1>4, <1>5, <1>6 DEF RequestInv

(* A step that keeps the types and the invariant of the request that acts  *)
(* keeps the invariant.                                                    *)
LEMMA ActKeeps ==
    ASSUME GatewayInv, NEW r \in Requests, Act(r), RequestInv(r)'
    PROVE  GatewayInv'
<1>1. TypeOK
  BY DEF GatewayInv
<1>2. LocalOK' /\ req' = req
  BY <1>1, ActLocal, LocalMoves DEF LocalMove
<1>3. TypeOK'
  BY <1>1, <1>2, MoneyAfter DEF TypeOK, LocalOK
<1>4. QED
  BY <1>3, OthersKeep DEF GatewayInv

(* The state of a request while it is under way, and nothing is recorded.  *)
LEMMA StillNoTrace ==
    ASSUME GatewayInv, NEW r \in Requests, UNCHANGED <<req, money, observed, ended>>,
           pc[r] \notin {"done", "gone"}, pc'[r] \notin {"done", "gone"},
           logged'[r] = IF pc'[r] = "refuse" THEN <<status'[r]>> ELSE <<>>,
           response'[r] = IF pc'[r] \in Streaming THEN 200 ELSE 0,
           Phase(r)', Lease(r)'
    PROVE  RequestInv(r)'
<1>1. RequestInv(r) /\ NoTraceYet(r)
  BY DEF GatewayInv, RequestInv
<1>2. NoTraceYet(r)'
  BY <1>1 DEF NoTraceYet, money
<1>3. usage'[r] = <<>> /\ charged'[r] = 0
  BY <1>1 DEF NoTraceYet, money
<1>4. ChargedOnce(r)' /\ Answer(r)' /\ Records(r)'
  BY <1>1, <1>3 DEF NoTraceYet, ChargedOnce, Answer, Records, Streaming, Phase
<1>5. QED
  BY <1>2, <1>4 DEF RequestInv

(* A request that was under way ends with answer s.                        *)
EndsWith(r, s) ==
    /\ pc[r] \notin {"done", "gone"} \cup Streaming /\ pc'[r] = "done"
    /\ logged'[r] = <<s>> /\ observed'[r] \in {<<>>, <<s>>} /\ response'[r] = s
    /\ req' = req /\ ended' = ended
    /\ charged'[r] > 0 => observed'[r] = <<s>> /\ s \in {200, 500}
    /\ s = 200 => ~req[r].stream /\ Len(usage'[r]) = 1 /\ usage'[r][1].status = 200
    /\ lease'[r] # "held" /\ (~Faults => lease'[r] # "leaked")

(* Such an end keeps the invariant of the request.                         *)
LEMMA EndsAnswered ==
    ASSUME GatewayInv, NEW r \in Requests, Act(r), NEW s \in Statuses, EndsWith(r, s)
    PROVE  RequestInv(r)'
<1> USE DEF EndsWith
<1>1. TypeOK /\ NoTraceYet(r) /\ ChargedOnce(r)
  BY DEF GatewayInv, RequestInv
<1>2. ended'[r] = "no"
  BY <1>1 DEF NoTraceYet
<1>3. NoTraceYet(r)' /\ Phase(r)' /\ Lease(r)'
  BY DEF NoTraceYet, Phase, Lease, Streaming
<1>4. ChargedOnce(r)'
  <2>1. CASE UNCHANGED money
    BY <1>1, <2>1 DEF ChargedOnce, Price, Routed, money
  <2>2. CASE ~UNCHANGED money
    <3>1. Len(usage'[r]) = 1 /\ charged'[r] = IF usage'[r][1].status = 200
                                 THEN Price(r, usage'[r][1].tokens) ELSE 0
      BY <2>2, MoneyAfter
    <3>2. usage'[r] # <<>>
      BY <3>1
    <3>3. QED
      BY <3>1, <3>2 DEF ChargedOnce, Price, Routed
  <2>3. QED
    BY <2>1, <2>2
<1>5. charged'[r] \in Nat
  BY MoneyAfter
<1>6. Answer(r)'
  BY <1>2, <1>5 DEF Answer
<1>7. Outcome(r)' = s
  BY <1>2 DEF Outcome
<1>8. Records(r)'
  BY <1>5, <1>7 DEF Records
<1>9. QED
  BY <1>3, <1>4, <1>6, <1>8 DEF RequestInv

(* A stream ends with [DONE], metered, or with an error event.             *)
LEMMA EndsStream ==
    ASSUME GatewayInv, NEW r \in Requests, Act(r), NEW s \in Statuses,
           pc[r] \in Streaming, pc'[r] = "done",
           logged'[r] = <<s>>, observed'[r] = <<s>>, response' = response, req' = req,
           ended'[r] = IF s = 200 THEN "done" ELSE "error",
           s = 200 => Len(usage'[r]) = 1 /\ usage'[r][1].status = 200,
           lease'[r] # "held", ~Faults => lease'[r] # "leaked"
    PROVE  RequestInv(r)'
<1>1. TypeOK /\ NoTraceYet(r) /\ Phase(r) /\ ChargedOnce(r)
  BY DEF GatewayInv, RequestInv
<1>2. response'[r] = 200 /\ req'[r].stream
  BY <1>1 DEF NoTraceYet, Phase, Streaming
<1>3. NoTraceYet(r)' /\ Phase(r)' /\ Lease(r)'
  BY DEF NoTraceYet, Phase, Lease, Streaming
<1>4. ChargedOnce(r)'
  <2>1. CASE UNCHANGED money
    BY <1>1, <2>1 DEF ChargedOnce, Price, Routed, money
  <2>2. CASE ~UNCHANGED money
    <3>1. Len(usage'[r]) = 1 /\ charged'[r] = IF usage'[r][1].status = 200
                                 THEN Price(r, usage'[r][1].tokens) ELSE 0
      BY <2>2, MoneyAfter
    <3>2. usage'[r] # <<>>
      BY <3>1
    <3>3. QED
      BY <3>1, <3>2 DEF ChargedOnce, Price, Routed
  <2>3. QED
    BY <2>1, <2>2
<1>5. Answer(r)'
  BY <1>2 DEF Answer
<1>6. (Outcome(r)' = 200) <=> (s = 200)
  BY <1>2 DEF Outcome
<1>7. Records(r)'
  BY <1>6 DEF Records
<1>8. QED
  BY <1>3, <1>4, <1>5, <1>7 DEF RequestInv

(* What a setter leaves in the entry of its request.                       *)
LEMMA AfterSetters ==
    ASSUME TypeOK, NEW r \in Requests
    PROVE  /\ \A l : Goto(r, l) => pc'[r] = l
           /\ \A s : Respond(r, s) => pc'[r] = "done" /\ response'[r] = s
           /\ \A s : Log(r, s) /\ logged[r] = <<>> => logged'[r] = <<s>>
           /\ \A s : Observe(r, s) /\ observed[r] = <<>> => observed'[r] = <<s>>
           /\ Release(r) => lease'[r] = "releasing"
<1>1. \A l : Goto(r, l) => pc'[r] = l
  BY DEF TypeOK, Goto
<1>2. \A s : Respond(r, s) => pc'[r] = "done" /\ response'[r] = s
  BY DEF TypeOK, Goto, Respond
<1>3. \A s : Log(r, s) /\ logged[r] = <<>> => logged'[r] = <<s>>
  BY DEF TypeOK, Log
<1>4. \A s : Observe(r, s) /\ observed[r] = <<>> => observed'[r] = <<s>>
  BY DEF TypeOK, Observe
<1>5. Release(r) => lease'[r] = "releasing"
  BY DEF TypeOK, Release
<1>6. QED
  BY <1>1, <1>2, <1>3, <1>4, <1>5

(* The request that acts keeps its invariant: the way to the upstream.     *)
LEMMA AdmissionKeeps ==
    ASSUME GatewayInv, NEW r \in Requests,
           \/ Receive(r) \/ ResolveRoute(r) \/ SelectNode(r) \/ Preflight(r) \/ RefuseUsage(r)
           \/ Acquire(r)
    PROVE  RequestInv(r)'
<1>1. TypeOK /\ NoTraceYet(r) /\ Phase(r) /\ Lease(r) /\ Act(r)
  BY DEF GatewayInv, RequestInv, Act, Handler
<1>2. ASSUME NEW p \in {"resolve", "node", "preflight", "acquire"},
             pc[r] \in {"idle", "resolve", "node", "preflight"}, Goto(r, p),
             UNCHANGED <<local, money, observed, logged, lease, response, ended>>
      PROVE  RequestInv(r)'
  <2>1. pc'[r] = p
    BY <1>1, <1>2, AfterSetters
  <2>2. Phase(r)' /\ Lease(r)'
    BY <1>1, <1>2, <2>1 DEF Phase, Lease, Streaming
  <2>3. logged'[r] = <<>> /\ response'[r] = 0
    BY <1>1, <1>2 DEF NoTraceYet, Streaming
  <2>4. UNCHANGED <<req, money, observed, ended>>
    BY <1>2 DEF local
  <2>5. QED
    BY <1>2, <2>1, <2>2, <2>3, <2>4, StillNoTrace DEF Streaming
<1>3. ASSUME NEW s \in {400, 500}, pc[r] \in {"idle", "resolve", "node"}, Refuse(r, s)
      PROVE  RequestInv(r)'
  <2>1. UNCHANGED <<req, money, observed, lease, ended>>
    BY <1>3 DEF Refuse, local
  <2>2. logged'[r] = <<s>> /\ pc'[r] = "done" /\ response'[r] = s
    BY <1>1, <1>3, AfterSetters DEF Refuse, NoTraceYet
  <2>3. observed'[r] = <<>> /\ charged'[r] = 0 /\ lease'[r] = lease[r]
    BY <1>1, <1>3, <2>1 DEF NoTraceYet, money
  <2>4. lease'[r] # "held" /\ (~Faults => lease'[r] # "leaked")
    BY <1>1, <1>3, <2>3 DEF Lease, Streaming
  <2>5. EndsWith(r, s)
    BY <1>3, <2>1, <2>2, <2>3, <2>4 DEF EndsWith, Streaming
  <2>6. s \in Statuses
    BY DEF Statuses
  <2>7. QED
    BY <1>1, <2>5, <2>6, EndsAnswered
<1>4. CASE Receive(r) \/ ResolveRoute(r) \/ SelectNode(r)
  <2>1. \/ \E p \in {"resolve", "node", "preflight", "acquire"} :
               /\ Goto(r, p)
               /\ UNCHANGED <<local, money, observed, logged, lease, response, ended>>
        \/ \E s \in {400, 500} : Refuse(r, s)
    BY <1>4 DEF Receive, ResolveRoute, SelectNode
  <2>2. pc[r] \in {"idle", "resolve", "node"}
    BY <1>4 DEF Receive, ResolveRoute, SelectNode
  <2>3. QED
    BY <1>2, <1>3, <2>1, <2>2
<1>5. CASE Preflight(r)
  <2>1. pc[r] = "preflight" /\ UNCHANGED <<req, made, latest, money, observed, lease, response, ended>>
    BY <1>5 DEF Preflight
  <2>2. CASE Goto(r, "acquire") /\ UNCHANGED <<status, logged>>
    BY <1>2, <2>1, <2>2 DEF local
  <2>3. ASSUME NEW s \in {402, 500}, status' = [status EXCEPT ![r] = s], Log(r, s), Goto(r, "refuse")
        PROVE  RequestInv(r)'
    <3>1. status'[r] = s
      BY <1>1, <2>3 DEF TypeOK
    <3>2. pc'[r] = "refuse" /\ logged'[r] = <<s>>
      BY <1>1, <2>1, <2>3, AfterSetters DEF NoTraceYet
    <3>3. Phase(r)' /\ Lease(r)'
      BY <1>1, <2>1, <3>1, <3>2 DEF Phase, Lease, Streaming
    <3>4. response'[r] = 0
      BY <1>1, <2>1 DEF NoTraceYet, Streaming
    <3>5. QED
      BY <2>1, <3>1, <3>2, <3>3, <3>4, StillNoTrace DEF Streaming
  <2>4. QED
    BY <1>5, <2>2, <2>3 DEF Preflight
<1>6. CASE RefuseUsage(r)
  <2> DEFINE s == status[r]
  <2>1. pc[r] = "refuse" /\ s \in {402, 500} /\ UNCHANGED <<local, logged, lease, ended>>
    BY <1>1, <1>6 DEF RefuseUsage, Phase
  <2>2. Observe(r, s) /\ Respond(r, s) /\ (UNCHANGED money \/ RecordUsage(r, s, Prompt))
    BY <1>6 DEF RefuseUsage, RecordFails
  <2>3. logged'[r] = <<s>> /\ observed'[r] = <<s>> /\ pc'[r] = "done" /\ response'[r] = s
    BY <1>1, <2>1, <2>2, AfterSetters DEF NoTraceYet
  <2>4. charged'[r] = 0
    <3>1. charged' = charged
      BY <2>1, <2>2 DEF RecordUsage, money
    <3>2. QED
      BY <1>1, <2>1, <3>1 DEF NoTraceYet
  <2>5. lease'[r] # "held" /\ (~Faults => lease'[r] # "leaked")
    BY <1>1, <2>1 DEF Lease, Streaming
  <2> HIDE DEF s
  <2>6. s \in Statuses /\ req' = req /\ ended' = ended
    BY <2>1 DEF Statuses, local
  <2>7. observed'[r] \in {<<>>, <<s>>} /\ ~(charged'[r] > 0) /\ s # 200
    BY <2>1, <2>3, <2>4
  <2>8. pc[r] \notin {"done", "gone"} \cup Streaming
    BY <2>1 DEF Streaming
  <2>9. EndsWith(r, s)
    BY <2>3, <2>5, <2>6, <2>7, <2>8 DEF EndsWith
  <2>10. QED
    BY <1>1, <2>6, <2>9, EndsAnswered
<1>7. CASE Acquire(r)
  <2>1. pc[r] = "acquire" /\ UNCHANGED <<local, money, ended>>
    BY <1>7 DEF Acquire
  <2>2. CASE lease' = [lease EXCEPT ![r] = "held"] /\ Goto(r, "call")
             /\ UNCHANGED <<observed, logged, response>>
    <3>1. lease'[r] = "held" /\ pc'[r] = "call"
      BY <1>1, <2>2, AfterSetters DEF TypeOK
    <3>2. Phase(r)' /\ Lease(r)'
      BY <3>1 DEF Phase, Lease, Streaming
    <3>3. logged'[r] = <<>> /\ response'[r] = 0
      BY <1>1, <2>1, <2>2 DEF NoTraceYet, Streaming
    <3>4. UNCHANGED <<req, money, observed, ended>>
      BY <2>1, <2>2 DEF local
    <3>5. QED
      BY <2>1, <3>1, <3>2, <3>3, <3>4, StillNoTrace DEF Streaming
  <2>3. ASSUME NEW s \in {429, 500}, Log(r, s), Observe(r, s), Respond(r, s), UNCHANGED lease
        PROVE  RequestInv(r)'
    <3>1. logged'[r] = <<s>> /\ observed'[r] = <<s>> /\ pc'[r] = "done" /\ response'[r] = s
      BY <1>1, <2>1, <2>3, AfterSetters DEF NoTraceYet
    <3>2. charged'[r] = 0
      BY <1>1, <2>1 DEF NoTraceYet, money
    <3>3. lease'[r] # "held" /\ (~Faults => lease'[r] # "leaked")
      BY <1>1, <2>1, <2>3 DEF Lease, Streaming
    <3>4. s \in Statuses /\ req' = req /\ ended' = ended
      BY <2>1, <2>3 DEF Statuses, local
    <3>5. observed'[r] \in {<<>>, <<s>>} /\ ~(charged'[r] > 0) /\ s # 200
      BY <2>3, <3>1, <3>2
    <3>6. pc[r] \notin {"done", "gone"} \cup Streaming
      BY <2>1 DEF Streaming
    <3>7. EndsWith(r, s)
      BY <3>1, <3>3, <3>4, <3>5, <3>6 DEF EndsWith
    <3>8. QED
      BY <1>1, <3>4, <3>7, EndsAnswered
  <2>4. QED
    BY <1>7, <2>2, <2>3 DEF Acquire
<1>8. QED
  BY <1>4, <1>5, <1>6, <1>7

(* The same: the upstream call, and what comes back.                       *)
LEMMA UpstreamKeeps ==
    ASSUME GatewayInv, NEW r \in Requests, Upstream(r)
    PROVE  RequestInv(r)'
<1>1. TypeOK /\ NoTraceYet(r) /\ Phase(r) /\ Lease(r)
  BY DEF GatewayInv, RequestInv
<1>2. /\ pc[r] \in {"call", "stream"}
      /\ UNCHANGED <<req, money, observed, logged, lease, ended>>
  BY <1>1 DEF Upstream, Answered, CallFails, OpenStream, Chunk, UpstreamEnds, UpstreamBreaks, local
<1>3. logged'[r] = <<>>
  BY <1>1, <1>2 DEF NoTraceYet
<1>4. \/ pc'[r] = "meter" /\ ~req[r].stream /\ response'[r] = 0
      \/ pc'[r] = "failed" /\ status'[r] = 502 /\ response'[r] = 0
      \/ pc'[r] \in Streaming /\ req[r].stream /\ response'[r] = 200
  <2>1. CASE Answered(r)
    BY <1>1, <2>1, AfterSetters DEF Answered, NoTraceYet, Streaming
  <2>2. CASE CallFails(r)
    <3>1. pc'[r] = "failed"
      BY <1>1, <2>2, AfterSetters DEF CallFails
    <3>2. status'[r] = 502
      BY <1>1, <2>2 DEF CallFails, TypeOK
    <3>3. QED
      BY <1>1, <2>2, <3>1, <3>2 DEF CallFails, NoTraceYet, Streaming
  <2>3. CASE OpenStream(r)
    <3>1. pc'[r] = "stream"
      BY <1>1, <2>3, AfterSetters DEF OpenStream
    <3>2. response'[r] = 200
      BY <1>1, <2>3 DEF OpenStream, TypeOK
    <3>3. QED
      BY <2>3, <3>1, <3>2 DEF OpenStream, Streaming
  <2>4. CASE Chunk(r)
    BY <1>1, <2>4 DEF Chunk, NoTraceYet, Phase, Streaming
  <2>5. CASE UpstreamEnds(r) \/ UpstreamBreaks(r)
    BY <1>1, <2>5, AfterSetters DEF UpstreamEnds, UpstreamBreaks, NoTraceYet, Phase, Streaming
  <2>6. QED
    BY <2>1, <2>2, <2>3, <2>4, <2>5 DEF Upstream
<1>5. Phase(r)' /\ Lease(r)'
  BY <1>1, <1>2, <1>4 DEF Phase, Lease, Streaming
<1>6. QED
  BY <1>2, <1>3, <1>4, <1>5, StillNoTrace DEF Streaming

(* What record_usage leaves of a request that had no trace.                *)
LEMMA EventOf ==
    ASSUME GatewayInv, NEW r \in Requests, NEW s \in Statuses, NEW t \in Nat,
           pc[r] \notin {"done", "gone"}, RecordUsage(r, s, t)
    PROVE  /\ Len(usage'[r]) = 1 /\ usage'[r][1].status = UsageResult(r, s, t)
           /\ UsageResult(r, s, t) # 200 => charged'[r] = 0
<1>1. TypeOK /\ usage[r] = <<>> /\ charged[r] = 0
  BY DEF GatewayInv, RequestInv, NoTraceYet
<1>2. /\ usage' = [usage EXCEPT ![r] = <<[status |-> UsageResult(r, s, t), tokens |-> t]>>]
      /\ charged' = [charged EXCEPT ![r] = IF UsageResult(r, s, t) = 200 THEN Price(r, t) ELSE 0]
  BY <1>1, RecordUsageOnce
<1>3. usage'[r] = <<[status |-> UsageResult(r, s, t), tokens |-> t]>>
  BY <1>1, <1>2 DEF TypeOK
<1>4. UsageResult(r, s, t) # 200 => charged'[r] = 0
  BY <1>1, <1>2 DEF TypeOK
<1>5. QED
  BY <1>3, <1>4

(* The same: metering a JSON answer or a failed call, the last step of the *)
(* request.                                                                *)
LEMMA MeterKeeps ==
    ASSUME GatewayInv, NEW r \in Requests, FailedUsage(r) \/ Meter(r)
    PROVE  RequestInv(r)'
<1>1. TypeOK /\ NoTraceYet(r) /\ Phase(r) /\ Act(r)
  BY DEF GatewayInv, RequestInv, Act, Handler
<1>2. pc[r] \in {"failed", "meter"} /\ UNCHANGED <<req, ended>> /\ Release(r)
  BY DEF FailedUsage, Meter, local
<1>3. lease'[r] = "releasing"
  BY <1>1, <1>2, AfterSetters
<1>4. pc[r] \notin {"done", "gone"} \cup Streaming
  BY <1>2 DEF Streaming
<1>5. PICK s \in Statuses :
          /\ Observe(r, s) /\ Log(r, s) /\ Respond(r, s)
          /\ s = 200 => pc[r] = "meter" /\ Len(usage'[r]) = 1 /\ usage'[r][1].status = 200
          /\ s \notin {200, 500} => charged'[r] = 0
  <2>1. CASE FailedUsage(r)
    <3>1. pc[r] = "failed" /\ status[r] = 502
      BY <1>1, <2>1 DEF FailedUsage, Phase
    <3>2. charged' = charged
      BY <2>1, <3>1 DEF FailedUsage, RecordFails, RecordUsage, money
    <3>3. charged'[r] = 0
      BY <1>1, <3>1, <3>2 DEF NoTraceYet
    <3>4. Observe(r, 502) /\ Log(r, 502) /\ Respond(r, 502)
      BY <2>1, <3>1 DEF FailedUsage
    <3>5. QED
      BY <3>3, <3>4 DEF Statuses
  <2>2. CASE Meter(r)
    <3> DEFINE t == MeteredAnswer(r)
    <3>1. PICK s \in {200, 402, 500} :
              /\ (s = UsageResult(r, 200, t) /\ RecordUsage(r, 200, t)) \/ s = 500
              /\ Observe(r, s) /\ Log(r, s) /\ Respond(r, s)
      BY <2>2 DEF Meter
    <3>2. pc[r] = "meter" /\ t \in Nat /\ 200 \in Statuses /\ s \in Statuses
      BY <1>1, <2>2, MeteredType DEF Meter, Statuses
    <3> HIDE DEF t
    <3>3. CASE s = 500
      BY <3>1, <3>2, <3>3
    <3>4. CASE s = UsageResult(r, 200, t) /\ RecordUsage(r, 200, t)
      <4>1. /\ Len(usage'[r]) = 1 /\ usage'[r][1].status = s
            /\ s # 200 => charged'[r] = 0
        BY <3>2, <3>4, EventOf
      <4>2. QED
        BY <3>1, <3>2, <4>1
    <3>5. QED
      BY <3>1, <3>3, <3>4
  <2>3. QED
    BY <2>1, <2>2
<1>6. logged'[r] = <<s>> /\ observed'[r] = <<s>> /\ pc'[r] = "done" /\ response'[r] = s
  BY <1>1, <1>2, <1>5, AfterSetters DEF NoTraceYet
<1>7. s = 200 => ~req[r].stream /\ Len(usage'[r]) = 1 /\ usage'[r][1].status = 200
  BY <1>1, <1>5 DEF Phase
<1>8. charged'[r] > 0 => observed'[r] = <<s>> /\ s \in {200, 500}
  BY <1>5, <1>6
<1>9. EndsWith(r, s)
  BY <1>2, <1>3, <1>4, <1>6, <1>7, <1>8 DEF EndsWith
<1>10. QED
  BY <1>1, <1>9, EndsAnswered

(* The same: the end of a stream.                                          *)
LEMMA StreamKeeps ==
    ASSUME GatewayInv, NEW r \in Requests, EndStream(r) \/ BreakStream(r)
    PROVE  RequestInv(r)'
<1>1. TypeOK /\ NoTraceYet(r) /\ Act(r)
  BY DEF GatewayInv, RequestInv, Act, Handler
<1> DEFINE t == MeteredStream(r)
<1>2. pc[r] \in {"streamEnd", "streamError"} /\ t \in Nat /\ 200 \in Statuses /\ 502 \in Statuses
      /\ 500 \in Statuses
  BY <1>1, MeteredType DEF EndStream, BreakStream, Statuses
<1>3. UsageResult(r, 200, t) \in Statuses
  BY DEF UsageResult, Statuses
<1>4. PICK s \in Statuses :
          /\ FinishStream(r, s, IF s = 200 THEN "done" ELSE "error")
          /\ s = 200 => RecordUsage(r, 200, t) /\ UsageResult(r, 200, t) = 200
  BY <1>2, <1>3 DEF EndStream, BreakStream
<1> HIDE DEF t
<1>5. s = 200 => Len(usage'[r]) = 1 /\ usage'[r][1].status = 200
  BY <1>2, <1>4, EventOf
<1>6. Observe(r, s) /\ Log(r, s) /\ Release(r) /\ Goto(r, "done") /\ response' = response /\ req' = req
  BY <1>4 DEF FinishStream, local
<1>7. logged'[r] = <<s>> /\ observed'[r] = <<s>> /\ pc'[r] = "done" /\ lease'[r] = "releasing"
  BY <1>1, <1>2, <1>6, AfterSetters DEF NoTraceYet
<1>8. ended'[r] = IF s = 200 THEN "done" ELSE "error"
  BY <1>1, <1>4 DEF FinishStream, TypeOK
<1>9. pc[r] \in Streaming
  BY <1>2 DEF Streaming
<1>10. QED
  BY <1>1, <1>5, <1>6, <1>7, <1>8, <1>9, EndsStream

(* The same: a client that leaves.                                         *)
LEMMA DisconnectKeeps ==
    ASSUME GatewayInv, NEW r \in Requests, Disconnect(r)
    PROVE  RequestInv(r)'
<1>1. TypeOK /\ NoTraceYet(r) /\ Phase(r) /\ ChargedOnce(r) /\ Answer(r) /\ Lease(r) /\ Act(r)
  BY DEF GatewayInv, RequestInv, Act
<1>2. /\ Faults /\ pc[r] \notin {"idle", "done", "gone"}
      /\ UNCHANGED <<local, observed, logged, response, ended>> /\ Goto(r, "gone")
  BY DEF Disconnect
<1>3. pc'[r] = "gone" /\ UNCHANGED req
  BY <1>1, <1>2, AfterSetters DEF local
<1>4. ended'[r] = "no" /\ (response'[r] = 0 \/ (response'[r] = 200 /\ req'[r].stream))
  BY <1>1, <1>2, <1>3 DEF NoTraceYet, Phase
<1>5. Phase(r)' /\ NoTraceYet(r)' /\ Records(r)'
  BY <1>3, <1>4 DEF Phase, NoTraceYet, Records, Streaming
<1>6. Answer(r)'
  BY <1>3, <1>4 DEF Answer
<1>7. ChargedOnce(r)'
  <2>1. CASE UNCHANGED money
    BY <1>1, <1>3, <2>1 DEF ChargedOnce, Price, Routed, money
  <2>2. CASE ~UNCHANGED money
    <3>1. Len(usage'[r]) = 1 /\ charged'[r] = IF usage'[r][1].status = 200
                                 THEN Price(r, usage'[r][1].tokens) ELSE 0
      BY <1>1, <2>2, MoneyAfter
    <3>2. usage'[r] # <<>>
      BY <3>1
    <3>3. QED
      BY <1>3, <3>1, <3>2 DEF ChargedOnce, Price, Routed
  <2>3. QED
    BY <2>1, <2>2
<1>8. Lease(r)'
  <2>1. PICK l \in Leases :
            /\ lease' = [lease EXCEPT ![r] = l]
            /\ CASE pc[r] \in Streaming -> l = "releasing"
                 [] pc[r] = "acquire"     -> l \in {"none", "leaked"}
                 [] lease[r] = "held"     -> l = "leaked"
                 [] OTHER                 -> l = lease[r]
    BY Zenon DEF Disconnect, Dropped
  <2>2. l # "held"
    BY <2>1 DEF Streaming
  <2>3. lease'[r] = l
    BY <1>1, <2>1 DEF TypeOK
  <2>4. QED
    BY <1>2, <1>3, <2>2, <2>3 DEF Lease, Streaming
<1>9. QED
  BY <1>5, <1>6, <1>7, <1>8 DEF RequestInv

(* The same: the task that gives the slots back.                           *)
LEMMA ReleaseKeeps ==
    ASSUME GatewayInv, NEW r \in Requests, ReleaseTask(r)
    PROVE  RequestInv(r)'
<1>1. TypeOK /\ RequestInv(r)
  BY DEF GatewayInv
<1>2. /\ lease[r] = "releasing" /\ lease'[r] \in {"released", "leaked"}
      /\ lease'[r] = "leaked" => Faults
  BY <1>1 DEF ReleaseTask, TypeOK
<1>3. UNCHANGED <<req, status, usage, charged, pc, observed, logged, response, ended>>
  BY DEF ReleaseTask, local, money
<1>4. Lease(r)'
  BY <1>1, <1>2, <1>3 DEF RequestInv, Lease
<1>5. NoTraceYet(r)' /\ Phase(r)' /\ Answer(r)'
  BY <1>1, <1>3 DEF RequestInv, NoTraceYet, Phase, Answer
<1>6. ChargedOnce(r)' /\ Records(r)'
  BY <1>1, <1>3 DEF RequestInv, ChargedOnce, Price, Routed, Records, Outcome
<1>7. QED
  BY <1>4, <1>5, <1>6 DEF RequestInv

(* Every step keeps the invariant.                                         *)
LEMMA NextInv == GatewayInv /\ [Next]_vars => GatewayInv'
<1>1. SUFFICES ASSUME GatewayInv, [Next]_vars PROVE GatewayInv'
  OBVIOUS
<1>2. ASSUME NEW r \in Requests, Act(r) PROVE GatewayInv'
  <2>1. RequestInv(r)'
    BY <1>1, <1>2, AdmissionKeeps, UpstreamKeeps, MeterKeeps, StreamKeeps, DisconnectKeeps,
       ReleaseKeeps DEF Act, Handler
  <2>2. QED
    BY <1>1, <1>2, <2>1, ActKeeps
<1>3. CASE UNCHANGED vars
  <2>1. UNCHANGED <<balance, pc, req, status, made, latest, usage, charged, observed, logged,
                    lease, response, ended>>
    BY <1>3 DEF vars, local, money
  <2>2. TypeOK'
    BY <1>1, <2>1 DEF GatewayInv, TypeOK
  <2>3. ASSUME NEW r \in Requests PROVE RequestInv(r)'
    <3>1. RequestInv(r)
      BY <1>1, <2>3 DEF GatewayInv
    <3>2. NoTraceYet(r)' /\ Phase(r)' /\ Answer(r)' /\ Lease(r)'
      BY <2>1, <3>1 DEF RequestInv, NoTraceYet, Phase, Answer, Lease
    <3>3. ChargedOnce(r)' /\ Records(r)'
      BY <2>1, <3>1 DEF RequestInv, ChargedOnce, Price, Routed, Records, Outcome
    <3>4. QED
      BY <3>2, <3>3 DEF RequestInv
  <2>4. QED
    BY <2>2, <2>3 DEF GatewayInv
<1>4. QED
  BY <1>1, <1>2, <1>3 DEF Next, Act, Terminated

-----------------------------------------------------------------------------
(* The inductive invariant of a gateway request: it leaves no trace before *)
(* the step that ends it, and then all of its traces agree.                *)
THEOREM Inductive == Spec => []GatewayInv
<1>1. Init => GatewayInv
  BY InitInv
<1>2. GatewayInv /\ [Next]_vars => GatewayInv'
  BY NextInv
<1>3. QED
  BY <1>1, <1>2, PTL DEF Spec

(* A request has at most one usage event and pays for exactly the tokens   *)
(* of a 200 event, whatever fails and whenever its client leaves; requests *)
(* that race for the balance do not make it negative.                      *)
THEOREM ChargesAreMetered == Spec => [](ChargedAsMetered /\ balance \in Nat)
<1>1. GatewayInv => ChargedAsMetered /\ balance \in Nat
  BY DEF GatewayInv, TypeOK, RequestInv, ChargedOnce, ChargedAsMetered
<1>2. QED
  BY <1>1, Inductive, PTL

(* A JSON answer and the [DONE] of a stream are metered before the client  *)
(* sees them, and a refusal that is no database error costs nothing.       *)
THEOREM AnswersAreMetered == Spec => []AnswerIsMetered
<1>1. GatewayInv => AnswerIsMetered
  BY DEF GatewayInv, RequestInv, Answer, AnswerIsMetered
<1>2. QED
  BY <1>1, Inductive, PTL

(* The request log, the metrics and the client agree on how a request      *)
(* ended, and a charge shows up in both.                                   *)
THEOREM RecordsDoAgree == Spec => []RecordsAgree
<1>1. GatewayInv => RecordsAgree
  BY DEF GatewayInv, RequestInv, Records, RecordsAgree
<1>2. QED
  BY <1>1, Inductive, PTL

(* A limit lease is held exactly while its request is served, and without  *)
(* faults none is left to its TTL.                                         *)
THEOREM LeasesFollow == Spec => []LeaseFollowsRequest
<1>1. GatewayInv => LeaseFollowsRequest
  BY DEF GatewayInv, RequestInv, Lease, LeaseFollowsRequest
<1>2. QED
  BY <1>1, Inductive, PTL
=============================================================================
