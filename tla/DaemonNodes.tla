----------------------------- MODULE DaemonNodes -----------------------------
(* The registry of daemon nodes of mizan-api/src/daemon_nodes.rs: creating *)
(* and revoking a node, the authentication of signed daemon calls with its *)
(* memory of nonces, the calls that mark a node as seen, and the selection *)
(* of a node for a model.  A handler may be suspended at every await: at   *)
(* each SQL statement and at the lock of the nonce cache.  What the lease  *)
(* and completion calls do to jobs is modelled in Dispatch.                *)
(*                                                                         *)
(* Calls are well formed: signed with the node's token, all headers set.   *)
(* Response bodies, and the columns that nothing decides on (label,        *)
(* hostname, public key, region, pricing), are left out.                   *)
EXTENDS Integers, FiniteSets

CONSTANTS
    Nodes,      \* node ids
    NoNode,     \* none of them
    Calls,      \* signed calls; a call stands for its node::nonce key
    NoCall,     \* none of them
    Handlers,   \* tasks that run daemon_node_auth and the handler behind it
    Admins,     \* administrators' requests in flight
    Models,     \* model ids
    Bodies,     \* what a call may say: its kind, capabilities and clock skew
    Ttl,        \* DAEMON_SIGNATURE_TTL_SECONDS
    PruneAt,    \* DAEMON_SIGNATURE_NONCE_CACHE_PRUNE_THRESHOLD
    StaleAfter, \* config.daemon_stale_seconds
    MaxTime,    \* bound on the clock
    MaxInt32,   \* i32::MAX
    Faults,     \* calls arrive twice, clients leave, SQL fails, restarts
    Edits       \* rows are edited behind the program's back

(* A heartbeat or a registration with capabilities; a ping or registration *)
(* without; a call for jobs.                                               *)
Kinds == {"report", "seen", "jobs"}

(* A selection that ends in an error.                                      *)
Failed == "failed"

Capabilities == [models : SUBSET Models, max : Nat, healthy : BOOLEAN]

ASSUME NodesAssumption ==
    /\ NoNode \notin Nodes /\ Failed \notin Nodes /\ NoCall \notin Calls
    /\ Bodies \subseteq [kind : Kinds, report : Capabilities, skew : Int]
    /\ Ttl \in Nat /\ PruneAt \in Nat /\ StaleAfter \in Nat
    /\ MaxTime \in Nat /\ MaxInt32 \in Nat
    /\ Faults \in BOOLEAN /\ Edits \in BOOLEAN

VARIABLES
    now,      \* the control plane's clock, in seconds
    row,      \* table daemon_nodes
    audits,   \* admin_audit_logs: rows about each node
    broken,   \* nodes whose model_ids_json does not parse
    nonces,   \* daemon_signature_nonce_cache: the expiry of a key, or Forgotten
    sent,     \* the calls signed so far
    call,     \* what each of them says
    pc,       \* where a handler is
    carried,  \* the call it carries
    read,     \* the time it read last
    admin,    \* what an administrator's request does next, and to which node
    accepted, \* history: calls that passed the nonce check of this process
    heard     \* history: when an accepted call of a node last read the clock

table    == <<row, audits, broken>>
traffic  == <<sent, call>>
handling == <<pc, carried, read>>
history  == <<accepted, heard>>
vars     == <<now, table, nonces, traffic, handling, admin, history>>

Audited   == {"created", "revoked"}
Forgotten == -1
Never     == -1

(* The capability columns of a node that has not reported: NULL and '[]'.  *)
NoReport == [models |-> {}, max |-> 0, healthy |-> FALSE]
NoRow    == [status |-> "none", revoked |-> FALSE, seen |-> Never, report |-> NoReport]
NoWork   == [step |-> "idle", node |-> NoNode]
Blank    == [node |-> NoNode, kind |-> "seen", report |-> NoReport, ts |-> 0]

Init ==
    /\ now = 0
    /\ row = [n \in Nodes |-> NoRow]
    /\ audits = [n \in Nodes |-> [what \in Audited |-> 0]]
    /\ broken = {}
    /\ nonces = [c \in Calls |-> Forgotten]
    /\ sent = {}
    /\ call = [c \in Calls |-> Blank]
    /\ pc = [h \in Handlers |-> "idle"]
    /\ carried = [h \in Handlers |-> NoCall]
    /\ read = [h \in Handlers |-> 0]
    /\ admin = [a \in Admins |-> NoWork]
    /\ accepted = {}
    /\ heard = [n \in Nodes |-> Never]

-----------------------------------------------------------------------------
(* The administrators' endpoints.                                          *)

Exists(n) == row[n].status # "none"
Live(n)   == Exists(n) /\ ~row[n].revoked /\ row[n].status # "revoked"

(* create_daemon_node up to its INSERT: the host user is looked up, and a  *)
(* fresh id drawn.                                                         *)
CreateDaemonNode(a, n) ==
    /\ admin[a].step = "idle"
    /\ ~Exists(n) /\ \A b \in Admins : admin[b].node # n
    /\ \E hostExists \in BOOLEAN :
           admin' = IF hostExists
                    THEN [admin EXCEPT ![a] = [step |-> "insert", node |-> n]]
                    ELSE admin
    /\ UNCHANGED <<now, table, nonces, traffic, handling, history>>

InsertNode(a) ==
    /\ admin[a].step = "insert"
    /\ \/ /\ row' = [row EXCEPT ![admin[a].node] = [NoRow EXCEPT !.status = "pending"]]
          /\ admin' = [admin EXCEPT ![a].step = "created"]
       \/ /\ Faults
          /\ admin' = [admin EXCEPT ![a] = NoWork]
          /\ UNCHANGED row
    /\ UNCHANGED <<now, audits, broken, nonces, traffic, handling, history>>

(* revoke_daemon_node: the UPDATE decides which of several revocations is  *)
(* the one; the others find no row and answer 404.                         *)
RevokeDaemonNode(a, n) ==
    /\ admin[a].step = "idle"
    /\ IF Exists(n) /\ ~row[n].revoked
       THEN /\ row' = [row EXCEPT ![n].status = "revoked", ![n].revoked = TRUE]
            /\ admin' = [admin EXCEPT ![a] = [step |-> "revoked", node |-> n]]
       ELSE UNCHANGED <<row, admin>>
    /\ UNCHANGED <<now, audits, broken, nonces, traffic, handling, history>>

(* record_admin_audit; a failure is only logged.                           *)
Audit(a) ==
    /\ admin[a].step \in Audited
    /\ \/ audits' = [audits EXCEPT ![admin[a].node][admin[a].step] = @ + 1]
       \/ Faults /\ UNCHANGED audits
    /\ admin' = [admin EXCEPT ![a] = NoWork]
    /\ UNCHANGED <<now, row, broken, nonces, traffic, handling, history>>

-----------------------------------------------------------------------------
(* A daemon signs a call: then_sign draws a new nonce and takes the        *)
(* daemon's own time.                                                      *)
ThenSign(c, n) ==
    /\ c \notin sent /\ Exists(n)
    /\ sent' = sent \cup {c}
    /\ \E b \in Bodies :
           call' = [call EXCEPT ![c] = [node |-> n, kind |-> b.kind, report |-> b.report,
                                        ts |-> now + b.skew]]
    /\ UNCHANGED <<now, table, nonces, handling, admin, history>>

(* The network hands a call to the server: late, twice or never.           *)
Deliver(h, c) ==
    /\ pc[h] = "idle" /\ c \in sent
    /\ pc' = [pc EXCEPT ![h] = "resolve"]
    /\ carried' = [carried EXCEPT ![h] = c]
    /\ UNCHANGED <<now, table, nonces, traffic, read, admin, history>>

-----------------------------------------------------------------------------
(* daemon_node_auth.                                                       *)

Message(h) == call[carried[h]]
Expiry(c)  == call[c].ts + Ttl

Goto(h, p) ==
    /\ pc' = [pc EXCEPT ![h] = p]
    /\ UNCHANGED <<carried, read>>

(* The handler reads the clock and goes on.                                *)
ReadClock(h, p) ==
    /\ pc' = [pc EXCEPT ![h] = p]
    /\ read' = [read EXCEPT ![h] = now]
    /\ UNCHANGED carried

(* The handler answers or is dropped, and the task is free again.  Nothing *)
(* below depends on what it answered.                                      *)
End(h) ==
    /\ pc' = [pc EXCEPT ![h] = "idle"]
    /\ carried' = [carried EXCEPT ![h] = NoCall]
    /\ read' = [read EXCEPT ![h] = 0]

(* resolve_daemon_node_identity: SELECT ... WHERE token_hash = ?           *)
ResolveIdentity(h) ==
    /\ pc[h] = "resolve"
    /\ IF Live(Message(h).node) THEN Goto(h, "sign") ELSE End(h)
    /\ UNCHANGED <<now, table, nonces, traffic, admin, history>>

(* validate_daemon_request_signature up to the lock of the nonce cache:    *)
(* the time is read before the lock is waited for.                         *)
CheckTimestamp(h) ==
    LET age == now - Message(h).ts IN
    /\ pc[h] = "sign"
    /\ IF age <= Ttl /\ -age <= Ttl THEN ReadClock(h, "lock") ELSE End(h)
    /\ UNCHANGED <<now, table, nonces, traffic, admin, history>>

(* Mutant: an entry is dropped in the last second it is needed.            *)
PruneStaleNoncesEarly(t) ==
    [c \in Calls |-> IF t < nonces[c] THEN nonces[c] ELSE Forgotten]

(* prune_stale_nonces.                                                     *)
PruneStaleNonces(t) ==
    [c \in Calls |-> IF t <= nonces[c] THEN nonces[c] ELSE Forgotten]

Remembered == {c \in Calls : nonces[c] # Forgotten}

(* Mutant: the cache is pruned and written, but not consulted.             *)
RememberNonceUnchecked(h) ==
    /\ pc[h] = "lock"
    /\ nonces' = [nonces EXCEPT ![carried[h]] = Expiry(carried[h])]
    /\ Goto(h, "handle")
    /\ accepted' = accepted \cup {carried[h]}
    /\ UNCHANGED <<now, table, traffic, admin, heard>>

(* The section under the write lock: prune with the time read before it,   *)
(* refuse a key that is there, else remember it as long as its timestamp   *)
(* is acceptable.                                                          *)
RememberNonce(h) ==
    LET c    == carried[h]
        kept == IF Cardinality(Remembered) >= PruneAt
                THEN PruneStaleNonces(read[h]) ELSE nonces IN
    /\ pc[h] = "lock"
    /\ IF kept[c] # Forgotten
       THEN /\ nonces' = kept
            /\ End(h)
            /\ UNCHANGED accepted
       ELSE /\ nonces' = [kept EXCEPT ![c] = Expiry(c)]
            /\ Goto(h, "handle")
            /\ accepted' = accepted \cup {c}
    /\ UNCHANGED <<now, table, traffic, admin, heard>>

-----------------------------------------------------------------------------
(* register_daemon_node, daemon_heartbeat and daemon_ping.                 *)

(* normalize_capabilities, and the range check of mark_node_seen.          *)
Valid(report) == report.models # {} /\ report.max \in 1 .. MaxInt32

(* The handler up to the UPDATE of mark_node_seen.  Calls for jobs go on   *)
(* in Dispatch.                                                            *)
Handle(h) ==
    /\ pc[h] = "handle"
    /\ IF \/ Message(h).kind = "jobs"
          \/ Message(h).kind = "report" /\ ~Valid(Message(h).report)
       THEN End(h) /\ UNCHANGED heard
       ELSE /\ ReadClock(h, "update")
            /\ heard' = [heard EXCEPT ![Message(h).node] = now]
    /\ UNCHANGED <<now, table, nonces, traffic, admin, accepted>>

Seen(h, t) ==
    LET n == Message(h).node IN
    [row EXCEPT ![n] =
        [status |-> "active", revoked |-> row[n].revoked, seen |-> t,
         report |-> IF Message(h).kind = "report" THEN Message(h).report ELSE row[n].report]]

(* A report writes all capability columns; a ping none of them.            *)
Repaired(h) == IF Message(h).kind = "report" THEN broken \ {Message(h).node} ELSE broken

(* Mutant: the UPDATE trusts the identity that was read before.            *)
MarkNodeSeenUnguarded(h) ==
    /\ pc[h] = "update"
    /\ row' = Seen(h, read[h])
    /\ broken' = Repaired(h)
    /\ End(h)
    /\ UNCHANGED <<now, audits, nonces, traffic, admin, history>>

(* Mutant: last_seen_at is the time the daemon signed with.                *)
MarkNodeSeenByTimestamp(h) ==
    /\ pc[h] = "update"
    /\ IF Live(Message(h).node)
       THEN row' = Seen(h, Message(h).ts) /\ broken' = Repaired(h)
       ELSE UNCHANGED <<row, broken>>
    /\ End(h)
    /\ UNCHANGED <<now, audits, nonces, traffic, admin, history>>

(* The UPDATE of mark_node_seen, WHERE the node is still not revoked.      *)
MarkNodeSeen(h) ==
    /\ pc[h] = "update"
    /\ IF Live(Message(h).node)
       THEN row' = Seen(h, read[h]) /\ broken' = Repaired(h)
       ELSE UNCHANGED <<row, broken>>
    /\ End(h)
    /\ UNCHANGED <<now, audits, nonces, traffic, admin, history>>

-----------------------------------------------------------------------------
(* select_eligible_daemon_node and the daemon part of list_public_models.  *)

(* Both queries ask "disabled" to be 0, and nothing in the code sets it.   *)
Cutoff == now - (IF StaleAfter < 1 THEN 1 ELSE StaleAfter)

(* Mutant: the health a node reported is not asked for.                    *)
SelectEligibleUnhealthy(m) ==
    LET stops == {n \in Nodes : /\ row[n].status = "active" /\ ~row[n].revoked
                                /\ row[n].seen # Never /\ row[n].seen >= Cutoff
                                /\ \/ n \in broken
                                   \/ m \in row[n].report.models /\ row[n].report.max > 0}
        first == {n \in stops : \A o \in stops : row[o].seen <= row[n].seen} IN
    {IF n \in broken THEN Failed ELSE n : n \in first}

(* The rows come ordered by last_seen_at and are gone through one by one:  *)
(* one whose models do not parse ends the selection with an error, for     *)
(* whatever model was asked; the first that has the model and a positive   *)
(* concurrency is taken.  Among rows seen in the same second created_at    *)
(* decides, which the model does not keep: any of them may come first.     *)
SelectEligible(m) ==
    LET rows  == {n \in Nodes : /\ row[n].status = "active" /\ ~row[n].revoked
                                /\ row[n].report.healthy
                                /\ row[n].seen # Never /\ row[n].seen >= Cutoff}
        stops == {n \in rows : \/ n \in broken
                               \/ m \in row[n].report.models /\ row[n].report.max > 0}
        first == {n \in stops : \A o \in stops : row[o].seen <= row[n].seen} IN
    {IF n \in broken THEN Failed ELSE n : n \in first}

(* The listing has a query of its own, and skips a row that does not parse. *)
ListedModels ==
    UNION {row[n].report.models :
               n \in {o \in Nodes \ broken :
                         /\ row[o].status = "active" /\ ~row[o].revoked
                         /\ row[o].report.healthy /\ row[o].report.max > 0
                         /\ row[o].seen # Never /\ row[o].seen >= Cutoff}}

(* The column of a row is overwritten from outside with something that is  *)
(* not JSON, the case list_public_models is tested with.                   *)
EditModels(n) ==
    /\ Edits /\ Exists(n)
    /\ broken' = broken \cup {n}
    /\ UNCHANGED <<now, row, audits, nonces, traffic, handling, admin, history>>

-----------------------------------------------------------------------------
(* Faults.                                                                 *)

(* A SELECT or UPDATE fails.                                               *)
SqlError(h) ==
    /\ Faults
    /\ pc[h] \in {"resolve", "update"}
    /\ End(h)
    /\ UNCHANGED <<now, table, nonces, traffic, admin, history>>

(* The client has left and the handler is dropped at an await.             *)
Dropped(h) ==
    /\ Faults
    /\ pc[h] # "idle"
    /\ End(h)
    /\ UNCHANGED <<now, table, nonces, traffic, admin, history>>

(* The control plane restarts: what is in memory is gone, the tables stay. *)
Restart ==
    /\ Faults
    /\ nonces' = [c \in Calls |-> Forgotten]
    /\ accepted' = {}
    /\ pc' = [h \in Handlers |-> "idle"]
    /\ carried' = [h \in Handlers |-> NoCall]
    /\ read' = [h \in Handlers |-> 0]
    /\ admin' = [a \in Admins |-> NoWork]
    /\ UNCHANGED <<now, table, traffic, heard>>

Tick == now < MaxTime /\ now' = now + 1
        /\ UNCHANGED <<table, nonces, traffic, handling, admin, history>>

Next ==
    \/ \E a \in Admins : InsertNode(a) \/ Audit(a)
    \/ \E a \in Admins, n \in Nodes : CreateDaemonNode(a, n) \/ RevokeDaemonNode(a, n)
    \/ \E n \in Nodes : EditModels(n)
    \/ \E n \in Nodes, c \in Calls : ThenSign(c, n)
    \/ \E h \in Handlers, c \in Calls : Deliver(h, c)
    \/ \E h \in Handlers : \/ ResolveIdentity(h) \/ CheckTimestamp(h) \/ RememberNonce(h)
                           \/ Handle(h) \/ MarkNodeSeen(h) \/ SqlError(h) \/ Dropped(h)
    \/ Restart \/ Tick

Spec == Init /\ [][Next]_vars

-----------------------------------------------------------------------------
(* Properties.                                                             *)

(* Shape of the state.                                                     *)
TypeOK ==
    /\ now \in Nat
    /\ row \in [Nodes -> [status : {"none", "pending", "active", "revoked"},
                          revoked : BOOLEAN, seen : Nat \cup {Never},
                          report : Capabilities]]
    /\ audits \in [Nodes -> [Audited -> Nat]]
    /\ broken \subseteq Nodes
    /\ nonces \in [Calls -> Int]
    /\ sent \subseteq Calls
    /\ call \in [Calls -> [node : Nodes \cup {NoNode}, kind : Kinds,
                           report : Capabilities, ts : Int]]
    /\ \A c \in sent : call[c].node \in Nodes
    /\ pc \in [Handlers -> {"idle", "resolve", "sign", "lock", "handle", "update"}]
    /\ carried \in [Handlers -> Calls \cup {NoCall}]
    /\ \A h \in Handlers : pc[h] # "idle" => carried[h] \in sent
    /\ read \in [Handlers -> Nat]
    /\ admin \in [Admins -> [step : {"idle", "insert", "created", "revoked"},
                             node : Nodes \cup {NoNode}]]
    /\ \A a \in Admins : admin[a].step # "idle" => admin[a].node \in Nodes
    /\ accepted \subseteq sent
    /\ heard \in [Nodes -> Nat \cup {Never}]

(* However handlers wait for the lock, and although pruning works with a   *)
(* time that was read before, a call that this process accepted stays in   *)
(* the nonce cache as long as its timestamp could be accepted again.       *)
RememberedWhileFresh ==
    \A c \in accepted : now <= Expiry(c) => nonces[c] # Forgotten

(* A call passes the nonce check a second time in one process only if the  *)
(* clock went past its expiry while the handler waited for the lock.       *)
RepeatIsRefused ==
    [][\A h \in Handlers :
          pc[h] = "lock" /\ pc'[h] = "handle" /\ carried[h] \in accepted =>
              now > Expiry(carried[h])]_vars

(* Revocation is final: a heartbeat, registration or ping that was         *)
(* authenticated before it does not bring the node back or change its row. *)
RevokedIsFrozen ==
    [][\A n \in Nodes : row[n].revoked => row'[n] = row[n]]_vars

(* A node that the gateway would pick now for a model is not revoked, was  *)
(* heard of by this clock within the staleness bound, and has itself said  *)
(* that it is healthy and serves the model.                                *)
SelectedIsLive ==
    \A m \in Models : \A n \in SelectEligible(m) \ {Failed} :
        /\ ~row[n].revoked /\ heard[n] >= Cutoff
        /\ \E c \in sent : /\ call[c].node = n /\ call[c].kind = "report"
                           /\ call[c].report.healthy /\ m \in call[c].report.models

(* GET /v1/models and the gateway run two queries of their own.  What the  *)
(* gateway serves is listed; and what is listed it serves, unless it meets *)
(* a row that does not parse, of a node that is still heard of and not     *)
(* revoked: such a row can fail requests for every model until its node    *)
(* reports again, is revoked or falls silent, and the listing does not     *)
(* show it.                                                                *)
ListedIsServed ==
    \A m \in Models :
        /\ SelectEligible(m) \cap Nodes # {} => m \in ListedModels
        /\ m \in ListedModels => SelectEligible(m) # {}
        /\ Failed \in SelectEligible(m) =>
               \E n \in broken : ~row[n].revoked /\ heard[n] >= Cutoff
=============================================================================
