-------------------------- MODULE DaemonNodesProofs --------------------------
(***************************************************************************)
(* Proofs about DaemonNodes, for any number of nodes, calls, handlers and  *)
(* administrators, every clock skew, TTL and prune threshold, with lost,   *)
(* late and repeated calls, failing statements and restarts.               *)
(***************************************************************************)
EXTENDS DaemonNodes, TLAPS, WellFoundedInduction

(* A node that is about to be inserted has no row, and no other request of *)
(* an administrator is about it.                                           *)
AdminInv ==
    /\ \A n \in Nodes : ~Exists(n) => row[n] = NoRow
    /\ \A a \in Admins : admin[a].step = "insert" =>
           /\ ~Exists(admin[a].node)
           /\ \A b \in Admins \ {a} : admin[b].node # admin[a].node

(* A nonce is remembered with the expiry of its call.                      *)
CacheInv ==
    \A c \in Calls : nonces[c] # Forgotten => c \in sent /\ nonces[c] = Expiry(c)

(* No handler has read a time that is still to come; the call it carries   *)
(* to the nonce cache was fresh at the time it read; and the time it will  *)
(* write into the row is one at which the node was heard.                  *)
HandlerInv ==
    \A h \in Handlers :
        /\ read[h] <= now
        /\ pc[h] = "lock" => read[h] <= Expiry(carried[h])
        /\ pc[h] = "update" => read[h] <= heard[Message(h).node]

(* What a row says of its node: seen no later than it was heard, and       *)
(* capable of what one of its own calls reported.                          *)
RowInv ==
    \A n \in Nodes :
        /\ row[n].seen <= heard[n] /\ heard[n] <= now
        /\ row[n].report # NoReport =>
               \E c \in sent : /\ call[c].node = n /\ call[c].kind = "report"
                               /\ call[c].report = row[n].report

NodesInv ==
    /\ TypeOK
    /\ AdminInv
    /\ CacheInv
    /\ HandlerInv
    /\ RowInv
    /\ RememberedWhileFresh

-----------------------------------------------------------------------------
(* A set of times that is not empty and has a bound has a latest one.      *)
LEMMA LatestExists ==
    ASSUME NEW T, NEW bound \in Nat, T \subseteq Nat, T # {}, \A x \in T : x <= bound
    PROVE  \E x \in T : \A y \in T : y <= x
<1> DEFINE Below == {d \in Nat : bound - d \in T}
<1>1. PICK z \in T : TRUE
  OBVIOUS
<1>2. bound - z \in Below
  BY <1>1
<1>3. PICK d \in Below : \A e \in Below : <<e, d>> \notin OpToRel(<, Nat)
  BY <1>2, WFMin, NatLessThanWellFounded
<1>4. \A e \in Below : ~(e < d)
  BY <1>3 DEF OpToRel
<1>5. ASSUME NEW y \in T PROVE y <= bound - d
  <2>1. y \in Nat /\ d \in Nat /\ bound - y \in Below
    <3>1. bound - y \in Below
      BY <1>5
    <3>2. QED
      BY <1>3, <1>5, <3>1
  <2>2. ~(bound - y < d)
    BY <1>4, <2>1
  <2> HIDE DEF Below
  <2>3. QED
    BY <2>1, <2>2
<1>6. QED
  BY <1>5

-----------------------------------------------------------------------------
(* The actions by the part of the state they write.                        *)

(* Administrators.                                                         *)
Administer ==
    \/ \E a \in Admins : InsertNode(a) \/ Audit(a)
    \/ \E a \in Admins, n \in Nodes : CreateDaemonNode(a, n) \/ RevokeDaemonNode(a, n)

(* The column model_ids_json is overwritten from outside.                  *)
Edit == \E n \in Nodes : EditModels(n)

(* Steps of a handler that leave cache, rows and history alone.            *)
Passing(h) ==
    \/ \E c \in Calls : Deliver(h, c)
    \/ ResolveIdentity(h) \/ CheckTimestamp(h) \/ SqlError(h) \/ Dropped(h)

(* A step of the system is one of these.                                   *)
LEMMA NextCases ==
    Next <=> \/ Administer \/ Edit
             \/ \E n \in Nodes, c \in Calls : ThenSign(c, n)
             \/ \E h \in Handlers : \/ Passing(h) \/ RememberNonce(h) \/ Handle(h)
                                    \/ MarkNodeSeen(h)
             \/ Restart \/ Tick
  BY Zenon DEF Next, Administer, Edit, Passing

(* What a daemon has signed stays as it is, and the clock goes forward.    *)
CallsStay ==
    /\ sent \subseteq sent'
    /\ \A c \in sent : call'[c] = call[c]
    /\ now' >= now

(* Administrators write the node's row, its audit rows and nothing else.   *)
LEMMA AdministerFrame ==
    Administer => UNCHANGED <<now, broken, nonces, sent, call, pc, carried, read, accepted, heard>>
  BY Zenon DEF Administer, InsertNode, Audit, CreateDaemonNode, RevokeDaemonNode,
               table, traffic, handling, history

(* An edit from outside leaves everything else alone.                      *)
LEMMA EditFrame ==
    Edit => /\ UNCHANGED <<now, row, audits, nonces, sent, call, pc, carried, read, admin>>
            /\ UNCHANGED <<accepted, heard>> /\ (broken \subseteq Nodes => broken' \subseteq Nodes)
  BY DEF Edit, EditModels, traffic, handling, history

(* A passing handler writes nothing that others read.                      *)
LEMMA PassingFrame ==
    ASSUME NEW h \in Handlers, Passing(h)
    PROVE  UNCHANGED <<now, row, audits, broken, nonces, sent, call, admin, accepted, heard>>
  BY Zenon DEF Passing, Deliver, ResolveIdentity, CheckTimestamp, SqlError, Dropped,
               table, traffic, history

(* No step takes a signed call back or changes what it says.               *)
LEMMA NextCallsStay == NodesInv /\ [Next]_vars => CallsStay
<1>1. SUFFICES ASSUME NodesInv, [Next]_vars PROVE CallsStay
  OBVIOUS
<1>2. TypeOK
  BY <1>1 DEF NodesInv
<1>3. CASE UNCHANGED <<now, sent, call>>
  BY <1>2, <1>3 DEF CallsStay, TypeOK
<1>4. ASSUME NEW n \in Nodes, NEW c \in Calls, ThenSign(c, n) PROVE CallsStay
  BY <1>2, <1>4 DEF ThenSign, CallsStay, TypeOK
<1>5. CASE Tick
  BY <1>2, <1>5 DEF Tick, CallsStay, TypeOK, traffic
<1>6. ASSUME NEW h \in Handlers, RememberNonce(h) \/ Handle(h) \/ MarkNodeSeen(h)
      PROVE  UNCHANGED <<now, sent, call>>
  BY <1>6 DEF RememberNonce, Handle, MarkNodeSeen, traffic
<1>7. QED
  BY <1>1, <1>3, <1>4, <1>5, <1>6, NextCases, AdministerFrame, EditFrame, PassingFrame
     DEF Restart, vars, traffic

-----------------------------------------------------------------------------
(* Types.                                                                  *)

Row == [status : {"none", "pending", "active", "revoked"},
        revoked : BOOLEAN, seen : Nat \cup {Never}, report : Capabilities]
Call == [node : Nodes \cup {NoNode}, kind : Kinds, report : Capabilities, ts : Int]
PcSet == {"idle", "resolve", "sign", "lock", "handle", "update"}

(* What handlers carry.                                                    *)
HandlingOK ==
    /\ pc \in [Handlers -> PcSet]
    /\ carried \in [Handlers -> Calls \cup {NoCall}]
    /\ \A h \in Handlers : pc[h] # "idle" => carried[h] \in sent
    /\ read \in [Handlers -> Nat]

(* The row of a node that was never inserted is a row.                     *)
LEMMA NoRowType == NoReport \in Capabilities /\ NoRow \in Row
<1>1. NoReport \in Capabilities
  BY DEF NoReport, Capabilities
<1>2. QED
  BY <1>1 DEF NoRow, Row

(* The fields of the call a busy handler carries.                          *)
LEMMA MessageType ==
    ASSUME TypeOK, NEW c \in sent
    PROVE  /\ c \in Calls /\ call[c] \in Call
           /\ call[c].node \in Nodes /\ call[c].report \in Capabilities
           /\ call[c].ts \in Int /\ Expiry(c) \in Int
<1>1. c \in Calls /\ call[c] \in Call /\ call[c].node \in Nodes
  BY DEF TypeOK, Call
<1>2. call[c].report \in Capabilities /\ call[c].ts \in Int
  BY <1>1 DEF Call
<1>3. QED
  BY <1>1, <1>2, NodesAssumption DEF Expiry

(* The initial state satisfies the invariant.                              *)
LEMMA InitInv == Init => NodesInv
<1>1. SUFFICES ASSUME Init PROVE NodesInv
  OBVIOUS
<1>2. row \in [Nodes -> Row]
  BY <1>1, NoRowType, Zenon DEF Init
<1>3. call \in [Calls -> Call]
  BY <1>1, NoRowType DEF Init, Call, Blank, Kinds
<1>4. TypeOK
  BY <1>1, <1>2, <1>3 DEF Init, TypeOK, Row, Call, NoWork, Forgotten, Never, Audited
<1>5. AdminInv
  BY <1>1 DEF Init, AdminInv, NoWork
<1>6. CacheInv /\ RememberedWhileFresh
  BY <1>1 DEF Init, CacheInv, RememberedWhileFresh
<1>7. HandlerInv
  BY <1>1 DEF Init, HandlerInv
<1>8. RowInv
  BY <1>1 DEF Init, RowInv, NoRow, Never
<1>9. QED
  BY <1>4, <1>5, <1>6, <1>7, <1>8 DEF NodesInv

(* A handler that ends, goes on or reads the clock stays typed.            *)
LEMMA HandlingType ==
    ASSUME TypeOK, sent' = sent, NEW h \in Handlers,
           \/ End(h)
           \/ pc[h] # "idle" /\ \E p \in PcSet : Goto(h, p) \/ ReadClock(h, p)
    PROVE  HandlingOK'
<1>1. CASE End(h)
  BY <1>1 DEF End, HandlingOK, TypeOK, PcSet
<1>2. ASSUME pc[h] # "idle", NEW p \in PcSet, Goto(h, p) PROVE HandlingOK'
  BY <1>2 DEF Goto, HandlingOK, TypeOK, PcSet
<1>3. ASSUME pc[h] # "idle", NEW p \in PcSet, ReadClock(h, p) PROVE HandlingOK'
  BY <1>3 DEF ReadClock, HandlingOK, TypeOK, PcSet
<1>4. QED
  BY <1>1, <1>2, <1>3

(* Every step keeps the types.                                             *)
LEMMA NextType == NodesInv /\ [Next]_vars => TypeOK'
<1>1. SUFFICES ASSUME NodesInv, [Next]_vars PROVE TypeOK'
  OBVIOUS
<1>2. TypeOK
  BY <1>1 DEF NodesInv
<1>3. CASE Administer
  <2>1. SUFFICES /\ row' \in [Nodes -> Row]
                 /\ audits' \in [Nodes -> [Audited -> Nat]]
                 /\ admin' \in [Admins -> [step : {"idle", "insert", "created", "revoked"},
                                           node : Nodes \cup {NoNode}]]
                 /\ \A a \in Admins : admin'[a].step # "idle" => admin'[a].node \in Nodes
    BY <1>2, <1>3, AdministerFrame DEF TypeOK, Row
  <2>2. ASSUME NEW a \in Admins, NEW n \in Nodes, CreateDaemonNode(a, n)
        PROVE  TypeOK'
    BY <1>2, <2>2 DEF CreateDaemonNode, TypeOK, table, traffic, handling, history
  <2>3. ASSUME NEW a \in Admins, NEW n \in Nodes, RevokeDaemonNode(a, n)
        PROVE  TypeOK'
    BY <1>2, <2>3 DEF RevokeDaemonNode, TypeOK, table, traffic, handling, history
  <2>4. ASSUME NEW a \in Admins, InsertNode(a)
        PROVE  TypeOK'
    <3>1. [NoRow EXCEPT !.status = "pending"] \in Row
      BY NoRowType DEF Row, NoRow
    <3>2. row' \in [Nodes -> Row]
      BY <1>2, <2>4, <3>1 DEF InsertNode, TypeOK, Row
    <3>3. /\ admin' \in [Admins -> [step : {"idle", "insert", "created", "revoked"},
                                   node : Nodes \cup {NoNode}]]
          /\ \A b \in Admins : admin'[b].step # "idle" => admin'[b].node \in Nodes
      <4>1. admin[a].step # "idle"
        BY <2>4 DEF InsertNode
      <4>2. CASE admin' = [admin EXCEPT ![a].step = "created"]
        BY <1>2, <4>1, <4>2 DEF TypeOK
      <4>3. CASE admin' = [admin EXCEPT ![a] = NoWork]
        BY <1>2, <4>3 DEF TypeOK, NoWork
      <4>4. QED
        BY <2>4, <4>2, <4>3 DEF InsertNode
    <3>4. QED
      BY <1>2, <2>4, <3>2, <3>3 DEF InsertNode, TypeOK, traffic, handling, history, Row
  <2>5. ASSUME NEW a \in Admins, Audit(a)
        PROVE  TypeOK'
    <3>1. admin[a].node \in Nodes
      BY <1>2, <2>5 DEF Audit, TypeOK, Audited
    <3>2. audits' \in [Nodes -> [Audited -> Nat]]
      <4> DEFINE n == admin[a].node
                 more == [audits[n] EXCEPT ![admin[a].step] = @ + 1]
      <4>1. more \in [Audited -> Nat]
        BY <1>2, <2>5, <3>1 DEF Audit, TypeOK
      <4>2. audits' = audits \/ audits' = [audits EXCEPT ![n] = more]
        BY <2>5 DEF Audit
      <4> HIDE DEF n, more
      <4>3. QED
        BY <1>2, <4>1, <4>2 DEF TypeOK
    <3>3. QED
      BY <1>2, <2>5, <3>2 DEF Audit, TypeOK, traffic, handling, history, NoWork
  <2>6. QED
    BY <1>3, <2>2, <2>3, <2>4, <2>5 DEF Administer, TypeOK, Row
<1>4. ASSUME NEW n \in Nodes, NEW c \in Calls, ThenSign(c, n) PROVE TypeOK'
  <2>1. PICK b \in Bodies : call' = [call EXCEPT ![c] =
            [node |-> n, kind |-> b.kind, report |-> b.report, ts |-> now + b.skew]]
    BY <1>4 DEF ThenSign
  <2>2. b.kind \in Kinds /\ b.report \in Capabilities /\ b.skew \in Int
    BY NodesAssumption
  <2>3. call' \in [Calls -> Call] /\ call'[c].node \in Nodes
    BY <1>2, <2>1, <2>2 DEF TypeOK, Call
  <2>4. \A d \in sent' : call'[d].node \in Nodes
    BY <1>2, <1>4, <2>1, <2>3 DEF TypeOK, ThenSign
  <2>5. QED
    BY <1>2, <1>4, <2>3, <2>4 DEF ThenSign, TypeOK, table, handling, history, Call
<1>5. ASSUME NEW h \in Handlers, Passing(h) PROVE TypeOK'
  <2>1. UNCHANGED <<now, row, audits, broken, nonces, sent, call, admin, accepted, heard>>
    BY <1>5, PassingFrame
  <2>2. HandlingOK'
    <3>1. ASSUME NEW c \in Calls, Deliver(h, c) PROVE HandlingOK'
      BY <1>2, <2>1, <3>1 DEF Deliver, HandlingOK, TypeOK, PcSet
    <3>2. CASE ResolveIdentity(h) \/ CheckTimestamp(h) \/ SqlError(h) \/ Dropped(h)
      BY <1>2, <2>1, <3>2, HandlingType
         DEF ResolveIdentity, CheckTimestamp, SqlError, Dropped, PcSet
    <3>3. QED
      BY <1>5, <3>1, <3>2 DEF Passing
  <2>3. QED
    BY <1>2, <2>1, <2>2 DEF TypeOK, HandlingOK, PcSet
<1>6. ASSUME NEW h \in Handlers, RememberNonce(h) PROVE TypeOK'
  <2>1. carried[h] \in sent /\ sent \subseteq Calls
    BY <1>2, <1>6 DEF RememberNonce, TypeOK
  <2>2. Expiry(carried[h]) \in Int /\ read[h] \in Nat
    BY <1>2, <2>1, MessageType DEF TypeOK
  <2>3. PruneStaleNonces(read[h]) \in [Calls -> Int]
    BY <1>2 DEF TypeOK, PruneStaleNonces, Forgotten
  <2>4. HandlingOK'
    BY <1>2, <1>6, HandlingType DEF RememberNonce, traffic, PcSet
  <2>5. nonces' \in [Calls -> Int]
    <3>1. \E kept \in [Calls -> Int] :
              nonces' = kept \/ nonces' = [kept EXCEPT ![carried[h]] = Expiry(carried[h])]
      BY <1>2, <1>6, <2>3, Zenon DEF RememberNonce, TypeOK
    <3>2. QED
      BY <2>1, <2>2, <3>1, Zenon
  <2>6. accepted' \subseteq sent'
    BY <1>2, <1>6, <2>1 DEF RememberNonce, TypeOK, traffic
  <2>7. QED
    BY <1>2, <1>6, <2>4, <2>5, <2>6 DEF RememberNonce, TypeOK, HandlingOK, table, traffic, PcSet
<1>7. ASSUME NEW h \in Handlers, Handle(h) PROVE TypeOK'
  <2>1. HandlingOK'
    BY <1>2, <1>7, HandlingType DEF Handle, traffic, PcSet
  <2>2. heard' \in [Nodes -> Nat \cup {Never}]
    BY <1>2, <1>7 DEF Handle, TypeOK
  <2>3. QED
    BY <1>2, <1>7, <2>1, <2>2 DEF Handle, TypeOK, HandlingOK, table, traffic, PcSet
<1>8. ASSUME NEW h \in Handlers, MarkNodeSeen(h) PROVE TypeOK'
  <2>1. HandlingOK'
    BY <1>2, <1>8, HandlingType DEF MarkNodeSeen, traffic
  <2>2. Message(h).node \in Nodes /\ Message(h).report \in Capabilities /\ read[h] \in Nat
    BY <1>2, <1>8, MessageType DEF MarkNodeSeen, Message, TypeOK
  <2>3. Seen(h, read[h]) \in [Nodes -> Row]
    <3> DEFINE n == Message(h).node
               new == [status |-> "active", revoked |-> row[n].revoked, seen |-> read[h],
                       report |-> IF Message(h).kind = "report" THEN Message(h).report
                                  ELSE row[n].report]
    <3>1. row[n] \in Row
      BY <1>2, <2>2 DEF TypeOK, Row
    <3>2. new \in Row
      BY <2>2, <3>1 DEF Row
    <3>3. Seen(h, read[h]) = [row EXCEPT ![n] = new]
      BY DEF Seen
    <3> HIDE DEF n, new
    <3>4. QED
      BY <1>2, <3>2, <3>3 DEF TypeOK, Row
  <2>4. broken' \subseteq Nodes
    BY <1>2, <1>8 DEF MarkNodeSeen, Repaired, TypeOK
  <2>5. QED
    BY <1>2, <1>8, <2>1, <2>3, <2>4 DEF MarkNodeSeen, TypeOK, HandlingOK, traffic, history, PcSet, Row
<1>9. CASE Restart
  BY <1>2, <1>9 DEF Restart, TypeOK, table, traffic, NoWork, Forgotten
<1>10. CASE Tick
  BY <1>2, <1>10 DEF Tick, TypeOK, table, traffic, handling, history
<1>11. CASE UNCHANGED vars
  BY <1>2, <1>11 DEF vars, TypeOK, table, traffic, handling, history
<1>12. CASE Edit
  BY <1>2, <1>12, EditFrame DEF TypeOK
<1>13. QED
  BY <1>1, <1>3, <1>4, <1>5, <1>6, <1>7, <1>8, <1>9, <1>10, <1>11, <1>12, NextCases

-----------------------------------------------------------------------------
(* Every step keeps the parts of the invariant.                            *)

(* Administrators do not meet on a node that has no row yet.               *)
LEMMA AdminKeeps == NodesInv /\ [Next]_vars => AdminInv'
<1>1. SUFFICES ASSUME NodesInv, [Next]_vars PROVE AdminInv'
  OBVIOUS
<1>2. TypeOK /\ AdminInv
  BY <1>1 DEF NodesInv
<1>3. CASE UNCHANGED <<row, admin>>
  BY <1>2, <1>3 DEF AdminInv, Exists
<1>4. ASSUME NEW a \in Admins, InsertNode(a) PROVE AdminInv'
  <2>1. admin[a].node \in Nodes /\ ~Exists(admin[a].node)
    BY <1>2, <1>4 DEF InsertNode, AdminInv, TypeOK
  <2>2. /\ row' = [row EXCEPT ![admin[a].node] = [NoRow EXCEPT !.status = "pending"]] \/ row' = row
        /\ \A b \in Admins \ {a} : admin'[b] = admin[b]
        /\ admin'[a].step # "insert"
        /\ admin'[a].node \in {admin[a].node, NoNode}
    BY <1>2, <1>4 DEF InsertNode, TypeOK, NoWork
  <2>3. ASSUME NEW n \in Nodes, ~Exists(n)' PROVE row'[n] = NoRow
    <3>1. CASE row' = row
      BY <1>2, <2>3, <3>1 DEF AdminInv, Exists
    <3>2. CASE row' = [row EXCEPT ![admin[a].node] = [NoRow EXCEPT !.status = "pending"]]
      <4>1. [NoRow EXCEPT !.status = "pending"].status = "pending"
        BY DEF NoRow
      <4>2. n # admin[a].node
        BY <1>2, <2>1, <2>3, <3>2, <4>1 DEF TypeOK, Exists
      <4>3. QED
        BY <1>2, <2>3, <3>2, <4>2 DEF AdminInv, TypeOK, Exists
    <3>3. QED
      BY <2>2, <3>1, <3>2
  <2>4. ASSUME NEW b \in Admins, admin'[b].step = "insert"
        PROVE  /\ ~Exists(admin[b].node)'
               /\ \A d \in Admins \ {b} : admin'[d].node # admin'[b].node
    <3>1. b # a /\ admin'[b] = admin[b] /\ admin[b].step = "insert"
      BY <2>2, <2>4
    <3>2. admin[b].node \in Nodes /\ admin[b].node # admin[a].node
      BY <1>2, <3>1 DEF TypeOK, AdminInv
    <3>3. ~Exists(admin[b].node) /\ row'[admin[b].node] = row[admin[b].node]
      BY <1>2, <2>1, <2>2, <3>1, <3>2 DEF AdminInv, TypeOK
    <3>4. \A d \in Admins \ {b} : admin'[d].node # admin'[b].node
      BY <1>2, <2>2, <3>1, <3>2, NodesAssumption DEF AdminInv
    <3>5. QED
      BY <3>1, <3>3, <3>4 DEF Exists
  <2>5. QED
    BY <2>3, <2>4 DEF AdminInv, Exists
<1>5. ASSUME NEW a \in Admins, NEW n \in Nodes, CreateDaemonNode(a, n) PROVE AdminInv'
  BY <1>2, <1>5 DEF CreateDaemonNode, AdminInv, TypeOK, Exists, table
<1>6. ASSUME NEW a \in Admins, NEW n \in Nodes, RevokeDaemonNode(a, n) PROVE AdminInv'
  <2>1. SUFFICES ASSUME Exists(n), ~row[n].revoked PROVE AdminInv'
    BY <1>3, <1>6 DEF RevokeDaemonNode
  <2>2. /\ row' = [row EXCEPT ![n].status = "revoked", ![n].revoked = TRUE]
        /\ admin' = [admin EXCEPT ![a] = [step |-> "revoked", node |-> n]]
    BY <1>6, <2>1 DEF RevokeDaemonNode
  <2>3. \A m \in Nodes : row'[m].status = "none" <=> row[m].status = "none"
    BY <1>2, <2>1, <2>2 DEF TypeOK, Exists
  <2>4. \A m \in Nodes : ~Exists(m)' => row'[m] = NoRow
    BY <1>2, <2>1, <2>2, <2>3 DEF AdminInv, TypeOK, Exists
  <2>5. ASSUME NEW b \in Admins, admin'[b].step = "insert"
        PROVE  /\ ~Exists(admin[b].node)'
               /\ \A d \in Admins \ {b} : admin'[d].node # admin'[b].node
    <3>1. b # a /\ admin'[b] = admin[b] /\ admin[b].step = "insert"
      BY <1>2, <2>2, <2>5 DEF TypeOK
    <3>2. admin[b].node \in Nodes /\ ~Exists(admin[b].node)
      BY <1>2, <3>1 DEF TypeOK, AdminInv
    <3>3. \A d \in Admins \ {b} : admin'[d].node # admin'[b].node
      BY <1>2, <2>1, <2>2, <3>1, <3>2 DEF AdminInv, TypeOK
    <3>4. QED
      BY <2>3, <3>1, <3>2, <3>3 DEF Exists
  <2>6. QED
    BY <2>4, <2>5 DEF AdminInv, Exists
<1>7. ASSUME NEW a \in Admins, Audit(a) PROVE AdminInv'
  BY <1>2, <1>7, NodesAssumption DEF Audit, AdminInv, TypeOK, NoWork, Exists
<1>8. ASSUME NEW h \in Handlers, MarkNodeSeen(h) PROVE AdminInv'
  <2>1. SUFFICES ASSUME Live(Message(h).node), row' = Seen(h, read[h]), UNCHANGED admin
                 PROVE  AdminInv'
    BY <1>3, <1>8 DEF MarkNodeSeen
  <2>2. Message(h).node \in Nodes
    BY <1>2, <1>8, MessageType DEF MarkNodeSeen, Message, TypeOK
  <2>3. \A m \in Nodes : Exists(m)' <=> Exists(m)
    BY <1>2, <2>1, <2>2 DEF Seen, Live, Exists, TypeOK
  <2>4. \A m \in Nodes : ~Exists(m) => row'[m] = row[m]
    BY <1>2, <2>1, <2>2 DEF Seen, Live, TypeOK
  <2>5. QED
    BY <1>2, <2>1, <2>3, <2>4 DEF AdminInv, TypeOK
<1>9. CASE Restart
  BY <1>2, <1>9 DEF Restart, AdminInv, NoWork, table, Exists
<1>10. ASSUME NEW h \in Handlers, RememberNonce(h) \/ Handle(h)
       PROVE  UNCHANGED <<row, admin>>
  BY <1>10 DEF RememberNonce, Handle, table
<1>11. ASSUME NEW n \in Nodes, NEW c \in Calls, ThenSign(c, n)
       PROVE  UNCHANGED <<row, admin>>
  BY <1>11 DEF ThenSign, table
<1>12. QED
  BY <1>1, <1>3, <1>4, <1>5, <1>6, <1>7, <1>8, <1>9, <1>10, <1>11, NextCases, EditFrame, PassingFrame
     DEF Administer, Tick, vars, table

(* A call stays what it was signed as, and so does its expiry.             *)
LEMMA ExpiryStays ==
    ASSUME NodesInv, [Next]_vars, NEW c \in sent
    PROVE  c \in sent' /\ call'[c] = call[c] /\ Expiry(c)' = Expiry(c)
  BY NextCallsStay DEF CallsStay, Expiry

(* The cache after the section under the lock.                             *)
LEMMA CacheAfterLock ==
    ASSUME NodesInv, NEW h \in Handlers, RememberNonce(h)
    PROVE  \A c \in Calls :
               \/ nonces'[c] = nonces[c]
               \/ nonces'[c] = Forgotten /\ ~(read[h] <= nonces[c])
               \/ c = carried[h] /\ nonces'[c] = Expiry(c)
<1>1. TypeOK
  BY DEF NodesInv
<1>2. PICK kept \in {nonces, PruneStaleNonces(read[h])} :
          nonces' = kept \/ nonces' = [kept EXCEPT ![carried[h]] = Expiry(carried[h])]
  BY Zenon DEF RememberNonce
<1>3. \A c \in Calls : \/ kept[c] = nonces[c]
                       \/ kept[c] = Forgotten /\ ~(read[h] <= nonces[c])
  BY <1>2 DEF PruneStaleNonces
<1>4. DOMAIN kept = Calls /\ carried[h] \in Calls
  BY <1>1, <1>2 DEF PruneStaleNonces, TypeOK, RememberNonce
<1>5. QED
  BY <1>2, <1>3, <1>4

(* Steps outside the lock leave the cache and the accepted calls alone, or *)
(* forget them all.                                                        *)
LEMMA CacheFrame ==
    ASSUME [Next]_vars, \A h \in Handlers : ~RememberNonce(h)
    PROVE  UNCHANGED <<nonces, accepted>> \/ Restart
<1>1. ASSUME NEW h \in Handlers, Handle(h) \/ MarkNodeSeen(h)
      PROVE  UNCHANGED <<nonces, accepted>>
  BY <1>1 DEF Handle, MarkNodeSeen, history
<1>2. QED
  BY <1>1, NextCases, AdministerFrame, EditFrame, PassingFrame DEF ThenSign, Tick, vars, history

(* The cache keeps to the expiry of the calls.                             *)
LEMMA CacheKeeps == NodesInv /\ [Next]_vars => CacheInv'
<1>1. SUFFICES ASSUME NodesInv, [Next]_vars, NEW c \in Calls, nonces'[c] # Forgotten
               PROVE  c \in sent' /\ nonces'[c] = Expiry(c)'
  BY DEF CacheInv
<1>2. TypeOK /\ CacheInv
  BY <1>1 DEF NodesInv
<1>3. CASE nonces'[c] = nonces[c]
  BY <1>1, <1>2, <1>3, ExpiryStays DEF CacheInv
<1>4. ASSUME NEW h \in Handlers, RememberNonce(h)
      PROVE  c \in sent' /\ nonces'[c] = Expiry(c)'
  <2>1. CASE c = carried[h] /\ nonces'[c] = Expiry(c)
    <3>1. c \in sent
      BY <1>2, <1>4, <2>1 DEF TypeOK, RememberNonce
    <3>2. QED
      BY <1>1, <2>1, <3>1, ExpiryStays
  <2>2. QED
    BY <1>1, <1>3, <1>4, <2>1, CacheAfterLock
<1>5. CASE Restart
  BY <1>1, <1>5 DEF Restart
<1>6. QED
  BY <1>1, <1>3, <1>4, <1>5, CacheFrame

(* What was accepted is remembered while it is fresh.  The time a handler  *)
(* prunes with is not later than now, so what it drops has expired.        *)
LEMMA RememberedKeeps == NodesInv /\ [Next]_vars => RememberedWhileFresh'
<1>1. SUFFICES ASSUME NodesInv, [Next]_vars, NEW c \in accepted', now' <= Expiry(c)'
               PROVE  nonces'[c] # Forgotten
  BY DEF RememberedWhileFresh
<1>2. TypeOK /\ CacheInv /\ HandlerInv /\ RememberedWhileFresh
  BY <1>1 DEF NodesInv
<1>3. now \in Nat /\ now' \in Nat /\ now' >= now /\ accepted \subseteq sent /\ sent \subseteq Calls
  BY <1>1, <1>2, NextType, NextCallsStay DEF TypeOK, CallsStay
<1>4. ASSUME c \in accepted
      PROVE  c \in Calls /\ nonces[c] # Forgotten /\ nonces[c] = Expiry(c) /\ now <= Expiry(c)
  <2>1. c \in sent /\ c \in Calls /\ Expiry(c)' = Expiry(c)
    BY <1>1, <1>3, <1>4, ExpiryStays
  <2>2. Expiry(c) \in Int
    BY <1>2, <2>1, MessageType
  <2>3. now <= Expiry(c)
    BY <1>1, <1>3, <2>1, <2>2
  <2>4. nonces[c] # Forgotten
    BY <1>2, <1>4, <2>3 DEF RememberedWhileFresh
  <2>5. QED
    BY <1>2, <2>1, <2>3, <2>4 DEF CacheInv
<1>5. CASE UNCHANGED <<nonces, accepted>>
  BY <1>1, <1>4, <1>5
<1>6. ASSUME NEW h \in Handlers, RememberNonce(h) PROVE nonces'[c] # Forgotten
  <2>1. pc[h] = "lock" /\ carried[h] \in sent /\ carried[h] \in Calls
    BY <1>2, <1>6 DEF RememberNonce, TypeOK
  <2>2. read[h] \in Nat /\ read[h] <= now /\ read[h] <= Expiry(carried[h])
    BY <1>2, <2>1 DEF HandlerInv, TypeOK
  <2>3. Expiry(carried[h]) \in Int
    BY <1>2, <2>1, MessageType
  <2>4. Expiry(carried[h]) # Forgotten
    BY <2>2, <2>3 DEF Forgotten
  <2>5. CASE c \in accepted
    <3>1. c \in Calls /\ nonces[c] # Forgotten /\ nonces[c] = Expiry(c) /\ now <= Expiry(c)
      BY <1>4, <2>5
    <3>2. nonces[c] \in Int
      BY <1>2, <3>1 DEF TypeOK
    <3>3. read[h] <= nonces[c]
      BY <1>3, <2>2, <3>1, <3>2
    <3>4. QED
      BY <1>1, <1>6, <2>4, <3>1, <3>3, CacheAfterLock
  <2>6. CASE c \notin accepted
    <3>1. accepted' # accepted /\ c = carried[h]
      BY <1>1, <1>6, <2>6 DEF RememberNonce
    <3>2. PICK kept \in {nonces, PruneStaleNonces(read[h])} :
              nonces' = [kept EXCEPT ![c] = Expiry(c)]
      BY <1>6, <3>1, Zenon DEF RememberNonce
    <3>3. DOMAIN kept = Calls
      BY <1>2 DEF PruneStaleNonces, TypeOK
    <3>4. QED
      BY <2>1, <2>4, <3>1, <3>2, <3>3
  <2>7. QED
    BY <2>5, <2>6
<1>7. CASE Restart
  BY <1>1, <1>7 DEF Restart
<1>8. QED
  BY <1>1, <1>5, <1>6, <1>7, CacheFrame

(* A node is heard at later and later times.                               *)
LEMMA HeardGrows ==
    ASSUME NodesInv, [Next]_vars, NEW n \in Nodes
    PROVE  heard'[n] \in Nat \cup {Never} /\ heard'[n] >= heard[n] /\ heard'[n] <= now'
<1>1. TypeOK /\ RowInv /\ now \in Nat /\ now' \in Nat /\ now' >= now
  BY NextType, NextCallsStay DEF NodesInv, TypeOK, CallsStay
<1>2. heard[n] \in Nat \cup {Never} /\ heard[n] <= now
  BY <1>1 DEF TypeOK, RowInv
<1>3. ASSUME NEW h \in Handlers, Handle(h) PROVE heard'[n] = heard[n] \/ heard'[n] = now
  BY <1>1, <1>3 DEF Handle, TypeOK
<1>4. ASSUME NEW h \in Handlers, RememberNonce(h) \/ MarkNodeSeen(h) PROVE heard' = heard
  BY <1>4 DEF RememberNonce, MarkNodeSeen, history
<1>5. heard'[n] = heard[n] \/ heard'[n] = now
  BY <1>3, <1>4, NextCases, AdministerFrame, EditFrame, PassingFrame
     DEF ThenSign, Restart, Tick, vars, history
<1>6. QED
  BY <1>1, <1>2, <1>5 DEF Never

(* What a step does to a handler: nothing, its end, the start with a call, *)
(* a check that was passed, or a reading of the clock with what comes with *)
(* it.                                                                     *)
LEMMA HandlerMoves ==
    ASSUME NodesInv, [Next]_vars, NEW g \in Handlers
    PROVE  \/ pc'[g] = pc[g] /\ carried'[g] = carried[g] /\ read'[g] = read[g]
           \/ pc'[g] = "idle" /\ read'[g] = 0
           \/ pc'[g] \in {"resolve", "sign", "handle"} /\ read'[g] = read[g]
           \/ /\ pc[g] = "sign" /\ pc'[g] = "lock"
              /\ carried'[g] = carried[g] /\ read'[g] = now
              /\ now - Message(g).ts <= Ttl
           \/ /\ pc[g] = "handle" /\ pc'[g] = "update"
              /\ carried'[g] = carried[g] /\ read'[g] = now
              /\ heard' = [heard EXCEPT ![Message(g).node] = now]
<1>1. TypeOK
  BY DEF NodesInv
<1>2. CASE UNCHANGED <<pc, carried, read>>
  BY <1>2
<1>3. CASE Restart
  BY <1>3 DEF Restart
<1>4. ASSUME NEW h \in Handlers, h # g,
             \/ Passing(h) \/ RememberNonce(h) \/ Handle(h) \/ MarkNodeSeen(h)
      PROVE  pc'[g] = pc[g] /\ carried'[g] = carried[g] /\ read'[g] = read[g]
  BY <1>1, <1>4 DEF Passing, Deliver, ResolveIdentity, CheckTimestamp, SqlError, Dropped,
     RememberNonce, Handle, MarkNodeSeen, Goto, ReadClock, End, TypeOK
<1>5. CASE Passing(g)
  BY <1>1, <1>5 DEF Passing, Deliver, ResolveIdentity, CheckTimestamp, SqlError, Dropped,
     Goto, ReadClock, End, TypeOK
<1>6. CASE RememberNonce(g)
  BY <1>1, <1>6 DEF RememberNonce, Goto, End, TypeOK
<1>7. CASE Handle(g)
  BY <1>1, <1>7 DEF Handle, ReadClock, End, TypeOK
<1>8. CASE MarkNodeSeen(g)
  BY <1>1, <1>8 DEF MarkNodeSeen, End, TypeOK
<1>9. QED
  BY <1>2, <1>3, <1>4, <1>5, <1>6, <1>7, <1>8, NextCases, AdministerFrame, EditFrame
     DEF ThenSign, Tick, vars, handling

(* The times that handlers have read stay in the past.                     *)
LEMMA HandlerKeeps == NodesInv /\ [Next]_vars => HandlerInv'
<1>1. SUFFICES ASSUME NodesInv, [Next]_vars, NEW g \in Handlers
               PROVE  /\ read'[g] <= now'
                      /\ pc'[g] = "lock" => read'[g] <= Expiry(carried[g])'
                      /\ pc'[g] = "update" => read'[g] <= heard'[Message(g)'.node]
  BY DEF HandlerInv
<1>2. TypeOK /\ HandlerInv /\ TypeOK' /\ now' >= now /\ now' \in Nat /\ now \in Nat
  BY <1>1, NextType, NextCallsStay DEF NodesInv, CallsStay, TypeOK
<1>3. read[g] \in Nat /\ read[g] <= now
  BY <1>2 DEF TypeOK, HandlerInv
<1>4. ASSUME pc[g] # "idle", carried'[g] = carried[g]
      PROVE  /\ Message(g)' = Message(g) /\ Expiry(carried[g])' = Expiry(carried[g])
             /\ Message(g).node \in Nodes /\ Message(g).ts \in Int
             /\ Expiry(carried[g]) = Message(g).ts + Ttl
  <2>1. carried[g] \in sent
    BY <1>2, <1>4 DEF TypeOK
  <2>2. call'[carried[g]] = call[carried[g]]
    BY <1>1, <2>1, ExpiryStays
  <2>3. QED
    BY <1>2, <1>4, <2>1, <2>2, MessageType DEF Message, Expiry
<1>5. CASE pc'[g] = pc[g] /\ carried'[g] = carried[g] /\ read'[g] = read[g]
  <2>1. read'[g] <= now'
    BY <1>2, <1>3, <1>5
  <2>2. ASSUME pc'[g] = "lock" PROVE read'[g] <= Expiry(carried[g])'
    BY <1>2, <1>4, <1>5, <2>2 DEF HandlerInv
  <2>3. ASSUME pc'[g] = "update" PROVE read'[g] <= heard'[Message(g)'.node]
    <3>1. Message(g)' = Message(g) /\ Message(g).node \in Nodes
      BY <1>4, <1>5, <2>3
    <3>2. read[g] <= heard[Message(g).node]
      BY <1>2, <1>5, <2>3 DEF HandlerInv
    <3>3. heard[Message(g).node] \in Int /\ heard'[Message(g).node] \in Int
          /\ heard'[Message(g).node] >= heard[Message(g).node]
      BY <1>1, <1>2, <3>1, HeardGrows DEF TypeOK, Never
    <3>4. QED
      BY <1>3, <1>5, <3>1, <3>2, <3>3
  <2>4. QED
    BY <2>1, <2>2, <2>3
<1>6. CASE pc'[g] = "idle" /\ read'[g] = 0
  BY <1>2, <1>6
<1>7. CASE pc'[g] \in {"resolve", "sign", "handle"} /\ read'[g] = read[g]
  BY <1>2, <1>3, <1>7
<1>8. CASE /\ pc[g] = "sign" /\ pc'[g] = "lock"
           /\ carried'[g] = carried[g] /\ read'[g] = now
           /\ now - Message(g).ts <= Ttl
  <2>1. Expiry(carried[g])' = Message(g).ts + Ttl /\ Message(g).ts \in Int
    BY <1>4, <1>8
  <2>2. now <= Message(g).ts + Ttl
    BY <1>2, <1>8, <2>1, NodesAssumption
  <2>3. QED
    BY <1>2, <1>8, <2>1, <2>2
<1>9. CASE /\ pc[g] = "handle" /\ pc'[g] = "update"
           /\ carried'[g] = carried[g] /\ read'[g] = now
           /\ heard' = [heard EXCEPT ![Message(g).node] = now]
  <2>1. Message(g)' = Message(g) /\ Message(g).node \in Nodes
    BY <1>4, <1>9
  <2>2. heard'[Message(g).node] = now
    BY <1>2, <1>9, <2>1 DEF TypeOK
  <2>3. QED
    BY <1>2, <1>9, <2>1, <2>2
<1>10. QED
  BY <1>1, <1>5, <1>6, <1>7, <1>8, <1>9, HandlerMoves

(* What a step does to the row of a node: nothing, its insertion, its      *)
(* revocation, or the write of a call that node signed.                    *)
LEMMA RowMoves ==
    ASSUME NodesInv, [Next]_vars, NEW n \in Nodes
    PROVE  \/ row'[n] = row[n]
           \/ /\ row[n] = NoRow
              /\ row'[n] = [NoRow EXCEPT !.status = "pending"]
           \/ /\ ~row[n].revoked
              /\ row'[n].seen = row[n].seen /\ row'[n].report = row[n].report
           \/ \E h \in Handlers :
                 /\ pc[h] = "update" /\ Message(h).node = n /\ Live(n)
                 /\ row'[n].seen = read[h]
                 /\ row'[n].report = IF Message(h).kind = "report"
                                     THEN Message(h).report ELSE row[n].report
<1>1. TypeOK /\ AdminInv
  BY DEF NodesInv
<1>2. CASE row' = row
  BY <1>2
<1>3. ASSUME NEW a \in Admins, InsertNode(a), row' # row
      PROVE  \/ row'[n] = row[n]
             \/ row[n] = NoRow /\ row'[n] = [NoRow EXCEPT !.status = "pending"]
  <2>1. row' = [row EXCEPT ![admin[a].node] = [NoRow EXCEPT !.status = "pending"]]
    BY <1>3 DEF InsertNode
  <2>2. admin[a].node \in Nodes => row[admin[a].node] = NoRow
    BY <1>1, <1>3 DEF InsertNode, AdminInv
  <2>3. QED
    BY <1>1, <2>1, <2>2 DEF TypeOK
<1>4. ASSUME NEW a \in Admins, NEW m \in Nodes, RevokeDaemonNode(a, m), row' # row
      PROVE  \/ row'[n] = row[n]
             \/ /\ ~row[n].revoked
                /\ row'[n].seen = row[n].seen /\ row'[n].report = row[n].report
  BY <1>1, <1>4 DEF RevokeDaemonNode, TypeOK
<1>5. ASSUME NEW h \in Handlers, MarkNodeSeen(h), row' # row
      PROVE  \/ row'[n] = row[n]
             \/ /\ pc[h] = "update" /\ Message(h).node = n /\ Live(n)
                /\ row'[n].seen = read[h]
                /\ row'[n].report = IF Message(h).kind = "report"
                                    THEN Message(h).report ELSE row[n].report
  BY <1>1, <1>5 DEF MarkNodeSeen, Seen, TypeOK
<1>6. ASSUME \/ \E a \in Admins, m \in Nodes : CreateDaemonNode(a, m)
             \/ \E a \in Admins : Audit(a)
             \/ \E h \in Handlers : RememberNonce(h) \/ Handle(h)
             \/ \E m \in Nodes, c \in Calls : ThenSign(c, m)
             \/ Restart \/ Tick
      PROVE  row' = row
  BY <1>6 DEF CreateDaemonNode, Audit, RememberNonce, Handle, ThenSign, Restart, Tick, table
<1>7. QED
  BY <1>2, <1>3, <1>4, <1>5, <1>6, NextCases, EditFrame, PassingFrame DEF Administer, vars, table

(* The rows stay true of their nodes.                                      *)
LEMMA RowKeeps == NodesInv /\ [Next]_vars => RowInv'
<1>1. SUFFICES ASSUME NodesInv, [Next]_vars, NEW n \in Nodes
               PROVE  /\ row'[n].seen <= heard'[n] /\ heard'[n] <= now'
                      /\ row'[n].report # NoReport =>
                             \E c \in sent' : /\ call'[c].node = n /\ call'[c].kind = "report"
                                              /\ call'[c].report = row'[n].report
  BY DEF RowInv
<1>2. TypeOK /\ HandlerInv /\ RowInv
  BY <1>1 DEF NodesInv
<1>3. heard[n] \in Int /\ heard'[n] \in Int /\ heard'[n] >= heard[n] /\ heard'[n] <= now'
      /\ heard[n] >= Never /\ Never \in Int
  BY <1>1, <1>2, HeardGrows DEF TypeOK, Never
<1>4. row[n].seen \in Int /\ row[n].seen <= heard[n]
  BY <1>2 DEF TypeOK, RowInv, Never
<1>5. row[n].report # NoReport =>
          \E c \in sent' : /\ call'[c].node = n /\ call'[c].kind = "report"
                           /\ call'[c].report = row[n].report
  BY <1>1, <1>2, ExpiryStays DEF RowInv
<1>6. CASE row'[n].seen = row[n].seen /\ row'[n].report = row[n].report
  BY <1>3, <1>4, <1>5, <1>6
<1>7. CASE row'[n] = [NoRow EXCEPT !.status = "pending"]
  <2>1. row'[n].seen = Never /\ row'[n].report = NoReport
    BY <1>7 DEF NoRow
  <2>2. QED
    BY <1>3, <2>1
<1>8. ASSUME NEW h \in Handlers, pc[h] = "update", Message(h).node = n,
             row'[n].seen = read[h],
             row'[n].report = IF Message(h).kind = "report"
                              THEN Message(h).report ELSE row[n].report
      PROVE  /\ row'[n].seen <= heard'[n]
             /\ row'[n].report # NoReport =>
                    \E c \in sent' : /\ call'[c].node = n /\ call'[c].kind = "report"
                                     /\ call'[c].report = row'[n].report
  <2>1. read[h] \in Nat /\ read[h] <= heard[n] /\ carried[h] \in sent
    BY <1>2, <1>8 DEF HandlerInv, TypeOK
  <2>2. carried[h] \in sent' /\ call'[carried[h]] = Message(h)
    BY <1>1, <2>1, ExpiryStays DEF Message
  <2>3. row'[n].seen <= heard'[n]
    BY <1>3, <1>8, <2>1
  <2>4. CASE Message(h).kind = "report"
    BY <1>8, <2>2, <2>3, <2>4
  <2>5. CASE Message(h).kind # "report"
    BY <1>5, <1>8, <2>3, <2>5
  <2>6. QED
    BY <2>4, <2>5
<1>9. QED
  BY <1>1, <1>3, <1>6, <1>7, <1>8, RowMoves

(* Every step keeps the invariant.                                         *)
LEMMA NextInv == NodesInv /\ [Next]_vars => NodesInv'
  BY NextType, AdminKeeps, CacheKeeps, HandlerKeeps, RowKeeps, RememberedKeeps DEF NodesInv

-----------------------------------------------------------------------------
(* The inductive invariant of daemon_nodes.rs: what the nonce cache, the   *)
(* handlers between two awaits, and the rows may rely on.                  *)
THEOREM Inductive == Spec => []NodesInv
<1>1. Init => NodesInv
  BY InitInv
<1>2. NodesInv /\ [Next]_vars => NodesInv'
  BY NextInv
<1>3. QED
  BY <1>1, <1>2, PTL DEF Spec

(* A call that daemon_node_auth accepted is in the nonce cache as long as  *)
(* its timestamp would pass: no pruning and no order of the handlers at    *)
(* the lock makes the process forget it too early.                         *)
THEOREM NoncesLast == Spec => []RememberedWhileFresh
<1>1. NodesInv => RememberedWhileFresh
  BY DEF NodesInv
<1>2. QED
  BY <1>1, Inductive, PTL

(* One process lets a call through a second time only when the handler of  *)
(* the copy read the clock before the expiry and got the lock after it.    *)
THEOREM NoReplay == Spec => RepeatIsRefused
<1> DEFINE Refused == \A h \in Handlers :
          pc[h] = "lock" /\ pc'[h] = "handle" /\ carried[h] \in accepted =>
              now > Expiry(carried[h])
<1>1. NodesInv /\ [Next]_vars => [Refused]_vars
  <2>1. SUFFICES ASSUME NodesInv, [Next]_vars, NEW h \in Handlers,
                        pc[h] = "lock", pc'[h] = "handle", carried[h] \in accepted
                 PROVE  now > Expiry(carried[h])
    OBVIOUS
  <2>2. TypeOK /\ CacheInv /\ HandlerInv /\ RememberedWhileFresh
    BY <2>1 DEF NodesInv
  <2>3. carried[h] \in sent /\ carried[h] \in Calls /\ Expiry(carried[h]) \in Int /\ now \in Nat
    BY <2>1, <2>2, MessageType DEF TypeOK
  <2>4. RememberNonce(h)
    <3>1. ASSUME NEW g \in Handlers, g # h,
                 \/ Passing(g) \/ RememberNonce(g) \/ Handle(g) \/ MarkNodeSeen(g)
          PROVE  pc'[h] = pc[h]
      BY <2>2, <3>1 DEF Passing, Deliver, ResolveIdentity, CheckTimestamp, SqlError, Dropped,
         RememberNonce, Handle, MarkNodeSeen, Goto, ReadClock, End, TypeOK
    <3>2. ~(Passing(h) \/ Handle(h) \/ MarkNodeSeen(h))
      BY <2>1, <2>2 DEF Passing, Deliver, ResolveIdentity, CheckTimestamp, SqlError, Dropped,
         Handle, MarkNodeSeen, End, TypeOK
    <3>3. QED
      BY <2>1, <3>1, <3>2, NextCases, AdministerFrame, EditFrame
         DEF ThenSign, Restart, Tick, vars, handling
  <2>5. SUFFICES ASSUME now <= Expiry(carried[h]) PROVE FALSE
    BY <2>3
  <2>6. nonces[carried[h]] # Forgotten /\ nonces[carried[h]] = Expiry(carried[h])
    BY <2>1, <2>2, <2>3, <2>5 DEF RememberedWhileFresh, CacheInv
  <2>7. read[h] <= nonces[carried[h]]
    BY <2>1, <2>2, <2>6 DEF HandlerInv
  <2>8. PruneStaleNonces(read[h])[carried[h]] = nonces[carried[h]]
    BY <2>3, <2>7 DEF PruneStaleNonces
  <2>9. End(h)
    BY <2>4, <2>6, <2>8 DEF RememberNonce
  <2>10. QED
    BY <2>1, <2>2, <2>9 DEF End, TypeOK
<1>2. QED
  BY <1>1, Inductive, PTL DEF Spec, RepeatIsRefused

(* After revoke_daemon_node has written its row, nothing else writes it:   *)
(* not a heartbeat, registration or ping that was authenticated before.    *)
THEOREM RevocationIsFinal == Spec => RevokedIsFrozen
<1>1. NodesInv /\ [Next]_vars => [\A n \in Nodes : row[n].revoked => row'[n] = row[n]]_vars
  <2>1. SUFFICES ASSUME NodesInv, [Next]_vars, NEW n \in Nodes, row[n].revoked
                 PROVE  row'[n] = row[n]
    OBVIOUS
  <2>2. ~Live(n) /\ row[n] # NoRow
    BY <2>1 DEF Live, NoRow
  <2>3. QED
    BY <2>1, <2>2, RowMoves
<1>2. QED
  BY <1>1, Inductive, PTL DEF Spec, RevokedIsFrozen

(* A node that select_eligible_daemon_node returns is not revoked, was     *)
(* heard within the staleness bound, and has itself reported the model and *)
(* its health.                                                             *)
THEOREM SelectionIsLive == Spec => []SelectedIsLive
<1>1. NodesInv => SelectedIsLive
  <2>1. SUFFICES ASSUME NodesInv, NEW m \in Models, NEW n \in SelectEligible(m) \ {Failed}
                 PROVE  /\ ~row[n].revoked /\ heard[n] >= Cutoff
                        /\ \E c \in sent : /\ call[c].node = n /\ call[c].kind = "report"
                                           /\ call[c].report.healthy /\ m \in call[c].report.models
    BY DEF SelectedIsLive
  <2>2. /\ n \in Nodes /\ ~row[n].revoked /\ row[n].report.healthy
        /\ row[n].seen >= Cutoff /\ m \in row[n].report.models
    BY <2>1 DEF SelectEligible
  <2>3. row[n].report # NoReport
    BY <2>2 DEF NoReport
  <2>4. row[n].seen \in Int /\ heard[n] \in Int /\ row[n].seen <= heard[n] /\ Cutoff \in Int
    BY <2>1, <2>2, NodesAssumption DEF NodesInv, TypeOK, RowInv, Never, Cutoff
  <2>5. heard[n] >= Cutoff
    BY <2>2, <2>4
  <2>6. QED
    BY <2>1, <2>2, <2>3, <2>5 DEF NodesInv, RowInv
<1>2. QED
  BY <1>1, Inductive, PTL

(* What select_eligible_daemon_node serves list_public_models lists.  What *)
(* is listed it serves too, since among the rows that end its scan one was *)
(* seen last, unless that row does not parse; and such a row belongs to a  *)
(* node that is not revoked and was heard within the staleness bound.      *)
THEOREM ListIsServed == Spec => []ListedIsServed
<1>1. NodesInv => ListedIsServed
  <2>1. SUFFICES ASSUME NodesInv, NEW m \in Models
                 PROVE  /\ SelectEligible(m) \cap Nodes # {} => m \in ListedModels
                        /\ m \in ListedModels => SelectEligible(m) # {}
                        /\ Failed \in SelectEligible(m) =>
                               \E n \in broken : ~row[n].revoked /\ heard[n] >= Cutoff
    BY DEF ListedIsServed
  <2> DEFINE rows  == {n \in Nodes : /\ row[n].status = "active" /\ ~row[n].revoked
                                     /\ row[n].report.healthy
                                     /\ row[n].seen # Never /\ row[n].seen >= Cutoff}
             stops == {n \in rows : \/ n \in broken
                                    \/ m \in row[n].report.models /\ row[n].report.max > 0}
             first == {n \in stops : \A o \in stops : row[o].seen <= row[n].seen}
             times == {row[n].seen : n \in stops}
  <2>2. SelectEligible(m) = {IF n \in broken THEN Failed ELSE n : n \in first}
    BY DEF SelectEligible
  <2>3. ASSUME SelectEligible(m) \cap Nodes # {} PROVE m \in ListedModels
    <3>1. PICK n \in first : n \notin broken
      <4> HIDE DEF first
      <4>1. QED
        BY <2>2, <2>3, NodesAssumption
    <3>2. /\ n \in Nodes \ broken /\ row[n].status = "active" /\ ~row[n].revoked
          /\ row[n].report.healthy /\ row[n].report.max > 0
          /\ row[n].seen # Never /\ row[n].seen >= Cutoff /\ m \in row[n].report.models
      BY <3>1
    <3>3. QED
      BY <3>2 DEF ListedModels
  <2>4. ASSUME m \in ListedModels PROVE SelectEligible(m) # {}
    <3>1. stops # {}
      BY <2>4 DEF ListedModels
    <3>2. \A n \in stops : row[n].seen \in Nat /\ row[n].seen <= now /\ now \in Nat
      <4>1. SUFFICES ASSUME NEW n \in stops
                     PROVE  row[n].seen \in Nat /\ row[n].seen <= now /\ now \in Nat
        OBVIOUS
      <4>2. n \in Nodes /\ row[n].seen # Never
        BY <4>1
      <4>3. row[n].seen \in Nat /\ heard[n] \in Int /\ now \in Nat
        BY <2>1, <4>2 DEF NodesInv, TypeOK, Never
      <4>4. QED
        BY <2>1, <4>2, <4>3 DEF NodesInv, RowInv
    <3>3. PICK x \in times : \A y \in times : y <= x
      <4> HIDE DEF stops
      <4>1. times \subseteq Nat /\ times # {} /\ now \in Nat /\ \A y \in times : y <= now
        BY <3>1, <3>2
      <4>2. QED
        BY <4>1, LatestExists
    <3>4. PICK n \in stops : x = row[n].seen
      BY <3>3
    <3> HIDE DEF stops
    <3>5. \A o \in stops : row[o].seen <= row[n].seen
      BY <3>3, <3>4
    <3>6. n \in first
      BY <3>4, <3>5
    <3> HIDE DEF first
    <3>7. QED
      BY <2>2, <3>6
  <2>5. ASSUME Failed \in SelectEligible(m)
        PROVE  \E n \in broken : ~row[n].revoked /\ heard[n] >= Cutoff
    <3>1. \A n \in first : n \in Nodes /\ ~row[n].revoked /\ row[n].seen >= Cutoff
      OBVIOUS
    <3>2. PICK n \in first : n \in broken
      <4>1. \A n \in first : n # Failed
        BY <3>1, NodesAssumption
      <4> HIDE DEF first
      <4>2. QED
        BY <2>2, <2>5, <4>1
    <3>3. n \in Nodes /\ ~row[n].revoked /\ row[n].seen >= Cutoff
      BY <3>1, <3>2
    <3>4. row[n].seen \in Int /\ heard[n] \in Int /\ row[n].seen <= heard[n] /\ Cutoff \in Int
      BY <2>1, <3>3, NodesAssumption DEF NodesInv, TypeOK, RowInv, Never, Cutoff
    <3>5. heard[n] >= Cutoff
      BY <3>3, <3>4
    <3>6. QED
      BY <3>2, <3>3, <3>5
  <2>6. QED
    BY <2>3, <2>4, <2>5
<1>2. QED
  BY <1>1, Inductive, PTL
=============================================================================
