------------------------------- MODULE Wallet --------------------------------
(***************************************************************************)
(* Credit billing of mizan-api (crates/mizan-api/src/billing.rs): wallets, *)
(* the credit ledger and usage events in a SQL database, written by        *)
(* concurrent HTTP requests, each over connections of one sqlx pool.       *)
(*                                                                         *)
(* A call of grant_credits, record_usage, get_wallet or                    *)
(* ensure_sufficient_credit is one member of Calls.  Its steps are its     *)
(* awaited database statements; statements whose effect stays invisible    *)
(* until COMMIT are folded into one step.  The database is external: with  *)
(* Postgres the wallet row is locked by SELECT ... FOR UPDATE; with SQLite *)
(* (rollback journal, the sqlx default) an open transaction that has read  *)
(* holds the SHARED lock, one writer at a time holds RESERVED, and a       *)
(* commit that wrote needs every other SHARED lock to be gone.             *)
(***************************************************************************)
EXTENDS Integers, Sequences, FiniteSets

CONSTANTS
    Users,      \* wallet owners
    Calls,      \* billing calls in flight over the life of the system
    Jobs,       \* what a call may be asked to do, a subset of Job
    Backend,    \* "Postgres" or "Sqlite" (DatabaseBackend)
    PoolSize,   \* MIZAN_DB_MAX_CONNECTIONS, 1 for an in-memory SQLite
    MaxI64,     \* i64::MAX, the largest balance
    Faults,     \* TRUE: statements and commits may fail, requests be dropped
    NoCall      \* owner of a lock nobody holds

Kinds == {"grant", "usage", "wallet", "preflight"}

(* amount: microcredits granted or charged (the total of                   *)
(* calculate_usage_charge); status: the upstream status record_usage gets. *)
Job == [kind : Kinds, user : Users, amount : Int, status : {200, 502}]

ASSUME WalletAssumption ==
    /\ Users # {}
    /\ Jobs \subseteq Job
    /\ Backend \in {"Postgres", "Sqlite"}
    /\ PoolSize \in Nat \ {0}
    /\ MaxI64 \in Nat \ {0}
    /\ Faults \in BOOLEAN
    /\ NoCall \notin Calls

VARIABLES
    \* committed tables
    exists,     \* users that have a wallets row (unique per owner_user_id)
    balance,    \* wallets.balance_microcredits, 0 where there is no row
    ledger,     \* credit_ledger rows by wallet, in commit order
    usage,      \* usage[c]: status codes of the usage_events c inserted
    audited,    \* calls with a row in admin_audit_logs
    \* connections and locks
    conns,      \* calls that hold a pool connection for their transaction
    rowLock,    \* Postgres: owner of the lock on u's wallet row
    shared,     \* Sqlite: calls holding SHARED
    reserved,   \* Sqlite: the call holding RESERVED
    \* locals of a call
    pc, job, read, fresh, result

tables == <<exists, balance, ledger, usage, audited>>
locks  == <<conns, rowLock, shared, reserved>>
vars   == <<tables, locks, pc, job, read, fresh, result>>

(* Where a call is: waiting for a connection outside a transaction, in an  *)
(* open transaction, or between calls.                                     *)
InTx   == {"select", "insert", "reselect", "reject", "write", "commit"}
Active == InTx \cup {"event", "begin", "audit"}
PcSet  == Active \cup {"idle", "done"}
Results == {"none", "ok", "insufficient", "error", "cancelled", "bad_request"}

Account == INSTANCE CreditAccount WITH
               Deltas <- {j.amount : j \in Jobs} \cup {0 - j.amount : j \in Jobs}

SatAdd(a, b) == Account!SatAdd(a, b)

NoJob == [kind |-> "wallet", user |-> CHOOSE u \in Users : TRUE,
          amount |-> 0, status |-> 200]

Init ==
    /\ exists = {}
    /\ balance = [u \in Users |-> 0]
    /\ ledger = [u \in Users |-> <<>>]
    /\ usage = [c \in Calls |-> <<>>]
    /\ audited = {}
    /\ conns = {}
    /\ rowLock = [u \in Users |-> NoCall]
    /\ shared = {}
    /\ reserved = NoCall
    /\ pc = [c \in Calls |-> "idle"]
    /\ job = [c \in Calls |-> NoJob]
    /\ read = [c \in Calls |-> 0]
    /\ fresh = [c \in Calls |-> FALSE]
    /\ result = [c \in Calls |-> "none"]

-----------------------------------------------------------------------------
(* The database and the pool.                                              *)

(* A connection is free: sqlx hands out at most PoolSize of them.          *)
ConnectionFree == Cardinality(conns) < PoolSize

(* An INSERT outside any transaction can run to completion now.  Sqlite    *)
(* cannot commit it while any transaction, of the same call too, holds a   *)
(* lock.                                                                   *)
AutocommitFree == Backend = "Sqlite" => shared = {} /\ reserved = NoCall

(* The call may become, or is, the one writing transaction.                *)
CanReserve(c) == Backend = "Sqlite" => reserved \in {NoCall, c}

Reserve(c) == reserved' = IF Backend = "Sqlite" THEN c ELSE reserved

(* COMMIT can finish: a transaction that wrote waits for other readers.    *)
CanCommit(c) == Backend = "Sqlite" /\ reserved = c => shared \subseteq {c}

(* The locks and the connection a transaction gives back when it ends.     *)
EndTx(c) ==
    /\ conns' = conns \ {c}
    /\ rowLock' = [u \in Users |-> IF rowLock[u] = c THEN NoCall ELSE rowLock[u]]
    /\ shared' = shared \ {c}
    /\ reserved' = IF reserved = c THEN NoCall ELSE reserved
    /\ fresh' = [fresh EXCEPT ![c] = FALSE]

Goto(c, l) == pc' = [pc EXCEPT ![c] = l]

Finish(c, r) ==
    /\ Goto(c, "done")
    /\ result' = [result EXCEPT ![c] = r]

-----------------------------------------------------------------------------
(* Entry of each operation: the checks made before the database is used.   *)

(* Mutant: a grant of nothing is refused without an early return and still *)
(* gets its audit row.                                                     *)
CallGrantAuditsRefusal(c, j) ==
    /\ j.kind = "grant"
    /\ Goto(c, IF j.amount <= 0 THEN "audit" ELSE "begin")
    /\ UNCHANGED result

CallGrant(c, j) ==
    /\ j.kind = "grant"
    /\ IF j.amount <= 0 THEN Finish(c, "bad_request")
                        ELSE Goto(c, "begin") /\ UNCHANGED result

(* Only a 2xx answer with a positive charge opens a transaction.           *)
CallUsage(c, j) ==
    /\ j.kind = "usage"
    /\ Goto(c, IF j.status = 200 /\ j.amount > 0 THEN "begin" ELSE "event")
    /\ UNCHANGED result

CallWallet(c, j) ==
    /\ j.kind = "wallet"
    /\ Goto(c, "begin")
    /\ UNCHANGED result

CallPreflight(c, j) ==
    /\ j.kind = "preflight"
    /\ IF j.amount <= 0 THEN Finish(c, "ok")
                        ELSE Goto(c, "begin") /\ UNCHANGED result

Call(c) ==
    /\ pc[c] = "idle"
    /\ \E j \in Jobs :
        /\ job' = [job EXCEPT ![c] = j]
        /\ \/ CallGrant(c, j)
           \/ CallUsage(c, j)
           \/ CallWallet(c, j)
           \/ CallPreflight(c, j)
    /\ UNCHANGED <<tables, locks, read, fresh>>

-----------------------------------------------------------------------------
(* insert_usage_event outside a transaction.                               *)
InsertUsageEvent(c) ==
    /\ pc[c] = "event"
    /\ ConnectionFree /\ AutocommitFree
    /\ usage' = [usage EXCEPT ![c] = Append(@, job[c].status)]
    /\ Finish(c, "ok")
    /\ UNCHANGED <<exists, balance, ledger, audited, locks, job, read, fresh>>

BeginTx(c) ==
    /\ pc[c] = "begin"
    /\ ConnectionFree
    /\ conns' = conns \cup {c}
    /\ Goto(c, "select")
    /\ UNCHANGED <<tables, rowLock, shared, reserved, job, read, fresh, result>>

(* Mutants: no credit check; a charge that is retried until there is       *)
(* credit.                                                                 *)
DecideUnchecked(c, b) ==
    IF job[c].kind \in {"wallet", "preflight"} THEN "commit" ELSE "write"

DecideRetries(c, b) ==
    IF job[c].kind \in {"wallet", "preflight"} THEN "commit"
    ELSE IF job[c].kind = "usage" /\ b < job[c].amount THEN "reselect" ELSE "write"

(* What a call does once it has the balance b of its wallet.               *)
Decide(c, b) ==
    IF job[c].kind \in {"wallet", "preflight"} THEN "commit"
    ELSE IF job[c].kind = "usage" /\ b < job[c].amount THEN "reject" ELSE "write"

(* Mutants: the SELECT without FOR UPDATE, or outside the transaction; a   *)
(* lock that does not wait for its holder.                                 *)
LockWalletPlainSelect(c, u) == UNCHANGED <<rowLock, shared>>

LockWalletSteals(c, u) ==
    /\ rowLock' = IF Backend = "Postgres" THEN [rowLock EXCEPT ![u] = c] ELSE rowLock
    /\ shared' = IF Backend = "Sqlite" THEN shared \cup {c} ELSE shared

(* The lock a SELECT of u's existing wallet row takes; the Postgres lock   *)
(* waits for its holder.                                                   *)
LockWallet(c, u) ==
    IF Backend = "Postgres"
    THEN /\ rowLock[u] \in {NoCall, c}
         /\ rowLock' = [rowLock EXCEPT ![u] = c]
         /\ UNCHANGED shared
    ELSE /\ shared' = shared \cup {c}
         /\ UNCHANGED rowLock

(* ensure_wallet_in_tx, the SELECT that finds the row.                     *)
SelectWallet(c) ==
    LET u == job[c].user IN
    /\ pc[c] \in {"select", "reselect"}
    /\ u \in exists \/ fresh[c]
    /\ LockWallet(c, u)
    /\ read' = [read EXCEPT ![c] = balance[u]]
    /\ Goto(c, Decide(c, balance[u]))
    /\ UNCHANGED <<tables, conns, reserved, job, fresh, result>>

(* The first SELECT finds no committed row; nothing is there to lock in    *)
(* Postgres, Sqlite takes SHARED all the same.                             *)
SelectNoWallet(c) ==
    /\ pc[c] = "select"
    /\ job[c].user \notin exists
    /\ shared' = IF Backend = "Sqlite" THEN shared \cup {c} ELSE shared
    /\ Goto(c, "insert")
    /\ UNCHANGED <<tables, conns, rowLock, reserved, job, read, fresh, result>>

(* INSERT ... ON CONFLICT(owner_user_id) DO NOTHING.  With Postgres it     *)
(* waits for an uncommitted row of the same owner, and does nothing when   *)
(* there is a committed one.                                               *)
InsertWallet(c) ==
    LET u == job[c].user IN
    /\ pc[c] = "insert"
    /\ Goto(c, "reselect")
    /\ \/ /\ u \in exists
          /\ UNCHANGED <<rowLock, reserved, fresh>>
       \/ /\ u \notin exists
          /\ rowLock[u] = NoCall
          /\ CanReserve(c)
          /\ Reserve(c)
          /\ rowLock' = IF Backend = "Postgres"
                        THEN [rowLock EXCEPT ![u] = c] ELSE rowLock
          /\ fresh' = [fresh EXCEPT ![c] = TRUE]
    /\ UNCHANGED <<tables, conns, shared, job, read, result>>

(* Mutant: the refused charge is recorded with the upstream's status.      *)
RejectUsageAsSuccess(c) ==
    /\ pc[c] = "reject"
    /\ ConnectionFree /\ AutocommitFree
    /\ usage' = [usage EXCEPT ![c] = Append(@, job[c].status)]
    /\ EndTx(c)
    /\ Finish(c, "insufficient")
    /\ UNCHANGED <<exists, balance, ledger, audited, job, read>>

(* record_usage finds the balance too small: the 402 usage event is        *)
(* inserted over a second connection of the pool while the transaction is  *)
(* open; then the transaction is dropped, which rolls it back.             *)
RejectUsage(c) ==
    /\ pc[c] = "reject"
    /\ ConnectionFree /\ AutocommitFree
    /\ usage' = [usage EXCEPT ![c] = Append(@, 402)]
    /\ EndTx(c)
    /\ Finish(c, "insufficient")
    /\ UNCHANGED <<exists, balance, ledger, audited, job, read>>

(* INSERT INTO credit_ledger, UPDATE wallets and, for record_usage, INSERT *)
(* INTO usage_events, all invisible to others until COMMIT.                *)
WriteTx(c) ==
    /\ pc[c] = "write"
    /\ CanReserve(c)
    /\ Reserve(c)
    /\ Goto(c, "commit")
    /\ UNCHANGED <<tables, conns, rowLock, shared, job, read, fresh, result>>

(* The balance written: the one read, plus a grant or minus a charge.      *)
Delta(c) == IF job[c].kind = "grant" THEN job[c].amount ELSE 0 - job[c].amount

(* Mutant: a grant is added without saturating.                            *)
NewBalanceUnsaturated(c) == read[c] + Delta(c)

NewBalance(c) == IF job[c].kind = "grant" THEN SatAdd(read[c], job[c].amount)
                                          ELSE read[c] - job[c].amount

(* Mutant: the usage event of a charge is left out.                        *)
PublishNoEvent(c) ==
    LET u == job[c].user IN
    /\ exists' = IF fresh[c] THEN exists \cup {u} ELSE exists
    /\ IF job[c].kind \in {"grant", "usage"}
       THEN /\ balance' = [balance EXCEPT ![u] = NewBalance(c)]
            /\ ledger' = [ledger EXCEPT ![u] = Append(@,
                   [call |-> c, delta |-> Delta(c), after |-> NewBalance(c)])]
       ELSE UNCHANGED <<balance, ledger>>
    /\ UNCHANGED <<usage, audited>>

(* What COMMIT makes visible.                                              *)
Publish(c) ==
    LET u == job[c].user IN
    /\ exists' = IF fresh[c] THEN exists \cup {u} ELSE exists
    /\ IF job[c].kind \in {"grant", "usage"}
       THEN /\ balance' = [balance EXCEPT ![u] = NewBalance(c)]
            /\ ledger' = [ledger EXCEPT ![u] = Append(@,
                   [call |-> c, delta |-> Delta(c), after |-> NewBalance(c)])]
       ELSE UNCHANGED <<balance, ledger>>
    /\ usage' = IF job[c].kind = "usage"
                THEN [usage EXCEPT ![c] = Append(@, job[c].status)] ELSE usage
    /\ UNCHANGED audited

(* COMMIT succeeds and the call goes on: grant_credits still has its audit *)
(* row to write, ensure_sufficient_credit compares the balance it read.    *)
CommitTx(c) ==
    /\ pc[c] = "commit"
    /\ CanCommit(c)
    /\ Publish(c)
    /\ EndTx(c)
    /\ \/ job[c].kind = "grant" /\ Goto(c, "audit") /\ UNCHANGED result
       \/ /\ job[c].kind # "grant"
          /\ Finish(c, IF job[c].kind = "preflight" /\ read[c] < job[c].amount
                       THEN "insufficient" ELSE "ok")
    /\ UNCHANGED <<job, read>>

(* record_admin_audit after the grant is committed; its failure is only    *)
(* logged.                                                                 *)
AuditGrant(c) ==
    /\ pc[c] = "audit"
    /\ \/ ConnectionFree /\ AutocommitFree /\ audited' = audited \cup {c}
       \/ ~(ConnectionFree /\ AutocommitFree) /\ UNCHANGED audited
       \/ Faults /\ UNCHANGED audited
    /\ Finish(c, "ok")
    /\ UNCHANGED <<exists, balance, ledger, usage, locks, job, read, fresh>>

-----------------------------------------------------------------------------
(* Failures.                                                               *)

(* The call gives up: an open transaction is rolled back.                  *)
Abort(c, r) ==
    /\ EndTx(c)
    /\ Finish(c, r)
    /\ UNCHANGED <<tables, job, read>>

(* acquire_timeout of the pool, while every connection is taken.           *)
PoolTimeout(c) ==
    /\ pc[c] \in {"begin", "event", "reject"}
    /\ ~ConnectionFree
    /\ Abort(c, "error")

(* SQLITE_BUSY: the lock the statement needs stays taken.                  *)
Busy(c) ==
    /\ \/ pc[c] \in {"event", "reject"} /\ ~AutocommitFree
       \/ pc[c] \in {"insert", "write"} /\ ~CanReserve(c)
       \/ pc[c] = "commit" /\ ~CanCommit(c)
    /\ Abort(c, "error")

(* A statement or COMMIT fails and has no effect.                          *)
DbError(c) ==
    /\ Faults
    /\ pc[c] \in Active \ {"audit"}
    /\ Abort(c, "error")

(* How a call ends that does not learn what its statement did: the         *)
(* connection breaks before the reply, or the future is dropped while the  *)
(* statement is in flight.                                                 *)
Unheard == {"error", "cancelled"}

(* COMMIT takes effect, but its reply is not heard.                        *)
CommitReplyLost(c) ==
    /\ Faults
    /\ pc[c] = "commit"
    /\ CanCommit(c)
    /\ Publish(c)
    /\ EndTx(c)
    /\ \E r \in Unheard : Finish(c, r)
    /\ UNCHANGED <<job, read>>

(* The same of an autocommitted usage event: the one without a             *)
(* transaction, and the 402 event beside the transaction of its call.      *)
EventReplyLost(c) ==
    /\ Faults
    /\ pc[c] \in {"event", "reject"}
    /\ ConnectionFree /\ AutocommitFree
    /\ usage' = [usage EXCEPT ![c] =
                    Append(@, IF pc[c] = "reject" THEN 402 ELSE job[c].status)]
    /\ EndTx(c)
    /\ \E r \in Unheard : Finish(c, r)
    /\ UNCHANGED <<exists, balance, ledger, audited, job, read>>

(* The future is dropped while the audit row is being inserted (a lost     *)
(* reply is only logged: the first case of AuditGrant).                    *)
AuditDropped(c) ==
    /\ Faults
    /\ pc[c] = "audit"
    /\ ConnectionFree /\ AutocommitFree
    /\ audited' = audited \cup {c}
    /\ Finish(c, "cancelled")
    /\ UNCHANGED <<exists, balance, ledger, usage, locks, job, read, fresh>>

(* The client disconnects or the process stops: the future is dropped      *)
(* between two statements, or in one that then has no effect.              *)
Cancel(c) ==
    /\ Faults
    /\ pc[c] \in Active
    /\ Abort(c, "cancelled")

Step(c) ==
    \/ InsertUsageEvent(c) \/ BeginTx(c) \/ SelectWallet(c) \/ SelectNoWallet(c)
    \/ InsertWallet(c) \/ RejectUsage(c) \/ WriteTx(c) \/ CommitTx(c)
    \/ AuditGrant(c) \/ PoolTimeout(c) \/ Busy(c)

Fault(c) ==
    \/ DbError(c) \/ CommitReplyLost(c) \/ EventReplyLost(c) \/ AuditDropped(c)
    \/ Cancel(c)

(* Every call was made and has returned.                                   *)
Terminated == (\A c \in Calls : pc[c] = "done") /\ UNCHANGED vars

Next == (\E c \in Calls : Call(c) \/ Step(c) \/ Fault(c)) \/ Terminated

Spec == Init /\ [][Next]_vars

(* The runtime polls every task that can move: each accepted call goes on. *)
FairSpec == Spec /\ \A c \in Calls : WF_vars(Step(c))

-----------------------------------------------------------------------------
(* Properties.                                                             *)

Row == [call : Calls, delta : Int, after : Int]

(* Shape of the state.                                                     *)
TypeOK ==
    /\ exists \subseteq Users
    /\ balance \in [Users -> Int]
    /\ ledger \in [Users -> Seq(Row)]
    /\ usage \in [Calls -> Seq({200, 402, 502})]
    /\ audited \subseteq Calls
    /\ conns \subseteq Calls
    /\ rowLock \in [Users -> Calls \cup {NoCall}]
    /\ shared \subseteq Calls
    /\ reserved \in Calls \cup {NoCall}
    /\ pc \in [Calls -> PcSet]
    /\ job \in [Calls -> Job]
    /\ read \in [Calls -> Int]
    /\ fresh \in [Calls -> BOOLEAN]
    /\ result \in [Calls -> Results]

(* However record_usage and grant_credits interleave, no committed balance *)
(* is below zero or above i64::MAX.                                        *)
BalanceInRange == \A u \in Users : balance[u] \in 0 .. MaxI64

(* balance_after of the row before the i-th of u's wallet.                 *)
Before(u, i) == IF i = 1 THEN 0 ELSE ledger[u][i - 1].after

(* The cached balance is the ledger's: each row starts from the balance    *)
(* the row before it left, and the wallet shows the last one.  A lost      *)
(* update of UPDATE wallets SET balance = <value read earlier> breaks it.  *)
LedgerExplainsBalance ==
    \A u \in Users :
        /\ balance[u] = Before(u, Len(ledger[u]) + 1)
        /\ \A i \in 1 .. Len(ledger[u]) :
               ledger[u][i].after = SatAdd(Before(u, i), ledger[u][i].delta)

(* The lock that keeps others from changing the wallet c has read.         *)
HoldsWallet(c) == IF Backend = "Postgres" THEN rowLock[job[c].user] = c
                                          ELSE c \in shared

(* From its SELECT to its COMMIT a call holds the wallet, and the balance  *)
(* it read, on which it decides and from which it computes the balance it  *)
(* writes, is still the committed one.                                     *)
BalanceReadIsCurrent ==
    \A c \in Calls : pc[c] \in {"reject", "write", "commit"} =>
        HoldsWallet(c) /\ read[c] = balance[job[c].user]

(* The rows that call c posted, over all wallets.                          *)
RowsOf(c) ==
    UNION {{u} \X {i \in 1 .. Len(ledger[u]) : ledger[u][i].call = c} : u \in Users}

(* record_usage charges an answer that succeeded and has a price.          *)
Priced(c) == job[c].status = 200 /\ job[c].amount > 0

(* A call never leaves half of its effect behind: one that prices an       *)
(* answer is charged exactly when its 2xx usage event is stored, at most   *)
(* once, and a 402 event stands for a refusal without charge.  A caller    *)
(* told of success or of missing credit finds just that in the tables; one *)
(* told of a database error, or gone, may find either the whole effect or  *)
(* nothing.                                                                *)
CallAccounted ==
    \A c \in Calls :
        LET charged == Cardinality(RowsOf(c)) IN
        /\ charged <= 1 /\ Len(usage[c]) <= 1
        /\ job[c].kind = "usage" =>
               (charged = 1 <=> Priced(c) /\ usage[c] = <<200>>)
        /\ usage[c] = <<402>> => result[c] \in {"insufficient"} \cup Unheard
        /\ result[c] = "insufficient" /\ job[c].kind = "usage" => usage[c] = <<402>>
        /\ result[c] = "ok" /\ job[c].kind = "usage" => usage[c] = <<job[c].status>>
        /\ result[c] = "ok" /\ job[c].kind = "grant" => charged = 1

(* An audit row stands for a committed grant.                              *)
AuditsAreReal == \A c \in audited : Cardinality(RowsOf(c)) = 1

(* The transactions implement the atomic account.                          *)
ImplementsAccount == Account!Spec

(* Every call that was made returns, whatever the others hold.             *)
EveryCallReturns == \A c \in Calls : pc[c] \in Active ~> pc[c] = "done"

(* A charge refused for lack of credit is reported as such.                *)
InsufficientIsReported ==
    [][\A c \in Calls : pc[c] = "reject" /\ pc'[c] = "done" =>
                            result'[c] = "insufficient"]_vars
==============================================================================
