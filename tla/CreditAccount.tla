---------------------------- MODULE CreditAccount ----------------------------
(***************************************************************************)
(* What the billing code of mizan-api promises about credit: an account    *)
(* per user whose balance changes only together with one new row of an     *)
(* append-only ledger, at most one row per billing call, and never below   *)
(* zero.  There is no transaction, lock, connection or failure here; the   *)
(* module Wallet shows how the code gets this behaviour out of them.       *)
(***************************************************************************)
EXTENDS Integers, Sequences

CONSTANTS
    Users,   \* owners of wallets
    Calls,   \* billing calls (one HTTP request each) that may post a row
    Deltas,  \* the amounts a call may post, in microcredits
    MaxI64   \* the largest value of the i64 balance column

VARIABLES
    balance, \* balance[u]: microcredits of u's wallet
    ledger   \* ledger[u]: the credit_ledger rows of u's wallet, oldest first

vars == <<balance, ledger>>

(* i64::saturating_add for operands whose sum is not below zero.           *)
SatAdd(a, b) == IF a + b > MaxI64 THEN MaxI64 ELSE a + b

(* The calls that have posted a row to some wallet.                        *)
Posted == {c \in Calls : \E u \in Users : \E i \in 1 .. Len(ledger[u]) :
                             ledger[u][i].call = c}

Init ==
    /\ balance = [u \in Users |-> 0]
    /\ ledger = [u \in Users |-> <<>>]

(* Call c grants (d > 0) or charges (d < 0) user u.                        *)
Post(c, u, d) ==
    /\ c \notin Posted
    /\ SatAdd(balance[u], d) >= 0
    /\ balance' = [balance EXCEPT ![u] = SatAdd(balance[u], d)]
    /\ ledger' = [ledger EXCEPT ![u] = Append(@,
            [call |-> c, delta |-> d, after |-> SatAdd(balance[u], d)])]

Next == \E c \in Calls, u \in Users, d \in Deltas : Post(c, u, d)

Spec == Init /\ [][Next]_vars
==============================================================================
