------------------------------ MODULE MCWallet -------------------------------
(* Small instances of Wallet for TLC.                                      *)
EXTENDS Wallet, TLC

(* A grant of 2, and charges of 1 and 2 that compete for it.               *)
OneUserJobs(u) ==
    {[kind |-> "grant", user |-> u, amount |-> 2, status |-> 200],
     [kind |-> "usage", user |-> u, amount |-> 1, status |-> 200],
     [kind |-> "usage", user |-> u, amount |-> 2, status |-> 200]}

(* Calls that charge nothing: a refused grant, a free and a failed answer, *)
(* a lookup, and preflights of a free and a priced request.                *)
OtherJobs(u) ==
    {[kind |-> "grant", user |-> u, amount |-> 0, status |-> 200],
     [kind |-> "usage", user |-> u, amount |-> 0, status |-> 200],
     [kind |-> "usage", user |-> u, amount |-> 1, status |-> 502],
     [kind |-> "wallet", user |-> u, amount |-> 0, status |-> 200],
     [kind |-> "preflight", user |-> u, amount |-> 0, status |-> 200],
     [kind |-> "preflight", user |-> u, amount |-> 1, status |-> 200]}

ChargeJobs == UNION {OneUserJobs(u) : u \in Users}

(* The calls that compete for a wallet's row: charges and a preflight.     *)
RowJobs == ChargeJobs \cup
    {[kind |-> "preflight", user |-> u, amount |-> 1, status |-> 200] : u \in Users}

AllJobs == ChargeJobs \cup UNION {OtherJobs(u) : u \in Users}

CallSymmetry == Permutations(Calls)
==============================================================================
