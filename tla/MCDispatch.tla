----------------------------- MODULE MCDispatch ------------------------------
(* A small instance of Dispatch for TLC.                                    *)
EXTENDS Dispatch

CONSTANT n1

(* Every process runs with the token of n1, so they compete for its jobs.  *)
OneNode == [d \in Daemons |-> n1]
==============================================================================
