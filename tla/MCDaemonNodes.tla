---------------------------- MODULE MCDaemonNodes ----------------------------
(* A small instance of DaemonNodes for TLC.                                *)
EXTENDS DaemonNodes, TLC

CONSTANT m1

Body(kind, models, healthy, skew) ==
    [kind |-> kind, skew |-> skew,
     report |-> [models |-> models, max |-> 1, healthy |-> healthy]]

(* A heartbeat in time, one of a node that is not well and whose clock is  *)
(* behind, and a ping and a call for jobs from a clock that is ahead.      *)
FourBodies ==
    {Body("report", {m1}, TRUE, 0), Body("report", {m1}, FALSE, -1),
     Body("seen", {}, FALSE, 1), Body("jobs", {}, FALSE, 1)}

NodeSymmetry == Permutations(Handlers) \cup Permutations(Calls)
=============================================================================
