------------------------------ MODULE MCGateway ------------------------------
(* Small instances of Gateway for TLC.                                     *)
EXTENDS Gateway

In(e, s, m, n) == [endpoint |-> e, stream |-> s, model |-> m, max |-> n]

(* One input for each way through the handler.                             *)
AllInputs ==
    {In("chat", FALSE, "empty", 0), In("responses", TRUE, "routed", 0),
     In("chat", FALSE, "routed", 9), In("chat", FALSE, "routed", 1),
     In("chat", TRUE, "routed", 1), In("responses", FALSE, "routed", 0),
     In("chat", TRUE, "daemon", 0), In("chat", FALSE, "daemon", 1),
     In("chat", FALSE, "unknown", 0)}

Streams == {In("chat", TRUE, "routed", 1)}
==============================================================================
