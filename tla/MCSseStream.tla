----------------------------- MODULE MCSseStream -----------------------------
(* Small instances of SseStream for TLC.                                   *)
EXTENDS SseStream

(* A payload with one choice, one with two, one with a usage alone, one    *)
(* with nothing to say, and one in two halves.                             *)
SomeDocuments ==
    { [json |-> <<"one">>,           choices |-> <<"a">>,      usage |-> FALSE],
      [json |-> <<"two">>,           choices |-> <<"b", "c">>, usage |-> TRUE],
      [json |-> <<"usage">>,         choices |-> <<"">>,       usage |-> TRUE],
      [json |-> <<"idle">>,          choices |-> <<"">>,       usage |-> FALSE],
      [json |-> <<"open", "close">>, choices |-> <<"d">>,      usage |-> FALSE] }

SomeBytes ==
    {" ", "cr", "nl", ":", "data", "bad", "done", "one", "two", "usage", "idle", "open", "close"}
SomeDeltas == {"", "a", "b", "c", "d"}

SomeLines ==
    { <<>>, <<"cr">>, <<" ">>, <<":", "one">>, <<"data", "bad">>, <<"data", "done">>,
      <<"data", " ", "two", "cr">>, <<"data", "usage">>, <<"data", "idle">>,
      <<"data", "open">>, <<" ", "data", "close">> }

(* Up to four lines, the last one perhaps without its newline.             *)
SomeTexts ==
    LET Line == {<<>>} \cup {Append(l, "nl") : l \in SomeLines} IN
    {k \o l \o m \o rest : k, l, m \in Line, rest \in {<<>>, <<"data", "one">>, <<"cr">>}}
=============================================================================
