------------------------------ MODULE SseStream ------------------------------
(* stream_sse_chunks of mizan-providers: the server-sent events of an      *)
(* upstream's answer are cut out of a byte stream that arrives in pieces   *)
(* of any size, may break off with a read error, and may end in the middle *)
(* of a line or of an event.  One action per branch of the loop that the   *)
(* stream runs each time its consumer polls it.                            *)
(*                                                                         *)
(* A byte stands for a short string: "data" for `data:`, "nl", "cr", a     *)
(* space, a colon, "bad" for bytes that are not UTF-8, and the pieces of   *)
(* the payloads.                                                           *)
EXTENDS Integers, Sequences, SequencesExt

CONSTANTS
    Bytes,     \* what bodies are made of
    Deltas,    \* what a choice may say, "" for nothing
    Texts,     \* whole bodies the upstream may answer with
    Documents  \* the payloads serde_json accepts: [json, choices, usage]

Document == [json : Seq(Bytes), choices : Seq(Deltas), usage : BOOLEAN]

ASSUME SseAssumption ==
    /\ {" ", "cr", "nl", "data"} \subseteq Bytes
    /\ "" \in Deltas
    /\ \A t \in Texts : t \in Seq(Bytes)
    /\ \A d \in Documents : d \in Document /\ d.json # <<>> /\ d.json # <<"done">>
    /\ \A d, e \in Documents : d.json = e.json => d = e

VARIABLES
    text,       \* the body of this answer
    read,       \* how many of its bytes have been read
    lineBuffer, \* state.line_buffer
    eventData,  \* state.event_data
    pending,    \* state.pending
    emittedAny, \* state.emitted_any
    finished,   \* state.finished
    failed,     \* history: reading broke off
    out         \* history: what the consumer was given

state == <<lineBuffer, eventData, pending, emittedAny, finished>>
vars  == <<text, read, failed, out, state>>

Chunk == [error : BOOLEAN, delta : Deltas, usage : BOOLEAN]
Error == [error |-> TRUE, delta |-> "", usage |-> FALSE]

Init ==
    /\ text \in Texts
    /\ read = 0
    /\ lineBuffer = <<>> /\ eventData = <<>> /\ pending = <<>>
    /\ emittedAny = FALSE /\ finished = FALSE /\ failed = FALSE
    /\ out = <<>>

-----------------------------------------------------------------------------
(* s without the members of drop, in order.                                *)
Without(s, drop) ==
    LET kept[i \in 0 .. Len(s)] ==
            IF i = 0 THEN <<>>
            ELSE IF s[i] \in drop THEN kept[i - 1]
            ELSE Append(kept[i - 1], s[i]) IN
    kept[Len(s)]

Whites       == {" ", "cr", "nl"}
White(b)     == b \in Whites
Blank(s)     == \A i \in DOMAIN s : White(s[i])
Squeezed(s)  == Without(s, Whites)
StartAt(s)   == CHOOSE i \in 1 .. Len(s) + 1 :
                    /\ \A j \in 1 .. i - 1 : White(s[j])
                    /\ i <= Len(s) => ~White(s[i])
TrimStart(s) == SubSeq(s, StartAt(s), Len(s))

(* What a step of the parser leaves: the event so far, the chunks it adds, *)
(* and whether it succeeded.                                               *)
Parsed(event, chunks) == [ok |-> TRUE, event |-> event, chunks |-> chunks]
Refused               == [ok |-> FALSE, event |-> <<>>, chunks |-> <<>>]

(* The chunks of one payload: one for each choice that says something, or  *)
(* one that carries the usage alone.                                       *)
ChunksOf(doc) ==
    LET said == Without(doc.choices, {""}) IN
    IF said = <<>> /\ doc.usage
    THEN <<[error |-> FALSE, delta |-> "", usage |-> TRUE]>>
    ELSE [i \in DOMAIN said |->
             [error |-> FALSE, delta |-> said[i], usage |-> doc.usage]]

ParseStreamEvent(event) ==
    LET json == Squeezed(event) IN
    IF json = <<"done">> THEN Parsed(<<>>, <<>>)
    ELSE IF \E d \in Documents : d.json = json
    THEN Parsed(<<>>, ChunksOf(CHOOSE d \in Documents : d.json = json))
    ELSE Refused

(* flush_pending_sse_event.                                                *)
Flush(event) ==
    IF Blank(event) THEN Parsed(<<>>, <<>>) ELSE ParseStreamEvent(event)

(* A `data:` line adds its value to the event, on a line of its own.       *)
AddField(event, line) ==
    LET trimmed == TrimStart(line) IN
    IF trimmed # <<>> /\ Head(trimmed) = "data"
    THEN event \o (IF event = <<>> THEN <<>> ELSE <<"nl">>) \o TrimStart(Tail(trimmed))
    ELSE event

(* process_sse_line.  AddField leaves comments and other fields out.       *)
ProcessSseLine(event, line) ==
    IF \E i \in DOMAIN line : line[i] = "bad" THEN Refused
    ELSE IF line = <<>> THEN Flush(event)
    ELSE Parsed(AddField(event, line), <<>>)

-----------------------------------------------------------------------------
Newlines == {i \in DOMAIN lineBuffer : lineBuffer[i] = "nl"}

(* The consumer polls and the loop is about to look for a line.            *)
Looking == ~finished /\ pending = <<>>

(* The loop waits for bytes.                                               *)
Reading == Looking /\ Newlines = {}

GiveError ==
    /\ finished' = TRUE
    /\ out' = Append(out, Error)

(* A chunk that is ready is handed out first.                              *)
PopPending ==
    /\ ~finished /\ pending # <<>>
    /\ out' = Append(out, Head(pending))
    /\ pending' = Tail(pending)
    /\ emittedAny' = TRUE
    /\ UNCHANGED <<text, read, lineBuffer, eventData, finished, failed>>

StripCr(line) ==
    IF line # <<>> /\ Last(line) = "cr" THEN Front(line) ELSE line

(* Mutant: the rest of the buffer is dropped with the line.                *)
TakeLineAlone ==
    LET at     == CHOOSE i \in Newlines : \A j \in Newlines : i <= j
        parsed == ProcessSseLine(eventData, StripCr(SubSeq(lineBuffer, 1, at - 1))) IN
    /\ Looking /\ Newlines # {}
    /\ lineBuffer' = <<>>
    /\ eventData' = parsed.event
    /\ pending' = parsed.chunks
    /\ IF parsed.ok THEN UNCHANGED <<finished, out>> ELSE GiveError
    /\ UNCHANGED <<text, read, emittedAny, failed>>

(* A complete line of the buffer is processed.                             *)
TakeLine ==
    LET at     == CHOOSE i \in Newlines : \A j \in Newlines : i <= j
        parsed == ProcessSseLine(eventData, StripCr(SubSeq(lineBuffer, 1, at - 1))) IN
    /\ Looking /\ Newlines # {}
    /\ lineBuffer' = SubSeq(lineBuffer, at + 1, Len(lineBuffer))
    /\ eventData' = parsed.event
    /\ pending' = parsed.chunks
    /\ IF parsed.ok THEN UNCHANGED <<finished, out>> ELSE GiveError
    /\ UNCHANGED <<text, read, emittedAny, failed>>

ReadBytes ==
    /\ Reading
    /\ \E n \in 1 .. Len(text) - read :
        /\ lineBuffer' = lineBuffer \o SubSeq(text, read + 1, read + n)
        /\ read' = read + n
    /\ UNCHANGED <<text, eventData, pending, emittedAny, finished, failed, out>>

ReadFails ==
    /\ Reading
    /\ failed' = TRUE
    /\ GiveError
    /\ UNCHANGED <<text, read, lineBuffer, eventData, pending, emittedAny>>

(* Mutant: an event that no empty line ends is lost.                       *)
CloseLineOnly(event, line) ==
    IF line = <<>> THEN Parsed(event, <<>>) ELSE ProcessSseLine(event, line)

(* What the end of the stream makes of the line and event it cuts short.   *)
Close(event, line) ==
    LET parsed == IF line = <<>> THEN Parsed(event, <<>>) ELSE ProcessSseLine(event, line) IN
    IF parsed.ok THEN Flush(parsed.event) ELSE parsed

(* The stream has ended.  The first chunk of what was left is handed out   *)
(* at once; the branch is taken again once nothing is left.                *)
ReadEnd ==
    LET parsed == Close(eventData, lineBuffer) IN
    /\ Reading /\ read = Len(text)
    /\ lineBuffer' = <<>>
    /\ eventData' = parsed.event
    /\ IF ~parsed.ok
       THEN GiveError /\ UNCHANGED <<pending, emittedAny>>
       ELSE IF parsed.chunks # <<>>
       THEN /\ out' = Append(out, Head(parsed.chunks))
            /\ pending' = Tail(parsed.chunks)
            /\ emittedAny' = TRUE
            /\ UNCHANGED finished
       ELSE /\ UNCHANGED <<pending, emittedAny>>
            /\ finished' = TRUE
            /\ out' = IF emittedAny THEN out ELSE Append(out, Error)
    /\ UNCHANGED <<text, read, failed>>

Next == PopPending \/ TakeLine \/ ReadBytes \/ ReadFails \/ ReadEnd

Spec == Init /\ [][Next]_vars

-----------------------------------------------------------------------------
(* The reference: parse_stream_events, which the crate's tests use on a    *)
(* whole text.  It trims both ends of every line.                          *)

(* The line of s that the byte at j ends, or that the end of s cuts short. *)
LineAt(s, j) ==
    LET before == {i \in 1 .. j - 1 : s[i] = "nl"} IN
    SubSeq(s, (IF before = {} THEN 0 ELSE Max(before)) + 1, j - 1)

AddLine(acc, line) ==
    LET flushed == ParseStreamEvent(acc.event) IN
    IF ~acc.ok THEN acc
    ELSE IF \E i \in DOMAIN line : line[i] = "bad" THEN [acc EXCEPT !.ok = FALSE]
    ELSE IF ~Blank(line) THEN [acc EXCEPT !.event = AddField(@, line)]
    ELSE IF Blank(acc.event) THEN acc
    ELSE [ok |-> flushed.ok, event |-> <<>>, chunks |-> acc.chunks \o flushed.chunks]

(* For each j, the chunks of the lines that the first j bytes of s         *)
(* complete, with the event they leave open.                               *)
Complete(s) ==
    LET upto[j \in 0 .. Len(s)] ==
            IF j = 0 THEN Parsed(<<>>, <<>>)
            ELSE IF s[j] = "nl" THEN AddLine(upto[j - 1], LineAt(s, j))
            ELSE upto[j - 1] IN
    upto

(* The chunks of s as a whole.                                             *)
ParseStreamEvents(s) ==
    LET body == AddLine(AddLine(Complete(s)[Len(s)], LineAt(s, Len(s) + 1)), <<>>) IN
    IF body.ok /\ body.chunks = <<>> THEN [body EXCEPT !.ok = FALSE] ELSE body

-----------------------------------------------------------------------------
(* Properties.                                                             *)

(* Shape of the state.                                                     *)
TypeOK ==
    /\ text \in Texts /\ read \in 0 .. Len(text)
    /\ lineBuffer \in Seq(Bytes) /\ eventData \in Seq(Bytes)
    /\ pending \in Seq(Chunk) /\ out \in Seq(Chunk)
    /\ \A i \in DOMAIN pending : ~pending[i].error
    /\ emittedAny \in BOOLEAN /\ finished \in BOOLEAN /\ failed \in BOOLEAN

(* Texts in which a line that looks empty is empty: on the others the two  *)
(* parsers of the crate disagree, the stream keeping the event open.       *)
Clean(s) ==
    \A j \in DOMAIN s : s[j] = "nl" =>
        LET line == StripCr(LineAt(s, j)) IN Blank(line) => line = <<>>

Whole(parsed) == parsed.chunks \o (IF parsed.ok THEN <<>> ELSE <<Error>>)

(* However the body was cut into pieces, a stream that ended gave the      *)
(* chunks, in order, of the body parsed as a whole, and an error last if   *)
(* it was malformed or empty.  One that broke off gave a beginning of them *)
(* and then the error.                                                     *)
EmittedIsParsed ==
    LET all == Whole(ParseStreamEvents(text)) IN
    Clean(text) =>
        /\ ~finished => IsPrefix(out, all)
        /\ finished /\ ~failed => out = all
        /\ finished /\ failed => Last(out) = Error /\ IsPrefix(Front(out), all)

(* A stream never waits for bytes while it owes a chunk: every event that  *)
(* the bytes read so far complete has been handed out, and the field lines *)
(* of the open event are all kept.                                         *)
EmittedAtOnce ==
    LET seen == Complete(text)[read] IN
    Clean(text) /\ Reading /\ read < Len(text) =>
        seen.ok /\ out = seen.chunks /\ Squeezed(eventData) = Squeezed(seen.event)
=============================================================================
