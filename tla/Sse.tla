---------------------------------- MODULE Sse ----------------------------------
(***************************************************************************)
(* The incremental parser of server-sent events                            *)
(* (src/src/backends/http.rs, SseParser).  It is given the bytes of a      *)
(* response in chunks of any size, then its end, and hands out the partial *)
(* text and the final one.                                                 *)
(*                                                                         *)
(* A line is the data it carries, without its field name.  What the JSON   *)
(* of an event says is told by its bytes: with Done it is the final text,  *)
(* with Fault it is an error or no JSON, else it is a delta.  Lead and     *)
(* Trail are the two bytes of a character of two bytes.                    *)
(***************************************************************************)
EXTENDS Integers, SequencesExt, FiniteSetsExt

CONSTANTS
    CR, LF, Lead, Trail, Done, Fault,
    Byte,               \* what the server sends
    MaxBytes, MaxChunk  \* bounds: bytes of a response, and of a chunk

ASSUME SseAssumption ==
    /\ {CR, LF} \subseteq Byte /\ {MaxBytes, MaxChunk} \subseteq Nat
    /\ CR # LF /\ {CR, LF} \cap {Lead, Trail} = {}

VARIABLES
    body,       \* the bytes read
    parser,     \* the parser
    parsed      \* what was made of them in the end, and the text

sseVars == <<body, parser, parsed>>

LineBreaks == {CR, LF}

\* str::from_utf8: a good text, and one that may still become a good text.
UnfinishedUtf8(bytes) ==
    \A k \in DOMAIN bytes :
        /\ bytes[k] = Trail => k > 1 /\ bytes[k - 1] = Lead
        /\ bytes[k] = Lead /\ k < Len(bytes) => bytes[k + 1] = Trail
Utf8(bytes) == UnfinishedUtf8(bytes) /\ (bytes # <<>> => Last(bytes) # Lead)

\* The data lines of an event, joined by single line feeds.
Data(bytes) ==
    LET data == {k \in DOMAIN bytes : bytes[k] \notin LineBreaks}
        opensLine(k) == k - 1 \notin data /\ \E j \in data : j < k
        piece(k) == IF opensLine(k) THEN <<LF, bytes[k]>> ELSE <<bytes[k]>>
    IN  FlattenSeq([k \in DOMAIN bytes |-> IF k \in data THEN piece(k) ELSE <<>>])

\* SseParser::event, on the partial text: what came of it, the text after it.
SseEvent(partial, bytes) ==
    LET data == Data(bytes)
        has(b) == \E k \in DOMAIN data : data[k] = b
        came(of, text) == [result |-> of, partial |-> text]
    IN  CASE ~Utf8(bytes) \/ has(Fault) -> came("error", partial)
          [] Utf8(bytes) /\ ~has(Fault) /\ data = <<>> -> came("none", partial)
          [] Utf8(bytes) /\ ~has(Fault) /\ has(Done) -> came("final", data)
          [] OTHER -> came("delta", partial \o data)

\* scan, lineStart and the start of the event count bytes of pending; result and
\* changed are what the last call returned.
NewParser ==
    [pending |-> <<>>, scan |-> 0, lineStart |-> 0, partial |-> <<>>,
     result |-> "none", changed |-> FALSE]

AfterEvent(from, event) ==
    [from EXCEPT !.partial = event.partial, !.result = event.result,
                   !.changed = @ \/ event.partial # from.partial]

\* One turn of push's loop, for the byte in front of position k: the state is the
\* parser with the start of its event and whether the loop is over.
\* Mutant: a CR at the end of a chunk is a line break of its own.
WaitsNever(bytes, k) == FALSE
WaitsForLf(bytes, k) == bytes[k] = CR /\ k = Len(bytes)
Turn(bytes, st, k) ==
    LET next == IF bytes[k] = CR /\ k < Len(bytes) /\ bytes[k + 1] = LF THEN k + 1 ELSE k
        event == SseEvent(st.parser.partial, SubSeq(bytes, st.start + 1, st.parser.lineStart))
        ended == [st EXCEPT !.parser.scan = next, !.parser.lineStart = next]
    IN  IF st.over \/ k <= st.parser.scan THEN st
        ELSE IF bytes[k] \notin LineBreaks THEN [st EXCEPT !.parser.scan = k]
        ELSE IF WaitsForLf(bytes, k) THEN [st EXCEPT !.over = TRUE]
        ELSE IF k - 1 # st.parser.lineStart THEN ended
        ELSE [ended EXCEPT !.start = next,
                           !.parser = AfterEvent(@, event),
                           !.over = event.result \in {"final", "error"}]

\* push: what is left of the last event stays pending.
Push(from, chunk) ==
    LET bytes == from.pending \o chunk
        fresh == [from EXCEPT !.result = "none", !.changed = FALSE]
        end == FoldLeft(LAMBDA st, k : Turn(bytes, st, k),
                        [parser |-> fresh, start |-> 0, over |-> FALSE],
                        [k \in 1..Len(bytes) |-> k])
        left == SubSeq(bytes, end.start + 1, Len(bytes))
        kept == [end.parser EXCEPT !.pending = left, !.scan = @ - end.start,
                                   !.lineStart = @ - end.start]
    IN  IF end.parser.result \in {"final", "error"}
        THEN [end.parser EXCEPT !.pending = <<>>, !.scan = 0, !.lineStart = 0]
        ELSE [kept EXCEPT !.result = IF UnfinishedUtf8(left) THEN "none" ELSE "error"]

\* finish: what is pending is an event.
Finish(from) ==
    LET fresh == [from EXCEPT !.pending = <<>>, !.scan = 0, !.lineStart = 0,
                                !.result = "none", !.changed = FALSE]
    IN  IF from.pending = <<>> THEN fresh
        ELSE AfterEvent(fresh, SseEvent(from.partial, from.pending))

Unparsed == [result |-> "none", partial |-> <<>>]
SseInit == body = <<>> /\ parser = NewParser /\ parsed = Unparsed

\* The loop over the chunks ends with the final text or an error; else the end of
\* the body is the end of the events.
Parses(p, open) ==
    /\ parser' = p
    /\ parsed' = [result |-> IF p.result \in {"final", "error"} THEN p.result ELSE open,
                  partial |-> IF p.result \in {"final", "error"} \/ open # "none"
                              THEN p.partial ELSE <<>>]
ReadsChunk(chunk) ==
    /\ parsed = Unparsed /\ Len(body) + Len(chunk) <= MaxBytes
    /\ body' = body \o chunk
    /\ Parses(Push(parser, chunk), "none")
ReadsEnd ==
    /\ parsed = Unparsed
    /\ Parses(Finish(parser), "unfinished")
    /\ UNCHANGED body

SseNext == ReadsEnd \/ \E n \in 1..MaxChunk : \E chunk \in [1..n -> Byte] : ReadsChunk(chunk)
SseSpec == SseInit /\ [][SseNext]_sseVars

-----------------------------------------------------------------------------
\* The reference: all bytes at once.  Line ends become LF; a blank line ends an
\* event, and so does the end of the text; the first final or error counts.
Normalised(bytes) ==
    LET part(k) == IF bytes[k] = CR THEN <<LF>>
                   ELSE IF bytes[k] = LF /\ k > 1 /\ bytes[k - 1] = CR THEN <<>>
                   ELSE <<bytes[k]>>
    IN  FlattenSeq([k \in DOMAIN bytes |-> part(k)])
EventEnds(text) ==
    {Len(text) + 1}
    \cup {k \in DOMAIN text : text[k] = LF /\ (IF k = 1 THEN TRUE ELSE text[k - 1] = LF)}
WholeText(text) ==
    LET ends == EventEnds(text)
        event(k) == SseEvent(<<>>, SubSeq(text, 1 + Max({0} \cup {e \in ends : e < k}), k - 1))
        over == {k \in ends : event(k).result \in {"final", "error"}}
        deltas(before) ==
            FlattenSeq([k \in 1..before - 1 |-> IF k \in ends THEN event(k).partial ELSE <<>>])
    IN  IF over = {} THEN [result |-> "unfinished", partial |-> deltas(Len(text) + 2)]
        ELSE IF event(Min(over)).result = "final" THEN event(Min(over))
        ELSE [result |-> "error", partial |-> deltas(Min(over))]
WholeBody(bytes) == WholeText(Normalised(bytes))
\* However the bytes of a response are split, what the parser has made of them
\* when the response is over is what the whole response says.
SseAsWhole == parsed # Unparsed => parsed = WholeBody(body)
===============================================================================
