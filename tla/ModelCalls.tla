---------------------------- MODULE ModelCalls -----------------------------
(* Calls of a model (crates/ma-harness-model/src): the CircuitBreaker of    *)
(* retry.rs and complete_stream of the OpenAI and the Anthropic adapter     *)
(* (lib.rs).                                                                *)
EXTENDS Integers, Sequences, SequencesExt

-----------------------------------------------------------------------------
(* The breaker, shared by calls that ask it and report to it in any order;  *)
(* that it is half-open is only found out when it is asked.                 *)

CONSTANTS Threshold, Cooldown,
          MaxNow, MaxFailures    \* bounds: the clock and the failures without a success

ASSUME BreakerAssumption ==
    Threshold \in Nat /\ Cooldown \in Nat /\ MaxNow \in Nat /\ MaxFailures \in Nat

VARIABLES circuit,      \* [state, failures, last]; last is Never or a time
          now,
          said,         \* what the last allow said, "none" when something happened since
          sinceOk,      \* history: failures reported since the last success
          lastReport    \* history: the time of the newest failure

breakerVars == <<circuit, now, said, sinceOk, lastReport>>

Never == MaxNow + Cooldown + 1

BreakerInit ==
    /\ circuit = [state |-> "Closed", failures |-> 0, last |-> Never]
    /\ now = 0 /\ said = "none" /\ sinceOk = 0 /\ lastReport = Never

\* Faulty variant: the half-open state is left to the first report.
CurrentNoted == circuit.state

\* state: Open becomes HalfOpen when the last failure is old enough.
Current ==
    IF circuit.state = "Open" /\ circuit.last # Never /\ now - circuit.last >= Cooldown
    THEN "HalfOpen" ELSE circuit.state

Allow ==
    /\ circuit' = [circuit EXCEPT !.state = Current]
    /\ said' = IF Current = "Open" THEN "refused" ELSE "allowed"
    /\ UNCHANGED <<now, sinceOk, lastReport>>

RecordSuccess ==
    /\ circuit' = [circuit EXCEPT !.state = "Closed", !.failures = 0]
    /\ said' = "none" /\ sinceOk' = 0
    /\ UNCHANGED <<now, lastReport>>

RecordFailure ==
    /\ sinceOk < MaxFailures
    /\ circuit' = [state |-> IF circuit.failures + 1 >= Threshold THEN "Open" ELSE circuit.state,
                   failures |-> circuit.failures + 1, last |-> now]
    /\ said' = "none" /\ sinceOk' = sinceOk + 1 /\ lastReport' = now
    /\ UNCHANGED now

Tick ==
    /\ now < MaxNow /\ now' = now + 1 /\ said' = "none"
    /\ UNCHANGED <<circuit, sinceOk, lastReport>>

BreakerNext == Allow \/ RecordSuccess \/ RecordFailure \/ Tick

\* The state that is kept says nothing the reports do not: a call is refused
\* exactly while Threshold failures or more came in without a success between
\* them and the newest is younger than the cooldown, in whatever order calls
\* that overlap report, and whoever asked before (retry.rs:226-261).
BreakerIsItsReports ==
    said # "none" =>
        (said = "refused" <=> sinceOk >= Threshold /\ sinceOk > 0 /\ now - lastReport < Cooldown)
-----------------------------------------------------------------------------
(* A streamed answer: its body arrives in pieces cut anywhere, each is      *)
(* decoded on its own and collected in a buffer, and the buffer is cut into *)
(* events at empty lines.                                                   *)

CONSTANTS Provider,     \* a subset of {"openai", "anthropic"}
          EventKind,    \* of {"delta", "other", "stop"}
          MaxEvents

VARIABLES provider,
          events,       \* the kinds of the events of the body; never changes
          ended,        \* whether the last one has its empty line; never changes
          wire,         \* bytes that have not arrived: [event, unit]
          buffer,       \* decoded and not yet consumed
          yielded,      \* the tokens given to the caller
          stream,       \* "open", "done" or "error"
          split         \* history: events with a character cut by a piece's end

streamVars == <<provider, events, ended, wire, buffer, yielded, stream, split>>

\* An event on the wire: one character of two bytes, the rest left out, then
\* the end of its line and an empty line.  The k-th byte of the body.
Newline == "newline"
Broken == "replacement"
Units == <<"first", "second", Newline, Newline>>
Byte(k) == [event |-> (k + 3) \div 4, unit |-> Units[((k - 1) % 4) + 1]]

\* The events that have their empty line, and the bytes that are sent.
Complete == IF ended \/ events = << >> THEN Len(events) ELSE Len(events) - 1
Sent == IF ended \/ events = << >> THEN 4 * Len(events) ELSE 4 * Len(events) - 1

StreamInit ==
    /\ provider \in Provider
    /\ events \in UNION {[1..n -> EventKind] : n \in 0..MaxEvents}
    /\ ended \in BOOLEAN
    /\ wire = [k \in 1..Sent |-> Byte(k)]
    /\ buffer = << >> /\ yielded = << >> /\ stream = "open" /\ split = {}

\* from_utf8_lossy of one piece: half a character is a replacement character.
CutAtEnd(piece) == piece # << >> /\ Last(piece).unit = "first"
CutAtStart(piece) == piece # << >> /\ Head(piece).unit = "second"
Decoded(piece) ==
    [i \in DOMAIN piece |->
        IF (i = 1 /\ CutAtStart(piece)) \/ (i = Len(piece) /\ CutAtEnd(piece))
        THEN [piece[i] EXCEPT !.unit = Broken] ELSE piece[i]]

Collect(piece) == buffer \o Decoded(piece)

Receive ==
    /\ stream = "open" /\ wire # << >> /\ \A i \in 1..(Len(buffer) - 1) :
          ~ (buffer[i].unit = Newline /\ buffer[i + 1].unit = Newline)
    /\ \E n \in 1..Len(wire) :
          LET piece == SubSeq(wire, 1, n)
          IN  /\ wire' = SubSeq(wire, n + 1, Len(wire))
              /\ buffer' = Collect(piece)
              /\ split' = split \cup (IF CutAtEnd(piece) THEN {Last(piece).event} ELSE {})
    /\ UNCHANGED <<provider, events, ended, yielded, stream>>

\* The end of the first event in the buffer, 0 for none.
EventEnd ==
    LET ends == {i \in 2..Len(buffer) : buffer[i].unit = Newline /\ buffer[i - 1].unit = Newline}
    IN  IF ends = {} THEN 0 ELSE CHOOSE i \in ends : \A j \in ends : i <= j

Token(event) ==
    [event |-> Head(event).event,
     intact |-> [i \in 1..2 |-> event[i].unit] = <<"first", "second">>]

\* parse_sse_data_line and parse_sse_event: other events give nothing.  Only
\* Anthropic's message_stop ends the stream; OpenAI's [DONE] is one that
\* gives nothing.
TakeEvent ==
    /\ stream = "open" /\ EventEnd # 0
    /\ LET event == SubSeq(buffer, 1, EventEnd)
           kind == events[Head(event).event]
       IN  /\ buffer' = SubSeq(buffer, EventEnd + 1, Len(buffer))
           /\ yielded' = IF kind = "delta" THEN Append(yielded, Token(event)) ELSE yielded
           /\ stream' = IF kind = "stop" /\ provider = "anthropic" THEN "done" ELSE stream
    /\ UNCHANGED <<provider, events, ended, wire, split>>

\* The body ends; an event without its empty line is never looked at.
BodyEnds ==
    /\ stream = "open" /\ wire = << >> /\ EventEnd = 0
    /\ stream' = "done"
    /\ UNCHANGED <<provider, events, ended, wire, buffer, yielded, split>>

\* The connection breaks: an end like any other to the caller.
ChunkError ==
    /\ stream = "open" /\ wire # << >> /\ EventEnd = 0
    /\ stream' = "error"
    /\ UNCHANGED <<provider, events, ended, wire, buffer, yielded, split>>

StreamNext == Receive \/ TakeEvent \/ BodyEnds \/ ChunkError

\* The events whose tokens the caller should have seen of a whole body, and
\* those whose token it has seen.
Expected == {i \in 1..Complete : /\ events[i] = "delta"
                                 /\ provider = "anthropic" =>
                                       \A j \in 1..Complete : events[j] = "stop" => i < j}
Seen == {yielded[i].event : i \in DOMAIN yielded}

\* However the network cuts the body, the caller gets the tokens of the
\* events in order, each once and, if no piece ended inside a character, as
\* sent; all of them unless the connection broke (lib.rs:403-432, 716-757).
TokensSurviveCuts ==
    /\ \A i, j \in DOMAIN yielded : i < j => yielded[i].event < yielded[j].event
    /\ Seen \subseteq Expected /\ \A e \in Expected \ Seen, f \in Seen : f < e
    /\ stream = "done" => Expected \subseteq Seen
    /\ \A i \in DOMAIN yielded : yielded[i].intact <=> yielded[i].event \notin split
===========================================================================
