---------------------------- MODULE EventTail ---------------------------
(* GET /v1/sessions/{id}/events/stream (ma-harness-server, http.rs): the   *)
(* server polls the log from a cursor and pushes each new event as an SSE  *)
(* frame.  The connection may break at any time and lose what is in        *)
(* flight; the client reconnects.                                          *)
EXTENDS EventLog

CONSTANTS Watched,    \* the session being followed
          Listens,    \* SSE frame names the client has a handler for
          Resumes,    \* does the client reconnect with since_seq?
          MaxDrops    \* bound on the connections that break

VARIABLES tail,       \* is a stream open?
          cursor,     \* current_seq in the server's stream
          page,       \* result of the last query not yet yielded
          wire,       \* frames sent and not yet received
          received,   \* seqs the client's handler was called with, in order
          drops

tailVars == <<tail, cursor, page, wire, received, drops>>

TailInit ==
    /\ tail = FALSE /\ cursor = 0 /\ drops = 0
    /\ page = << >> /\ wire = << >> /\ received = << >>

\* What the client passes as since_seq (absent is 0).
SinceSeq == IF Resumes /\ received # << >> THEN received[Len(received)] ELSE 0

OpenStream ==
    /\ ~tail
    /\ tail' = TRUE
    /\ cursor' = SinceSeq
    /\ UNCHANGED <<page, wire, received, drops, events>>

\* Faulty variant: the query starts at the cursor itself.
PollInclusive ==
    /\ tail /\ page = << >>
    /\ page' = Query(Watched, cursor)
    /\ UNCHANGED <<tail, cursor, wire, received, drops, events>>

\* One turn of the poll loop; a failed query is an empty one.
Poll ==
    /\ tail /\ page = << >>
    /\ page' = Query(Watched, cursor + 1)
    /\ UNCHANGED <<tail, cursor, wire, received, drops, events>>

\* Faulty variant: the cursor jumps to the end of the log, past events the
\* page was queried too early to hold.
YieldJumps ==
    /\ tail /\ page # << >>
    /\ cursor' = Len(events)
    /\ wire' = Append(wire, Head(page))
    /\ page' = Tail(page)
    /\ UNCHANGED <<tail, received, drops, events>>

\* Yield the next event of the page, named "event".
Yield ==
    /\ tail /\ page # << >>
    /\ cursor' = IF Head(page) > cursor THEN Head(page) ELSE cursor
    /\ wire' = Append(wire, Head(page))
    /\ page' = Tail(page)
    /\ UNCHANGED <<tail, received, drops, events>>

\* The client takes a frame; without a handler for its name it is ignored.
Receive ==
    /\ tail /\ wire # << >>
    /\ received' = IF "event" \in Listens THEN Append(received, Head(wire))
                                          ELSE received
    /\ wire' = Tail(wire)
    /\ UNCHANGED <<tail, cursor, page, drops, events>>

\* The connection breaks: the stream is dropped with its page and frames.
BreakStream ==
    /\ tail /\ drops < MaxDrops
    /\ tail' = FALSE
    /\ drops' = drops + 1
    /\ cursor' = 0 /\ page' = << >> /\ wire' = << >>
    /\ UNCHANGED <<received, events>>

=========================================================================
