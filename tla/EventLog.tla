---------------------------- MODULE EventLog ----------------------------
(* The append-only session log of ma-harness-core (log.rs): one SQLite     *)
(* table shared by every session, whose AUTOINCREMENT key is the global    *)
(* sequence number.  No row is ever deleted and a failed insert consumes   *)
(* no number, so the log is a sequence and an event's seq is its index.    *)
EXTENDS Naturals, Sequences

CONSTANT Session   \* session ids

VARIABLE events    \* Seq of [session, type, from, blank]

EventType == {"RunStart", "ModelRequest", "ModelResponse", "ModelError",
              "RunEnd", "UserInput"}

\* EventType::model_visible.
ModelVisible == EventType \ {"ModelError"}

\* An event: the run or webhook post it comes "from", and whether its
\* payload is the empty string.
Event(s, type, from, blank) ==
    [session |-> s, type |-> type, from |-> from, blank |-> blank]

\* SessionEvent::validate: what the model will read must have a payload.
\* (The other two rules hold of every event the callers here build.)
Valid(e) == e.type \in ModelVisible => ~e.blank

\* EventLog::append, when it returns: validated and inserted under the mutex.
Persist(e) == Valid(e) /\ events' = Append(events, e)

\* Rows come ordered by seq: the numbers of T that are in 1..n, ascending.
UpTo(T) ==
    LET upto[n \in Nat] == IF n = 0 THEN << >>
                           ELSE IF n \in T THEN Append(upto[n - 1], n) ELSE upto[n - 1]
    IN  upto

Seqs == 1..Len(events)
Ascending(T) == UpTo(T)[Len(events)]

\* EventLog::query with seq_from: ascending seqs of one session.
Query(s, from) == Ascending({i \in Seqs : i >= from /\ events[i].session = s})

\* Every event a run or a post has put in the log, in order.
TypesFrom(x) ==
    LET mine == Ascending({i \in Seqs : events[i].from = x})
    IN  [k \in DOMAIN mine |-> events[mine[k]].type]

LogInit == events = << >>
=========================================================================
