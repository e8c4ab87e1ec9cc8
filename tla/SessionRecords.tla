-------------------------- MODULE SessionRecords --------------------------
(* The session records of crates/ma-harness-server: session_store.rs (a map *)
(* or a SQLite table), session_service.rs and the handlers of http.rs that  *)
(* use them.  A store call is atomic; close is two of them, a get and an    *)
(* update of the whole record.                                              *)
EXTENDS Naturals

CONSTANTS Sid,            \* ids, drawn fresh by each create
          RecCall, NoCaller,
          FinalState      \* CloseSessionRequest.final_state and Closed for 0

ASSUME RecAssumption == NoCaller \notin RecCall

VARIABLES backend,        \* "memory" or "sqlite"
          sessions,       \* [Sid -> a record or NoSession]
          born,           \* history: [Sid -> the record its create answered]
          recCall,        \* [RecCall -> [op, sid, stage, copy, reply, final]]
          removed         \* history: ids whose record was deleted

recVars == <<backend, sessions, born, recCall, removed>>

NoSession == [state |-> "absent", closedBy |-> NoCaller, metadata |-> "none"]
IdleRecCall == [op |-> "none", sid |-> "none", stage |-> "idle", copy |-> NoSession,
                reply |-> NoSession, final |-> "none"]

RecInit ==
    /\ backend \in {"memory", "sqlite"}
    /\ sessions = [s \in Sid |-> NoSession] /\ born = sessions
    /\ recCall = [c \in RecCall |-> IdleRecCall]
    /\ removed = {}

\* What becomes of a record in the store: write_session and read_session keep
\* three fields of the metadata and lose the custom ones.
Stored(r) ==
    IF backend = "sqlite" /\ r.metadata = "custom" THEN [r EXCEPT !.metadata = "plain"] ELSE r

Exists(s) == sessions[s] # NoSession
Write(s, r) == sessions' = [sessions EXCEPT ![s] = Stored(r)]
Reply(c, op, s, r) ==
    recCall' = [recCall EXCEPT ![c] = [IdleRecCall EXCEPT !.op = op, !.sid = s,
                                                          !.stage = "over", !.reply = r]]

\* create of the gRPC service, with the metadata it was given, and of HTTP,
\* with none; the answer is made of the argument, not of what was stored.
CreateSession(c, s) ==
    /\ recCall[c].stage = "idle" /\ born[s] = NoSession
    /\ \E m \in {"none", "plain", "custom"} :
          LET r == [state |-> "created", closedBy |-> NoCaller, metadata |-> m]
          IN  Write(s, r) /\ Reply(c, "create", s, r) /\ born' = [born EXCEPT ![s] = r]
    /\ UNCHANGED <<backend, removed>>

GetSession(c, s) ==
    /\ recCall[c].stage = "idle"
    /\ Reply(c, "get", s, sessions[s])
    /\ UNCHANGED <<backend, sessions, born, removed>>

\* close: the get; "not found" ends it.
ReadToClose(c, s, final) ==
    /\ recCall[c].stage = "idle"
    /\ IF Exists(s)
       THEN recCall' = [recCall EXCEPT ![c] = [IdleRecCall EXCEPT !.op = "close", !.sid = s,
                              !.stage = "closing", !.copy = sessions[s], !.final = final]]
       ELSE Reply(c, "close", s, NoSession)
    /\ UNCHANGED <<backend, sessions, born, removed>>

\* state, closed_at and updated_at; closedBy stands for the two times.
Closed(c) == [recCall[c].copy EXCEPT !.state = recCall[c].final, !.closedBy = c]

\* The update writes the whole record, whatever the store holds now.
WriteClosed(c) ==
    /\ recCall[c].stage = "closing"
    /\ Write(recCall[c].sid, Closed(c))
    /\ recCall' = [recCall EXCEPT ![c].stage = "over", ![c].reply = Closed(c)]
    /\ UNCHANGED <<backend, born, removed>>

\* SessionStore::delete; no service calls it.
DeleteSession(s) ==
    /\ Exists(s)
    /\ sessions' = [sessions EXCEPT ![s] = NoSession]
    /\ removed' = removed \cup {s}
    /\ UNCHANGED <<backend, born, recCall>>

RecNext ==
    \/ \E c \in RecCall : \/ \E s \in Sid : \/ CreateSession(c, s) \/ GetSession(c, s)
                                            \/ \E f \in FinalState : ReadToClose(c, s, f)
                          \/ WriteClosed(c)
    \/ \E s \in Sid : DeleteSession(s)

--------------------------------------------------------------------------
CloseAnswered(c, s) ==
    recCall[c].op = "close" /\ recCall[c].sid = s /\ recCall[c].reply # NoSession

\* However closes of one session overlap, its record is the created one with
\* the state and the times of one and the same close; once a close has
\* answered the session is never open again, and a deleted one is only there
\* again if a close that had read it wrote it back (session_service.rs:48-61).
RecordsAreOfOneClose ==
    \A s \in Sid :
        /\ Exists(s) =>
              LET r == sessions[s]
              IN  /\ r.metadata = Stored(born[s]).metadata
                  /\ IF r.closedBy = NoCaller
                     THEN r = Stored(born[s]) /\ \A c \in RecCall : ~ CloseAnswered(c, s)
                     ELSE CloseAnswered(r.closedBy, s) /\ r.state = recCall[r.closedBy].final
        /\ s \in removed /\ Exists(s) => sessions[s].closedBy # NoCaller
===========================================================================
