-------------------------- MODULE WebhookIntake -------------------------
(* ma-harness-webhook: concurrent HTTP posts pass LocalWebhookProvider's   *)
(* checks, each under its own short lock, into an in-memory queue; one     *)
(* dispatcher task moves the queue into the event log.                     *)
EXTENDS EventLog, TLC, FiniteSets

CONSTANTS Post,          \* requests, and in-process calls of submit
          IdOf,          \* [Post -> event id]: fresh per request over HTTP,
                         \* shared when an embedder submits an event again
          RouteOf,       \* [Post -> path]
          Blank,         \* posts whose body is empty
          Routes,        \* paths with a RouteConfig
          MaxPerWindow, Window,  \* RateLimiter
          MaxNow         \* bound on the clock

ASSUME IntakeAssumption ==
    /\ IsFiniteSet(Post) /\ IdOf \in [Post -> Session]
    /\ MaxPerWindow \in Nat /\ Window \in Nat /\ MaxNow \in Nat

VARIABLES post,          \* [Post -> where the request stands]
          limiter,       \* tracked key -> [start, count]
          admittedAt,    \* [Post -> time the limiter let it pass, or NotYet]
          seen,          \* event ids ever accepted
          accepted,      \* history: posts in the order they were queued
          queue,
          held,          \* the event the dispatcher took and has not logged
          dispatching,   \* is the dispatcher task alive?
          now

intakeVars == <<post, limiter, admittedAt, seen, accepted, queue, held,
                dispatching, now>>

NotYet == MaxNow + 1

Answered == {"200", "202", "401", "404", "429"}
PostStage == {"idle", "verifying", "verified", "admitted", "fresh"} \cup Answered

IntakeInit ==
    /\ post = [w \in Post |-> "idle"]
    /\ limiter = << >>
    /\ admittedAt = [w \in Post |-> NotYet]
    /\ seen = {} /\ accepted = << >> /\ queue = << >> /\ held = << >>
    /\ dispatching = TRUE
    /\ now = 0

Move(w, from, to) == post[w] = from /\ post' = [post EXCEPT ![w] = to]

\* submit 1: the route must be configured.
Arrive(w) ==
    /\ Move(w, "idle", IF RouteOf[w] \in Routes THEN "verifying" ELSE "404")
    /\ UNCHANGED <<limiter, admittedAt, seen, accepted, queue, held,
                   dispatching, now, events>>

\* submit 2: the signature is missing or wrong, or it verifies (an await).
Verify(w) ==
    /\ \E verdict \in {"401", "verified"} : Move(w, "verifying", verdict)
    /\ UNCHANGED <<limiter, admittedAt, seen, accepted, queue, held,
                   dispatching, now, events>>

\* Faulty variant: the calls of an open window are not counted.
WindowEntryUncounted(key) ==
    IF key \notin DOMAIN limiter \/ now - limiter[key].start >= Window
    THEN [start |-> now, count |-> 1]
    ELSE limiter[key]

\* The key's window after one more call: opened, restarted or counted in.
WindowEntry(key) ==
    IF key \notin DOMAIN limiter \/ now - limiter[key].start >= Window
    THEN [start |-> now, count |-> 1]
    ELSE [limiter[key] EXCEPT !.count = @ + 1]

\* submit 3: RateLimiter::check counts the call, refused or not.
CheckRate(w) ==
    LET entry == WindowEntry(RouteOf[w])
        ok    == entry.count <= MaxPerWindow
    IN  /\ Move(w, "verified", IF ok THEN "admitted" ELSE "429")
        /\ limiter' = [key \in DOMAIN limiter \cup {RouteOf[w]} |->
                          IF key = RouteOf[w] THEN entry ELSE limiter[key]]
        /\ admittedAt' = IF ok THEN [admittedAt EXCEPT ![w] = now] ELSE admittedAt
        /\ UNCHANGED <<seen, accepted, queue, held, dispatching, now, events>>

\* Faulty variant: looks the id up but records it only once queued.
DedupReadsOnly(w) ==
    /\ Move(w, "admitted", IF IdOf[w] \in seen THEN "202" ELSE "fresh")
    /\ UNCHANGED <<limiter, admittedAt, seen, accepted, queue, held,
                   dispatching, now, events>>

\* submit 4: an id is taken once, test and insert under one lock.
Dedup(w) ==
    /\ Move(w, "admitted", IF IdOf[w] \in seen THEN "202" ELSE "fresh")
    /\ seen' = seen \cup {IdOf[w]}
    /\ UNCHANGED <<limiter, admittedAt, accepted, queue, held, dispatching,
                   now, events>>

\* submit 5: queued under a second lock, and answered.
Enqueue(w) ==
    /\ Move(w, "fresh", "200")
    /\ queue' = Append(queue, w)
    /\ accepted' = Append(accepted, w)
    /\ UNCHANGED <<limiter, admittedAt, seen, held, dispatching, now, events>>

\* run_webhook_dispatcher: take the head of the queue.
TakeEvent ==
    /\ dispatching /\ held = << >> /\ queue # << >>
    /\ held' = <<Head(queue)>>
    /\ queue' = Tail(queue)
    /\ UNCHANGED <<post, limiter, admittedAt, seen, accepted, dispatching,
                   now, events>>

\* webhook_to_session_event: the event id is the session, the body the payload.
AsSessionEvent(w) == Event(IdOf[w], "UserInput", w, w \in Blank)

\* Faulty variant: the held event is not cleared once it is in the log.
LogEventAgain ==
    /\ dispatching /\ held # << >> /\ Len(events) <= Cardinality(Post)
    /\ Persist(AsSessionEvent(Head(held)))
    /\ UNCHANGED intakeVars

\* Faulty variant: loops only while more is queued behind the event in hand.
LogEventStalls ==
    /\ dispatching /\ held # << >> /\ queue # << >>
    /\ Persist(AsSessionEvent(Head(held)))
    /\ held' = << >>
    /\ UNCHANGED <<post, limiter, admittedAt, seen, accepted, queue,
                   dispatching, now>>

\* ... append it to the log, and loop.
LogEvent ==
    /\ dispatching /\ held # << >>
    /\ Persist(AsSessionEvent(Head(held)))
    /\ held' = << >>
    /\ UNCHANGED <<post, limiter, admittedAt, seen, accepted, queue,
                   dispatching, now>>

\* ... append panics, and the task's loop unwinds with it: the event is
\* invalid, its payload being blank, or the insert fails.
DispatcherDies(cause) ==
    /\ dispatching /\ held # << >>
    /\ cause = IF Valid(AsSessionEvent(Head(held))) THEN "insert" ELSE "invalid"
    /\ dispatching' = FALSE
    /\ UNCHANGED <<post, limiter, admittedAt, seen, accepted, queue, held,
                   now, events>>

\* Only the limiter reads the clock: time 0 is the first call it counts.
Tick ==
    /\ limiter # << >> /\ now < MaxNow
    /\ now' = now + 1
    /\ UNCHANGED <<post, limiter, admittedAt, seen, accepted, queue, held,
                   dispatching, events>>

PostStep(w) == Arrive(w) \/ Verify(w) \/ CheckRate(w) \/ Dedup(w) \/ Enqueue(w)
DispatcherStep == TakeEvent \/ LogEvent \/ DispatcherDies("invalid")
=========================================================================
