-------------------------- MODULE SessionEvents -------------------------
(* Agent runs and webhook posts write one event log; a client tails a      *)
(* session of it.  The composition, and what must hold across it.          *)
EXTENDS AgentRuns, EventTail, WebhookIntake, SequencesExt

CONSTANT MaxActive   \* bound on the actors of one behaviour: runs, posts
                     \* and the client that tails the log

ASSUME ActorsAssumption == Run \cap Post = {}

vars == <<events, run, tailVars, intakeVars>>

Watching == tail \/ drops > 0

Active == {r \in Run : run[r] # "idle"} \cup {w \in Post : post[w] # "idle"}
              \cup (IF Watching THEN {Watched} ELSE {})

Init == LogInit /\ RunsInit /\ TailInit /\ IntakeInit

MayStart(x) == x \in Active \/ Cardinality(Active) < MaxActive

RunsAct ==
    /\ \E r \in Run : MayStart(r) /\ RunStep(r)
    /\ UNCHANGED <<tailVars, intakeVars>>

Serving ==
    /\ MayStart(Watched)
    /\ OpenStream \/ Poll \/ Yield \/ Receive
    /\ UNCHANGED <<run, intakeVars>>

Breaking == BreakStream /\ UNCHANGED <<run, intakeVars>>

IntakeAct ==
    /\ \/ \E w \in Post : MayStart(w) /\ PostStep(w)
       \/ Tick
    /\ UNCHANGED <<run, tailVars>>

Dispatch == DispatcherStep /\ UNCHANGED <<run, tailVars>>

InsertFails == DispatcherDies("insert") /\ UNCHANGED <<run, tailVars>>

Next == RunsAct \/ Serving \/ Breaking \/ IntakeAct \/ Dispatch
            \/ InsertFails

Spec == Init /\ [][Next]_vars

\* The runtime keeps polling a woken task and TCP delivers what it carries:
\* the open stream, its client, and the dispatcher while it lives (an
\* invalid event panics for certain, an insert need not fail).  No fairness
\* for runs (the model may never answer), posts, or failures.
FairSpec ==
    /\ Spec
    /\ WF_vars(Serving)
    /\ WF_vars(Dispatch)

-------------------------------------------------------------------------
SessionEventsTypeOK ==
    /\ \A i \in 1..Len(events) :
          /\ events[i].session \in Session /\ events[i].type \in EventType
          /\ events[i].from \in Run \cup Post
    /\ run \in [Run -> RunStage]
    /\ tail \in BOOLEAN /\ cursor \in Nat /\ drops \in 0..MaxDrops
    /\ post \in [Post -> PostStage]
    /\ admittedAt \in [Post -> 0..NotYet]
    /\ DOMAIN limiter \subseteq Routes
    /\ seen \subseteq Session
    /\ dispatching \in BOOLEAN /\ Len(held) <= 1 /\ now \in 0..MaxNow

\* What a run that stands there has written.
Written(stage) ==
    CASE stage = "idle"      -> << >>
      [] stage = "started"   -> <<"RunStart">>
      [] stage \in {"awaiting", "dropped"} -> <<"RunStart", "ModelRequest">>
      [] stage = "responded" -> <<"RunStart", "ModelRequest", "ModelResponse">>
      [] stage = "done"      -> <<"RunStart", "ModelRequest", "ModelResponse", "RunEnd">>
      [] stage = "failed"    -> <<"RunStart", "ModelRequest", "ModelError">>

\* However runs and posts interleave in the log, each run's own events are
\* its lifecycle in order: a caller told "done" finds all four, one told of
\* an error finds ModelError and no RunEnd, and a run whose append panicked
\* or whose future was dropped left a proper prefix (agent.rs, run).
RunsAreWellFormed ==
    \A r \in Run :
        IF run[r] = "panicked"
        THEN TypesFrom(r) \in {Written(s) : s \in {"idle", "started", "awaiting", "responded"}}
        ELSE TypesFrom(r) = Written(run[r])

\* A client that resumes from the last seq it saw is handed the session's
\* events from the first one on, without a gap, a repeat or a swap, across
\* broken connections, stale pages and writers of other sessions
\* (http.rs, stream_session_events_handler).
TailHasNoGap == IsPrefix(received, Query(Watched, 1))

\* The posts that have reached the log, in its order.
Logged ==
    LET logged == Ascending({i \in Seqs : events[i].type = "UserInput"})
    IN  [k \in DOMAIN logged |-> events[logged[k]].from]

\* Every webhook answered 200 is in exactly one place -- the log, the
\* dispatcher's hand or the queue -- and the log keeps the order they were
\* queued in (webhook lib.rs, submit and run_webhook_dispatcher).
AcceptedStayInOrder == accepted = Logged \o held \o queue

\* Two posts that carry one event id are never both queued, though the id
\* is recorded and the event queued under different locks (submit, step 4).
OneAcceptPerId ==
    \A i, j \in 1..Len(accepted) :
        IdOf[accepted[i]] = IdOf[accepted[j]] => i = j

\* The window is fixed, not sliding: across its edge a key can pass twice
\* the limit in one window's length, and never more (RateLimiter::check).
AtMostTwiceTheLimit ==
    \A key \in Routes, t \in 0..MaxNow :
        Cardinality({w \in Post : /\ RouteOf[w] = key
                                  /\ admittedAt[w] \in t..(t + Window - 1)
                                  /\ admittedAt[w] # NotYet})
            <= 2 * MaxPerWindow

-------------------------------------------------------------------------
\* Whatever is appended to the watched session reaches the client's handler
\* sooner or later once it has connected: writers are finitely many here and
\* connections stop breaking, so it ends having caught up (the poll loop).
TailCatchesUp == Watching ~> (received = Query(Watched, 1))

\* A queued event is persisted sooner or later, while the dispatcher lives.
AcceptedArePersisted ==
    \A w \in Post :
        post[w] = "200" ~> (TypesFrom(w) = <<"UserInput">> \/ ~dispatching)

\* "sqlite locked etc. -> log the error and continue (do not exit, the next
\* event may succeed)", and "returns: never" (webhook lib.rs).
DispatcherKeepsRunning == dispatching
=========================================================================
