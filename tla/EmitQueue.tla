---------------------------- MODULE EmitQueue ----------------------------
(* Context::emit and emit_async of crates/ma-harness-cordis/src/context.rs: *)
(* the deferred queue and the flag of the flush loop are thread-local.  An  *)
(* emit pushes its event; the one that finds the flag clear dispatches, to  *)
(* the listeners of its own context, whatever is on the queue, newest       *)
(* first, until the queue is empty.  Listeners emit in turn, and panic; in  *)
(* the async variant they also await, may wake on another thread, and the   *)
(* future that flushes may be dropped there.                                *)
EXTENDS Integers, Sequences, SequencesExt, FiniteSets, TLC

CONSTANTS Thread, Task, Event, NoEvent, Ctx,
          CtxOf,       \* [Event -> the context it is emitted on]
          TypeOf,      \* [Event -> its type]
          Listeners,   \* listeners in the order of registration: records of
                       \* context, type, priority
          MaxBuffer    \* events one flush loop may process

ASSUME EmitAssumption ==
    /\ Len(Listeners) \in Nat /\ DOMAIN Listeners = 1..Len(Listeners)
    /\ \A i \in DOMAIN Listeners : Listeners[i].priority \in Int
    /\ CtxOf \in [Event -> Ctx] /\ NoEvent \notin Event

VARIABLES emitMode,    \* "sync" or "async": which of the two queues is looked at
          deferred,    \* [Thread -> Seq(Event)], DEFERRED_QUEUE
          flushing,    \* [Thread -> BOOLEAN], FLUSHING
          on,          \* [Task -> the thread it runs on]
          stage,       \* [Task -> where the emit stands]
          frames,      \* [Task -> its flush loops, innermost last]
          emitted,     \* history: events emitted so far
          heardBy,     \* history: [Event -> listeners that were called with it]
          cut          \* history: events whose dispatch a panic or a drop ended

emitVars == <<emitMode, deferred, flushing, on, stage, frames, emitted, heardBy, cut>>

\* Whom context c has for a type, and who of two listeners is called first:
\* by priority, equal ones in order of registration.  Async listeners have no
\* priority (all are registered with 0).
Registered(c, type) == {i \in DOMAIN Listeners : Listeners[i].ctx = c /\ Listeners[i].type = type}
Before(i, j) == \/ Listeners[i].priority < Listeners[j].priority
                \/ Listeners[i].priority = Listeners[j].priority /\ i < j

\* Faulty variant: the order of registration, whatever the priority.
ListenersUnsorted(c, type) ==
    LET S == Registered(c, type)
    IN  [k \in 1..Cardinality(S) |-> CHOOSE i \in S : Cardinality({j \in S : j < i}) = k - 1]

\* The k-th has k - 1 before it.
ListenersFor(c, type) ==
    LET S == Registered(c, type)
    IN  [k \in 1..Cardinality(S) |-> CHOOSE i \in S : Cardinality({j \in S : Before(j, i)}) = k - 1]

EmitInit ==
    /\ emitMode \in {"sync", "async"}
    /\ deferred = [t \in Thread |-> << >>] /\ flushing = [t \in Thread |-> FALSE]
    /\ on \in {[k \in Task |-> t] : t \in Thread}
    /\ stage = [k \in Task |-> "idle"] /\ frames = [k \in Task |-> << >>]
    /\ emitted = {} /\ heardBy = [e \in Event |-> << >>] /\ cut = {}

\* A thread runs one task at a time, up to its next await.
Free(t) == \A k \in Task : stage[k] \in {"loop", "handling"} => on[k] # t

NewFrame(c) == [ctx |-> c, event |-> NoEvent, left |-> << >>, processed |-> 0]
TopFrame(k) == Last(frames[k])
SetTop(k, f) == frames' = [frames EXCEPT ![k] = Append(Front(@), f)]
SetStage(k, s) == stage' = [stage EXCEPT ![k] = s]

\* The body of emit: push, and start a loop unless the flag is set.
Push(k, e, t, whenFlushing) ==
    /\ emitted' = emitted \cup {e}
    /\ deferred' = [deferred EXCEPT ![t] = Append(@, e)]
    /\ IF flushing[t]
       THEN /\ SetStage(k, whenFlushing)
            /\ UNCHANGED <<flushing, frames>>
       ELSE /\ flushing' = [flushing EXCEPT ![t] = TRUE]
            /\ frames' = [frames EXCEPT ![k] = Append(@, NewFrame(CtxOf[e]))]
            /\ SetStage(k, "loop")

Emit(k, e, t) ==
    /\ stage[k] = "idle" /\ Free(t)
    /\ on' = [on EXCEPT ![k] = t]
    /\ Push(k, e, t, "done")
    /\ UNCHANGED <<emitMode, heardBy, cut>>

\* A listener emits.
EmitNested(k, e) ==
    /\ stage[k] = "handling"
    /\ Push(k, e, on[k], "handling")
    /\ UNCHANGED <<emitMode, on, heardBy, cut>>

\* The loop calls the next listener of the event it holds.
CallListener(k) ==
    /\ stage[k] = "loop"
    /\ LET f == TopFrame(k)
       IN  /\ f.left # << >>
           /\ heardBy' = [heardBy EXCEPT ![f.event] = Append(@, Head(f.left))]
           /\ SetTop(k, [f EXCEPT !.left = Tail(@)])
    /\ SetStage(k, "handling")
    /\ UNCHANGED <<emitMode, deferred, flushing, on, cut, emitted>>

AtNextEvent(k) == stage[k] = "loop" /\ TopFrame(k).left = << >>

PopDeferred(t) == deferred' = [deferred EXCEPT ![t] = Front(@)]

\* It pops the newest event of the thread it is on.
NextEvent(k) ==
    /\ AtNextEvent(k) /\ TopFrame(k).processed < MaxBuffer
    /\ LET t == on[k] f == TopFrame(k) e == Last(deferred[t])
       IN  /\ deferred[t] # << >>
           /\ PopDeferred(t)
           /\ SetTop(k, [f EXCEPT !.event = e, !.left = ListenersFor(f.ctx, TypeOf[e]),
                                  !.processed = @ + 1])
    /\ UNCHANGED <<emitMode, flushing, on, stage, heardBy, cut, emitted>>

\* FlushGuard: dropped where the task is now.
Unflag(t) == flushing' = [flushing EXCEPT ![t] = FALSE]

FlushEnds(k) ==
    /\ AtNextEvent(k) /\ TopFrame(k).processed < MaxBuffer
    /\ deferred[on[k]] = << >>
    /\ Unflag(on[k])
    /\ frames' = [frames EXCEPT ![k] = Front(@)]
    /\ SetStage(k, IF Len(frames[k]) = 1 THEN "done" ELSE "handling")
    /\ UNCHANGED <<emitMode, deferred, on, heardBy, cut, emitted>>

\* All loops of the task end at once; what is on the queue stays there.
Unwind(k, t, how) ==
    /\ Unflag(t)
    /\ frames' = [frames EXCEPT ![k] = << >>]
    /\ cut' = cut \cup ({frames[k][i].event : i \in DOMAIN frames[k]} \ {NoEvent})
    /\ SetStage(k, how)

\* "deferred emit queue overflow": tested when an event is done, even the last.
Overflow(k) ==
    /\ AtNextEvent(k) /\ TopFrame(k).processed >= MaxBuffer
    /\ Unwind(k, on[k], "panicked")
    /\ UNCHANGED <<emitMode, deferred, on, heardBy, emitted>>

ListenerReturns(k) ==
    /\ stage[k] = "handling" /\ SetStage(k, "loop")
    /\ UNCHANGED <<emitMode, deferred, flushing, on, frames, heardBy, cut, emitted>>

ListenerPanics(k) ==
    /\ stage[k] = "handling"
    /\ Unwind(k, on[k], "panicked")
    /\ UNCHANGED <<emitMode, deferred, on, heardBy, emitted>>

ListenerAwaits(k) ==
    /\ emitMode = "async" /\ stage[k] = "handling" /\ SetStage(k, "awaiting")
    /\ UNCHANGED <<emitMode, deferred, flushing, on, frames, heardBy, cut, emitted>>

\* The runtime polls the task again, on whichever thread is free.
Resume(k, t) ==
    /\ stage[k] = "awaiting" /\ Free(t)
    /\ on' = [on EXCEPT ![k] = t]
    /\ SetStage(k, "handling")
    /\ UNCHANGED <<emitMode, deferred, flushing, frames, heardBy, cut, emitted>>

DropFlush(k, t) ==
    /\ stage[k] = "awaiting" /\ Free(t)
    /\ on' = [on EXCEPT ![k] = t]
    /\ Unwind(k, t, "dropped")
    /\ UNCHANGED <<emitMode, deferred, heardBy, emitted>>

EmitNext ==
    \E k \in Task :
        \/ \E e \in Event \ emitted, t \in Thread : Emit(k, e, t)
        \/ \E e \in Event \ emitted : EmitNested(k, e)
        \/ CallListener(k) \/ NextEvent(k) \/ FlushEnds(k) \/ Overflow(k)
        \/ ListenerReturns(k) \/ ListenerPanics(k) \/ ListenerAwaits(k)
        \/ \E t \in Thread : Resume(k, t) \/ DropFlush(k, t)

--------------------------------------------------------------------------
\* Where an event is: on a queue or in the hands of a loop.
Places(e) ==
    UNION ({{t} \X {i \in DOMAIN deferred[t] : deferred[t][i] = e} : t \in Thread}
           \cup {{k} \X {i \in DOMAIN frames[k] : frames[k][i].event = e} : k \in Task})

\* However emits nest, threads change and listeners panic: an event is in one
\* place at most, no listener hears it twice or out of the order of priority,
\* and once it is in no place and its dispatch was not cut short, all
\* listeners of one context heard it (context.rs:361-420, 436-480).
EventsAccountedFor ==
    \A e \in Event :
        /\ Cardinality(Places(e)) <= 1
        /\ \A i, j \in DOMAIN heardBy[e] : i < j => Before(heardBy[e][i], heardBy[e][j])
        /\ \E c \in Ctx :
              /\ ToSet(heardBy[e]) \subseteq Registered(c, TypeOf[e])
              /\ e \in emitted \ cut /\ Places(e) = {} =>
                    ToSet(heardBy[e]) = Registered(c, TypeOf[e])

\* Without await points the flag of a thread is set exactly while a loop runs
\* on it, also after a panic; so an emit that returns leaves its thread's
\* queue empty unless a listener panicked there (FlushGuard).
SyncFlagIsTheLoop ==
    emitMode = "sync" =>
        \A t \in Thread :
            /\ flushing[t] <=> \E k \in Task : on[k] = t /\ frames[k] # << >>
            /\ ~ flushing[t] /\ deferred[t] # << >> =>
                  \E k \in Task : on[k] = t /\ stage[k] = "panicked"
==========================================================================
