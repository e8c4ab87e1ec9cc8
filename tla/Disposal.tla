---------------------------- MODULE Disposal -----------------------------
(* Resources of a context and their release (crates/ma-harness-cordis/src, *)
(* disposable.rs and context.rs).  One list is shared by Context::on_dispose *)
(* and by every Scope of the context; whoever disposes empties all of it,   *)
(* newest entry first, under the lock of the list.  The async resources have *)
(* a list of their own: dispose_all_async takes all of it and releases its  *)
(* entries concurrently.                                                    *)
EXTENDS Naturals, Sequences, SequencesExt

CONSTANTS Entry, NoEntry,   \* registrations, made once each
          Disposer,         \* calls of dispose
          FlagOf,           \* [Disposer -> the flag it claims: its scope or the context]
          CtxFlag           \* the context's own flag

ASSUME EntryAssumption == NoEntry \notin Entry

VARIABLES entries,          \* Seq(Entry): the shared list
          claimed,          \* flags that are set
          holder,           \* the disposer that has the list's lock, or NoEntry
          disposal,         \* [Disposer -> where the call stands]
          firstErr,         \* [Disposer -> the entry whose error it returns]
          log,              \* history: registrations and releases
          late              \* history: entries made after the context's dispose returned

disposalVars == <<entries, claimed, holder, disposal, firstErr, log, late>>

DisposalInit ==
    /\ entries = << >> /\ claimed = {} /\ holder = NoEntry
    /\ disposal = [d \in Disposer |-> "idle"] /\ firstErr = [d \in Disposer |-> NoEntry]
    /\ log = << >> /\ late = {}

Logged(op) == {log[i].entry : i \in {j \in DOMAIN log : log[j].op = op}}
CtxDisposed == \E d \in Disposer : FlagOf[d] = CtxFlag /\ disposal[d] = "done"

\* on_dispose and Scope::add; nobody looks whether the context was disposed.
OnDispose(e) ==
    /\ holder = NoEntry /\ e \notin Logged("add")
    /\ entries' = Append(entries, e)
    /\ log' = Append(log, [op |-> "add", entry |-> e, by |-> NoEntry, outcome |-> "ok"])
    /\ late' = IF CtxDisposed THEN late \cup {e} ELSE late
    /\ UNCHANGED <<claimed, holder, disposal, firstErr>>

\* compare_exchange on the disposer's flag; the loser returns at once, with Ok.
Claim(d) ==
    /\ disposal[d] = "idle"
    /\ claimed' = claimed \cup {FlagOf[d]}
    /\ disposal' = [disposal EXCEPT ![d] = IF FlagOf[d] \in claimed THEN "refused" ELSE "claimed"]
    /\ UNCHANGED <<entries, holder, firstErr, log, late>>

LockList(d) ==
    /\ disposal[d] = "claimed" /\ holder = NoEntry
    /\ holder' = d
    /\ disposal' = [disposal EXCEPT ![d] = "popping"]
    /\ UNCHANGED <<entries, claimed, firstErr, log, late>>

\* Faulty variant: the oldest entry first.
TakeOldest == [entry |-> Head(entries), rest |-> Tail(entries)]

TakeNext == [entry |-> Last(entries), rest |-> Front(entries)]

KeepErr(d, e) == firstErr' = [firstErr EXCEPT ![d] = IF @ = NoEntry THEN e ELSE @]

\* An error does not stop the loop.
Release(d, outcome) ==
    /\ disposal[d] = "popping" /\ entries # << >>
    /\ entries' = TakeNext.rest
    /\ log' = Append(log, [op |-> "release", entry |-> TakeNext.entry, by |-> d,
                           outcome |-> outcome])
    /\ CASE outcome = "ok" -> UNCHANGED <<disposal, holder, firstErr>>
         [] outcome = "error" -> /\ KeepErr(d, TakeNext.entry)
                                 /\ UNCHANGED <<disposal, holder>>
         \* The lock is not poisoned; the flag stays set.
         [] outcome = "panic" -> /\ disposal' = [disposal EXCEPT ![d] = "panicked"]
                                 /\ holder' = NoEntry /\ UNCHANGED firstErr
    /\ UNCHANGED <<claimed, late>>

DisposeReturns(d) ==
    /\ disposal[d] = "popping" /\ entries = << >>
    /\ disposal' = [disposal EXCEPT ![d] = "done"]
    /\ holder' = NoEntry
    /\ UNCHANGED <<entries, claimed, firstErr, log, late>>

DisposalNext ==
    \/ \E e \in Entry : OnDispose(e)
    \/ \E d \in Disposer : \/ Claim(d) \/ LockList(d) \/ DisposeReturns(d)
                           \/ \E o \in {"ok", "error", "panic"} : Release(d, o)

--------------------------------------------------------------------------
At(op, e) == CHOOSE i \in DOMAIN log : log[i].op = op /\ log[i].entry = e
Errors(d) == {i \in DOMAIN log : log[i].by = d /\ log[i].outcome = "error"}

\* The list is a stack for all its users at once: of two entries on it
\* together the later one goes first, whichever scopes and calls release
\* them, and none goes twice.  Once dispose of the context has returned, what
\* is still on the list came after it: neither an error nor a scope that ends
\* meanwhile makes it leave an older entry behind; and a call returns the
\* first of its own errors (context.rs:526-550).
DisposesLikeAStack ==
    /\ \A i, j \in DOMAIN log : log[i].op = log[j].op /\ log[i].entry = log[j].entry => i = j
    /\ \A a, b \in Logged("release") :
          At("add", a) < At("add", b) /\ At("add", b) < At("release", a)
              => At("release", b) < At("release", a)
    /\ CtxDisposed => ToSet(entries) \subseteq late
    /\ \A d \in Disposer : disposal[d] = "done" =>
          firstErr[d] = IF Errors(d) = {} THEN NoEntry
                        ELSE log[CHOOSE i \in Errors(d) : \A j \in Errors(d) : i <= j].entry

--------------------------------------------------------------------------
(* Async resources.                                                        *)

CONSTANTS AsyncEntry, AsyncDisposer, NoAsyncEntry

VARIABLES asyncEntries,   \* the list
          taken,          \* [AsyncDisposer -> the entries it releases, newest first]
          released,       \* [AsyncEntry -> what became of it]
          asyncErr,       \* [AsyncDisposer -> the entry whose error it returned]
          asyncCall,      \* [AsyncDisposer -> where the call stands]
          added           \* history: entries in the order of registration

asyncDisposalVars == <<asyncEntries, taken, released, asyncErr, asyncCall, added>>

AsyncDisposalInit ==
    /\ asyncEntries = << >> /\ taken = [d \in AsyncDisposer |-> << >>]
    /\ released = [e \in AsyncEntry |-> "new"]
    /\ asyncErr = [d \in AsyncDisposer |-> NoAsyncEntry]
    /\ asyncCall = [d \in AsyncDisposer |-> "idle"]
    /\ added = << >>

OnDisposeAsync(e) ==
    /\ released[e] = "new"
    /\ released' = [released EXCEPT ![e] = "listed"]
    /\ asyncEntries' = Append(asyncEntries, e)
    /\ added' = Append(added, e)
    /\ UNCHANGED <<taken, asyncErr, asyncCall>>

DisposeAllAsync(d) ==
    /\ asyncCall[d] = "idle"
    /\ asyncCall' = [asyncCall EXCEPT ![d] = "joining"]
    /\ taken' = [taken EXCEPT ![d] = Reverse(asyncEntries)]
    /\ asyncEntries' = << >>
    /\ UNCHANGED <<released, asyncErr, added>>

\* join_all polls them all; they end in any order.
AsyncReleased(d, e, outcome) ==
    /\ asyncCall[d] = "joining" /\ Contains(taken[d], e) /\ released[e] = "listed"
    /\ released' = [released EXCEPT ![e] = outcome]
    /\ UNCHANGED <<asyncEntries, taken, asyncErr, asyncCall, added>>

\* The first error in the order of the list, not of time.
FirstFailed(s) ==
    LET bad == {i \in DOMAIN s : released[s[i]] = "failed"}
    IN  IF bad = {} THEN NoAsyncEntry ELSE s[CHOOSE i \in bad : \A j \in bad : i <= j]

AsyncReturns(d) ==
    /\ asyncCall[d] = "joining"
    /\ \A i \in DOMAIN taken[d] : released[taken[d][i]] # "listed"
    /\ asyncErr' = [asyncErr EXCEPT ![d] = FirstFailed(taken[d])]
    /\ asyncCall' = [asyncCall EXCEPT ![d] = "done"]
    /\ UNCHANGED <<asyncEntries, taken, released, added>>

\* The caller drops the future: what was taken is never released.
AsyncDropped(d) ==
    /\ asyncCall[d] = "joining"
    /\ asyncCall' = [asyncCall EXCEPT ![d] = "dropped"]
    /\ UNCHANGED <<asyncEntries, taken, released, asyncErr, added>>

AsyncDisposalNext ==
    \/ \E e \in AsyncEntry : OnDisposeAsync(e)
    \/ \E d \in AsyncDisposer :
          \/ DisposeAllAsync(d) \/ AsyncReturns(d) \/ AsyncDropped(d)
          \/ \E e \in AsyncEntry, o \in {"ok", "failed"} : AsyncReleased(d, e, o)

--------------------------------------------------------------------------
\* However releases overlap and fail: two calls never release one entry, and
\* one that returns has released all it took and reports the failing entry
\* that was registered last, not the one that failed first (context.rs:553-580).
AsyncErrorIsTheNewest ==
    /\ \A d, f \in AsyncDisposer :
          d # f => ToSet(taken[d]) \cap ToSet(taken[f]) = {}
    /\ \A d \in AsyncDisposer : asyncCall[d] = "done" =>
          LET bad == {i \in DOMAIN added : Contains(taken[d], added[i]) /\ released[added[i]] = "failed"}
          IN  /\ \A i \in DOMAIN taken[d] : released[taken[d][i]] \in {"ok", "failed"}
              /\ asyncErr[d] = IF bad = {} THEN NoAsyncEntry
                               ELSE added[CHOOSE i \in bad : \A j \in bad : i >= j]
==========================================================================
