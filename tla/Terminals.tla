---------------------------- MODULE Terminals -----------------------------
(* LocalPtyProvider of crates/ma-harness-terminal/src/lib.rs: pseudo        *)
(* terminals behind one lock on the whole table, which a read or a write    *)
(* keeps while it blocks.  What a terminal holds in either direction is     *)
(* counted in chunks.                                                       *)
EXTENDS Naturals, FiniteSets

CONSTANTS Term, NoTerm,
          TermCall,       \* calls, one operation each
          NoTermCall,     \* nobody holds the lock
          MaxOut,         \* chunks a child writes
          TtyCap          \* chunks the input side holds

ASSUME TerminalsAssumption == NoTerm \notin Term /\ NoTermCall \notin TermCall

VARIABLES term,           \* [Term -> the terminal, see NoTty]
          termCall,       \* [TermCall -> [op, term, stage, result]]
          mapLock         \* the call that holds the table

termVars == <<term, termCall, mapLock>>

NoTty == [entry |-> "none", child |-> "none", cached |-> FALSE, unread |-> 0,
          written |-> 0, input |-> 0]
IdleTermCall == [op |-> "none", term |-> NoTerm, stage |-> "idle", result |-> "none"]

TermInit ==
    /\ term = [h \in Term |-> NoTty]
    /\ termCall = [c \in TermCall |-> IdleTermCall]
    /\ mapLock = NoTermCall

Listed(h) == term[h].entry = "listed"
LockFree == mapLock = NoTermCall

\* spawn_sync and the task that waits for the child.
OpenTerminal(h) ==
    /\ term[h].entry = "none" /\ LockFree
    /\ term' = [term EXCEPT ![h].entry = "listed", ![h].child = "running"]
    /\ UNCHANGED <<termCall, mapLock>>

TermChildWrites(h) ==
    /\ term[h].child = "running" /\ Listed(h) /\ term[h].written < MaxOut
    /\ term' = [term EXCEPT ![h].unread = @ + 1, ![h].written = @ + 1]
    /\ UNCHANGED <<termCall, mapLock>>

TermChildReads(h) ==
    /\ term[h].child = "running" /\ term[h].input > 0
    /\ term' = [term EXCEPT ![h].input = @ - 1]
    /\ UNCHANGED <<termCall, mapLock>>

TermChildExits(h) ==
    /\ term[h].child = "running"
    /\ term' = [term EXCEPT ![h].child = "exited"]
    /\ UNCHANGED <<termCall, mapLock>>

\* The task stores the exit code in the entry, if it is still there.
CacheExit(h) ==
    /\ term[h].child = "exited" /\ LockFree
    /\ term' = [term EXCEPT ![h].child = "waited", ![h].cached = Listed(h)]
    /\ UNCHANGED <<termCall, mapLock>>

TermOp == {"read", "write", "kill", "list", "try_wait"}

CallTerminal(c) ==
    /\ termCall[c].stage = "idle"
    /\ \E op \in TermOp, h \in Term \cup {NoTerm} :
          /\ IF op = "list" THEN h = NoTerm ELSE h # NoTerm /\ term[h].entry # "none"
          /\ termCall' = [termCall EXCEPT ![c] = [IdleTermCall EXCEPT !.op = op, !.term = h,
                                                                      !.stage = "queued"]]
    /\ UNCHANGED <<term, mapLock>>

Finish(c, result) ==
    termCall' = [termCall EXCEPT ![c].stage = "over", ![c].result = result]

\* The closure gets the lock and looks the handle up.
LockTable(c) ==
    LET r == termCall[c]
    IN  /\ r.stage = "queued" /\ LockFree
        /\ IF r.op # "list" /\ ~ Listed(r.term)
           THEN Finish(c, "HandleNotFound") /\ UNCHANGED mapLock
           ELSE termCall' = [termCall EXCEPT ![c].stage = "holding"] /\ mapLock' = c
        /\ UNCHANGED term

Held(c, op) == mapLock = c /\ termCall[c].op = op
\* Faulty variant: the lock outlives the call.
ReleaseHolding(c, result) == Finish(c, result) /\ mapLock' = c

Release(c, result) == Finish(c, result) /\ mapLock' = NoTermCall

ChildGone(h) == term[h].child # "running"

\* read: what is there, or, when the child is gone, the end.
ReadReturns(c) ==
    /\ Held(c, "read")
    /\ LET h == termCall[c].term
       IN  /\ term[h].unread > 0 \/ ChildGone(h)
           /\ term' = [term EXCEPT ![h].unread = 0]
    /\ Release(c, "ok")

WriteReturns(c) ==
    /\ Held(c, "write")
    /\ LET h == termCall[c].term
       IN  IF ChildGone(h)
           THEN UNCHANGED term /\ Release(c, "io")
           ELSE /\ term[h].input < TtyCap
                /\ term' = [term EXCEPT ![h].input = @ + 1]
                /\ Release(c, "ok")

\* The entry goes and with it the master: the child is hung up on, and may
\* ignore it; its exit code is never cached.
KillReturns(c) ==
    /\ Held(c, "kill")
    /\ LET h == termCall[c].term
       IN  \E ignores \in BOOLEAN :
              term' = [term EXCEPT ![h].entry = "removed",
                                   ![h].child = IF @ = "running" /\ ~ ignores THEN "exited" ELSE @]
    /\ Release(c, "ok")

ListReturns(c) == Held(c, "list") /\ Release(c, "ok") /\ UNCHANGED term

TryWaitReturns(c) ==
    /\ Held(c, "try_wait")
    /\ Release(c, IF term[termCall[c].term].cached THEN "code" ELSE "running")
    /\ UNCHANGED term

TermCallStep(c) ==
    \/ LockTable(c) \/ ReadReturns(c) \/ WriteReturns(c) \/ KillReturns(c)
    \/ ListReturns(c) \/ TryWaitReturns(c)

TermNext ==
    \/ \E h \in Term : \/ OpenTerminal(h) \/ TermChildWrites(h) \/ TermChildReads(h)
                       \/ TermChildExits(h) \/ CacheExit(h)
    \/ \E c \in TermCall : CallTerminal(c) \/ TermCallStep(c)

\* Threads and locks are fair; a child owes nothing.
TermFairness == /\ \A c \in TermCall : WF_termVars(TermCallStep(c))
                /\ \A h \in Term : WF_termVars(CacheExit(h))

--------------------------------------------------------------------------
\* The exit code told is this child's, and only of one that has exited; a
\* kill that succeeded ended the entry (lib.rs:398-411, 461-495).
ExitCodesAreReal ==
    /\ \A h \in Term : term[h].cached => term[h].child \in {"exited", "waited"}
    /\ \A c \in TermCall : LET r == termCall[c] IN
          /\ r.result = "code" => ChildGone(r.term)
          /\ r.op = "kill" /\ r.result = "ok" => term[r.term].entry = "removed"

\* The call that has the table waits for a running child to write or to read.
BlockedOnChild ==
    /\ ~ LockFree
    /\ LET h == termCall[mapLock].term
       IN  \/ Held(mapLock, "read") /\ ~ ChildGone(h) /\ term[h].unread = 0
           \/ Held(mapLock, "write") /\ ~ ChildGone(h) /\ term[h].input = TtyCap

\* Every call returns, also list, try_wait and kill, of any terminal, unless
\* a read or a write of some terminal holds the table for ever because its
\* child is silent (lib.rs:421-459).
OnlyASilentTerminalStalls ==
    []<>(BlockedOnChild \/ \A c \in TermCall : termCall[c].stage \in {"idle", "over"})
===========================================================================
