---------------------------- MODULE Subprocess ----------------------------
(* LocalSubprocessProvider of crates/ma-harness-subprocess/src/lib.rs, the  *)
(* table of children, and the callers of output: the shells of              *)
(* ma-harness-shell and the ShellStepRunner of ma-harness-workflow.  A      *)
(* child runs a program of steps: a chunk to stdout or stderr, or reading   *)
(* stdin to its end.  A pipe holds PipeCap chunks.                          *)
EXTENDS Naturals, Sequences, FiniteSets

CONSTANTS Proc, NoProc,
          SubCall,       \* calls of the provider, one operation each
          Program,       \* the programs children may run: Seq({"out", "err", "in"})
          PipeCap

ASSUME SubprocessAssumption ==
    NoProc \notin Proc /\ IsFiniteSet(SubCall) /\ Program \subseteq Seq({"out", "err", "in"})

VARIABLES proc,          \* [Proc -> the child's life, see NoLife]
          children,      \* the handle table
          subCall,       \* [SubCall -> where the call stands, see NoSubCall]
          statuses       \* history: [Proc -> how often its exit status was given]

subVars == <<proc, children, subCall, statuses>>

Streams == {"out", "err"}
NoLife == [state |-> "none", todo |-> << >>, stdin |-> "closed", killOnDrop |-> TRUE,
           readable |-> TRUE, unread |-> [s \in Streams |-> 0], written |-> [s \in Streams |-> 0]]
NoSubCall == [op |-> "none", proc |-> NoProc, stage |-> "idle", timed |-> FALSE,
              got |-> [s \in Streams |-> 0], result |-> "none"]

SubInit ==
    /\ proc = [p \in Proc |-> NoLife] /\ children = {}
    /\ subCall = [c \in SubCall |-> NoSubCall]
    /\ statuses = [p \in Proc |-> 0]

--------------------------------------------------------------------------
(* The child.                                                              *)

Running(p) == proc[p].state = "running"
NextIs(p, step) == Running(p) /\ proc[p].todo # << >> /\ Head(proc[p].todo) = step

\* A write blocks on a full pipe; with no reader left it is the end of the child.
ChildWrites(p, s) ==
    /\ NextIs(p, s)
    /\ IF proc[p].readable
       THEN /\ proc[p].unread[s] < PipeCap
            /\ proc' = [proc EXCEPT ![p].todo = Tail(@), ![p].unread[s] = @ + 1,
                                    ![p].written[s] = @ + 1]
       ELSE proc' = [proc EXCEPT ![p].state = "exited"]
    /\ UNCHANGED <<children, subCall, statuses>>

\* Nothing is ever written to a child's stdin: reading it ends when it is closed.
ChildReadsStdin(p) ==
    /\ NextIs(p, "in") /\ proc[p].stdin = "closed"
    /\ proc' = [proc EXCEPT ![p].todo = Tail(@)]
    /\ UNCHANGED <<children, subCall, statuses>>

ChildExits(p) ==
    /\ Running(p) /\ proc[p].todo = << >>
    /\ proc' = [proc EXCEPT ![p].state = "exited"]
    /\ UNCHANGED <<children, subCall, statuses>>

Killed(life) == IF life.state = "running" THEN [life EXCEPT !.state = "exited"] ELSE life

\* Dropping a tokio Child closes our ends of its pipes and, with kill_on_drop,
\* kills it; the runtime reaps it.
Dropped(life) ==
    IF life.killOnDrop \/ life.state = "exited"
    THEN [life EXCEPT !.state = "reaped"]
    ELSE [life EXCEPT !.stdin = "closed", !.readable = FALSE]

--------------------------------------------------------------------------
(* The provider.                                                           *)

\* CommandSpec: stdin is Piped, and kill_on_drop set, unless said otherwise.
Spawned(program, stdin, killOnDrop) ==
    [NoLife EXCEPT !.state = "running", !.todo = program, !.stdin = stdin,
                   !.killOnDrop = killOnDrop]

Spawn(p) ==
    /\ proc[p].state = "none"
    /\ \E program \in Program, kod \in BOOLEAN :
          proc' = [proc EXCEPT ![p] = Spawned(program, "open", kod)]
    /\ children' = children \cup {p}
    /\ UNCHANGED <<subCall, statuses>>

Answered(c, op, p, result) ==
    subCall' = [subCall EXCEPT ![c] = [NoSubCall EXCEPT !.op = op, !.proc = p,
                                                        !.stage = "over", !.result = result]]
Given(p) == statuses' = [statuses EXCEPT ![p] = @ + 1]

NotFound(c, op, p) ==
    /\ p \notin children /\ Answered(c, op, p, "HandleNotFound")
    /\ UNCHANGED <<proc, children, statuses>>

\* Faulty variant: the child is looked up and stays in the table.
TakeChildKeeping(p) == p \in children /\ UNCHANGED children

TakeChild(p) == p \in children /\ children' = children \ {p}

\* wait owns the child from here on, and closes its stdin.
Wait(c, p) ==
    \/ /\ TakeChild(p)
       /\ subCall' = [subCall EXCEPT ![c] = [NoSubCall EXCEPT !.op = "wait", !.proc = p,
                                                              !.stage = "waiting"]]
       /\ proc' = [proc EXCEPT ![p].stdin = "closed"]
       /\ UNCHANGED statuses
    \/ NotFound(c, "wait", p)

TryWait(c, p) ==
    \/ /\ proc[p].state = "exited" /\ TakeChild(p)
       /\ proc' = [proc EXCEPT ![p].state = "reaped"]
       /\ Given(p)
       /\ Answered(c, "try_wait", p, "status")
    \/ /\ p \in children /\ Running(p) /\ Answered(c, "try_wait", p, "none")
       /\ UNCHANGED <<proc, children, statuses>>
    \/ NotFound(c, "try_wait", p)

\* start_kill; the child stays in the table for a wait to come.
KillChild(c, p) ==
    \/ /\ p \in children
       /\ proc' = [proc EXCEPT ![p] = Killed(@)]
       /\ Answered(c, "kill", p, "ok")
       /\ UNCHANGED <<children, statuses>>
    \/ NotFound(c, "kill", p)

\* The stdin an output is called with: ShellStepRunner leaves CommandSpec's
\* Piped; a shell says Null, unless there is a stdin_input, which nobody writes.
StdinOf == [step |-> {"open"}, shell |-> {"open", "closed"}, pwsh |-> {"closed"},
            provider |-> {"open", "closed"}]

\* output spawns and takes the child at once; the pipes are its own.
Output(c, p) ==
    /\ proc[p].state = "none"
    /\ \E program \in Program, caller \in DOMAIN StdinOf, timed \in BOOLEAN :
          \E stdin \in StdinOf[caller] :
             /\ proc' = [proc EXCEPT ![p] = Spawned(program, stdin, TRUE)]
             /\ subCall' = [subCall EXCEPT ![c] =
                   [NoSubCall EXCEPT !.op = "output", !.proc = p, !.stage = "out",
                                     !.timed = timed]]
    /\ UNCHANGED <<children, statuses>>

Begin(c) ==
    /\ subCall[c].stage = "idle"
    /\ \E p \in Proc : \/ Output(c, p)
                       \/ proc[p].state # "none" /\ (Wait(c, p) \/ TryWait(c, p) \/ KillChild(c, p))

\* read_stream: stdout to its end, then stderr.
ReadStream(c, s) ==
    LET p == subCall[c].proc
    IN  /\ subCall[c].stage = s /\ proc[p].unread[s] > 0
        /\ proc' = [proc EXCEPT ![p].unread[s] = 0]
        /\ subCall' = [subCall EXCEPT ![c].got[s] = @ + proc[p].unread[s]]
        /\ UNCHANGED <<children, statuses>>

AtEnd(p, s) == proc[p].unread[s] = 0 /\ ~ Running(p)

StreamEnds(c, s) ==
    /\ subCall[c].stage = s /\ AtEnd(subCall[c].proc, s)
    /\ subCall' = [subCall EXCEPT ![c].stage = IF s = "out" THEN "err" ELSE "waiting"]
    /\ UNCHANGED <<proc, children, statuses>>

\* child.wait() of wait, of output and of an output that timed out.
Reap(c) ==
    LET p == subCall[c].proc
    IN  /\ subCall[c].stage \in {"waiting", "reaping"} /\ proc[p].state = "exited"
        /\ proc' = [proc EXCEPT ![p].state = "reaped"]
        /\ IF subCall[c].stage = "waiting"
           THEN Given(p) /\ subCall' = [subCall EXCEPT ![c].stage = "over", ![c].result = "status"]
           ELSE /\ subCall' = [subCall EXCEPT ![c].stage = "over", ![c].result = "timeout"]
                /\ UNCHANGED statuses
        /\ UNCHANGED children

OutputTimesOut(c) ==
    /\ subCall[c].timed /\ subCall[c].stage \in {"out", "err", "waiting"}
    /\ proc' = [proc EXCEPT ![subCall[c].proc] = Killed(@)]
    /\ subCall' = [subCall EXCEPT ![c].stage = "reaping"]
    /\ UNCHANGED <<children, statuses>>

InFlight(c) == subCall[c].stage \in {"out", "err", "waiting", "reaping"}

DropCall(c) ==
    /\ InFlight(c)
    /\ proc' = [proc EXCEPT ![subCall[c].proc] = Dropped(@)]
    /\ subCall' = [subCall EXCEPT ![c].stage = "over", ![c].result = "dropped"]
    /\ UNCHANGED <<children, statuses>>

\* The calls borrow the provider, so none is under way.
DropProvider ==
    /\ children # {} /\ \A c \in SubCall : ~ InFlight(c)
    /\ proc' = [p \in Proc |-> IF p \in children THEN Dropped(proc[p]) ELSE proc[p]]
    /\ children' = {}
    /\ UNCHANGED <<subCall, statuses>>

ChildStep(p) == ChildExits(p) \/ ChildReadsStdin(p) \/ \E s \in Streams : ChildWrites(p, s)
CallStep(c) == \/ Reap(c) \/ OutputTimesOut(c)
               \/ \E s \in Streams : ReadStream(c, s) \/ StreamEnds(c, s)

SubNext ==
    \/ \E p \in Proc : Spawn(p) \/ ChildStep(p)
    \/ \E c \in SubCall : Begin(c) \/ CallStep(c) \/ DropCall(c)
    \/ DropProvider

\* Children and the runtime keep going; who calls, drops or spawns owes nothing.
SubFairness == /\ \A p \in Proc : WF_subVars(ChildStep(p))
               /\ \A c \in SubCall : WF_subVars(CallStep(c))

--------------------------------------------------------------------------
Owners(p) == Cardinality({c \in SubCall : InFlight(c) /\ subCall[c].proc = p})
             + IF p \in children THEN 1 ELSE 0

\* Whatever kills, waits, drops and time-outs race: a child that has not been
\* reaped belongs to the table or to one call, unless it was to outlive them;
\* its status is given once; an output that reports one has read all the
\* child wrote, and one that reports a time-out leaves no child behind
\* (lib.rs:497-590).
EveryChildHasOneOwner ==
    /\ \A p \in Proc :
          /\ Owners(p) <= 1 /\ statuses[p] <= 1
          /\ proc[p].state \in {"running", "exited"} /\ proc[p].killOnDrop => Owners(p) = 1
    /\ \A c \in SubCall : LET r == subCall[c] IN
          /\ r.op = "output" /\ r.result = "status" => r.got = proc[r.proc].written
          /\ r.result = "timeout" => proc[r.proc].state = "reaped"

\* What a call can wait for in vain: nobody reads the pipe the child fills
\* (stderr while stdout is read, either one during wait), or the child reads
\* a stdin that output keeps open.
BlockedOn(c) ==
    LET p == subCall[c].proc
    IN  InFlight(c) /\ ~ subCall[c].timed /\
        \/ subCall[c].stage = "out" /\ NextIs(p, "err") /\ proc[p].unread["err"] = PipeCap
        \/ subCall[c].stage = "out" /\ NextIs(p, "in") /\ proc[p].stdin = "open"
        \/ /\ subCall[c].op = "wait"
           /\ \E s \in Streams : NextIs(p, s) /\ proc[p].unread[s] = PipeCap

\* A wait or an output ends, unless it has no time-out and its child is
\* blocked in one of the ways of BlockedOn (lib.rs:533-590).
OnlyABlockedChildStalls ==
    []<>(\A c \in SubCall : InFlight(c) => BlockedOn(c))
===========================================================================
