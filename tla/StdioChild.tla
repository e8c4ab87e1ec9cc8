--------------------------- MODULE StdioChild ---------------------------
(* What the two stdio JSON-RPC clients share: child processes behind a     *)
(* pair of pipes, and the calls that are made of them.  A child answers    *)
(* its requests in order, at any time or never, and may die; what it wrote *)
(* before can still be read.  A call is named by its request id.           *)
EXTENDS Naturals, Sequences, FiniteSets

CONSTANTS Child, NoChild,
          Call, NoCall,
          Timed        \* calls that run under a timeout

VARIABLES child,       \* [Child -> "unborn", "live" or "dead"]
          inPipe,      \* [Child -> requests it has not answered]
          outPipe,     \* [Child -> answers nobody has read]
          slot,        \* the child the client owns (may kill)
          stdin, stdout,  \* the children it writes to and reads from
          lock,        \* the call that may read
          stage,       \* [Call -> where its future stands]
          result,      \* [Call -> how it ended]
          late         \* history: children with an answer nobody waits for

childVars == <<child, inPipe, outPipe>>
rpcVars == <<child, inPipe, outPipe, slot, stdin, stdout, lock, stage,
             result, late>>

Result == {"none", "ok", "mismatch", "error", "timeout", "dropped"}

\* Faulty variant: a guard that is gone as soon as it is taken.
HoldNothing(c) == c \in Call /\ UNCHANGED lock

\* The call keeps the lock until its future ends.
Hold(c) == lock' = c

\* Faulty variant: the lock outlives the future that held it.
EndKeepingLock(c, how) ==
    /\ stage' = [stage EXCEPT ![c] = "done"]
    /\ result' = [result EXCEPT ![c] = how]
    /\ UNCHANGED lock

\* The call ends; a reader gives the lock up.
End(c, how) ==
    /\ stage' = [stage EXCEPT ![c] = "done"]
    /\ result' = [result EXCEPT ![c] = how]
    /\ lock' = IF lock = c THEN NoCall ELSE lock

\* A future goes while its answer may still come: timed out, or dropped.
Quit(c, how) ==
    /\ End(c, how)
    /\ late' = IF stage[c] \in {"reading", "holding"} THEN late \cup ({stdin} \cap Child)
                                                     ELSE late

\* A process spawned anew; which name it gets makes no difference.
Unborn == {k \in Child : child[k] = "unborn"}
Fresh == CHOOSE k \in Unborn : TRUE

Send(k, c) == inPipe' = [inPipe EXCEPT ![k] = Append(@, c)]
Consume(k) == outPipe' = [outPipe EXCEPT ![k] = Tail(@)]

Answer(k) ==
    /\ child[k] = "live" /\ inPipe[k] # << >>
    /\ outPipe' = [outPipe EXCEPT ![k] = Append(@, Head(inPipe[k]))]
    /\ inPipe' = [inPipe EXCEPT ![k] = Tail(@)]
    /\ UNCHANGED <<child, slot, stdin, stdout, lock, stage, result, late>>

\* The children of S are gone and read nothing any more.
Kill(S) ==
    /\ child' = [k \in Child |-> IF k \in S THEN "dead" ELSE child[k]]
    /\ inPipe' = [k \in Child |-> IF k \in S THEN << >> ELSE inPipe[k]]

Dies(k) ==
    /\ child[k] = "live"
    /\ Kill({k})
    /\ UNCHANGED <<outPipe, slot, stdin, stdout, lock, stage, result, late>>

\* Answers the child wrote may still be read after its death; then EOF.
AtEof(k) == child[k] = "dead" /\ outPipe[k] = << >>
=========================================================================
