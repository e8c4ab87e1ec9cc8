---------------------------- MODULE DshCalls ----------------------------
(* ma-harness-plugin-dsh-adapter: calls of a node child are serialised by  *)
(* one lock held from the write to the read of ONE line, which must carry  *)
(* the request's id (lib.rs, jsonrpc.rs); an embedder may respawn the      *)
(* child (respawn.rs).  call_tool runs under a timeout, initialize and     *)
(* tools/list do not.                                                      *)
EXTENDS StdioChild

CONSTANTS Respawner,   \* the calls made by respawn: its initialize
          Closer,      \* the calls made by shutdown
          MaxRespawn

VARIABLES failures,    \* RespawnState.count
          reborn       \* [Respawner -> the child it spawned]

dshOwn == <<failures, reborn>>

\* DshAdapter::spawn has given the adapter its first child.
DshInit ==
    /\ slot = (CHOOSE k \in Child : TRUE) /\ stdin = slot /\ stdout = slot
    /\ child = [k \in Child |-> IF k = slot THEN "live" ELSE "unborn"]
    /\ failures = 0 /\ reborn = [c \in Call |-> NoChild]

DshBegin(c) ==
    /\ c \notin Respawner /\ stage[c] = "idle"
    /\ stage' = [stage EXCEPT ![c] = "locking"]
    /\ UNCHANGED <<childVars, slot, stdin, stdout, lock, result, late, dshOwn>>

\* What respawn makes of its initialize: a success resets the count, a
\* failed request is charged, an answer that is itself an error is neither.
CountsAfter(c, how) ==
    IF c \notin Respawner THEN {failures}
    ELSE IF how = "ok" THEN {0, failures} ELSE {failures + 1}

\* The lock is taken and the request written; a dead child's pipe is broken.
DshWrite(c) ==
    /\ stage[c] = "locking" /\ lock = NoCall
    /\ IF child[stdin] = "live"
       THEN /\ Send(stdin, c)
            /\ Hold(c)
            /\ stage' = [stage EXCEPT ![c] = "reading"]
            /\ UNCHANGED <<result, failures>>
       ELSE /\ End(c, "error")
            /\ failures' \in CountsAfter(c, "error")
            /\ UNCHANGED inPipe
    /\ UNCHANGED <<child, outPipe, slot, stdin, stdout, late, reborn>>

\* JsonRpcClient::request, step 5.
Matches(c, id) == IF id = c THEN "ok" ELSE "mismatch"

\* Faulty variant: peeks at the line and leaves it in the pipe.
DshReadPeeks(c) ==
    /\ stage[c] = "reading" /\ outPipe[stdout] # << >>
    /\ LET how == Matches(c, Head(outPipe[stdout]))
       IN  End(c, how) /\ failures' \in CountsAfter(c, how)
    /\ UNCHANGED <<child, inPipe, outPipe, slot, stdin, stdout, late, reborn>>

\* One line is read, and it is this request's answer or an error.
DshRead(c) ==
    /\ stage[c] = "reading" /\ outPipe[stdout] # << >>
    /\ LET how == Matches(c, Head(outPipe[stdout]))
       IN  End(c, how) /\ failures' \in CountsAfter(c, how)
    /\ Consume(stdout)
    /\ UNCHANGED <<child, inPipe, slot, stdin, stdout, late, reborn>>

DshEof(c) ==
    /\ stage[c] = "reading" /\ AtEof(stdout)
    /\ End(c, "error")
    /\ failures' \in CountsAfter(c, "error")
    /\ UNCHANGED <<childVars, slot, stdin, stdout, late, reborn>>

\* The timeout of call_tool covers the request, not the wait for the lock.
DshExpire(c) ==
    /\ c \in Timed /\ stage[c] = "reading"
    /\ Quit(c, "timeout")
    /\ UNCHANGED <<childVars, slot, stdin, stdout, dshOwn>>

\* The caller goes away.  A respawn that goes with a child of its own in
\* hand kills it (kill_on_drop).
DshDrop(c) ==
    /\ stage[c] \notin {"idle", "done"}
    /\ Quit(c, "dropped")
    /\ Kill(IF stage[c] \in {"spawned", "installed"} THEN {reborn[c]} ELSE {})
    /\ UNCHANGED <<outPipe, slot, stdin, stdout, dshOwn>>

\* respawn: refused when the budget is spent, else the backoff sleep.
Respawn(c) ==
    /\ c \in Respawner /\ stage[c] = "idle"
    /\ IF failures >= MaxRespawn
       THEN End(c, "error")
       ELSE stage' = [stage EXCEPT ![c] = "backoff"] /\ UNCHANGED <<result, lock>>
    /\ UNCHANGED <<childVars, slot, stdin, stdout, late, dshOwn>>

\* ... spawn a child (when that fails the budget is not charged),
SpawnChild(c) ==
    /\ stage[c] = "backoff"
    /\ \/ /\ Unborn # {}
          /\ child' = [child EXCEPT ![Fresh] = "live"]
          /\ reborn' = [reborn EXCEPT ![c] = Fresh]
          /\ stage' = [stage EXCEPT ![c] = "spawned"]
          /\ UNCHANGED <<result, lock>>
       \/ End(c, "error") /\ UNCHANGED <<child, reborn>>
    /\ UNCHANGED <<inPipe, outPipe, slot, stdin, stdout, late, failures>>

\* ... replace the client, once no call holds it,
InstallClient(c) ==
    /\ stage[c] = "spawned" /\ lock = NoCall
    /\ stdin' = reborn[c] /\ stdout' = reborn[c]
    /\ stage' = [stage EXCEPT ![c] = "installed"]
    /\ UNCHANGED <<childVars, slot, lock, result, late, dshOwn>>

\* Faulty variant: the old child is only forgotten.
ReplaceChildAlive(c) ==
    /\ stage[c] = "installed"
    /\ slot' = reborn[c]
    /\ stage' = [stage EXCEPT ![c] = "locking"]
    /\ UNCHANGED <<childVars, stdin, stdout, lock, result, late, dshOwn>>

\* ... kill the child in the slot and take its place; then initialize.
ReplaceChild(c) ==
    /\ stage[c] = "installed"
    /\ Kill({slot})
    /\ slot' = reborn[c]
    /\ stage' = [stage EXCEPT ![c] = "locking"]
    /\ UNCHANGED <<outPipe, stdin, stdout, lock, result, late, dshOwn>>

\* shutdown goes on, however its request ended: the child exits or is killed.
CloseChild(c) ==
    /\ c \in Closer /\ slot # NoChild
    /\ stage[c] = "done" /\ result[c] # "dropped"
    /\ Kill({slot})
    /\ slot' = NoChild
    /\ UNCHANGED <<outPipe, stdin, stdout, lock, stage, result, late, dshOwn>>

DshMoves(c) ==
    \/ DshWrite(c) \/ DshRead(c) \/ DshEof(c) \/ DshExpire(c)
    \/ SpawnChild(c) \/ InstallClient(c) \/ ReplaceChild(c) \/ CloseChild(c)

DshStep(c) == DshBegin(c) \/ Respawn(c) \/ DshMoves(c) \/ DshDrop(c)
=========================================================================
