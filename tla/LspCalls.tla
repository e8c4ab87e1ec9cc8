---------------------------- MODULE LspCalls ----------------------------
(* ma-harness-lsp, LocalLspProvider: the language server is started by the *)
(* first request.  A request takes the stdin lock to write and the stdout  *)
(* lock to read, and skips what it reads that is not its answer.           *)
EXTENDS StdioChild

VARIABLES started,     \* [Call -> the child it started]
          closing      \* what a shutdown, holding the child lock, clears next

lspOwn == <<started, closing>>

LspInit ==
    /\ slot = NoChild /\ stdin = NoChild /\ stdout = NoChild
    /\ child = [k \in Child |-> "unborn"]
    /\ closing = "no" /\ started = [c \in Call |-> NoChild]

\* ensure_started looks for a child and lets go of the lock.
LspBegin(c) ==
    /\ stage[c] = "idle" /\ closing = "no"
    /\ stage' = [stage EXCEPT ![c] = IF slot = NoChild THEN "spawning" ELSE "writing"]
    /\ UNCHANGED <<childVars, slot, stdin, stdout, lock, result, late, lspOwn>>

\* ... spawn a server and install it, field by field, each under its lock.
\* The child that is replaced is not killed (no kill_on_drop).
LspSpawn(c) ==
    /\ stage[c] = "spawning" /\ closing = "no"
    /\ \/ /\ Unborn # {}
          /\ child' = [child EXCEPT ![Fresh] = "live"]
          /\ started' = [started EXCEPT ![c] = Fresh]
          /\ slot' = Fresh
          /\ stage' = [stage EXCEPT ![c] = "stdin"]
          /\ UNCHANGED <<result, lock>>
       \/ End(c, "error") /\ UNCHANGED <<child, started, slot>>
    /\ UNCHANGED <<inPipe, outPipe, stdin, stdout, late, closing>>

LspSetStdin(c) ==
    /\ stage[c] = "stdin"
    /\ stdin' = started[c]
    /\ stage' = [stage EXCEPT ![c] = "stdout"]
    /\ UNCHANGED <<childVars, slot, stdout, lock, result, late, lspOwn>>

LspSetStdout(c) ==
    /\ stage[c] = "stdout" /\ lock = NoCall
    /\ stdout' = started[c]
    /\ stage' = [stage EXCEPT ![c] = "writing"]
    /\ UNCHANGED <<childVars, slot, stdin, lock, result, late, lspOwn>>

\* Write under the stdin lock and release it.
LspWrite(c) ==
    /\ stage[c] = "writing"
    /\ \/ /\ stdin # NoChild /\ child[stdin] = "live"
          /\ Send(stdin, c)
          /\ stage' = [stage EXCEPT ![c] = "reading"]
          /\ UNCHANGED <<result, lock>>
       \/ /\ stdin # NoChild /\ child[stdin] = "dead"
          /\ End(c, "error") /\ UNCHANGED inPipe
       \/ /\ stdin = NoChild
          /\ End(c, "error") /\ UNCHANGED inPipe
    /\ UNCHANGED <<child, outPipe, slot, stdin, stdout, late, lspOwn>>

\* read_response: take the stdout lock,
LspLock(c) ==
    /\ stage[c] = "reading" /\ lock = NoCall
    /\ IF stdout = NoChild
       THEN End(c, "error")
       ELSE /\ Hold(c) /\ stage' = [stage EXCEPT ![c] = "holding"]
            /\ UNCHANGED result
    /\ UNCHANGED <<childVars, slot, stdin, stdout, late, lspOwn>>

\* ... and loop over the messages: "id mismatch, skip".
LspRead(c) ==
    /\ stage[c] = "holding" /\ outPipe[stdout] # << >>
    /\ Consume(stdout)
    /\ IF Head(outPipe[stdout]) = c
       THEN End(c, "ok")
       ELSE UNCHANGED <<stage, result, lock>>
    /\ UNCHANGED <<child, inPipe, slot, stdin, stdout, late, lspOwn>>

LspEof(c) ==
    /\ stage[c] = "holding" /\ AtEof(stdout)
    /\ End(c, "error")
    /\ UNCHANGED <<childVars, slot, stdin, stdout, late, lspOwn>>

\* The timeout covers the wait for the stdout lock and the reading.
LspExpire(c) ==
    /\ c \in Timed /\ stage[c] \in {"reading", "holding"}
    /\ Quit(c, "timeout")
    /\ UNCHANGED <<childVars, slot, stdin, stdout, lspOwn>>

\* The caller goes away; a child it has installed in the slot stays there.
LspDrop(c) ==
    /\ stage[c] \notin {"idle", "done"}
    /\ Quit(c, "dropped")
    /\ UNCHANGED <<childVars, slot, stdin, stdout, lspOwn>>

\* shutdown kills the child, then waits for the stdin and the stdout lock.
LspKill ==
    /\ closing = "no" /\ slot # NoChild
    /\ Kill({slot})
    /\ slot' = NoChild
    /\ closing' = "stdin"
    /\ UNCHANGED <<outPipe, stdin, stdout, lock, stage, result, late, started>>

LspForget ==
    /\ \/ /\ closing = "stdin"
          /\ stdin' = NoChild /\ closing' = "stdout" /\ UNCHANGED stdout
       \/ /\ closing = "stdout" /\ lock = NoCall
          /\ stdout' = NoChild /\ closing' = "no" /\ UNCHANGED stdin
    /\ UNCHANGED <<childVars, slot, lock, stage, result, late, started>>

LspMoves(c) ==
    \/ LspSpawn(c) \/ LspSetStdin(c) \/ LspSetStdout(c) \/ LspWrite(c)
    \/ LspLock(c) \/ LspRead(c) \/ LspEof(c) \/ LspExpire(c)

LspStep(c) == LspBegin(c) \/ LspMoves(c) \/ LspDrop(c)
=========================================================================
