---------------------------- MODULE StdioRpc ----------------------------
(* The two stdio JSON-RPC clients of the harness under one roof: the same  *)
(* children, pipes and calls, driven by the DSH adapter (kind = "dsh") or  *)
(* by the LSP provider (kind = "lsp").                                     *)
EXTENDS DshCalls, LspCalls, SequencesExt

CONSTANTS Kinds,       \* the clients to look at
          LspCaller    \* the calls made of the LSP client

VARIABLE kind

vars == <<rpcVars, dshOwn, lspOwn, kind>>

ASSUME StdioAssumption ==
    /\ Timed \subseteq Call /\ Respawner \subseteq Call /\ Closer \subseteq Call
    /\ LspCaller \subseteq Call /\ IsFiniteSet(Call) /\ Child # {}
    /\ NoCall \notin Call /\ NoChild \notin Child
    /\ MaxRespawn \in Nat /\ Kinds \subseteq {"dsh", "lsp"}

Init ==
    /\ kind \in Kinds
    /\ \/ kind = "dsh" /\ DshInit /\ closing = "no" /\ started = reborn
       \/ kind = "lsp" /\ LspInit /\ failures = 0 /\ reborn = started
    /\ inPipe = [k \in Child |-> << >>] /\ outPipe = [k \in Child |-> << >>]
    /\ lock = NoCall /\ late = {}
    /\ stage = [c \in Call |-> "idle"] /\ result = [c \in Call |-> "none"]

Dsh(A) == kind = "dsh" /\ A /\ UNCHANGED <<lspOwn, kind>>
Lsp(A) == kind = "lsp" /\ A /\ UNCHANGED <<dshOwn, kind>>
Server(A) == A /\ UNCHANGED <<dshOwn, lspOwn, kind>>

Next ==
    \/ \E k \in Child : Server(Answer(k)) \/ Server(Dies(k))
    \/ \E c \in Call : Dsh(DshStep(c))
    \/ \E c \in LspCaller : Lsp(LspStep(c))
    \/ Lsp(LspKill) \/ Lsp(LspForget)

Spec == Init /\ [][Next]_vars

\* What has begun goes on and a timeout fires in the end.  A server owes
\* nothing: neither its answer nor its death is fair; nor is a caller's
\* choice to call, to drop a call, to respawn or to shut down.
Progress ==
    /\ \A c \in Call : WF_vars(Dsh(DshMoves(c))) /\ WF_vars(Lsp(LspMoves(c)))
    /\ WF_vars(Lsp(LspForget))
FairSpec == Spec /\ Progress
-------------------------------------------------------------------------
\* Both clients: who holds the lock is a call that reads.
RpcTypeOK ==
    /\ child \in [Child -> {"unborn", "live", "dead"}]
    /\ inPipe \in [Child -> Seq(Call)] /\ outPipe \in [Child -> Seq(Call)]
    /\ {slot, stdin, stdout} \subseteq Child \cup {NoChild}
    /\ result \in [Call -> Result] /\ late \subseteq Child
    /\ failures \in Nat /\ closing \in {"no", "stdin", "stdout"}
    /\ lock # NoCall => stage[lock] \in {"reading", "holding"}

\* DSH, JsonRpcClient::request with call_tool's timeout: one request, one
\* line.  A call that times out or goes away leaves its answer to the next
\* one, whose mismatch leaves its own to the one after: answers and requests
\* stay shifted, but never by more than the number of calls given up.
GivenUp == {c \in Call : result[c] \in {"timeout", "dropped"}}
ShiftedOnlyByGivenUpCalls ==
    kind = "dsh" =>
        \A k \in Child :
            Len(inPipe[k]) + Len(outPipe[k]) <=
                Cardinality(GivenUp) + IF lock # NoCall /\ k = stdin THEN 1 ELSE 0

\* DSH: "response id != request id" is met only on a child on which an
\* earlier call was given up, never by calls that all ran to their end.
MismatchNeedsAGivenUpCall ==
    [][\A c \in Call :
          result'[c] = "mismatch" /\ result[c] # "mismatch" => stdout \in late]_vars

\* DSH, respawn and kill_on_drop: no child runs that neither the adapter
\* nor a respawn on its way owns; respawns and a shutdown may interleave.
InHand(k) == \E c \in Respawner :
                 reborn[c] = k /\ stage[c] \in {"spawned", "installed"}
NoChildIsOrphaned ==
    kind = "dsh" => \A k \in Child : child[k] = "live" => k = slot \/ InHand(k)

\* Both clients: a call hangs for good only behind a reader without a
\* timeout, on a live server that does not write; no lock holds it up else.
Stalled == /\ lock # NoCall /\ lock \notin Timed
           /\ stdout \in Child /\ child[stdout] = "live" /\ outPipe[stdout] = << >>
CallsHangOnlyOnTheServer ==
    []<>(Stalled \/ \A c \in Call : stage[c] \in {"idle", "done"})

\* LSP, read_response ("pair them by id"): once a request's answer lies in
\* the pipe the provider reads, the request ends, whatever others run.
AnsweredRequestsEnd ==
    \A c \in Call, k \in Child :
        (/\ kind = "lsp" /\ stage[c] \in {"reading", "holding"}
         /\ k = stdout /\ c \in ToSet(outPipe[k])) ~> stage[c] = "done"
=========================================================================
