--------------------------- MODULE HostProcesses ---------------------------
(* All that the harness keeps of other processes, side by side: the children *)
(* of the stdio JSON-RPC clients, those of the subprocess provider, which    *)
(* the shells and the workflow's step runner use, and the terminals.  They   *)
(* share nothing, so host names the one that is looked at.                   *)
EXTENDS StdioRpc, Subprocess, Terminals

VARIABLE host           \* "rpc", "subprocess" or "terminal"

hostVars == <<vars, subVars, termVars, host>>

HostInit ==
    /\ host \in {"rpc", "subprocess", "terminal"}
    /\ Init /\ SubInit /\ TermInit
    /\ host = "rpc" \/ kind = "dsh"

HostNext ==
    \/ host = "rpc" /\ Next /\ UNCHANGED <<subVars, termVars, host>>
    \/ host = "subprocess" /\ SubNext /\ UNCHANGED <<vars, termVars, host>>
    \/ host = "terminal" /\ TermNext /\ UNCHANGED <<vars, subVars, host>>

\* None of the steps that are fair is possible in a part that is not looked at.
HostSpec == HostInit /\ [][HostNext]_hostVars /\ Progress /\ SubFairness /\ TermFairness
-----------------------------------------------------------------------------
\* Subprocess and terminal tables: children are owned once, statuses and exit
\* codes are told of children that ended, and time-outs and kills leave nothing.
ChildrenAreAccountedFor == EveryChildHasOneOwner /\ ExitCodesAreReal

\* Subprocess and terminal tables: calls end, except behind a child that is
\* silent or blocked, in the ways named.
OnlyChildrenStall == OnlyABlockedChildStalls /\ OnlyASilentTerminalStalls
=============================================================================
