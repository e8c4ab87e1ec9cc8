-------------------------- MODULE MCHostProcesses --------------------------
(* Two children.  DSH: c1 and c4 are tool calls under a timeout, c2, which  *)
(* has none, is the request of a shutdown, c3 is a respawn.  LSP: c1 with   *)
(* a timeout and c2 without.  Subprocess: one child, three calls; it writes *)
(* more than a pipe holds, or reads its stdin first.  Two terminals and two *)
(* calls, that block after one chunk.                                       *)
EXTENDS HostProcesses
CONSTANTS k1, k2, c1, c2, c3, c4

MC_Program == {<<"out", "out">>, <<"err", "err", "out">>, <<"in", "out">>}

RpcSpec == host = "rpc" /\ HostSpec   \* the stdio clients alone
============================================================================
