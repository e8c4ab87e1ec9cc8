-------------------------- MODULE MCToolPipeline --------------------------
(* Two calls of one tool, registered in turn with a retried, timed entry and
   with one that neither has a timeout nor is ever attempted. *)
EXTENDS ToolPipeline, TLC
CONSTANTS c1, c2, i1, i2, retried, never

MC_IdOf == (c1 :> i1) @@ (c2 :> i2)
MC_SharedId == (c1 :> i1) @@ (c2 :> i1)
MC_Config ==
  (retried :> [attempts |-> 2, timeout |-> TRUE, backoff |-> TRUE]) @@
  (never :> [attempts |-> 0, timeout |-> FALSE, backoff |-> FALSE])
MC_Untimed ==
  (retried :> [attempts |-> 2, timeout |-> TRUE, backoff |-> FALSE]) @@
  (never :> [attempts |-> 1, timeout |-> FALSE, backoff |-> FALSE])
==========================================================================
