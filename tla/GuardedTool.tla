--------------------------- MODULE GuardedTool ---------------------------
(***************************************************************************)
(* What the tool execution pipeline promises of each tool call, without    *)
(* its hooks, channels and retries: a call is let through or refused once  *)
(* and for all, its tool runs only after it was let through and at most    *)
(* MaxRuns times, and it ends once.                                        *)
(***************************************************************************)
EXTENDS Naturals

CONSTANTS Call, MaxRuns

VARIABLES phase,   \* "new", then "allowed" or "refused", at last "ended"
          runs     \* how often the tool of the call was started

vars == <<phase, runs>>

TypeOK ==
  /\ phase \in [Call -> {"new", "allowed", "refused", "ended"}]
  /\ runs \in [Call -> 0..MaxRuns]

Init == phase = [c \in Call |-> "new"] /\ runs = [c \in Call |-> 0]

Move(c, from, to) ==
  phase[c] \in from /\ phase' = [phase EXCEPT ![c] = to] /\ UNCHANGED runs

Allow(c)  == Move(c, {"new"}, "allowed")
Refuse(c) == Move(c, {"new"}, "refused")
End(c)    == Move(c, {"new", "allowed", "refused"}, "ended")

Run(c) ==
  /\ phase[c] = "allowed" /\ runs[c] < MaxRuns
  /\ runs' = [runs EXCEPT ![c] = @ + 1]
  /\ UNCHANGED phase

Next == \E c \in Call : Allow(c) \/ Refuse(c) \/ End(c) \/ Run(c)

Spec == Init /\ [][Next]_vars
==========================================================================
