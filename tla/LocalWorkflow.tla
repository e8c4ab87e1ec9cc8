-------------------------- MODULE LocalWorkflow --------------------------
(***************************************************************************)
(* LocalWorkflow::run of crates/ma-harness-workflow/src/lib.rs: the steps  *)
(* in the order of the definition, each in run_step_with_retry inside the  *)
(* engine's own future.  A step's when is looked up among the results so   *)
(* far, by the first result of that name.  There is no semaphore: a task   *)
(* here is the step being run, spawned with its permit.                    *)
(***************************************************************************)
EXTENDS WorkflowRun

vars == <<tasks, def, phase, scan, results, verdict>>

Init ==
  /\ RunInit
  /\ phase = "sequence" /\ verdict = "none"

Idle == phase = "sequence" /\ Unjoined = {}

\* Faulty variant: the lookup takes any result of that name.
WhenAny(i) ==
  \/ def.when[i] = "true"
  \/ \E j \in 1..scan - 1 : def.name[j] = def.when[i] /\ results[j] = "Succeeded"

\* evaluate_when over step_results: the first result of the name decides.
When(i) ==
  \/ def.when[i] = "true"
  \/ \E j \in 1..scan - 1 :
       /\ def.when[i] # "false"
       /\ def.name[j] = def.when[i] /\ results[j] = "Succeeded"
       /\ \A k \in 1..j - 1 : def.name[k] # def.when[i]

SkipStep ==
  /\ Idle /\ scan <= N /\ ~ When(scan)
  /\ results' = [results EXCEPT ![scan] = "Skipped"]
  /\ scan' = scan + 1
  /\ UNCHANGED <<tasks, def, phase, verdict>>

RunStep ==
  /\ Idle /\ scan <= N /\ When(scan)
  /\ tasks' = Append(tasks, [step |-> scan, stage |-> "running",
                             attempts |-> 1, result |-> "none"])
  /\ UNCHANGED <<def, phase, scan, results, verdict>>

\* A failed step is recorded like any other and the next one follows.
StepEnded(t) ==
  /\ tasks[t].stage = "ended" /\ tasks[t].result # "Panicked"
  /\ tasks' = Joined(t)
  /\ results' = [results EXCEPT ![scan] = tasks[t].result]
  /\ scan' = scan + 1
  /\ UNCHANGED <<def, phase, verdict>>

\* The runner's panic unwinds through run.
StepPanicked(t) ==
  /\ tasks[t].stage = "ended" /\ tasks[t].result = "Panicked"
  /\ tasks' = Joined(t)
  /\ phase' = "over" /\ verdict' = "panicked"
  /\ UNCHANGED <<def, scan, results>>

Return ==
  /\ Idle /\ scan > N
  /\ phase' = "over" /\ verdict' = "ok"
  /\ UNCHANGED <<tasks, def, scan, results>>

Engine ==
  \/ SkipStep \/ RunStep \/ Return
  \/ \E t \in TaskIds : StepEnded(t) \/ StepPanicked(t)

Attempt(t) ==
  /\ AttemptOk(t) \/ AttemptFailed(t) \/ AttemptTimedOut(t) \/ Panics(t)
  /\ UNCHANGED <<def, phase, scan, results, verdict>>

Next == Engine \/ \E t \in TaskIds : Attempt(t)
==========================================================================
