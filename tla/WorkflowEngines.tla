------------------------- MODULE WorkflowEngines -------------------------
(***************************************************************************)
(* A workflow run as `mah workflow run` starts it (workflow_run of         *)
(* crates/ma-harness-cli/src/main.rs): one of the three engines is chosen  *)
(* and runs the definition with the same runner and permits.  The engines  *)
(* share the state of WorkflowRun; what one of them does not use keeps its *)
(* initial value.                                                          *)
(***************************************************************************)
EXTENDS DagWorkflow

VARIABLES engine, handles

Par == INSTANCE ParallelWorkflow
Loc == INSTANCE LocalWorkflow

engineVars == <<vars, engine, handles>>

EnginesInit ==
  /\ engine \in {"local", "parallel", "dag"}
  /\ CASE engine = "dag" -> Init /\ handles = <<>>
       [] engine = "parallel" -> Par!Init /\ DagIdle
       [] engine = "local" -> Loc!Init /\ DagIdle /\ handles = <<>>

RunDag == engine = "dag" /\ Next /\ UNCHANGED <<engine, handles>>
RunParallel == engine = "parallel" /\ Par!Next /\ UNCHANGED <<engine, dagVars>>
RunLocal == engine = "local" /\ Loc!Next /\ UNCHANGED <<engine, dagVars, handles>>

EnginesNext == RunDag \/ RunParallel \/ RunLocal

EnginesSpec == EnginesInit /\ [][EnginesNext]_engineVars

\* The engine's future is polled whenever what it awaits is ready.
EngineStep ==
  \/ engine = "dag" /\ Dispatch /\ UNCHANGED <<engine, handles>>
  \/ engine = "parallel" /\ Par!Engine /\ UNCHANGED <<engine, dagVars>>
  \/ engine = "local" /\ Loc!Engine /\ UNCHANGED <<engine, dagVars, handles>>

FairEngines == EnginesSpec /\ WF_engineVars(EngineStep) /\ TasksFairness

EnginesTypeOK ==
  /\ RunTypeOK
  /\ engine \in {"local", "parallel", "dag"}
  /\ engine = "dag" => DagTypeOK
  /\ handles \in Seq(TaskIds)

--------------------------------------------------------------------------
(* What every engine promises.                                             *)

Ok == verdict = "ok"
Panicked == \E t \in TaskIds : tasks[t].result = "Panicked"

\* No step is handed to the runner twice in a run: neither a dependency
\* listed twice nor a panic charged to the first step releases a dependent
\* of the DAG again.
EachStepStartsOnce ==
  \A t, u \in TaskIds : tasks[t].step = tasks[u].step => t = u

\* When run returns results, nothing runs any more: no task outlives its run,
\* and results[i] is what became of steps[i], in whatever order the tasks
\* ended (lib.rs:888-890, 1054-1055); it is Skipped only if no task ran it.
\* The DAG keeps a panic out of its place, see SuccessIsReal.
ResultsAreOutcomes ==
  Ok =>
    /\ Unjoined = {}
    /\ ~ (engine = "dag" /\ Panicked) =>
         \A i \in Steps :
           IF results[i] = "Skipped"
           THEN \A t \in TaskIds : tasks[t].step # i
           ELSE \E t \in TaskIds : tasks[t].step = i /\ results[i] = StatusOf(t)

\* A run that reports success really ran every step to success, even when a
\* panic was recorded in a place that was then overwritten.
SuccessIsReal ==
  (Ok /\ \A i \in Steps : results[i] = "Succeeded") =>
    \A i \in Steps : \E t \in In("joined") :
      tasks[t].step = i /\ tasks[t].result = "Succeeded"

\* A run ends, unless a runner without a timeout never answers: no wake-up is
\* lost between the tasks, the semaphore and the worklist.  A definition with
\* a cycle through its first step and a runner that panics breaks it: the
\* panic releases the first step's dependents, the cascade comes back to the
\* first step, whose in-degree stays 0, and the worklist never empties
\* (lib.rs:1234-1257 and 1261-1276; 1055 promises a complete result).
RunReturns == <>(phase = "over") \/ <>[]WaitsOnRunner

--------------------------------------------------------------------------
(* What the DAG adds.                                                      *)

\* A step is only spawned when every step it depends on was run by a task
\* that succeeded and was joined, whatever panics, skips and duplicate names
\* the run meets (lib.rs:1261-1305).
StartsAfterDependencies ==
  engine = "dag" =>
    \A t \in TaskIds : \A d \in DepsOf(tasks[t].step) :
      \E u \in In("joined") : tasks[u].step = d /\ tasks[u].result = "Succeeded"

\* Some set of steps waits for itself: the depends_on relation has a cycle.
Cyclic == \E S \in SUBSET Steps : S # {} /\ \A i \in S : DepsOf(i) \cap S # {}

\* A run reports a cycle exactly when the definition has one, unless a
\* runner panicked: a panic loses the index of its step, which then has no
\* result either.
CycleVerdictExact ==
  engine = "dag" /\ phase = "over" /\ verdict # "unknown_dep" /\ ~ Panicked
    => (verdict = "cycle" <=> Cyclic)

--------------------------------------------------------------------------
(* Skips.                                                                  *)

\* The first step of a name, as the sequential engine resolves it.
First(n) == CHOOSE i \in Steps : def.name[i] = n /\ \A j \in 1..i - 1 : def.name[j] # n

\* In a completed run a step was skipped exactly when it had to be: in
\* sequence, when its when is false or names no earlier step that succeeded
\* in the end; in a DAG whose when's are literals or name a dependency, when
\* its when is false or a dependency, directly or by the cascade, did not
\* succeed; in parallel, whenever its when is not "true".
SkippedForAReason ==
  Ok /\ ~ Panicked =>
    \A i \in Steps :
      LET w == def.when[i]
      IN CASE engine = "local" ->
                (results[i] = "Skipped") =
                  ~ (\/ w = "true"
                     \/ w # "false" /\ Known(w) /\ First(w) < i /\ results[First(w)] = "Succeeded")
           [] engine = "dag" ->
                w \in {"true", "false"} \/ (Known(w) /\ NameToIdx(w) \in DepsOf(i)) =>
                  (results[i] = "Skipped") =
                    (w = "false" \/ \E d \in DepsOf(i) : results[d] # "Succeeded")
           [] engine = "parallel" -> (results[i] = "Skipped") = (w # "true")

--------------------------------------------------------------------------
(* What the documentation says and the code does not do.                   *)

\* lib.rs:956 "预占位 vec, 按 i 索引填, 保证 result.steps[i] 跟
\* definition.steps[i] 对应": the results can always be unwrapped.
EveryPositionFilled == engine = "parallel" => verdict # "panicked"
==========================================================================
