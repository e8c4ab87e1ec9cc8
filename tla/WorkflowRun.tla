--------------------------- MODULE WorkflowRun ---------------------------
(***************************************************************************)
(* What one run of a workflow keeps whichever engine of                    *)
(* crates/ma-harness-workflow/src/lib.rs runs it: the definition, the      *)
(* results by index (step i of the model is index i - 1 of the code), and  *)
(* the tasks the engine spawns.  Each task waits for a permit of the run's *)
(* Semaphore, then runs one step in run_step_with_retry and ends with its  *)
(* StepResult.  The runner is the host's: it may answer, fail, panic or    *)
(* never answer.                                                           *)
(*                                                                         *)
(* tasks holds every task ever spawned, in order of the spawns; a step may *)
(* in principle be spawned more than once.  The engines extend this module *)
(* and join the tasks that have ended.                                     *)
(***************************************************************************)
EXTENDS Naturals, FiniteSets, SequencesExt

CONSTANTS N,               \* number of steps of the definition
          Retries,         \* Step.retries
          Timed,           \* steps with timeout_secs > 0
          MaxConcurrency   \* permits of the semaphore

Steps == 1..N

ASSUME StepTasksAssumption ==
  /\ N \in Nat
  /\ Retries \in [Steps -> Nat]
  /\ Timed \subseteq Steps
  /\ MaxConcurrency \in Nat \ {0}   \* with_max_concurrency clamps to 1

VARIABLES tasks,
          def      \* the definition being run; def.fragile: steps whose runner may panic

\* StepStatus of a step that a runner was given.
Ran == {"Succeeded", "Failed", "TimedOut"}

Task == [step : Steps, stage : {"queued", "running", "ended", "joined"},
         attempts : Nat, result : Ran \cup {"none", "Panicked"}]

TasksTypeOK == tasks \in Seq(Task)

TaskIds == DOMAIN tasks
In(stage) == {t \in TaskIds : tasks[t].stage = stage}

\* tokio::spawn / JoinSet::spawn of the task for step s, on top of ts.
WithSpawned(ts, s) ==
  Append(ts, [step |-> s, stage |-> "queued", attempts |-> 0, result |-> "none"])

\* Faulty variant: a permit is forgotten instead of dropped with its task.
AcquireLeaking(t) ==
  /\ tasks[t].stage = "queued"
  /\ Cardinality(TaskIds \ In("queued")) < MaxConcurrency
  /\ tasks' = [tasks EXCEPT ![t].stage = "running", ![t].attempts = 1]

\* A waiting task gets a permit (tasks reach the semaphore in any order) and
\* starts its first attempt.
Acquire(t) ==
  /\ tasks[t].stage = "queued"
  /\ Cardinality(In("running")) < MaxConcurrency
  /\ tasks' = [tasks EXCEPT ![t].stage = "running", ![t].attempts = 1]

Ends(t, r) == tasks' = [tasks EXCEPT ![t].stage = "ended", ![t].result = r]

\* runner.run(step) returns Ok: the loop breaks, the permit is released.
AttemptOk(t) == tasks[t].stage = "running" /\ Ends(t, "Succeeded")

\* An attempt that did not succeed is followed by the next, up to
\* total_attempts = 1 + retries; the last one's status is the step's.
AttemptLost(t, r) ==
  /\ tasks[t].stage = "running"
  /\ IF tasks[t].attempts < 1 + Retries[tasks[t].step]
     THEN tasks' = [tasks EXCEPT ![t].attempts = @ + 1]
     ELSE Ends(t, r)

AttemptFailed(t) == AttemptLost(t, "Failed")
AttemptTimedOut(t) == tasks[t].step \in Timed /\ AttemptLost(t, "TimedOut")

\* The runner panics: the task unwinds, releasing its permit.
Panics(t) ==
  /\ tasks[t].stage = "running" /\ tasks[t].step \in def.fragile
  /\ Ends(t, "Panicked")

TaskStep(t) ==
  Acquire(t) \/ AttemptOk(t) \/ AttemptFailed(t) \/ AttemptTimedOut(t) \/ Panics(t)

\* StepResult.attempts as run_step_with_retry fills it.
ReportedAttempts(t) ==
  IF tasks[t].result = "Succeeded" THEN 1 ELSE 1 + Retries[tasks[t].step]

\* Some step without a timeout is in a runner that has not answered.
WaitsOnRunner == \E t \in In("running") : tasks[t].step \notin Timed

\* Tasks are polled by the runtime and timers fire; the runner owes nothing.
TasksFairness ==
  \A t \in 1..N : /\ WF_tasks(t \in TaskIds /\ Acquire(t))
                  /\ WF_tasks(t \in TaskIds /\ AttemptTimedOut(t))

--------------------------------------------------------------------------
CONSTANTS Names,        \* step names a definition may use
          Definitions   \* the workflows that may be run

\* Step.name, Step.depends_on and Step.when of every step.  A when is a
\* literal ("true", also for None and "", or "false") or a step's name.
\* fragile are the steps whose runner, the host's, may panic.
Definition == [name : [Steps -> Names], deps : [Steps -> Seq(Names)],
               when : [Steps -> {"true", "false"} \cup Names],
               fragile : SUBSET Steps]

ASSUME WorkflowAssumption == Definitions \subseteq Definition

VARIABLES phase,     \* the loop of run the engine is in
          scan,      \* the loop's index
          results,   \* a status for every step that has one
          verdict    \* how run ended

RunTypeOK ==
  /\ TasksTypeOK
  /\ def \in Definition
  /\ scan \in 1..N + 1
  /\ results \in [Steps -> Ran \cup {"none", "Skipped"}]
  /\ verdict \in {"none", "ok", "unknown_dep", "cycle", "panicked"}

RunInit ==
  /\ tasks = <<>>
  /\ def \in Definitions
  /\ scan = 1
  /\ results = [i \in Steps |-> "none"]

\* A step whose task panicked is Failed to the engine that knows the step.
StatusOf(t) == IF tasks[t].result = "Panicked" THEN "Failed" ELSE tasks[t].result

Unjoined == {t \in TaskIds : tasks[t].stage # "joined"}
Joined(t) == [tasks EXCEPT ![t].stage = "joined"]
==========================================================================
