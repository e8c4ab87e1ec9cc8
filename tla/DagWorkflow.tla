--------------------------- MODULE DagWorkflow ---------------------------
(***************************************************************************)
(* DagWorkflow::run of crates/ma-harness-workflow/src/lib.rs: the          *)
(* dispatcher that releases a step when its dependencies are done, skips   *)
(* what cannot run and collects the results, while the spawned tasks       *)
(* (WorkflowRun) run beside it.  The dispatcher awaits only in join_next;  *)
(* its loops are split into one action per iteration.                      *)
(***************************************************************************)
EXTENDS WorkflowRun

VARIABLES inDegree, failedOrSkipped,
          justCompleted,   \* the worklist, a stack
          releasing        \* dependents[completed_idx] still to be looped over

dagVars == <<inDegree, failedOrSkipped, justCompleted, releasing>>
dispatchVars == <<phase, scan, results, verdict, dagVars>>
vars == <<tasks, def, dispatchVars>>

\* The entries of all depends_on, by step and position.
Entries == UNION {{i} \X DOMAIN def.deps[i] : i \in Steps}

DagTypeOK ==
  /\ RunTypeOK
  /\ phase \in {"initial", "join", "drain", "over"}
  /\ inDegree \in [Steps -> Nat]
  /\ failedOrSkipped \in [Steps -> BOOLEAN]
  /\ justCompleted \in Seq(Steps)
  /\ releasing \subseteq Entries

--------------------------------------------------------------------------
\* name_to_idx: collecting into a HashMap keeps the last step of a name.
Known(n) == n \in Range(def.name)
NameToIdx(n) == CHOOSE i \in Steps :
  def.name[i] = n /\ \A j \in Steps : def.name[j] = n => j <= i

\* The step that entry k of i's depends_on names, and all i depends on.
Dep(i, k) == NameToIdx(def.deps[i][k])
DepsOf(i) == {Dep(i, k) : k \in DOMAIN def.deps[i]}

\* dependents[c]: a step is in it once for every entry that names c.
Dependents(c) == {e \in Entries : Dep(e[1], e[2]) = c}

\* The order the loops of run filled dependents in.
Precedes(e, f) == e[1] < f[1] \/ (e[1] = f[1] /\ e[2] <= f[2])

UnknownDep == \E i \in Steps : \E k \in DOMAIN def.deps[i] : ~ Known(def.deps[i][k])

\* Faulty variant: a dependency listed twice counts once.
InDegreesDistinct ==
  [i \in Steps |-> Cardinality({def.deps[i][k] : k \in DOMAIN def.deps[i]})]

\* in_degree counts the entries of depends_on; saturating_sub lowers it.
InDegrees == [i \in Steps |-> Len(def.deps[i])]

Lowered(k) == IF k = 0 THEN 0 ELSE k - 1

DepsFailed(i) == \E d \in DepsOf(i) : failedOrSkipped[d]

\* evaluate_when in the initial loop, where every reference is false, and
\* in the cascade, where it looks at the results so far.
WhenInitially(i) == def.when[i] = "true"
WhenNow(i) ==
  \/ def.when[i] = "true"
  \/ def.when[i] # "false" /\ Known(def.when[i])
       /\ results[NameToIdx(def.when[i])] = "Succeeded"

--------------------------------------------------------------------------
\* What the dispatcher starts from, and keeps while another engine runs.
DagIdle ==
  /\ inDegree = InDegrees
  /\ failedOrSkipped = [i \in Steps |-> FALSE]
  /\ justCompleted = <<>> /\ releasing = {}

Init ==
  /\ RunInit
  /\ phase = IF UnknownDep THEN "over" ELSE "initial"
  /\ verdict = IF UnknownDep THEN "unknown_dep" ELSE "none"
  /\ DagIdle

Skip(i) ==
  /\ results' = [results EXCEPT ![i] = "Skipped"]
  /\ failedOrSkipped' = [failedOrSkipped EXCEPT ![i] = TRUE]
  /\ justCompleted' = Append(justCompleted, i)
  /\ UNCHANGED tasks

SpawnStep(i) ==
  /\ tasks' = WithSpawned(tasks, i)
  /\ UNCHANGED <<results, failedOrSkipped, justCompleted>>

\* One iteration of the initial spawn loop.
InitialStep ==
  /\ phase = "initial" /\ scan <= N
  /\ scan' = scan + 1
  /\ IF inDegree[scan] # 0
     THEN UNCHANGED <<tasks, results, failedOrSkipped, justCompleted>>
     ELSE IF DepsFailed(scan) \/ ~ WhenInitially(scan)
          THEN Skip(scan)
          ELSE SpawnStep(scan)
  /\ UNCHANGED <<def, phase, inDegree, releasing, verdict>>

\* The main loop is entered.
InitialDone ==
  /\ phase = "initial" /\ scan > N
  /\ phase' = "join"
  /\ UNCHANGED <<tasks, def, scan, inDegree, results, failedOrSkipped,
                 justCompleted, releasing, verdict>>

Record(i, status) ==
  /\ results' = [results EXCEPT ![i] = status]
  /\ failedOrSkipped' = [failedOrSkipped EXCEPT ![i] = @ \/ status # "Succeeded"]
  /\ justCompleted' = Append(justCompleted, i)

\* Faulty variant: a join error is swallowed and the run goes on.
JoinSwallowingPanic(t) ==
  /\ phase = "join"
  /\ tasks[t].stage = "ended"
  /\ tasks' = Joined(t)
  /\ IF tasks[t].result = "Panicked"
     THEN Record(1, "Succeeded")
     ELSE Record(tasks[t].step, tasks[t].result)
  /\ phase' = "drain"
  /\ UNCHANGED <<def, scan, inDegree, releasing, verdict>>

\* join_next: any task that has ended.  A panicked task does not say which
\* step it ran; it is recorded as a failure of the first one.
Join(t) ==
  /\ phase = "join"
  /\ tasks[t].stage = "ended"
  /\ tasks' = Joined(t)
  /\ IF tasks[t].result = "Panicked"
     THEN Record(1, "Failed")
     ELSE Record(tasks[t].step, tasks[t].result)
  /\ phase' = "drain"
  /\ UNCHANGED <<def, scan, inDegree, releasing, verdict>>

\* No task is left, but initially skipped steps still have dependents.
DrainSkipped ==
  /\ phase = "join" /\ Unjoined = {} /\ justCompleted # <<>>
  /\ phase' = "drain"
  /\ UNCHANGED <<tasks, def, scan, inDegree, results, failedOrSkipped,
                 justCompleted, releasing, verdict>>

PopCompleted ==
  /\ phase = "drain" /\ releasing = {} /\ justCompleted # <<>>
  /\ releasing' = Dependents(Last(justCompleted))
  /\ justCompleted' = Front(justCompleted)
  /\ UNCHANGED <<tasks, def, phase, scan, inDegree, results, failedOrSkipped, verdict>>

\* Faulty variant: the dependent is released by its first dependency.
ReleaseEarly(d) ==
  IF DepsFailed(d) \/ ~ WhenNow(d) THEN Skip(d) ELSE SpawnStep(d)

\* What becomes of a dependent whose in-degree has been lowered.
Release(d) ==
  IF inDegree'[d] # 0
  THEN UNCHANGED <<tasks, results, failedOrSkipped, justCompleted>>
  ELSE IF DepsFailed(d) \/ ~ WhenNow(d) THEN Skip(d) ELSE SpawnStep(d)

ReleaseDependent ==
  /\ phase = "drain"
  /\ \E e \in releasing :
       /\ \A f \in releasing : Precedes(e, f)
       /\ inDegree' = [inDegree EXCEPT ![e[1]] = Lowered(@)]
       /\ Release(e[1])
       /\ releasing' = releasing \ {e}
  /\ UNCHANGED <<def, phase, scan, verdict>>

Drained ==
  /\ phase = "drain" /\ releasing = {} /\ justCompleted = <<>>
  /\ phase' = "join"
  /\ UNCHANGED <<tasks, def, scan, inDegree, results, failedOrSkipped,
                 justCompleted, releasing, verdict>>

\* Faulty variant: the loop runs while there are tasks and completions.
FinishWithTasks ==
  /\ phase = "join" /\ justCompleted = <<>>
  /\ phase' = "over"
  /\ verdict' = IF \E i \in Steps : results[i] = "none" THEN "cycle" ELSE "ok"
  /\ UNCHANGED <<tasks, def, scan, inDegree, results, failedOrSkipped,
                 justCompleted, releasing>>

\* The loop ends and run returns; a step without a result is a cycle to it.
Finish ==
  /\ phase = "join" /\ Unjoined = {} /\ justCompleted = <<>>
  /\ phase' = "over"
  /\ verdict' = IF \E i \in Steps : results[i] = "none" THEN "cycle" ELSE "ok"
  /\ UNCHANGED <<tasks, def, scan, inDegree, results, failedOrSkipped,
                 justCompleted, releasing>>

Dispatch ==
  \/ InitialStep \/ InitialDone \/ DrainSkipped \/ PopCompleted
  \/ ReleaseDependent \/ Drained \/ Finish
  \/ \E t \in TaskIds : Join(t)

RunTask(t) == TaskStep(t) /\ UNCHANGED <<def, dispatchVars>>

Next == Dispatch \/ \E t \in TaskIds : RunTask(t)
==========================================================================
