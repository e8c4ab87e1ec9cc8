------------------------ MODULE ParallelWorkflow -------------------------
(***************************************************************************)
(* ParallelWorkflow::run of crates/ma-harness-workflow/src/lib.rs: all     *)
(* steps whose when allows it are spawned, then the handles are awaited    *)
(* one after the other and their results filed.  handles holds the spawned *)
(* tasks only, so position k of handles is step k only while no step       *)
(* before it was left out.                                                 *)
(***************************************************************************)
EXTENDS WorkflowRun

VARIABLE handles   \* task ids of the JoinHandles

vars == <<tasks, def, phase, scan, results, verdict, handles>>

\* evaluate_when before the spawn: a reference to a step is always false.
LetRun(i) == def.when[i] = "true"

Init ==
  /\ RunInit
  /\ phase = "spawn" /\ verdict = "none"
  /\ handles = <<>>

SpawnNext ==
  /\ phase = "spawn" /\ scan <= N
  /\ IF LetRun(scan)
     THEN /\ tasks' = WithSpawned(tasks, scan)
          /\ handles' = Append(handles, Len(tasks) + 1)
          /\ UNCHANGED results
     ELSE /\ results' = [results EXCEPT ![scan] = "Skipped"]
          /\ UNCHANGED <<tasks, handles>>
  /\ scan' = scan + 1
  /\ UNCHANGED <<def, phase, verdict>>

Spawned ==
  /\ phase = "spawn" /\ scan > N
  /\ phase' = "collect" /\ scan' = 1
  /\ UNCHANGED <<tasks, def, handles, results, verdict>>

\* The position already holds a result: the handle is dropped, not awaited.
DropHandle ==
  /\ phase = "collect" /\ scan <= Len(handles)
  /\ results[scan] # "none"
  /\ scan' = scan + 1
  /\ UNCHANGED <<tasks, def, phase, handles, results, verdict>>

\* Faulty variant: results are filed in the order the tasks end.
AwaitAnyHandle ==
  /\ phase = "collect" /\ scan <= Len(handles)
  /\ results[scan] = "none"
  /\ \E t \in In("ended") :
       /\ tasks' = Joined(t)
       /\ results' = [results EXCEPT ![scan] = StatusOf(t)]
  /\ scan' = scan + 1
  /\ UNCHANGED <<def, phase, handles, verdict>>

\* handle.await, filed at the position of the handle.
AwaitHandle ==
  /\ phase = "collect" /\ scan <= Len(handles)
  /\ results[scan] = "none"
  /\ LET t == handles[scan]
     IN /\ tasks[t].stage = "ended"
        /\ tasks' = Joined(t)
        /\ results' = [results EXCEPT ![scan] = StatusOf(t)]
  /\ scan' = scan + 1
  /\ UNCHANGED <<def, phase, handles, verdict>>

\* Every position is unwrapped: run returns, or panics on an empty one.
Finish ==
  /\ phase = "collect" /\ scan > Len(handles)
  /\ phase' = "over"
  /\ verdict' = IF \E i \in Steps : results[i] = "none" THEN "panicked" ELSE "ok"
  /\ UNCHANGED <<tasks, def, scan, handles, results>>

Engine == SpawnNext \/ Spawned \/ DropHandle \/ AwaitHandle \/ Finish

RunTask(t) == TaskStep(t) /\ UNCHANGED <<def, phase, scan, results, verdict, handles>>

Next == Engine \/ \E t \in TaskIds : RunTask(t)
==========================================================================
