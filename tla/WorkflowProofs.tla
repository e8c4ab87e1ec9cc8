------------------------- MODULE WorkflowProofs --------------------------
(***************************************************************************)
(* What a workflow run may rely on, for any number of steps, any set of    *)
(* definitions, any retries and any number of permits, in each of the      *)
(* three engines.                                                          *)
(*                                                                         *)
(* The heart is the DAG's bookkeeping.  Without the panics whose step is   *)
(* lost, the in-degree of a step is the number of its depends_on entries   *)
(* that have not been released yet: those whose step has no result, is on  *)
(* the worklist, or is being looped over.  A panic breaks that for steps   *)
(* below the first one only, and those see a failed dependency.            *)
(***************************************************************************)
EXTENDS WorkflowEngines, FiniteSetTheorems, WellFoundedInduction, TLAPS

Started(i) == \E t \in TaskIds : tasks[t].step = i
Done(i) == \E u \in In("joined") : tasks[u].step = i /\ tasks[u].result = "Succeeded"

\* What is true of tasks and results whichever engine runs.
TasksInv ==
  /\ TasksTypeOK
  /\ \A t \in TaskIds : tasks[t].stage \in {"ended", "joined"} <=> tasks[t].result # "none"
RunInv ==
  /\ TasksInv
  /\ def \in Definition
  /\ scan \in 1..N + 1
  /\ results \in [Steps -> Ran \cup {"none", "Skipped"}]
  /\ verdict \in {"none", "ok", "unknown_dep", "cycle", "panicked"}

-------------------------------------------------------------------------
(* The sequential engine.                                                  *)

\* What the when of step i comes to when its turn has come.
WhenInTurn(i) ==
  \/ def.when[i] = "true"
  \/ \E j \in 1..i - 1 :
       /\ def.when[i] # "false"
       /\ def.name[j] = def.when[i] /\ results[j] = "Succeeded"
       /\ \A k \in 1..j - 1 : def.name[k] # def.when[i]

LocalInv ==
  /\ phase \in {"sequence", "over"}
  /\ verdict \in {"none", "ok", "panicked"} /\ (phase = "sequence" <=> verdict = "none")
  /\ \A t, u \in TaskIds : tasks[t].step = tasks[u].step => t = u
  /\ \A t \in TaskIds :
       /\ tasks[t].step <= scan
       /\ tasks[t].stage # "joined" =>
            tasks[t].step = scan /\ phase = "sequence" /\ WhenInTurn(scan)
       /\ tasks[t].stage = "joined" /\ tasks[t].step = scan => verdict = "panicked"
  /\ verdict = "ok" => scan > N
  /\ \A i \in Steps : i >= scan <=> results[i] = "none"
  /\ \A i \in 1..scan - 1 :
       IF results[i] = "Skipped" THEN ~ Started(i) /\ ~ WhenInTurn(i)
       ELSE /\ WhenInTurn(i)
            /\ \E t \in In("joined") : tasks[t].step = i /\ tasks[t].result = results[i]

-------------------------------------------------------------------------
(* The parallel engine.                                                    *)

\* The steps before i that are not spawned: by so much the handles shift.
LeftOut(i) == {j \in 1..i - 1 : def.when[j] # "true"}

ParallelInv ==
  /\ phase \in {"spawn", "collect", "over"}
  /\ IF phase = "over"
     THEN verdict = IF \E i \in Steps : results[i] = "none" THEN "panicked" ELSE "ok"
     ELSE verdict = "none"
  /\ handles = [k \in TaskIds |-> k]
  /\ \A t \in TaskIds :
       /\ def.when[tasks[t].step] = "true"
       /\ tasks[t].step = t + Cardinality(LeftOut(tasks[t].step))
  /\ phase = "spawn" =>
       /\ Len(tasks) + Cardinality(LeftOut(scan)) = scan - 1
       /\ \A t \in TaskIds : tasks[t].step < scan /\ tasks[t].stage # "joined"
       /\ \A i \in Steps : results[i] = IF i < scan /\ def.when[i] # "true" THEN "Skipped" ELSE "none"
  /\ phase # "spawn" =>
       /\ Len(tasks) + Cardinality(LeftOut(N + 1)) = N
       /\ phase = "over" => scan > Len(tasks)
       /\ \A i \in Steps :
            IF def.when[i] # "true" THEN results[i] = "Skipped"
            ELSE IF i < scan THEN /\ i \in In("joined")
                                 /\ results[i] = StatusOf(i)
            ELSE results[i] = "none"

-------------------------------------------------------------------------
(* The DAG.                                                                *)

\* The entries of i's depends_on that have not been released.
Open(i) ==
  {k \in DOMAIN def.deps[i] : \/ results[Dep(i, k)] = "none"
                              \/ Dep(i, k) \in Range(justCompleted)
                              \/ <<i, k>> \in releasing}

\* Whether completions of step c are known to be its own.
Reliable(c) == ~ failedOrSkipped[c] \/ ~ Panicked

DagTypes ==
  /\ phase \in {"initial", "join", "drain", "over"}
  /\ inDegree \in [Steps -> Nat]
  /\ failedOrSkipped \in [Steps -> BOOLEAN]
  /\ justCompleted \in Seq(Steps)
  /\ releasing \subseteq Entries

DagPhases ==
  /\ phase # "drain" => releasing = {}
  /\ phase = "over" => justCompleted = <<>> /\ Unjoined = {}
  /\ verdict = IF phase # "over" THEN "none"
               ELSE IF \E i \in Steps : results[i] = "none" THEN "cycle" ELSE "ok"
  /\ phase = "initial" =>
       /\ inDegree = InDegrees
       /\ \A i \in Steps : i >= scan => ~ Started(i) /\ results[i] = "none"
       /\ \A i \in Steps : Started(i) \/ results[i] # "none" => Len(def.deps[i]) = 0

\* Who has completed, and how: a step that counts as succeeded was run by a
\* task that succeeded.
DagResults ==
  /\ \A i \in Steps : results[i] = "Succeeded" => Done(i)
  /\ \A i \in Steps : Done(i) => results[i] # "none"
  /\ \A i \in Steps : ~ failedOrSkipped[i] => results[i] \in {"none", "Succeeded"}
  /\ \A i \in Range(justCompleted) : results[i] # "none"
  /\ \A e \in releasing : results[Dep(e[1], e[2])] # "none"

\* A reliable completion is on the worklist, or looped over, once.
DagWorklist ==
  /\ \A p, q \in DOMAIN justCompleted :
       justCompleted[p] = justCompleted[q] /\ Reliable(justCompleted[p]) => p = q
  /\ \A e \in releasing :
       Reliable(Dep(e[1], e[2])) => Dep(e[1], e[2]) \notin Range(justCompleted)

DagCounts ==
  \A i \in Steps :
    /\ ~ DepsFailed(i) \/ ~ Panicked => inDegree[i] = Cardinality(Open(i))
    /\ Started(i) /\ ~ DepsFailed(i) => Open(i) = {}

DagStarts ==
  /\ \A t, u \in TaskIds : tasks[t].step = tasks[u].step => t = u
  /\ \A i \in Steps : Started(i) => \A d \in DepsOf(i) : Done(d)

\* What holds as long as no runner has panicked.
Determined(i) ==
  def.when[i] \in {"true", "false"} \/ (Known(def.when[i]) /\ NameToIdx(def.when[i]) \in DepsOf(i))
DagUnpanicked ==
  ~ Panicked =>
    /\ \A t \in TaskIds : results[tasks[t].step] =
                            IF tasks[t].stage = "joined" THEN tasks[t].result ELSE "none"
    /\ \A i \in Steps : results[i] \in Ran => Started(i)
    /\ \A i \in Steps : failedOrSkipped[i] => results[i] \notin {"none", "Succeeded"}
    /\ \A i \in Steps : results[i] # "none" => Open(i) = {}
    /\ \A i \in Steps : Started(i) => def.when[i] # "false"
    /\ \A i \in Steps : results[i] = "Skipped" /\ Determined(i) =>
         def.when[i] = "false" \/ \E d \in DepsOf(i) : results[d] # "Succeeded"
    /\ phase # "initial" => \A i \in Steps :
         ~ Started(i) /\ results[i] = "none" => inDegree[i] > 0
    /\ phase = "initial" => \A i \in Steps :
         i < scan /\ ~ Started(i) /\ results[i] = "none" => inDegree[i] > 0
    /\ \A S \in SUBSET Steps : (\A i \in S : DepsOf(i) \cap S # {}) =>
         \A i \in S : results[i] = "none" /\ ~ Started(i)

DagBooks ==
  /\ DagTypes /\ DagPhases /\ DagResults /\ DagWorklist /\ DagCounts
  /\ DagStarts /\ DagUnpanicked

DagInv ==
  IF UnknownDep
  THEN /\ phase = "over" /\ verdict = "unknown_dep"
       /\ tasks = <<>> /\ results = [i \in Steps |-> "none"]
  ELSE DagBooks

EnginesInv ==
  /\ RunInv
  /\ engine \in {"local", "parallel", "dag"}
  /\ engine = "local" => LocalInv
  /\ engine = "parallel" => ParallelInv
  /\ engine = "dag" => DagInv

-------------------------------------------------------------------------
(* Operators of the model.                                                 *)

\* Induction, as the provers can use it: a set of numbers has a smallest.
LEMMA SmallestOf ==
  ASSUME NEW S \in SUBSET Nat, S # {}
  PROVE  \E i \in S : \A j \in S : i <= j
<1> DEFINE Less == OpToRel(<, Nat)
<1>1. IsWellFoundedOn(Less, Nat)
  BY NatLessThanWellFounded
<1>2. \A x, y \in Nat : <<y, x>> \in Less <=> y < x
  BY DEF OpToRel
<1> HIDE DEF Less
<1>3. PICK x \in S : \A y \in S : ~ (<<y, x>> \in Less)
  BY <1>1, WFMin
<1>4. ASSUME NEW y \in S PROVE x <= y
  <2>1. x \in Nat /\ y \in Nat
    OBVIOUS
  <2>2. ~ (y < x)
    BY <1>2, <1>3, <2>1
  <2> QED BY <2>1, <2>2
<1> QED BY <1>4

LEMMA LargestStep ==
  ASSUME NEW S \in SUBSET Steps, S # {}
  PROVE  \E i \in S : \A j \in S : j <= i
<1> DEFINE T == {N - i : i \in S}
<1>1. T \subseteq Nat
  <2> SUFFICES ASSUME NEW i \in S PROVE N - i \in Nat
    OBVIOUS
  <2> QED BY StepTasksAssumption DEF Steps
<1>2. PICK x \in T : \A y \in T : x <= y
  <2>1. T # {}
    OBVIOUS
  <2> HIDE DEF T
  <2> QED BY <1>1, <2>1, SmallestOf
<1>3. PICK i \in S : x = N - i
  OBVIOUS
<1>4. ASSUME NEW j \in S PROVE j <= i
  <2>1. x <= N - j
    BY <1>2
  <2>2. i \in Nat /\ j \in Nat /\ N \in Nat
    BY StepTasksAssumption DEF Steps
  <2> QED BY <1>3, <2>1, <2>2
<1> QED BY <1>4

LEMMA NameToIdxIsLast ==
  ASSUME NEW n, Known(n), def \in Definition
  PROVE  NameToIdx(n) \in Steps /\ def.name[NameToIdx(n)] = n
<1> DEFINE S == {i \in Steps : def.name[i] = n}
<1>1. S # {}
  BY DEF Known, Range, Definition
<1>2. PICK i \in S : \A j \in S : j <= i
  BY <1>1, LargestStep
<1> QED BY <1>2 DEF NameToIdx

\* The first step of a name, as the lookup in the results so far finds it.
LEMMA FirstIsUnique ==
  ASSUME NEW n, NEW i \in Steps, def.name[i] = n, \A j \in 1..i - 1 : def.name[j] # n
  PROVE  First(n) = i
BY DEF First, Steps

LEMMA FirstExists ==
  ASSUME NEW n, Known(n), def \in Definition
  PROVE  /\ First(n) \in Steps /\ def.name[First(n)] = n
         /\ \A j \in 1..First(n) - 1 : def.name[j] # n
<1> DEFINE S == {i \in Steps : def.name[i] = n}
<1>1. S # {}
  BY DEF Known, Range, Definition
<1>2. PICK i \in S : \A j \in S : i <= j
  <2>1. S \in SUBSET Nat
    BY DEF Steps
  <2> HIDE DEF S
  <2> QED BY <1>1, <2>1, SmallestOf
<1>3. ASSUME NEW j \in 1..i - 1 PROVE def.name[j] # n
  <2>1. i \in 1..N /\ j \in Steps /\ ~ (i <= j)
    BY StepTasksAssumption DEF Steps
  <2> QED BY <1>2, <2>1
<1> QED BY <1>3, FirstIsUnique

LEMMA DependenciesAreSteps ==
  ASSUME def \in Definition, ~ UnknownDep, NEW i \in Steps, NEW k \in DOMAIN def.deps[i]
  PROVE  Dep(i, k) \in Steps
BY NameToIdxIsLast DEF UnknownDep, Dep

LEMMA EntriesAre ==
  ASSUME def \in Definition
  PROVE  /\ \A e \in Entries : /\ e[1] \in Steps /\ e[2] \in DOMAIN def.deps[e[1]]
                                /\ e = <<e[1], e[2]>>
         /\ \A i \in Steps : \A k \in DOMAIN def.deps[i] : <<i, k>> \in Entries
BY DEF Entries

LEMMA DepsAreFinite ==
  ASSUME def \in Definition, NEW i \in Steps
  PROVE  /\ Len(def.deps[i]) \in Nat /\ DOMAIN def.deps[i] = 1..Len(def.deps[i])
         /\ IsFiniteSet(DOMAIN def.deps[i])
         /\ Cardinality(DOMAIN def.deps[i]) = Len(def.deps[i])
<1>1. def.deps[i] \in Seq(Names)
  BY DEF Definition
<1>2. Len(def.deps[i]) \in Nat /\ DOMAIN def.deps[i] = 1..Len(def.deps[i])
  BY <1>1
<1> QED BY <1>2, FS_Interval

-------------------------------------------------------------------------
(* What steps do to the tasks.                                             *)

\* A step of a task's own leaves which step it runs, and, once it has ended,
\* how it ended.
LEMMA TaskStepKeeps ==
  ASSUME TasksInv, NEW t \in TaskIds, TaskStep(t)
  PROVE  /\ TasksInv'
         /\ Len(tasks') = Len(tasks) /\ TaskIds' = TaskIds
         /\ \A u \in TaskIds :
              /\ tasks'[u].step = tasks[u].step
              /\ tasks'[u].stage = "joined" <=> tasks[u].stage = "joined"
              /\ tasks[u].result # "none" => tasks'[u].result = tasks[u].result
<1>1. tasks \in Seq(Task) /\ TaskIds = 1..Len(tasks) /\ Len(tasks) \in Nat
  BY DEF TasksInv, TasksTypeOK, TaskIds
<1>2. PICK new \in Task :
        /\ tasks' = [tasks EXCEPT ![t] = new]
        /\ new.step = tasks[t].step /\ new.stage # "joined" /\ tasks[t].stage \in {"queued", "running"}
        /\ new.stage = "ended" <=> new.result # "none"
  <2> DEFINE old == tasks[t]
             Becomes(new) == /\ tasks' = [tasks EXCEPT ![t] = new]
                             /\ new.step = old.step /\ new.stage # "joined"
                             /\ old.stage \in {"queued", "running"}
                             /\ new.stage = "ended" <=> new.result # "none"
  <2>0. old \in Task /\ (old.stage \in {"ended", "joined"} <=> old.result # "none")
    BY <1>1 DEF TasksInv
  <2>1. ASSUME old.stage = "queued", tasks' = [tasks EXCEPT ![t].stage = "running", ![t].attempts = 1]
        PROVE  \E new \in Task : Becomes(new)
    <3> DEFINE new == [old EXCEPT !.stage = "running", !.attempts = 1]
    <3>1. new \in Task /\ new.step = old.step /\ new.stage = "running" /\ new.result = old.result
      BY <2>0 DEF Task
    <3>2. tasks' = [tasks EXCEPT ![t] = new]
      BY <2>1, <1>1
    <3> QED BY <2>0, <2>1, <3>1, <3>2
  <2>2. ASSUME NEW r \in Ran \cup {"Panicked"}, old.stage = "running", Ends(t, r)
        PROVE  \E new \in Task : Becomes(new)
    <3> DEFINE new == [old EXCEPT !.stage = "ended", !.result = r]
    <3>1. new \in Task /\ new.step = old.step /\ new.stage = "ended" /\ new.result = r /\ r # "none"
      BY <2>0 DEF Task, Ran
    <3>2. tasks' = [tasks EXCEPT ![t] = new]
      BY <2>2, <1>1 DEF Ends
    <3> QED BY <2>0, <2>2, <3>1, <3>2
  <2>3. ASSUME old.stage = "running", tasks' = [tasks EXCEPT ![t].attempts = @ + 1]
        PROVE  \E new \in Task : Becomes(new)
    <3> DEFINE new == [old EXCEPT !.attempts = @ + 1]
    <3>1. new \in Task /\ new.step = old.step /\ new.stage = "running" /\ new.result = old.result
      BY <2>0, <2>3 DEF Task
    <3>2. tasks' = [tasks EXCEPT ![t] = new]
      BY <2>3, <1>1
    <3> QED BY <2>0, <2>3, <3>1, <3>2
  <2> HIDE DEF Becomes
  <2>4. \E new \in Task : Becomes(new)
    BY <2>1, <2>2, <2>3
       DEF TaskStep, Acquire, AttemptOk, AttemptFailed, AttemptTimedOut, AttemptLost, Panics, Ran
  <2> QED BY <2>4 DEF Becomes
<1>3. tasks' \in Seq(Task) /\ Len(tasks') = Len(tasks) /\ TaskIds' = TaskIds
  BY <1>1, <1>2 DEF TaskIds
<1>4. \A u \in TaskIds : tasks'[u] = IF u = t THEN new ELSE tasks[u]
  BY <1>1, <1>2
<1> QED BY <1>1, <1>2, <1>3, <1>4 DEF TasksInv, TasksTypeOK

\* The engine joins a task that has ended.
LEMMA JoinKeeps ==
  ASSUME TasksInv, NEW t \in TaskIds, tasks[t].stage = "ended", tasks' = Joined(t)
  PROVE  /\ TasksInv'
         /\ Len(tasks') = Len(tasks) /\ TaskIds' = TaskIds
         /\ \A u \in TaskIds :
              /\ tasks'[u].step = tasks[u].step /\ tasks'[u].result = tasks[u].result
              /\ tasks'[u].stage = IF u = t THEN "joined" ELSE tasks[u].stage
<1>1. tasks \in Seq(Task) /\ TaskIds = 1..Len(tasks) /\ Len(tasks) \in Nat
  BY DEF TasksInv, TasksTypeOK, TaskIds
<1> DEFINE new == [tasks[t] EXCEPT !.stage = "joined"]
<1>2. /\ new \in Task /\ new.step = tasks[t].step /\ new.stage = "joined"
      /\ new.result = tasks[t].result /\ new.result # "none"
  <2>1. tasks[t] \in Task /\ tasks[t].result # "none"
    BY <1>1 DEF TasksInv
  <2> QED BY <2>1 DEF Task
<1>3. tasks' = [tasks EXCEPT ![t] = new]
  BY <1>1 DEF Joined
<1> HIDE DEF new
<1>4. tasks' \in Seq(Task) /\ Len(tasks') = Len(tasks) /\ TaskIds' = TaskIds
  BY <1>1, <1>2, <1>3 DEF TaskIds
<1>5. \A u \in TaskIds : tasks'[u] = IF u = t THEN new ELSE tasks[u]
  BY <1>1, <1>3
<1> QED BY <1>1, <1>2, <1>4, <1>5 DEF TasksInv, TasksTypeOK

\* The engine spawns a task for step s.
LEMMA SpawnKeeps ==
  ASSUME TasksInv, NEW s \in Steps, NEW stage \in {"queued", "running"}, NEW n \in Nat,
         tasks' = Append(tasks, [step |-> s, stage |-> stage, attempts |-> n, result |-> "none"])
  PROVE  /\ TasksInv'
         /\ Len(tasks) \in Nat /\ TaskIds = 1..Len(tasks) /\ TaskIds' = 1..Len(tasks) + 1
         /\ Len(tasks') = Len(tasks) + 1
         /\ \A u \in TaskIds : tasks'[u] = tasks[u]
         /\ tasks'[Len(tasks) + 1].step = s /\ tasks'[Len(tasks) + 1].stage = stage
         /\ tasks'[Len(tasks) + 1].result = "none"
<1>1. tasks \in Seq(Task) /\ TaskIds = 1..Len(tasks) /\ Len(tasks) \in Nat
  BY DEF TasksInv, TasksTypeOK, TaskIds
<1> DEFINE new == [step |-> s, stage |-> stage, attempts |-> n, result |-> "none"]
<1>2. new \in Task /\ new.step = s /\ new.stage = stage /\ new.result = "none"
  BY DEF Task
<1> HIDE DEF new
<1>3. tasks' = Append(tasks, new)
  BY DEF new
<1>4. /\ tasks' \in Seq(Task) /\ Len(tasks') = Len(tasks) + 1
      /\ \A u \in TaskIds : tasks'[u] = tasks[u]
      /\ tasks'[Len(tasks) + 1] = new
  BY <1>1, <1>2, <1>3
<1>5. TaskIds' = 1..Len(tasks) + 1
  BY <1>4 DEF TaskIds
<1>6. ASSUME NEW u \in TaskIds'
      PROVE  tasks'[u].stage \in {"ended", "joined"} <=> tasks'[u].result # "none"
  <2>1. u \in TaskIds \/ u = Len(tasks) + 1
    BY <1>1, <1>5
  <2> QED BY <1>2, <1>4, <2>1 DEF TasksInv
<1> QED BY <1>1, <1>2, <1>4, <1>5, <1>6 DEF TasksInv, TasksTypeOK

\* The three engines run the same tasks.
LEMMA SameTasks ==
  ASSUME NEW t \in TaskIds
  PROVE  /\ Par!TaskIds = TaskIds /\ Loc!TaskIds = TaskIds
         /\ Par!RunTask(t) => TaskStep(t) /\ UNCHANGED <<def, phase, scan, results, verdict, handles>>
         /\ Loc!Attempt(t) => TaskStep(t) /\ UNCHANGED <<def, phase, scan, results, verdict>>
<1>1. Par!TaskIds = TaskIds /\ Loc!TaskIds = TaskIds
  BY DEF Par!TaskIds, Loc!TaskIds, TaskIds
<1>2. Par!Steps = Steps /\ Par!Ran = Ran
  BY DEF Par!Steps, Steps, Par!Ran, Ran
<1>3. Par!TaskStep(t) => TaskStep(t)
  <2>1. Par!Acquire(t) => Acquire(t)
    <3>1. Par!In("running") = In("running")
      BY DEF Par!In, In, Par!TaskIds, TaskIds
    <3>2. \A S : Par!Cardinality(S) = Cardinality(S)
      BY DEF Par!Cardinality, Cardinality, Par!IsFiniteSet, IsFiniteSet
    <3> QED BY <3>1, <3>2 DEF Par!Acquire, Acquire
  <2>2. Par!AttemptOk(t) => AttemptOk(t)
    BY DEF Par!AttemptOk, AttemptOk, Par!Ends, Ends
  <2>3. Par!AttemptFailed(t) => AttemptFailed(t)
    BY DEF Par!AttemptFailed, AttemptFailed, Par!AttemptLost, AttemptLost, Par!Ends, Ends
  <2>4. Par!AttemptTimedOut(t) => AttemptTimedOut(t)
    BY DEF Par!AttemptTimedOut, AttemptTimedOut, Par!AttemptLost, AttemptLost, Par!Ends, Ends
  <2>5. Par!Panics(t) => Panics(t)
    BY DEF Par!Panics, Panics, Par!Ends, Ends
  <2> QED BY <2>1, <2>2, <2>3, <2>4, <2>5 DEF Par!TaskStep, TaskStep
<1>4. Loc!Attempt(t) => TaskStep(t)
  <2>2. Loc!AttemptOk(t) => AttemptOk(t)
    BY DEF Loc!AttemptOk, AttemptOk, Loc!Ends, Ends
  <2>3. Loc!AttemptFailed(t) => AttemptFailed(t)
    BY DEF Loc!AttemptFailed, AttemptFailed, Loc!AttemptLost, AttemptLost, Loc!Ends, Ends
  <2>4. Loc!AttemptTimedOut(t) => AttemptTimedOut(t)
    BY DEF Loc!AttemptTimedOut, AttemptTimedOut, Loc!AttemptLost, AttemptLost, Loc!Ends, Ends
  <2>5. Loc!Panics(t) => Panics(t)
    BY DEF Loc!Panics, Panics, Loc!Ends, Ends
  <2> QED BY <2>2, <2>3, <2>4, <2>5 DEF Loc!Attempt, TaskStep
<1> QED BY <1>1, <1>3, <1>4 DEF Par!RunTask, Loc!Attempt

-------------------------------------------------------------------------
(* The sequential engine.                                                  *)

LEMMA EarlierResultsDecide ==
  ASSUME RunInv, NEW i \in 1..N + 1, def' = def,
         \A j \in 1..i - 1 : results'[j] = results[j]
  PROVE  WhenInTurn(i)' <=> WhenInTurn(i)
BY DEF WhenInTurn

LEMMA LocalTask ==
  ASSUME RunInv, LocalInv, NEW t \in TaskIds, Loc!Attempt(t)
  PROVE  RunInv' /\ LocalInv'
<1>1. UNCHANGED <<def, phase, scan, results, verdict>> /\ TaskStep(t)
  BY SameTasks
<1>2. /\ TasksInv' /\ TaskIds' = TaskIds
      /\ \A u \in TaskIds :
           /\ tasks'[u].step = tasks[u].step
           /\ tasks'[u].stage = "joined" <=> tasks[u].stage = "joined"
           /\ tasks[u].result # "none" => tasks'[u].result = tasks[u].result
  BY <1>1, TaskStepKeeps DEF RunInv
<1>3. \A i \in 1..N + 1 : WhenInTurn(i)' <=> WhenInTurn(i)
  BY <1>1, EarlierResultsDecide
<1>4. \A u \in TaskIds : tasks[u].stage = "joined" => tasks'[u].result = tasks[u].result
  BY <1>2 DEF RunInv, TasksInv
<1>5. RunInv'
  BY <1>1, <1>2 DEF RunInv
<1>6. scan \in 1..N + 1 /\ 1..scan - 1 \subseteq 1..N + 1
  BY StepTasksAssumption DEF RunInv
<1>7. \A i : Started(i)' <=> Started(i)
  BY <1>2 DEF Started
<1>8. ASSUME NEW i \in 1..scan - 1
      PROVE  (IF results[i] = "Skipped" THEN ~ Started(i) /\ ~ WhenInTurn(i)
              ELSE /\ WhenInTurn(i)
                   /\ \E u \in In("joined") : tasks[u].step = i /\ tasks[u].result = results[i])'
  <2>1. (\E u \in In("joined") : tasks[u].step = i /\ tasks[u].result = results[i])
          => (\E u \in In("joined") : tasks[u].step = i /\ tasks[u].result = results[i])'
    BY <1>1, <1>2, <1>4 DEF In
  <2> QED BY <1>1, <1>3, <1>6, <1>7, <2>1 DEF LocalInv
<1>9. LocalInv'
  BY <1>1, <1>2, <1>3, <1>6, <1>8 DEF LocalInv
<1> QED BY <1>5, <1>9

LEMMA LocalEngine ==
  ASSUME RunInv, LocalInv, Loc!Engine
  PROVE  RunInv' /\ LocalInv'
<1>0. /\ scan \in 1..N + 1 /\ N \in Nat /\ Steps = 1..N /\ 1..scan - 1 \subseteq Steps
      /\ tasks \in Seq(Task) /\ TaskIds = 1..Len(tasks) /\ Len(tasks) \in Nat
      /\ \A t \in TaskIds : tasks[t] \in Task /\ tasks[t].step \in Steps
  <2>1. scan \in 1..N + 1 /\ N \in Nat /\ Steps = 1..N /\ 1..scan - 1 \subseteq Steps
    BY StepTasksAssumption DEF RunInv, Steps
  <2>2. tasks \in Seq(Task) /\ TaskIds = 1..Len(tasks) /\ Len(tasks) \in Nat
    BY DEF RunInv, TasksInv, TasksTypeOK, TaskIds
  <2>3. \A t \in TaskIds : tasks[t] \in Task
    BY <2>2
  <2> QED BY <2>1, <2>2, <2>3 DEF Task
<1>1. ASSUME phase = "sequence", NEW i \in Steps, i = scan
      PROVE  Loc!When(i) <=> WhenInTurn(i)
  BY <1>1 DEF Loc!When, WhenInTurn
<1>2. Loc!Unjoined = Unjoined /\ Loc!TaskIds = TaskIds
  BY DEF Loc!Unjoined, Unjoined, Loc!TaskIds, TaskIds
<1>3. CASE Loc!SkipStep
  <2>1. /\ phase = "sequence" /\ scan \in Steps /\ ~ WhenInTurn(scan)
        /\ \A t \in TaskIds : tasks[t].stage = "joined" /\ tasks[t].step # scan
        /\ results' = [results EXCEPT ![scan] = "Skipped"] /\ scan' = scan + 1
        /\ UNCHANGED <<tasks, def, phase, verdict>>
    BY <1>0, <1>1, <1>2, <1>3 DEF Loc!SkipStep, Loc!Idle, Unjoined, LocalInv
  <2>2. RunInv' /\ \A i \in Steps : results'[i] = IF i = scan THEN "Skipped" ELSE results[i]
    BY <1>0, <2>1 DEF RunInv, TasksInv, TasksTypeOK, TaskIds
  <2>3. TaskIds' = TaskIds /\ In("joined")' = In("joined") /\ \A i : Started(i)' <=> Started(i)
    BY <2>1 DEF TaskIds, In, Started
  <2>4. \A i \in 1..scan : WhenInTurn(i)' <=> WhenInTurn(i)
    BY <1>0, <2>1, <2>2, EarlierResultsDecide
  <2>5. ~ Started(scan)
    BY <2>1 DEF Started
  <2>6. ASSUME NEW i \in 1..scan' - 1
        PROVE  (IF results[i] = "Skipped" THEN ~ Started(i) /\ ~ WhenInTurn(i)
                ELSE /\ WhenInTurn(i)
                     /\ \E u \in In("joined") : tasks[u].step = i /\ tasks[u].result = results[i])'
    <3>1. CASE i = scan
      BY <1>0, <2>1, <2>2, <2>3, <2>4, <2>5, <3>1
    <3>2. CASE i # scan
      <4>1. i \in 1..scan - 1
        BY <1>0, <2>1, <3>2
      <4> QED BY <1>0, <2>1, <2>2, <2>3, <2>4, <3>2, <4>1 DEF LocalInv
    <3> QED BY <3>1, <3>2
  <2>7. LocalInv'
    BY <1>0, <2>1, <2>2, <2>3, <2>6 DEF LocalInv
  <2> QED BY <2>2, <2>7
<1>4. CASE Loc!RunStep
  <2>1. /\ phase = "sequence" /\ scan \in Steps /\ WhenInTurn(scan) /\ verdict = "none"
        /\ \A t \in TaskIds : tasks[t].stage = "joined" /\ tasks[t].step # scan
        /\ tasks' = Append(tasks, [step |-> scan, stage |-> "running", attempts |-> 1, result |-> "none"])
        /\ UNCHANGED <<def, phase, scan, results, verdict>>
    BY <1>0, <1>1, <1>2, <1>4 DEF Loc!RunStep, Loc!Idle, Unjoined, LocalInv
  <2>2. /\ TasksInv' /\ TaskIds' = 1..Len(tasks) + 1
        /\ \A u \in TaskIds : tasks'[u] = tasks[u]
        /\ tasks'[Len(tasks) + 1].step = scan /\ tasks'[Len(tasks) + 1].stage = "running"
    BY <2>1, SpawnKeeps DEF RunInv
  <2>3. RunInv'
    BY <2>1, <2>2 DEF RunInv
  <2>4. In("joined") \subseteq In("joined")' /\ \A i : Started(i)' <=> Started(i) \/ i = scan
    BY <1>0, <2>2 DEF In, Started
  <2>5. \A i \in 1..N + 1 : WhenInTurn(i)' <=> WhenInTurn(i)
    BY <2>1, EarlierResultsDecide
  <2>6. ASSUME NEW i \in 1..scan' - 1
        PROVE  (IF results[i] = "Skipped" THEN ~ Started(i) /\ ~ WhenInTurn(i)
                ELSE /\ WhenInTurn(i)
                     /\ \E u \in In("joined") : tasks[u].step = i /\ tasks[u].result = results[i])'
    <3>1. i \in 1..scan - 1 /\ i # scan /\ i \in 1..N + 1
      BY <1>0, <2>1
    <3>2. (\E u \in In("joined") : tasks[u].step = i /\ tasks[u].result = results[i])
            => (\E u \in In("joined") : tasks[u].step = i /\ tasks[u].result = results[i])'
      BY <2>1, <2>2, <2>4 DEF In
    <3> QED BY <2>1, <2>4, <2>5, <3>1, <3>2 DEF LocalInv
  <2>7. \A t \in TaskIds' : t \in TaskIds \/ t = Len(tasks) + 1
    BY <1>0, <2>2
  <2>8. \A t, u \in TaskIds' : tasks'[t].step = tasks'[u].step => t = u
    BY <2>1, <2>2, <2>7 DEF LocalInv
  <2>9. \A t \in TaskIds' :
          /\ tasks'[t].step <= scan
          /\ tasks'[t].stage # "joined" => tasks'[t].step = scan /\ phase = "sequence" /\ WhenInTurn(scan)'
          /\ tasks'[t].stage = "joined" /\ tasks'[t].step = scan => verdict = "panicked"
    BY <1>0, <2>1, <2>2, <2>5, <2>7 DEF LocalInv
  <2>10. LocalInv'
    BY <2>1, <2>6, <2>8, <2>9 DEF LocalInv
  <2> QED BY <2>3, <2>10
<1>5. ASSUME NEW t \in TaskIds, tasks[t].stage = "ended", tasks' = Joined(t)
      PROVE  /\ TasksInv' /\ TaskIds' = TaskIds
             /\ \A u \in TaskIds :
                  /\ tasks'[u].step = tasks[u].step /\ tasks'[u].result = tasks[u].result
                  /\ tasks'[u].stage = IF u = t THEN "joined" ELSE tasks[u].stage
             /\ tasks[t].step = scan /\ phase = "sequence" /\ WhenInTurn(scan) /\ verdict = "none"
             /\ \A u \in TaskIds : u # t => tasks[u].stage = "joined" /\ tasks[u].step # scan
  BY <1>5, JoinKeeps DEF RunInv, LocalInv
<1>6. ASSUME NEW t \in TaskIds, Loc!StepEnded(t)
      PROVE  RunInv' /\ LocalInv'
  <2>1. /\ tasks[t].stage = "ended" /\ tasks[t].result \in Ran /\ tasks' = Joined(t)
        /\ results' = [results EXCEPT ![scan] = tasks[t].result] /\ scan' = scan + 1
        /\ UNCHANGED <<def, phase, verdict>>
    <3>1. tasks[t].result # "none" /\ tasks[t] \in Task
      BY <1>0, <1>6 DEF Loc!StepEnded, RunInv, TasksInv
    <3> QED BY <1>6, <3>1 DEF Loc!StepEnded, Loc!Joined, Joined, Task
  <2>2. scan \in Steps /\ RunInv' /\ \A i \in Steps : results'[i] = IF i = scan THEN tasks[t].result ELSE results[i]
    BY <1>0, <1>5, <2>1 DEF RunInv
  <2>3. \A i : Started(i)' <=> Started(i)
    BY <1>5, <2>1 DEF Started
  <2>4. \A i \in 1..scan : WhenInTurn(i)' <=> WhenInTurn(i)
    BY <1>0, <2>1, <2>2, EarlierResultsDecide
  <2>5. t \in In("joined")' /\ In("joined") \subseteq In("joined")'
    BY <1>5, <2>1 DEF In
  <2>6. ASSUME NEW i \in 1..scan' - 1
        PROVE  (IF results[i] = "Skipped" THEN ~ Started(i) /\ ~ WhenInTurn(i)
                ELSE /\ WhenInTurn(i)
                     /\ \E u \in In("joined") : tasks[u].step = i /\ tasks[u].result = results[i])'
    <3>1. CASE i = scan
      BY <1>0, <1>5, <2>1, <2>2, <2>4, <2>5, <3>1 DEF Ran
    <3>2. CASE i # scan
      <4>1. i \in 1..scan - 1
        BY <1>0, <2>1, <3>2
      <4>2. (\E u \in In("joined") : tasks[u].step = i /\ tasks[u].result = results[i])
              => (\E u \in In("joined") : tasks[u].step = i /\ tasks[u].result = results[i])'
        <5>1. results'[i] = results[i]
          BY <1>0, <2>2, <4>1, <3>2
        <5> QED BY <1>5, <2>1, <5>1 DEF In
      <4> QED BY <1>0, <2>1, <2>2, <2>3, <2>4, <3>2, <4>1, <4>2 DEF LocalInv
    <3> QED BY <3>1, <3>2
  <2>7. \A i \in Steps : i >= scan' <=> results'[i] = "none"
    BY <1>0, <2>1, <2>2 DEF LocalInv, Ran
  <2>8. \A u \in TaskIds' :
          tasks'[u].step <= scan' /\ tasks'[u].stage = "joined" /\ tasks'[u].step # scan'
    <3>1. \A u \in TaskIds : tasks[u].step \in Nat /\ tasks[u].step <= scan
                             /\ (u = t \/ tasks[u].stage = "joined")
      BY <1>0, <2>1 DEF LocalInv
    <3>2. \A u \in TaskIds' : tasks'[u].step = tasks[u].step /\ tasks'[u].stage = "joined"
      BY <1>5, <2>1, <3>1
    <3> QED BY <1>0, <1>5, <2>1, <3>1, <3>2
  <2>9. \A u, v \in TaskIds' : tasks'[u].step = tasks'[v].step => u = v
    BY <1>5, <2>1 DEF LocalInv
  <2>10. phase' = "sequence" /\ verdict' = "none"
    BY <1>5, <2>1
  <2>11. LocalInv'
    BY <2>6, <2>7, <2>8, <2>9, <2>10 DEF LocalInv
  <2> QED BY <2>2, <2>11
<1>7. ASSUME NEW t \in TaskIds, Loc!StepPanicked(t)
      PROVE  RunInv' /\ LocalInv'
  <2>1. /\ tasks[t].stage = "ended" /\ tasks[t].result = "Panicked" /\ tasks' = Joined(t)
        /\ phase' = "over" /\ verdict' = "panicked" /\ UNCHANGED <<def, scan, results>>
    BY <1>7 DEF Loc!StepPanicked, Loc!Joined, Joined
  <2>2. RunInv'
    BY <1>5, <2>1 DEF RunInv
  <2>3. \A i : Started(i)' <=> Started(i)
    BY <1>5, <2>1 DEF Started
  <2>4. \A i \in 1..scan : WhenInTurn(i)' <=> WhenInTurn(i)
    BY <1>0, <2>1, EarlierResultsDecide
  <2>5. In("joined") \subseteq In("joined")'
    BY <1>5, <2>1 DEF In
  <2>6. ASSUME NEW i \in 1..scan' - 1
        PROVE  (IF results[i] = "Skipped" THEN ~ Started(i) /\ ~ WhenInTurn(i)
                ELSE /\ WhenInTurn(i)
                     /\ \E u \in In("joined") : tasks[u].step = i /\ tasks[u].result = results[i])'
    <3>1. (\E u \in In("joined") : tasks[u].step = i /\ tasks[u].result = results[i])
            => (\E u \in In("joined") : tasks[u].step = i /\ tasks[u].result = results[i])'
      BY <1>5, <2>1, <2>5 DEF In
    <3> QED BY <1>0, <2>1, <2>3, <2>4, <3>1 DEF LocalInv
  <2>7. \A u \in TaskIds' : tasks'[u].step <= scan' /\ tasks'[u].stage = "joined"
    BY <1>0, <1>5, <2>1 DEF LocalInv
  <2>8. LocalInv'
    BY <1>5, <2>1, <2>6, <2>7 DEF LocalInv
  <2> QED BY <2>2, <2>8
<1>8. CASE Loc!Return
  <2>1. /\ scan > N /\ phase' = "over" /\ verdict' = "ok" /\ UNCHANGED <<tasks, def, scan, results>>
        /\ \A t \in TaskIds : tasks[t].stage = "joined" /\ tasks[t].step # scan
    BY <1>0, <1>2, <1>8 DEF Loc!Return, Loc!Idle, Unjoined
  <2>2. RunInv'
    BY <2>1 DEF RunInv, TasksInv, TasksTypeOK, TaskIds
  <2>3. TaskIds' = TaskIds /\ In("joined")' = In("joined") /\ \A i : Started(i)' <=> Started(i)
    BY <2>1 DEF TaskIds, In, Started
  <2>4. \A i \in 1..N + 1 : WhenInTurn(i)' <=> WhenInTurn(i)
    BY <2>1, EarlierResultsDecide
  <2>5. 1..scan - 1 \subseteq 1..N + 1
    BY <1>0
  <2>6. LocalInv'
    BY <2>1, <2>3, <2>4, <2>5 DEF LocalInv
  <2> QED BY <2>2, <2>6
<1> QED BY <1>2, <1>3, <1>4, <1>6, <1>7, <1>8 DEF Loc!Engine

-------------------------------------------------------------------------
(* The parallel engine.                                                    *)

LEMMA LeftOutGrows ==
  ASSUME NEW i \in 1..N + 1
  PROVE  /\ IsFiniteSet(LeftOut(i)) /\ Cardinality(LeftOut(i)) \in Nat
         /\ LeftOut(i) \subseteq Steps
         /\ i <= N => Cardinality(LeftOut(i + 1)) =
              IF def.when[i] = "true" THEN Cardinality(LeftOut(i)) ELSE Cardinality(LeftOut(i)) + 1
<1>1. N \in Nat /\ i \in Nat
  BY StepTasksAssumption
<1>2. IsFiniteSet(1..i - 1)
  BY <1>1, FS_Interval
<1>3. LeftOut(i) \in SUBSET (1..i - 1) /\ LeftOut(i) \subseteq Steps
  BY <1>1 DEF LeftOut, Steps
<1>4. IsFiniteSet(LeftOut(i)) /\ Cardinality(LeftOut(i)) \in Nat
  BY <1>2, <1>3, FS_Subset, FS_CardinalityType
<1>5. 1..i = (1..i - 1) \cup {i} /\ (i + 1) - 1 = i
  BY <1>1
<1>6. CASE def.when[i] = "true"
  <2>1. LeftOut(i + 1) = LeftOut(i)
    BY <1>5, <1>6 DEF LeftOut
  <2> QED BY <1>3, <1>4, <1>6, <2>1
<1>7. CASE def.when[i] # "true"
  <2>1. LeftOut(i + 1) = LeftOut(i) \cup {i} /\ i \notin LeftOut(i)
    BY <1>1, <1>5, <1>7 DEF LeftOut
  <2> QED BY <1>3, <1>4, <1>7, <2>1, FS_AddElement
<1> QED BY <1>6, <1>7

LEMMA ParallelFacts ==
  ASSUME RunInv, ParallelInv
  PROVE  /\ scan \in 1..N + 1 /\ N \in Nat /\ Steps = 1..N
         /\ tasks \in Seq(Task) /\ TaskIds = 1..Len(tasks) /\ Len(tasks) \in Nat
         /\ \A t \in TaskIds : tasks[t] \in Task /\ tasks[t].step \in Steps
         /\ Len(handles) = Len(tasks) /\ \A t \in TaskIds : handles[t] = t
         /\ phase # "spawn" => Len(tasks) <= N
<1>1. scan \in 1..N + 1 /\ N \in Nat /\ Steps = 1..N
  BY StepTasksAssumption DEF RunInv, Steps
<1>2. tasks \in Seq(Task) /\ TaskIds = 1..Len(tasks) /\ Len(tasks) \in Nat
  BY DEF RunInv, TasksInv, TasksTypeOK, TaskIds
<1>3. \A t \in TaskIds : tasks[t] \in Task
  BY <1>2
<1>4. Len(handles) = Len(tasks) /\ \A t \in TaskIds : handles[t] = t
  BY <1>2 DEF ParallelInv
<1>5. N + 1 \in 1..N + 1
  BY <1>1
<1>6. phase # "spawn" => Len(tasks) <= N
  BY <1>1, <1>2, <1>5, LeftOutGrows DEF ParallelInv
<1> QED BY <1>1, <1>2, <1>3, <1>4, <1>6 DEF Task

LEMMA ParallelTask ==
  ASSUME RunInv, ParallelInv, NEW t \in TaskIds, Par!RunTask(t)
  PROVE  RunInv' /\ ParallelInv'
<1>1. UNCHANGED <<def, phase, scan, results, verdict, handles>> /\ TaskStep(t)
  BY SameTasks
<1>2. /\ TasksInv' /\ TaskIds' = TaskIds /\ Len(tasks') = Len(tasks)
      /\ \A u \in TaskIds :
           /\ tasks'[u].step = tasks[u].step
           /\ tasks'[u].stage = "joined" <=> tasks[u].stage = "joined"
           /\ tasks[u].result # "none" => tasks'[u].result = tasks[u].result
  BY <1>1, TaskStepKeeps DEF RunInv
<1>3. \A u \in In("joined") : u \in In("joined")' /\ StatusOf(u)' = StatusOf(u)
  BY <1>2 DEF In, StatusOf, RunInv, TasksInv
<1>4. RunInv'
  BY <1>1, <1>2 DEF RunInv
<1>5. \A i : LeftOut(i)' = LeftOut(i)
  BY <1>1 DEF LeftOut
<1>6. ParallelInv'
  BY <1>1, <1>2, <1>3, <1>5 DEF ParallelInv
<1> QED BY <1>4, <1>6

LEMMA ParallelEngine ==
  ASSUME RunInv, ParallelInv, Par!Engine
  PROVE  RunInv' /\ ParallelInv'
<1>0. /\ scan \in 1..N + 1 /\ N \in Nat /\ Steps = 1..N
      /\ tasks \in Seq(Task) /\ TaskIds = 1..Len(tasks) /\ Len(tasks) \in Nat
      /\ \A t \in TaskIds : tasks[t] \in Task /\ tasks[t].step \in Steps
      /\ Len(handles) = Len(tasks) /\ \A t \in TaskIds : handles[t] = t
      /\ phase # "spawn" => Len(tasks) <= N
  BY ParallelFacts
<1>1. ASSUME UNCHANGED def PROVE \A i : LeftOut(i)' = LeftOut(i)
  BY <1>1 DEF LeftOut
<1>2. CASE Par!SpawnNext
  <2>1. /\ phase = "spawn" /\ scan \in Steps /\ scan' = scan + 1 /\ UNCHANGED <<def, phase, verdict>>
        /\ \A i : LeftOut(i)' = LeftOut(i)
    BY <1>0, <1>1, <1>2 DEF Par!SpawnNext
  <2> DEFINE n == Cardinality(LeftOut(scan + 1))
  <2>0. n = Cardinality(LeftOut(scan)')
    BY <2>1 DEF LeftOut
  <2>2. /\ Len(tasks) + Cardinality(LeftOut(scan)) = scan - 1
        /\ Cardinality(LeftOut(scan)) \in Nat
        /\ n = IF def.when[scan] = "true" THEN Cardinality(LeftOut(scan)) ELSE Cardinality(LeftOut(scan)) + 1
    BY <1>0, <2>1, LeftOutGrows DEF ParallelInv
  <2> HIDE DEF n
  <2>3. CASE def.when[scan] = "true"
    <3>1. /\ tasks' = Append(tasks, [step |-> scan, stage |-> "queued", attempts |-> 0, result |-> "none"])
          /\ handles' = Append(handles, Len(tasks) + 1) /\ UNCHANGED results
      BY <1>2, <2>3 DEF Par!SpawnNext, Par!LetRun, Par!WithSpawned
    <3>2. /\ TasksInv' /\ TaskIds' = 1..Len(tasks) + 1 /\ Len(tasks') = Len(tasks) + 1
          /\ \A u \in TaskIds : tasks'[u] = tasks[u]
          /\ tasks'[Len(tasks) + 1].step = scan /\ tasks'[Len(tasks) + 1].stage = "queued"
      BY <2>1, <3>1, SpawnKeeps DEF RunInv
    <3>3. RunInv'
      BY <1>0, <2>1, <3>1, <3>2 DEF RunInv
    <3>4. handles' = [k \in TaskIds' |-> k]
      BY <1>0, <3>1, <3>2 DEF ParallelInv
    <3>5. \A t \in TaskIds' : t \in TaskIds \/ t = Len(tasks) + 1
      BY <1>0, <3>2
    <3>6. \A t \in TaskIds' :
           /\ def.when[tasks'[t].step] = "true"
           /\ tasks'[t].step = t + Cardinality(LeftOut(tasks'[t].step))
           /\ tasks'[t].step < scan + 1 /\ tasks'[t].stage # "joined"
      <4> SUFFICES ASSUME NEW t \in TaskIds'
                   PROVE  /\ def.when[tasks'[t].step] = "true"
                          /\ tasks'[t].step = t + Cardinality(LeftOut(tasks'[t].step))
                          /\ tasks'[t].step < scan + 1 /\ tasks'[t].stage # "joined"
        OBVIOUS
      <4>1. CASE t \in TaskIds
        BY <1>0, <2>1, <3>2, <4>1 DEF ParallelInv
      <4>2. CASE t = Len(tasks) + 1
        BY <1>0, <2>2, <2>3, <3>2, <4>2
      <4> QED BY <3>5, <4>1, <4>2
    <3>7. Len(tasks') + Cardinality(LeftOut(scan)') = scan' - 1
      <4>1. Len(tasks') + n = scan' - 1
        BY <1>0, <2>1, <2>2, <2>3, <3>2
      <4> QED BY <2>0, <4>1
    <3>8. \A i \in Steps : results'[i] = IF i < scan' /\ def.when[i] # "true" THEN "Skipped" ELSE "none"
      BY <1>0, <2>1, <2>3, <3>1 DEF ParallelInv
    <3>9. ParallelInv'
      BY <2>1, <3>4, <3>6, <3>7, <3>8 DEF ParallelInv
    <3> QED BY <3>3, <3>9
  <2>4. CASE def.when[scan] # "true"
    <3>1. results' = [results EXCEPT ![scan] = "Skipped"] /\ UNCHANGED <<tasks, handles>>
      BY <1>2, <2>4 DEF Par!SpawnNext, Par!LetRun
    <3>2. RunInv' /\ TaskIds' = TaskIds
      BY <1>0, <2>1, <3>1 DEF RunInv, TasksInv, TasksTypeOK, TaskIds
    <3>3. Len(tasks') + Cardinality(LeftOut(scan)') = scan' - 1
      <4>1. Len(tasks') = Len(tasks) /\ n = Cardinality(LeftOut(scan)) + 1
        BY <2>2, <2>4, <3>1
      <4>2. scan' = scan + 1 /\ scan \in Nat
        BY <1>0, <2>1
      <4>3. \A l, c, p \in Nat : l + c = p - 1 => l + (c + 1) = (p + 1) - 1
        OBVIOUS
      <4>4. /\ Len(tasks) \in Nat /\ Cardinality(LeftOut(scan)) \in Nat
            /\ Len(tasks) + Cardinality(LeftOut(scan)) = scan - 1
        BY <1>0, <2>2
      <4>5. Len(tasks') + n = scan' - 1
        BY <4>1, <4>2, <4>3, <4>4
      <4> QED BY <2>0, <4>5
    <3>4. \A i \in Steps : results'[i] = IF i < scan' /\ def.when[i] # "true" THEN "Skipped" ELSE "none"
      <4>1. results \in [Steps -> Ran \cup {"none", "Skipped"}]
        BY DEF RunInv
      <4>2. \A i \in Steps : results[i] = IF i < scan /\ def.when[i] # "true" THEN "Skipped" ELSE "none"
        BY <2>1 DEF ParallelInv
      <4>3. \A i \in Steps : results'[i] = IF i = scan THEN "Skipped" ELSE results[i]
        BY <2>1, <3>1, <4>1
      <4>4. scan < scan' /\ \A i \in Steps : i # scan => (i < scan' <=> i < scan)
        BY <1>0, <2>1
      <4> QED BY <2>4, <4>2, <4>3, <4>4
    <3>5. \A t \in TaskIds' : tasks'[t].step < scan' /\ tasks'[t].stage # "joined"
      BY <1>0, <2>1, <3>1, <3>2 DEF ParallelInv
    <3>6. ParallelInv'
      BY <2>1, <3>1, <3>2, <3>3, <3>4, <3>5 DEF ParallelInv
    <3> QED BY <3>2, <3>6
  <2> QED BY <2>3, <2>4
<1>3. CASE Par!Spawned
  <2>1. /\ phase = "spawn" /\ scan = N + 1 /\ phase' = "collect" /\ scan' = 1
        /\ UNCHANGED <<tasks, def, handles, results, verdict>> /\ TaskIds' = TaskIds
        /\ \A i : LeftOut(i)' = LeftOut(i)
    BY <1>0, <1>1, <1>3 DEF Par!Spawned, TaskIds
  <2>2. RunInv'
    BY <1>0, <2>1 DEF RunInv, TasksInv, TasksTypeOK
  <2>3. \A i \in Steps : results'[i] = IF def.when[i] # "true" THEN "Skipped" ELSE "none"
    BY <1>0, <2>1 DEF ParallelInv
  <2>4. Len(tasks) + Cardinality(LeftOut(N + 1)) = N /\ \A i \in Steps : ~ (i < scan')
    BY <1>0, <2>1, LeftOutGrows DEF ParallelInv
  <2>5. ParallelInv'
    BY <2>1, <2>3, <2>4 DEF ParallelInv
  <2> QED BY <2>2, <2>5
<1>4. CASE Par!DropHandle
  <2>1. /\ phase = "collect" /\ scan \in Steps /\ results[scan] # "none" /\ scan' = scan + 1
        /\ UNCHANGED <<tasks, def, phase, handles, results, verdict>> /\ TaskIds' = TaskIds
        /\ \A i : LeftOut(i)' = LeftOut(i)
    BY <1>0, <1>1, <1>4 DEF Par!DropHandle, TaskIds
  <2>2. RunInv'
    BY <1>0, <2>1 DEF RunInv, TasksInv, TasksTypeOK
  <2>3. def.when[scan] # "true"
    BY <1>0, <2>1 DEF ParallelInv
  <2>4. In("joined")' = In("joined") /\ \A i : StatusOf(i)' = StatusOf(i)
    BY <2>1 DEF In, StatusOf
  <2>5. \A i \in Steps : i < scan' <=> i < scan \/ i = scan
    BY <1>0, <2>1
  <2>6. ParallelInv'
    BY <2>1, <2>3, <2>4, <2>5 DEF ParallelInv
  <2> QED BY <2>2, <2>6
<1>5. CASE Par!AwaitHandle
  <2>0. scan \in Steps /\ scan \in TaskIds /\ handles[scan] = scan
    BY <1>0, <1>5 DEF Par!AwaitHandle
  <2>1. /\ phase = "collect" /\ scan \in Steps /\ scan \in TaskIds /\ results[scan] = "none" /\ scan' = scan + 1
        /\ tasks[scan].stage = "ended" /\ tasks' = Joined(scan)
        /\ results' = [results EXCEPT ![scan] = StatusOf(scan)]
        /\ UNCHANGED <<def, phase, handles, verdict>>
        /\ \A i : LeftOut(i)' = LeftOut(i)
    BY <2>0, <1>1, <1>5 DEF Par!AwaitHandle, Par!Joined, Joined, Par!StatusOf, StatusOf
  <2>2. /\ TasksInv' /\ TaskIds' = TaskIds /\ Len(tasks') = Len(tasks)
        /\ \A u \in TaskIds :
              /\ tasks'[u].step = tasks[u].step /\ tasks'[u].result = tasks[u].result
              /\ tasks'[u].stage = IF u = scan THEN "joined" ELSE tasks[u].stage
    BY <2>1, JoinKeeps DEF RunInv
  <2>3. StatusOf(scan) \in Ran /\ tasks[scan].result # "none"
    <3>1. tasks[scan].result # "none"
      BY <2>1 DEF RunInv, TasksInv
    <3> QED BY <1>0, <2>1, <3>1 DEF StatusOf, Task, Ran
  <2>4. RunInv' /\ \A i \in Steps : results'[i] = IF i = scan THEN StatusOf(scan) ELSE results[i]
    BY <1>0, <2>1, <2>2, <2>3 DEF RunInv
  <2>5. \A u \in TaskIds : StatusOf(u)' = StatusOf(u)
    BY <2>2 DEF StatusOf
  <2>6. scan \in In("joined")' /\ In("joined") \subseteq In("joined")' /\ In("joined") \subseteq TaskIds
    BY <2>1, <2>2 DEF In
  <2>7. ASSUME NEW i \in Steps
        PROVE  IF def.when[i] # "true" THEN results'[i] = "Skipped"
               ELSE IF i < scan' THEN i \in In("joined")' /\ results'[i] = StatusOf(i)'
               ELSE results'[i] = "none"
    <3>1. CASE i = scan
      BY <1>0, <2>1, <2>4, <2>5, <2>6, <3>1 DEF ParallelInv
    <3>2. CASE i # scan
      <4>1. results'[i] = results[i] /\ (i < scan' <=> i < scan)
        BY <1>0, <2>1, <2>4, <3>2
      <4> QED BY <2>1, <2>5, <2>6, <4>1 DEF ParallelInv
    <3> QED BY <3>1, <3>2
  <2>8. ParallelInv'
    BY <2>1, <2>2, <2>7 DEF ParallelInv
  <2> QED BY <2>4, <2>8
<1>6. CASE Par!Finish
  <2>1. /\ phase = "collect" /\ scan > Len(tasks) /\ phase' = "over"
        /\ verdict' = IF \E i \in Steps : results[i] = "none" THEN "panicked" ELSE "ok"
        /\ UNCHANGED <<tasks, def, scan, handles, results>> /\ TaskIds' = TaskIds
        /\ \A i : LeftOut(i)' = LeftOut(i)
    BY <1>0, <1>1, <1>6 DEF Par!Finish, TaskIds, Par!Steps, Steps
  <2>2. RunInv'
    BY <2>1 DEF RunInv, TasksInv, TasksTypeOK
  <2>3. In("joined")' = In("joined") /\ \A i : StatusOf(i)' = StatusOf(i)
    BY <2>1 DEF In, StatusOf
  <2>4. ParallelInv'
    BY <2>1, <2>3 DEF ParallelInv
  <2> QED BY <2>2, <2>4
<1> QED BY <1>2, <1>3, <1>4, <1>5, <1>6 DEF Par!Engine

-------------------------------------------------------------------------
(* The DAG.                                                                *)

LEMMA SameDefinition ==
  ASSUME def' = def
  PROVE  /\ UnknownDep' <=> UnknownDep
         /\ InDegrees' = InDegrees /\ Entries' = Entries
         /\ \A i, k : Dep(i, k)' = Dep(i, k)
         /\ \A i : DepsOf(i)' = DepsOf(i)
         /\ \A n : NameToIdx(n)' = NameToIdx(n) /\ (Known(n)' <=> Known(n))
<1>1. \A n : NameToIdx(n)' = NameToIdx(n) /\ (Known(n)' <=> Known(n))
  BY DEF NameToIdx, Known
<1>2. \A i, k : Dep(i, k)' = Dep(i, k)
  BY <1>1 DEF Dep
<1>3. \A i : DepsOf(i)' = DepsOf(i)
  BY <1>2 DEF DepsOf
<1> QED BY <1>1, <1>2, <1>3 DEF UnknownDep, InDegrees, Entries

LEMMA DagFacts ==
  ASSUME RunInv, DagBooks, ~ UnknownDep
  PROVE  /\ scan \in 1..N + 1 /\ N \in Nat /\ Steps = 1..N
         /\ tasks \in Seq(Task) /\ TaskIds = 1..Len(tasks) /\ Len(tasks) \in Nat
         /\ \A t \in TaskIds : tasks[t] \in Task /\ tasks[t].step \in Steps
         /\ \A i \in Steps : \A k \in DOMAIN def.deps[i] :
              Dep(i, k) \in Steps /\ Dep(i, k) \in DepsOf(i)
         /\ \A i \in Steps : DepsOf(i) \subseteq Steps
         /\ \A e \in releasing : /\ e[1] \in Steps /\ e[2] \in DOMAIN def.deps[e[1]]
                                 /\ e = <<e[1], e[2]>>
<1>1. scan \in 1..N + 1 /\ N \in Nat /\ Steps = 1..N /\ def \in Definition
  BY StepTasksAssumption DEF RunInv, Steps
<1>2. tasks \in Seq(Task) /\ TaskIds = 1..Len(tasks) /\ Len(tasks) \in Nat
  BY DEF RunInv, TasksInv, TasksTypeOK, TaskIds
<1>3. \A t \in TaskIds : tasks[t] \in Task
  BY <1>2
<1>4. \A i \in Steps : \A k \in DOMAIN def.deps[i] : Dep(i, k) \in Steps
  BY <1>1, DependenciesAreSteps
<1>5. releasing \subseteq Entries
  BY DEF DagBooks, DagTypes
<1> QED BY <1>1, <1>2, <1>3, <1>4, <1>5, EntriesAre DEF Task, DepsOf

LEMMA OpenIsFinite ==
  ASSUME RunInv, NEW i \in Steps
  PROVE  /\ IsFiniteSet(Open(i)) /\ Cardinality(Open(i)) \in Nat
         /\ Cardinality(Open(i)) = 0 <=> Open(i) = {}
<1>1. IsFiniteSet(DOMAIN def.deps[i])
  BY DepsAreFinite DEF RunInv
<1>2. Open(i) \in SUBSET (DOMAIN def.deps[i])
  BY DEF Open
<1>3. IsFiniteSet(Open(i))
  BY <1>1, <1>2, FS_Subset
<1> QED BY <1>3, FS_CardinalityType, FS_EmptySet

\* A spawn starts its step and changes nothing that has happened.
LEMMA SpawnStarts ==
  ASSUME TasksInv, NEW i \in Steps, tasks' = WithSpawned(tasks, i)
  PROVE  /\ TasksInv'
         /\ Len(tasks) \in Nat /\ TaskIds = 1..Len(tasks) /\ TaskIds' = 1..Len(tasks) + 1
         /\ \A u \in TaskIds : u \in TaskIds' /\ tasks'[u] = tasks[u]
         /\ \A u \in TaskIds' : u \in TaskIds \/ u = Len(tasks) + 1
         /\ tasks'[Len(tasks) + 1].step = i /\ tasks'[Len(tasks) + 1].stage # "joined"
         /\ \A j : Started(j)' <=> Started(j) \/ j = i
         /\ \A j : Done(j)' <=> Done(j)
         /\ Panicked' <=> Panicked
<1>1. /\ TasksInv'
      /\ Len(tasks) \in Nat /\ TaskIds = 1..Len(tasks) /\ TaskIds' = 1..Len(tasks) + 1
      /\ \A u \in TaskIds : tasks'[u] = tasks[u]
      /\ tasks'[Len(tasks) + 1].step = i /\ tasks'[Len(tasks) + 1].stage = "queued"
      /\ tasks'[Len(tasks) + 1].result = "none"
  BY SpawnKeeps DEF WithSpawned
<1>2. \A u \in TaskIds' : u \in TaskIds \/ u = Len(tasks) + 1
  BY <1>1
<1>3. TaskIds \subseteq TaskIds' /\ Len(tasks) + 1 \in TaskIds'
  BY <1>1
<1>4. \A j : Started(j)' <=> Started(j) \/ j = i
  BY <1>1, <1>2, <1>3 DEF Started
<1>5. In("joined")' = In("joined")
  BY <1>1, <1>2, <1>3 DEF In
<1>6. \A j : Done(j)' <=> Done(j)
  BY <1>1, <1>5 DEF Done, In
<1>7. Panicked' <=> Panicked
  BY <1>1, <1>2, <1>3 DEF Panicked
<1> QED BY <1>1, <1>2, <1>3, <1>4, <1>6, <1>7

\* While no runner has panicked, a started step has no failed dependency.
LEMMA UnpanickedStart ==
  ASSUME RunInv, DagBooks, ~ UnknownDep, ~ Panicked, NEW i \in Steps, Started(i)
  PROVE  ~ DepsFailed(i) /\ Open(i) = {}
<1>1. ASSUME NEW d \in DepsOf(i) PROVE ~ failedOrSkipped[d]
  <2>1. d \in Steps /\ Done(d)
    BY <1>1, DagFacts DEF DagBooks, DagStarts
  <2>2. results[d] = "Succeeded"
    BY <2>1 DEF Done, In, DagBooks, DagUnpanicked
  <2> QED BY <2>1, <2>2 DEF DagBooks, DagUnpanicked
<1> QED BY <1>1 DEF DepsFailed, DagBooks, DagCounts

LEMMA DagTask ==
  ASSUME RunInv, DagBooks, ~ UnknownDep, NEW t \in TaskIds, RunTask(t)
  PROVE  RunInv' /\ DagBooks'
<1>1. /\ UNCHANGED <<def, phase, scan, results, verdict>> /\ TaskStep(t)
      /\ UNCHANGED <<inDegree, failedOrSkipped, justCompleted, releasing>>
  BY DEF RunTask, dispatchVars, dagVars
<1>2. /\ TasksInv' /\ TaskIds' = TaskIds
      /\ \A u \in TaskIds :
           /\ tasks'[u].step = tasks[u].step
           /\ tasks'[u].stage = "joined" <=> tasks[u].stage = "joined"
           /\ tasks[u].result # "none" => tasks'[u].result = tasks[u].result
  BY <1>1, TaskStepKeeps DEF RunInv
<1>3. \A u \in TaskIds : tasks[u].stage = "joined" => tasks'[u].result = tasks[u].result
  BY <1>2 DEF RunInv, TasksInv
<1>4. /\ \A i : Started(i)' <=> Started(i)
      /\ \A i : Done(i)' <=> Done(i)
      /\ Panicked => Panicked'
      /\ Unjoined' = Unjoined
  BY <1>2, <1>3 DEF Started, Done, In, Panicked, Unjoined
<1>5. /\ InDegrees' = InDegrees /\ Entries' = Entries
      /\ \A i, k : Dep(i, k)' = Dep(i, k)
      /\ \A i : DepsOf(i)' = DepsOf(i)
      /\ \A n : NameToIdx(n)' = NameToIdx(n) /\ (Known(n)' <=> Known(n))
  BY <1>1, SameDefinition
<1>6. /\ \A i : Open(i)' = Open(i)
      /\ \A i : DepsFailed(i)' <=> DepsFailed(i)
      /\ \A i : Determined(i)' <=> Determined(i)
      /\ \A i : Reliable(i)' => Reliable(i)
  BY <1>1, <1>4, <1>5 DEF Open, DepsFailed, Determined, Reliable
<1>7. RunInv'
  BY <1>1, <1>2 DEF RunInv
<1>8. DagTypes' /\ DagPhases'
  BY <1>1, <1>4, <1>5 DEF DagBooks, DagTypes, DagPhases
<1>9. DagResults' /\ DagWorklist'
  BY <1>1, <1>4, <1>5, <1>6 DEF DagBooks, DagResults, DagWorklist
<1>10. DagCounts' /\ DagStarts'
  BY <1>1, <1>2, <1>4, <1>5, <1>6 DEF DagBooks, DagCounts, DagStarts
<1>11. DagUnpanicked'
  BY <1>1, <1>2, <1>3, <1>4, <1>5, <1>6 DEF DagBooks, DagUnpanicked
<1> QED BY <1>7, <1>8, <1>9, <1>10, <1>11 DEF DagBooks

\* The dispatcher moves on without touching a step.
LEMMA DagPhaseChange ==
  ASSUME RunInv, DagBooks, ~ UnknownDep, InitialDone \/ DrainSkipped \/ Drained \/ Finish
  PROVE  RunInv' /\ DagBooks'
<1>1. /\ UNCHANGED <<tasks, def, scan, results, inDegree, failedOrSkipped, justCompleted, releasing>>
      /\ phase' # "initial" /\ phase' \in {"join", "drain", "over"}
      /\ phase = "initial" => scan > N
      /\ phase' # "drain" => releasing = {}
      /\ phase' = "over" => justCompleted = <<>> /\ Unjoined = {}
      /\ verdict' = IF phase' # "over" THEN "none"
                    ELSE IF \E i \in Steps : results[i] = "none" THEN "cycle" ELSE "ok"
  BY DEF InitialDone, DrainSkipped, Drained, Finish, DagBooks, DagPhases
<1>2. /\ InDegrees' = InDegrees /\ Entries' = Entries
      /\ \A i, k : Dep(i, k)' = Dep(i, k)
      /\ \A i : DepsOf(i)' = DepsOf(i)
      /\ \A n : NameToIdx(n)' = NameToIdx(n) /\ (Known(n)' <=> Known(n))
  BY <1>1, SameDefinition
<1>3. /\ TaskIds' = TaskIds /\ In("joined")' = In("joined") /\ (Panicked' <=> Panicked)
      /\ Unjoined' = Unjoined
      /\ \A i : (Started(i)' <=> Started(i)) /\ (Done(i)' <=> Done(i))
  BY <1>1 DEF TaskIds, In, Panicked, Unjoined, Started, Done
<1>4. /\ \A i : Open(i)' = Open(i)
      /\ \A i : DepsFailed(i)' <=> DepsFailed(i)
      /\ \A i : Determined(i)' <=> Determined(i)
      /\ \A i : Reliable(i)' <=> Reliable(i)
  BY <1>1, <1>2, <1>3 DEF Open, DepsFailed, Determined, Reliable
<1>5. RunInv'
  <2>1. verdict' \in {"none", "ok", "unknown_dep", "cycle", "panicked"}
    BY <1>1
  <2> QED BY <1>1, <1>3, <2>1 DEF RunInv, TasksInv, TasksTypeOK
<1>6. DagTypes' /\ DagPhases'
  BY <1>1, <1>2, <1>3 DEF DagBooks, DagTypes, DagPhases
<1>7. DagResults' /\ DagWorklist'
  BY <1>1, <1>2, <1>3, <1>4 DEF DagBooks, DagResults, DagWorklist
<1>8. DagCounts' /\ DagStarts'
  BY <1>1, <1>2, <1>3, <1>4 DEF DagBooks, DagCounts, DagStarts
<1>9. DagUnpanicked'
  <2>1. \A i \in Steps : phase = "initial" => i < scan
    BY <1>1, DagFacts
  <2>2. ~ Panicked => \A i \in Steps :
           ~ Started(i) /\ results[i] = "none" => inDegree[i] > 0
    BY <2>1 DEF DagBooks, DagUnpanicked
  <2> QED BY <1>1, <1>2, <1>3, <1>4, <2>2 DEF DagBooks, DagUnpanicked
<1> QED BY <1>5, <1>6, <1>7, <1>8, <1>9 DEF DagBooks

LEMMA DagPop ==
  ASSUME RunInv, DagBooks, ~ UnknownDep, PopCompleted
  PROVE  RunInv' /\ DagBooks'
<1> DEFINE c == Last(justCompleted)
           n == Len(justCompleted)
<1>1. /\ UNCHANGED <<tasks, def, scan, phase, results, verdict, inDegree, failedOrSkipped>>
      /\ phase = "drain" /\ releasing = {} /\ justCompleted # <<>>
      /\ justCompleted' = Front(justCompleted) /\ releasing' = Dependents(c)
  BY DEF PopCompleted
<1>2. /\ n \in Nat \ {0} /\ c \in Steps /\ justCompleted[n] = c
      /\ justCompleted' \in Seq(Steps)
      /\ DOMAIN justCompleted = 1..n /\ DOMAIN justCompleted' = 1..n - 1
      /\ \A p \in 1..n - 1 : justCompleted'[p] = justCompleted[p]
  BY <1>1 DEF DagBooks, DagTypes, Last, Front
<1>3. Range(justCompleted) = Range(justCompleted') \cup {c}
  BY <1>2 DEF Range
<1>4. /\ InDegrees' = InDegrees /\ Entries' = Entries
      /\ \A i, k : Dep(i, k)' = Dep(i, k)
      /\ \A i : DepsOf(i)' = DepsOf(i)
      /\ \A m : NameToIdx(m)' = NameToIdx(m) /\ (Known(m)' <=> Known(m))
  BY <1>1, SameDefinition
<1>5. /\ TaskIds' = TaskIds /\ In("joined")' = In("joined") /\ (Panicked' <=> Panicked)
      /\ Unjoined' = Unjoined
      /\ \A i : (Started(i)' <=> Started(i)) /\ (Done(i)' <=> Done(i))
  BY <1>1 DEF TaskIds, In, Panicked, Unjoined, Started, Done
<1>6. \A i \in Steps : \A k \in DOMAIN def.deps[i] : <<i, k>> \in releasing' <=> Dep(i, k) = c
  <2>1. \A i \in Steps : \A k \in DOMAIN def.deps[i] : <<i, k>> \in Entries
    BY EntriesAre DEF RunInv
  <2> QED BY <1>1, <2>1 DEF Dependents
<1>7. \A e \in releasing' : e \in Entries /\ Dep(e[1], e[2]) = c
  BY <1>1 DEF Dependents
<1>8. \A i \in Steps : Open(i)' = Open(i)
  BY <1>1, <1>3, <1>4, <1>6 DEF Open
<1>9. /\ \A i : DepsFailed(i)' <=> DepsFailed(i)
      /\ \A i : Determined(i)' <=> Determined(i)
      /\ \A i : Reliable(i)' <=> Reliable(i)
  BY <1>1, <1>4, <1>5 DEF DepsFailed, Determined, Reliable
<1>10. RunInv'
  BY <1>1, <1>5 DEF RunInv, TasksInv, TasksTypeOK
<1>11. DagTypes' /\ DagPhases'
  BY <1>1, <1>2, <1>4, <1>5, <1>7 DEF DagBooks, DagTypes, DagPhases
<1>12. DagResults'
  BY <1>1, <1>3, <1>4, <1>5, <1>7 DEF DagBooks, DagResults
<1>13. DagWorklist'
  <2>1. (\A p, q \in DOMAIN justCompleted :
           justCompleted[p] = justCompleted[q] /\ Reliable(justCompleted[p]) => p = q)'
    BY <1>2, <1>9 DEF DagBooks, DagWorklist
  <2>2. Reliable(c) => c \notin Range(justCompleted')
    BY <1>2 DEF DagBooks, DagWorklist, Range
  <2> QED BY <1>4, <1>7, <1>9, <2>1, <2>2 DEF DagWorklist
<1>14. DagCounts' /\ DagStarts'
  BY <1>1, <1>4, <1>5, <1>8, <1>9 DEF DagBooks, DagCounts, DagStarts
<1>15. DagUnpanicked'
  BY <1>1, <1>4, <1>5, <1>8, <1>9 DEF DagBooks, DagUnpanicked
<1> QED BY <1>10, <1>11, <1>12, <1>13, <1>14, <1>15 DEF DagBooks

\* A completion is appended to the worklist: an entry that was open because
\* its step had no result stays open.
LEMMA RecordKeepsOpen ==
  ASSUME RunInv, NEW c \in Steps, NEW s \in Ran \cup {"Skipped"}, def' = def, releasing' = releasing,
         justCompleted \in Seq(Steps), justCompleted' = Append(justCompleted, c),
         results' = [results EXCEPT ![c] = s],
         NEW i \in Steps,
         \A k \in DOMAIN def.deps[i] : Dep(i, k) \in Steps /\ (Dep(i, k) = c => results[c] = "none")
  PROVE  Open(i)' = Open(i)
<1>1. Range(justCompleted') = Range(justCompleted) \cup {c}
  <2>1. /\ Len(justCompleted) \in Nat /\ DOMAIN justCompleted = 1..Len(justCompleted)
        /\ DOMAIN justCompleted' = 1..Len(justCompleted) + 1
        /\ \A p \in DOMAIN justCompleted : justCompleted'[p] = justCompleted[p]
        /\ justCompleted'[Len(justCompleted) + 1] = c
    OBVIOUS
  <2> QED BY <2>1 DEF Range
<1>2. \A k : Dep(i, k)' = Dep(i, k)
  BY SameDefinition
<1>3. \A d \in Steps : results'[d] = IF d = c THEN s ELSE results[d]
  BY DEF RunInv
<1>4. s # "none"
  BY DEF Ran
<1> QED BY <1>1, <1>2, <1>3, <1>4 DEF Open

LEMMA DagJoin ==
  ASSUME RunInv, DagBooks, ~ UnknownDep, NEW t \in TaskIds, Join(t)
  PROVE  RunInv' /\ DagBooks'
<1> DEFINE n == Len(justCompleted)
\* What is recorded, and for which step.
<1>r. PICK c, s : /\ c = IF tasks[t].result = "Panicked" THEN 1 ELSE tasks[t].step
                  /\ s = IF tasks[t].result = "Panicked" THEN "Failed" ELSE tasks[t].result
  OBVIOUS
<1>0. /\ scan \in 1..N + 1 /\ N \in Nat /\ Steps = 1..N
      /\ tasks[t] \in Task /\ tasks[t].step \in Steps
      /\ \A u \in TaskIds : tasks[u].step \in Steps
      /\ \A i \in Steps : \A k \in DOMAIN def.deps[i] :
           Dep(i, k) \in Steps /\ Dep(i, k) \in DepsOf(i)
      /\ \A i \in Steps : DepsOf(i) \subseteq Steps
  BY DagFacts
<1>1. /\ UNCHANGED <<def, scan, verdict, inDegree, releasing>>
      /\ phase = "join" /\ phase' = "drain" /\ releasing = {}
      /\ tasks[t].stage = "ended" /\ tasks' = Joined(t)
      /\ results' = [results EXCEPT ![c] = s]
      /\ failedOrSkipped' = [failedOrSkipped EXCEPT ![c] = @ \/ s # "Succeeded"]
      /\ justCompleted' = Append(justCompleted, c)
  BY <1>r DEF Join, Record, DagBooks, DagPhases
<1>2. c \in Steps /\ s \in Ran
  <2>1. tasks[t].result # "none"
    BY <1>1 DEF RunInv, TasksInv
  <2> QED BY <1>r, <1>0, <2>1 DEF Task, Ran
<1>3. /\ \A i \in Steps : results'[i] = IF i = c THEN s ELSE results[i]
      /\ \A i \in Steps : failedOrSkipped'[i] =
           IF i = c THEN failedOrSkipped[i] \/ s # "Succeeded" ELSE failedOrSkipped[i]
      /\ failedOrSkipped' \in [Steps -> BOOLEAN]
  BY <1>1, <1>2 DEF RunInv, DagBooks, DagTypes
<1>4. /\ n \in Nat /\ justCompleted' \in Seq(Steps)
      /\ DOMAIN justCompleted = 1..n /\ DOMAIN justCompleted' = 1..n + 1
      /\ \A p \in 1..n : justCompleted'[p] = justCompleted[p] /\ justCompleted[p] \in Range(justCompleted)
      /\ justCompleted'[n + 1] = c
      /\ Range(justCompleted') = Range(justCompleted) \cup {c}
  <2>1. justCompleted \in Seq(Steps) /\ justCompleted' = Append(justCompleted, c)
    BY <1>1 DEF DagBooks, DagTypes
  <2>2. /\ n \in Nat /\ justCompleted' \in Seq(Steps)
        /\ DOMAIN justCompleted = 1..n /\ DOMAIN justCompleted' = 1..n + 1
        /\ \A p \in 1..n : justCompleted'[p] = justCompleted[p]
        /\ justCompleted'[n + 1] = c
    BY <1>2, <2>1
  <2> QED BY <2>2 DEF Range
<1>5. /\ TasksInv' /\ TaskIds' = TaskIds
      /\ \A u \in TaskIds :
           /\ tasks'[u].step = tasks[u].step /\ tasks'[u].result = tasks[u].result
           /\ tasks'[u].stage = IF u = t THEN "joined" ELSE tasks[u].stage
  BY <1>1, JoinKeeps DEF RunInv
<1>6. /\ \A i : Started(i)' <=> Started(i)
      /\ Panicked' <=> Panicked
      /\ \A i : Done(i)' <=> Done(i) \/ (tasks[t].step = i /\ tasks[t].result = "Succeeded")
  BY <1>1, <1>5 DEF Started, Panicked, Done, In
<1>7. /\ InDegrees' = InDegrees /\ Entries' = Entries
      /\ \A i, k : Dep(i, k)' = Dep(i, k)
      /\ \A i : DepsOf(i)' = DepsOf(i)
      /\ \A m : NameToIdx(m)' = NameToIdx(m) /\ (Known(m)' <=> Known(m))
  BY <1>1, SameDefinition
<1>8. /\ \A i \in Steps : DepsFailed(i) => DepsFailed(i)'
      /\ \A i \in Steps : Reliable(i)' => Reliable(i)
      /\ \A i : Determined(i)' <=> Determined(i)
  BY <1>0, <1>1, <1>3, <1>6, <1>7 DEF DepsFailed, Reliable, Determined
\* The step completes now for the first time, or a panic was charged to it.
<1>9. results[c] = "none" \/ (Panicked /\ failedOrSkipped'[c])
  <2>1. CASE tasks[t].result = "Panicked"
    BY <1>r, <1>2, <1>3, <2>1 DEF Panicked
  <2>2. CASE tasks[t].result # "Panicked"
    <3>1. CASE ~ Panicked
      BY <1>r, <1>1, <2>2, <3>1 DEF DagBooks, DagUnpanicked
    <3>2. ~ Done(c)
      BY <1>r, <1>1, <2>2 DEF Done, In, DagBooks, DagStarts
    <3>3. CASE ~ failedOrSkipped[c]
      BY <1>2, <3>2, <3>3 DEF DagBooks, DagResults
    <3> QED BY <1>2, <1>3, <3>1, <3>3
  <2> QED BY <2>1, <2>2
<1>10. ASSUME NEW i \in Steps, ~ DepsFailed(i)' \/ ~ Panicked
       PROVE  Open(i)' = Open(i)
  <2>1. \A k \in DOMAIN def.deps[i] : Dep(i, k) \in Steps /\ (Dep(i, k) = c => results[c] = "none")
    BY <1>0, <1>7, <1>9, <1>10 DEF DepsFailed
  <2> QED BY <1>1, <1>2, <2>1, RecordKeepsOpen DEF DagBooks, DagTypes
<1>11. RunInv'
  BY <1>1, <1>2, <1>5 DEF RunInv
<1>12. DagTypes' /\ DagPhases'
  <2>1. verdict = "none"
    BY <1>1 DEF DagBooks, DagPhases
  <2> QED BY <1>1, <1>3, <1>4, <1>7, <2>1 DEF DagBooks, DagTypes, DagPhases
<1>13. DagResults'
  <2>1. ASSUME NEW i \in Steps, results'[i] = "Succeeded" PROVE Done(i)'
    BY <1>r, <1>3, <1>6, <2>1 DEF DagBooks, DagResults
  <2>2. ASSUME NEW i \in Steps, Done(i)' PROVE results'[i] # "none"
    BY <1>r, <1>2, <1>3, <1>6, <2>2 DEF DagBooks, DagResults, Ran
  <2>3. ASSUME NEW i \in Steps, ~ failedOrSkipped'[i] PROVE results'[i] \in {"none", "Succeeded"}
    BY <1>3, <2>3 DEF DagBooks, DagResults
  <2>4. ASSUME NEW i \in Range(justCompleted') PROVE results'[i] # "none"
    <3>1. i \in Steps
      BY <1>2, <1>4 DEF DagBooks, DagTypes, Range
    <3> QED BY <1>2, <1>3, <1>4, <2>4, <3>1 DEF DagBooks, DagResults, Ran
  <2> QED BY <1>1, <2>1, <2>2, <2>3, <2>4 DEF DagResults
<1>14. DagWorklist'
  <2>1. c \in Range(justCompleted) => ~ Reliable(c)'
    BY <1>6, <1>9 DEF DagBooks, DagResults, Reliable
  <2>2. ASSUME NEW p \in 1..n + 1, NEW q \in 1..n + 1,
               justCompleted'[p] = justCompleted'[q], p # q
        PROVE  ~ Reliable(justCompleted[p])'
    <3>1. CASE p \in 1..n /\ q \in 1..n
      BY <1>4, <1>8, <2>2, <3>1 DEF DagBooks, DagWorklist, DagTypes
    <3>2. CASE ~ (p \in 1..n /\ q \in 1..n)
      <4>1. p = n + 1 \/ q = n + 1
        BY <1>4, <3>2
      <4>2. justCompleted'[p] = c /\ c \in Range(justCompleted)
        BY <1>4, <2>2, <4>1
      <4> QED BY <2>1, <4>2
    <3> QED BY <3>1, <3>2
  <2> QED BY <1>1, <1>4, <2>2 DEF DagWorklist
<1>15. DagCounts' /\ DagStarts'
  <2>1. DagCounts'
    BY <1>1, <1>6, <1>8, <1>10 DEF DagBooks, DagCounts
  <2>2. DagStarts'
    BY <1>0, <1>5, <1>6, <1>7 DEF DagBooks, DagStarts
  <2> QED BY <2>1, <2>2
<1>16. DagUnpanicked'
  <2> SUFFICES ASSUME ~ Panicked PROVE DagUnpanicked'
    BY <1>6 DEF DagUnpanicked
  <2>1. /\ c = tasks[t].step /\ s = tasks[t].result /\ results[c] = "none" /\ Started(c)
        /\ ~ failedOrSkipped[c]
    BY <1>r, <1>1, <1>2, <1>9 DEF Panicked, Started, DagBooks, DagUnpanicked
  <2>2. Open(c) = {} /\ \A i \in Steps : Open(i)' = Open(i)
    BY <1>2, <1>10, <2>1, UnpanickedStart
  <2>3. \A u \in TaskIds' : results'[tasks'[u].step] =
                              IF tasks'[u].stage = "joined" THEN tasks'[u].result ELSE "none"
    BY <1>0, <1>1, <1>3, <1>5, <2>1 DEF DagBooks, DagUnpanicked, DagStarts
  <2>a. \A i \in Steps : results'[i] # "none" => Open(i)' = {}
    BY <1>3, <2>1, <2>2 DEF DagBooks, DagUnpanicked
  <2>4. ASSUME NEW i \in Steps
        PROVE  /\ results'[i] \in Ran => Started(i)'
               /\ failedOrSkipped'[i] => results'[i] \notin {"none", "Succeeded"}
               /\ results'[i] # "none" => Open(i)' = {}
               /\ Started(i)' => def'.when[i] # "false"
    <3>1. results'[i] \in Ran => Started(i)'
      BY <1>3, <1>6, <2>1 DEF DagBooks, DagUnpanicked
    <3>2. failedOrSkipped'[i] => results'[i] \notin {"none", "Succeeded"}
      <4>1. CASE i = c
        BY <1>2, <1>3, <2>1, <4>1 DEF Ran
      <4>2. CASE i # c
        BY <1>3, <4>2 DEF DagBooks, DagUnpanicked
      <4> QED BY <4>1, <4>2
    <3>3. Started(i)' => def'.when[i] # "false"
      BY <1>1, <1>6 DEF DagBooks, DagUnpanicked
    <3> QED BY <2>a, <3>1, <3>2, <3>3
  <2>5. ASSUME NEW i \in Steps, results'[i] = "Skipped", Determined(i)'
        PROVE  def.when[i] = "false" \/ \E d \in DepsOf(i) : results'[d] # "Succeeded"
    <3>1. i # c /\ results[i] = "Skipped" /\ Open(i) = {}
      BY <1>2, <1>3, <2>1, <2>5 DEF DagBooks, DagUnpanicked, Ran
    <3>2. \A d \in DepsOf(i) : d \in Steps /\ d # c
      BY <1>0, <2>1, <3>1 DEF Open, DepsOf
    <3>3. def.when[i] = "false" \/ \E d \in DepsOf(i) : results[d] # "Succeeded"
      BY <1>8, <2>5, <3>1 DEF DagBooks, DagUnpanicked
    <3> QED BY <1>3, <3>2, <3>3
  <2>6. \A i \in Steps : ~ Started(i)' /\ results'[i] = "none" => inDegree'[i] > 0
    BY <1>1, <1>2, <1>3, <1>6 DEF DagBooks, DagUnpanicked, Ran
  <2>7. ASSUME NEW S \in SUBSET Steps, \A i \in S : DepsOf(i) \cap S # {}
        PROVE  \A i \in S : results'[i] = "none" /\ ~ Started(i)'
    <3>1. \A i \in S : results[i] = "none" /\ ~ Started(i)
      BY <2>7 DEF DagBooks, DagUnpanicked
    <3> QED BY <1>3, <1>6, <2>1, <3>1
  <2> QED BY <1>1, <1>7, <2>3, <2>4, <2>5, <2>6, <2>7 DEF DagUnpanicked
<1> QED BY <1>11, <1>12, <1>13, <1>14, <1>15, <1>16 DEF DagBooks

-------------------------------------------------------------------------
(* A step's turn comes in the initial loop, or when an entry of its        *)
(* depends_on is released: it is held, skipped or spawned.                 *)

OpenAmong(i, rs) ==
  {k \in DOMAIN def.deps[i] : \/ results[Dep(i, k)] = "none"
                              \/ Dep(i, k) \in Range(justCompleted)
                              \/ <<i, k>> \in rs}

Turn(i) ==
  /\ i \in Steps /\ UNCHANGED <<def, phase, verdict>>
  /\ IF phase = "initial"
     THEN scan = i /\ scan' = i + 1 /\ inDegree' = inDegree
     ELSE phase = "drain" /\ scan' = scan
  /\ releasing' \subseteq releasing
  /\ inDegree' \in [Steps -> Nat]
  /\ \A j \in Steps \ {i} : inDegree'[j] = inDegree[j]
  /\ \A j \in Steps : ~ DepsFailed(j) \/ ~ Panicked =>
       inDegree'[j] = Cardinality(OpenAmong(j, releasing'))
  /\ ~ Panicked => ~ Started(i) /\ results[i] = "none"
  /\ Started(i) => DepsFailed(i)

LEMMA TurnFacts ==
  ASSUME RunInv, DagBooks, ~ UnknownDep, NEW i, Turn(i)
  PROVE  /\ scan \in 1..N + 1 /\ scan' \in 1..N + 1 /\ N \in Nat /\ Steps = 1..N
         /\ \A j \in Steps : j >= scan' => j >= scan /\ (phase = "initial" => j # i)
         /\ \A j \in Steps : j < scan' => j < scan \/ j = i
         /\ \A j \in Steps : OpenAmong(j, releasing') \subseteq Open(j)
         /\ InDegrees' = InDegrees /\ Entries' = Entries
         /\ \A j, k : Dep(j, k)' = Dep(j, k)
         /\ \A j : DepsOf(j)' = DepsOf(j)
         /\ \A m : NameToIdx(m)' = NameToIdx(m) /\ (Known(m)' <=> Known(m))
         /\ \A j : Determined(j)' <=> Determined(j)
         /\ \A e \in releasing : /\ e[1] \in Steps /\ e[2] \in DOMAIN def.deps[e[1]]
                                 /\ e = <<e[1], e[2]>>
         /\ \A j \in Steps : \A k \in DOMAIN def.deps[j] :
              Dep(j, k) \in Steps /\ Dep(j, k) \in DepsOf(j)
         /\ \A j \in Steps : DepsOf(j) \subseteq Steps
         /\ \A t \in TaskIds : tasks[t].step \in Steps
<1>1. /\ scan \in 1..N + 1 /\ N \in Nat /\ Steps = 1..N
      /\ \A e \in releasing : /\ e[1] \in Steps /\ e[2] \in DOMAIN def.deps[e[1]]
                              /\ e = <<e[1], e[2]>>
      /\ \A j \in Steps : \A k \in DOMAIN def.deps[j] :
           Dep(j, k) \in Steps /\ Dep(j, k) \in DepsOf(j)
      /\ \A j \in Steps : DepsOf(j) \subseteq Steps
      /\ \A t \in TaskIds : tasks[t].step \in Steps
  BY DagFacts
<1>2. /\ i \in 1..N
      /\ \/ scan' = scan + 1 /\ i = scan /\ phase = "initial"
         \/ scan' = scan /\ phase # "initial"
  BY <1>1 DEF Turn
<1>3. /\ InDegrees' = InDegrees /\ Entries' = Entries
      /\ \A j, k : Dep(j, k)' = Dep(j, k)
      /\ \A j : DepsOf(j)' = DepsOf(j)
      /\ \A m : NameToIdx(m)' = NameToIdx(m) /\ (Known(m)' <=> Known(m))
  BY SameDefinition DEF Turn
<1>4. \A j : Determined(j)' <=> Determined(j)
  BY <1>3 DEF Turn, Determined
<1>5. \A j \in Steps : OpenAmong(j, releasing') \subseteq Open(j)
  BY DEF Turn, OpenAmong, Open
<1>6. /\ scan' \in 1..N + 1
      /\ \A j \in Steps : j >= scan' => j >= scan /\ (phase = "initial" => j # i)
      /\ \A j \in Steps : j < scan' => j < scan \/ j = i
  BY <1>1, <1>2
<1> QED BY <1>1, <1>3, <1>4, <1>5, <1>6

\* The in-degree is not zero yet.
LEMMA DagHold ==
  ASSUME RunInv, DagBooks, ~ UnknownDep, NEW i, Turn(i), inDegree'[i] # 0,
         UNCHANGED <<tasks, results, failedOrSkipped, justCompleted>>
  PROVE  RunInv' /\ DagBooks'
<1>0. /\ scan' \in 1..N + 1 /\ N \in Nat /\ Steps = 1..N
      /\ \A j \in Steps : j >= scan' => j >= scan
      /\ \A j \in Steps : j < scan' => j < scan \/ j = i
      /\ \A j \in Steps : OpenAmong(j, releasing') \subseteq Open(j)
      /\ InDegrees' = InDegrees /\ Entries' = Entries
      /\ \A j, k : Dep(j, k)' = Dep(j, k)
      /\ \A j : DepsOf(j)' = DepsOf(j)
      /\ \A m : NameToIdx(m)' = NameToIdx(m) /\ (Known(m)' <=> Known(m))
      /\ \A j : Determined(j)' <=> Determined(j)
  BY TurnFacts
<1>1. /\ TaskIds' = TaskIds /\ In("joined")' = In("joined") /\ (Panicked' <=> Panicked)
      /\ Unjoined' = Unjoined
      /\ \A j : (Started(j)' <=> Started(j)) /\ (Done(j)' <=> Done(j))
  BY DEF TaskIds, In, Panicked, Unjoined, Started, Done
<1>2. \A j \in Steps : Open(j)' = OpenAmong(j, releasing')
  BY <1>0 DEF Open, OpenAmong, Turn
<1>3. /\ \A j : DepsFailed(j)' <=> DepsFailed(j)
      /\ \A j : Reliable(j)' <=> Reliable(j)
  BY <1>0, <1>1 DEF DepsFailed, Reliable
<1>4. RunInv'
  BY <1>0, <1>1 DEF RunInv, TasksInv, TasksTypeOK, Turn
<1>5. DagTypes' /\ DagPhases'
  <2>1. DagTypes'
    BY <1>0 DEF DagBooks, DagTypes, Turn
  <2>2. phase' # "over" /\ phase' = phase /\ verdict' = verdict /\ (phase # "drain" => releasing' = {})
    BY DEF Turn, DagBooks, DagPhases
  <2>3. phase = "initial" =>
          /\ inDegree' = InDegrees
          /\ \A j \in Steps : j >= scan' => ~ Started(j) /\ results[j] = "none"
    BY <1>0 DEF Turn, DagBooks, DagPhases
  <2>4. DagPhases'
    BY <1>0, <1>1, <2>2, <2>3 DEF Turn, DagBooks, DagPhases
  <2> QED BY <2>1, <2>4
<1>6. DagResults' /\ DagWorklist'
  BY <1>0, <1>1, <1>3 DEF DagBooks, DagResults, DagWorklist, Turn
<1>7. DagCounts' /\ DagStarts'
  <2>1. DagCounts'
    BY <1>0, <1>1, <1>2, <1>3 DEF DagBooks, DagCounts, Turn
  <2>2. DagStarts'
    BY <1>0, <1>1 DEF DagBooks, DagStarts
  <2> QED BY <2>1, <2>2
<1>8. DagUnpanicked'
  <2> SUFFICES ASSUME ~ Panicked PROVE DagUnpanicked'
    BY <1>1 DEF DagUnpanicked
  <2>1. inDegree'[i] > 0 /\ \A j \in Steps \ {i} : inDegree'[j] = inDegree[j]
    BY DEF Turn
  <2>2. /\ phase' # "initial" => \A j \in Steps :
             ~ Started(j)' /\ results'[j] = "none" => inDegree'[j] > 0
        /\ phase' = "initial" => \A j \in Steps :
             j < scan' /\ ~ Started(j)' /\ results'[j] = "none" => inDegree'[j] > 0
    BY <1>0, <1>1, <2>1 DEF DagBooks, DagUnpanicked, Turn
  <2>3. \A j \in Steps : results[j] # "none" => Open(j)' = {}
    BY <1>0, <1>2 DEF DagBooks, DagUnpanicked
  <2> QED BY <1>0, <1>1, <2>2, <2>3 DEF DagBooks, DagUnpanicked, Turn
<1> QED BY <1>4, <1>5, <1>6, <1>7, <1>8 DEF DagBooks

\* The in-degree is zero and the step may run.
LEMMA DagSpawn ==
  ASSUME RunInv, DagBooks, ~ UnknownDep, NEW i, Turn(i), inDegree'[i] = 0,
         ~ DepsFailed(i), def.when[i] # "false", SpawnStep(i)
  PROVE  RunInv' /\ DagBooks'
<1>0. /\ scan' \in 1..N + 1 /\ N \in Nat /\ Steps = 1..N
      /\ \A j \in Steps : j >= scan' => j >= scan /\ (phase = "initial" => j # i)
      /\ \A j \in Steps : j < scan' => j < scan \/ j = i
      /\ \A j \in Steps : OpenAmong(j, releasing') \subseteq Open(j)
      /\ InDegrees' = InDegrees /\ Entries' = Entries
      /\ \A j, k : Dep(j, k)' = Dep(j, k)
      /\ \A j : DepsOf(j)' = DepsOf(j)
      /\ \A m : NameToIdx(m)' = NameToIdx(m) /\ (Known(m)' <=> Known(m))
      /\ \A j : Determined(j)' <=> Determined(j)
      /\ \A j \in Steps : DepsOf(j) \subseteq Steps
      /\ \A t \in TaskIds : tasks[t].step \in Steps
  BY TurnFacts
<1>1. /\ UNCHANGED <<results, failedOrSkipped, justCompleted>> /\ tasks' = WithSpawned(tasks, i)
      /\ i \in Steps /\ ~ Started(i) /\ (~ Panicked => results[i] = "none")
  BY DEF SpawnStep, Turn
<1>2. /\ TasksInv'
      /\ Len(tasks) \in Nat /\ TaskIds = 1..Len(tasks) /\ TaskIds' = 1..Len(tasks) + 1
      /\ \A u \in TaskIds : u \in TaskIds' /\ tasks'[u] = tasks[u]
      /\ \A u \in TaskIds' : u \in TaskIds \/ u = Len(tasks) + 1
      /\ tasks'[Len(tasks) + 1].step = i /\ tasks'[Len(tasks) + 1].stage # "joined"
      /\ \A j : Started(j)' <=> Started(j) \/ j = i
      /\ \A j : Done(j)' <=> Done(j)
      /\ Panicked' <=> Panicked
  BY <1>1, SpawnStarts DEF RunInv
<1>3. \A j \in Steps : Open(j)' = OpenAmong(j, releasing')
  BY <1>0, <1>1 DEF Open, OpenAmong, Turn
<1>4. Open(i)' = {}
  <2>1. RunInv'
    BY <1>0, <1>1, <1>2 DEF RunInv, Turn
  <2>2. Cardinality(Open(i)') = 0
    BY <1>1, <1>3 DEF Turn
  <2>3. \A j \in Steps : Cardinality(OpenAmong(j, releasing')) = 0 => OpenAmong(j, releasing') = {}
    <3> SUFFICES ASSUME NEW j \in Steps, Cardinality(OpenAmong(j, releasing')) = 0
                 PROVE  OpenAmong(j, releasing') = {}
      OBVIOUS
    <3>1. IsFiniteSet(Open(j)) /\ OpenAmong(j, releasing') \in SUBSET Open(j)
      BY <1>0, OpenIsFinite
    <3>2. IsFiniteSet(OpenAmong(j, releasing'))
      BY <3>1, FS_Subset
    <3> QED BY <3>2, FS_EmptySet
  <2> QED BY <1>1, <1>3, <2>2, <2>3
<1>5. /\ \A j : DepsFailed(j)' <=> DepsFailed(j)
      /\ \A j : Reliable(j)' <=> Reliable(j)
  BY <1>0, <1>1, <1>2 DEF DepsFailed, Reliable
\* Every dependency has succeeded, and was run.
<1>6. ASSUME NEW d \in DepsOf(i) PROVE d \in Steps /\ results[d] = "Succeeded" /\ Done(d)
  <2>1. d \in Steps /\ ~ failedOrSkipped[d]
    BY <1>0, <1>1, <1>6 DEF DepsFailed, DagBooks, DagTypes
  <2>2. results[d] # "none"
    BY <1>1, <1>3, <1>4, <1>6 DEF DepsOf, OpenAmong
  <2> QED BY <2>1, <2>2 DEF DagBooks, DagResults
<1>7. RunInv'
  BY <1>0, <1>1, <1>2 DEF RunInv, Turn
<1>8. DagTypes' /\ DagPhases'
  <2>1. DagTypes'
    BY <1>0, <1>1 DEF DagBooks, DagTypes, Turn
  <2>2. phase' # "over" /\ phase' = phase /\ verdict' = verdict /\ (phase # "drain" => releasing' = {})
    BY DEF Turn, DagBooks, DagPhases
  <2>3. phase = "initial" =>
          /\ inDegree' = InDegrees /\ Len(def.deps[i]) = 0
          /\ \A j \in Steps : j >= scan' => ~ Started(j)' /\ results[j] = "none"
    BY <1>0, <1>1, <1>2 DEF Turn, DagBooks, DagPhases, InDegrees
  <2>4. DagPhases'
    BY <1>0, <1>1, <1>2, <2>2, <2>3 DEF Turn, DagBooks, DagPhases
  <2> QED BY <2>1, <2>4
<1>9. DagResults' /\ DagWorklist'
  BY <1>0, <1>1, <1>2, <1>5 DEF DagBooks, DagResults, DagWorklist, Turn
<1>10. DagCounts' /\ DagStarts'
  <2>1. DagCounts'
    <3>1. \A j \in Steps : Started(j)' /\ ~ DepsFailed(j)' => Open(j)' = {}
      BY <1>0, <1>2, <1>3, <1>4, <1>5 DEF DagBooks, DagCounts
    <3>2. \A j \in Steps : ~ DepsFailed(j)' \/ ~ Panicked' => inDegree'[j] = Cardinality(Open(j)')
      BY <1>2, <1>3, <1>5 DEF Turn
    <3> QED BY <3>1, <3>2 DEF DagCounts
  <2>2. \A t, u \in TaskIds' : tasks'[t].step = tasks'[u].step => t = u
    BY <1>1, <1>2 DEF DagBooks, DagStarts, Started
  <2>3. \A j \in Steps : Started(j)' => \A d \in DepsOf(j) : Done(d)'
    BY <1>2, <1>6 DEF DagBooks, DagStarts
  <2> QED BY <1>0, <2>1, <2>2, <2>3 DEF DagStarts
<1>11. DagUnpanicked'
  <2> SUFFICES ASSUME ~ Panicked PROVE DagUnpanicked'
    BY <1>2 DEF DagUnpanicked
  <2>1. results[i] = "none"
    BY <1>1
  <2>2. \A t \in TaskIds' : results'[tasks'[t].step] =
          IF tasks'[t].stage = "joined" THEN tasks'[t].result ELSE "none"
    BY <1>1, <1>2, <2>1 DEF DagBooks, DagUnpanicked
  <2>3. /\ phase' # "initial" => \A j \in Steps :
             ~ Started(j)' /\ results'[j] = "none" => inDegree'[j] > 0
        /\ phase' = "initial" => \A j \in Steps :
             j < scan' /\ ~ Started(j)' /\ results'[j] = "none" => inDegree'[j] > 0
    BY <1>0, <1>1, <1>2 DEF DagBooks, DagUnpanicked, Turn
  <2>4. \A j \in Steps : results[j] # "none" => Open(j)' = {}
    BY <1>0, <1>3 DEF DagBooks, DagUnpanicked
  <2>5. \A j \in Steps : Started(j)' => def.when[j] # "false"
    BY <1>2 DEF DagBooks, DagUnpanicked
  <2>6. ASSUME NEW S \in SUBSET Steps, \A j \in S : DepsOf(j) \cap S # {}
        PROVE  \A j \in S : results[j] = "none" /\ ~ Started(j)'
    <3>1. \A j \in S : results[j] = "none" /\ ~ Started(j)
      BY <2>6 DEF DagBooks, DagUnpanicked
    <3>2. i \notin S
      BY <1>6, <2>6, <3>1
    <3> QED BY <1>2, <3>1, <3>2
  <2>7. /\ \A j \in Steps : results'[j] \in Ran => Started(j)'
        /\ \A j \in Steps : failedOrSkipped'[j] => results'[j] \notin {"none", "Succeeded"}
        /\ \A j \in Steps : results'[j] = "Skipped" /\ Determined(j)' =>
             def'.when[j] = "false" \/ \E d \in DepsOf(j)' : results'[d] # "Succeeded"
    BY <1>0, <1>1, <1>2 DEF DagBooks, DagUnpanicked, Turn
  <2> QED BY <1>0, <1>1, <2>2, <2>3, <2>4, <2>5, <2>6, <2>7 DEF DagUnpanicked, Turn
<1> QED BY <1>7, <1>8, <1>9, <1>10, <1>11 DEF DagBooks

\* The in-degree is zero and the step is refused.
LEMMA DagSkip ==
  ASSUME RunInv, DagBooks, ~ UnknownDep, NEW i, Turn(i), inDegree'[i] = 0, Skip(i),
         Determined(i) => \/ def.when[i] = "false"
                          \/ \E d \in DepsOf(i) : d = i \/ failedOrSkipped[d]
                                                        \/ results[d] # "Succeeded"
  PROVE  RunInv' /\ DagBooks'
<1> DEFINE n == Len(justCompleted)
<1>0. /\ scan' \in 1..N + 1 /\ N \in Nat /\ Steps = 1..N
      /\ \A j \in Steps : j >= scan' => j >= scan /\ (phase = "initial" => j # i)
      /\ \A j \in Steps : j < scan' => j < scan \/ j = i
      /\ \A j \in Steps : OpenAmong(j, releasing') \subseteq Open(j)
      /\ InDegrees' = InDegrees /\ Entries' = Entries
      /\ \A j, k : Dep(j, k)' = Dep(j, k)
      /\ \A j : DepsOf(j)' = DepsOf(j)
      /\ \A m : NameToIdx(m)' = NameToIdx(m) /\ (Known(m)' <=> Known(m))
      /\ \A j : Determined(j)' <=> Determined(j)
      /\ \A e \in releasing : /\ e[1] \in Steps /\ e[2] \in DOMAIN def.deps[e[1]]
                              /\ e = <<e[1], e[2]>>
      /\ \A j \in Steps : \A k \in DOMAIN def.deps[j] :
           Dep(j, k) \in Steps /\ Dep(j, k) \in DepsOf(j)
      /\ \A j \in Steps : DepsOf(j) \subseteq Steps
      /\ \A t \in TaskIds : tasks[t].step \in Steps
  BY TurnFacts
<1>1. /\ i \in Steps /\ UNCHANGED <<tasks, def, phase, verdict>>
      /\ \A j \in Steps : results'[j] = IF j = i THEN "Skipped" ELSE results[j]
      /\ results' \in [Steps -> Ran \cup {"none", "Skipped"}]
      /\ \A j \in Steps : failedOrSkipped'[j] = IF j = i THEN TRUE ELSE failedOrSkipped[j]
      /\ failedOrSkipped' \in [Steps -> BOOLEAN]
      /\ ~ Panicked => ~ Started(i) /\ results[i] = "none"
  BY DEF Skip, Turn, RunInv, DagBooks, DagTypes
<1>2. /\ n \in Nat /\ justCompleted' \in Seq(Steps)
      /\ DOMAIN justCompleted = 1..n /\ DOMAIN justCompleted' = 1..n + 1
      /\ \A p \in 1..n : justCompleted'[p] = justCompleted[p] /\ justCompleted[p] \in Range(justCompleted)
      /\ justCompleted'[n + 1] = i
      /\ Range(justCompleted') = Range(justCompleted) \cup {i}
  <2>1. justCompleted \in Seq(Steps) /\ justCompleted' = Append(justCompleted, i)
    BY DEF Skip, DagBooks, DagTypes
  <2>2. /\ n \in Nat /\ justCompleted' \in Seq(Steps)
        /\ DOMAIN justCompleted = 1..n /\ DOMAIN justCompleted' = 1..n + 1
        /\ \A p \in 1..n : justCompleted'[p] = justCompleted[p]
        /\ justCompleted'[n + 1] = i
    BY <1>1, <2>1
  <2> QED BY <2>2 DEF Range
<1>3. /\ TaskIds' = TaskIds /\ In("joined")' = In("joined") /\ (Panicked' <=> Panicked)
      /\ Unjoined' = Unjoined
      /\ \A j : (Started(j)' <=> Started(j)) /\ (Done(j)' <=> Done(j))
  BY <1>1 DEF TaskIds, In, Panicked, Unjoined, Started, Done
<1>4. /\ \A j \in Steps : DepsFailed(j) => DepsFailed(j)'
      /\ \A j \in Steps : Reliable(j)' => Reliable(j)
  BY <1>0, <1>1, <1>3 DEF DepsFailed, Reliable
<1>5. ASSUME NEW j \in Steps, ~ DepsFailed(j)' \/ ~ Panicked
      PROVE  Open(j)' = OpenAmong(j, releasing')
  <2>1. \A k \in DOMAIN def.deps[j] : Dep(j, k) = i => results[i] = "none"
    BY <1>0, <1>1, <1>5 DEF DepsFailed
  <2> QED BY <1>0, <1>1, <1>2, <2>1 DEF Open, OpenAmong
<1>6. RunInv'
  BY <1>0, <1>1, <1>3 DEF RunInv, TasksInv, TasksTypeOK
<1>7. DagTypes' /\ DagPhases'
  <2>1. DagTypes'
    BY <1>0, <1>1, <1>2 DEF DagBooks, DagTypes, Turn
  <2>2. phase' # "over" /\ phase' = phase /\ verdict' = verdict /\ (phase # "drain" => releasing' = {})
    BY DEF Turn, DagBooks, DagPhases
  <2>3. phase = "initial" =>
          /\ inDegree' = InDegrees /\ Len(def.deps[i]) = 0
          /\ \A j \in Steps : j >= scan' => ~ Started(j)' /\ results'[j] = "none"
    BY <1>0, <1>1, <1>3 DEF Turn, DagBooks, DagPhases, InDegrees
  <2>4. phase = "initial" => \A j \in Steps :
          Started(j)' \/ results'[j] # "none" => Len(def.deps[j]) = 0
    BY <1>1, <1>3, <2>3 DEF DagBooks, DagPhases
  <2>5. verdict = "none" /\ InDegrees' = InDegrees
    BY <1>0, <2>2 DEF DagBooks, DagPhases
  <2>6. DagPhases'
    BY <1>1, <2>2, <2>3, <2>4, <2>5 DEF DagPhases
  <2> QED BY <2>1, <2>6
<1>8. DagResults'
  <2>1. ASSUME NEW j \in Range(justCompleted') PROVE results'[j] # "none"
    <3>1. j \in Steps
      BY <1>1, <1>2 DEF DagBooks, DagTypes, Range
    <3> QED BY <1>1, <1>2, <2>1, <3>1 DEF DagBooks, DagResults
  <2>2. \A e \in releasing' : results'[Dep(e[1], e[2])] # "none"
    BY <1>0, <1>1 DEF DagBooks, DagResults, Turn
  <2> QED BY <1>0, <1>1, <1>3, <2>1, <2>2 DEF DagBooks, DagResults
<1>9. DagWorklist'
  <2>1. results[i] # "none" => ~ Reliable(i)'
    BY <1>1, <1>3 DEF Reliable
  <2>2. i \in Range(justCompleted) => ~ Reliable(i)'
    BY <2>1 DEF DagBooks, DagResults
  <2>3. ASSUME NEW p \in 1..n + 1, NEW q \in 1..n + 1,
               justCompleted'[p] = justCompleted'[q], p # q
        PROVE  ~ Reliable(justCompleted[p])'
    <3>1. CASE p \in 1..n /\ q \in 1..n
      BY <1>2, <1>4, <2>3, <3>1 DEF DagBooks, DagWorklist, DagTypes
    <3>2. CASE ~ (p \in 1..n /\ q \in 1..n)
      <4>1. p = n + 1 \/ q = n + 1
        BY <1>2, <3>2
      <4>2. justCompleted'[p] = i /\ i \in Range(justCompleted)
        BY <1>2, <2>3, <4>1
      <4> QED BY <2>2, <4>2
    <3> QED BY <3>1, <3>2
  <2>4. ASSUME NEW e \in releasing', Reliable(Dep(e[1], e[2]))'
        PROVE  Dep(e[1], e[2]) \notin Range(justCompleted')
    <3>1. e \in releasing /\ Dep(e[1], e[2]) \in Steps /\ results[Dep(e[1], e[2])] # "none"
      BY <1>0 DEF Turn, DagBooks, DagResults
    <3>2. Reliable(Dep(e[1], e[2]))
      BY <1>0, <1>4, <2>4, <3>1
    <3>3. Dep(e[1], e[2]) # i
      BY <1>0, <2>1, <2>4, <3>1
    <3> QED BY <1>2, <3>1, <3>2, <3>3 DEF DagBooks, DagWorklist
  <2> QED BY <1>0, <1>2, <2>3, <2>4 DEF DagWorklist
<1>10. DagCounts' /\ DagStarts'
  <2>1. ASSUME NEW j \in Steps, ~ DepsFailed(j)' \/ ~ Panicked'
        PROVE  inDegree'[j] = Cardinality(Open(j)')
    BY <1>3, <1>4, <1>5, <2>1 DEF Turn
  <2>2. ASSUME NEW j \in Steps, Started(j)', ~ DepsFailed(j)'
        PROVE  Open(j)' = {}
    <3>1. Open(j) = {}
      BY <1>3, <1>4, <2>2 DEF DagBooks, DagCounts
    <3> QED BY <1>0, <1>5, <2>2, <3>1
  <2>3. DagStarts'
    BY <1>0, <1>1, <1>3 DEF DagBooks, DagStarts
  <2> QED BY <2>1, <2>2, <2>3 DEF DagCounts
<1>11. DagUnpanicked'
  <2> SUFFICES ASSUME ~ Panicked PROVE DagUnpanicked'
    BY <1>3 DEF DagUnpanicked
  <2>1. /\ results[i] = "none" /\ ~ Started(i)
        /\ \A j \in Steps : results[j] # "none" => results'[j] = results[j]
    BY <1>1
  <2>2. \A t \in TaskIds' : results'[tasks'[t].step] =
          IF tasks'[t].stage = "joined" THEN tasks'[t].result ELSE "none"
    BY <1>0, <1>1, <1>3, <2>1 DEF DagBooks, DagUnpanicked, Started
  <2>3. /\ phase' # "initial" => \A j \in Steps :
             ~ Started(j)' /\ results'[j] = "none" => inDegree'[j] > 0
        /\ phase' = "initial" => \A j \in Steps :
             j < scan' /\ ~ Started(j)' /\ results'[j] = "none" => inDegree'[j] > 0
    BY <1>0, <1>1, <1>3 DEF DagBooks, DagUnpanicked, Turn
\* Nothing is open any more, so nothing i depends on is without a result.
  <2>4. Open(i)' = {}
    <3>1. IsFiniteSet(Open(i)) /\ OpenAmong(i, releasing') \in SUBSET Open(i)
      BY <1>0, <1>1, OpenIsFinite
    <3>2. IsFiniteSet(OpenAmong(i, releasing')) /\ Cardinality(OpenAmong(i, releasing')) = 0
      BY <1>1, <3>1, FS_Subset DEF Turn
    <3> QED BY <1>1, <1>5, <3>2, FS_EmptySet
  <2>5. \A j \in Steps : results'[j] # "none" => Open(j)' = {}
    BY <1>0, <1>1, <1>5, <2>4 DEF DagBooks, DagUnpanicked
  <2>6. \A d \in DepsOf(i) : results[d] # "none" /\ d # i
    <3>1. OpenAmong(i, releasing') = {}
      BY <1>1, <1>5, <2>4
    <3> QED BY <2>1, <3>1 DEF DepsOf, OpenAmong
  <2>7. /\ \A j \in Steps : results'[j] \in Ran => Started(j)'
        /\ \A j \in Steps : failedOrSkipped'[j] => results'[j] \notin {"none", "Succeeded"}
        /\ \A j \in Steps : Started(j)' => def'.when[j] # "false"
    BY <1>1, <1>3 DEF DagBooks, DagUnpanicked, Ran
  <2>8. ASSUME NEW j \in Steps, results'[j] = "Skipped", Determined(j)'
        PROVE  def.when[j] = "false" \/ \E d \in DepsOf(j) : results'[d] # "Succeeded"
    <3>1. CASE j = i
      <4>1. \A d \in DepsOf(i) : d \in Steps /\ (failedOrSkipped[d] => results[d] # "Succeeded")
        BY <1>0, <1>1 DEF DagBooks, DagUnpanicked
      <4> QED BY <1>0, <1>1, <2>6, <2>8, <3>1, <4>1
    <3>2. CASE j # i
      <4>1. def.when[j] = "false" \/ \E d \in DepsOf(j) : results[d] # "Succeeded"
        BY <1>0, <1>1, <2>8, <3>2 DEF DagBooks, DagUnpanicked
      <4> QED BY <1>0, <1>1, <4>1
    <3> QED BY <3>1, <3>2
  <2>9. ASSUME NEW S \in SUBSET Steps, \A j \in S : DepsOf(j) \cap S # {}
        PROVE  \A j \in S : results'[j] = "none" /\ ~ Started(j)'
    <3>1. \A j \in S : results[j] = "none" /\ ~ Started(j)
      BY <2>9 DEF DagBooks, DagUnpanicked
    <3>2. i \notin S
      BY <2>6, <2>9, <3>1
    <3> QED BY <1>1, <1>3, <3>1, <3>2
  <2> QED BY <1>0, <1>1, <2>2, <2>3, <2>5, <2>7, <2>8, <2>9 DEF DagUnpanicked
<1> QED BY <1>6, <1>7, <1>8, <1>9, <1>10, <1>11 DEF DagBooks

LEMMA DagInitialStep ==
  ASSUME RunInv, DagBooks, ~ UnknownDep, InitialStep
  PROVE  RunInv' /\ DagBooks'
<1>0. /\ scan \in Steps /\ scan \in 1..N + 1 /\ N \in Nat /\ Steps = 1..N
      /\ def \in Definition
  BY DagFacts DEF InitialStep, RunInv
<1>1. /\ phase = "initial" /\ releasing = {} /\ releasing' = {} /\ scan' = scan + 1
      /\ UNCHANGED <<def, phase, inDegree, verdict>> /\ inDegree = InDegrees
      /\ inDegree \in [Steps -> Nat]
      /\ ~ Started(scan) /\ results[scan] = "none"
  BY <1>0 DEF InitialStep, DagBooks, DagPhases, DagTypes
<1>2. \A j \in Steps : ~ DepsFailed(j) \/ ~ Panicked =>
        inDegree'[j] = Cardinality(OpenAmong(j, releasing'))
  <2>1. \A j \in Steps : OpenAmong(j, releasing') = Open(j)
    BY <1>1 DEF OpenAmong, Open
  <2> QED BY <1>1, <2>1 DEF DagBooks, DagCounts
<1>3. PICK i : i = scan
  OBVIOUS
<1>4. Turn(i) /\ i \in Steps
  BY <1>0, <1>1, <1>2, <1>3 DEF Turn
<1>5. CASE inDegree[i] # 0
  BY <1>1, <1>3, <1>4, <1>5, DagHold DEF InitialStep
<1>6. CASE inDegree[i] = 0
  <2>1. DOMAIN def.deps[i] = {}
    BY <1>0, <1>1, <1>4, <1>6, DepsAreFinite DEF InDegrees
  <2>2. DepsOf(i) = {} /\ ~ DepsFailed(i)
    BY <2>1 DEF DepsOf, DepsFailed
  <2>3. CASE def.when[i] = "true"
    <3>1. SpawnStep(i)
      BY <1>3, <1>6, <2>2, <2>3 DEF InitialStep, WhenInitially
    <3> QED BY <1>1, <1>4, <1>6, <2>2, <2>3, <3>1, DagSpawn
  <2>4. CASE def.when[i] # "true"
    <3>1. Skip(i)
      BY <1>3, <1>6, <2>2, <2>4 DEF InitialStep, WhenInitially
    <3>2. Determined(i) => def.when[i] = "false"
      BY <2>2, <2>4 DEF Determined
    <3> QED BY <1>1, <1>4, <1>6, <3>1, <3>2, DagSkip
  <2> QED BY <2>3, <2>4
<1> QED BY <1>5, <1>6

LEMMA DagRelease ==
  ASSUME RunInv, DagBooks, ~ UnknownDep, ReleaseDependent
  PROVE  RunInv' /\ DagBooks'
<1>1. PICK e \in releasing :
        /\ phase = "drain" /\ UNCHANGED <<def, phase, scan, verdict>>
        /\ inDegree' = [inDegree EXCEPT ![e[1]] = Lowered(@)]
        /\ releasing' = releasing \ {e} /\ Release(e[1])
  BY DEF ReleaseDependent
<1>2. PICK i, k, d : i = e[1] /\ k = e[2] /\ d = Dep(i, k)
  OBVIOUS
<1>3. /\ i \in Steps /\ k \in DOMAIN def.deps[i] /\ e = <<i, k>> /\ d \in Steps /\ d \in DepsOf(i)
      /\ \A f \in releasing : f[1] \in Steps /\ f[2] \in DOMAIN def.deps[f[1]] /\ f = <<f[1], f[2]>>
      /\ \A j \in Steps : DepsOf(j) \subseteq Steps
  BY <1>2, DagFacts
<1>4. results[d] # "none" /\ k \in Open(i)
  BY <1>1, <1>2, <1>3 DEF DagBooks, DagResults, Open
<1>5. /\ inDegree' \in [Steps -> Nat] /\ inDegree'[i] = Lowered(inDegree[i])
      /\ \A j \in Steps \ {i} : inDegree'[j] = inDegree[j]
      /\ inDegree[i] \in Nat
  <2>1. inDegree \in [Steps -> Nat]
    BY DEF DagBooks, DagTypes
  <2>2. inDegree' = [inDegree EXCEPT ![i] = Lowered(inDegree[i])] /\ inDegree[i] \in Nat
    BY <1>1, <1>2, <1>3, <2>1
  <2>3. Lowered(inDegree[i]) \in Nat
    BY <2>2 DEF Lowered
  <2> QED BY <1>3, <2>1, <2>2, <2>3
<1>6. \A j \in Steps \ {i} : OpenAmong(j, releasing') = Open(j)
  BY <1>1, <1>3 DEF OpenAmong, Open
\* What the released entry was counted for.
<1>7. ASSUME ~ DepsFailed(i) \/ ~ Panicked
      PROVE  inDegree'[i] = Cardinality(OpenAmong(i, releasing'))
  <2>1. Reliable(d)
    BY <1>3, <1>7 DEF Reliable, DepsFailed
  <2>2. d \notin Range(justCompleted)
    BY <1>2, <2>1 DEF DagBooks, DagWorklist
  <2>3. OpenAmong(i, releasing') = Open(i) \ {k}
    BY <1>1, <1>2, <1>3, <1>4, <2>2 DEF OpenAmong, Open
  <2>4. IsFiniteSet(Open(i)) /\ inDegree[i] = Cardinality(Open(i))
    BY <1>3, <1>7, OpenIsFinite DEF DagBooks, DagCounts
  <2>5. Cardinality(Open(i) \ {k}) = Cardinality(Open(i)) - 1 /\ Cardinality(Open(i)) # 0
    BY <1>4, <2>4, FS_RemoveElement, FS_EmptySet
  <2>6. inDegree'[i] = inDegree[i] - 1
    BY <1>5, <2>4, <2>5 DEF Lowered
  <2> QED BY <2>3, <2>4, <2>5, <2>6
<1>8. Turn(i)
  <2>1. \A j \in Steps : ~ DepsFailed(j) \/ ~ Panicked =>
          inDegree'[j] = Cardinality(OpenAmong(j, releasing'))
    BY <1>5, <1>6, <1>7 DEF DagBooks, DagCounts
  <2>2. ~ Panicked => ~ Started(i) /\ results[i] = "none"
    BY <1>3, <1>4, UnpanickedStart DEF DagBooks, DagUnpanicked
  <2>3. Started(i) => DepsFailed(i)
    BY <1>3, <1>4 DEF DagBooks, DagCounts
  <2> QED BY <1>1, <1>3, <1>5, <2>1, <2>2, <2>3 DEF Turn
<1>9. CASE inDegree'[i] # 0
  BY <1>1, <1>2, <1>8, <1>9, DagHold DEF Release
<1>10. CASE inDegree'[i] = 0 /\ ~ DepsFailed(i) /\ WhenNow(i)
  <2>1. SpawnStep(i)
    BY <1>1, <1>2, <1>10 DEF Release
  <2>2. def.when[i] # "false"
    BY <1>10 DEF WhenNow
  <2> QED BY <1>8, <1>10, <2>1, <2>2, DagSpawn
<1>11. CASE inDegree'[i] = 0 /\ (DepsFailed(i) \/ ~ WhenNow(i))
  <2>1. Skip(i)
    BY <1>1, <1>2, <1>11 DEF Release
  <2>2. Determined(i) => \/ def.when[i] = "false"
                         \/ \E c \in DepsOf(i) : c = i \/ failedOrSkipped[c]
                                                       \/ results[c] # "Succeeded"
    BY <1>11 DEF Determined, WhenNow, DepsFailed
  <2> QED BY <1>8, <1>11, <2>1, <2>2, DagSkip
<1> QED BY <1>9, <1>10, <1>11

-------------------------------------------------------------------------
(* The invariant, and what it says of every run.                           *)

LEMMA InvariantAtStart ==
  ASSUME EnginesInit
  PROVE  EnginesInv
<1>1. /\ tasks = <<>> /\ def \in Definition /\ scan = 1 /\ results = [i \in Steps |-> "none"]
      /\ engine \in {"local", "parallel", "dag"}
      /\ engine = "local" => phase = "sequence" /\ verdict = "none"
      /\ engine = "parallel" => phase = "spawn" /\ verdict = "none" /\ handles = <<>>
      /\ engine = "dag" =>
           /\ phase = IF UnknownDep THEN "over" ELSE "initial"
           /\ verdict = IF UnknownDep THEN "unknown_dep" ELSE "none"
           /\ DagIdle
  BY WorkflowAssumption
     DEF EnginesInit, Init, RunInit, Par!Init, Par!RunInit, Par!Steps, Loc!Init, Loc!RunInit,
         Loc!Steps, Steps
<1>2. /\ TaskIds = {} /\ In("joined") = {} /\ Unjoined = {} /\ ~ Panicked
      /\ \A i : ~ Started(i) /\ ~ Done(i)
  BY <1>1 DEF TaskIds, In, Unjoined, Panicked, Started, Done
<1>3. N \in Nat /\ Steps = 1..N
  BY StepTasksAssumption DEF Steps
<1>4. RunInv
  BY <1>1, <1>2, <1>3 DEF RunInv, TasksInv, TasksTypeOK
<1>5. engine = "local" => LocalInv
  BY <1>1, <1>2, <1>3 DEF LocalInv
<1>6. engine = "parallel" => ParallelInv
  <2>1. LeftOut(1) = {} /\ LeftOut(scan) = {}
    BY <1>1 DEF LeftOut
  <2>2. Cardinality(LeftOut(scan)) = 0
    BY <2>1, FS_EmptySet
  <2>3. Len(tasks) + Cardinality(LeftOut(scan)) = scan - 1
    BY <1>1, <2>2
  <2>4. engine = "parallel" => handles = [k \in TaskIds |-> k]
    BY <1>1, <1>2
  <2> QED BY <1>1, <1>2, <1>3, <2>3, <2>4 DEF ParallelInv
<1>7. engine = "dag" => DagInv
  <2> SUFFICES ASSUME engine = "dag", ~ UnknownDep PROVE DagBooks
    BY <1>1 DEF DagInv
  <2>1. /\ phase = "initial" /\ verdict = "none" /\ inDegree = InDegrees
        /\ failedOrSkipped = [i \in Steps |-> FALSE] /\ justCompleted = <<>> /\ releasing = {}
    BY <1>1 DEF DagIdle
  <2>2. \A i \in Steps : Len(def.deps[i]) \in Nat
    BY <1>1, DepsAreFinite
  <2>3. DagTypes /\ DagPhases
    BY <1>1, <1>2, <2>1, <2>2 DEF DagTypes, DagPhases, InDegrees
  <2>4. Range(justCompleted) = {}
    BY <2>1 DEF Range
  <2>5. DagResults /\ DagWorklist /\ DagStarts
    BY <1>1, <1>2, <2>1, <2>4 DEF DagResults, DagWorklist, DagStarts
  <2>6. DagCounts
    <3> SUFFICES ASSUME NEW i \in Steps PROVE inDegree[i] = Cardinality(Open(i))
      BY <1>2 DEF DagCounts
    <3>1. \A k \in DOMAIN def.deps[i] : Dep(i, k) \in Steps
      BY <1>1, DependenciesAreSteps
    <3>2. Open(i) = DOMAIN def.deps[i]
      BY <1>1, <3>1 DEF Open
    <3> QED BY <1>1, <2>1, <3>2, DepsAreFinite DEF InDegrees
  <2>7. DagUnpanicked
    BY <1>1, <1>2, <1>3, <2>1 DEF DagUnpanicked, Ran
  <2> QED BY <2>3, <2>5, <2>6, <2>7 DEF DagBooks
<1> QED BY <1>1, <1>4, <1>5, <1>6, <1>7 DEF EnginesInv

LEMMA DagKeeps ==
  ASSUME RunInv, DagInv, Next
  PROVE  RunInv' /\ DagInv'
<1>1. CASE UnknownDep
  <2>1. phase = "over" /\ TaskIds = {}
    BY <1>1 DEF DagInv, TaskIds
  <2>2. ~ Next
    BY <2>1 DEF Next, Dispatch, InitialStep, InitialDone, DrainSkipped, PopCompleted,
                ReleaseDependent, Drained, Finish
  <2> QED BY <2>2
<1>2. CASE ~ UnknownDep
  <2>1. DagBooks
    BY <1>2 DEF DagInv
  <2>2. RunInv' /\ DagBooks'
    BY <1>2, <2>1, DagInitialStep, DagPhaseChange, DagPop, DagRelease, DagJoin, DagTask
       DEF Next, Dispatch
  <2>3. def' = def
    BY DEF Next, Dispatch, InitialStep, InitialDone, DrainSkipped, PopCompleted,
           ReleaseDependent, Drained, Finish, Join, RunTask
  <2>4. ~ UnknownDep'
    BY <1>2, <2>3, SameDefinition
  <2> QED BY <2>2, <2>4 DEF DagInv
<1> QED BY <1>1, <1>2

LEMMA InvariantKept ==
  ASSUME EnginesInv, [EnginesNext]_engineVars
  PROVE  EnginesInv'
<1>1. CASE RunDag
  <2>1. engine = "dag" /\ Next /\ UNCHANGED engine
    BY <1>1 DEF RunDag
  <2> QED BY <2>1, DagKeeps DEF EnginesInv
<1>2. CASE RunParallel
  <2>1. engine = "parallel" /\ Par!Next /\ UNCHANGED engine
    BY <1>2 DEF RunParallel
  <2>2. Par!TaskIds = TaskIds
    BY DEF Par!TaskIds, TaskIds
  <2>3. RunInv' /\ ParallelInv'
    BY <2>1, <2>2, ParallelEngine, ParallelTask DEF EnginesInv, Par!Next
  <2> QED BY <2>1, <2>3 DEF EnginesInv
<1>3. CASE RunLocal
  <2>1. engine = "local" /\ Loc!Next /\ UNCHANGED engine
    BY <1>3 DEF RunLocal
  <2>2. Loc!TaskIds = TaskIds
    BY DEF Loc!TaskIds, TaskIds
  <2>3. RunInv' /\ LocalInv'
    BY <2>1, <2>2, LocalEngine, LocalTask DEF EnginesInv, Loc!Next
  <2> QED BY <2>1, <2>3 DEF EnginesInv
<1>4. CASE UNCHANGED engineVars
  <2>1. UNCHANGED <<tasks, def, phase, scan, results, verdict, inDegree, failedOrSkipped,
                    justCompleted, releasing, engine, handles>>
    BY <1>4 DEF engineVars, vars, dispatchVars, dagVars
  <2>2. RunInv'
    BY <2>1 DEF EnginesInv, RunInv, TasksInv, TasksTypeOK, TaskIds
  <2>3. /\ TaskIds' = TaskIds /\ In("joined")' = In("joined") /\ (Panicked' <=> Panicked)
        /\ Unjoined' = Unjoined
        /\ \A j : (Started(j)' <=> Started(j)) /\ (Done(j)' <=> Done(j))
    BY <2>1 DEF TaskIds, In, Panicked, Unjoined, Started, Done
  <2>4. engine = "local" => LocalInv'
    <3>1. \A i : WhenInTurn(i)' <=> WhenInTurn(i)
      BY <2>1 DEF WhenInTurn
    <3> QED BY <2>1, <2>3, <3>1 DEF EnginesInv, LocalInv
  <2>5. engine = "parallel" => ParallelInv'
    <3>1. \A i : LeftOut(i)' = LeftOut(i) /\ StatusOf(i)' = StatusOf(i)
      BY <2>1 DEF LeftOut, StatusOf
    <3> QED BY <2>1, <2>3, <3>1 DEF EnginesInv, ParallelInv
  <2>6. engine = "dag" => DagInv'
    <3>1. /\ UnknownDep' <=> UnknownDep
          /\ InDegrees' = InDegrees /\ Entries' = Entries
          /\ \A i, k : Dep(i, k)' = Dep(i, k)
          /\ \A i : DepsOf(i)' = DepsOf(i)
          /\ \A n : NameToIdx(n)' = NameToIdx(n) /\ (Known(n)' <=> Known(n))
      BY <2>1, SameDefinition
    <3>2. /\ \A i : Open(i)' = Open(i)
          /\ \A i : DepsFailed(i)' <=> DepsFailed(i)
          /\ \A i : Determined(i)' <=> Determined(i)
          /\ \A i : Reliable(i)' <=> Reliable(i)
      BY <2>1, <2>3, <3>1 DEF Open, DepsFailed, Determined, Reliable
    <3> SUFFICES ASSUME DagInv PROVE DagInv'
      BY DEF EnginesInv
    <3>3. CASE UnknownDep
      BY <2>1, <3>1, <3>3 DEF DagInv
    <3>4. CASE ~ UnknownDep
      <4>1. DagBooks
        BY <3>4 DEF DagInv
      <4>2. DagTypes' /\ DagPhases'
        BY <2>1, <2>3, <3>1, <4>1 DEF DagBooks, DagTypes, DagPhases
      <4>3. DagResults' /\ DagWorklist'
        BY <2>1, <2>3, <3>1, <3>2, <4>1 DEF DagBooks, DagResults, DagWorklist
      <4>4. DagCounts' /\ DagStarts'
        BY <2>1, <2>3, <3>1, <3>2, <4>1 DEF DagBooks, DagCounts, DagStarts
      <4>5. DagUnpanicked'
        BY <2>1, <2>3, <3>1, <3>2, <4>1 DEF DagBooks, DagUnpanicked
      <4> QED BY <3>1, <3>4, <4>2, <4>3, <4>4, <4>5 DEF DagInv, DagBooks
    <3> QED BY <3>3, <3>4
  <2> QED BY <2>1, <2>2, <2>4, <2>5, <2>6 DEF EnginesInv
<1> QED BY <1>1, <1>2, <1>3, <1>4 DEF EnginesNext

\* The bookkeeping of whichever engine runs is kept, for every definition,
\* every runner and every interleaving of its tasks.
THEOREM WorkflowInvariant == EnginesSpec => []EnginesInv
<1>1. EnginesInit => EnginesInv
  BY InvariantAtStart
<1>2. EnginesInv /\ [EnginesNext]_engineVars => EnginesInv'
  BY InvariantKept
<1> QED BY <1>1, <1>2, PTL DEF EnginesSpec

\* In a completed parallel run nothing was left out before a spawned step, so
\* that handle k is step k.
LEMMA ParallelOk ==
  ASSUME RunInv, ParallelInv, Ok
  PROVE  /\ Unjoined = {}
         /\ \A i \in Steps :
              IF def.when[i] # "true" THEN results[i] = "Skipped" /\ ~ Started(i)
              ELSE /\ i \in In("joined") /\ tasks[i].step = i
                   /\ results[i] = StatusOf(i) /\ StatusOf(i) \in Ran
<1> DEFINE M == Len(tasks)
           L == LeftOut(N + 1)
<1>0. /\ scan \in 1..N + 1 /\ N \in Nat /\ Steps = 1..N
      /\ TaskIds = 1..M /\ M \in Nat
      /\ \A t \in TaskIds : tasks[t] \in Task /\ tasks[t].step \in Steps
  BY ParallelFacts
<1>1. phase = "over" /\ (\A i \in Steps : results[i] # "none") /\ M + Cardinality(L) = N /\ scan > M
  BY DEF Ok, ParallelInv
<1>2. \A i \in Steps : def.when[i] = "true" => i \in In("joined") /\ results[i] = StatusOf(i)
  BY <1>1 DEF ParallelInv
<1>3. In("joined") \subseteq 1..M
  BY <1>0 DEF In
<1>4. L = M + 1..N
  <2>1. IsFiniteSet(L) /\ L \subseteq Steps /\ Cardinality(L) \in Nat
    BY <1>0, LeftOutGrows
  <2>2. M + 1..N \in SUBSET L
    <3> SUFFICES ASSUME NEW i \in M + 1..N PROVE i \in L
      OBVIOUS
    <3>1. i \in Steps /\ i \notin 1..M /\ i \in 1..(N + 1) - 1
      BY <1>0
    <3> QED BY <1>2, <1>3, <3>1 DEF LeftOut
  <2>3. Cardinality(M + 1..N) = N - M
    <3>1. M <= N
      BY <1>0, <1>1, <2>1
    <3>2. Cardinality(M + 1..N) = IF M + 1 > N THEN 0 ELSE N - (M + 1) + 1
      <4>1. M + 1 \in Int /\ N \in Int
        BY <1>0
      <4> QED BY <4>1, FS_Interval
    <3> QED BY <1>0, <3>1, <3>2
  <2>4. Cardinality(M + 1..N) = Cardinality(L)
    BY <1>0, <1>1, <2>1, <2>3
  <2> QED BY <2>1, <2>2, <2>4, FS_Subset
<1>5. \A i \in Steps : def.when[i] # "true" <=> i > M
  <2>1. \A i \in Steps : i \in L <=> def.when[i] # "true"
    BY <1>0 DEF LeftOut
  <2> QED BY <1>0, <1>4, <2>1
<1>6. ASSUME NEW t \in TaskIds
      PROVE  tasks[t].step = t /\ def.when[t] = "true" /\ t \in Steps /\ t \in In("joined")
  <2>1. /\ def.when[tasks[t].step] = "true" /\ tasks[t].step \in Steps
        /\ tasks[t].step = t + Cardinality(LeftOut(tasks[t].step))
    BY <1>0 DEF ParallelInv
  <2>2. LeftOut(tasks[t].step) = {}
    <3>1. \A j \in 1..tasks[t].step - 1 : j \in Steps /\ ~ (j > M)
      BY <1>0, <1>5, <2>1
    <3> QED BY <1>5, <3>1 DEF LeftOut
  <2>3. tasks[t].step = t
    BY <1>0, <2>1, <2>2, FS_EmptySet
  <2> QED BY <1>2, <2>1, <2>3
<1>7. Unjoined = {}
  BY <1>6 DEF Unjoined, In
<1>8. ASSUME NEW i \in Steps
      PROVE  IF def.when[i] # "true" THEN results[i] = "Skipped" /\ ~ Started(i)
             ELSE /\ i \in In("joined") /\ tasks[i].step = i
                  /\ results[i] = StatusOf(i) /\ StatusOf(i) \in Ran
  <2>1. CASE def.when[i] # "true"
    <3>1. results[i] = "Skipped"
      BY <1>1, <2>1 DEF ParallelInv
    <3> QED BY <1>6, <2>1, <3>1 DEF Started
  <2>2. CASE def.when[i] = "true"
    <3>1. i \in In("joined") /\ i \in TaskIds /\ tasks[i].stage = "joined" /\ results[i] = StatusOf(i)
      BY <1>2, <2>2 DEF In
    <3>2. tasks[i].result \in Ran \cup {"Panicked"}
      BY <1>0, <3>1 DEF RunInv, TasksInv, Task
    <3> QED BY <1>6, <2>2, <3>1, <3>2 DEF StatusOf, Ran
  <2> QED BY <2>1, <2>2
<1> QED BY <1>7, <1>8

\* What the engines say of a run of each kind.
LEMMA EnginesFacts ==
  ASSUME EnginesInv
  PROVE  /\ RunInv /\ engine \in {"local", "parallel", "dag"}
         /\ N \in Nat /\ Steps = 1..N
         /\ \A t \in TaskIds : tasks[t] \in Task /\ tasks[t].step \in Steps
         /\ \A t \in In("joined") : t \in TaskIds /\ tasks[t].result # "none"
         /\ engine = "dag" => (UnknownDep /\ TaskIds = {} /\ verdict = "unknown_dep") \/ (~ UnknownDep /\ DagBooks)
<1>1. N \in Nat /\ Steps = 1..N
  BY StepTasksAssumption DEF Steps
<1>2. \A t \in TaskIds : tasks[t] \in Task
  BY DEF EnginesInv, RunInv, TasksInv, TasksTypeOK, TaskIds
<1> QED BY <1>1, <1>2 DEF EnginesInv, RunInv, TasksInv, In, Task, DagInv, TaskIds

\* No step is handed to the runner twice.
THEOREM StepsStartOnce == EnginesSpec => []EachStepStartsOnce
<1>1. EnginesInv => EachStepStartsOnce
  <2> SUFFICES ASSUME EnginesInv, NEW t \in TaskIds, NEW u \in TaskIds, tasks[t].step = tasks[u].step
               PROVE  t = u
    BY DEF EachStepStartsOnce
  <2>1. CASE engine = "local"
    BY <2>1 DEF EnginesInv, LocalInv
  <2>2. CASE engine = "parallel"
    <3>1. /\ tasks[t].step \in 1..N /\ N \in Nat /\ RunInv /\ ParallelInv
      BY <2>2, EnginesFacts DEF EnginesInv
    <3>2. TaskIds \subseteq Nat /\ Cardinality(LeftOut(tasks[t].step)) \in Nat
      BY <3>1, LeftOutGrows, ParallelFacts
    <3>3. /\ tasks[t].step = t + Cardinality(LeftOut(tasks[t].step))
          /\ tasks[t].step = u + Cardinality(LeftOut(tasks[t].step))
      BY <3>1 DEF ParallelInv
    <3> QED BY <3>1, <3>2, <3>3
  <2>3. CASE engine = "dag"
    BY <2>3, EnginesFacts DEF DagBooks, DagStarts
  <2> QED BY <2>1, <2>2, <2>3 DEF EnginesInv
<1> QED BY <1>1, WorkflowInvariant, PTL

\* A step of a DAG starts only after everything it depends on has succeeded.
THEOREM DependenciesComeFirst == EnginesSpec => []StartsAfterDependencies
<1>1. EnginesInv => StartsAfterDependencies
  <2> SUFFICES ASSUME EnginesInv, engine = "dag", NEW t \in TaskIds, NEW d \in DepsOf(tasks[t].step)
               PROVE  \E u \in In("joined") : tasks[u].step = d /\ tasks[u].result = "Succeeded"
    BY DEF StartsAfterDependencies
  <2>1. tasks[t].step \in Steps /\ Started(tasks[t].step) /\ DagBooks
    BY EnginesFacts DEF Started
  <2> QED BY <2>1 DEF DagBooks, DagStarts, Done
<1> QED BY <1>1, WorkflowInvariant, PTL

\* The results a run returns are what became of its steps, and nothing runs
\* any more.
THEOREM ResultsAreTrue == EnginesSpec => []ResultsAreOutcomes
<1>1. EnginesInv => ResultsAreOutcomes
  <2> SUFFICES ASSUME EnginesInv, Ok
               PROVE  /\ Unjoined = {}
                      /\ ~ (engine = "dag" /\ Panicked) =>
                           \A i \in Steps :
                             IF results[i] = "Skipped"
                             THEN \A t \in TaskIds : tasks[t].step # i
                             ELSE \E t \in TaskIds : tasks[t].step = i /\ results[i] = StatusOf(t)
    BY DEF ResultsAreOutcomes
  <2>1. CASE engine = "local"
    <3>1. LocalInv /\ RunInv /\ N \in Nat /\ Steps = 1..N /\ scan \in 1..N + 1 /\ scan > N
      BY <2>1, EnginesFacts DEF EnginesInv, RunInv, LocalInv, Ok
    <3>2. Unjoined = {}
      BY <3>1 DEF LocalInv, Unjoined, Ok
    <3>3. ASSUME NEW i \in Steps
          PROVE  IF results[i] = "Skipped"
                 THEN \A t \in TaskIds : tasks[t].step # i
                 ELSE \E t \in TaskIds : tasks[t].step = i /\ results[i] = StatusOf(t)
      <4>1. i \in 1..scan - 1 /\ results[i] # "Panicked"
        <5>1. results[i] \in Ran \cup {"none", "Skipped"}
          BY <3>1 DEF RunInv
        <5> QED BY <3>1, <5>1 DEF Ran
      <4>2. IF results[i] = "Skipped" THEN ~ Started(i)
            ELSE \E t \in In("joined") : tasks[t].step = i /\ tasks[t].result = results[i]
        BY <3>1, <4>1 DEF LocalInv
      <4> QED BY <4>1, <4>2 DEF Started, StatusOf, In
    <3> QED BY <3>2, <3>3
  <2>2. CASE engine = "parallel"
    <3>1. RunInv /\ ParallelInv
      BY <2>2 DEF EnginesInv
    <3> QED BY <3>1, ParallelOk DEF Started, In, Ran
  <2>3. CASE engine = "dag"
    <3>1. DagBooks /\ RunInv /\ phase = "over" /\ \A i \in Steps : results[i] # "none"
      BY <2>3, EnginesFacts DEF DagBooks, DagPhases, Ok
    <3>2. Unjoined = {}
      BY <3>1 DEF DagBooks, DagPhases
    <3>3. ASSUME NEW i \in Steps, ~ Panicked
          PROVE  IF results[i] = "Skipped"
                 THEN \A t \in TaskIds : tasks[t].step # i
                 ELSE \E t \in TaskIds : tasks[t].step = i /\ results[i] = StatusOf(t)
      <4>1. \A t \in TaskIds : /\ results[tasks[t].step] = tasks[t].result
                               /\ tasks[t].result \in Ran /\ StatusOf(t) = tasks[t].result
        <5>1. \A t \in TaskIds : tasks[t].stage = "joined" /\ tasks[t].result # "Panicked"
          BY <3>2, <3>3 DEF Unjoined, Panicked
        <5>2. \A t \in TaskIds : tasks[t] \in Task /\ tasks[t].result # "none"
          BY <5>1, EnginesFacts DEF In
        <5> QED BY <3>1, <3>3, <5>1, <5>2 DEF DagBooks, DagUnpanicked, Task, StatusOf
      <4>2. results[i] # "Skipped" => Started(i)
        <5>1. results[i] \in Ran \cup {"none", "Skipped"}
          BY <3>1 DEF RunInv
        <5> QED BY <3>1, <3>3, <5>1 DEF DagBooks, DagUnpanicked
      <4> QED BY <4>1, <4>2 DEF Started, Ran
    <3> QED BY <2>3, <3>2, <3>3
  <2> QED BY <2>1, <2>2, <2>3 DEF EnginesInv
<1> QED BY <1>1, WorkflowInvariant, PTL

\* A run of a DAG that reports a cycle has one, and the other way round.
THEOREM CycleVerdicts == EnginesSpec => []CycleVerdictExact
<1>1. EnginesInv => CycleVerdictExact
  <2> SUFFICES ASSUME EnginesInv, engine = "dag", phase = "over", verdict # "unknown_dep", ~ Panicked
               PROVE  verdict = "cycle" <=> Cyclic
    BY DEF CycleVerdictExact
  <2> DEFINE S == {i \in Steps : results[i] = "none"}
  <2>1. /\ DagBooks /\ RunInv /\ justCompleted = <<>> /\ releasing = {} /\ Unjoined = {}
        /\ verdict = "cycle" <=> S # {}
    BY EnginesFacts DEF DagBooks, DagPhases
  <2>2. ASSUME Cyclic PROVE S # {}
    BY <2>1, <2>2 DEF Cyclic, DagBooks, DagUnpanicked
  <2>3. ASSUME NEW i \in S PROVE DepsOf(i) \cap S # {}
    <3>1. ~ Started(i)
      <4> SUFFICES ASSUME NEW t \in TaskIds, tasks[t].step = i PROVE FALSE
        BY DEF Started
      <4>1. t \in In("joined") /\ tasks[t].stage = "joined"
        BY <2>1 DEF Unjoined, In
      <4>2. results[i] = tasks[t].result /\ tasks[t].result # "none"
        BY <2>1, <4>1, EnginesFacts DEF DagBooks, DagUnpanicked
      <4> QED BY <4>2
    <3>2. i \in Steps /\ inDegree[i] > 0 /\ inDegree[i] = Cardinality(Open(i))
      BY <2>1, <3>1 DEF DagBooks, DagUnpanicked, DagCounts
    <3>3. Open(i) # {}
      BY <3>2, FS_EmptySet
    <3>4. Range(justCompleted) = {}
      BY <2>1 DEF Range
    <3>5. PICK k \in DOMAIN def.deps[i] : results[Dep(i, k)] = "none"
      BY <2>1, <3>3, <3>4 DEF Open
    <3>6. Dep(i, k) \in Steps /\ Dep(i, k) \in DepsOf(i)
      BY <2>1, <3>2, DagFacts, EnginesFacts
    <3> QED BY <3>5, <3>6
  <2> QED BY <2>1, <2>2, <2>3 DEF Cyclic
<1> QED BY <1>1, WorkflowInvariant, PTL

\* A completed run skipped what had to be skipped, and nothing else.
THEOREM SkipsHaveAReason == EnginesSpec => []SkippedForAReason
<1>1. EnginesInv => SkippedForAReason
  <2> SUFFICES ASSUME EnginesInv, Ok, ~ Panicked, NEW i \in Steps
               PROVE  LET w == def.when[i]
                      IN CASE engine = "local" ->
                                (results[i] = "Skipped") =
                                  ~ (\/ w = "true"
                                     \/ w # "false" /\ Known(w) /\ First(w) < i
                                          /\ results[First(w)] = "Succeeded")
                           [] engine = "dag" ->
                                w \in {"true", "false"} \/ (Known(w) /\ NameToIdx(w) \in DepsOf(i)) =>
                                  (results[i] = "Skipped") =
                                    (w = "false" \/ \E d \in DepsOf(i) : results[d] # "Succeeded")
                           [] engine = "parallel" -> (results[i] = "Skipped") = (w # "true")
    BY DEF SkippedForAReason
  <2> DEFINE w == def.when[i]
  <2>1. ASSUME engine = "local"
        PROVE  results[i] = "Skipped" <=>
                 ~ (\/ w = "true"
                    \/ w # "false" /\ Known(w) /\ First(w) < i /\ results[First(w)] = "Succeeded")
    <3>1. LocalInv /\ RunInv /\ N \in Nat /\ Steps = 1..N /\ scan \in 1..N + 1 /\ scan > N
      BY <2>1, EnginesFacts DEF EnginesInv, RunInv, LocalInv, Ok
    <3>2. results[i] = "Skipped" <=> ~ WhenInTurn(i)
      <4>1. i \in 1..scan - 1
        BY <3>1
      <4> QED BY <3>1, <4>1 DEF LocalInv
    <3>3. ASSUME NEW j \in 1..i - 1, def.name[j] = w, \A k \in 1..j - 1 : def.name[k] # w
          PROVE  Known(w) /\ First(w) = j
      <4>1. j \in Steps /\ def.name \in [Steps -> Names]
        BY <3>1 DEF RunInv, Definition
      <4> QED BY <3>3, <4>1, FirstIsUnique DEF Known, Range
    <3>4. ASSUME Known(w), First(w) < i
          PROVE  /\ First(w) \in 1..i - 1 /\ def.name[First(w)] = w
                 /\ \A k \in 1..First(w) - 1 : def.name[k] # w
      <4>1. /\ First(w) \in Steps /\ def.name[First(w)] = w
            /\ \A k \in 1..First(w) - 1 : def.name[k] # w
        BY <3>1, <3>4, FirstExists DEF RunInv
      <4> QED BY <3>1, <3>4, <4>1
    <3>5. WhenInTurn(i) <=>
            \/ w = "true"
            \/ w # "false" /\ Known(w) /\ First(w) < i /\ results[First(w)] = "Succeeded"
      <4>1. ASSUME WhenInTurn(i), w # "true"
            PROVE  w # "false" /\ Known(w) /\ First(w) < i /\ results[First(w)] = "Succeeded"
        <5>1. PICK j \in 1..i - 1 : /\ w # "false" /\ def.name[j] = w /\ results[j] = "Succeeded"
                                    /\ \A k \in 1..j - 1 : def.name[k] # w
          BY <4>1 DEF WhenInTurn
        <5>2. Known(w) /\ First(w) = j
          BY <3>3, <5>1
        <5>3. j < i
          BY <3>1
        <5> QED BY <5>1, <5>2, <5>3
      <4>2. ASSUME w # "false", Known(w), First(w) < i, results[First(w)] = "Succeeded"
            PROVE  WhenInTurn(i)
        BY <3>4, <4>2 DEF WhenInTurn
      <4>3. w = "true" => WhenInTurn(i)
        BY DEF WhenInTurn
      <4> QED BY <4>1, <4>2, <4>3
    <3> HIDE DEF w
    <3> QED BY <3>2, <3>5
  <2>2. ASSUME engine = "parallel" PROVE results[i] = "Skipped" <=> w # "true"
    <3>1. RunInv /\ ParallelInv
      BY <2>2 DEF EnginesInv
    <3> QED BY <3>1, ParallelOk DEF Ran
  <2>3. ASSUME engine = "dag", w \in {"true", "false"} \/ (Known(w) /\ NameToIdx(w) \in DepsOf(i))
        PROVE  results[i] = "Skipped" <=> (w = "false" \/ \E d \in DepsOf(i) : results[d] # "Succeeded")
    <3>1. DagBooks /\ RunInv /\ ~ UnknownDep /\ \A j \in Steps : results[j] # "none"
      BY <2>3, EnginesFacts DEF DagBooks, DagPhases, Ok
    <3>2. results[i] = "Skipped" => w = "false" \/ \E d \in DepsOf(i) : results[d] # "Succeeded"
      BY <2>3, <3>1 DEF DagBooks, DagUnpanicked, Determined
    <3>3. ASSUME Started(i) PROVE w # "false" /\ \A d \in DepsOf(i) : results[d] = "Succeeded"
      <4>1. \A d \in DepsOf(i) : Done(d)
        BY <3>1, <3>3 DEF DagBooks, DagStarts
      <4>2. \A d : Done(d) => results[d] = "Succeeded"
        BY <3>1 DEF Done, In, DagBooks, DagUnpanicked
      <4>3. w # "false"
        BY <3>1, <3>3 DEF DagBooks, DagUnpanicked
      <4> QED BY <4>1, <4>2, <4>3
    <3>4. results[i] # "Skipped" => Started(i)
      <4>1. results[i] \in Ran \cup {"none", "Skipped"}
        BY <3>1 DEF RunInv
      <4> QED BY <3>1, <4>1 DEF DagBooks, DagUnpanicked
    <3> QED BY <3>2, <3>3, <3>4
  <2>4. engine \in {"local", "parallel", "dag"}
    BY DEF EnginesInv
  <2>5. CASE engine = "local"
    BY <2>1, <2>5
  <2>6. CASE engine = "parallel"
    BY <2>2, <2>6
  <2>7. CASE engine = "dag"
    BY <2>3, <2>7
  <2> QED BY <2>4, <2>5, <2>6, <2>7
<1> QED BY <1>1, WorkflowInvariant, PTL

\* A run that reports success ran every step to success.
THEOREM SuccessIsEarned == EnginesSpec => []SuccessIsReal
<1>1. EnginesInv => SuccessIsReal
  <2> SUFFICES ASSUME EnginesInv, Ok, \A i \in Steps : results[i] = "Succeeded", NEW i \in Steps
               PROVE  \E t \in In("joined") : tasks[t].step = i /\ tasks[t].result = "Succeeded"
    BY DEF SuccessIsReal
  <2>1. CASE engine = "local"
    <3>1. LocalInv /\ N \in Nat /\ Steps = 1..N /\ scan \in 1..N + 1 /\ scan > N
      BY <2>1, EnginesFacts DEF EnginesInv, RunInv, LocalInv, Ok
    <3>2. i \in 1..scan - 1
      BY <3>1
    <3> QED BY <3>1, <3>2 DEF LocalInv
  <2>2. CASE engine = "parallel"
    <3>1. RunInv /\ ParallelInv
      BY <2>2 DEF EnginesInv
    <3>2. i \in In("joined") /\ tasks[i].step = i /\ results[i] = StatusOf(i)
      BY <3>1, ParallelOk
    <3> QED BY <3>2 DEF StatusOf
  <2>3. CASE engine = "dag"
    BY <2>3, EnginesFacts DEF DagBooks, DagResults, Done, Ok
  <2> QED BY <2>1, <2>2, <2>3 DEF EnginesInv
<1> QED BY <1>1, WorkflowInvariant, PTL
=========================================================================
