------------------------------ MODULE TaskDag ------------------------------
(* validate, topological_order and run_dag of crates/ma-harness-dag/src/    *)
(* lib.rs: a task list read from a file is checked, sorted by Kahn's        *)
(* algorithm, whose result only says whether it may run, and then run in    *)
(* batches.  Names are numbers, in the order of the names' maps.            *)
EXTENDS Naturals, FiniteSets, Sequences, SequencesExt

CONSTANT Dags           \* the lists that may be read: sequences of [name, depends_on]

ASSUME DagAssumption == \A d \in Dags : d \in Seq([name : Nat, depends_on : Seq(Nat)])

VARIABLES dag,          \* the list; never changes
          phase,        \* "read", "sort", "run", or how it ended: a verdict or "ended"
          in_degree,    \* [name -> dependencies not popped yet]
          roots,        \* what may be popped, the last one first
          order,        \* what was popped
          status,       \* [name -> "Pending", "Running", "Completed"]
          batch,        \* what of the batch is still to be run
          started       \* history: the tasks in the order they were started

dagVars == <<dag, phase, in_degree, roots, order, status, batch, started>>

Positions == DOMAIN dag
TaskNames == {dag[i].name : i \in Positions}
DependsOn(n) == LET i == CHOOSE i \in Positions : dag[i].name = n IN dag[i].depends_on

\* The k-th has k - 1 before it.
Ascending(S) == [k \in 1..Cardinality(S) |-> CHOOSE n \in S : Cardinality({m \in S : m < n}) = k - 1]

DagInit ==
    /\ dag \in Dags /\ phase = "read"
    /\ in_degree = << >> /\ roots = << >> /\ order = << >>
    /\ status = << >> /\ batch = << >> /\ started = << >>

\* The two checks before the sort, and the degrees and roots it starts with.
\* A dependency listed twice counts twice.
Validate ==
    /\ phase = "read"
    /\ LET degrees == [n \in TaskNames |-> Len(DependsOn(n))]
       IN  \/ /\ Cardinality(TaskNames) < Len(dag)
              /\ phase' = "DuplicateTask" /\ UNCHANGED <<in_degree, roots>>
           \/ /\ Cardinality(TaskNames) = Len(dag)
              /\ \E i \in Positions : ~ Range(dag[i].depends_on) \subseteq TaskNames
              /\ phase' = "UnknownDep" /\ UNCHANGED <<in_degree, roots>>
           \/ /\ Cardinality(TaskNames) = Len(dag)
              /\ \A i \in Positions : Range(dag[i].depends_on) \subseteq TaskNames
              /\ phase' = "sort" /\ in_degree' = degrees
              /\ roots' = Ascending({n \in TaskNames : degrees[n] = 0})
    /\ UNCHANGED <<dag, order, status, batch, started>>

\* The names at some positions, in the order of the list.
NamesAt(P) == [k \in DOMAIN Ascending(P) |-> dag[Ascending(P)[k]].name]
Dependents(n) == {i \in Positions : n \in Range(dag[i].depends_on)}

\* Faulty variant: whoever depends on the root becomes one.
FreedAtOnce(n) == NamesAt(Dependents(n))

\* The tasks whose last dependency this was.
Freed(n) == NamesAt({i \in Dependents(n) : in_degree[dag[i].name] = 1})

PopRoot ==
    /\ phase = "sort" /\ roots # << >>
    /\ LET n == Last(roots)
       IN  /\ order' = Append(order, n)
           /\ in_degree' = [m \in TaskNames |-> IF n \in Range(DependsOn(m))
                                                THEN in_degree[m] - 1 ELSE in_degree[m]]
           /\ roots' = Front(roots) \o Freed(n)
    /\ UNCHANGED <<dag, phase, status, batch, started>>

SortEnds ==
    /\ phase = "sort" /\ roots = << >>
    /\ phase' = IF Len(order) = Len(dag) THEN "run" ELSE "Cycle"
    /\ status' = [n \in TaskNames |-> "Pending"]
    /\ UNCHANGED <<dag, in_degree, roots, order, batch, started>>

\* next_batch.
Runnable == {n \in TaskNames : /\ status[n] = "Pending"
                               /\ \A d \in Range(DependsOn(n)) : status[d] = "Completed"}

NextBatch ==
    /\ phase = "run" /\ batch = << >>
    /\ batch' = Ascending(Runnable)
    /\ phase' = IF Runnable = {} THEN "ended" ELSE "run"
    /\ UNCHANGED <<dag, in_degree, roots, order, status, started>>

\* execute_task: a dry run, it sleeps and succeeds.
ExecuteTask ==
    /\ phase = "run" /\ batch # << >>
    /\ LET n == Head(batch)
       IN  IF status[n] = "Pending"
           THEN /\ status' = [status EXCEPT ![n] = "Running"]
                /\ started' = Append(started, n) /\ UNCHANGED batch
           ELSE /\ status' = [status EXCEPT ![n] = "Completed"]
                /\ batch' = Tail(batch) /\ UNCHANGED started
    /\ UNCHANGED <<dag, phase, in_degree, roots, order>>

DagNext == Validate \/ PopRoot \/ SortEnds \/ NextBatch \/ ExecuteTask

\* Tasks none of which can be the first of them to run, or be counted down.
Stuck(S) == \A n \in S : \/ Range(DependsOn(n)) \cap S # {}
                         \/ Len(DependsOn(n)) > Cardinality(Range(DependsOn(n)))

Respects(s) == \A i \in DOMAIN s : Range(DependsOn(s[i])) \subseteq {s[j] : j \in 1..(i - 1)}

\* A list is refused as cyclic exactly if some of its tasks wait for each
\* other, or one names a dependency twice, which the sort takes for a cycle
\* (lib.rs:242); every other one runs, and runs all its tasks, each once and
\* after all it depends on, as does the order the sort returned.
DagVerdictIsReal ==
    /\ phase \in {"Cycle", "run", "ended"} =>
          (phase = "Cycle" <=> \E S \in (SUBSET TaskNames) \ {{}} : Stuck(S))
    /\ phase \in {"run", "ended"} =>
          /\ IsInjective(order) /\ Range(order) = TaskNames /\ Respects(order)
          /\ IsInjective(started) /\ Respects(started)
    /\ phase = "ended" => \A n \in TaskNames : status[n] = "Completed"
============================================================================
