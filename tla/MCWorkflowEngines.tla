------------------------ MODULE MCWorkflowEngines ------------------------
(* Three steps named a, b, c, or a, a, b; every depends_on with one or two
   entries (a duplicate, a cycle and a self-loop among them) and, on one
   step, every when. *)
EXTENDS WorkflowEngines
CONSTANTS a, b, c, ghost

MC_Names == {a, b, c, ghost}
Always == [i \in Steps |-> "true"]
DepLists == {<<>>, <<a>>, <<b>>, <<c>>, <<a, b>>, <<b, c>>, <<b, b>>}

\* One when that is not "true", or none.
Whens == {[Always EXCEPT ![i] = w] : i \in Steps, w \in {"true", "false", a, b, c}}

MC_Sturdy ==
  {[name |-> <<a, b, c>>, deps |-> d, when |-> w, fragile |-> {}] : d \in [Steps -> DepLists], w \in Whens}
    \cup
  {[name |-> <<a, a, b>>, deps |-> d, when |-> w, fragile |-> {}] :
     d \in [Steps -> {<<>>, <<a>>, <<b>>, <<a, b>>}],
     w \in {Always, [Always EXCEPT ![3] = a]}}
    \cup
  {[name |-> <<a, b, c>>, deps |-> <<<<>>, <<a, ghost>>, <<>>>>, when |-> Always,
    fragile |-> {}]}

\* Fewer shapes for runners that panic: no cycles.
Index == [n \in {a, b, c} |-> CASE n = a -> 1 [] n = b -> 2 [] n = c -> 3]
Acyclic(d) == \E rank \in [Steps -> Steps] :
  \A i \in Steps : \A k \in DOMAIN d[i] : rank[Index[d[i][k]]] < rank[i]
MC_Acyclic ==
  {[name |-> <<a, b, c>>, deps |-> d, when |-> w, fragile |-> Steps] :
     d \in {e \in [Steps -> DepLists \cup {<<a, a>>}] : Acyclic(e)},
     w \in {Always, [Always EXCEPT ![1] = "false"]}}

MC_Definitions == MC_Sturdy \cup MC_Acyclic

\* The first step depends on itself, the second on nothing.
MC_SelfLoop ==
  {[name |-> <<a, b, c>>, deps |-> <<<<a>>, <<>>, <<>>>>, when |-> Always,
    fragile |-> Steps]}

MC_Retries == [i \in Steps |-> IF i = 2 THEN 1 ELSE 0]
==========================================================================
