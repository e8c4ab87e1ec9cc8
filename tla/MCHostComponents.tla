-------------------------- MODULE MCHostComponents --------------------------
(* Two of whatever may interleave, three where the order of two matters to a *)
(* third; the bounds of each part are explained in the README.               *)
EXTENDS HostComponents

CONSTANTS r1, r2, i1, i2,           \* approvals
          t1, p1, p2, a1, sa, sb,   \* web page; p1 and p2 are also plugins
          th1, th2, k1, k2, e1, e2, e3, ctxA, ctxB, X, Y,   \* events
          d1, d2, d3, x, y, z, scope, p3, nm, nn,           \* resources and plugins
          s1, s2, hand, c1, c2, c3

MC_IdOf == (r1 :> i1) @@ (r2 :> i2)
MC_Filter == t1 :> sa
MC_SessionOf == (p1 :> sa) @@ (p2 :> sb)

\* Two listeners of one event in the order of neither registration nor
\* priority alone, one in another context, one of another event.
Listen(c, type, priority) == [ctx |-> c, type |-> type, priority |-> priority]
MC_Listeners == <<Listen(ctxA, X, 1), Listen(ctxA, X, 0), Listen(ctxB, X, 0), Listen(ctxA, Y, 0)>>
MC_TypeOf == (e1 :> X) @@ (e2 :> X) @@ (e3 :> Y)
MC_CtxOf == (e1 :> ctxA) @@ (e2 :> ctxB) @@ (e3 :> ctxA)

\* Two calls of the context's dispose and the drop of a scope.
MC_FlagOf == (d1 :> ctxA) @@ (d2 :> ctxA) @@ (d3 :> scope)
MC_NameOf == (p1 :> nm) @@ (p2 :> nm) @@ (p3 :> nn)

\* Every list of up to two tasks with up to two dependencies, unknown and
\* doubled ones and doubled names among them, and of three tasks, not in the
\* order of their names.
DepLists == UNION {[1..k -> 1..3] : k \in 0..2}
MC_Dags ==
    UNION {[1..k -> [name : 1..2, depends_on : DepLists]] : k \in 0..2}
    \cup {[i \in 1..3 |-> [name |-> 4 - i, depends_on |-> f[i]]] : f \in [1..3 -> DepLists]}

\* Every set of linked manifests of three plugins: chains, cycles, a double
\* dependency, dependencies without a manifest.
MC_Manifests ==
    UNION {[D -> {<< >>, <<1>>, <<2>>, <<3>>, <<1, 3>>, <<2, 2>>}] : D \in SUBSET (1..3)}

\* The web page alone.  One input and one agent are enough for stop: an
\* accepted connection puts run behind the heartbeat among the waiters.
WebSpec == part = "web" /\ HostSpec
=============================================================================
