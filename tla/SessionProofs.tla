-------------------------- MODULE SessionProofs --------------------------
(***************************************************************************)
(* What runs, posts and tailing clients may rely on, for any number of     *)
(* them, any sessions, routes and event ids, any limit and any window.     *)
(* The log is read through UpTo, a recursion; first what that lists.       *)
(***************************************************************************)
EXTENDS SessionEvents, FiniteSetTheorems, SequenceTheorems, WellFoundedInduction, TLAPS

\* Induction, as the provers can use it: a set of numbers has a smallest.
LEMMA SmallestOf ==
  ASSUME NEW S \in SUBSET Nat, S # {}
  PROVE  \E i \in S : \A j \in S : i <= j
<1> DEFINE Less == OpToRel(<, Nat)
<1>1. IsWellFoundedOn(Less, Nat)
  BY NatLessThanWellFounded
<1>2. \A x, y \in Nat : <<y, x>> \in Less <=> y < x
  BY DEF OpToRel
<1> HIDE DEF Less
<1>3. PICK x \in S : \A y \in S : ~ (<<y, x>> \in Less)
  BY <1>1, WFMin
<1>4. ASSUME NEW y \in S PROVE x <= y
  <2>1. x \in Nat /\ y \in Nat
    OBVIOUS
  <2>2. ~ (y < x)
    BY <1>2, <1>3, <2>1
  <2> QED BY <2>1, <2>2
<1> QED BY <1>4

\* What UpTo(T) gives at n, from what it gives below.
UpToStep(T, g, n) ==
  IF n = 0 THEN << >> ELSE IF n \in T THEN Append(g[n - 1], n) ELSE g[n - 1]

\* The recursion has a solution up to every n, two of them agree, and so
\* there is one for all numbers.
UpToBelow(T, n) ==
  {g \in [0..n -> Seq(Nat)] : \A m \in 0..n : g[m] = UpToStep(T, g, m)}

LEMMA UpToBelowExists ==
  ASSUME NEW T PROVE \A n \in Nat : UpToBelow(T, n) # {}
<1> DEFINE S == {n \in Nat : UpToBelow(T, n) = {}}
<1> SUFFICES ASSUME S # {} PROVE FALSE
  OBVIOUS
<1>1. PICK n \in S : \A j \in S : n <= j
  BY SmallestOf
<1>2. CASE n = 0
  <2> DEFINE g == [m \in 0..n |-> << >>]
  <2>1. g \in UpToBelow(T, n)
    BY <1>2 DEF UpToBelow, UpToStep
  <2> QED BY <2>1
<1>3. CASE n # 0
  <2>1. n \in Nat /\ n - 1 \in Nat /\ n - 1 \notin S
    BY <1>1, <1>3
  <2>2. PICK g : g \in UpToBelow(T, n - 1)
    BY <2>1
  <2>3. g \in [0..(n - 1) -> Seq(Nat)] /\ \A m \in 0..(n - 1) : g[m] = UpToStep(T, g, m)
    BY <2>2 DEF UpToBelow
  <2> DEFINE h == [m \in 0..n |-> IF m = n THEN UpToStep(T, g, n) ELSE g[m]]
  <2>4. UpToStep(T, g, n) \in Seq(Nat)
    <3>1. g[n - 1] \in Seq(Nat)
      BY <2>1, <2>3
    <3> QED BY <2>1, <3>1 DEF UpToStep
  <2>5. h \in [0..n -> Seq(Nat)]
    BY <2>1, <2>3, <2>4
  <2>6. ASSUME NEW m \in 0..n PROVE h[m] = UpToStep(T, h, m)
    <3>1. m # 0 => h[m - 1] = g[m - 1]
      BY <2>1
    <3>2. UpToStep(T, h, m) = UpToStep(T, g, m)
      BY <3>1 DEF UpToStep
    <3>3. m # n => m \in 0..(n - 1)
      BY <2>1
    <3> QED BY <2>3, <3>2, <3>3
  <2>7. h \in UpToBelow(T, n)
    BY <2>5, <2>6 DEF UpToBelow
  <2> QED BY <2>7
<1> QED BY <1>2, <1>3

LEMMA UpToBelowUnique ==
  ASSUME NEW T, NEW k \in Nat, NEW n \in Nat,
         NEW g \in UpToBelow(T, k), NEW h \in UpToBelow(T, n)
  PROVE  \A m \in Nat : m <= k /\ m <= n => g[m] = h[m]
<1> DEFINE S == {m \in Nat : m <= k /\ m <= n /\ g[m] # h[m]}
<1> SUFFICES ASSUME S # {} PROVE FALSE
  OBVIOUS
<1>1. PICK m \in S : \A j \in S : m <= j
  BY SmallestOf
<1>2. m # 0 => m - 1 \in Nat /\ m - 1 <= k /\ m - 1 <= n /\ ~ (m <= m - 1)
  BY <1>1
<1>3. m # 0 => g[m - 1] = h[m - 1]
  BY <1>1, <1>2
<1>4. g[m] = UpToStep(T, g, m) /\ h[m] = UpToStep(T, h, m)
  BY DEF UpToBelow
<1>5. UpToStep(T, g, m) = UpToStep(T, h, m)
  BY <1>3 DEF UpToStep
<1> QED BY <1>4, <1>5

LEMMA UpToUnfolds ==
  ASSUME NEW T
  PROVE  \A n \in Nat : UpTo(T)[n] = UpToStep(T, UpTo(T), n)
<1> DEFINE best(n) == CHOOSE g : g \in UpToBelow(T, n)
           f == [n \in Nat |-> best(n)[n]]
<1>1. \A n \in Nat : best(n) \in UpToBelow(T, n)
  BY UpToBelowExists
<1> HIDE DEF best
<1>2. ASSUME NEW n \in Nat PROVE f[n] = UpToStep(T, f, n)
  <2>1. best(n)[n] = UpToStep(T, best(n), n)
    BY <1>1 DEF UpToBelow
  <2>2. n # 0 => best(n)[n - 1] = best(n - 1)[n - 1]
    <3> SUFFICES ASSUME n # 0 PROVE best(n)[n - 1] = best(n - 1)[n - 1]
      OBVIOUS
    <3>1. n - 1 \in Nat /\ n - 1 <= n /\ n - 1 <= n - 1
      OBVIOUS
    <3>2. best(n) \in UpToBelow(T, n) /\ best(n - 1) \in UpToBelow(T, n - 1)
      BY <1>1, <3>1
    <3> QED BY <3>1, <3>2, UpToBelowUnique
  <2>3. f[n] = best(n)[n] /\ (n # 0 => f[n - 1] = best(n - 1)[n - 1])
    OBVIOUS
  <2> QED BY <2>1, <2>2, <2>3 DEF UpToStep
<1> DEFINE u == CHOOSE g : g = [n \in Nat |-> UpToStep(T, g, n)]
<1>3. f = [n \in Nat |-> UpToStep(T, f, n)]
  BY <1>2
<1> HIDE DEF f
<1>4. u = [n \in Nat |-> UpToStep(T, u, n)]
  BY <1>3
<1>5. u = UpTo(T)
  BY DEF UpTo, UpToStep
<1> HIDE DEF u
<1> QED BY <1>4, <1>5
-------------------------------------------------------------------------
(* Ascending lists.                                                        *)

\* s lists the numbers of S in ascending order.
Lists(s, S) ==
  /\ s \in Seq(Nat)
  /\ \A i, j \in 1..Len(s) : i < j => s[i] < s[j]
  /\ S = {s[i] : i \in 1..Len(s)}

LEMMA ListsNothing == Lists(<< >>, {})
BY DEF Lists

LEMMA ListsOneMore ==
  ASSUME NEW s, NEW S, Lists(s, S), NEW n \in Nat, \A m \in S : m < n
  PROVE  Lists(Append(s, n), S \cup {n})
<1>1. /\ Append(s, n) \in Seq(Nat) /\ Len(Append(s, n)) = Len(s) + 1
      /\ Append(s, n)[Len(s) + 1] = n
      /\ \A i \in 1..Len(s) : Append(s, n)[i] = s[i]
  BY DEF Lists
<1>2. Len(s) \in Nat /\ \A i \in 1..Len(s) : s[i] < n
  BY DEF Lists
<1>3. \A i, j \in 1..Len(Append(s, n)) : i < j => Append(s, n)[i] < Append(s, n)[j]
  <2> SUFFICES ASSUME NEW i \in 1..(Len(s) + 1), NEW j \in 1..(Len(s) + 1), i < j
               PROVE  Append(s, n)[i] < Append(s, n)[j]
    BY <1>1
  <2>1. i \in 1..Len(s)
    BY <1>2
  <2>2. CASE j = Len(s) + 1
    BY <1>1, <1>2, <2>1, <2>2
  <2>3. CASE j # Len(s) + 1
    <3>1. j \in 1..Len(s)
      BY <1>2, <2>3
    <3> QED BY <1>1, <2>1, <3>1 DEF Lists
  <2> QED BY <2>2, <2>3
<1>4. S \cup {n} = {Append(s, n)[i] : i \in 1..Len(Append(s, n))}
  <2>1. \A i \in 1..(Len(s) + 1) : i \in 1..Len(s) \/ i = Len(s) + 1
    BY <1>2
  <2>2. \A i \in 1..Len(s) : i \in 1..(Len(s) + 1)
    BY <1>2
  <2>3. Len(s) + 1 \in 1..(Len(s) + 1)
    BY <1>2
  <2> QED BY <1>1, <2>1, <2>2, <2>3 DEF Lists
<1> QED BY <1>1, <1>3, <1>4 DEF Lists

\* The first of a list is the least of its numbers, the rest lists the others.
LEMMA ListsOneLess ==
  ASSUME NEW s, NEW S, Lists(s, S), s # << >>
  PROVE  /\ Head(s) \in S /\ Head(s) \in Nat /\ \A m \in S : Head(s) <= m
         /\ Lists(Tail(s), S \ {Head(s)})
<1>1. /\ Len(s) \in Nat /\ Len(s) >= 1 /\ Head(s) = s[1] /\ 1 \in 1..Len(s)
      /\ Tail(s) \in Seq(Nat) /\ Len(Tail(s)) = Len(s) - 1
      /\ \A i \in 1..Len(Tail(s)) : Tail(s)[i] = s[i + 1]
  BY DEF Lists
<1>2. \A i \in 1..Len(s) : i # 1 => s[1] < s[i]
  BY <1>1 DEF Lists
<1>3. Head(s) \in S /\ Head(s) \in Nat /\ \A m \in S : Head(s) <= m
  <2>1. \A i \in 1..Len(s) : s[i] \in Nat
    BY DEF Lists
  <2>2. \A i \in 1..Len(s) : s[1] <= s[i]
    BY <1>1, <1>2, <2>1
  <2> QED BY <1>1, <2>1, <2>2 DEF Lists
<1>4. \A i, j \in 1..Len(Tail(s)) : i < j => Tail(s)[i] < Tail(s)[j]
  <2> SUFFICES ASSUME NEW i \in 1..Len(Tail(s)), NEW j \in 1..Len(Tail(s)), i < j
               PROVE  Tail(s)[i] < Tail(s)[j]
    OBVIOUS
  <2>1. i + 1 \in 1..Len(s) /\ j + 1 \in 1..Len(s) /\ i + 1 < j + 1
    BY <1>1
  <2>2. s[i + 1] < s[j + 1]
    BY <2>1 DEF Lists
  <2> QED BY <1>1, <2>2
<1>5. S \ {Head(s)} = {Tail(s)[i] : i \in 1..Len(Tail(s))}
  <2>1. ASSUME NEW i \in 1..Len(Tail(s)) PROVE Tail(s)[i] \in S \ {Head(s)}
    <3>1. i + 1 \in 1..Len(s) /\ i + 1 # 1
      BY <1>1
    <3>2. s[1] < s[i + 1] /\ s[1] \in Nat /\ s[i + 1] \in Nat
      BY <1>1, <1>2, <3>1 DEF Lists
    <3> QED BY <1>1, <3>1, <3>2 DEF Lists
  <2>2. ASSUME NEW m \in S \ {Head(s)} PROVE \E i \in 1..Len(Tail(s)) : m = Tail(s)[i]
    <3>1. PICK k \in 1..Len(s) : m = s[k]
      BY DEF Lists
    <3>2. k # 1
      BY <1>1, <3>1
    <3>3. k - 1 \in 1..Len(Tail(s)) /\ (k - 1) + 1 = k
      BY <1>1, <3>2
    <3> QED BY <1>1, <3>1, <3>3
  <2> QED BY <2>1, <2>2
<1> QED BY <1>1, <1>3, <1>4, <1>5 DEF Lists

\* Of two lists, the one with the lower numbers of the other is its prefix.
LEMMA ListsLower ==
  ASSUME NEW s, NEW S, Lists(s, S), NEW q, NEW Q, Lists(q, Q), S \subseteq Q,
         \A m \in S, k \in Q : k <= m => k \in S
  PROVE  Len(s) <= Len(q) /\ \A i \in 1..Len(s) : s[i] = q[i]
<1> DEFINE Same(i) == i <= Len(q) /\ s[i] = q[i]
           W == {i \in 1..Len(s) : ~ Same(i)}
<1>0. /\ Len(s) \in Nat /\ Len(q) \in Nat
      /\ \A i \in 1..Len(s) : s[i] \in Nat /\ s[i] \in S
      /\ \A i \in 1..Len(q) : q[i] \in Nat /\ q[i] \in Q
  BY DEF Lists
<1>1. W = {}
  <2> SUFFICES ASSUME W # {} PROVE FALSE
    OBVIOUS
  <2>1. PICK i \in W : \A j \in W : i <= j
    <3>1. W \in SUBSET Nat
      BY <1>0
    <3> HIDE DEF W
    <3> QED BY <3>1, SmallestOf
  <2>2. i \in 1..Len(s) /\ ~ Same(i) /\ \A j \in 1..Len(s) : j < i => Same(j)
    BY <2>1
  <2>3. PICK j \in 1..Len(q) : q[j] = s[i]
    BY <1>0, <2>2 DEF Lists
  <2>4. ~ (j < i)
    <3> SUFFICES ASSUME j < i PROVE FALSE
      OBVIOUS
    <3>1. j \in 1..Len(s)
      BY <1>0, <2>2
    <3>2. s[j] = q[j] /\ s[j] < s[i]
      BY <2>2, <3>1 DEF Lists
    <3> QED BY <1>0, <2>2, <2>3, <3>1, <3>2
  <2>5. i < j
    <3>1. i # j
      BY <2>2, <2>3
    <3> QED BY <2>2, <2>4, <3>1
  <2>6. i \in 1..Len(q)
    BY <2>2, <2>3, <2>5
  <2>7. q[i] < s[i] /\ q[i] \in S
    <3>1. q[i] < q[j]
      BY <2>5, <2>6 DEF Lists
    <3>2. q[i] <= s[i] /\ s[i] \in S /\ q[i] \in Q
      BY <1>0, <2>2, <2>3, <2>6, <3>1
    <3> QED BY <2>3, <3>1, <3>2
  <2>8. PICK k \in 1..Len(s) : s[k] = q[i]
    BY <2>7 DEF Lists
  <2>9. CASE k < i
    <3>1. q[k] = s[k] /\ k \in 1..Len(q)
      BY <2>2, <2>8, <2>9, <1>0
    <3>2. q[k] < q[i]
      BY <2>6, <2>9, <3>1 DEF Lists
    <3> QED BY <1>0, <2>6, <2>8, <3>1, <3>2
  <2>10. CASE k = i
    BY <1>0, <2>2, <2>7, <2>8, <2>10
  <2>11. CASE i < k
    <3>1. s[i] < s[k]
      BY <2>2, <2>11 DEF Lists
    <3> QED BY <1>0, <2>2, <2>6, <2>7, <2>8, <3>1
  <2> QED BY <2>2, <2>9, <2>10, <2>11
<1>2. \A i \in 1..Len(s) : Same(i)
  BY <1>1
<1>3. Len(s) <= Len(q)
  <2>1. Len(s) # 0 => Len(s) \in 1..Len(s)
    BY <1>0
  <2> QED BY <1>0, <1>2, <2>1
<1> QED BY <1>2, <1>3

LEMMA ListsOnce ==
  ASSUME NEW s, NEW S, Lists(s, S), NEW q, Lists(q, S)
  PROVE  s = q
<1>1. Len(s) <= Len(q) /\ Len(q) <= Len(s) /\ \A i \in 1..Len(s) : s[i] = q[i]
  BY ListsLower
<1>2. s \in Seq(Nat) /\ q \in Seq(Nat)
  BY DEF Lists
<1> QED BY <1>1, <1>2

\* What a query of the log is made of.
LEMMA UpToLists ==
  ASSUME NEW T PROVE \A n \in Nat : Lists(UpTo(T)[n], {m \in 1..n : m \in T})
<1> DEFINE Low(n) == {m \in 1..n : m \in T}
           W == {n \in Nat : ~ Lists(UpTo(T)[n], Low(n))}
<1> SUFFICES ASSUME W # {} PROVE FALSE
  OBVIOUS
<1>1. PICK n \in W : \A j \in W : n <= j
  BY SmallestOf
<1>2. CASE n = 0
  <2>1. UpTo(T)[n] = << >> /\ Low(n) = {}
    BY <1>2, UpToUnfolds DEF UpToStep
  <2> QED BY <2>1, <1>1, ListsNothing
<1>3. CASE n # 0
  <2>1. n - 1 \in Nat /\ ~ (n <= n - 1)
    BY <1>3
  <2>2. Lists(UpTo(T)[n - 1], Low(n - 1))
    BY <1>1, <2>1
  <2>3. UpTo(T)[n] = IF n \in T THEN Append(UpTo(T)[n - 1], n) ELSE UpTo(T)[n - 1]
    BY <1>3, UpToUnfolds DEF UpToStep
  <2>4. Low(n) = IF n \in T THEN Low(n - 1) \cup {n} ELSE Low(n - 1)
    BY <1>3
  <2>5. \A m \in Low(n - 1) : m < n
    OBVIOUS
  <2> HIDE DEF Low
  <2>6. Lists(UpTo(T)[n], Low(n))
    BY <2>2, <2>3, <2>4, <2>5, ListsOneMore
  <2> QED BY <1>1, <2>6
<1> QED BY <1>2, <1>3

LEMMA UpToGrows ==
  ASSUME NEW n \in Nat, NEW T, NEW U, \A m \in 1..n : m \in T <=> m \in U
  PROVE  /\ UpTo(U)[n] = UpTo(T)[n]
         /\ UpTo(U)[n + 1] = IF n + 1 \in U THEN Append(UpTo(T)[n], n + 1) ELSE UpTo(T)[n]
<1>1. {m \in 1..n : m \in T} = {m \in 1..n : m \in U}
  OBVIOUS
<1>2. UpTo(U)[n] = UpTo(T)[n]
  BY <1>1, UpToLists, ListsOnce
<1>3. n + 1 \in Nat /\ n + 1 # 0 /\ (n + 1) - 1 = n
  OBVIOUS
<1> QED BY <1>2, <1>3, UpToUnfolds DEF UpToStep

\* A sequence and one element.
LEMMA OneAtTheEnd ==
  ASSUME NEW S, NEW a \in Seq(S), NEW b \in Seq(S), NEW x \in S
  PROVE  /\ Append(a, x) \in Seq(S) /\ Append(a, x) = a \o <<x>>
         /\ a \o Append(b, x) = Append(a \o b, x)
<1>1. <<x>> \in Seq(S) /\ a \o b \in Seq(S)
  BY ConcatProperties
<1>2. Append(a, x) = a \o <<x>> /\ Append(b, x) = b \o <<x>> /\ Append(a \o b, x) = (a \o b) \o <<x>>
  BY <1>1, AppendIsConcat
<1>3. (a \o b) \o <<x>> = a \o (b \o <<x>>)
  BY <1>1, ConcatAssociative
<1> QED BY <1>2, <1>3

LEMMA OneAtMost ==
  ASSUME NEW S, NEW h \in Seq(S), Len(h) <= 1, h # << >>
  PROVE  h = <<Head(h)>> /\ Head(h) \in S
<1>1. Len(h) \in Nat /\ Len(h) # 0
  BY EmptySeq, LenProperties
<1>2. Len(h) = 1
  BY <1>1
<1> QED BY <1>2

-------------------------------------------------------------------------
(* The log.                                                                *)

Row == [session : Session, type : EventType, from : Run \cup Post, blank : BOOLEAN]
LogOK == events \in Seq(Row)

LEMMA LogGrows ==
  ASSUME LogOK, NEW e, events' = Append(events, e)
  PROVE  /\ Len(events) \in Nat /\ Len(events') = Len(events) + 1
         /\ events'[Len(events) + 1] = e
         /\ \A i \in 1..Len(events) : events'[i] = events[i]
BY DEF LogOK

LEMMA LogStaysOK ==
  ASSUME LogOK, NEW e \in Row, events' = Append(events, e)
  PROVE  LogOK'
<1>1. PICK R : R = Row
  OBVIOUS
<1>2. events \in Seq(R) /\ e \in R
  BY <1>1 DEF LogOK
<1>3. Append(events, e) \in Seq(R)
  BY <1>2
<1> QED BY <1>1, <1>3 DEF LogOK, Row

\* What f says of each row picked in T.
Picked(T, f, n) == LET s == UpTo(T)[n] IN [k \in DOMAIN s |-> f[s[k]]]

\* With one row more, which is picked too or is not.
LEMMA PickedGrows ==
  ASSUME NEW n \in Nat, NEW T, NEW U, NEW f, NEW g,
         \A m \in 1..n : (m \in T <=> m \in U) /\ g[m] = f[m]
  PROVE  Picked(U, g, n + 1) = IF n + 1 \in U THEN Append(Picked(T, f, n), g[n + 1])
                               ELSE Picked(T, f, n)
<1>s. PICK s : s = UpTo(T)[n]
  OBVIOUS
<1>q. PICK q : q = UpTo(U)[n + 1]
  OBVIOUS
<1>a. PICK a : a = [k \in DOMAIN s |-> f[s[k]]]
  OBVIOUS
<1>b. PICK b : b = [k \in DOMAIN q |-> g[q[k]]]
  OBVIOUS
<1>0. Picked(T, f, n) = a /\ Picked(U, g, n + 1) = b
  BY <1>s, <1>q, <1>a, <1>b DEF Picked
<1>1. Lists(s, {m \in 1..n : m \in T})
  BY <1>s, UpToLists
<1>2. /\ s \in Seq(Nat) /\ Len(s) \in Nat /\ DOMAIN s = 1..Len(s)
      /\ \A k \in 1..Len(s) : s[k] \in 1..n
  BY <1>1 DEF Lists
<1>3. q = IF n + 1 \in U THEN Append(s, n + 1) ELSE s
  BY <1>s, <1>q, UpToGrows
<1>4. \A k \in 1..Len(s) : g[s[k]] = f[s[k]]
  BY <1>2
<1>5. CASE n + 1 \notin U
  BY <1>0, <1>2, <1>3, <1>4, <1>5, <1>a, <1>b
<1>6. CASE n + 1 \in U
  <2>1. a = [k \in 1..Len(s) |-> f[s[k]]]
    BY <1>2, <1>a
  <2>2. a \in Seq({f[s[k]] : k \in 1..Len(s)}) /\ Len(a) = Len(s)
    <3> DEFINE S == {f[s[k]] : k \in 1..Len(s)}
    <3>1. \A k \in 1..Len(s) : f[s[k]] \in S
      OBVIOUS
    <3> HIDE DEF S
    <3>2. a \in [1..Len(s) -> S]
      BY <2>1, <3>1
    <3>3. a \in Seq(S) /\ Len(a) = Len(s)
      BY <1>2, <3>2
    <3> QED BY <3>3 DEF S
  <2>3. PICK u : u = Append(a, g[n + 1])
    OBVIOUS
  <2>4. u = [k \in 1..(Len(s) + 1) |-> IF k = Len(s) + 1 THEN g[n + 1] ELSE a[k]]
    BY <1>2, <2>2, <2>3
  <2>5. /\ DOMAIN q = 1..(Len(s) + 1) /\ q[Len(s) + 1] = n + 1
        /\ \A k \in 1..Len(s) : q[k] = s[k]
    BY <1>2, <1>3, <1>6
  <2>6. \A k \in 1..(Len(s) + 1) : k \in 1..Len(s) \/ k = Len(s) + 1
    BY <1>2
  <2>7. \A k \in 1..(Len(s) + 1) : g[q[k]] = u[k]
    BY <1>2, <1>4, <2>1, <2>4, <2>5, <2>6
  <2>8. b = u
    BY <1>b, <2>4, <2>5, <2>7
  <2> QED BY <1>0, <1>6, <2>3, <2>8
<1> QED BY <1>5, <1>6

\* One event more: what its writer has said, and what the posts have.
LEMMA TypesGrow ==
  ASSUME LogOK, NEW e, events' = Append(events, e), NEW x
  PROVE  TypesFrom(x)' = IF e.from = x THEN Append(TypesFrom(x), e.type) ELSE TypesFrom(x)
<1>1. PICK n \in Nat : n = Len(events) /\ n + 1 = Len(events')
  BY LogGrows
<1>2. Seqs = 1..n /\ Seqs' = 1..(n + 1)
  BY <1>1 DEF Seqs
<1>3. events'[n + 1] = e /\ \A m \in 1..n : events'[m] = events[m]
  BY <1>1, LogGrows
<1>4. PICK T : T = {i \in 1..n : events[i].from = x}
  OBVIOUS
<1>5. PICK U : U = {i \in 1..(n + 1) : events'[i].from = x}
  OBVIOUS
<1>6. PICK f : f = [i \in 1..n |-> events[i].type]
  OBVIOUS
<1>7. PICK g : g = [i \in 1..(n + 1) |-> events'[i].type]
  OBVIOUS
<1>8. /\ \A k \in DOMAIN UpTo(T)[n] : UpTo(T)[n][k] \in 1..n
      /\ \A k \in DOMAIN UpTo(U)[n + 1] : UpTo(U)[n + 1][k] \in 1..(n + 1)
  <2>1. n + 1 \in Nat
    OBVIOUS
  <2>2. Lists(UpTo(T)[n], {m \in 1..n : m \in T}) /\ Lists(UpTo(U)[n + 1], {m \in 1..(n + 1) : m \in U})
    BY <2>1, UpToLists
  <2> QED BY <2>2 DEF Lists
<1>11. TypesFrom(x) = Picked(T, f, n)
  BY <1>1, <1>2, <1>4, <1>6, <1>8 DEF TypesFrom, Ascending, Picked
<1>12. TypesFrom(x)' = Picked(U, g, n + 1)
  BY <1>1, <1>2, <1>5, <1>7, <1>8 DEF TypesFrom, Ascending, Picked
<1>13. n + 1 \in 1..(n + 1) /\ \A m \in 1..n : m \in 1..(n + 1)
  OBVIOUS
<1>14. ASSUME NEW m \in 1..n PROVE m \in T <=> m \in U
  <2>1. events'[m] = events[m] /\ m \in 1..(n + 1)
    BY <1>3, <1>13
  <2> QED BY <1>4, <1>5, <2>1
<1>15. ASSUME NEW m \in 1..n PROVE g[m] = f[m]
  <2>1. events'[m] = events[m] /\ m \in 1..(n + 1)
    BY <1>3, <1>13
  <2> QED BY <1>6, <1>7, <2>1
<1>16. (n + 1 \in U <=> e.from = x) /\ g[n + 1] = e.type
  BY <1>3, <1>5, <1>7, <1>13
<1>17. Picked(U, g, n + 1) = IF n + 1 \in U THEN Append(Picked(T, f, n), g[n + 1])
                            ELSE Picked(T, f, n)
  BY <1>14, <1>15, PickedGrows
<1> QED BY <1>11, <1>12, <1>16, <1>17

LEMMA LoggedGrows ==
  ASSUME LogOK, NEW e, events' = Append(events, e)
  PROVE  Logged' = IF e.type = "UserInput" THEN Append(Logged, e.from) ELSE Logged
<1>1. PICK n \in Nat : n = Len(events) /\ n + 1 = Len(events')
  BY LogGrows
<1>2. Seqs = 1..n /\ Seqs' = 1..(n + 1)
  BY <1>1 DEF Seqs
<1>3. events'[n + 1] = e /\ \A m \in 1..n : events'[m] = events[m]
  BY <1>1, LogGrows
<1>4. PICK T : T = {i \in 1..n : events[i].type = "UserInput"}
  OBVIOUS
<1>5. PICK U : U = {i \in 1..(n + 1) : events'[i].type = "UserInput"}
  OBVIOUS
<1>6. PICK f : f = [i \in 1..n |-> events[i].from]
  OBVIOUS
<1>7. PICK g : g = [i \in 1..(n + 1) |-> events'[i].from]
  OBVIOUS
<1>8. /\ \A k \in DOMAIN UpTo(T)[n] : UpTo(T)[n][k] \in 1..n
      /\ \A k \in DOMAIN UpTo(U)[n + 1] : UpTo(U)[n + 1][k] \in 1..(n + 1)
  <2>1. n + 1 \in Nat
    OBVIOUS
  <2>2. Lists(UpTo(T)[n], {m \in 1..n : m \in T}) /\ Lists(UpTo(U)[n + 1], {m \in 1..(n + 1) : m \in U})
    BY <2>1, UpToLists
  <2> QED BY <2>2 DEF Lists
<1>11. Logged = Picked(T, f, n)
  BY <1>1, <1>2, <1>4, <1>6, <1>8 DEF Logged, Ascending, Picked
<1>12. Logged' = Picked(U, g, n + 1)
  BY <1>1, <1>2, <1>5, <1>7, <1>8 DEF Logged, Ascending, Picked
<1>13. n + 1 \in 1..(n + 1) /\ \A m \in 1..n : m \in 1..(n + 1)
  OBVIOUS
<1>14. ASSUME NEW m \in 1..n PROVE m \in T <=> m \in U
  <2>1. events'[m] = events[m] /\ m \in 1..(n + 1)
    BY <1>3, <1>13
  <2> QED BY <1>4, <1>5, <2>1
<1>15. ASSUME NEW m \in 1..n PROVE g[m] = f[m]
  <2>1. events'[m] = events[m] /\ m \in 1..(n + 1)
    BY <1>3, <1>13
  <2> QED BY <1>6, <1>7, <2>1
<1>16. (n + 1 \in U <=> e.type = "UserInput") /\ g[n + 1] = e.from
  BY <1>3, <1>5, <1>7, <1>13
<1>17. Picked(U, g, n + 1) = IF n + 1 \in U THEN Append(Picked(T, f, n), g[n + 1])
                            ELSE Picked(T, f, n)
  BY <1>14, <1>15, PickedGrows
<1> QED BY <1>11, <1>12, <1>16, <1>17

LEMMA NothingYet ==
  ASSUME events = << >>
  PROVE  Logged = << >> /\ \A x : TypesFrom(x) = << >>
<1>1. Len(events) = 0
  OBVIOUS
<1>2. \A T : Ascending(T) = << >>
  BY <1>1, UpToUnfolds DEF Ascending, UpToStep
<1>3. DOMAIN << >> = {}
  OBVIOUS
<1>4. Logged = << >>
  BY <1>2, <1>3 DEF Logged
<1>5. \A x : TypesFrom(x) = << >>
  BY <1>2, <1>3 DEF TypesFrom
<1> QED BY <1>4, <1>5

LEMMA SameLog == UNCHANGED events => Logged' = Logged /\ \A x : TypesFrom(x)' = TypesFrom(x)
BY DEF Logged, TypesFrom, Ascending, Seqs

\* The log is written by runs and by the dispatcher, in one step each.
LEMMA OneWriter ==
  [Next]_vars =>
    \/ UNCHANGED <<run, accepted, queue, held, events>>
    \/ UNCHANGED <<run, events>> /\ \E w \in Post : Enqueue(w)
    \/ UNCHANGED <<run, events>> /\ TakeEvent
    \/ UNCHANGED run /\ LogEvent
    \/ UNCHANGED <<accepted, queue, held>> /\ \E r \in Run : RunStep(r)
<1> SUFFICES ASSUME [Next]_vars
             PROVE  \/ UNCHANGED <<run, accepted, queue, held, events>>
                    \/ UNCHANGED <<run, events>> /\ \E w \in Post : Enqueue(w)
                    \/ UNCHANGED <<run, events>> /\ TakeEvent
                    \/ UNCHANGED run /\ LogEvent
                    \/ UNCHANGED <<accepted, queue, held>> /\ \E r \in Run : RunStep(r)
  OBVIOUS
<1>1. CASE UNCHANGED vars
  BY <1>1 DEF vars, intakeVars
<1>2. CASE RunsAct
  BY <1>2 DEF RunsAct, intakeVars
<1>3. CASE Serving \/ Breaking
  BY <1>3 DEF Serving, Breaking, intakeVars, OpenStream, Poll, Yield, Receive, BreakStream
<1>4. CASE IntakeAct
  BY <1>4 DEF IntakeAct, PostStep, Tick, Arrive, Verify, CheckRate, Dedup, Enqueue
<1>5. CASE Dispatch \/ InsertFails
  BY <1>5 DEF Dispatch, InsertFails, DispatcherStep, DispatcherDies, TakeEvent
<1> QED BY <1>1, <1>2, <1>3, <1>4, <1>5 DEF Next

-------------------------------------------------------------------------
(* Where a post that was answered 200 is.                                  *)

RunsInv ==
  /\ LogOK
  /\ run \in [Run -> RunStage]
  /\ RunsAreWellFormed

AcceptedInv ==
  /\ accepted \in Seq(Post) /\ queue \in Seq(Post) /\ held \in Seq(Post) /\ Len(held) <= 1
  /\ Logged \in Seq(Post)
  /\ AcceptedStayInOrder

LEMMA InitAccepted == Init => AcceptedInv
<1> SUFFICES ASSUME Init PROVE AcceptedInv
  OBVIOUS
<1>1. events = << >> /\ accepted = << >> /\ held = << >> /\ queue = << >>
  BY DEF Init, LogInit, IntakeInit
<1>2. Logged = << >>
  BY <1>1, NothingYet
<1> QED BY <1>1, <1>2 DEF AcceptedInv, AcceptedStayInOrder

LEMMA StepKeepsAccepted == AcceptedInv /\ RunsInv /\ [Next]_vars => AcceptedInv'
<1> SUFFICES ASSUME AcceptedInv, RunsInv, [Next]_vars PROVE AcceptedInv'
  OBVIOUS
<1>1. CASE UNCHANGED <<accepted, queue, held, events>>
  BY <1>1, SameLog DEF AcceptedInv, AcceptedStayInOrder
<1>2. ASSUME NEW w \in Post, Enqueue(w), UNCHANGED events PROVE AcceptedInv'
  <2>1. /\ queue' = Append(queue, w) /\ accepted' = Append(accepted, w) /\ held' = held
        /\ Logged' = Logged
    BY <1>2, SameLog DEF Enqueue
  <2>2. Logged \o held \in Seq(Post) /\ queue \in Seq(Post) /\ accepted \in Seq(Post)
    BY DEF AcceptedInv
  <2>3. Append(queue, w) \in Seq(Post) /\ Append(accepted, w) \in Seq(Post)
    BY <2>2, OneAtTheEnd
  <2>4. (Logged \o held) \o Append(queue, w) = Append((Logged \o held) \o queue, w)
    BY <2>2, OneAtTheEnd
  <2> QED BY <2>1, <2>3, <2>4 DEF AcceptedInv, AcceptedStayInOrder
<1>3. CASE UNCHANGED events /\ TakeEvent
  <2>1. /\ held = << >> /\ queue # << >> /\ held' = <<Head(queue)>> /\ queue' = Tail(queue)
        /\ accepted' = accepted /\ Logged' = Logged
    BY <1>3, SameLog DEF TakeEvent
  <2>2. <<Head(queue)>> \o Tail(queue) = queue /\ Head(queue) \in Post
    BY <2>1 DEF AcceptedInv
  <2>3. \A a, b, c \in Seq(Post) : (a \o b) \o c = a \o (b \o c)
    OBVIOUS
  <2>4. Logged \o held = Logged
    BY <2>1 DEF AcceptedInv
  <2>5. <<Head(queue)>> \in Seq(Post) /\ Tail(queue) \in Seq(Post)
    BY <2>1, <2>2 DEF AcceptedInv
  <2>6. (Logged \o <<Head(queue)>>) \o Tail(queue) = Logged \o queue
    BY <2>2, <2>3, <2>5 DEF AcceptedInv
  <2> QED BY <2>1, <2>4, <2>5, <2>6 DEF AcceptedInv, AcceptedStayInOrder
<1>4. CASE LogEvent
  <2>1. PICK e : e = AsSessionEvent(Head(held))
    OBVIOUS
  <2>2. held # << >> /\ events' = Append(events, e) /\ held' = << >> /\ UNCHANGED <<queue, accepted>>
    BY <1>4, <2>1 DEF LogEvent, Persist
  <2>3. e.type = "UserInput" /\ e.from = Head(held)
    BY <2>1 DEF AsSessionEvent, Event
  <2>4. Logged' = Append(Logged, Head(held))
    BY <2>2, <2>3, LoggedGrows DEF RunsInv
  <2>5. held = <<Head(held)>> /\ Head(held) \in Post
    BY <2>2, OneAtMost DEF AcceptedInv
  <2>6. Logged' = Logged \o held /\ Logged' \in Seq(Post)
    <3>1. Logged \in Seq(Post)
      BY DEF AcceptedInv
    <3>2. /\ Append(Logged, Head(held)) = Logged \o <<Head(held)>>
          /\ Append(Logged, Head(held)) \in Seq(Post)
      BY <2>5, <3>1, OneAtTheEnd
    <3> QED BY <2>4, <2>5, <3>2
  <2>7. Logged' \o held' = Logged'
    BY <2>2, <2>6
  <2> QED BY <2>2, <2>6, <2>7 DEF AcceptedInv, AcceptedStayInOrder
<1>5. ASSUME NEW r \in Run, RunStep(r), UNCHANGED <<accepted, queue, held>> PROVE AcceptedInv'
  <2>1. CASE UNCHANGED events
    BY <1>1, <1>5, <2>1
  <2>2. CASE \E e : events' = Append(events, e) /\ e.type # "UserInput"
    BY <1>5, <2>2, LoggedGrows DEF RunsInv, AcceptedInv, AcceptedStayInOrder
  <2> QED BY <1>5, <2>1, <2>2 DEF RunStep, StartRun, RequestModel, ModelAnswers, ModelFails,
             EndRun, DropRun, RunAppendFails, Step, Says, Persist, Event
<1> QED BY <1>1, <1>2, <1>3, <1>4, <1>5, OneWriter

-------------------------------------------------------------------------
(* What runs leave in the log.                                             *)

LEMMA InitRuns == Init => RunsInv
<1> SUFFICES ASSUME Init PROVE RunsInv
  OBVIOUS
<1>1. events = << >> /\ run = [r \in Run |-> "idle"]
  BY DEF Init, LogInit, RunsInit
<1>2. LogOK
  BY <1>1 DEF LogOK
<1>3. run \in [Run -> RunStage] /\ \A r \in Run : run[r] = "idle"
  BY <1>1 DEF RunStage
<1>4. RunsAreWellFormed
  BY <1>1, <1>3, NothingYet DEF RunsAreWellFormed, Written
<1> QED BY <1>2, <1>3, <1>4 DEF RunsInv

\* A write of run r is one more of what r has said, and of nobody else.
LEMMA StepOfRun ==
  ASSUME RunsInv, NEW r \in Run, NEW from \in RunStage \ {"panicked"}, NEW to \in RunStage \ {"panicked"},
         NEW type \in EventType, Step(r, from, type, to), Written(to) = Append(Written(from), type)
  PROVE  RunsInv'
<1> PICK e : e = Event(SessionOf[r], type, r, FALSE)
  OBVIOUS
<1>1. e \in Row /\ e.from = r /\ e.type = type
  BY RunsAssumption DEF Event, Row
<1>2. events' = Append(events, e) /\ run[r] = from /\ run' = [run EXCEPT ![r] = to]
  BY DEF Step, Says, Persist
<1>3. LogOK'
  BY <1>1, <1>2, LogStaysOK DEF RunsInv
<1>4. /\ run' \in [Run -> RunStage] /\ run'[r] = to
      /\ \A q \in Run : q # r => run'[q] = run[q]
  BY <1>2 DEF RunsInv
<1>5. TypesFrom(r) = Written(from)
  BY <1>2 DEF RunsInv, RunsAreWellFormed
<1>6. TypesFrom(r)' = Written(to)
  BY <1>1, <1>2, <1>5, TypesGrow DEF RunsInv
<1>7. \A q \in Run : q # r => TypesFrom(q)' = TypesFrom(q)
  BY <1>1, <1>2, TypesGrow DEF RunsInv
<1>8. RunsAreWellFormed'
  BY <1>4, <1>6, <1>7 DEF RunsInv, RunsAreWellFormed
<1> QED BY <1>3, <1>4, <1>8 DEF RunsInv


\* Writes of posts and steps that write nothing leave every run's story alone.
LEMMA QuietForRuns ==
  ASSUME RunsInv, UNCHANGED run, LogOK', \A r \in Run : TypesFrom(r)' = TypesFrom(r)
  PROVE  RunsInv'
BY DEF RunsInv, RunsAreWellFormed

LEMMA StepKeepsRuns == AcceptedInv /\ RunsInv /\ [Next]_vars => RunsInv'
<1> SUFFICES ASSUME AcceptedInv, RunsInv, [Next]_vars PROVE RunsInv'
  OBVIOUS
<1>1. CASE UNCHANGED <<run, events>>
  BY <1>1, SameLog, QuietForRuns DEF RunsInv, LogOK
<1>2. CASE UNCHANGED run /\ LogEvent
  <2>1. PICK e : e = AsSessionEvent(Head(held))
    OBVIOUS
  <2>2. held # << >> /\ events' = Append(events, e) /\ Head(held) \in Post
    BY <1>2, <2>1 DEF LogEvent, Persist, AcceptedInv
  <2>3. e \in Row /\ e.from = Head(held)
    BY <2>1, <2>2, IntakeAssumption DEF AsSessionEvent, Event, Row, EventType
  <2>4. LogOK'
    BY <2>2, <2>3, LogStaysOK DEF RunsInv
  <2>5. \A r \in Run : TypesFrom(r)' = TypesFrom(r)
    BY <2>2, <2>3, ActorsAssumption, TypesGrow DEF RunsInv
  <2> QED BY <1>2, <2>4, <2>5, QuietForRuns
<1>3. ASSUME NEW r \in Run, RunStep(r) PROVE RunsInv'
  <2>0. /\ Written("started") = Append(Written("idle"), "RunStart")
        /\ Written("awaiting") = Append(Written("started"), "ModelRequest")
        /\ Written("responded") = Append(Written("awaiting"), "ModelResponse")
        /\ Written("failed") = Append(Written("awaiting"), "ModelError")
        /\ Written("done") = Append(Written("responded"), "RunEnd")
        /\ Written("dropped") = Written("awaiting")
    BY DEF Written
  <2> USE DEF RunStage, EventType
  <2>1. CASE StartRun(r)
    BY <2>0, <2>1, StepOfRun DEF StartRun
  <2>2. CASE RequestModel(r)
    BY <2>0, <2>2, StepOfRun DEF RequestModel
  <2>3. CASE ModelAnswers(r)
    BY <2>0, <2>3, StepOfRun DEF ModelAnswers
  <2>4. CASE ModelFails(r)
    BY <2>0, <2>4, StepOfRun DEF ModelFails
  <2>5. CASE EndRun(r)
    BY <2>0, <2>5, StepOfRun DEF EndRun
  <2>6. CASE DropRun(r)
    <3>1. run[r] = "awaiting" /\ run' = [run EXCEPT ![r] = "dropped"] /\ UNCHANGED events
      BY <2>6 DEF DropRun
    <3>2. /\ run' \in [Run -> RunStage] /\ run'[r] = "dropped"
          /\ \A q \in Run : q # r => run'[q] = run[q]
      BY <3>1 DEF RunsInv
    <3> QED BY <2>0, <3>1, <3>2, SameLog DEF RunsInv, RunsAreWellFormed, LogOK
  <2>7. CASE RunAppendFails(r)
    <3>1. /\ run[r] \in {"idle", "started", "awaiting", "responded"} /\ UNCHANGED events
          /\ run' = [run EXCEPT ![r] = "panicked"]
      BY <2>7 DEF RunAppendFails
    <3>2. /\ run' \in [Run -> RunStage] /\ run'[r] = "panicked"
          /\ \A q \in Run : q # r => run'[q] = run[q]
      BY <3>1 DEF RunsInv
    <3>3. TypesFrom(r) \in {Written(s) : s \in {"idle", "started", "awaiting", "responded"}}
      BY <3>1 DEF RunsInv, RunsAreWellFormed
    <3> QED BY <3>1, <3>2, <3>3, SameLog DEF RunsInv, RunsAreWellFormed, LogOK
  <2> QED BY <1>3, <2>1, <2>2, <2>3, <2>4, <2>5, <2>6, <2>7 DEF RunStep
<1> QED BY <1>1, <1>2, <1>3, OneWriter

-------------------------------------------------------------------------
(* Where the events of the watched session are, as the client sees them:   *)
(* received up to LastSeen, on the wire up to the cursor, in the page up   *)
(* to some point of the log, and from there on in the log alone.           *)

LastSeen == IF received = << >> THEN 0 ELSE received[Len(received)]

\* The numbers of the watched session above lo, up to hi.
Stretch(lo, hi) == {i \in Seqs : events[i].session = Watched /\ lo < i /\ i <= hi}

Handed ==
  /\ LastSeen \in 0..Len(events)
  /\ Lists(received, Stretch(0, LastSeen))

Underway ==
  IF tail
  THEN /\ cursor \in LastSeen..Len(events)
       /\ Lists(wire, Stretch(LastSeen, cursor))
       /\ \E m \in 0..Len(events) : Lists(page, Stretch(cursor, m))
  ELSE page = << >> /\ wire = << >>

TailInv == IF "event" \in Listens THEN Handed /\ Underway ELSE received = << >>

LEMMA InitTail == Init => TailInv
<1> SUFFICES ASSUME Init PROVE TailInv
  OBVIOUS
<1>1. events = << >> /\ ~ tail /\ page = << >> /\ wire = << >> /\ received = << >>
  BY DEF Init, LogInit, TailInit
<1>2. Len(events) = 0 /\ LastSeen = 0
  BY <1>1 DEF LastSeen
<1>3. Stretch(0, LastSeen) = {}
  BY <1>2 DEF Stretch, Seqs
<1> QED BY <1>1, <1>2, <1>3, ListsNothing DEF TailInv, Handed, Underway

\* All but the stream, its client and what breaks them only add to the log.
LEMMA OthersLeaveTail ==
  [Next]_vars =>
    \/ Serving \/ Breaking
    \/ UNCHANGED <<events, tailVars>>
    \/ \E e : events' = Append(events, e) /\ UNCHANGED tailVars
BY DEF Next, RunsAct, RunStep, StartRun, RequestModel, ModelAnswers, ModelFails, EndRun, DropRun,
       RunAppendFails, Step, Says, Persist, IntakeAct, Tick, PostStep, Arrive, Verify, CheckRate,
       Dedup, Enqueue, Dispatch, DispatcherStep, TakeEvent, LogEvent, DispatcherDies, InsertFails, vars

LEMMA WritersKeepTail ==
  ASSUME LogOK, TailInv, NEW e, events' = Append(events, e), UNCHANGED tailVars
  PROVE  TailInv'
<1>1. PICK n \in Nat : n = Len(events) /\ n + 1 = Len(events')
  BY LogGrows
<1>2. \A i \in 1..n : events'[i] = events[i]
  BY <1>1, LogGrows
<1>3. \A lo \in Nat, hi \in 0..n : Stretch(lo, hi)' = Stretch(lo, hi)
  BY <1>1, <1>2 DEF Stretch, Seqs
<1>4. UNCHANGED <<tail, cursor, page, wire, received>> /\ LastSeen' = LastSeen
  BY DEF tailVars, LastSeen
<1>5. CASE "event" \in Listens
  <2>1. PICK seen0 \in 0..n : seen0 = LastSeen
    BY <1>1, <1>5 DEF TailInv, Handed
  <2>2. Lists(received, Stretch(0, seen0))
    BY <1>5, <2>1 DEF TailInv, Handed
  <2>3. Handed'
    BY <1>1, <1>3, <1>4, <2>1, <2>2 DEF Handed
  <2>4. CASE tail
    <3>1. PICK at \in 0..n : at = cursor /\ seen0 <= at
      BY <1>1, <1>5, <2>1, <2>4 DEF TailInv, Underway
    <3>2. PICK m \in 0..n : Lists(page, Stretch(at, m))
      BY <1>1, <1>5, <2>4, <3>1 DEF TailInv, Underway
    <3>3. Lists(wire, Stretch(seen0, at))
      BY <1>5, <2>1, <2>4, <3>1 DEF TailInv, Underway
    <3>4. Lists(wire, Stretch(seen0, at)') /\ Lists(page, Stretch(at, m)')
      BY <1>3, <3>2, <3>3
    <3>5. m \in 0..Len(events') /\ at \in seen0..Len(events')
      BY <1>1, <3>1
    <3>6. Underway'
      BY <1>4, <2>1, <2>4, <3>1, <3>4, <3>5 DEF Underway
    <3> QED BY <1>5, <2>3, <3>6 DEF TailInv
  <2>5. CASE ~ tail
    <3>1. Underway'
      BY <1>4, <1>5, <2>5 DEF TailInv, Underway
    <3> QED BY <1>5, <2>3, <3>1 DEF TailInv
  <2> QED BY <2>4, <2>5
<1> QED BY <1>4, <1>5 DEF TailInv

\* What a query from the cursor on returns.
LEMMA QueryLists ==
  ASSUME LogOK, NEW from \in Nat
  PROVE  Lists(Query(Watched, from + 1), Stretch(from, Len(events)))
<1>1. PICK n \in Nat : n = Len(events)
  BY DEF LogOK
<1>2. PICK T : T = {i \in Seqs : i >= from + 1 /\ events[i].session = Watched}
  OBVIOUS
<1>3. Query(Watched, from + 1) = UpTo(T)[n]
  BY <1>1, <1>2 DEF Query, Ascending
<1>4. Lists(UpTo(T)[n], {m \in 1..n : m \in T})
  BY UpToLists
<1>5. {m \in 1..n : m \in T} = Stretch(from, Len(events))
  BY <1>1, <1>2 DEF Stretch, Seqs
<1> QED BY <1>3, <1>4, <1>5

\* The next of a stretch, and the rest: the hand-over from page to wire, and
\* from wire to client.
LEMMA NextOfStretch ==
  ASSUME LogOK, NEW lo \in Nat, NEW mid \in Nat, NEW hi \in Nat, lo <= mid,
         NEW s, Lists(s, Stretch(lo, mid)), NEW q, Lists(q, Stretch(mid, hi)), q # << >>
  PROVE  /\ Head(q) \in Nat /\ mid < Head(q) /\ Head(q) <= hi /\ Head(q) <= Len(events)
         /\ Lists(Append(s, Head(q)), Stretch(lo, Head(q)))
         /\ Lists(Tail(q), Stretch(Head(q), hi))
<1>1. PICK n \in Nat : n = Len(events)
  BY DEF LogOK
<1>2. PICK h : h = Head(q)
  OBVIOUS
<1>3. /\ h \in Stretch(mid, hi) /\ h \in Nat /\ \A m \in Stretch(mid, hi) : h <= m
      /\ Lists(Tail(q), Stretch(mid, hi) \ {h})
  BY <1>2, ListsOneLess
<1>4. mid < h /\ h <= hi /\ h \in 1..n /\ events[h].session = Watched
  BY <1>1, <1>3 DEF Stretch, Seqs
<1>5. \A m \in Stretch(lo, mid) : m < h
  BY <1>1, <1>3, <1>4 DEF Stretch, Seqs
<1>6. Lists(Append(s, h), Stretch(lo, mid) \cup {h})
  BY <1>3, <1>5, ListsOneMore
<1>7. \A m \in 1..n : mid < m /\ m < h /\ events[m].session = Watched => FALSE
  BY <1>1, <1>3, <1>4 DEF Stretch, Seqs
<1>8. Stretch(lo, mid) \cup {h} = Stretch(lo, h)
  BY <1>1, <1>4, <1>7 DEF Stretch, Seqs
<1>9. Stretch(mid, hi) \ {h} = Stretch(h, hi)
  BY <1>1, <1>4, <1>7 DEF Stretch, Seqs
<1>10. Lists(Append(s, h), Stretch(lo, h)) /\ Lists(Tail(q), Stretch(h, hi))
  BY <1>3, <1>6, <1>8, <1>9
<1>11. h <= Len(events)
  BY <1>1, <1>4
<1> QED BY <1>2, <1>3, <1>4, <1>10, <1>11

LEMMA SameStretches ==
  UNCHANGED events => Len(events)' = Len(events) /\ \A lo, hi : Stretch(lo, hi)' = Stretch(lo, hi)
BY DEF Stretch, Seqs

LEMMA ClientSteps ==
  ASSUME Resumes, LogOK, TailInv, Serving \/ Breaking
  PROVE  TailInv'
<1>1. CASE "event" \notin Listens
  BY <1>1 DEF TailInv, Serving, Breaking, OpenStream, Poll, Yield, Receive, BreakStream
<1>2. ASSUME "event" \in Listens PROVE TailInv'
  <2>1. PICK n \in Nat : n = Len(events)
    BY DEF LogOK
  <2>2. UNCHANGED events /\ Len(events') = n /\ \A lo, hi : Stretch(lo, hi)' = Stretch(lo, hi)
    BY <2>1, SameStretches DEF Serving, Breaking, OpenStream, Poll, Yield, Receive, BreakStream
  <2>3. PICK seen0 \in 0..n : seen0 = LastSeen /\ Lists(received, Stretch(0, seen0))
    BY <1>2, <2>1 DEF TailInv, Handed
  <2>4. \A m \in Nat : Stretch(m, m) = {}
    BY <2>1 DEF Stretch, Seqs
  <2>5. CASE OpenStream
    <3>1. /\ ~ tail /\ tail' /\ cursor' = SinceSeq /\ UNCHANGED <<page, wire, received>>
          /\ page = << >> /\ wire = << >>
      BY <1>2, <2>5 DEF OpenStream, TailInv, Underway
    <3>2. cursor' = seen0 /\ LastSeen' = seen0
      BY <2>3, <3>1 DEF SinceSeq, LastSeen
    <3>3. Handed'
      BY <2>2, <2>3, <3>1, <3>2 DEF Handed
    <3>4. Lists(<< >>, Stretch(seen0, seen0)')
      <4>1. Stretch(seen0, seen0)' = {}
        BY <2>2, <2>4
      <4> QED BY <4>1, ListsNothing
    <3>5. Underway'
      BY <2>2, <3>1, <3>2, <3>4 DEF Underway
    <3> QED BY <1>2, <3>3, <3>5 DEF TailInv
  <2>6. CASE BreakStream
    <3>1. ~ tail' /\ page' = << >> /\ wire' = << >> /\ received' = received /\ LastSeen' = seen0
      BY <2>3, <2>6 DEF BreakStream, LastSeen
    <3>2. Handed' /\ Underway'
      BY <2>2, <2>3, <3>1 DEF Handed, Underway
    <3> QED BY <1>2, <3>2 DEF TailInv
  <2>7. CASE Poll \/ Yield \/ Receive
    <3>1. tail /\ tail'
      BY <2>7 DEF Poll, Yield, Receive
    <3>2. PICK at \in 0..n : at = cursor /\ seen0 <= at /\ Lists(wire, Stretch(seen0, at))
      BY <1>2, <2>1, <2>3, <3>1 DEF TailInv, Underway
    <3>3. PICK m \in 0..n : Lists(page, Stretch(at, m))
      BY <1>2, <2>1, <3>1, <3>2 DEF TailInv, Underway
    <3>4. CASE Poll
      <4>1. page' = Query(Watched, at + 1) /\ UNCHANGED <<cursor, wire, received>> /\ LastSeen' = seen0
        BY <2>3, <3>2, <3>4 DEF Poll, LastSeen
      <4>2. Lists(page', Stretch(at, n)')
        BY <2>1, <2>2, <4>1, QueryLists
      <4>3. Lists(wire', Stretch(seen0, at)') /\ n \in 0..Len(events') /\ cursor' = at
        BY <2>2, <3>2, <4>1
      <4>4. Handed' /\ Underway'
        BY <2>2, <2>3, <3>1, <3>2, <4>1, <4>2, <4>3 DEF Handed, Underway
      <4> QED BY <1>2, <4>4 DEF TailInv
    <3>5. CASE Yield
      <4>1. PICK h : h = Head(page)
        OBVIOUS
      <4>2. /\ page # << >> /\ wire' = Append(wire, h) /\ page' = Tail(page)
            /\ cursor' = (IF h > at THEN h ELSE at) /\ received' = received /\ LastSeen' = seen0
        BY <2>3, <3>2, <3>5, <4>1 DEF Yield, LastSeen
      <4>3. /\ h \in Nat /\ at < h /\ h <= m /\ h <= n
            /\ Lists(wire', Stretch(seen0, h)) /\ Lists(page', Stretch(h, m))
        BY <2>1, <3>2, <3>3, <4>1, <4>2, NextOfStretch
      <4>4. cursor' = h /\ h \in seen0..Len(events') /\ m \in 0..Len(events')
        BY <2>2, <3>2, <4>2, <4>3
      <4>5. Handed' /\ Underway'
        BY <2>2, <2>3, <3>1, <4>2, <4>3, <4>4 DEF Handed, Underway
      <4> QED BY <1>2, <4>5 DEF TailInv
    <3>6. CASE Receive
      <4>1. PICK h : h = Head(wire)
        OBVIOUS
      <4>2. /\ wire # << >> /\ received' = Append(received, h) /\ wire' = Tail(wire)
            /\ UNCHANGED <<cursor, page>>
        BY <1>2, <3>6, <4>1 DEF Receive
      <4>3. /\ h \in Nat /\ seen0 < h /\ h <= at /\ h <= n
            /\ Lists(received', Stretch(0, h)) /\ Lists(wire', Stretch(h, at))
        BY <2>1, <2>3, <3>2, <4>1, <4>2, NextOfStretch
      <4>4. LastSeen' = h
        <5>1. received \in Seq(Nat)
          BY <2>3 DEF Lists
        <5>2. /\ Append(received, h) # << >> /\ Len(Append(received, h)) = Len(received) + 1
              /\ Append(received, h)[Len(received) + 1] = h
          BY <4>3, <5>1, AppendProperties
        <5> QED BY <4>2, <5>2 DEF LastSeen
      <4>5. h \in 0..Len(events') /\ at \in h..Len(events') /\ m \in 0..Len(events')
        BY <2>2, <4>3
      <4>6. Handed' /\ Underway'
        BY <2>2, <3>1, <3>2, <3>3, <4>2, <4>3, <4>4, <4>5 DEF Handed, Underway
      <4> QED BY <1>2, <4>6 DEF TailInv
    <3> QED BY <2>7, <3>4, <3>5, <3>6
  <2> QED BY <2>5, <2>6, <2>7 DEF Serving, Breaking
<1> QED BY <1>1, <1>2

LEMMA StepKeepsTail == ASSUME Resumes PROVE RunsInv /\ TailInv /\ [Next]_vars => TailInv'
<1> SUFFICES ASSUME LogOK, TailInv, [Next]_vars PROVE TailInv'
  BY DEF RunsInv
<1>1. CASE UNCHANGED <<events, tailVars>>
  <2>1. UNCHANGED <<events, tail, cursor, page, wire, received>>
    BY <1>1 DEF tailVars
  <2>2. LastSeen' = LastSeen
    BY <2>1 DEF LastSeen
  <2>3. Handed => Handed'
    BY <2>1, <2>2, SameStretches DEF Handed
  <2>4. Underway => Underway'
    BY <2>1, <2>2, SameStretches DEF Underway
  <2> QED BY <2>1, <2>3, <2>4 DEF TailInv
<1> QED BY <1>1, ClientSteps, WritersKeepTail, OthersLeaveTail

-------------------------------------------------------------------------
LEMMA EventsInvariant == Spec => [](RunsInv /\ AcceptedInv)
<1>1. RunsInv /\ AcceptedInv /\ [Next]_vars => RunsInv' /\ AcceptedInv'
  BY StepKeepsRuns, StepKeepsAccepted
<1> QED BY <1>1, InitRuns, InitAccepted, PTL DEF Spec

\* For any number of runs and posts that write one log at once, each run's
\* events are its lifecycle in order, or a prefix that ends where it broke off
\* (agent.rs, run).
THEOREM RunsTellTheirStory == Spec => []RunsAreWellFormed
<1>1. RunsInv => RunsAreWellFormed
  BY DEF RunsInv
<1> QED BY <1>1, EventsInvariant, PTL

\* No post that was answered 200 is lost, repeated or overtaken between the
\* queue, the dispatcher and the log, even when the dispatcher is gone
\* (webhook lib.rs, submit and run_webhook_dispatcher).
THEOREM AcceptedAreKept == Spec => []AcceptedStayInOrder
<1>1. AcceptedInv => AcceptedStayInOrder
  BY DEF AcceptedInv
<1> QED BY <1>1, EventsInvariant, PTL

\* A client that resumes from the last number it saw has the session's events
\* from the first on, for any writers of any session and any number of broken
\* connections (http.rs, stream_session_events_handler).
THEOREM ResumingMissesNothing == ASSUME Resumes PROVE Spec => []TailHasNoGap
<1>1. RunsInv /\ TailInv => TailHasNoGap
  <2> SUFFICES ASSUME LogOK, TailInv PROVE TailHasNoGap
    BY DEF RunsInv
  <2>1. PICK q : q = Query(Watched, 1)
    OBVIOUS
  <2>2. Lists(q, Stretch(0, Len(events)))
    BY <2>1, QueryLists
  <2>3. CASE received = << >>
    <3>1. q \in Seq(Nat)
      BY <2>2 DEF Lists
    <3> QED BY <2>1, <2>3, <3>1 DEF TailHasNoGap, IsPrefix
  <2>4. CASE received # << >>
    <3>1. PICK S : S = Stretch(0, LastSeen)
      OBVIOUS
    <3>2. Lists(received, S) /\ LastSeen \in 0..Len(events)
      BY <2>4, <3>1 DEF TailInv, Handed
    <3>3. /\ S \subseteq Stretch(0, Len(events))
          /\ \A m \in S, k \in Stretch(0, Len(events)) : k <= m => k \in S
      BY <3>1, <3>2 DEF Stretch, Seqs, LogOK
    <3>4. Len(received) <= Len(q) /\ \A i \in 1..Len(received) : received[i] = q[i]
      BY <2>2, <3>2, <3>3, ListsLower
    <3>5. received \in Seq(Nat) /\ q \in Seq(Nat)
      BY <2>2, <3>2 DEF Lists
    <3>6. SubSeq(received, 1, Len(received)) = SubSeq(q, 1, Len(received))
      BY <3>4, <3>5
    <3> QED BY <2>1, <3>4, <3>6 DEF TailHasNoGap, IsPrefix
  <2> QED BY <2>3, <2>4
<1>2. RunsInv /\ TailInv /\ [Next]_vars => TailInv'
  BY StepKeepsTail
<1> QED BY <1>1, <1>2, InitTail, EventsInvariant, PTL DEF Spec

-------------------------------------------------------------------------
(* What posts may rely on before they are queued: an event id is accepted  *)
(* once, and no route passes more than twice its limit in a window.        *)

IntakeTypes ==
    /\ post \in [Post -> PostStage]
    /\ admittedAt \in [Post -> 0..NotYet]
    /\ accepted \in Seq(Post)
    /\ now \in 0..MaxNow

\* A post that is past the dedup step has recorded its id, no two posts with
\* one id are past it, and only a post that has been answered 200, once, is
\* among the accepted.
IdsAreClaimedOnce ==
    /\ \A w \in Post : post[w] \in {"fresh", "200"} => IdOf[w] \in seen
    /\ \A v, w \in Post :
          (post[v] \in {"fresh", "200"} /\ post[w] \in {"fresh", "200"} /\ IdOf[v] = IdOf[w])
             => v = w
    /\ \A i \in 1..Len(accepted) : post[accepted[i]] = "200"
    /\ \A i, j \in 1..Len(accepted) : accepted[i] = accepted[j] => i = j

\* The posts of a route the limiter let pass between two times.
Admitted(key, from, to) ==
    {w \in Post : RouteOf[w] = key /\ admittedAt[w] \in from..to /\ admittedAt[w] # NotYet}

\* The window of a route, once it has one, has counted whatever was let pass
\* since it started, and in the window's length before that no more than one
\* earlier window can have passed.
WindowCounts(key) ==
    LET entry == limiter[key]
    IN  /\ entry \in [start : 0..now, count : Nat \ {0}]
        /\ \A w \in Post : RouteOf[w] = key /\ admittedAt[w] # NotYet =>
              admittedAt[w] <= now /\ admittedAt[w] < entry.start + Window
        /\ Cardinality(Admitted(key, entry.start, MaxNow)) <= MaxPerWindow
        /\ Cardinality(Admitted(key, entry.start, MaxNow)) <= entry.count
        /\ \A t \in Int : entry.start - Window < t =>
              Cardinality(Admitted(key, t, entry.start - 1)) <= MaxPerWindow

RouteWithinLimit(key) ==
    \A t \in Int : Cardinality(Admitted(key, t, t + Window - 1)) <= 2 * MaxPerWindow

\* A window of no length restarts with every call and limits nothing.
LimiterInv ==
    Window > 0 =>
        /\ \A w \in Post : admittedAt[w] # NotYet => RouteOf[w] \in DOMAIN limiter
        /\ \A key \in DOMAIN limiter : WindowCounts(key) /\ RouteWithinLimit(key)

IntakeInv == IntakeTypes /\ IdsAreClaimedOnce /\ LimiterInv

-------------------------------------------------------------------------
LEMMA InitIntake == Init => IntakeInv
<1> SUFFICES ASSUME Init PROVE IntakeInv
  OBVIOUS
<1>1. DOMAIN limiter = {}
  BY DEF Init, IntakeInit
<1>2. IntakeTypes
  <2>1. MaxNow \in Nat /\ NotYet \in 0..NotYet /\ 0 \in 0..MaxNow /\ << >> \in Seq(Post)
    BY IntakeAssumption DEF NotYet
  <2> QED BY <2>1 DEF Init, IntakeInit, IntakeTypes, PostStage
<1>3. IdsAreClaimedOnce
  BY DEF Init, IntakeInit, IdsAreClaimedOnce
<1>4. LimiterInv
  BY <1>1 DEF Init, IntakeInit, LimiterInv
<1> QED BY <1>2, <1>3, <1>4 DEF IntakeInv

\* All but posts and the clock leave what the invariant speaks of alone.
LEMMA OthersLeaveIntake ==
  [Next]_vars =>
    \/ UNCHANGED <<post, limiter, admittedAt, seen, accepted, now>>
    \/ Tick
    \/ \E w \in Post : PostStep(w)
BY DEF Next, RunsAct, Serving, Breaking, IntakeAct, Dispatch, DispatcherStep, InsertFails,
       TakeEvent, LogEvent, DispatcherDies, vars, intakeVars

LEMMA StepKeepsTypes == IntakeTypes /\ [Next]_vars => IntakeTypes'
<1> SUFFICES ASSUME IntakeTypes, [Next]_vars PROVE IntakeTypes'
  OBVIOUS
<1> USE IntakeAssumption DEF IntakeTypes
<1>1. CASE UNCHANGED <<post, limiter, admittedAt, seen, accepted, now>>
  BY <1>1
<1>2. CASE Tick
  BY <1>2 DEF Tick
<1>3. ASSUME NEW w \in Post, PostStep(w) PROVE IntakeTypes'
  <2>1. CASE Arrive(w)
    BY <2>1 DEF Arrive, Move, PostStage, Answered
  <2>2. CASE Verify(w)
    BY <2>2 DEF Verify, Move, PostStage, Answered
  <2>3. CASE CheckRate(w)
    <3>1. /\ post' = [post EXCEPT ![w] = IF WindowEntry(RouteOf[w]).count <= MaxPerWindow
                                         THEN "admitted" ELSE "429"]
          /\ admittedAt' = admittedAt \/ admittedAt' = [admittedAt EXCEPT ![w] = now]
          /\ UNCHANGED <<accepted, now>>
      BY <2>3 DEF CheckRate, Move
    <3>2. now \in 0..NotYet
      BY DEF NotYet
    <3> QED BY <3>1, <3>2 DEF PostStage, Answered
  <2>4. CASE Dedup(w)
    BY <2>4 DEF Dedup, Move, PostStage, Answered
  <2>5. CASE Enqueue(w)
    BY <2>5 DEF Enqueue, Move, PostStage, Answered
  <2> QED BY <1>3, <2>1, <2>2, <2>3, <2>4, <2>5 DEF PostStep
<1> QED BY <1>1, <1>2, <1>3, OthersLeaveIntake

LEMMA StepKeepsIds ==
  IntakeTypes /\ IdsAreClaimedOnce /\ [Next]_vars => IdsAreClaimedOnce'
<1> SUFFICES ASSUME IntakeTypes, IdsAreClaimedOnce, [Next]_vars PROVE IdsAreClaimedOnce'
  OBVIOUS
<1> USE DEF IntakeTypes, IdsAreClaimedOnce
<1>1. CASE UNCHANGED <<post, seen, accepted>>
  BY <1>1
<1>2. ASSUME NEW w \in Post, Arrive(w) \/ Verify(w) \/ CheckRate(w)
      PROVE  IdsAreClaimedOnce'
  <2>1. PICK s \in {"404", "401", "429", "verifying", "verified", "admitted"} :
             post[w] \in {"idle", "verifying", "verified"} /\ post' = [post EXCEPT ![w] = s]
    BY <1>2 DEF Arrive, Verify, CheckRate, Move
  <2>2. UNCHANGED <<seen, accepted>>
    BY <1>2 DEF Arrive, Verify, CheckRate
  <2>3. \A v \in Post : /\ post'[v] \in {"fresh", "200"} => post[v] \in {"fresh", "200"}
                        /\ post[v] = "200" => post'[v] = "200"
    BY <2>1
  <2>4. \A i \in 1..Len(accepted) : accepted[i] \in Post
    OBVIOUS
  <2> QED BY <2>2, <2>3, <2>4
<1>3. ASSUME NEW w \in Post, Dedup(w) PROVE IdsAreClaimedOnce'
  <2>1. /\ post[w] = "admitted" /\ seen' = seen \cup {IdOf[w]} /\ UNCHANGED accepted
        /\ post' = [post EXCEPT ![w] = IF IdOf[w] \in seen THEN "202" ELSE "fresh"]
    BY <1>3 DEF Dedup, Move
  <2>2. \A v \in Post : /\ v # w => post'[v] = post[v]
                        /\ v = w => post'[v] = IF IdOf[w] \in seen THEN "202" ELSE "fresh"
    BY <2>1
  <2>3. \A i \in 1..Len(accepted) : accepted[i] \in Post /\ accepted[i] # w
    BY <2>1
  <2> QED BY <2>1, <2>2, <2>3
<1>4. ASSUME NEW w \in Post, Enqueue(w) PROVE IdsAreClaimedOnce'
  <2>1. /\ post[w] = "fresh" /\ post' = [post EXCEPT ![w] = "200"]
        /\ accepted' = Append(accepted, w) /\ UNCHANGED seen
    BY <1>4 DEF Enqueue, Move
  <2>2. \A v \in Post : /\ v # w => post'[v] = post[v]
                        /\ v = w => post'[v] = "200" /\ post[v] = "fresh"
    BY <2>1
  <2>3. /\ Len(accepted') = Len(accepted) + 1
        /\ \A i \in 1..Len(accepted) : accepted'[i] = accepted[i] /\ accepted[i] \in Post
        /\ accepted'[Len(accepted) + 1] = w
    BY <2>1
  <2>4. \A i \in 1..Len(accepted) : accepted[i] # w
    BY <2>1, <2>3
  <2>5. \A i \in 1..Len(accepted') : i \in 1..Len(accepted) \/ i = Len(accepted) + 1
    BY <2>3
  <2>6. \A i \in 1..Len(accepted') : post'[accepted'[i]] = "200"
    BY <2>2, <2>3, <2>5
  <2>7. \A i, j \in 1..Len(accepted') : accepted'[i] = accepted'[j] => i = j
    BY <2>3, <2>4, <2>5
  <2> QED BY <2>1, <2>2, <2>6, <2>7
<1>5. \/ UNCHANGED <<post, seen, accepted>>
      \/ \E w \in Post : Arrive(w) \/ Verify(w) \/ CheckRate(w) \/ Dedup(w) \/ Enqueue(w)
  BY OthersLeaveIntake DEF Tick, PostStep
<1> QED BY <1>1, <1>2, <1>3, <1>4, <1>5

-------------------------------------------------------------------------
\* One more post is one more member; fewer posts are no more of them.
LEMMA AdmittedIsFinite ==
  ASSUME NEW key, NEW a, NEW b
  PROVE  /\ IsFiniteSet(Admitted(key, a, b)) /\ Cardinality(Admitted(key, a, b)) \in Nat
         /\ IsFiniteSet(Admitted(key, a, b)') /\ Cardinality(Admitted(key, a, b)') \in Nat
<1>1. IsFiniteSet(Admitted(key, a, b)) /\ IsFiniteSet(Admitted(key, a, b)')
  BY IntakeAssumption, FS_Subset DEF Admitted
<1> QED BY <1>1, FS_CardinalityType

LEMMA CountedAtMost ==
  ASSUME NEW S, NEW T, IsFiniteSet(T), S \subseteq T
  PROVE  Cardinality(S) <= Cardinality(T) /\ Cardinality(S) \in Nat /\ Cardinality(T) \in Nat
BY FS_Subset, FS_CardinalityType

LEMMA CountedWithOne ==
  ASSUME NEW S, NEW T, NEW w, IsFiniteSet(T), S \subseteq T \cup {w}
  PROVE  Cardinality(S) <= Cardinality(T) + 1 /\ Cardinality(S) \in Nat
<1>1. IsFiniteSet(T \cup {w}) /\ Cardinality(T \cup {w}) <= Cardinality(T) + 1
  <2>1. Cardinality(T) \in Nat
    BY FS_CardinalityType
  <2>2. CASE w \in T
    <3>1. T \cup {w} = T
      BY <2>2
    <3> QED BY <2>1, <3>1
  <2>3. CASE w \notin T
    <3>1. IsFiniteSet(T \cup {w}) /\ Cardinality(T \cup {w}) = Cardinality(T) + 1
      BY <2>3, FS_AddElement, Zenon
    <3> QED BY <2>1, <3>1
  <2> QED BY <2>2, <2>3
<1>2. Cardinality(S) <= Cardinality(T \cup {w}) /\ Cardinality(S) \in Nat
      /\ Cardinality(T \cup {w}) \in Nat /\ Cardinality(T) \in Nat
  BY <1>1, CountedAtMost, FS_CardinalityType
<1> QED BY <1>1, <1>2

LEMMA CountedTogether ==
  ASSUME NEW S, NEW T, NEW U, IsFiniteSet(T), IsFiniteSet(U), S \subseteq T \cup U
  PROVE  Cardinality(S) <= Cardinality(T) + Cardinality(U) /\ Cardinality(S) \in Nat
<1>1. /\ IsFiniteSet(T \cup U) /\ Cardinality(T \cap U) \in Nat
      /\ Cardinality(T \cup U) = Cardinality(T) + Cardinality(U) - Cardinality(T \cap U)
  BY FS_Union, FS_Intersection, FS_CardinalityType
<1>2. /\ Cardinality(S) <= Cardinality(T \cup U) /\ Cardinality(S) \in Nat
      /\ Cardinality(T) \in Nat /\ Cardinality(U) \in Nat /\ Cardinality(T \cup U) \in Nat
  BY <1>1, CountedAtMost, FS_CardinalityType
<1> QED BY <1>1, <1>2
-------------------------------------------------------------------------
\* What one call of the limiter does to the posts it has let pass: w joins
\* them if its window has room, the other routes see nothing of it.
LEMMA OneMoreAdmitted ==
  ASSUME NEW w \in Post, IntakeTypes, CheckRate(w)
  PROVE  LET k == RouteOf[w]
             ok == WindowEntry(k).count <= MaxPerWindow
         IN  /\ DOMAIN limiter' = DOMAIN limiter \cup {k}
             /\ limiter'[k] = WindowEntry(k)
             /\ \A j \in DOMAIN limiter : j # k => limiter'[j] = limiter[j]
             /\ \A v \in Post : admittedAt'[v] # admittedAt[v] => v = w
             /\ \/ ok /\ admittedAt'[w] = now
                \/ ~ ok /\ admittedAt' = admittedAt
             /\ \A j : j # k => \A a, b : Admitted(j, a, b)' = Admitted(j, a, b)
             /\ \A a, b : Admitted(k, a, b)' \subseteq Admitted(k, a, b) \cup {w}
             /\ \A a, b \in Int : ~ (ok /\ now \in a..b)
                                   => Admitted(k, a, b)' \subseteq Admitted(k, a, b)
<1> DEFINE k == RouteOf[w]
           ok == WindowEntry(k).count <= MaxPerWindow
<1>1. /\ DOMAIN limiter' = DOMAIN limiter \cup {k}
      /\ limiter'[k] = WindowEntry(k)
      /\ \A j \in DOMAIN limiter : j # k => limiter'[j] = limiter[j]
  BY DEF CheckRate
<1>2. admittedAt' = IF ok THEN [admittedAt EXCEPT ![w] = now] ELSE admittedAt
  BY DEF CheckRate
<1> HIDE DEF ok
<1>3. /\ \A v \in Post : admittedAt'[v] # admittedAt[v] => v = w
      /\ (ok /\ admittedAt'[w] = now) \/ (~ ok /\ admittedAt' = admittedAt)
  BY <1>2 DEF IntakeTypes
<1>4. \A j : j # k => \A a, b : Admitted(j, a, b)' = Admitted(j, a, b)
  BY <1>3 DEF Admitted
<1>5. \A a, b : Admitted(k, a, b)' \subseteq Admitted(k, a, b) \cup {w}
  BY <1>3 DEF Admitted
<1>6. \A a, b \in Int : ~ (ok /\ now \in a..b)
                          => Admitted(k, a, b)' \subseteq Admitted(k, a, b)
  BY <1>3 DEF Admitted
<1> QED BY <1>1, <1>3, <1>4, <1>5, <1>6 DEF ok

\* Once a route's window is known to count, the limit holds over any stretch
\* of the window's length: it meets at most the window and the one before.
LEMMA TwoWindowsAtMost ==
  ASSUME NEW k, NEW s \in Nat, NEW t \in Int,
         IntakeTypes, IntakeTypes', Window > 0, s <= now,
         Cardinality(Admitted(k, s, MaxNow)') <= MaxPerWindow,
         \A b \in Int : s - Window < b =>
             Cardinality(Admitted(k, b, s - 1)') <= MaxPerWindow,
         \/ Cardinality(Admitted(k, t, t + Window - 1)') <= 2 * MaxPerWindow
         \/ now \in t..(t + Window - 1)
  PROVE  Cardinality(Admitted(k, t, t + Window - 1)') <= 2 * MaxPerWindow
<1> DEFINE A == Admitted(k, t, s - 1)'
           B == Admitted(k, s, MaxNow)'
           C == Admitted(k, t, t + Window - 1)'
<1> USE IntakeAssumption
<1>1. CASE now \in t..(t + Window - 1)
  <2>1. s - Window < t
    BY <1>1 DEF IntakeTypes
  <2>2. IsFiniteSet(A) /\ IsFiniteSet(B)
    BY AdmittedIsFinite
  <2>3. Cardinality(A) \in Nat /\ Cardinality(B) \in Nat /\ Cardinality(C) \in Nat
    BY AdmittedIsFinite
  <2>4. C \subseteq A \cup B
    <3>1. \A v \in Post : admittedAt'[v] # NotYet => admittedAt'[v] \in 0..MaxNow
      BY DEF IntakeTypes, NotYet
    <3> QED BY <3>1 DEF Admitted
  <2>5. Cardinality(C) <= Cardinality(A) + Cardinality(B)
    BY <2>2, <2>4, CountedTogether
  <2>6. Cardinality(A) <= MaxPerWindow /\ Cardinality(B) <= MaxPerWindow
    BY <2>1
  <2> HIDE DEF A, B, C
  <2>7. Cardinality(C) <= 2 * MaxPerWindow
    BY <2>3, <2>5, <2>6
  <2> QED BY <2>7 DEF C
<1> QED BY <1>1

\* The checked route's own window, before the call or opened by it.
LEMMA CheckKeepsItsWindow ==
  ASSUME NEW w \in Post, IntakeTypes, IntakeTypes', LimiterInv, Window > 0, CheckRate(w)
  PROVE  WindowCounts(RouteOf[w])' /\ RouteWithinLimit(RouteOf[w])'
<1> DEFINE k == RouteOf[w]
           e == WindowEntry(k)
           ok == e.count <= MaxPerWindow
           within(a, b) == Admitted(k, a, b)'
<1> USE IntakeAssumption
<1>0. now' = now /\ now \in Nat /\ now <= MaxNow /\ Window \in Nat /\ MaxNow \in Nat
  BY DEF CheckRate, IntakeTypes
<1>1. /\ limiter'[k] = e
      /\ \A v \in Post : admittedAt'[v] # admittedAt[v] => v = w
      /\ (ok /\ admittedAt'[w] = now) \/ (~ ok /\ admittedAt' = admittedAt)
      /\ \A a, b : within(a, b) \subseteq Admitted(k, a, b) \cup {w}
      /\ \A a, b \in Int : ~ (ok /\ now \in a..b) => within(a, b) \subseteq Admitted(k, a, b)
  BY OneMoreAdmitted
<1>2. \A a, b : /\ IsFiniteSet(Admitted(k, a, b)) /\ Cardinality(Admitted(k, a, b)) \in Nat
                /\ IsFiniteSet(within(a, b)) /\ Cardinality(within(a, b)) \in Nat
  BY AdmittedIsFinite
\* What the route has let pass before, and what its window says of it.
<1>3. k \in DOMAIN limiter => WindowCounts(k) /\ RouteWithinLimit(k)
  BY DEF LimiterInv
<1>4. k \notin DOMAIN limiter => \A a, b : Admitted(k, a, b) = {}
  BY DEF LimiterInv, Admitted
<1>5. \A t \in Int : Cardinality(Admitted(k, t, t + Window - 1)) <= 2 * MaxPerWindow
  <2>1. CASE k \in DOMAIN limiter
    BY <1>3, <2>1 DEF RouteWithinLimit
  <2>2. CASE k \notin DOMAIN limiter
    <3>1. Cardinality({}) = 0 /\ 0 <= 2 * MaxPerWindow
      BY FS_EmptySet
    <3> QED BY <1>4, <2>2, <3>1
  <2> QED BY <2>1, <2>2
<1> HIDE DEF e, within
\* The three ways of WindowEntry.
<1>6. /\ e \in [start : 0..now, count : Nat \ {0}]
      /\ now < e.start + Window
      /\ \A v \in Post : RouteOf[v] = k /\ admittedAt[v] # NotYet =>
            admittedAt[v] <= now /\ admittedAt[v] < e.start + Window
      /\ Cardinality(Admitted(k, e.start, MaxNow)) <= MaxPerWindow
      /\ Cardinality(Admitted(k, e.start, MaxNow)) <= e.count - 1
      /\ \A t \in Int : e.start - Window < t =>
            Cardinality(Admitted(k, t, e.start - 1)) <= MaxPerWindow
  <2>1. CASE k \notin DOMAIN limiter
    <3>1. e = [start |-> now, count |-> 1]
      BY <2>1 DEF WindowEntry, e
    <3>2. \A v \in Post : RouteOf[v] = k => admittedAt[v] = NotYet
      BY <2>1 DEF LimiterInv
    <3>3. \A a, b : Cardinality(Admitted(k, a, b)) = 0
      BY <1>4, <2>1, FS_EmptySet
    <3>4. e.start = now /\ e.count = 1 /\ e \in [start : 0..now, count : Nat \ {0}]
      BY <1>0, <3>1
    <3> QED BY <1>0, <3>2, <3>3, <3>4
  <2>2. CASE k \in DOMAIN limiter /\ now - limiter[k].start >= Window
    <3> DEFINE s == limiter[k].start
    <3>1. e.start = now /\ e.count = 1 /\ e \in [start : 0..now, count : Nat \ {0}]
      <4>1. e = [start |-> now, count |-> 1]
        BY <2>2 DEF WindowEntry, e
      <4> QED BY <1>0, <4>1
    <3>2. s \in Nat /\ s + Window <= now
      BY <1>0, <1>3, <2>2 DEF WindowCounts
    <3>3. /\ \A v \in Post : RouteOf[v] = k /\ admittedAt[v] # NotYet =>
                admittedAt[v] <= now /\ admittedAt[v] < s + Window
          /\ Cardinality(Admitted(k, s, MaxNow)) <= MaxPerWindow
      BY <1>3, <2>2 DEF WindowCounts
    <3> HIDE DEF s
    <3>4. Admitted(k, now, MaxNow) = {}
      BY <1>0, <3>2, <3>3 DEF Admitted
    <3>5. ASSUME NEW t \in Int, now - Window < t
          PROVE  Cardinality(Admitted(k, t, now - 1)) <= MaxPerWindow
      <4>1. Admitted(k, t, now - 1) \subseteq Admitted(k, s, MaxNow)
        BY <1>0, <3>2, <3>5 DEF Admitted
      <4> QED BY <1>2, <3>3, <4>1, CountedAtMost
    <3>6. \A v \in Post : RouteOf[v] = k /\ admittedAt[v] # NotYet =>
             admittedAt[v] <= now /\ admittedAt[v] < now + Window
      BY <1>0, <3>3 DEF IntakeTypes, NotYet
    <3>7. Cardinality(Admitted(k, now, MaxNow)) = 0
      BY <3>4, FS_EmptySet
    <3> QED BY <1>0, <3>1, <3>5, <3>6, <3>7
  <2>3. CASE k \in DOMAIN limiter /\ ~ (now - limiter[k].start >= Window)
    <3>1. e = [limiter[k] EXCEPT !.count = @ + 1]
      BY <2>3 DEF WindowEntry, e
    <3>2. limiter[k] \in [start : 0..now, count : Nat \ {0}]
      BY <1>3, <2>3 DEF WindowCounts
    <3>3. /\ e.start = limiter[k].start /\ e.count = limiter[k].count + 1
          /\ e \in [start : 0..now, count : Nat \ {0}]
      BY <3>1, <3>2
    <3>4. now < e.start + Window
      BY <1>0, <2>3, <3>2, <3>3
    <3>5. e.count - 1 = limiter[k].count
      BY <3>2, <3>3
    <3> QED BY <1>3, <2>3, <3>3, <3>4, <3>5 DEF WindowCounts
  <2> QED BY <2>1, <2>2, <2>3
<1>7. PICK s \in Nat : s = e.start /\ s <= now /\ e.count \in Nat \ {0} /\ now < s + Window
  BY <1>0, <1>6
<1>8. /\ Cardinality(within(s, MaxNow)) <= MaxPerWindow
      /\ Cardinality(within(s, MaxNow)) <= e.count
  <2>1. CASE ok
    <3>1. Cardinality(within(s, MaxNow)) <= Cardinality(Admitted(k, s, MaxNow)) + 1
      BY <1>1, <1>2, CountedWithOne
    <3>2. Cardinality(Admitted(k, s, MaxNow)) <= e.count - 1
      BY <1>6, <1>7
    <3>3. Cardinality(Admitted(k, s, MaxNow)) \in Nat /\ Cardinality(within(s, MaxNow)) \in Nat
      BY <1>2
    <3> QED BY <1>7, <2>1, <3>1, <3>2, <3>3
  <2>2. CASE ~ ok
    <3>1. within(s, MaxNow) \subseteq Admitted(k, s, MaxNow)
      BY <1>1, <1>7, <2>2
    <3>2. Cardinality(within(s, MaxNow)) <= Cardinality(Admitted(k, s, MaxNow))
      BY <1>2, <3>1, CountedAtMost
    <3>3. /\ Cardinality(Admitted(k, s, MaxNow)) <= MaxPerWindow
          /\ Cardinality(Admitted(k, s, MaxNow)) <= e.count - 1
      BY <1>6, <1>7
    <3>4. Cardinality(Admitted(k, s, MaxNow)) \in Nat /\ Cardinality(within(s, MaxNow)) \in Nat
      BY <1>2
    <3> QED BY <1>7, <3>2, <3>3, <3>4
  <2> QED BY <2>1, <2>2
<1>9. ASSUME NEW t \in Int, s - Window < t
      PROVE  Cardinality(within(t, s - 1)) <= MaxPerWindow
  <2>1. within(t, s - 1) \subseteq Admitted(k, t, s - 1)
    <3>1. s - 1 \in Int /\ now \notin t..(s - 1)
      BY <1>0, <1>7
    <3> QED BY <1>1, <3>1
  <2>2. Cardinality(Admitted(k, t, s - 1)) <= MaxPerWindow
    BY <1>6, <1>7, <1>9
  <2>3. /\ Cardinality(within(t, s - 1)) <= Cardinality(Admitted(k, t, s - 1))
        /\ Cardinality(within(t, s - 1)) \in Nat /\ Cardinality(Admitted(k, t, s - 1)) \in Nat
    BY <1>2, <2>1, CountedAtMost
  <2> QED BY <2>2, <2>3
<1>10. ASSUME NEW t \in Int
       PROVE  Cardinality(within(t, t + Window - 1)) <= 2 * MaxPerWindow
  <2>1. CASE ok /\ now \in t..(t + Window - 1)
    <3>1. /\ Cardinality(Admitted(k, s, MaxNow)') <= MaxPerWindow
          /\ \A b \in Int : s - Window < b =>
                Cardinality(Admitted(k, b, s - 1)') <= MaxPerWindow
      BY <1>8, <1>9 DEF within
    <3>2. s <= now /\ now \in t..(t + Window - 1)
      BY <1>7, <2>1
    <3>3. Cardinality(Admitted(k, t, t + Window - 1)') <= 2 * MaxPerWindow
      BY <3>1, <3>2, TwoWindowsAtMost, Zenon
    <3> QED BY <3>3 DEF within
  <2>2. CASE ~ (ok /\ now \in t..(t + Window - 1))
    <3>1. within(t, t + Window - 1) \subseteq Admitted(k, t, t + Window - 1)
      <4>1. \A a, b \in Int : ~ (ok /\ now \in a..b) => within(a, b) \subseteq Admitted(k, a, b)
        BY <1>1
      <4>2. t + Window - 1 \in Int
        BY <1>0
      <4> QED BY <2>2, <4>1, <4>2, Zenon
    <3>2. /\ Cardinality(within(t, t + Window - 1)) <= Cardinality(Admitted(k, t, t + Window - 1))
          /\ Cardinality(within(t, t + Window - 1)) \in Nat
          /\ Cardinality(Admitted(k, t, t + Window - 1)) \in Nat
      BY <1>2, <3>1, CountedAtMost
    <3>3. Cardinality(Admitted(k, t, t + Window - 1)) <= 2 * MaxPerWindow
      BY <1>5
    <3> QED BY <3>2, <3>3
  <2> QED BY <2>1, <2>2
<1>11. \A v \in Post : RouteOf[v] = k /\ admittedAt'[v] # NotYet =>
          admittedAt'[v] <= now /\ admittedAt'[v] < s + Window
  BY <1>0, <1>1, <1>6, <1>7
<1>12. WindowCounts(k)'
  <2>1. /\ Cardinality(Admitted(k, s, MaxNow)') <= MaxPerWindow
        /\ Cardinality(Admitted(k, s, MaxNow)') <= e.count
        /\ \A t \in Int : s - Window < t => Cardinality(Admitted(k, t, s - 1)') <= MaxPerWindow
    BY <1>8, <1>9 DEF within
  <2>2. limiter'[k] = e /\ e.start = s /\ e \in [start : 0..now', count : Nat \ {0}] /\ now' = now
    BY <1>0, <1>1, <1>6, <1>7
  <2> QED BY <1>11, <2>1, <2>2 DEF WindowCounts, Admitted
<1>13. RouteWithinLimit(k)'
  BY <1>10 DEF RouteWithinLimit, within
<1> QED BY <1>12, <1>13

\* A call of another route, and the clock, change nothing of a window.
LEMMA StepKeepsLimiter ==
  IntakeTypes /\ LimiterInv /\ [Next]_vars => LimiterInv'
<1> SUFFICES ASSUME IntakeTypes, LimiterInv, [Next]_vars, Window > 0 PROVE LimiterInv'
  BY DEF LimiterInv
<1>1. CASE UNCHANGED <<limiter, admittedAt, now>>
  BY <1>1 DEF LimiterInv, WindowCounts, RouteWithinLimit, Admitted
<1>2. CASE Tick
  <2>1. UNCHANGED <<limiter, admittedAt>> /\ now' = now + 1 /\ now \in Nat
    BY <1>2, IntakeAssumption DEF Tick, IntakeTypes
  <2>2. \A key, a, b : Admitted(key, a, b)' = Admitted(key, a, b)
    BY <2>1 DEF Admitted
  <2>3. ASSUME NEW key \in DOMAIN limiter PROVE WindowCounts(key)'
    <3>1. WindowCounts(key)
      BY DEF LimiterInv
    <3>2. limiter[key] \in [start : 0..now', count : Nat \ {0}]
      BY <2>1, <3>1 DEF WindowCounts
    <3>3. \A v \in Post : RouteOf[v] = key /\ admittedAt[v] # NotYet =>
             admittedAt[v] <= now' /\ admittedAt[v] < limiter[key].start + Window
      BY <2>1, <3>1, IntakeAssumption DEF WindowCounts, IntakeTypes, NotYet
    <3> QED BY <2>1, <2>2, <3>1, <3>2, <3>3 DEF WindowCounts
  <2> QED BY <2>1, <2>2, <2>3 DEF LimiterInv, RouteWithinLimit
<1>3. ASSUME NEW w \in Post, CheckRate(w) PROVE LimiterInv'
  <2> DEFINE k == RouteOf[w]
  <2>1. /\ now' = now /\ DOMAIN limiter' = DOMAIN limiter \cup {k}
        /\ \A j \in DOMAIN limiter : j # k => limiter'[j] = limiter[j]
        /\ \A v \in Post : admittedAt'[v] # admittedAt[v] => v = w
        /\ \A j : j # k => \A a, b : Admitted(j, a, b)' = Admitted(j, a, b)
    BY <1>3, OneMoreAdmitted DEF CheckRate
  <2>2. WindowCounts(k)' /\ RouteWithinLimit(k)'
    BY <1>3, StepKeepsTypes, CheckKeepsItsWindow
  <2>3. ASSUME NEW j \in DOMAIN limiter, j # k
        PROVE  WindowCounts(j)' /\ RouteWithinLimit(j)'
    <3>1. WindowCounts(j) /\ RouteWithinLimit(j)
      BY DEF LimiterInv
    <3>2. \A v \in Post : RouteOf[v] = j => admittedAt'[v] = admittedAt[v]
      BY <2>1, <2>3
    <3>3. \A a, b : Admitted(j, a, b)' = Admitted(j, a, b)
      BY <2>1, <2>3
    <3>4. WindowCounts(j)'
      BY <2>1, <2>3, <3>1, <3>2, <3>3 DEF WindowCounts
    <3>5. RouteWithinLimit(j)'
      BY <3>1, <3>3 DEF RouteWithinLimit
    <3> QED BY <3>4, <3>5
  <2>4. \A v \in Post : admittedAt'[v] # NotYet => RouteOf[v] \in DOMAIN limiter'
    BY <2>1 DEF LimiterInv
  <2> QED BY <2>1, <2>2, <2>3, <2>4 DEF LimiterInv
<1>4. UNCHANGED <<limiter, admittedAt, now>> \/ Tick \/ \E w \in Post : CheckRate(w)
  BY OthersLeaveIntake DEF PostStep, Arrive, Verify, Dedup, Enqueue
<1> QED BY <1>1, <1>2, <1>3, <1>4

-------------------------------------------------------------------------
LEMMA IntakeInvariant == Spec => []IntakeInv
<1>1. IntakeInv /\ [Next]_vars => IntakeInv'
  BY StepKeepsTypes, StepKeepsIds, StepKeepsLimiter DEF IntakeInv
<1> QED BY <1>1, InitIntake, PTL DEF Spec

\* Two posts that carry one event id are never both accepted, however many
\* there are and wherever they stand between the dedup and the queue.
THEOREM IdsAreAcceptedOnce == Spec => []OneAcceptPerId
<1>1. IntakeInv => OneAcceptPerId
  BY DEF IntakeInv, IntakeTypes, IdsAreClaimedOnce, OneAcceptPerId
<1> QED BY <1>1, IntakeInvariant, PTL

\* In any stretch of a window's length a route passes at most twice its limit,
\* for any limit, any window (one of no length meets no time at all) and any
\* number of posts that check at once.
THEOREM RateIsBounded == Spec => []AtMostTwiceTheLimit
<1>1. IntakeInv => AtMostTwiceTheLimit
  <2> SUFFICES ASSUME IntakeInv, NEW key \in Routes, NEW t \in 0..MaxNow
               PROVE  Cardinality(Admitted(key, t, t + Window - 1)) <= 2 * MaxPerWindow
    BY DEF AtMostTwiceTheLimit, Admitted
  <2> USE IntakeAssumption
  <2>1. CASE Window = 0 \/ key \notin DOMAIN limiter
    <3>1. Admitted(key, t, t + Window - 1) = {}
      BY <2>1 DEF Admitted, IntakeInv, LimiterInv
    <3>2. Cardinality({}) = 0 /\ 0 <= 2 * MaxPerWindow
      BY FS_EmptySet
    <3> QED BY <3>1, <3>2
  <2>2. CASE Window > 0 /\ key \in DOMAIN limiter
    BY <2>2 DEF IntakeInv, LimiterInv, RouteWithinLimit
  <2> QED BY <2>1, <2>2
<1> QED BY <1>1, IntakeInvariant, PTL
=========================================================================
