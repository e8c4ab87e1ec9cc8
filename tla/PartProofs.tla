--------------------------- MODULE PartProofs ---------------------------
(***************************************************************************)
(* What holds of the parts for any entries, calls, manifests, lists of     *)
(* tasks, listeners, answers and sessions: the resources of a context, the *)
(* plugins to load, the task DAG, the deferred events, the streamed        *)
(* answers, the compaction of a session.                                   *)
(***************************************************************************)
EXTENDS Disposal, PluginRegistry, TaskDag, EmitQueue, ModelCalls, Compaction,
        FiniteSetTheorems, SequenceTheorems, WellFoundedInduction, TLAPS

\* Induction, as the provers can use it: a set of numbers has a smallest.
LEMMA HasSmallest ==
  ASSUME NEW S \in SUBSET Nat, S # {}
  PROVE  \E i \in S : \A j \in S : i <= j
<1> DEFINE Less == OpToRel(<, Nat)
<1>1. IsWellFoundedOn(Less, Nat)
  BY NatLessThanWellFounded
<1>2. \A x, y \in Nat : <<y, x>> \in Less <=> y < x
  BY DEF OpToRel
<1> HIDE DEF Less
<1>3. PICK x \in S : \A y \in S : ~ (<<y, x>> \in Less)
  BY <1>1, WFMin
<1>4. ASSUME NEW y \in S PROVE x <= y
  <2>1. x \in Nat /\ y \in Nat
    OBVIOUS
  <2>2. ~ (y < x)
    BY <1>2, <1>3, <2>1
  <2> QED BY <2>1, <2>2
<1> QED BY <1>4

\* A list that grows, and one whose last is taken.
LEMMA Grows ==
  ASSUME NEW S, NEW s \in Seq(S), NEW e \in S
  PROVE  /\ Append(s, e) \in Seq(S) /\ Len(s) \in Nat /\ Len(Append(s, e)) = Len(s) + 1
         /\ Append(s, e)[Len(s) + 1] = e
         /\ \A i \in 1..Len(s) : Append(s, e)[i] = s[i]
         /\ DOMAIN s = 1..Len(s) /\ DOMAIN Append(s, e) = 1..(Len(s) + 1)
BY AppendProperties, LenProperties

LEMMA Shrinks ==
  ASSUME NEW S, NEW s \in Seq(S), s # << >>
  PROVE  /\ Front(s) \in Seq(S) /\ Last(s) \in S /\ Len(s) \in Nat /\ Len(s) >= 1
         /\ Len(Front(s)) = Len(s) - 1 /\ Last(s) = s[Len(s)]
         /\ \A i \in 1..(Len(s) - 1) : Front(s)[i] = s[i]
<1>1. Len(s) \in Nat /\ Len(s) >= 1 /\ \A i \in 1..Len(s) : s[i] \in S
  BY LenProperties, EmptySeq
<1>2. /\ SubSeq(s, 1, Len(s) - 1) \in Seq(S) /\ Len(SubSeq(s, 1, Len(s) - 1)) = Len(s) - 1
      /\ \A i \in 1..(Len(s) - 1) : SubSeq(s, 1, Len(s) - 1)[i] = s[i]
  <2>1. 1 \in Int /\ Len(s) - 1 \in Int /\ \A i \in 1..(Len(s) - 1) : s[i] \in S
    BY <1>1
  <2>2. /\ SubSeq(s, 1, Len(s) - 1) \in Seq(S)
        /\ Len(SubSeq(s, 1, Len(s) - 1)) = IF 1 <= Len(s) - 1 THEN (Len(s) - 1) - 1 + 1 ELSE 0
        /\ \A i \in 1..((Len(s) - 1) - 1 + 1) : SubSeq(s, 1, Len(s) - 1)[i] = s[1 + i - 1]
    BY <2>1, SubSeqProperties
  <2>3. ASSUME NEW i \in 1..(Len(s) - 1) PROVE SubSeq(s, 1, Len(s) - 1)[i] = s[i]
    <3>1. i \in 1..((Len(s) - 1) - 1 + 1) /\ 1 + i - 1 = i
      BY <1>1
    <3> QED BY <2>2, <3>1
  <2>4. (IF 1 <= Len(s) - 1 THEN (Len(s) - 1) - 1 + 1 ELSE 0) = Len(s) - 1
    <3>1. \A n \in Nat : n >= 1 => (IF 1 <= n - 1 THEN (n - 1) - 1 + 1 ELSE 0) = n - 1
      OBVIOUS
    <3> QED BY <1>1, <3>1
  <2> QED BY <2>2, <2>3, <2>4
<1> QED BY <1>1, <1>2 DEF Front, Last

-----------------------------------------------------------------------------
(* Resources that are disposed of one by one.                              *)

Is(s, op, e, i) == i \in 1..Len(s) /\ s[i].op = op /\ s[i].entry = e

Failures(s, d) == {i \in DOMAIN s : s[i].by = d /\ s[i].outcome = "error"}

LogLine == [op : {"add", "release"}, entry : Entry, by : Disposer \cup {NoEntry},
            outcome : {"ok", "error", "panic"}]

DisposalTypes ==
  /\ entries \in Seq(Entry)
  /\ log \in Seq(LogLine)
  /\ firstErr \in [Disposer -> Entry \cup {NoEntry}]
  /\ disposal \in [Disposer -> {"idle", "claimed", "refused", "popping", "panicked", "done"}]

\* The list holds what was added and not released, in the order of adding.
ListTellsTheLog ==
  /\ \A op \in {"add", "release"}, e \in Entry : \A i, j \in Nat : Is(log, op, e, i) /\ Is(log, op, e, j) => i = j
  /\ \A e \in Entry : Contains(entries, e) <=>
        (\E i \in Nat : Is(log, "add", e, i)) /\ ~ \E i \in Nat : Is(log, "release", e, i)
  /\ \A k, l \in 1..Len(entries), i, j \in Nat :
        k < l /\ Is(log, "add", entries[k], i) /\ Is(log, "add", entries[l], j) => i < j

\* Whatever was added after an entry and before its release is gone before.
LaterGoFirst ==
  /\ \A e \in Entry, k \in Nat : Is(log, "release", e, k) => \E i \in Nat : Is(log, "add", e, i)
  /\ \A a, b \in Entry, i, j, k \in Nat :
        Is(log, "add", a, i) /\ Is(log, "add", b, j) /\ Is(log, "release", a, k) /\ i < j /\ j < k
           => \E l \in Nat : l < k /\ Is(log, "release", b, l)

ErrorsAreKept ==
  \A d \in Disposer :
     \/ Failures(log, d) = {} /\ firstErr[d] = NoEntry
     \/ \E i \in Failures(log, d) : (\A j \in Failures(log, d) : i <= j) /\ firstErr[d] = log[i].entry

LateAreLeft == CtxDisposed => \A k \in 1..Len(entries) : entries[k] \in late

DisposalInv == DisposalTypes /\ ListTellsTheLog /\ LaterGoFirst /\ ErrorsAreKept /\ LateAreLeft

LEMMA DisposalInitInv == DisposalInit => DisposalInv
<1> SUFFICES ASSUME DisposalInit PROVE DisposalInv
  OBVIOUS
<1>1. entries = << >> /\ log = << >> /\ Len(entries) = 0 /\ Len(log) = 0 /\ DOMAIN log = {}
  BY EmptySeq DEF DisposalInit
<1>2. DisposalTypes
  BY EmptySeq DEF DisposalInit, DisposalTypes
<1>3. \A op, e, i : ~ Is(log, op, e, i)
  BY <1>1 DEF Is
<1>4. ListTellsTheLog /\ LaterGoFirst /\ LateAreLeft
  BY <1>1, <1>3 DEF ListTellsTheLog, LaterGoFirst, LateAreLeft, Contains
<1>5. ErrorsAreKept
  BY <1>1 DEF ErrorsAreKept, Failures, DisposalInit
<1> QED BY <1>2, <1>4, <1>5 DEF DisposalInv

\* A line more in the log.
LEMMA LogGrows ==
  ASSUME DisposalTypes, NEW op \in {"add", "release"}, NEW e \in Entry,
         NEW d \in Disposer \cup {NoEntry}, NEW o \in {"ok", "error", "panic"},
         log' = Append(log, [op |-> op, entry |-> e, by |-> d, outcome |-> o])
  PROVE  /\ Len(log) \in Nat /\ Len(log') = Len(log) + 1
         /\ log' \in Seq(LogLine)
         /\ \A p, f, i : Is(log', p, f, i) <=> Is(log, p, f, i) \/ (i = Len(log) + 1 /\ p = op /\ f = e)
         /\ \A p, f, i : Is(log, p, f, i) => i \in Nat /\ i <= Len(log)
         /\ \A c \in Disposer : Failures(log', c) = IF c = d /\ o = "error" THEN Failures(log, c) \cup {Len(log) + 1}
                                             ELSE Failures(log, c)
         /\ \A c \in Disposer : \A i \in Failures(log, c) : log'[i] = log[i] /\ i \in Nat /\ i <= Len(log)
         /\ log'[Len(log) + 1].entry = e
<1>1. PICK r \in LogLine : r = [op |-> op, entry |-> e, by |-> d, outcome |-> o]
  BY DEF LogLine
<1>2. r.op = op /\ r.entry = e /\ r.by = d /\ r.outcome = o
  BY <1>1
<1>3. log \in Seq(LogLine) /\ log' = Append(log, r)
  BY <1>1 DEF DisposalTypes
<1>7. PICK n \in Nat : n = Len(log)
  BY <1>3, LenProperties
<1>4. /\ log' \in Seq(LogLine) /\ Len(log') = n + 1 /\ log'[n + 1] = r
      /\ \A i \in 1..n : log'[i] = log[i]
      /\ DOMAIN log = 1..n /\ DOMAIN log' = 1..(n + 1)
  BY <1>3, <1>7, Grows
<1>5. \A i : i \in 1..(n + 1) <=> i \in 1..n \/ i = n + 1
  BY <1>4
<1>6. \A i \in 1..n : i \in Nat /\ i <= n
  BY <1>4
<1>8. ASSUME NEW p, NEW f, NEW i
      PROVE  Is(log', p, f, i) <=> Is(log, p, f, i) \/ (i = n + 1 /\ p = op /\ f = e)
  <2>1. n + 1 \notin 1..n
    BY <1>4
  <2> QED BY <1>2, <1>4, <1>5, <1>7, <2>1 DEF Is
<1>9. \A p, f, i : Is(log, p, f, i) => i \in Nat /\ i <= n
  BY <1>6, <1>7 DEF Is
<1>10. ASSUME NEW c \in Disposer
       PROVE  /\ Failures(log', c) = IF c = d /\ o = "error" THEN Failures(log, c) \cup {n + 1} ELSE Failures(log, c)
              /\ \A i \in Failures(log, c) : log'[i] = log[i] /\ i \in Nat /\ i <= n
  <2>1. \A i : i \in Failures(log, c) <=> i \in 1..n /\ log[i].by = c /\ log[i].outcome = "error"
    BY <1>4 DEF Failures
  <2>2. \A i : i \in Failures(log', c) <=> i \in 1..(n + 1) /\ log'[i].by = c /\ log'[i].outcome = "error"
    BY <1>4 DEF Failures
  <2>3. \A i : i \in Failures(log', c) <=> i \in Failures(log, c) \/ (i = n + 1 /\ c = d /\ o = "error")
    BY <1>2, <1>4, <1>5, <2>1, <2>2
  <2> QED BY <1>4, <1>6, <2>1, <2>3
<1> QED BY <1>2, <1>4, <1>7, <1>8, <1>9, <1>10

LEMMA AddKeepsDisposal == ASSUME DisposalInv, NEW e \in Entry, OnDispose(e) PROVE DisposalInv'
<1> DEFINE n == Len(log) m == Len(entries)
<1>1. /\ e \notin Logged("add") /\ entries' = Append(entries, e)
      /\ log' = Append(log, [op |-> "add", entry |-> e, by |-> NoEntry, outcome |-> "ok"])
      /\ late' = IF CtxDisposed THEN late \cup {e} ELSE late
      /\ UNCHANGED <<firstErr, disposal>>
  BY DEF OnDispose
<1>2. /\ n \in Nat
      /\ log' \in Seq(LogLine)
      /\ \A p, f, i : Is(log', p, f, i) <=> Is(log, p, f, i) \/ (i = n + 1 /\ p = "add" /\ f = e)
      /\ \A p, f, i : Is(log, p, f, i) => i \in Nat /\ i <= n
      /\ \A c \in Disposer : Failures(log', c) = Failures(log, c)
      /\ \A c \in Disposer : \A i \in Failures(log, c) : log'[i] = log[i]
  BY <1>1, LogGrows DEF DisposalInv
<1>3. \A i : ~ Is(log, "add", e, i)
  BY <1>1 DEF Is, Logged, DisposalInv, DisposalTypes
<1>4. /\ entries' \in Seq(Entry) /\ m \in Nat /\ Len(entries') = m + 1 /\ entries'[m + 1] = e
      /\ \A k \in 1..m : entries'[k] = entries[k]
      /\ \A k : k \in 1..(m + 1) <=> k \in 1..m \/ k = m + 1
  <2>1. /\ entries' \in Seq(Entry) /\ m \in Nat /\ Len(entries') = m + 1 /\ entries'[m + 1] = e
        /\ \A k \in 1..m : entries'[k] = entries[k]
    BY <1>1, Grows DEF DisposalInv, DisposalTypes
  <2> QED BY <2>1
<1> HIDE DEF n
<1>5. DisposalTypes'
  BY <1>1, <1>2, <1>4 DEF DisposalInv, DisposalTypes
<1>6. \A f : Contains(entries', f) <=> Contains(entries, f) \/ f = e
  BY <1>4 DEF Contains
<1>7. ListTellsTheLog'
  <2>1. ASSUME NEW p \in {"add", "release"}, NEW f \in Entry, NEW i \in Nat, NEW j \in Nat,
               Is(log', p, f, i), Is(log', p, f, j)
        PROVE  i = j
    BY <1>2, <1>3, <2>1 DEF DisposalInv, ListTellsTheLog
  <2>2. ASSUME NEW f \in Entry
        PROVE  Contains(entries, f)' <=>
                  (\E i \in Nat : Is(log', "add", f, i)) /\ ~ \E i \in Nat : Is(log', "release", f, i)
    <3>1. \A i \in Nat : Is(log', "release", f, i) <=> Is(log, "release", f, i)
      BY <1>2
    <3>2. f # e => \A i \in Nat : Is(log', "add", f, i) <=> Is(log, "add", f, i)
      BY <1>2
    <3>3. Is(log', "add", e, n + 1) /\ n + 1 \in Nat
      BY <1>2
    <3>4. \A i \in Nat : ~ Is(log, "release", e, i)
      BY <1>3 DEF DisposalInv, LaterGoFirst
    <3> QED BY <1>6, <3>1, <3>2, <3>3, <3>4 DEF DisposalInv, ListTellsTheLog
  <2>3. ASSUME NEW k \in 1..(m + 1), NEW l \in 1..(m + 1), NEW i \in Nat, NEW j \in Nat, k < l,
               Is(log', "add", entries'[k], i), Is(log', "add", entries'[l], j)
        PROVE  i < j
    <3>1. k \in 1..m /\ entries'[k] = entries[k]
      BY <1>4, <2>3
    <3>2. Contains(entries, entries[k]) /\ ~ Contains(entries, e)
      BY <1>3, <3>1 DEF DisposalInv, ListTellsTheLog, Contains
    <3>3. entries[k] # e /\ Is(log, "add", entries[k], i)
      BY <1>2, <2>3, <3>1, <3>2
    <3>4. CASE l = m + 1
      BY <1>2, <1>3, <1>4, <2>3, <3>3, <3>4
    <3>5. CASE l # m + 1
      <4>1. l \in 1..m /\ entries'[l] = entries[l]
        BY <1>4, <3>5
      <4>2. Contains(entries, entries[l])
        BY <4>1 DEF Contains
      <4>3. Is(log, "add", entries[l], j)
        BY <1>2, <2>3, <3>2, <4>1, <4>2
      <4> QED BY <2>3, <3>1, <3>3, <4>1, <4>3 DEF DisposalInv, ListTellsTheLog
    <3> QED BY <3>4, <3>5
  <2> QED BY <1>4, <2>1, <2>2, <2>3 DEF ListTellsTheLog
<1>8. LaterGoFirst'
  <2>1. ASSUME NEW f \in Entry, NEW k \in Nat, Is(log', "release", f, k) PROVE \E i \in Nat : Is(log', "add", f, i)
    BY <1>2, <2>1 DEF DisposalInv, LaterGoFirst
  <2>2. ASSUME NEW a \in Entry, NEW b \in Entry, NEW i \in Nat, NEW j \in Nat, NEW k \in Nat,
               Is(log', "add", a, i), Is(log', "add", b, j), Is(log', "release", a, k), i < j, j < k
        PROVE  \E l \in Nat : l < k /\ Is(log', "release", b, l)
    <3>1. Is(log, "release", a, k) /\ k <= n
      BY <1>2, <2>2
    <3>2. Is(log, "add", a, i) /\ Is(log, "add", b, j)
      BY <1>2, <2>2, <3>1
    <3>3. PICK l \in Nat : l < k /\ Is(log, "release", b, l)
      BY <2>2, <3>1, <3>2 DEF DisposalInv, LaterGoFirst
    <3> QED BY <1>2, <3>3
  <2> QED BY <2>1, <2>2 DEF LaterGoFirst
<1>9. ErrorsAreKept'
  BY <1>1, <1>2 DEF DisposalInv, ErrorsAreKept
<1>10. LateAreLeft'
  <2>1. CtxDisposed' = CtxDisposed
    BY <1>1 DEF CtxDisposed
  <2> QED BY <1>1, <1>4, <2>1 DEF DisposalInv, LateAreLeft
<1> QED BY <1>5, <1>7, <1>8, <1>9, <1>10 DEF DisposalInv

LEMMA ReleaseKeepsDisposal ==
  ASSUME DisposalInv, NEW d \in Disposer, NEW o \in {"ok", "error", "panic"}, Release(d, o), EntryAssumption
  PROVE  DisposalInv'
<1>1. /\ disposal[d] = "popping" /\ entries # << >> /\ entries' = Front(entries)
      /\ log' = Append(log, [op |-> "release", entry |-> Last(entries), by |-> d, outcome |-> o])
      /\ late' = late
      /\ o # "error" => firstErr' = firstErr
      /\ o = "error" => firstErr' = [firstErr EXCEPT ![d] = IF @ = NoEntry THEN Last(entries) ELSE @]
      /\ o # "panic" => disposal' = disposal
      /\ o = "panic" => disposal' = [disposal EXCEPT ![d] = "panicked"]
  BY DEF Release, TakeNext, KeepErr
<1>2. entries \in Seq(Entry)
  BY DEF DisposalInv, DisposalTypes
<1>3. PICK e \in Entry : e = Last(entries)
  BY <1>1, <1>2, Shrinks
<1>4. PICK n \in Nat : n = Len(log)
  BY LenProperties DEF DisposalInv, DisposalTypes
<1>5. PICK m \in Nat : m = Len(entries)
  BY <1>2, LenProperties
<1>6. /\ entries' \in Seq(Entry) /\ m >= 1 /\ Len(entries') = m - 1 /\ entries[m] = e
      /\ \A k \in 1..(m - 1) : entries'[k] = entries[k]
  BY <1>1, <1>2, <1>3, <1>5, Shrinks
<1>7. /\ log' \in Seq(LogLine)
      /\ \A p, f, i : Is(log', p, f, i) <=> Is(log, p, f, i) \/ (i = n + 1 /\ p = "release" /\ f = e)
      /\ \A p, f, i : Is(log, p, f, i) => i \in Nat /\ i <= n
      /\ \A c \in Disposer : Failures(log', c) = IF c = d /\ o = "error" THEN Failures(log, c) \cup {n + 1}
                                               ELSE Failures(log, c)
      /\ \A c \in Disposer : \A i \in Failures(log, c) : log'[i] = log[i] /\ i \in Nat /\ i <= n
      /\ log'[n + 1].entry = e
  <2>1. d \in Disposer \cup {NoEntry} /\ "release" \in {"add", "release"} /\ DisposalTypes
        /\ log' = Append(log, [op |-> "release", entry |-> e, by |-> d, outcome |-> o])
    BY <1>1, <1>3 DEF DisposalInv
  <2>2. /\ log' \in Seq(LogLine)
        /\ \A p, f, i : Is(log', p, f, i) <=> Is(log, p, f, i) \/ (i = Len(log) + 1 /\ p = "release" /\ f = e)
        /\ \A p, f, i : Is(log, p, f, i) => i \in Nat /\ i <= Len(log)
        /\ \A c \in Disposer : Failures(log', c) = IF c = d /\ o = "error" THEN Failures(log, c) \cup {Len(log) + 1}
                                                 ELSE Failures(log, c)
        /\ \A c \in Disposer : \A i \in Failures(log, c) : log'[i] = log[i] /\ i \in Nat /\ i <= Len(log)
        /\ log'[Len(log) + 1].entry = e
    BY <2>1, LogGrows
  <2> QED BY <1>4, <2>2
<1>8. \A k : k \in 1..m <=> k \in 1..(m - 1) \/ k = m
  BY <1>6
<1>9. Contains(entries, e)
  BY <1>5, <1>6, <1>8 DEF Contains
<1>10. PICK x \in Nat : Is(log, "add", e, x) /\ \A i \in Nat : ~ Is(log, "release", e, i)
  BY <1>9 DEF DisposalInv, ListTellsTheLog
<1>11. \A k \in 1..(m - 1) : \A j \in Nat : Is(log, "add", entries[k], j) => j < x
  <2>1. \A k \in 1..(m - 1) : k \in 1..m /\ k < m
    BY <1>6
  <2> QED BY <1>5, <1>6, <1>8, <1>10, <2>1 DEF DisposalInv, ListTellsTheLog
<1>12. \A k \in 1..(m - 1) : entries[k] # e
  BY <1>10, <1>11
<1>13. \A f : Contains(entries', f) <=> Contains(entries, f) /\ f # e
  BY <1>5, <1>6, <1>8, <1>12 DEF Contains
<1>14. DisposalTypes'
  <2>1. firstErr' \in [Disposer -> Entry \cup {NoEntry}]
    BY <1>1, <1>3 DEF DisposalInv, DisposalTypes
  <2>2. disposal' \in [Disposer -> {"idle", "claimed", "refused", "popping", "panicked", "done"}]
    BY <1>1 DEF DisposalInv, DisposalTypes
  <2> QED BY <1>6, <1>7, <2>1, <2>2 DEF DisposalTypes
<1>15. ListTellsTheLog'
  <2>1. ASSUME NEW p \in {"add", "release"}, NEW f \in Entry, NEW i \in Nat, NEW j \in Nat,
               Is(log', p, f, i), Is(log', p, f, j)
        PROVE  i = j
    BY <1>7, <1>10, <2>1 DEF DisposalInv, ListTellsTheLog
  <2>2. ASSUME NEW f \in Entry
        PROVE  Contains(entries', f) <=>
                  (\E i \in Nat : Is(log', "add", f, i)) /\ ~ \E i \in Nat : Is(log', "release", f, i)
    <3>1. \A i \in Nat : Is(log', "add", f, i) <=> Is(log, "add", f, i)
      BY <1>7
    <3>2. f # e => \A i \in Nat : Is(log', "release", f, i) <=> Is(log, "release", f, i)
      BY <1>7
    <3>3. Is(log', "release", e, n + 1) /\ n + 1 \in Nat
      BY <1>7
    <3>4. Contains(entries, f) <=>
                  (\E i \in Nat : Is(log, "add", f, i)) /\ ~ \E i \in Nat : Is(log, "release", f, i)
      BY DEF DisposalInv, ListTellsTheLog
    <3> QED BY <1>13, <3>1, <3>2, <3>3, <3>4
  <2>3. ASSUME NEW k \in 1..(m - 1), NEW l \in 1..(m - 1), NEW i \in Nat, NEW j \in Nat, k < l,
               Is(log', "add", entries'[k], i), Is(log', "add", entries'[l], j)
        PROVE  i < j
    <3>1. /\ k \in 1..m /\ l \in 1..m
          /\ Is(log, "add", entries[k], i) /\ Is(log, "add", entries[l], j)
      BY <1>6, <1>7, <1>8, <2>3
    <3> QED BY <1>5, <2>3, <3>1 DEF DisposalInv, ListTellsTheLog
  <2> QED BY <1>6, <2>1, <2>2, <2>3 DEF ListTellsTheLog
<1>16. LaterGoFirst'
  <2>1. ASSUME NEW f \in Entry, NEW k \in Nat, Is(log', "release", f, k)
        PROVE  \E i \in Nat : Is(log', "add", f, i)
    BY <1>7, <1>10, <2>1 DEF DisposalInv, LaterGoFirst
  <2>2. ASSUME NEW a \in Entry, NEW b \in Entry, NEW i \in Nat, NEW j \in Nat, NEW k \in Nat,
               Is(log', "add", a, i), Is(log', "add", b, j), Is(log', "release", a, k), i < j, j < k
        PROVE  \E l \in Nat : l < k /\ Is(log', "release", b, l)
    <3>1. Is(log, "add", a, i) /\ Is(log, "add", b, j)
      BY <1>7, <2>2
    <3>2. CASE Is(log, "release", a, k)
      <4>1. PICK l \in Nat : l < k /\ Is(log, "release", b, l)
        BY <2>2, <3>1, <3>2 DEF DisposalInv, LaterGoFirst
      <4> QED BY <1>7, <4>1
    <3>3. CASE k = n + 1 /\ a = e
      <4>1. i = x
        BY <1>10, <3>1, <3>3 DEF DisposalInv, ListTellsTheLog
      <4>2. ~ Contains(entries, b)
        <5>1. SUFFICES ASSUME Contains(entries, b) PROVE FALSE
          OBVIOUS
        <5>2. PICK l \in 1..m : entries[l] = b
          BY <1>5, <5>1 DEF Contains
        <5>3. CASE l = m
          <6>1. j = x
            BY <1>6, <1>10, <3>1, <5>2, <5>3 DEF DisposalInv, ListTellsTheLog
          <6> QED BY <2>2, <4>1, <6>1
        <5>4. CASE l \in 1..(m - 1)
          BY <1>11, <2>2, <3>1, <4>1, <5>2, <5>4
        <5> QED BY <1>8, <5>3, <5>4
      <4>3. PICK l \in Nat : Is(log, "release", b, l)
        BY <3>1, <4>2 DEF DisposalInv, ListTellsTheLog
      <4>4. l < k /\ Is(log', "release", b, l)
        BY <1>7, <3>3, <4>3
      <4> QED BY <4>4
    <3> QED BY <1>7, <2>2, <3>2, <3>3
  <2> QED BY <2>1, <2>2 DEF LaterGoFirst
<1>17. ErrorsAreKept'
  <2> SUFFICES ASSUME NEW c \in Disposer
               PROVE  \/ Failures(log', c) = {} /\ firstErr'[c] = NoEntry
                      \/ \E i \in Failures(log', c) : /\ \A j \in Failures(log', c) : i <= j
                                                    /\ firstErr'[c] = log'[i].entry
    BY DEF ErrorsAreKept
  <2>1. \/ Failures(log, c) = {} /\ firstErr[c] = NoEntry
        \/ \E i \in Failures(log, c) : (\A j \in Failures(log, c) : i <= j) /\ firstErr[c] = log[i].entry
    BY DEF DisposalInv, ErrorsAreKept
  <2>2. CASE ~ (c = d /\ o = "error")
    <3>1. Failures(log', c) = Failures(log, c) /\ firstErr'[c] = firstErr[c]
      BY <1>1, <1>7, <2>2 DEF DisposalInv, DisposalTypes
    <3> QED BY <1>7, <2>1, <3>1
  <2>3. CASE c = d /\ o = "error"
    <3>1. /\ Failures(log', c) = Failures(log, c) \cup {n + 1}
          /\ firstErr'[c] = IF firstErr[c] = NoEntry THEN e ELSE firstErr[c]
      BY <1>1, <1>3, <1>7, <2>3 DEF DisposalInv, DisposalTypes
    <3>2. CASE Failures(log, c) = {} /\ firstErr[c] = NoEntry
      BY <1>7, <3>1, <3>2
    <3>3. ASSUME NEW i \in Failures(log, c), \A j \in Failures(log, c) : i <= j, firstErr[c] = log[i].entry
          PROVE  /\ \A j \in Failures(log', c) : i <= j
                 /\ i \in Failures(log', c) /\ firstErr'[c] = log'[i].entry
      <4>1. log[i].entry \in Entry
        <5>1. i \in DOMAIN log
          BY DEF Failures
        <5>2. i \in 1..Len(log)
          BY <5>1, LenProperties DEF DisposalInv, DisposalTypes
        <5>3. log[i] \in LogLine
          BY <5>2, ElementOfSeq DEF DisposalInv, DisposalTypes
        <5> QED BY <5>3 DEF LogLine
      <4>2. firstErr[c] # NoEntry
        BY <3>3, <4>1 DEF EntryAssumption
      <4>3. i \in Nat /\ i <= n + 1 /\ log'[i] = log[i]
        BY <1>7
      <4> QED BY <3>1, <3>3, <4>2, <4>3
    <3> QED BY <2>1, <3>2, <3>3
  <2> QED BY <2>2, <2>3
<1>18. LateAreLeft'
  <2>1. CtxDisposed' => CtxDisposed
    BY <1>1 DEF CtxDisposed, DisposalInv, DisposalTypes
  <2>2. \A k \in 1..(m - 1) : k \in 1..Len(entries) /\ entries'[k] = entries[k]
    BY <1>5, <1>6, <1>8
  <2> QED BY <1>1, <1>6, <2>1, <2>2 DEF DisposalInv, LateAreLeft
<1> QED BY <1>14, <1>15, <1>16, <1>17, <1>18 DEF DisposalInv

LEMMA DisposalKeeps ==
  ASSUME DisposalInv, DisposalNext \/ UNCHANGED disposalVars, EntryAssumption PROVE DisposalInv'
<1>1. CASE UNCHANGED disposalVars
  <2>1. UNCHANGED CtxDisposed
    BY <1>1 DEF disposalVars, CtxDisposed
  <2>2. UNCHANGED <<entries, firstErr, disposal, log, late>>
    BY <1>1 DEF disposalVars
  <2>3. DisposalTypes'
    BY <2>2 DEF DisposalInv, DisposalTypes
  <2>4. ListTellsTheLog' /\ LaterGoFirst'
    BY <2>2 DEF DisposalInv, ListTellsTheLog, LaterGoFirst
  <2>5. ErrorsAreKept' /\ LateAreLeft'
    BY <2>1, <2>2 DEF DisposalInv, ErrorsAreKept, LateAreLeft
  <2> QED BY <2>3, <2>4, <2>5 DEF DisposalInv
<1>2. CASE \E e \in Entry : OnDispose(e)
  BY <1>2, AddKeepsDisposal
<1>3. CASE \E d \in Disposer, o \in {"ok", "error", "panic"} : Release(d, o)
  BY <1>3, ReleaseKeepsDisposal
<1>4. ASSUME NEW d \in Disposer, Claim(d) \/ LockList(d) \/ DisposeReturns(d) PROVE DisposalInv'
  <2>1. UNCHANGED <<entries, firstErr, log, late>>
    BY <1>4 DEF Claim, LockList, DisposeReturns
  <2>2. disposal' \in [Disposer -> {"idle", "claimed", "refused", "popping", "panicked", "done"}]
    BY <1>4 DEF Claim, LockList, DisposeReturns, DisposalInv, DisposalTypes
  <2>3. (CtxDisposed' => CtxDisposed) \/ entries = << >>
    <3>1. CASE entries # << >>
      BY <1>4, <3>1 DEF CtxDisposed, Claim, LockList, DisposeReturns, DisposalInv, DisposalTypes
    <3> QED BY <3>1
  <2>4. LateAreLeft'
    BY <2>1, <2>3, EmptySeq DEF DisposalInv, LateAreLeft
  <2>5. DisposalTypes' /\ ListTellsTheLog' /\ LaterGoFirst' /\ ErrorsAreKept'
    <3>1. DisposalTypes'
      BY <2>1, <2>2 DEF DisposalInv, DisposalTypes
    <3>2. ListTellsTheLog' /\ LaterGoFirst'
      BY <2>1 DEF DisposalInv, ListTellsTheLog, LaterGoFirst
    <3>3. ErrorsAreKept'
      BY <2>1 DEF DisposalInv, ErrorsAreKept
    <3> QED BY <3>1, <3>2, <3>3
  <2> QED BY <2>4, <2>5 DEF DisposalInv
<1> QED BY <1>1, <1>2, <1>3, <1>4 DEF DisposalNext

LEMMA DisposalIsAStack == ASSUME DisposalInv PROVE DisposesLikeAStack
<1>1. PICK n \in Nat : n = Len(log) /\ DOMAIN log = 1..n
  BY LenProperties DEF DisposalInv, DisposalTypes
<1>2. \A i \in 1..n : i \in Nat /\ log[i].op \in {"add", "release"} /\ log[i].entry \in Entry
  <2>1. \A i \in 1..n : log[i] \in LogLine
    BY <1>1, ElementOfSeq DEF DisposalInv, DisposalTypes
  <2> QED BY <2>1 DEF LogLine
<1>3. \A i, j \in DOMAIN log : log[i].op = log[j].op /\ log[i].entry = log[j].entry => i = j
  BY <1>1, <1>2 DEF DisposalInv, ListTellsTheLog, Is
<1>4. ASSUME NEW p \in {"add", "release"}, NEW f \in Entry, NEW i \in Nat, Is(log, p, f, i)
      PROVE  At(p, f) = i
  <2>1. i \in DOMAIN log /\ log[i].op = p /\ log[i].entry = f
    BY <1>1, <1>4 DEF Is
  <2>2. \A j \in DOMAIN log : log[j].op = p /\ log[j].entry = f => j = i
    BY <1>3, <2>1
  <2> QED BY <2>1, <2>2 DEF At
<1>5. \A f \in Logged("release") : f \in Entry /\ \E k \in Nat : Is(log, "release", f, k)
  BY <1>1, <1>2 DEF Logged, Is
<1>6. ASSUME NEW a \in Logged("release"), NEW b \in Logged("release"),
             At("add", a) < At("add", b), At("add", b) < At("release", a)
      PROVE  At("release", b) < At("release", a)
  <2>1. PICK k \in Nat : Is(log, "release", a, k)
    BY <1>5
  <2>2. PICK i \in Nat : Is(log, "add", a, i)
    BY <1>5, <2>1 DEF DisposalInv, LaterGoFirst
  <2>3. \E l \in Nat : Is(log, "release", b, l)
    BY <1>5
  <2>4. PICK j \in Nat : Is(log, "add", b, j)
    BY <1>5, <2>3 DEF DisposalInv, LaterGoFirst
  <2>5. At("release", a) = k /\ At("add", a) = i /\ At("add", b) = j
    BY <1>4, <1>5, <2>1, <2>2, <2>4
  <2>6. PICK l \in Nat : l < k /\ Is(log, "release", b, l)
    BY <1>5, <1>6, <2>1, <2>2, <2>4, <2>5 DEF DisposalInv, LaterGoFirst
  <2>7. At("release", b) = l
    BY <1>4, <1>5, <2>6
  <2> QED BY <2>5, <2>6, <2>7
<1>7. CtxDisposed => ToSet(entries) \subseteq late
  BY LenProperties DEF DisposalInv, DisposalTypes, LateAreLeft, ToSet
<1>8. ASSUME NEW d \in Disposer
      PROVE  firstErr[d] = IF Errors(d) = {} THEN NoEntry
                           ELSE log[CHOOSE i \in Errors(d) : \A j \in Errors(d) : i <= j].entry
  <2>1. Errors(d) = Failures(log, d)
    BY DEF Errors, Failures
  <2>2. CASE Failures(log, d) = {} /\ firstErr[d] = NoEntry
    BY <2>1, <2>2
  <2>3. ASSUME NEW i \in Failures(log, d), \A j \in Failures(log, d) : i <= j, firstErr[d] = log[i].entry
        PROVE  (CHOOSE k \in Failures(log, d) : \A j \in Failures(log, d) : k <= j) = i
    <3>1. \A k \in Failures(log, d) : k \in Nat
      BY <1>1 DEF Failures
    <3>2. \A k \in Failures(log, d) : (\A j \in Failures(log, d) : k <= j) => k = i
      BY <2>3, <3>1
    <3> QED BY <2>3, <3>2
  <2>4. ASSUME NEW i \in Failures(log, d), \A j \in Failures(log, d) : i <= j, firstErr[d] = log[i].entry
        PROVE  firstErr[d] = IF Errors(d) = {} THEN NoEntry
                             ELSE log[CHOOSE k \in Errors(d) : \A j \in Errors(d) : k <= j].entry
    BY <2>1, <2>3, <2>4
  <2>5. \/ Failures(log, d) = {} /\ firstErr[d] = NoEntry
        \/ \E i \in Failures(log, d) : (\A j \in Failures(log, d) : i <= j) /\ firstErr[d] = log[i].entry
    BY DEF DisposalInv, ErrorsAreKept
  <2> QED BY <2>2, <2>4, <2>5
<1> QED BY <1>3, <1>6, <1>7, <1>8 DEF DisposesLikeAStack

-----------------------------------------------------------------------------
(* Resources whose release is awaited.                                     *)

AsyncTypes ==
  /\ added \in Seq(AsyncEntry) /\ asyncEntries \in Seq(AsyncEntry)
  /\ taken \in [AsyncDisposer -> Seq(AsyncEntry)]
  /\ released \in [AsyncEntry -> {"new", "listed", "ok", "failed"}]
  /\ asyncCall \in [AsyncDisposer -> {"idle", "joining", "dropped", "done"}]
  /\ asyncErr \in [AsyncDisposer -> AsyncEntry \cup {NoAsyncEntry}]

\* Entry e was the i-th that came.
Came(s, i, e) == i \in 1..Len(s) /\ s[i] = e

AddedOnce ==
  /\ \A i, j \in 1..Len(added) : added[i] = added[j] => i = j
  /\ \A i \in 1..Len(added) : released[added[i]] # "new"

\* The list has the oldest first, a call that took it the newest.
ListAscends ==
  /\ \A k \in 1..Len(asyncEntries) : \E i \in Nat : Came(added, i, asyncEntries[k])
  /\ \A k, l \in 1..Len(asyncEntries), i, j \in Nat :
        k < l /\ Came(added, i, asyncEntries[k]) /\ Came(added, j, asyncEntries[l]) => i < j

TakenDescends ==
  \A d \in AsyncDisposer :
     /\ \A k \in 1..Len(taken[d]) : \E i \in Nat : Came(added, i, taken[d][k])
     /\ \A k, l \in 1..Len(taken[d]), i, j \in Nat :
           k < l /\ Came(added, i, taken[d][k]) /\ Came(added, j, taken[d][l]) => j < i

TakenApart ==
  /\ \A d \in AsyncDisposer : \A k \in 1..Len(taken[d]), l \in 1..Len(asyncEntries) :
        taken[d][k] # asyncEntries[l]
  /\ \A d, f \in AsyncDisposer : d # f =>
        \A k \in 1..Len(taken[d]), l \in 1..Len(taken[f]) : taken[d][k] # taken[f][l]

\* Of what is in s, e is the first that failed, or none has.
Tells(s, e, fate) ==
  /\ \A k \in 1..Len(s) : fate[s[k]] \in {"ok", "failed"}
  /\ \/ e = NoAsyncEntry /\ \A k \in 1..Len(s) : fate[s[k]] # "failed"
     \/ \E k \in 1..Len(s) : /\ e = s[k] /\ fate[s[k]] = "failed"
                              /\ \A l \in 1..Len(s) : fate[s[l]] = "failed" => k <= l

DoneTells == \A d \in AsyncDisposer : asyncCall[d] = "done" => Tells(taken[d], asyncErr[d], released)

AsyncInv == AsyncTypes /\ AddedOnce /\ ListAscends /\ TakenDescends /\ TakenApart /\ DoneTells

LEMMA AsyncInitInv == AsyncDisposalInit => AsyncInv
<1> SUFFICES ASSUME AsyncDisposalInit PROVE AsyncInv
  OBVIOUS
<1>1. /\ added = << >> /\ asyncEntries = << >> /\ Len(added) = 0 /\ Len(asyncEntries) = 0
      /\ \A d \in AsyncDisposer : taken[d] = << >> /\ Len(taken[d]) = 0 /\ asyncCall[d] = "idle"
  BY EmptySeq DEF AsyncDisposalInit
<1>2. AsyncTypes
  BY EmptySeq DEF AsyncDisposalInit, AsyncTypes
<1>3. AddedOnce /\ ListAscends /\ TakenDescends /\ TakenApart /\ DoneTells
  BY <1>1 DEF AddedOnce, ListAscends, TakenDescends, TakenApart, DoneTells
<1> QED BY <1>2, <1>3 DEF AsyncInv

LEMMA AddAsyncKeeps == ASSUME AsyncInv, NEW e \in AsyncEntry, OnDisposeAsync(e) PROVE AsyncInv'
<1>1. /\ released[e] = "new" /\ released' = [released EXCEPT ![e] = "listed"]
      /\ asyncEntries' = Append(asyncEntries, e) /\ added' = Append(added, e)
      /\ taken' = taken /\ asyncErr' = asyncErr /\ asyncCall' = asyncCall
  BY DEF OnDisposeAsync
<1>2. AsyncTypes
  BY DEF AsyncInv
<1>3. PICK n \in Nat : n = Len(added)
  BY <1>2, LenProperties DEF AsyncTypes
<1>4. PICK m \in Nat : m = Len(asyncEntries)
  BY <1>2, LenProperties DEF AsyncTypes
<1>5. /\ added' \in Seq(AsyncEntry) /\ Len(added') = n + 1 /\ added'[n + 1] = e
      /\ \A i \in 1..n : added'[i] = added[i]
  BY <1>1, <1>2, <1>3, Grows DEF AsyncTypes
<1>6. /\ asyncEntries' \in Seq(AsyncEntry) /\ Len(asyncEntries') = m + 1 /\ asyncEntries'[m + 1] = e
      /\ \A i \in 1..m : asyncEntries'[i] = asyncEntries[i]
  BY <1>1, <1>2, <1>4, Grows DEF AsyncTypes
<1>7. /\ \A i : i \in 1..(n + 1) <=> i \in 1..n \/ i = n + 1
      /\ \A i : i \in 1..(m + 1) <=> i \in 1..m \/ i = m + 1
      /\ n + 1 \notin 1..n /\ m + 1 \notin 1..m
  OBVIOUS
<1>8. \A i, f : Came(added', i, f) <=> Came(added, i, f) \/ (i = n + 1 /\ f = e)
  BY <1>3, <1>5, <1>7 DEF Came
<1>9. \A i, f : Came(added, i, f) => f # e /\ released[f] # "new" /\ i \in Nat /\ i <= n
  <2>1. \A i \in 1..n : i \in Nat /\ i <= n
    OBVIOUS
  <2> QED BY <1>1, <1>3, <2>1 DEF Came, AsyncInv, AddedOnce
<1>10. AsyncTypes'
  BY <1>1, <1>2, <1>5, <1>6 DEF AsyncTypes
<1>11. /\ \A f : f # e => released'[f] = released[f]
       /\ released'[e] = "listed"
  BY <1>1, <1>2 DEF AsyncTypes
<1>12. AddedOnce'
  <2>1. \A i \in 1..n : added[i] # e
    BY <1>3, <1>9 DEF Came
  <2>2. \A i, j \in 1..(n + 1) : added'[i] = added'[j] => i = j
    BY <1>3, <1>5, <1>7, <2>1 DEF AsyncInv, AddedOnce
  <2>3. \A i \in 1..(n + 1) : released'[added'[i]] # "new"
    BY <1>3, <1>5, <1>7, <1>11, <2>1 DEF AsyncInv, AddedOnce
  <2> QED BY <1>5, <2>2, <2>3 DEF AddedOnce
<1>13. \A k \in 1..m : asyncEntries[k] # e
  BY <1>4, <1>9 DEF AsyncInv, ListAscends
<1>14. ListAscends'
  <2>1. ASSUME NEW k \in 1..(m + 1) PROVE \E i \in Nat : Came(added', i, asyncEntries'[k])
    <3>1. CASE k \in 1..m
      BY <1>4, <1>6, <1>8, <3>1 DEF AsyncInv, ListAscends
    <3>2. CASE k = m + 1
      BY <1>6, <1>8, <3>2
    <3> QED BY <1>7, <3>1, <3>2
  <2>2. ASSUME NEW k \in 1..(m + 1), NEW l \in 1..(m + 1), NEW i \in Nat, NEW j \in Nat, k < l,
               Came(added', i, asyncEntries'[k]), Came(added', j, asyncEntries'[l])
        PROVE  i < j
    <3>1. k \in 1..m /\ asyncEntries'[k] = asyncEntries[k]
      BY <1>6, <2>2
    <3>2. Came(added, i, asyncEntries[k]) /\ i <= n
      BY <1>8, <1>9, <1>13, <2>2, <3>1
    <3>3. CASE l = m + 1
      BY <1>6, <1>8, <1>9, <2>2, <3>2, <3>3
    <3>4. CASE l \in 1..m
      BY <1>4, <1>6, <1>8, <1>13, <2>2, <3>1, <3>2, <3>4 DEF AsyncInv, ListAscends
    <3> QED BY <1>7, <3>3, <3>4
  <2> QED BY <1>6, <2>1, <2>2 DEF ListAscends
<1>15. \A d \in AsyncDisposer : \A k \in 1..Len(taken[d]) : taken[d][k] # e
  BY <1>9 DEF AsyncInv, TakenDescends
<1>16. TakenDescends'
  <2> SUFFICES ASSUME NEW d \in AsyncDisposer
               PROVE  /\ \A k \in 1..Len(taken[d]) : \E i \in Nat : Came(added', i, taken[d][k])
                      /\ \A k, l \in 1..Len(taken[d]), i, j \in Nat :
                            k < l /\ Came(added', i, taken[d][k]) /\ Came(added', j, taken[d][l]) => j < i
    BY <1>1 DEF TakenDescends
  <2>1. \A k \in 1..Len(taken[d]), i \in Nat : Came(added', i, taken[d][k]) <=> Came(added, i, taken[d][k])
    BY <1>8, <1>15
  <2>2. /\ \A k \in 1..Len(taken[d]) : \E i \in Nat : Came(added, i, taken[d][k])
        /\ \A k, l \in 1..Len(taken[d]), i, j \in Nat :
              k < l /\ Came(added, i, taken[d][k]) /\ Came(added, j, taken[d][l]) => j < i
    BY DEF AsyncInv, TakenDescends
  <2> QED BY <2>1, <2>2
<1>17. TakenApart'
  <2>1. TakenApart
    BY DEF AsyncInv
  <2>2. ASSUME NEW d \in AsyncDisposer, NEW k \in 1..Len(taken[d]), NEW l \in 1..(m + 1)
        PROVE  taken[d][k] # asyncEntries'[l]
    <3>1. CASE l = m + 1
      BY <1>6, <1>15, <3>1
    <3>2. CASE l \in 1..m
      <4>1. asyncEntries'[l] = asyncEntries[l]
        BY <1>6, <3>2
      <4> QED BY <1>4, <2>1, <3>2, <4>1 DEF TakenApart
    <3> QED BY <1>7, <3>1, <3>2
  <2> QED BY <1>1, <1>6, <2>1, <2>2 DEF TakenApart
<1>18. DoneTells'
  <2> SUFFICES ASSUME NEW d \in AsyncDisposer, asyncCall[d] = "done"
               PROVE  Tells(taken[d], asyncErr[d], released')
    BY <1>1 DEF DoneTells
  <2>1. Tells(taken[d], asyncErr[d], released)
    BY DEF AsyncInv, DoneTells
  <2> QED BY <1>11, <1>15, <2>1 DEF Tells
<1> QED BY <1>10, <1>12, <1>14, <1>16, <1>17, <1>18 DEF AsyncInv

LEMMA TakeAllKeeps == ASSUME AsyncInv, NEW d \in AsyncDisposer, DisposeAllAsync(d) PROVE AsyncInv'
<1>1. /\ asyncCall' = [asyncCall EXCEPT ![d] = "joining"]
      /\ taken' = [taken EXCEPT ![d] = Reverse(asyncEntries)]
      /\ asyncEntries' = << >> /\ released' = released /\ asyncErr' = asyncErr /\ added' = added
  BY DEF DisposeAllAsync
<1>2. AsyncTypes
  BY DEF AsyncInv
<1>3. PICK m \in Nat : m = Len(asyncEntries)
  BY <1>2, LenProperties DEF AsyncTypes
<1>4. PICK t \in Seq(AsyncEntry) :
         t = Reverse(asyncEntries) /\ Len(t) = m /\ \A k \in 1..m : t[k] = asyncEntries[m - k + 1]
  <2>1. Reverse(asyncEntries) = [k \in 1..m |-> asyncEntries[m - k + 1]]
    BY <1>3 DEF Reverse
  <2>2. \A k \in 1..m : m - k + 1 \in 1..m
    OBVIOUS
  <2>3. \A k \in 1..m : asyncEntries[m - k + 1] \in AsyncEntry
    BY <1>2, <1>3, <2>2, ElementOfSeq DEF AsyncTypes
  <2>4. [k \in 1..m |-> asyncEntries[m - k + 1]] \in [1..m -> AsyncEntry]
    BY <2>3
  <2>5. \A u \in [1..m -> AsyncEntry] : u \in Seq(AsyncEntry) /\ Len(u) = m
    <3>1. \A u \in [1..m -> AsyncEntry] : u \in Seq(AsyncEntry)
      BY SeqDef
    <3>2. \A u \in [1..m -> AsyncEntry] : u \in Seq(AsyncEntry) => Len(u) = m
      <4>1. \A u \in Seq(AsyncEntry) : Len(u) \in Nat /\ DOMAIN u = 1..Len(u)
        BY LenProperties
      <4>2. \A p \in Nat : 1..p = 1..m => p = m
        OBVIOUS
      <4> QED BY <4>1, <4>2
    <3> QED BY <3>1, <3>2
  <2> QED BY <2>1, <2>4, <2>5
<1>5. taken'[d] = t /\ \A c \in AsyncDisposer : c # d => taken'[c] = taken[c]
  BY <1>1, <1>2, <1>4 DEF AsyncTypes
<1>6. Len(asyncEntries') = 0
  BY <1>1, EmptySeq
<1>7. AsyncTypes'
  BY <1>1, <1>2, <1>4, EmptySeq DEF AsyncTypes
<1>8. AddedOnce' /\ ListAscends'
  <2>1. AddedOnce'
    BY <1>1 DEF AsyncInv, AddedOnce
  <2> QED BY <1>6, <2>1 DEF ListAscends
<1>9. TakenDescends'
  <2> SUFFICES ASSUME NEW c \in AsyncDisposer
               PROVE  /\ \A k \in 1..Len(taken'[c]) : \E i \in Nat : Came(added, i, taken'[c][k])
                      /\ \A k, l \in 1..Len(taken'[c]), i, j \in Nat :
                            k < l /\ Came(added, i, taken'[c][k]) /\ Came(added, j, taken'[c][l]) => j < i
    BY <1>1 DEF TakenDescends
  <2>1. CASE c # d
    BY <1>5, <2>1 DEF AsyncInv, TakenDescends
  <2>2. CASE c = d
    <3>1. \A k \in 1..m : m - k + 1 \in 1..m /\ t[k] = asyncEntries[m - k + 1]
      BY <1>4
    <3>2. \A k, l \in 1..m : k < l => m - l + 1 < m - k + 1
      OBVIOUS
    <3>3. ASSUME NEW k \in 1..m PROVE \E i \in Nat : Came(added, i, t[k])
      BY <1>3, <3>1 DEF AsyncInv, ListAscends
    <3>4. ASSUME NEW k \in 1..m, NEW l \in 1..m, NEW i \in Nat, NEW j \in Nat,
                 k < l, Came(added, i, t[k]), Came(added, j, t[l])
          PROVE  j < i
      <4>1. PICK p \in 1..m, q \in 1..m : p = m - k + 1 /\ q = m - l + 1
        BY <3>1
      <4>2. q < p /\ t[k] = asyncEntries[p] /\ t[l] = asyncEntries[q]
        BY <3>1, <3>2, <3>4, <4>1
      <4>3. Came(added, i, asyncEntries[p]) /\ Came(added, j, asyncEntries[q])
        BY <3>4, <4>2
      <4>4. p \in 1..Len(asyncEntries) /\ q \in 1..Len(asyncEntries)
        BY <1>3, <4>1
      <4> QED BY <4>2, <4>3, <4>4 DEF AsyncInv, ListAscends
    <3> QED BY <1>4, <1>5, <2>2, <3>3, <3>4
  <2> QED BY <2>1, <2>2
<1>10. TakenApart'
  <2>1. \A k \in 1..m : m - k + 1 \in 1..m /\ t[k] = asyncEntries[m - k + 1]
    BY <1>4
  <2>2. \A c \in AsyncDisposer : \A k \in 1..Len(taken[c]), l \in 1..m : taken[c][k] # t[l] /\ t[l] # taken[c][k]
    BY <1>3, <2>1 DEF AsyncInv, TakenApart
  <2>3. ASSUME NEW c \in AsyncDisposer, NEW f \in AsyncDisposer, c # f,
               NEW k \in 1..Len(taken'[c]), NEW l \in 1..Len(taken'[f])
        PROVE  taken'[c][k] # taken'[f][l]
    <3>1. CASE c = d
      BY <1>4, <1>5, <2>2, <2>3, <3>1
    <3>2. CASE f = d
      BY <1>4, <1>5, <2>2, <2>3, <3>2
    <3>3. CASE c # d /\ f # d
      BY <1>5, <2>3, <3>3 DEF AsyncInv, TakenApart
    <3> QED BY <3>1, <3>2, <3>3
  <2> QED BY <1>6, <2>3 DEF TakenApart
<1>11. DoneTells'
  BY <1>1, <1>2, <1>5 DEF AsyncInv, AsyncTypes, DoneTells
<1> QED BY <1>7, <1>8, <1>9, <1>10, <1>11 DEF AsyncInv

LEMMA AsyncKeeps ==
  ASSUME AsyncInv, AsyncDisposalNext \/ UNCHANGED asyncDisposalVars PROVE AsyncInv'
<1>1. CASE UNCHANGED asyncDisposalVars
  <2>1. UNCHANGED <<asyncEntries, taken, released, asyncErr, asyncCall, added>>
    BY <1>1 DEF asyncDisposalVars
  <2>2. AsyncTypes' /\ AddedOnce' /\ ListAscends'
    BY <2>1 DEF AsyncInv, AsyncTypes, AddedOnce, ListAscends
  <2>3. TakenDescends' /\ TakenApart'
    <3>1. TakenDescends'
      BY <2>1 DEF AsyncInv, TakenDescends
    <3>2. TakenApart'
      BY <2>1 DEF AsyncInv, TakenApart
    <3> QED BY <3>1, <3>2
  <2>4. DoneTells'
    BY <2>1 DEF AsyncInv, DoneTells
  <2> QED BY <2>2, <2>3, <2>4 DEF AsyncInv
<1>2. CASE \E e \in AsyncEntry : OnDisposeAsync(e)
  BY <1>2, AddAsyncKeeps
<1>3. CASE \E d \in AsyncDisposer : DisposeAllAsync(d)
  BY <1>3, TakeAllKeeps
<1>4. ASSUME NEW d \in AsyncDisposer, NEW e \in AsyncEntry, NEW o \in {"ok", "failed"}, AsyncReleased(d, e, o)
      PROVE  AsyncInv'
  <2>1. /\ released[e] = "listed" /\ released' = [released EXCEPT ![e] = o]
        /\ UNCHANGED <<asyncEntries, taken, asyncErr, asyncCall, added>>
    BY <1>4 DEF AsyncReleased
  <2>2. /\ released'[e] = o /\ \A f : f # e => released'[f] = released[f]
        /\ AsyncTypes'
    BY <2>1 DEF AsyncInv, AsyncTypes
  <2>3. AddedOnce' /\ ListAscends'
    <3>1. AddedOnce /\ \A i \in 1..Len(added) : released'[added[i]] # "new"
      BY <1>4, <2>2 DEF AsyncInv, AddedOnce
    <3>2. AddedOnce'
      BY <2>1, <3>1 DEF AddedOnce
    <3>3. ListAscends'
      BY <2>1 DEF AsyncInv, ListAscends
    <3> QED BY <3>2, <3>3
  <2>4. TakenDescends' /\ TakenApart'
    <3>1. TakenDescends'
      BY <2>1 DEF AsyncInv, TakenDescends
    <3>2. TakenApart'
      BY <2>1 DEF AsyncInv, TakenApart
    <3> QED BY <3>1, <3>2
  <2>5. DoneTells'
    <3> SUFFICES ASSUME NEW c \in AsyncDisposer, asyncCall[c] = "done"
                 PROVE  Tells(taken[c], asyncErr[c], released')
      BY <2>1 DEF DoneTells
    <3>1. Tells(taken[c], asyncErr[c], released)
      BY DEF AsyncInv, DoneTells
    <3>2. \A k \in 1..Len(taken[c]) : taken[c][k] # e
      BY <2>1, <3>1 DEF Tells
    <3> QED BY <2>2, <3>1, <3>2 DEF Tells
  <2> QED BY <2>2, <2>3, <2>4, <2>5 DEF AsyncInv
<1>5. ASSUME NEW d \in AsyncDisposer, AsyncReturns(d) PROVE AsyncInv'
  <2>1. /\ \A i \in DOMAIN taken[d] : released[taken[d][i]] # "listed"
        /\ asyncErr' = [asyncErr EXCEPT ![d] = FirstFailed(taken[d])]
        /\ asyncCall' = [asyncCall EXCEPT ![d] = "done"]
        /\ UNCHANGED <<asyncEntries, taken, released, added>>
    BY <1>5 DEF AsyncReturns
  <2>2. PICK n \in Nat : n = Len(taken[d]) /\ DOMAIN taken[d] = 1..n
    BY LenProperties DEF AsyncInv, AsyncTypes
  <2>3. \A k \in 1..n : taken[d][k] \in AsyncEntry
    BY <2>2, ElementOfSeq DEF AsyncInv, AsyncTypes
  <2>4. \A k \in 1..n : released[taken[d][k]] \in {"ok", "failed"}
    <3>1. \A k \in 1..n : \E i \in Nat : Came(added, i, taken[d][k])
      BY <2>2 DEF AsyncInv, TakenDescends
    <3>2. \A k \in 1..n : released[taken[d][k]] # "new"
      BY <3>1 DEF AsyncInv, AddedOnce, Came
    <3>3. \A k \in 1..n : released[taken[d][k]] \in {"new", "listed", "ok", "failed"}
      BY <2>3 DEF AsyncInv, AsyncTypes
    <3> QED BY <2>1, <2>2, <3>2, <3>3
  <2>5. PICK g \in AsyncEntry \cup {NoAsyncEntry} : g = FirstFailed(taken[d]) /\ Tells(taken[d], g, released)
    <3>0. {i \in 1..n : released[taken[d][i]] = "failed"} \in SUBSET Nat
      OBVIOUS
    <3>1. PICK bad \in SUBSET Nat : bad = {i \in 1..n : released[taken[d][i]] = "failed"}
      BY <3>0
    <3>2. FirstFailed(taken[d]) = IF bad = {} THEN NoAsyncEntry
                                  ELSE taken[d][CHOOSE i \in bad : \A j \in bad : i <= j]
      BY <2>2, <3>1 DEF FirstFailed
    <3>3. CASE bad = {}
      BY <2>2, <2>4, <3>1, <3>2, <3>3 DEF Tells
    <3>4. CASE bad # {}
      <4>1. PICK x : x \in bad /\ (\A j \in bad : x <= j) /\ x = CHOOSE i \in bad : \A j \in bad : i <= j
        BY <3>4, HasSmallest
      <4>2. FirstFailed(taken[d]) = taken[d][x] /\ x \in 1..n /\ released[taken[d][x]] = "failed"
        BY <3>1, <3>2, <3>4, <4>1
      <4> QED BY <2>2, <2>3, <2>4, <3>1, <4>1, <4>2 DEF Tells
    <3> QED BY <3>3, <3>4
  <2>6. AsyncTypes' /\ AddedOnce' /\ ListAscends'
    BY <2>1, <2>5 DEF AsyncInv, AsyncTypes, AddedOnce, ListAscends
  <2>7. TakenDescends' /\ TakenApart'
    <3>1. TakenDescends'
      BY <2>1 DEF AsyncInv, TakenDescends
    <3>2. TakenApart'
      BY <2>1 DEF AsyncInv, TakenApart
    <3> QED BY <3>1, <3>2
  <2>8. DoneTells'
    BY <2>1, <2>5 DEF AsyncInv, AsyncTypes, DoneTells
  <2> QED BY <2>6, <2>7, <2>8 DEF AsyncInv
<1>6. ASSUME NEW d \in AsyncDisposer, AsyncDropped(d) PROVE AsyncInv'
  <2>1. /\ asyncCall' = [asyncCall EXCEPT ![d] = "dropped"]
        /\ UNCHANGED <<asyncEntries, taken, released, asyncErr, added>>
    BY <1>6 DEF AsyncDropped
  <2>2. AsyncTypes' /\ AddedOnce' /\ ListAscends'
    BY <2>1 DEF AsyncInv, AsyncTypes, AddedOnce, ListAscends
  <2>3. TakenDescends' /\ TakenApart'
    <3>1. TakenDescends'
      BY <2>1 DEF AsyncInv, TakenDescends
    <3>2. TakenApart'
      BY <2>1 DEF AsyncInv, TakenApart
    <3> QED BY <3>1, <3>2
  <2>4. DoneTells'
    BY <2>1 DEF AsyncInv, AsyncTypes, DoneTells
  <2> QED BY <2>2, <2>3, <2>4 DEF AsyncInv
<1> QED BY <1>1, <1>2, <1>3, <1>4, <1>5, <1>6 DEF AsyncDisposalNext

LEMMA AsyncTellsTheNewest == ASSUME AsyncInv PROVE AsyncErrorIsTheNewest
<1>1. \A d \in AsyncDisposer : taken[d] \in Seq(AsyncEntry) /\ DOMAIN taken[d] = 1..Len(taken[d])
  BY LenProperties DEF AsyncInv, AsyncTypes
<1>2. \A d, f \in AsyncDisposer : d # f => ToSet(taken[d]) \cap ToSet(taken[f]) = {}
  BY <1>1 DEF ToSet, AsyncInv, TakenApart
<1>3. PICK n \in Nat : n = Len(added) /\ DOMAIN added = 1..n
  BY LenProperties DEF AsyncInv, AsyncTypes
<1>4. ASSUME NEW d \in AsyncDisposer, asyncCall[d] = "done",
             NEW bad, bad = {i \in DOMAIN added : Contains(taken[d], added[i]) /\ released[added[i]] = "failed"}
      PROVE  /\ \A i \in DOMAIN taken[d] : released[taken[d][i]] \in {"ok", "failed"}
             /\ asyncErr[d] = IF bad = {} THEN NoAsyncEntry
                              ELSE added[CHOOSE i \in bad : \A j \in bad : i >= j]
  <2>1. Tells(taken[d], asyncErr[d], released)
    BY <1>4 DEF AsyncInv, DoneTells
  <2>2. \A i : i \in bad <=> /\ i \in 1..n /\ released[added[i]] = "failed"
                             /\ \E k \in 1..Len(taken[d]) : taken[d][k] = added[i]
    BY <1>3, <1>4 DEF Contains
  <2>3. CASE asyncErr[d] = NoAsyncEntry /\ \A k \in 1..Len(taken[d]) : released[taken[d][k]] # "failed"
    <3>1. bad = {}
      BY <2>2, <2>3
    <3> QED BY <1>1, <2>1, <2>3, <3>1 DEF Tells
  <2>4. ASSUME NEW k \in 1..Len(taken[d]), asyncErr[d] = taken[d][k], released[taken[d][k]] = "failed",
               \A l \in 1..Len(taken[d]) : released[taken[d][l]] = "failed" => k <= l
        PROVE  bad # {} /\ asyncErr[d] = added[CHOOSE i \in bad : \A j \in bad : i >= j]
    <3>1. PICK x \in Nat : Came(added, x, taken[d][k])
      BY DEF AsyncInv, TakenDescends
    <3>2. x \in bad /\ added[x] = taken[d][k]
      BY <1>3, <2>2, <2>4, <3>1 DEF Came
    <3>3. ASSUME NEW j \in bad PROVE j \in Nat /\ x >= j
      <4>1. PICK l \in 1..Len(taken[d]) : taken[d][l] = added[j] /\ released[taken[d][l]] = "failed"
        BY <2>2
      <4>2. j \in Nat /\ Came(added, j, taken[d][l])
        BY <1>3, <2>2, <4>1 DEF Came
      <4>3. k <= l /\ k \in Nat /\ l \in Nat
        BY <2>4, <4>1
      <4>4. CASE k = l
        <5>1. x \in 1..Len(added) /\ j \in 1..Len(added) /\ added[x] = added[j]
          BY <3>1, <3>2, <4>1, <4>2, <4>4 DEF Came
        <5>2. x = j
          BY <5>1 DEF AsyncInv, AddedOnce
        <5> QED BY <4>2, <5>2
      <4>5. CASE k < l
        <5>1. j < x
          BY <3>1, <4>2, <4>5 DEF AsyncInv, TakenDescends
        <5> QED BY <4>2, <5>1
      <4> QED BY <4>3, <4>4, <4>5
    <3>4. \A i \in bad : (\A j \in bad : i >= j) => i = x
      BY <3>2, <3>3
    <3>5. (CHOOSE i \in bad : \A j \in bad : i >= j) = x
      BY <3>2, <3>3, <3>4
    <3> QED BY <2>4, <3>2, <3>5
  <2>5. \/ asyncErr[d] = NoAsyncEntry /\ \A k \in 1..Len(taken[d]) : released[taken[d][k]] # "failed"
        \/ \E k \in 1..Len(taken[d]) :
              /\ asyncErr[d] = taken[d][k] /\ released[taken[d][k]] = "failed"
              /\ \A l \in 1..Len(taken[d]) : released[taken[d][l]] = "failed" => k <= l
    BY <2>1 DEF Tells
  <2>6. \A i \in DOMAIN taken[d] : released[taken[d][i]] \in {"ok", "failed"}
    BY <1>1, <2>1 DEF Tells
  <2> QED BY <2>3, <2>4, <2>5, <2>6
<1>5. ASSUME NEW d \in AsyncDisposer, asyncCall[d] = "done"
      PROVE  LET bad == {i \in DOMAIN added : Contains(taken[d], added[i]) /\ released[added[i]] = "failed"}
             IN  /\ \A i \in DOMAIN taken[d] : released[taken[d][i]] \in {"ok", "failed"}
                 /\ asyncErr[d] = IF bad = {} THEN NoAsyncEntry
                                  ELSE added[CHOOSE i \in bad : \A j \in bad : i >= j]
  <2>1. PICK bad : bad = {i \in DOMAIN added : Contains(taken[d], added[i]) /\ released[added[i]] = "failed"}
    OBVIOUS
  <2> QED BY <1>4, <1>5, <2>1
<1> QED BY <1>2, <1>5 DEF AsyncErrorIsTheNewest

-----------------------------------------------------------------------------
(* The loader.                                                             *)

Ran(s) == {s[i] : i \in 1..Len(s)}
NoRepeats(s) == \A i, j \in 1..Len(s) : s[i] = s[j] => i = j

\* Every name of o comes after what it needs.
InOrder(o, ms) ==
  /\ o \in Seq(DOMAIN ms) /\ NoRepeats(o)
  /\ \A i \in 1..Len(o) : Range(ms[o[i]]) \subseteq {o[j] : j \in 1..(i - 1)}

\* Names that wait for each other.
Circle(ms) == \E S \in (SUBSET DOMAIN ms) \ {{}} : \A n \in S : Range(ms[n]) \cap S # {}

\* Places in the list of m that wait for a name outside R.
Waits(ms, m, R) == {k \in 1..Len(ms[m]) : ms[m][k] \notin R}

LEMMA InOrderIsNoCircle ==
  ASSUME NEW ms, NEW o, InOrder(o, ms), DOMAIN ms \subseteq Ran(o) PROVE ~ Circle(ms)
<1> SUFFICES ASSUME NEW S \in SUBSET DOMAIN ms, S # {}, \A n \in S : Range(ms[n]) \cap S # {} PROVE FALSE
  BY DEF Circle
<1>1. Len(o) \in Nat
  BY LenProperties DEF InOrder
<1>2. {i \in 1..Len(o) : o[i] \in S} \in SUBSET Nat
  BY <1>1
<1>3. PICK at \in SUBSET Nat : at = {i \in 1..Len(o) : o[i] \in S}
  BY <1>2
<1>4. at # {}
  BY <1>3 DEF Ran
<1>5. PICK i \in at : \A j \in at : i <= j
  BY <1>4, HasSmallest
<1>6. PICK x \in S : x \in Range(ms[o[i]])
  BY <1>3, <1>5
<1>7. PICK j \in 1..(i - 1) : x = o[j]
  BY <1>3, <1>6 DEF InOrder
<1>8. i \in 1..Len(o) /\ i \in Nat
  BY <1>3, <1>5
<1>9. j \in 1..Len(o) /\ ~ (i <= j)
  BY <1>1, <1>7, <1>8
<1> QED BY <1>3, <1>5, <1>6, <1>7, <1>9

\* Each element of a set once: a list of them all.
LEMMA ListsAll ==
  ASSUME NEW S, IsFiniteSet(S), NEW f \in SetToSeqs(S)
  PROVE  f \in Seq(S) /\ NoRepeats(f) /\ Ran(f) = S
<1>1. PICK n \in Nat : n = Cardinality(S)
  BY FS_CardinalityType
<1>2. f \in [1..n -> S] /\ \A i, j \in 1..n : i # j => f[i] # f[j]
  BY <1>1 DEF SetToSeqs
<1>3. f \in Seq(S)
  BY <1>2, SeqDef
<1>4. Len(f) = n /\ DOMAIN f = 1..n
  <2>1. DOMAIN f = 1..Len(f) /\ Len(f) \in Nat
    BY <1>3, LenProperties
  <2>2. 1..Len(f) = 1..n
    BY <1>2, <2>1
  <2>3. \A p, q \in Nat : 1..p = 1..q => p = q
    OBVIOUS
  <2> QED BY <2>1, <2>2, <2>3
<1>5. f \in Injection(1..n, S)
  BY <1>2 DEF Injection, IsInjective
<1>6. Cardinality(1..n) = n
  BY FS_Interval
<1>7. f \in Surjection(1..n, S)
  BY <1>1, <1>5, <1>6, FS_Injection
<1>8. Ran(f) = S
  BY <1>2, <1>4, <1>7 DEF Surjection, Ran
<1> QED BY <1>2, <1>3, <1>4, <1>8 DEF NoRepeats

LEMMA ListCounts ==
  ASSUME NEW T, NEW s \in Seq(T), NoRepeats(s)
  PROVE  IsFiniteSet(Ran(s)) /\ Cardinality(Ran(s)) = Len(s)
<1>1. Len(s) \in Nat /\ DOMAIN s = 1..Len(s) /\ s \in [1..Len(s) -> T]
  BY LenProperties
<1>2. s \in [1..Len(s) -> Ran(s)]
  BY <1>1 DEF Ran
<1>3. s \in Bijection(1..Len(s), Ran(s))
  BY <1>1, <1>2 DEF Bijection, Injection, Surjection, IsInjective, NoRepeats, Ran
<1>4. ExistsBijection(1..Len(s), Ran(s))
  BY <1>3 DEF ExistsBijection
<1>5. Cardinality(Ran(s)) = Len(s)
  BY <1>1, <1>4, FS_CountingElements
<1>6. IsFiniteSet(Ran(s))
  BY <1>1, <1>4, FS_NatBijection
<1> QED BY <1>5, <1>6

\* How many elements of an ordered set come before each: a different number.
RankOf(S, L, n, r) ==
  /\ r \in [S -> 0..(n - 1)]
  /\ \A i \in S : r[i] = Cardinality({j \in S : <<j, i>> \in L})
  /\ \A i, k \in S : <<i, k>> \in L => r[i] < r[k]
  /\ \A i, k \in S : r[i] = r[k] => i = k
  /\ \A m \in 0..(n - 1) : \E i \in S : r[i] = m

LEMMA RanksFill ==
  ASSUME NEW S, IsFiniteSet(S), NEW L,
         \A i \in S : <<i, i>> \notin L,
         \A i, j \in S : i # j => <<i, j>> \in L \/ <<j, i>> \in L,
         \A i, j, k \in S : <<i, j>> \in L /\ <<j, k>> \in L => <<i, k>> \in L
  PROVE  \E r : RankOf(S, L, Cardinality(S), r)
<1>1. PICK n \in Nat : n = Cardinality(S)
  BY FS_CardinalityType
<1>2. PICK r : r = [i \in S |-> Cardinality({j \in S : <<j, i>> \in L})]
  OBVIOUS
<1>3. ASSUME NEW i \in S
      PROVE  /\ IsFiniteSet({j \in S : <<j, i>> \in L})
             /\ r[i] = Cardinality({j \in S : <<j, i>> \in L}) /\ r[i] \in 0..(n - 1)
  <2>1. IsFiniteSet(S \ {i}) /\ Cardinality(S \ {i}) = n - 1
    BY <1>1, FS_RemoveElement
  <2>2. {j \in S : <<j, i>> \in L} \in SUBSET (S \ {i})
    OBVIOUS
  <2>3. PICK P : P = {j \in S : <<j, i>> \in L}
    OBVIOUS
  <2>4. IsFiniteSet(P) /\ Cardinality(P) <= n - 1
    <3>1. PICK D : D = S \ {i}
      OBVIOUS
    <3>2. IsFiniteSet(D) /\ Cardinality(D) = n - 1 /\ P \in SUBSET D
      BY <2>1, <2>2, <2>3, <3>1
    <3> QED BY <3>2, FS_Subset
  <2>5. Cardinality(P) \in Nat
    BY <2>4, FS_CardinalityType
  <2>6. r[i] = Cardinality(P)
    BY <1>2, <2>3
  <2> QED BY <2>3, <2>4, <2>5, <2>6
<1>4. ASSUME NEW i \in S, NEW k \in S, <<i, k>> \in L PROVE r[i] < r[k]
  <2>1. PICK P, Q : P = {j \in S : <<j, i>> \in L} /\ Q = {j \in S : <<j, k>> \in L}
    OBVIOUS
  <2>2. P \in SUBSET Q /\ i \in Q /\ i \notin P
    BY <1>4, <2>1
  <2>3. IsFiniteSet(Q) /\ r[i] = Cardinality(P) /\ r[k] = Cardinality(Q) /\ r[i] \in Nat /\ r[k] \in Nat
    <3>1. r[i] = Cardinality(P) /\ r[i] \in 0..(n - 1)
      BY <1>3, <2>1
    <3>2. IsFiniteSet(Q) /\ r[k] = Cardinality(Q) /\ r[k] \in 0..(n - 1)
      BY <1>3, <2>1
    <3> QED BY <3>1, <3>2
  <2>4. Cardinality(P) <= Cardinality(Q) /\ Cardinality(Q) # Cardinality(P)
    BY <2>2, <2>3, FS_Subset
  <2> QED BY <2>3, <2>4
<1>a. \A i \in S : r[i] \in 0..(n - 1) /\ r[i] \in Nat
  <2>1. \A i \in S : r[i] \in 0..(n - 1)
    BY <1>3
  <2> QED BY <2>1
<1>5. \A i, k \in S : r[i] = r[k] => i = k
  <2> SUFFICES ASSUME NEW i \in S, NEW k \in S, r[i] = r[k], i # k PROVE FALSE
    OBVIOUS
  <2>1. r[i] < r[k] \/ r[k] < r[i]
    BY <1>4
  <2>2. r[i] \in Nat /\ r[k] \in Nat
    BY <1>a
  <2> QED BY <2>1, <2>2
<1>6. r \in Injection(S, 0..(n - 1))
  BY <1>2, <1>3, <1>5 DEF Injection, IsInjective
<1>7. IsFiniteSet(0..(n - 1)) /\ Cardinality(0..(n - 1)) = n
  BY FS_Interval
<1>8. r \in Surjection(S, 0..(n - 1))
  BY <1>1, <1>6, <1>7, FS_Injection
<1>9. r \in [S -> 0..(n - 1)]
  BY <1>2, <1>3
<1>10. \A m \in 0..(n - 1) : \E i \in S : r[i] = m
  BY <1>8 DEF Surjection
<1>11. \A i \in S : r[i] = Cardinality({j \in S : <<j, i>> \in L})
  BY <1>2
<1>12. \A i, k \in S : <<i, k>> \in L => r[i] < r[k]
  BY <1>4
<1> QED BY <1>1, <1>5, <1>9, <1>10, <1>11, <1>12 DEF RankOf

\* The list of a set by rank: how many of it come before.
Ranks(S, L, f) ==
  /\ f = [k \in 1..Cardinality(S) |-> f[k]]
  /\ \A k \in 1..Cardinality(S) :
        (\E i \in S : Cardinality({j \in S : <<j, i>> \in L}) = k - 1)
           => f[k] \in S /\ Cardinality({j \in S : <<j, f[k]>> \in L}) = k - 1

LEMMA RanksOrder ==
  ASSUME NEW S, IsFiniteSet(S), NEW L, NEW f, Ranks(S, L, f),
         \A i \in S : <<i, i>> \notin L,
         \A i, j \in S : i # j => <<i, j>> \in L \/ <<j, i>> \in L,
         \A i, j, k \in S : <<i, j>> \in L /\ <<j, k>> \in L => <<i, k>> \in L
  PROVE  /\ f \in Seq(S) /\ NoRepeats(f) /\ Ran(f) = S
         /\ \A k, l \in 1..Len(f) : k < l => <<f[k], f[l]>> \in L
<1>1. PICK n \in Nat : n = Cardinality(S)
  BY FS_CardinalityType
<1>r. PICK r : RankOf(S, L, Cardinality(S), r)
  BY RanksFill
<1>2. /\ r \in [S -> 0..(n - 1)]
      /\ \A i \in S : r[i] = Cardinality({j \in S : <<j, i>> \in L})
      /\ \A i, k \in S : <<i, k>> \in L => r[i] < r[k]
      /\ \A i, k \in S : r[i] = r[k] => i = k
      /\ \A m \in 0..(n - 1) : \E i \in S : r[i] = m
  BY <1>1, <1>r DEF RankOf
<1>3. \A i \in S : r[i] = Cardinality({j \in S : <<j, i>> \in L})
  BY <1>2
<1>4. ASSUME NEW i \in S, NEW k \in S, <<i, k>> \in L PROVE r[i] < r[k]
  BY <1>2, <1>4
<1>a. \A i \in S : r[i] \in 0..(n - 1) /\ r[i] \in Nat
  BY <1>2
<1>5. \A i, k \in S : r[i] = r[k] => i = k
  BY <1>2
<1>9. ASSUME NEW k \in 1..n PROVE f[k] \in S /\ r[f[k]] = k - 1
  <2>1. k - 1 \in 0..(n - 1)
    OBVIOUS
  <2>2. \E i \in S : r[i] = k - 1
    BY <1>2, <2>1
  <2>4. \E i \in S : Cardinality({j \in S : <<j, i>> \in L}) = k - 1
    BY <1>3, <2>2
  <2>5. f[k] \in S /\ Cardinality({j \in S : <<j, f[k]>> \in L}) = k - 1
    BY <1>1, <2>4 DEF Ranks
  <2> QED BY <1>3, <2>5
<1>10. f \in [1..n -> S]
  BY <1>1, <1>9 DEF Ranks
<1>11. f \in Seq(S) /\ Len(f) = n
  <2>1. f \in Seq(S)
    BY <1>10, SeqDef
  <2>2. Len(f) \in Nat /\ 1..Len(f) = 1..n
    BY <1>10, <2>1, LenProperties
  <2>3. \A p, q \in Nat : 1..p = 1..q => p = q
    OBVIOUS
  <2> QED BY <2>1, <2>2, <2>3
<1>12. NoRepeats(f)
  <2> SUFFICES ASSUME NEW k \in 1..n, NEW l \in 1..n, f[k] = f[l] PROVE k = l
    BY <1>11 DEF NoRepeats
  <2>1. k - 1 = l - 1
    BY <1>9
  <2> QED BY <2>1
<1>13. S \subseteq Ran(f)
  <2> SUFFICES ASSUME NEW i \in S PROVE i \in Ran(f)
    OBVIOUS
  <2>1. r[i] + 1 \in 1..n /\ (r[i] + 1) - 1 = r[i]
    BY <1>a
  <2>2. f[r[i] + 1] = i
    BY <1>5, <1>9, <2>1
  <2> QED BY <1>11, <2>1, <2>2 DEF Ran
<1>14. Ran(f) = S
  BY <1>9, <1>11, <1>13 DEF Ran
<1>15. ASSUME NEW k \in 1..n, NEW l \in 1..n, k < l PROVE <<f[k], f[l]>> \in L
  <2>1. f[k] \in S /\ f[l] \in S /\ r[f[k]] = k - 1 /\ r[f[l]] = l - 1
    BY <1>9
  <2>2. f[k] # f[l] /\ ~ (r[f[l]] < r[f[k]])
    BY <1>15, <2>1
  <2> QED BY <1>4, <2>1, <2>2
<1> QED BY <1>11, <1>12, <1>14, <1>15

\* What is joined, and what is taken from the front.
LEMMA Joins ==
  ASSUME NEW S, NEW s \in Seq(S), NEW t \in Seq(S), NoRepeats(s), NoRepeats(t), Ran(s) \cap Ran(t) = {}
  PROVE  s \o t \in Seq(S) /\ NoRepeats(s \o t) /\ Ran(s \o t) = Ran(s) \cup Ran(t)
<1>1. PICK n \in Nat, m \in Nat : n = Len(s) /\ m = Len(t)
  BY LenProperties
<1>2. /\ s \o t \in Seq(S) /\ Len(s \o t) = n + m
      /\ \A i \in 1..(n + m) : (s \o t)[i] = IF i <= n THEN s[i] ELSE t[i - n]
  BY <1>1, ConcatProperties
<1>3. PICK u \in Seq(S) : u = s \o t
  BY <1>2
<1>4. \A i \in 1..n : i \in 1..(n + m) /\ u[i] = s[i]
  BY <1>2, <1>3
<1>5. \A i \in 1..m : i + n \in 1..(n + m) /\ u[i + n] = t[i]
  <2>1. \A i \in 1..m : i + n \in 1..(n + m) /\ ~ (i + n <= n) /\ (i + n) - n = i
    OBVIOUS
  <2> QED BY <1>2, <1>3, <2>1
<1>6. \A i \in 1..(n + m) : i \in 1..n \/ \E k \in 1..m : i = k + n
  <2>1. ASSUME NEW i \in 1..(n + m), i \notin 1..n PROVE i - n \in 1..m /\ i = (i - n) + n
    BY <2>1
  <2> QED BY <2>1
<1>7. Ran(u) = Ran(s) \cup Ran(t)
  <2>1. Len(u) = n + m
    BY <1>2, <1>3
  <2>2. Ran(u) \subseteq Ran(s) \cup Ran(t)
    <3>1. ASSUME NEW i \in 1..(n + m) PROVE u[i] \in Ran(s) \cup Ran(t)
      BY <1>1, <1>4, <1>5, <1>6 DEF Ran
    <3> QED BY <2>1, <3>1 DEF Ran
  <2>3. Ran(s) \subseteq Ran(u) /\ Ran(t) \subseteq Ran(u)
    <3>1. \A i \in 1..n : s[i] \in Ran(u)
      BY <1>4, <2>1 DEF Ran
    <3>2. \A i \in 1..m : t[i] \in Ran(u)
      BY <1>5, <2>1 DEF Ran
    <3> QED BY <1>1, <3>1, <3>2 DEF Ran
  <2> QED BY <2>2, <2>3
<1>8. NoRepeats(u)
  <2>1. SUFFICES ASSUME NEW i \in 1..(n + m), NEW j \in 1..(n + m), u[i] = u[j] PROVE i = j
    BY <1>2, <1>3 DEF NoRepeats
  <2>2. CASE i \in 1..n /\ j \in 1..n
    BY <1>1, <1>4, <2>1, <2>2 DEF NoRepeats
  <2>3. ASSUME NEW k \in 1..m, NEW l \in 1..m, i = k + n, j = l + n PROVE i = j
    <3>1. u[i] = t[k] /\ u[j] = t[l]
      BY <1>5, <2>3
    <3>2. t[k] = t[l]
      BY <2>1, <3>1
    <3>3. k = l
      BY <1>1, <3>2 DEF NoRepeats
    <3> QED BY <2>3, <3>3
  <2>4. ASSUME NEW k \in 1..n, NEW l \in 1..m, u[k] = u[l + n] PROVE FALSE
    <3>1. s[k] = t[l]
      BY <1>4, <1>5, <2>4
    <3> QED BY <1>1, <3>1 DEF Ran
  <2> QED BY <1>6, <2>1, <2>2, <2>3, <2>4
<1> QED BY <1>2, <1>3, <1>7, <1>8

LEMMA Beheads ==
  ASSUME NEW S, NEW s \in Seq(S), s # << >>, NoRepeats(s)
  PROVE  /\ Head(s) \in S /\ Head(s) \in Ran(s) /\ Tail(s) \in Seq(S) /\ NoRepeats(Tail(s))
         /\ Ran(Tail(s)) = Ran(s) \ {Head(s)}
<1>1. PICK n \in Nat : n = Len(s) /\ n >= 1
  BY LenProperties, EmptySeq
<1>2. PICK t \in Seq(S) : t = Tail(s) /\ Len(t) = n - 1 /\ \A i \in 1..(n - 1) : t[i] = s[i + 1]
  <2>1. /\ Tail(s) \in Seq(S) /\ Len(Tail(s)) = n - 1
        /\ \A i \in 1..Len(Tail(s)) : Tail(s)[i] = s[i + 1]
    BY <1>1, HeadTailProperties
  <2> QED BY <2>1
<1>3. Head(s) = s[1] /\ s[1] \in S
  BY <1>1, HeadTailProperties, LenProperties
<1>4. 1 \in 1..n /\ \A i \in 1..(n - 1) : i + 1 \in 1..n /\ i + 1 # 1
  BY <1>1
<1>5. \A j \in 1..n : j = 1 \/ \E i \in 1..(n - 1) : j = i + 1
  <2>1. ASSUME NEW j \in 1..n, j # 1 PROVE j - 1 \in 1..(n - 1) /\ j = (j - 1) + 1
    BY <2>1
  <2> QED BY <2>1
<1>6. NoRepeats(t)
  BY <1>1, <1>2, <1>4 DEF NoRepeats
<1>7. Ran(t) = Ran(s) \ {s[1]}
  <2>1. \A i \in 1..(n - 1) : t[i] \in Ran(s) /\ t[i] # s[1]
    BY <1>1, <1>2, <1>4 DEF NoRepeats, Ran
  <2>2. ASSUME NEW j \in 1..n PROVE s[j] = s[1] \/ s[j] \in Ran(t)
    <3>1. ASSUME NEW i \in 1..(n - 1), j = i + 1 PROVE s[j] \in Ran(t)
      BY <1>2, <3>1 DEF Ran
    <3> QED BY <1>5, <3>1
  <2> QED BY <1>1, <1>2, <2>1, <2>2 DEF Ran
<1> QED BY <1>1, <1>2, <1>3, <1>4, <1>6, <1>7 DEF Ran

\* What the sort has found out so far.
SortInv ==
  /\ Needed \subseteq Manifested
  /\ \A m \in Manifested : unmet[m] = Cardinality(Waits(manifests, m, Ran(sorted)))
  /\ ready \in Seq(Manifested) /\ NoRepeats(ready)
  /\ Ran(ready) = {m \in Manifested : unmet[m] = 0} \ Ran(sorted)

LoaderInv ==
  /\ manifests \in Manifests
  /\ loaded \in Seq(Manifested) /\ sorted \in Seq(Manifested)
  /\ InOrder(loaded \o sorted, manifests)
  /\ \A i \in 1..Len(loaded) : loaded[i] \in linked
  /\ load \in {"collect", "missing", "panicked", "sort", "circular"} => loaded = << >>
  /\ load = "collect" => sorted = << >>
  /\ load = "missing" => ~ Needed \subseteq linked
  /\ load \notin {"collect", "missing"} => Needed \subseteq linked
  /\ load = "sort" => SortInv
  /\ load = "circular" => Circle(manifests)
  /\ load \in {"install", "failed", "ok"} => Manifested \subseteq Ran(loaded \o sorted)
  /\ load = "ok" => sorted = << >>
  /\ load = "failed" => sorted # << >>

LEMMA LoaderInitInv == ASSUME LoaderInit PROVE LoaderInv
<1>1. /\ manifests \in Manifests /\ loaded = << >> /\ sorted = << >> /\ load = "collect"
      /\ Len(loaded) = 0
  BY EmptySeq DEF LoaderInit
<1>2. << >> \in Seq(Manifested)
  BY EmptySeq
<1>3. loaded \o sorted = << >>
  BY <1>1, <1>2, ConcatEmptySeq
<1>4. InOrder(<< >>, manifests)
  BY <1>2, EmptySeq DEF InOrder, NoRepeats, Manifested
<1> QED BY <1>1, <1>2, <1>3, <1>4 DEF LoaderInv

LEMMA OpenIsFinite ==
  ASSUME LoaderAssumption, NEW ms \in Manifests, NEW m \in DOMAIN ms, NEW R
  PROVE  /\ IsFiniteSet(Waits(ms, m, R)) /\ Cardinality(Waits(ms, m, R)) \in Nat
         /\ Cardinality(Waits(ms, m, R)) = 0 <=> Range(ms[m]) \subseteq R
         /\ Len(ms[m]) \in Nat /\ DOMAIN ms[m] = 1..Len(ms[m])
<1>1. ms[m] \in Seq(Range(ms[m]))
  BY DEF LoaderAssumption
<1>2. Len(ms[m]) \in Nat /\ DOMAIN ms[m] = 1..Len(ms[m])
  BY <1>1, LenProperties
<1>3. IsFiniteSet(1..Len(ms[m]))
  BY <1>2, FS_Interval
<1>4. Waits(ms, m, R) \subseteq 1..Len(ms[m])
  BY DEF Waits
<1>5. IsFiniteSet(Waits(ms, m, R))
  BY <1>3, <1>4, FS_Subset
<1>6. Cardinality(Waits(ms, m, R)) \in Nat
  BY <1>5, FS_CardinalityType
<1>7. Cardinality(Waits(ms, m, R)) = 0 <=> Waits(ms, m, R) = {}
  BY <1>5, FS_EmptySet
<1>8. Waits(ms, m, R) = {} <=> Range(ms[m]) \subseteq R
  BY <1>2 DEF Waits, Range
<1> QED BY <1>2, <1>5, <1>6, <1>7, <1>8

LEMMA CollectKeeps == ASSUME LoaderInv, LoaderAssumption, CollectManifests PROVE LoaderInv'
<1>1. /\ load = "collect"
      /\ load' = IF ~ Needed \subseteq linked THEN "missing"
                 ELSE IF ~ Needed \subseteq Manifested THEN "panicked" ELSE "sort"
      /\ unmet' = [n \in Manifested |-> Len(manifests[n])]
      /\ ready' \in SetToSeqs({n \in Manifested : manifests[n] = << >>})
      /\ manifests' = manifests /\ linked' = linked /\ sorted' = sorted /\ loaded' = loaded
  BY DEF CollectManifests, InAnyOrder
<1>2. sorted = << >> /\ loaded = << >> /\ Ran(sorted) = {}
  BY <1>1, EmptySeq DEF LoaderInv, Ran
<1>3. Needed' = Needed /\ Manifested' = Manifested
  BY <1>1 DEF Needed, Manifested, Needs
<1>4. IsFiniteSet(Manifested)
  BY DEF LoaderInv, LoaderAssumption, Manifested
<1>5. \A m \in Manifested : /\ Waits(manifests, m, {}) = 1..Len(manifests[m])
                            /\ Len(manifests[m]) \in Nat
                            /\ manifests[m] = << >> <=> Len(manifests[m]) = 0
  <2> SUFFICES ASSUME NEW m \in Manifested
               PROVE  /\ Waits(manifests, m, {}) = 1..Len(manifests[m])
                      /\ Len(manifests[m]) \in Nat
                      /\ manifests[m] = << >> <=> Len(manifests[m]) = 0
    OBVIOUS
  <2>1. manifests[m] \in Seq(Range(manifests[m]))
    BY DEF LoaderInv, LoaderAssumption, Manifested
  <2>2. Len(manifests[m]) \in Nat /\ (manifests[m] = << >> <=> Len(manifests[m]) = 0)
    BY <2>1, LenProperties, EmptySeq
  <2> QED BY <2>2 DEF Waits
<1>6. \A m \in Manifested : unmet'[m] = Cardinality(Waits(manifests, m, {})) /\ unmet'[m] = Len(manifests[m])
  <2>1. \A m \in Manifested : unmet'[m] = Len(manifests[m])
    BY <1>1
  <2>2. \A n \in Nat : Cardinality(1..n) = n
    BY FS_Interval
  <2> QED BY <1>5, <2>1, <2>2
<1>7. PICK Z \in SUBSET Manifested : Z = {n \in Manifested : manifests[n] = << >>}
  <2>1. {n \in Manifested : manifests[n] = << >>} \in SUBSET Manifested
    OBVIOUS
  <2> QED BY <2>1
<1>8. ready' \in Seq(Z) /\ NoRepeats(ready') /\ Ran(ready') = Z
  <2>1. IsFiniteSet(Z)
    BY <1>4, FS_Subset
  <2> QED BY <1>1, <1>7, <2>1, ListsAll
<1>9. ready' \in Seq(Manifested)
  BY <1>8, SeqMonotonic
<1>10. Z = {m \in Manifested : unmet'[m] = 0} \ {}
  BY <1>5, <1>6, <1>7
<1>11. load' = "sort" => SortInv'
  <2> SUFFICES ASSUME load' = "sort" PROVE SortInv'
    OBVIOUS
  <2>1. Needed \subseteq Manifested
    BY <1>1
  <2>2. Ran(sorted') = {}
    BY <1>1, <1>2
  <2> QED BY <1>1, <1>3, <1>6, <1>8, <1>9, <1>10, <2>1, <2>2 DEF SortInv
<1>12. \/ load' = "missing" /\ ~ Needed \subseteq linked
       \/ load' \in {"panicked", "sort"} /\ Needed \subseteq linked
  BY <1>1
<1> QED BY <1>1, <1>2, <1>3, <1>11, <1>12 DEF LoaderInv

\* A list that grows by what waits for nothing outside it stays in order.
LEMMA OrderGrows ==
  ASSUME NEW ms, NEW s, InOrder(s, ms), NEW n \in DOMAIN ms, n \notin Ran(s), Range(ms[n]) \subseteq Ran(s)
  PROVE  InOrder(Append(s, n), ms) /\ Ran(Append(s, n)) = Ran(s) \cup {n}
<1>1. s \in Seq(DOMAIN ms)
  BY DEF InOrder
<1>2. PICK l \in Nat : l = Len(s)
  BY <1>1, LenProperties
<1>3. PICK u \in Seq(DOMAIN ms) : /\ u = Append(s, n) /\ Len(u) = l + 1 /\ u[l + 1] = n
                                 /\ \A i \in 1..l : u[i] = s[i]
  <2>1. /\ Append(s, n) \in Seq(DOMAIN ms) /\ Len(Append(s, n)) = Len(s) + 1 /\ Append(s, n)[Len(s) + 1] = n
        /\ \A i \in 1..Len(s) : Append(s, n)[i] = s[i]
    BY <1>1, Grows
  <2> QED BY <1>2, <2>1
<1>4. \A i : i \in 1..(l + 1) <=> i \in 1..l \/ i = l + 1
  BY <1>2
<1>5. \A i \in 1..l : s[i] # n
  BY <1>2 DEF Ran
<1>6. NoRepeats(u)
  BY <1>2, <1>3, <1>4, <1>5 DEF InOrder, NoRepeats
<1>7. Ran(u) = Ran(s) \cup {n}
  BY <1>2, <1>3, <1>4 DEF Ran
<1>8. ASSUME NEW i \in 1..(l + 1) PROVE Range(ms[u[i]]) \subseteq {u[j] : j \in 1..(i - 1)}
  <2>1. CASE i \in 1..l
    <3>1. \A j \in 1..(i - 1) : j \in 1..l
      BY <2>1
    <3>2. Range(ms[s[i]]) \subseteq {s[j] : j \in 1..(i - 1)}
      BY <1>2, <2>1 DEF InOrder
    <3>3. {s[j] : j \in 1..(i - 1)} = {u[j] : j \in 1..(i - 1)}
      BY <1>3, <3>1
    <3> QED BY <1>3, <2>1, <3>2, <3>3
  <2>2. CASE i = l + 1
    <3>1. i - 1 = l
      BY <2>2
    <3> QED BY <1>2, <1>3, <2>2, <3>1 DEF Ran
  <2> QED BY <1>4, <2>1, <2>2
<1>9. InOrder(u, ms)
  BY <1>3, <1>6, <1>8 DEF InOrder
<1> QED BY <1>3, <1>7, <1>9

LEMMA PopKeeps == ASSUME LoaderInv, LoaderAssumption, PopReady PROVE LoaderInv'
<1>1. load = "sort" /\ ready # << >> /\ load' = load
      /\ manifests' = manifests /\ linked' = linked /\ loaded' = loaded
  BY DEF PopReady
<1>2. PICK n : n = Head(ready)
  OBVIOUS
<1>3. PICK left : left = [m \in Manifested |-> unmet[m] - TimesNeeded(n, m)]
  OBVIOUS
<1>4. sorted' = Append(sorted, n) /\ unmet' = left
  BY <1>2, <1>3 DEF PopReady
<1>5. PICK freed \in SetToSeqs({m \in Manifested : unmet[m] > 0 /\ left[m] = 0}) : ready' = Tail(ready) \o freed
  BY <1>2, <1>3 DEF PopReady, InAnyOrder
<1>6. SortInv /\ loaded = << >> /\ sorted \in Seq(Manifested) /\ InOrder(loaded \o sorted, manifests)
      /\ manifests \in Manifests /\ IsFiniteSet(Manifested)
  BY <1>1 DEF LoaderInv, LoaderAssumption, Manifested
<1>7. InOrder(sorted, manifests)
  BY <1>6, ConcatEmptySeq
<1>8. /\ n \in Manifested /\ n \in Ran(ready) /\ Tail(ready) \in Seq(Manifested) /\ NoRepeats(Tail(ready))
      /\ Ran(Tail(ready)) = Ran(ready) \ {n}
  BY <1>1, <1>2, <1>6, Beheads DEF SortInv
<1>9. n \notin Ran(sorted) /\ unmet[n] = 0
  BY <1>6, <1>8 DEF SortInv
<1>10. PICK R : R = Ran(sorted)
  OBVIOUS
<1>11. \A m \in Manifested : /\ unmet[m] \in Nat /\ unmet[m] = Cardinality(Waits(manifests, m, R))
                             /\ unmet[m] = 0 <=> Needs(m) \subseteq R
  BY <1>6, <1>10, OpenIsFinite DEF SortInv, Needs, Manifested
<1>12. Needs(n) \subseteq R
  BY <1>8, <1>9, <1>11
<1>13. InOrder(sorted', manifests) /\ Ran(sorted') = R \cup {n}
  BY <1>4, <1>7, <1>8, <1>9, <1>10, <1>12, OrderGrows DEF Needs, Manifested
<1>14. \A m \in Manifested : /\ left[m] = Cardinality(Waits(manifests, m, R \cup {n}))
                             /\ left[m] \in Nat /\ left[m] <= unmet[m]
  <2> SUFFICES ASSUME NEW m \in Manifested
               PROVE  /\ left[m] = Cardinality(Waits(manifests, m, R \cup {n}))
                      /\ left[m] \in Nat /\ left[m] <= unmet[m]
    OBVIOUS
  <2>1. /\ IsFiniteSet(Waits(manifests, m, R)) /\ DOMAIN manifests[m] = 1..Len(manifests[m])
        /\ Cardinality(Waits(manifests, m, R \cup {n})) \in Nat
    BY <1>6, OpenIsFinite DEF Manifested
  <2>2. PICK T : T = {k \in DOMAIN manifests[m] : manifests[m][k] = n}
    OBVIOUS
  <2>3. Waits(manifests, m, R) \cap T = T
    BY <1>9, <1>10, <2>1, <2>2 DEF Waits
  <2>4. Waits(manifests, m, R \cup {n}) = Waits(manifests, m, R) \ T
    BY <2>1, <2>2 DEF Waits
  <2>5. Cardinality(Waits(manifests, m, R) \ T) = Cardinality(Waits(manifests, m, R)) - Cardinality(T)
    <3>1. PICK O : O = Waits(manifests, m, R)
      OBVIOUS
    <3>2. IsFiniteSet(O) /\ O \cap T = T
      BY <2>1, <2>3, <3>1
    <3>3. Cardinality(O \ T) = Cardinality(O) - Cardinality(O \cap T)
      BY <3>2, FS_Difference
    <3> QED BY <3>1, <3>2, <3>3
  <2>6. left[m] = unmet[m] - Cardinality(T)
    BY <1>3, <2>2 DEF TimesNeeded
  <2>7. T \subseteq Waits(manifests, m, R)
    BY <2>3
  <2>8. Cardinality(T) \in Nat
    BY <2>1, <2>7, FS_Subset, FS_CardinalityType
  <2>9. unmet[m] = Cardinality(Waits(manifests, m, R)) /\ unmet[m] \in Nat
    BY <1>11
  <2>10. left[m] = Cardinality(Waits(manifests, m, R \cup {n})) /\ left[m] \in Nat
    BY <2>1, <2>4, <2>5, <2>6, <2>9
  <2>11. left[m] <= unmet[m]
    BY <2>6, <2>8, <2>9
  <2> QED BY <2>10, <2>11
<1>15. PICK F \in SUBSET Manifested : F = {m \in Manifested : unmet[m] > 0 /\ left[m] = 0}
  <2>1. {m \in Manifested : unmet[m] > 0 /\ left[m] = 0} \in SUBSET Manifested
    OBVIOUS
  <2> QED BY <2>1
<1>16. freed \in Seq(F) /\ NoRepeats(freed) /\ Ran(freed) = F
  <2>1. IsFiniteSet(F)
    BY <1>6, FS_Subset
  <2> QED BY <1>5, <1>15, <2>1, ListsAll
<1>17. freed \in Seq(Manifested)
  BY <1>16, SeqMonotonic
<1>18. Ran(ready) = {m \in Manifested : unmet[m] = 0} \ R
  BY <1>6, <1>10 DEF SortInv
<1>19. Ran(Tail(ready)) \cap Ran(freed) = {}
  <2>1. \A m \in F : unmet[m] # 0
    BY <1>11, <1>15
  <2> QED BY <1>8, <1>16, <1>18, <2>1
<1>20. /\ ready' \in Seq(Manifested) /\ NoRepeats(ready')
       /\ Ran(ready') = (Ran(ready) \ {n}) \cup F
  <2>1. PICK tl \in Seq(Manifested) : tl = Tail(ready)
    BY <1>8
  <2>2. /\ NoRepeats(tl) /\ NoRepeats(freed) /\ Ran(tl) \cap Ran(freed) = {}
        /\ ready' = tl \o freed /\ Ran(tl) = Ran(ready) \ {n}
    BY <1>5, <1>8, <1>16, <1>19, <2>1
  <2>3. tl \o freed \in Seq(Manifested) /\ NoRepeats(tl \o freed) /\ Ran(tl \o freed) = Ran(tl) \cup Ran(freed)
    <3>1. tl \in Seq(Manifested) /\ freed \in Seq(Manifested)
      BY <1>17
    <3>2. NoRepeats(tl) /\ NoRepeats(freed) /\ Ran(tl) \cap Ran(freed) = {}
      BY <2>2
    <3>3. \A s, u \in Seq(Manifested) : NoRepeats(s) /\ NoRepeats(u) /\ Ran(s) \cap Ran(u) = {} =>
             s \o u \in Seq(Manifested) /\ NoRepeats(s \o u) /\ Ran(s \o u) = Ran(s) \cup Ran(u)
      BY Joins
    <3> QED BY <3>1, <3>2, <3>3
  <2> QED BY <1>16, <2>2, <2>3
<1>21. (Ran(ready) \ {n}) \cup F = {m \in Manifested : left[m] = 0} \ (R \cup {n})
  <2>1. \A m \in Manifested : m \in R => unmet[m] = 0
    <3> SUFFICES ASSUME NEW m \in Manifested, m \in R PROVE unmet[m] = 0
      OBVIOUS
    <3>1. PICK i \in 1..Len(sorted) : m = sorted[i]
      BY <1>10 DEF Ran
    <3>2. Needs(m) \subseteq {sorted[j] : j \in 1..(i - 1)}
      BY <1>7, <3>1 DEF InOrder, Needs
    <3>3. Len(sorted) \in Nat
      BY <1>6, LenProperties
    <3>4. \A j \in 1..(i - 1) : sorted[j] \in R
      BY <1>10, <3>1, <3>3 DEF Ran
    <3> QED BY <1>11, <3>2, <3>4
  <2>2. \A m \in Manifested : unmet[m] = 0 => left[m] = 0
    BY <1>11, <1>14
  <2>3. \A m \in Manifested : m \in F <=> unmet[m] # 0 /\ left[m] = 0
    BY <1>11, <1>15
  <2>4. \A m \in Manifested : m \in (Ran(ready) \ {n}) \cup F <=> left[m] = 0 /\ m \notin R \cup {n}
    BY <1>8, <1>9, <1>18, <2>1, <2>2, <2>3
  <2>5. (Ran(ready) \ {n}) \cup F \subseteq Manifested
    BY <1>15, <1>18
  <2> QED BY <2>4, <2>5
<1>22. Manifested' = Manifested /\ Needed' = Needed
  BY <1>1 DEF Manifested, Needed, Needs
<1>23. SortInv'
  <2>1. Needed \subseteq Manifested
    BY <1>6 DEF SortInv
  <2>2. \A m \in Manifested : unmet'[m] = Cardinality(Waits(manifests, m, Ran(sorted')))
    BY <1>4, <1>13, <1>14
  <2>3. Ran(ready') = {m \in Manifested : unmet'[m] = 0} \ Ran(sorted')
    BY <1>4, <1>13, <1>20, <1>21
  <2> QED BY <1>1, <1>20, <1>22, <2>1, <2>2, <2>3 DEF SortInv
<1>24. sorted' \in Seq(Manifested) /\ InOrder(loaded' \o sorted', manifests')
  <2>1. sorted' \in Seq(Manifested)
    BY <1>13 DEF InOrder, Manifested
  <2>2. loaded' \o sorted' = sorted'
    BY <1>1, <1>6, <2>1, ConcatEmptySeq
  <2> QED BY <1>1, <1>13, <2>1, <2>2
<1> QED BY <1>1, <1>22, <1>23, <1>24 DEF LoaderInv

LEMMA SortedKeeps == ASSUME LoaderInv, LoaderAssumption, SortedAll PROVE LoaderInv'
<1>1. /\ load = "sort" /\ ready = << >>
      /\ load' = IF Len(sorted) = Cardinality(Manifested) THEN "install" ELSE "circular"
      /\ manifests' = manifests /\ linked' = linked /\ sorted' = sorted /\ loaded' = loaded
  BY DEF SortedAll
<1>2. /\ SortInv /\ loaded = << >> /\ sorted \in Seq(Manifested) /\ InOrder(loaded \o sorted, manifests)
      /\ manifests \in Manifests /\ IsFiniteSet(Manifested) /\ Needed \subseteq linked
  BY <1>1 DEF LoaderInv, LoaderAssumption, Manifested
<1>3. loaded \o sorted = sorted
  BY <1>2, ConcatEmptySeq
<1>4. IsFiniteSet(Ran(sorted)) /\ Cardinality(Ran(sorted)) = Len(sorted)
  BY <1>2, <1>3, ListCounts DEF InOrder
<1>5. Ran(sorted) \in SUBSET Manifested
  BY <1>2, LenProperties DEF Ran
<1>6. CASE Len(sorted) = Cardinality(Manifested)
  <2>1. Ran(sorted) = Manifested
    BY <1>2, <1>4, <1>5, <1>6, FS_Subset
  <2>2. Needed' = Needed /\ Manifested' = Manifested /\ load' = "install"
    BY <1>1, <1>6 DEF Needed, Manifested, Needs
  <2> QED BY <1>1, <1>2, <1>3, <2>1, <2>2 DEF LoaderInv
<1>7. CASE Len(sorted) # Cardinality(Manifested)
  <2>1. PICK S : S = Manifested \ Ran(sorted)
    OBVIOUS
  <2>2. S # {}
    <3>1. S = {} => Ran(sorted) = Manifested
      BY <1>5, <2>1
    <3> QED BY <1>4, <1>7, <3>1
  <2>3. ASSUME NEW n \in S PROVE Range(manifests[n]) \cap S # {}
    <3>1. Ran(ready) = {}
      BY <1>1, EmptySeq DEF Ran
    <3>2. n \in DOMAIN manifests /\ unmet[n] # 0
      BY <1>2, <2>1, <3>1 DEF SortInv, Manifested
    <3>3. ~ Range(manifests[n]) \subseteq Ran(sorted)
      BY <1>2, <2>1, <3>2, OpenIsFinite DEF SortInv
    <3>4. Range(manifests[n]) \subseteq Manifested
      BY <1>2, <3>2 DEF SortInv, Needed, Needs, Manifested
    <3> QED BY <2>1, <3>3, <3>4
  <2>4. Circle(manifests)
    BY <2>1, <2>2, <2>3 DEF Circle, Manifested
  <2>5. Needed' = Needed /\ Manifested' = Manifested /\ load' = "circular"
    BY <1>1, <1>7 DEF Needed, Manifested, Needs
  <2> QED BY <1>1, <1>2, <2>4, <2>5 DEF LoaderInv
<1> QED BY <1>6, <1>7

\* The head of what is to do joins what is done.
LEMMA MovesOver ==
  ASSUME NEW S, NEW s \in Seq(S), NEW t \in Seq(S), t # << >>
  PROVE  Append(s, Head(t)) \o Tail(t) = s \o t
<1>1. PICK n \in Nat, m \in Nat : n = Len(s) /\ m = Len(t) /\ m >= 1
  BY LenProperties, EmptySeq
<1>2. PICK tl \in Seq(S) : tl = Tail(t) /\ Len(tl) = m - 1 /\ \A i \in 1..(m - 1) : tl[i] = t[i + 1]
  <2>1. /\ Tail(t) \in Seq(S) /\ Len(Tail(t)) = m - 1
        /\ \A i \in 1..Len(Tail(t)) : Tail(t)[i] = t[i + 1]
    BY <1>1, HeadTailProperties
  <2> QED BY <2>1
<1>3. PICK h \in S : h = Head(t) /\ h = t[1]
  BY <1>1, HeadTailProperties, LenProperties
<1>4. PICK u \in Seq(S) : /\ u = Append(s, h) /\ Len(u) = n + 1 /\ u[n + 1] = h
                         /\ \A i \in 1..n : u[i] = s[i]
  <2>1. /\ Append(s, h) \in Seq(S) /\ Len(Append(s, h)) = Len(s) + 1 /\ Append(s, h)[Len(s) + 1] = h
        /\ \A i \in 1..Len(s) : Append(s, h)[i] = s[i]
    BY Grows
  <2> QED BY <1>1, <2>1
<1>5. /\ u \o tl \in Seq(S) /\ Len(u \o tl) = (n + 1) + (m - 1)
      /\ \A i \in 1..((n + 1) + (m - 1)) : (u \o tl)[i] = IF i <= n + 1 THEN u[i] ELSE tl[i - (n + 1)]
  <2>1. /\ u \o tl \in Seq(S) /\ Len(u \o tl) = Len(u) + Len(tl)
        /\ \A i \in 1..(Len(u) + Len(tl)) : (u \o tl)[i] = IF i <= Len(u) THEN u[i] ELSE tl[i - Len(u)]
    BY ConcatProperties
  <2>2. Len(u) = n + 1 /\ Len(tl) = m - 1
    BY <1>2, <1>4
  <2> QED BY <2>1, <2>2
<1>6. /\ s \o t \in Seq(S) /\ Len(s \o t) = n + m
      /\ \A i \in 1..(n + m) : (s \o t)[i] = IF i <= n THEN s[i] ELSE t[i - n]
  BY <1>1, ConcatProperties
<1>7. (n + 1) + (m - 1) = n + m
  BY <1>1
<1>8. ASSUME NEW i \in 1..(n + m) PROVE (u \o tl)[i] = (s \o t)[i]
  <2>1. (u \o tl)[i] = IF i <= n + 1 THEN u[i] ELSE tl[i - (n + 1)]
    BY <1>5, <1>7
  <2>2. (s \o t)[i] = IF i <= n THEN s[i] ELSE t[i - n]
    BY <1>6
  <2>3. CASE i <= n
    BY <1>4, <2>1, <2>2, <2>3
  <2>4. CASE i = n + 1
    <3>1. ~ (i <= n) /\ i <= n + 1 /\ i - n = 1
      BY <2>4
    <3> QED BY <1>3, <1>4, <2>1, <2>2, <2>4, <3>1
  <2>5. CASE i > n + 1
    <3>1. ~ (i <= n) /\ ~ (i <= n + 1) /\ i - (n + 1) \in 1..(m - 1) /\ (i - (n + 1)) + 1 = i - n
      BY <1>1, <2>5
    <3> QED BY <1>2, <2>1, <2>2, <3>1
  <2>6. i <= n \/ i = n + 1 \/ i > n + 1
    OBVIOUS
  <2> QED BY <2>3, <2>4, <2>5, <2>6
<1>9. u \o tl = s \o t
  BY <1>5, <1>6, <1>7, <1>8, SeqEqual
<1> QED BY <1>2, <1>3, <1>4, <1>9

LEMMA LoadKeeps == ASSUME LoaderInv, NEW ok \in BOOLEAN, LoadByName(ok) PROVE LoaderInv'
<1>1. /\ load = "install" /\ sorted # << >>
      /\ \/ /\ Head(sorted) \in linked /\ loaded' = Append(loaded, Head(sorted)) /\ sorted' = Tail(sorted)
            /\ load' = load
         \/ load' = "failed" /\ loaded' = loaded /\ sorted' = sorted
      /\ manifests' = manifests /\ linked' = linked
  BY DEF LoadByName
<1>2. Needed' = Needed /\ Manifested' = Manifested
  BY <1>1 DEF Needed, Manifested, Needs
<1>3. loaded \in Seq(Manifested) /\ sorted \in Seq(Manifested)
  BY DEF LoaderInv
<1>4. CASE load' = "failed" /\ loaded' = loaded /\ sorted' = sorted
  BY <1>1, <1>2, <1>4 DEF LoaderInv
<1>5. CASE /\ Head(sorted) \in linked /\ loaded' = Append(loaded, Head(sorted)) /\ sorted' = Tail(sorted)
           /\ load' = load
  <2>1. loaded' \o sorted' = loaded \o sorted
    BY <1>1, <1>3, <1>5, MovesOver
  <2>2. Head(sorted) \in Manifested /\ sorted' \in Seq(Manifested)
    BY <1>1, <1>3, <1>5, HeadTailProperties
  <2>3. /\ loaded' \in Seq(Manifested) /\ Len(loaded') = Len(loaded) + 1 /\ Len(loaded) \in Nat
        /\ loaded'[Len(loaded) + 1] = Head(sorted) /\ \A i \in 1..Len(loaded) : loaded'[i] = loaded[i]
    BY <1>3, <1>5, <2>2, Grows
  <2>4. \A i \in 1..Len(loaded') : loaded'[i] \in linked
    <3>1. \A i \in 1..(Len(loaded) + 1) : i \in 1..Len(loaded) \/ i = Len(loaded) + 1
      BY <2>3
    <3> QED BY <1>5, <2>3, <3>1 DEF LoaderInv
  <2> QED BY <1>1, <1>2, <1>5, <2>1, <2>2, <2>3, <2>4 DEF LoaderInv
<1> QED BY <1>1, <1>4, <1>5

LEMMA LoaderKeeps ==
  ASSUME LoaderInv, LoaderAssumption, LoaderNext \/ UNCHANGED loaderVars PROVE LoaderInv'
<1>1. CASE UNCHANGED loaderVars
  <2>1. UNCHANGED <<manifests, linked, unmet, ready, sorted, loaded, load>>
    BY <1>1 DEF loaderVars
  <2>2. Needed' = Needed /\ Manifested' = Manifested
    BY <2>1 DEF Needed, Manifested, Needs
  <2>3. SortInv' <=> SortInv
    BY <2>1, <2>2 DEF SortInv
  <2> QED BY <2>1, <2>2, <2>3 DEF LoaderInv
<1>2. CASE LoadReturns
  <2>1. /\ load = "install" /\ sorted = << >> /\ load' = "ok"
        /\ UNCHANGED <<manifests, linked, unmet, ready, sorted, loaded>>
    BY <1>2 DEF LoadReturns
  <2>2. Needed' = Needed /\ Manifested' = Manifested
    BY <2>1 DEF Needed, Manifested, Needs
  <2> QED BY <2>1, <2>2 DEF LoaderInv
<1> QED BY <1>1, <1>2, CollectKeeps, PopKeeps, SortedKeeps, LoadKeeps DEF LoaderNext

LEMMA LoaderIsInOrder == ASSUME LoaderInv PROVE LoadsInOrder
<1>1. loaded \in Seq(Manifested) /\ sorted \in Seq(Manifested)
  BY DEF LoaderInv
<1>2. PICK n \in Nat, m \in Nat : n = Len(loaded) /\ m = Len(sorted) /\ DOMAIN loaded = 1..n
  BY <1>1, LenProperties
<1>3. PICK o : o = loaded \o sorted
  OBVIOUS
<1>4. /\ o \in Seq(Manifested) /\ Len(o) = n + m
      /\ \A i \in 1..(n + m) : o[i] = IF i <= n THEN loaded[i] ELSE sorted[i - n]
  BY <1>1, <1>2, <1>3, ConcatProperties
<1>5. \A i \in 1..n : i \in 1..(n + m) /\ o[i] = loaded[i]
  BY <1>4
<1>6. InOrder(o, manifests)
  BY <1>3 DEF LoaderInv
<1>7. IsInjective(loaded) /\ Range(loaded) \subseteq Manifested \cap linked
  <2>1. IsInjective(loaded)
    BY <1>2, <1>4, <1>5, <1>6 DEF InOrder, NoRepeats, IsInjective
  <2>2. \A i \in 1..n : loaded[i] \in Manifested /\ loaded[i] \in linked
    BY <1>1, <1>2, ElementOfSeq DEF LoaderInv
  <2> QED BY <1>2, <2>1, <2>2 DEF Range
<1>8. ASSUME NEW i \in 1..n PROVE Needs(loaded[i]) \subseteq {loaded[j] : j \in 1..(i - 1)}
  <2>1. Range(manifests[o[i]]) \subseteq {o[j] : j \in 1..(i - 1)}
    BY <1>4, <1>5, <1>6 DEF InOrder
  <2>2. \A j \in 1..(i - 1) : j \in 1..n
    OBVIOUS
  <2>3. {o[j] : j \in 1..(i - 1)} = {loaded[j] : j \in 1..(i - 1)}
    BY <1>5, <2>2
  <2> QED BY <1>5, <2>1, <2>3 DEF Needs
<1>9. load \in {"install", "failed", "ok"} => ~ Circle(manifests)
  BY <1>3, <1>6, InOrderIsNoCircle DEF LoaderInv, Manifested
<1>10. load \in {"circular", "install", "failed", "ok"} => (load = "circular" <=> Circle(manifests))
  BY <1>9 DEF LoaderInv
<1>11. load = "ok" => Range(loaded) = Manifested
  <2> SUFFICES ASSUME load = "ok" PROVE Range(loaded) = Manifested
    OBVIOUS
  <2>1. sorted = << >> /\ Manifested \subseteq Ran(o)
    BY <1>3 DEF LoaderInv
  <2>2. m = 0
    BY <1>2, <2>1, EmptySeq
  <2>3. \A i \in 1..(n + m) : i \in 1..n
    BY <2>2
  <2>4. Ran(o) \subseteq Range(loaded)
    BY <1>2, <1>4, <1>5, <2>3 DEF Ran, Range
  <2> QED BY <1>7, <2>1, <2>4
<1>12. load = "failed" => Range(loaded) # Manifested
  <2> SUFFICES ASSUME load = "failed" PROVE Range(loaded) # Manifested
    OBVIOUS
  <2>1. m >= 1
    BY <1>1, <1>2, EmptySeq DEF LoaderInv
  <2>2. n + 1 \in 1..(n + m)
    BY <2>1
  <2>3. \A i \in 1..n : i # n + 1
    OBVIOUS
  <2>4. \A i \in 1..n : loaded[i] # o[n + 1]
    BY <1>4, <1>5, <1>6, <2>2, <2>3 DEF InOrder, NoRepeats
  <2>5. o[n + 1] \in Manifested
    BY <1>4, <2>2, ElementOfSeq
  <2> QED BY <1>2, <2>4, <2>5 DEF Range
<1>13. load \in {"missing", "panicked", "circular"} => loaded = << >>
  BY DEF LoaderInv
<1>14. load # "collect" => (load = "missing" <=> ~ Needed \subseteq linked)
  BY DEF LoaderInv
<1> QED BY <1>2, <1>7, <1>8, <1>10, <1>11, <1>12, <1>13, <1>14 DEF LoadsInOrder, Circle, Manifested, Needs

-----------------------------------------------------------------------------
(* The task DAG.                                                           *)

Deps == [n \in TaskNames |-> DependsOn(n)]

\* Of S each waits for another of S, or cannot be counted down.
StuckIn(ms, S) == \A n \in S : Range(ms[n]) \cap S # {} \/ Len(ms[n]) > Cardinality(Range(ms[n]))

NamesDiffer == \A i, j \in 1..Len(dag) : dag[i].name = dag[j].name => i = j

\* What the sort has found out so far.
Counted(ms, o, deg, rs) ==
  /\ \A m \in DOMAIN ms : Range(ms[m]) \subseteq DOMAIN ms
  /\ \A m \in DOMAIN ms : deg[m] = Len(ms[m]) - Cardinality(Range(ms[m]) \cap Ran(o))
  /\ \A m \in Ran(o) : Len(ms[m]) = Cardinality(Range(ms[m]))
  /\ rs \in Seq(DOMAIN ms) /\ NoRepeats(rs) /\ Ran(rs) = {m \in DOMAIN ms : deg[m] = 0} \ Ran(o)

\* The batch holds tasks that may run; the first of it may be running.
BatchInv ==
  /\ TaskNames \subseteq Ran(order)
  /\ \A n \in TaskNames : Len(Deps[n]) = Cardinality(Range(Deps[n]))
  /\ status \in [TaskNames -> {"Pending", "Running", "Completed"}]
  /\ batch \in Seq(TaskNames) /\ NoRepeats(batch)
  /\ \A n \in Ran(batch) : /\ status[n] # "Completed"
                           /\ \A d \in Range(Deps[n]) : d \in TaskNames /\ status[d] = "Completed"
  /\ \A n \in TaskNames : status[n] = "Running" => batch # << >> /\ n = Head(batch)
  /\ InOrder(started, Deps) /\ Ran(started) = {n \in TaskNames : status[n] # "Pending"}

DagInv ==
  /\ dag \in Dags
  /\ InOrder(order, Deps)
  /\ phase = "read" => order = << >> /\ started = << >> /\ batch = << >>
  /\ phase = "sort" => order \in Seq(TaskNames) /\ started = << >> /\ batch = << >>
  /\ phase \notin {"read", "DuplicateTask"} => NamesDiffer
  /\ phase = "sort" => Counted(Deps, order, in_degree, roots)
  /\ phase = "Cycle" => \E S \in (SUBSET TaskNames) \ {{}} : StuckIn(Deps, S)
  /\ phase \in {"run", "ended"} => BatchInv
  /\ phase = "ended" => \A n \in TaskNames : status[n] = "Completed"

LEMMA RangeCounts ==
  ASSUME NEW T, NEW s \in Seq(T)
  PROVE  /\ IsFiniteSet(Range(s)) /\ Cardinality(Range(s)) \in Nat /\ Cardinality(Range(s)) <= Len(s)
         /\ Range(s) = Ran(s) /\ Range(s) \subseteq T
         /\ Cardinality(Range(s)) = Len(s) => NoRepeats(s)
<1>1. PICK n \in Nat : n = Len(s) /\ DOMAIN s = 1..n /\ s \in [1..n -> T]
  BY LenProperties
<1>2. PICK R : R = Range(s)
  OBVIOUS
<1>3. s \in Surjection(1..n, R)
  BY <1>1, <1>2 DEF Surjection, Range
<1>4. IsFiniteSet(1..n) /\ Cardinality(1..n) = n
  BY FS_Interval
<1>5. IsFiniteSet(R) /\ Cardinality(R) <= n /\ (Cardinality(R) = n <=> s \in Injection(1..n, R))
  BY <1>3, <1>4, FS_Surjection
<1>6. Cardinality(R) \in Nat
  BY <1>5, FS_CardinalityType
<1>7. s \in Injection(1..n, R) => NoRepeats(s)
  BY <1>1 DEF Injection, IsInjective, NoRepeats
<1>8. R = Ran(s) /\ R \subseteq T
  BY <1>1, <1>2 DEF Range, Ran
<1> QED BY <1>1, <1>2, <1>5, <1>6, <1>7, <1>8

LEMMA DagFacts ==
  ASSUME DagAssumption, dag \in Dags
  PROVE  /\ Len(dag) \in Nat /\ Positions = 1..Len(dag)
         /\ \A i \in 1..Len(dag) : dag[i].name \in TaskNames /\ dag[i].depends_on \in Seq(Nat)
         /\ TaskNames \subseteq Nat /\ IsFiniteSet(TaskNames)
         /\ \A n \in TaskNames : \E i \in 1..Len(dag) : n = dag[i].name /\ Deps[n] = dag[i].depends_on
         /\ \A n \in TaskNames : Deps[n] \in Seq(Nat)
         /\ DOMAIN Deps = TaskNames
         /\ Cardinality(TaskNames) = Len(dag) => NamesDiffer
         /\ NamesDiffer => Cardinality(TaskNames) = Len(dag)
<1>1. dag \in Seq([name : Nat, depends_on : Seq(Nat)])
  BY DEF DagAssumption
<1>2. PICK l \in Nat : l = Len(dag) /\ DOMAIN dag = 1..l /\ Positions = 1..l
  BY <1>1, LenProperties DEF Positions
<1>3. \A i \in 1..l : dag[i] \in [name : Nat, depends_on : Seq(Nat)]
  BY <1>1, <1>2, ElementOfSeq
<1>4. \A i \in 1..l : dag[i].name \in Nat /\ dag[i].depends_on \in Seq(Nat) /\ dag[i].name \in TaskNames
  BY <1>2, <1>3 DEF TaskNames
<1>5. PICK s : s = [i \in 1..l |-> dag[i].name]
  OBVIOUS
<1>6. s \in Seq(Nat)
  <2>1. s \in [1..l -> Nat]
    BY <1>4, <1>5
  <2> QED BY <2>1, SeqDef
<1>7. Len(s) = l
  <2>1. Len(s) \in Nat /\ DOMAIN s = 1..Len(s)
    BY <1>6, LenProperties
  <2>2. 1..Len(s) = 1..l
    BY <1>5, <2>1
  <2>3. \A p, q \in Nat : 1..p = 1..q => p = q
    OBVIOUS
  <2> QED BY <2>1, <2>2, <2>3
<1>8. Range(s) = TaskNames
  BY <1>2, <1>5 DEF Range, TaskNames
<1>9. /\ IsFiniteSet(TaskNames) /\ TaskNames \subseteq Nat
      /\ Cardinality(TaskNames) = l => NoRepeats(s)
  BY <1>6, <1>7, <1>8, RangeCounts
<1>10. NoRepeats(s) <=> NamesDiffer
  BY <1>2, <1>5, <1>7 DEF NoRepeats, NamesDiffer
<1>11. NoRepeats(s) => Cardinality(TaskNames) = l
  BY <1>6, <1>7, <1>8, ListCounts, RangeCounts
<1>12. ASSUME NEW n \in TaskNames PROVE \E i \in 1..l : n = dag[i].name /\ Deps[n] = dag[i].depends_on
  <2>1. PICK i : i = CHOOSE k \in Positions : dag[k].name = n
    OBVIOUS
  <2>2. i \in 1..l /\ dag[i].name = n
    BY <1>2, <2>1 DEF TaskNames
  <2>3. Deps[n] = dag[i].depends_on
    BY <2>1 DEF Deps, DependsOn
  <2> QED BY <2>2, <2>3
<1>13. DOMAIN Deps = TaskNames
  BY DEF Deps
<1>14. \A n \in TaskNames : Deps[n] \in Seq(Nat)
  BY <1>4, <1>12
<1> QED BY <1>2, <1>4, <1>9, <1>10, <1>11, <1>12, <1>13, <1>14

LEMMA AscendingLists ==
  ASSUME NEW S \in SUBSET Nat, IsFiniteSet(S)
  PROVE  Ascending(S) \in Seq(S) /\ NoRepeats(Ascending(S)) /\ Ran(Ascending(S)) = S
<1>1. PICK L : L = OpToRel(<, Nat)
  OBVIOUS
<1>2. \A x, y \in Nat : <<x, y>> \in L <=> x < y
  BY <1>1 DEF OpToRel
<1>3. \A i \in S : {m \in S : m < i} = {m \in S : <<m, i>> \in L}
  BY <1>2
<1>4. PICK f : f = Ascending(S)
  OBVIOUS
<1>5. Ranks(S, L, f)
  <2>1. f = [k \in 1..Cardinality(S) |-> f[k]]
    <3> DEFINE Kth(k) == CHOOSE n \in S : Cardinality({m \in S : m < n}) = k - 1
    <3>1. f = [k \in 1..Cardinality(S) |-> Kth(k)]
      BY <1>4 DEF Ascending
    <3> HIDE DEF Kth
    <3> QED BY <3>1
  <2>2. ASSUME NEW k \in 1..Cardinality(S), \E i \in S : Cardinality({m \in S : m < i}) = k - 1
        PROVE  f[k] \in S /\ Cardinality({m \in S : m < f[k]}) = k - 1
    <3>1. f[k] = CHOOSE n \in S : Cardinality({m \in S : m < n}) = k - 1
      BY <1>4 DEF Ascending
    <3> QED BY <2>2, <3>1
  <2> QED BY <1>3, <2>1, <2>2 DEF Ranks
<1>6. /\ \A i \in S : <<i, i>> \notin L
      /\ \A i, j \in S : i # j => <<i, j>> \in L \/ <<j, i>> \in L
      /\ \A i, j, k \in S : <<i, j>> \in L /\ <<j, k>> \in L => <<i, k>> \in L
  <2>1. \A i \in Nat : ~ (i < i)
    OBVIOUS
  <2>2. \A i, j \in Nat : i # j => i < j \/ j < i
    OBVIOUS
  <2>3. \A i, j, k \in Nat : i < j /\ j < k => i < k
    OBVIOUS
  <2> QED BY <1>2, <2>1, <2>2, <2>3
<1>7. f \in Seq(S) /\ NoRepeats(f) /\ Ran(f) = S
  BY <1>5, <1>6, RanksOrder
<1> QED BY <1>4, <1>7

\* The names at some positions of the list.
LEMMA NamesAtPlaces ==
  ASSUME DagAssumption, dag \in Dags, NamesDiffer, NEW P \in SUBSET (1..Len(dag))
  PROVE  /\ NamesAt(P) \in Seq(TaskNames) /\ NoRepeats(NamesAt(P))
         /\ Ran(NamesAt(P)) = {dag[i].name : i \in P}
<1>1. PICK l \in Nat : l = Len(dag)
  BY DagFacts
<1>2. P \in SUBSET Nat /\ IsFiniteSet(P)
  <2>1. IsFiniteSet(1..l)
    BY FS_Interval
  <2>2. P \in SUBSET (1..l)
    BY <1>1
  <2>3. IsFiniteSet(P)
    BY <2>1, <2>2, FS_Subset
  <2> QED BY <2>2, <2>3
<1>3. PICK f : f = Ascending(P) /\ f \in Seq(P) /\ NoRepeats(f) /\ Ran(f) = P
  BY <1>2, AscendingLists
<1>4. PICK n \in Nat : n = Len(f) /\ DOMAIN f = 1..n
  BY <1>3, LenProperties
<1>5. PICK g : g = NamesAt(P) /\ g = [k \in 1..n |-> dag[f[k]].name]
  BY <1>3, <1>4 DEF NamesAt
<1>6. \A k \in 1..n : f[k] \in P /\ f[k] \in 1..l /\ dag[f[k]].name \in TaskNames
  BY <1>1, <1>3, <1>4, DagFacts DEF Ran
<1>7. g \in Seq(TaskNames)
  <2>1. g \in [1..n -> TaskNames]
    BY <1>5, <1>6
  <2> QED BY <2>1, SeqDef
<1>8. Len(g) = n
  <2>1. Len(g) \in Nat /\ DOMAIN g = 1..Len(g)
    BY <1>7, LenProperties
  <2>2. 1..Len(g) = 1..n
    BY <1>5, <2>1
  <2>3. \A p, q \in Nat : 1..p = 1..q => p = q
    OBVIOUS
  <2> QED BY <2>1, <2>2, <2>3
<1>9. NoRepeats(g)
  <2> SUFFICES ASSUME NEW j \in 1..n, NEW k \in 1..n, g[j] = g[k] PROVE j = k
    BY <1>8 DEF NoRepeats
  <2>1. f[j] \in 1..Len(dag) /\ f[k] \in 1..Len(dag) /\ dag[f[j]].name = dag[f[k]].name
    BY <1>1, <1>5, <1>6
  <2>2. f[j] = f[k]
    BY <2>1 DEF NamesDiffer
  <2> QED BY <1>3, <1>4, <2>2 DEF NoRepeats
<1>10. Ran(g) = {dag[i].name : i \in P}
  <2>1. \A k \in 1..n : g[k] \in {dag[i].name : i \in P}
    BY <1>5, <1>6
  <2>2. ASSUME NEW i \in P PROVE dag[i].name \in Ran(g)
    <3>1. PICK k \in 1..n : f[k] = i
      BY <1>3, <1>4 DEF Ran
    <3> QED BY <1>5, <1>8, <3>1 DEF Ran
  <2> QED BY <1>8, <2>1, <2>2 DEF Ran
<1> QED BY <1>5, <1>7, <1>9, <1>10

\* Whom the root frees: those that waited for nothing else.
LEMMA FreedAre ==
  ASSUME DagAssumption, dag \in Dags, NamesDiffer, NEW n
  PROVE  /\ Freed(n) \in Seq(TaskNames) /\ NoRepeats(Freed(n))
         /\ Ran(Freed(n)) = {m \in TaskNames : n \in Range(Deps[m]) /\ in_degree[m] = 1}
<1>1. PICK P : P = {i \in Dependents(n) : in_degree[dag[i].name] = 1}
  OBVIOUS
<1>2. P \in SUBSET (1..Len(dag))
  BY <1>1, DagFacts DEF Dependents
<1>3. /\ Freed(n) \in Seq(TaskNames) /\ NoRepeats(Freed(n))
      /\ Ran(Freed(n)) = {dag[i].name : i \in P}
  BY <1>1, <1>2, NamesAtPlaces DEF Freed
<1>4. \A i \in 1..Len(dag) : dag[i].name \in TaskNames /\ Deps[dag[i].name] = dag[i].depends_on
  <2> SUFFICES ASSUME NEW i \in 1..Len(dag)
               PROVE  dag[i].name \in TaskNames /\ Deps[dag[i].name] = dag[i].depends_on
    OBVIOUS
  <2>1. dag[i].name \in TaskNames
    BY DagFacts
  <2>2. PICK j \in 1..Len(dag) : dag[i].name = dag[j].name /\ Deps[dag[i].name] = dag[j].depends_on
    BY <2>1, DagFacts
  <2>3. i = j
    BY <2>2 DEF NamesDiffer
  <2> QED BY <2>1, <2>2, <2>3
<1>5. \A i : i \in P <=> i \in 1..Len(dag) /\ n \in Range(dag[i].depends_on) /\ in_degree[dag[i].name] = 1
  BY <1>1, DagFacts DEF Dependents
<1>6. \A m \in TaskNames : \E i \in 1..Len(dag) : m = dag[i].name /\ Deps[m] = dag[i].depends_on
  BY DagFacts
<1>7. {dag[i].name : i \in P} = {m \in TaskNames : n \in Range(Deps[m]) /\ in_degree[m] = 1}
  <2>1. ASSUME NEW i \in P
        PROVE  dag[i].name \in {m \in TaskNames : n \in Range(Deps[m]) /\ in_degree[m] = 1}
    BY <1>4, <1>5
  <2>2. ASSUME NEW m \in TaskNames, n \in Range(Deps[m]), in_degree[m] = 1
        PROVE  m \in {dag[i].name : i \in P}
    <3>1. PICK i \in 1..Len(dag) : m = dag[i].name /\ Deps[m] = dag[i].depends_on
      BY <1>6
    <3>2. i \in P
      BY <1>5, <2>2, <3>1
    <3> QED BY <3>1, <3>2
  <2> QED BY <2>1, <2>2
<1> QED BY <1>3, <1>7

LEMMA DepsStay == ASSUME dag' = dag PROVE TaskNames' = TaskNames /\ Deps' = Deps /\ (NamesDiffer' <=> NamesDiffer)
BY DEF TaskNames, Positions, Deps, DependsOn, NamesDiffer

LEMMA DagInitInv == ASSUME DagInit, DagAssumption PROVE DagInv
<1>1. dag \in Dags /\ phase = "read" /\ order = << >> /\ started = << >> /\ batch = << >>
  BY DEF DagInit
<1>2. InOrder(<< >>, Deps)
  <2>1. << >> \in Seq(DOMAIN Deps) /\ Len(<< >>) = 0
    BY EmptySeq
  <2> QED BY <2>1 DEF InOrder, NoRepeats
<1> QED BY <1>1, <1>2 DEF DagInv

LEMMA ValidateKeeps == ASSUME DagInv, DagAssumption, Validate PROVE DagInv'
<1>1. /\ phase = "read" /\ dag' = dag /\ order' = order /\ started' = started /\ batch' = batch
      /\ order = << >> /\ started = << >> /\ batch = << >> /\ dag \in Dags
  BY DEF Validate, DagInv
<1>2. TaskNames' = TaskNames /\ Deps' = Deps /\ (NamesDiffer' <=> NamesDiffer)
  BY <1>1, DepsStay
<1>3. InOrder(order', Deps')
  BY <1>1, <1>2 DEF DagInv
<1>4. CASE phase' = "DuplicateTask"
  BY <1>1, <1>3, <1>4 DEF DagInv
<1>5. CASE phase' = "UnknownDep" /\ Cardinality(TaskNames) = Len(dag)
  BY <1>1, <1>2, <1>3, <1>5, DagFacts DEF DagInv
<1>6. CASE /\ Cardinality(TaskNames) = Len(dag) /\ phase' = "sort"
           /\ \A i \in Positions : Range(dag[i].depends_on) \subseteq TaskNames
           /\ in_degree' = [n \in TaskNames |-> Len(DependsOn(n))]
           /\ roots' = Ascending({n \in TaskNames : [m \in TaskNames |-> Len(DependsOn(m))][n] = 0})
  <2>1. NamesDiffer
    BY <1>1, <1>6, DagFacts
  <2>2. \A m \in TaskNames : Range(Deps[m]) \subseteq TaskNames
    BY <1>1, <1>6, DagFacts
  <2>3. order' \in Seq(TaskNames) /\ Ran(order') = {}
    BY <1>1, EmptySeq DEF Ran
  <2>4. \A m \in TaskNames : in_degree'[m] = Len(Deps[m]) /\ Len(Deps[m]) \in Nat
    <3>1. \A m \in TaskNames : in_degree'[m] = Len(Deps[m])
      BY <1>6 DEF Deps
    <3>2. \A m \in TaskNames : Deps[m] \in Seq(Nat)
      BY <1>1, DagFacts
    <3> QED BY <3>1, <3>2, LenProperties
  <2>5. \A m \in TaskNames : in_degree'[m] = Len(Deps[m]) - Cardinality(Range(Deps[m]) \cap Ran(order'))
    <3>1. Cardinality({}) = 0
      BY FS_EmptySet
    <3> SUFFICES ASSUME NEW m \in TaskNames
                 PROVE  in_degree'[m] = Len(Deps[m]) - Cardinality(Range(Deps[m]) \cap Ran(order'))
      OBVIOUS
    <3>2. Range(Deps[m]) \cap Ran(order') = {}
      BY <2>3
    <3>3. Cardinality(Range(Deps[m]) \cap Ran(order')) = 0
      BY <3>1, <3>2
    <3> QED BY <2>4, <3>3
  <2>6. PICK Z \in SUBSET TaskNames : Z = {n \in TaskNames : in_degree'[n] = 0}
    <3>1. {n \in TaskNames : in_degree'[n] = 0} \in SUBSET TaskNames
      OBVIOUS
    <3> QED BY <3>1
  <2>7. roots' = Ascending(Z)
    BY <1>6, <2>6
  <2>8. roots' \in Seq(Z) /\ NoRepeats(roots') /\ Ran(roots') = Z
    <3>1. Z \in SUBSET Nat /\ IsFiniteSet(Z)
      BY <1>1, DagFacts, FS_Subset
    <3> QED BY <2>7, <3>1, AscendingLists
  <2>9. roots' \in Seq(TaskNames)
    BY <2>8, SeqMonotonic
  <2>10. DOMAIN Deps = TaskNames
    BY DEF Deps
  <2>11. Counted(Deps, order', in_degree', roots')
    BY <2>2, <2>3, <2>5, <2>6, <2>8, <2>9, <2>10 DEF Counted
  <2> QED BY <1>1, <1>2, <1>3, <1>6, <2>1, <2>3, <2>11 DEF DagInv
<1> QED BY <1>4, <1>5, <1>6 DEF Validate

LEMMA TakesLast ==
  ASSUME NEW S, NEW s \in Seq(S), s # << >>, NoRepeats(s)
  PROVE  /\ Last(s) \in S /\ Last(s) \in Ran(s) /\ Front(s) \in Seq(S) /\ NoRepeats(Front(s))
         /\ Ran(Front(s)) = Ran(s) \ {Last(s)}
<1>1. PICK n \in Nat : n = Len(s) /\ n >= 1
  BY Shrinks
<1>2. PICK t \in Seq(S) : t = Front(s) /\ Len(t) = n - 1 /\ \A i \in 1..(n - 1) : t[i] = s[i]
  <2>1. /\ Front(s) \in Seq(S) /\ Len(Front(s)) = Len(s) - 1
        /\ \A i \in 1..(Len(s) - 1) : Front(s)[i] = s[i]
    BY Shrinks
  <2> QED BY <1>1, <2>1
<1>3. Last(s) = s[n] /\ s[n] \in S /\ n \in 1..n
  <2>1. Last(s) = s[Len(s)] /\ Last(s) \in S
    BY Shrinks
  <2> QED BY <1>1, <2>1
<1>4. /\ \A i \in 1..(n - 1) : i \in 1..n /\ i # n
      /\ \A i \in 1..n : i = n \/ i \in 1..(n - 1)
  BY <1>1
<1>5. NoRepeats(t)
  BY <1>1, <1>2, <1>4 DEF NoRepeats
<1>6. Ran(t) = Ran(s) \ {s[n]}
  <2>1. \A i \in 1..(n - 1) : t[i] \in Ran(s) /\ t[i] # s[n]
    BY <1>1, <1>2, <1>3, <1>4 DEF NoRepeats, Ran
  <2>2. \A j \in 1..n : s[j] = s[n] \/ s[j] \in Ran(t)
    BY <1>2, <1>4 DEF Ran
  <2>3. \A x : x \in Ran(t) => x \in Ran(s) /\ x # s[n]
    BY <1>2, <2>1 DEF Ran
  <2>4. \A x : x \in Ran(s) => x = s[n] \/ x \in Ran(t)
    <3> SUFFICES ASSUME NEW x \in Ran(s) PROVE x = s[n] \/ x \in Ran(t)
      OBVIOUS
    <3>1. PICK j \in 1..n : x = s[j]
      BY <1>1 DEF Ran
    <3> QED BY <2>2, <3>1
  <2> QED BY <2>3, <2>4
<1>7. s[n] \in Ran(s)
  BY <1>1, <1>3 DEF Ran
<1> QED BY <1>2, <1>3, <1>5, <1>6, <1>7

LEMMA CountedPops ==
  ASSUME NEW ms, \A m \in DOMAIN ms : ms[m] \in Seq(Nat), NEW o, NEW deg, NEW rs, rs # << >>,
         InOrder(o, ms), Counted(ms, o, deg, rs),
         NEW n, n = Last(rs), NEW fr \in Seq(DOMAIN ms), NoRepeats(fr),
         Ran(fr) = {m \in DOMAIN ms : n \in Range(ms[m]) /\ deg[m] = 1},
         NEW left, left = [m \in DOMAIN ms |-> IF n \in Range(ms[m]) THEN deg[m] - 1 ELSE deg[m]]
  PROVE  InOrder(Append(o, n), ms) /\ Counted(ms, Append(o, n), left, Front(rs) \o fr)
<1>1. PICK D : D = DOMAIN ms
  OBVIOUS
<1>2. PICK R : R = Ran(o)
  OBVIOUS
<1>3. /\ rs \in Seq(D) /\ NoRepeats(rs) /\ Ran(rs) = {m \in D : deg[m] = 0} \ R
      /\ \A m \in D : Range(ms[m]) \subseteq D /\ deg[m] = Len(ms[m]) - Cardinality(Range(ms[m]) \cap R)
      /\ \A m \in R : Len(ms[m]) = Cardinality(Range(ms[m]))
  BY <1>1, <1>2 DEF Counted
<1>4. /\ n \in D /\ n \in Ran(rs) /\ Front(rs) \in Seq(D) /\ NoRepeats(Front(rs))
      /\ Ran(Front(rs)) = Ran(rs) \ {n}
  BY <1>3, TakesLast
<1>5. n \notin R /\ deg[n] = 0
  BY <1>3, <1>4
<1>6. ASSUME NEW m \in D
      PROVE  /\ Len(ms[m]) \in Nat /\ IsFiniteSet(Range(ms[m])) /\ Cardinality(Range(ms[m])) \in Nat
             /\ Cardinality(Range(ms[m])) <= Len(ms[m])
             /\ \A Q : /\ IsFiniteSet(Range(ms[m]) \cap Q) /\ Cardinality(Range(ms[m]) \cap Q) \in Nat
                      /\ Cardinality(Range(ms[m]) \cap Q) <= Cardinality(Range(ms[m]))
                      /\ (Cardinality(Range(ms[m]) \cap Q) = Cardinality(Range(ms[m]))
                             => Range(ms[m]) \subseteq Q)
  <2>1. ms[m] \in Seq(Nat)
    BY <1>1
  <2>2. PICK V : V = Range(ms[m])
    OBVIOUS
  <2>3. Len(ms[m]) \in Nat /\ IsFiniteSet(V) /\ Cardinality(V) \in Nat /\ Cardinality(V) <= Len(ms[m])
    BY <2>1, <2>2, RangeCounts, LenProperties
  <2>4. ASSUME NEW Q
        PROVE  /\ IsFiniteSet(V \cap Q) /\ Cardinality(V \cap Q) \in Nat
               /\ Cardinality(V \cap Q) <= Cardinality(V)
               /\ (Cardinality(V \cap Q) = Cardinality(V) => V \subseteq Q)
    <3>1. PICK W \in SUBSET V : W = V \cap Q
      OBVIOUS
    <3>2. IsFiniteSet(W) /\ Cardinality(W) <= Cardinality(V) /\ (Cardinality(V) = Cardinality(W) => V = W)
      BY <2>3, <3>1, FS_Subset
    <3>3. Cardinality(W) \in Nat
      BY <3>2, FS_CardinalityType
    <3> QED BY <3>1, <3>2, <3>3
  <2> QED BY <2>2, <2>3, <2>4
<1>7. Range(ms[n]) \subseteq R /\ Len(ms[n]) = Cardinality(Range(ms[n]))
  <2>1. deg[n] = Len(ms[n]) - Cardinality(Range(ms[n]) \cap R)
    BY <1>3, <1>4
  <2>2. PICK x, y, z : x = Len(ms[n]) /\ y = Cardinality(Range(ms[n])) /\ z = Cardinality(Range(ms[n]) \cap R)
    OBVIOUS
  <2>3. x \in Nat /\ y \in Nat /\ z \in Nat /\ y <= x /\ z <= y
    BY <1>4, <1>6, <2>2
  <2>4. x = z
    BY <1>5, <2>1, <2>2, <2>3
  <2>5. x = y /\ z = y
    BY <2>3, <2>4
  <2> QED BY <1>4, <1>6, <2>2, <2>5
<1>8. InOrder(Append(o, n), ms) /\ Ran(Append(o, n)) = R \cup {n}
  BY <1>1, <1>2, <1>4, <1>5, <1>7, OrderGrows
<1>9. \A m \in R : m \in D /\ Range(ms[m]) \subseteq R
  <2> SUFFICES ASSUME NEW m \in R PROVE m \in D /\ Range(ms[m]) \subseteq R
    OBVIOUS
  <2>1. o \in Seq(D) /\ Len(o) \in Nat
    BY <1>1, LenProperties DEF InOrder
  <2>2. PICK i \in 1..Len(o) : m = o[i]
    BY <1>2 DEF Ran
  <2>3. m \in D
    BY <2>1, <2>2, ElementOfSeq
  <2>4. Range(ms[m]) \subseteq {o[j] : j \in 1..(i - 1)}
    BY <2>2 DEF InOrder
  <2>5. \A j \in 1..(i - 1) : j \in 1..Len(o)
    BY <2>1
  <2>6. \A j \in 1..(i - 1) : o[j] \in R
    BY <1>2, <2>5 DEF Ran
  <2> QED BY <2>3, <2>4, <2>6
<1>10. \A m \in R : deg[m] = 0
  <2> SUFFICES ASSUME NEW m \in R PROVE deg[m] = 0
    OBVIOUS
  <2>1. Range(ms[m]) \cap R = Range(ms[m]) /\ m \in D
    BY <1>9
  <2>2. deg[m] = Len(ms[m]) - Cardinality(Range(ms[m])) /\ Len(ms[m]) = Cardinality(Range(ms[m]))
    BY <1>3, <2>1
  <2>3. Len(ms[m]) \in Nat
    BY <1>6, <2>1
  <2> QED BY <2>2, <2>3
<1>11. \A m \in D : deg[m] \in Nat
  <2> SUFFICES ASSUME NEW m \in D PROVE deg[m] \in Nat
    OBVIOUS
  <2>1. PICK x, y, z : x = Len(ms[m]) /\ y = Cardinality(Range(ms[m])) /\ z = Cardinality(Range(ms[m]) \cap R)
    OBVIOUS
  <2>2. x \in Nat /\ y \in Nat /\ z \in Nat /\ y <= x /\ z <= y /\ deg[m] = x - z
    BY <1>3, <1>6, <2>1
  <2> QED BY <2>2
<1>12. \A m \in D : left[m] = Len(ms[m]) - Cardinality(Range(ms[m]) \cap (R \cup {n}))
  <2> SUFFICES ASSUME NEW m \in D
               PROVE  left[m] = Len(ms[m]) - Cardinality(Range(ms[m]) \cap (R \cup {n}))
    OBVIOUS
  <2>1. PICK W : W = Range(ms[m]) \cap R
    OBVIOUS
  <2>2. IsFiniteSet(W) /\ Cardinality(W) \in Nat /\ deg[m] = Len(ms[m]) - Cardinality(W) /\ Len(ms[m]) \in Nat
    BY <1>3, <1>6, <2>1
  <2>3. CASE n \in Range(ms[m])
    <3>1. Range(ms[m]) \cap (R \cup {n}) = W \cup {n} /\ n \notin W
      BY <1>5, <2>1, <2>3
    <3>2. Cardinality(W \cup {n}) = Cardinality(W) + 1
      BY <2>2, <3>1, FS_AddElement
    <3>3. left[m] = deg[m] - 1
      BY <1>1, <2>3
    <3>4. PICK c \in Nat, l \in Nat : c = Cardinality(W) /\ l = Len(ms[m]) /\ deg[m] = l - c
      BY <2>2
    <3>5. Cardinality(Range(ms[m]) \cap (R \cup {n})) = c + 1
      BY <3>1, <3>2, <3>4
    <3>6. left[m] = l - (c + 1)
      <4>1. \A d : d = l - c => d - 1 = l - (c + 1)
        BY <3>4
      <4> QED BY <3>3, <3>4, <4>1
    <3> QED BY <3>4, <3>5, <3>6
  <2>4. CASE n \notin Range(ms[m])
    <3>1. Range(ms[m]) \cap (R \cup {n}) = W
      BY <2>1, <2>4
    <3>2. left[m] = deg[m]
      BY <1>1, <2>4
    <3> QED BY <2>2, <3>1, <3>2
  <2> QED BY <2>3, <2>4
<1>13. Ran(fr) = {m \in D : n \in Range(ms[m]) /\ deg[m] = 1}
  BY <1>1
<1>14. Ran(Front(rs)) \cap Ran(fr) = {}
  BY <1>3, <1>4, <1>13
<1>15. /\ Front(rs) \o fr \in Seq(D) /\ NoRepeats(Front(rs) \o fr)
       /\ Ran(Front(rs) \o fr) = (Ran(rs) \ {n}) \cup Ran(fr)
  <2>1. PICK u \in Seq(D) : u = Front(rs)
    BY <1>4
  <2>2. NoRepeats(u) /\ Ran(u) \cap Ran(fr) = {} /\ Ran(u) = Ran(rs) \ {n} /\ fr \in Seq(D)
    BY <1>1, <1>4, <1>14, <2>1
  <2>3. u \o fr \in Seq(D) /\ NoRepeats(u \o fr) /\ Ran(u \o fr) = Ran(u) \cup Ran(fr)
    BY <2>2, Joins
  <2> QED BY <2>1, <2>2, <2>3
<1>16. (Ran(rs) \ {n}) \cup Ran(fr) = {m \in D : left[m] = 0} \ (R \cup {n})
  <2>1. ASSUME NEW m \in D
        PROVE  m \in (Ran(rs) \ {n}) \cup Ran(fr) <=> left[m] = 0 /\ m \notin R \cup {n}
    <3>1. left[m] = IF n \in Range(ms[m]) THEN deg[m] - 1 ELSE deg[m]
      BY <1>1
    <3>2. deg[m] \in Nat
      BY <1>11
    <3>3. left[m] = 0 <=> deg[m] = 0 \/ (n \in Range(ms[m]) /\ deg[m] = 1)
      <4>1. CASE n \in Range(ms[m])
        <5>1. deg[m] # 0
          <6>1. PICK z : z = Cardinality(Range(ms[m]) \cap R)
            OBVIOUS
          <6>2. PICK x, y : x = Len(ms[m]) /\ y = Cardinality(Range(ms[m]))
            OBVIOUS
          <6>3. /\ x \in Nat /\ y \in Nat /\ z \in Nat /\ y <= x /\ z <= y /\ deg[m] = x - z
                /\ (z = y => Range(ms[m]) \subseteq R)
            BY <1>3, <1>6, <6>1, <6>2
          <6>4. z # y
            BY <1>5, <4>1, <6>3
          <6> QED BY <6>3, <6>4
        <5> QED BY <3>1, <3>2, <4>1, <5>1
      <4>2. CASE n \notin Range(ms[m])
        BY <3>1, <4>2
      <4> QED BY <4>1, <4>2
    <3>4. n \in Range(ms[m]) /\ deg[m] = 1 => m \notin R \cup {n}
      BY <1>5, <1>10
    <3> QED BY <1>3, <1>13, <3>3, <3>4
  <2>2. (Ran(rs) \ {n}) \cup Ran(fr) \subseteq D
    BY <1>3, <1>13
  <2> QED BY <2>1, <2>2
<1>17. \A m \in R \cup {n} : Len(ms[m]) = Cardinality(Range(ms[m]))
  BY <1>3, <1>7
<1> QED BY <1>1, <1>3, <1>8, <1>12, <1>15, <1>16, <1>17 DEF Counted

LEMMA PopRootKeeps == ASSUME DagInv, DagAssumption, PopRoot PROVE DagInv'
<1>1. /\ phase = "sort" /\ roots # << >> /\ dag' = dag /\ phase' = phase /\ started' = started
      /\ batch' = batch /\ status' = status
      /\ order' = Append(order, Last(roots)) /\ roots' = Front(roots) \o Freed(Last(roots))
      /\ in_degree' = [m \in TaskNames |-> IF Last(roots) \in Range(DependsOn(m))
                                            THEN in_degree[m] - 1 ELSE in_degree[m]]
  BY DEF PopRoot
<1>2. TaskNames' = TaskNames /\ Deps' = Deps /\ (NamesDiffer' <=> NamesDiffer)
  BY <1>1, DepsStay
<1>3. /\ dag \in Dags /\ NamesDiffer /\ InOrder(order, Deps) /\ Counted(Deps, order, in_degree, roots)
      /\ started = << >> /\ batch = << >>
  BY <1>1 DEF DagInv
<1>4. PICK n : n = Last(roots)
  OBVIOUS
<1>5. DOMAIN Deps = TaskNames /\ \A m \in TaskNames : Deps[m] \in Seq(Nat) /\ Deps[m] = DependsOn(m)
  <2>1. \A m \in TaskNames : Deps[m] = DependsOn(m)
    BY DEF Deps
  <2> QED BY <1>3, <2>1, DagFacts
<1>6. in_degree' = [m \in DOMAIN Deps |-> IF n \in Range(Deps[m]) THEN in_degree[m] - 1 ELSE in_degree[m]]
  BY <1>1, <1>4, <1>5
<1>7. PICK fr : fr = Freed(n) /\ fr \in Seq(DOMAIN Deps) /\ NoRepeats(fr)
            /\ Ran(fr) = {m \in DOMAIN Deps : n \in Range(Deps[m]) /\ in_degree[m] = 1}
  BY <1>3, <1>5, FreedAre
<1>8. PICK ms : ms = Deps
  OBVIOUS
<1>9. InOrder(Append(order, n), ms) /\ Counted(ms, Append(order, n), in_degree', Front(roots) \o fr)
  <2>1. /\ \A m \in DOMAIN ms : ms[m] \in Seq(Nat)
        /\ roots # << >> /\ InOrder(order, ms) /\ Counted(ms, order, in_degree, roots) /\ n = Last(roots)
        /\ fr \in Seq(DOMAIN ms) /\ NoRepeats(fr)
        /\ Ran(fr) = {m \in DOMAIN ms : n \in Range(ms[m]) /\ in_degree[m] = 1}
        /\ in_degree' = [m \in DOMAIN ms |-> IF n \in Range(ms[m]) THEN in_degree[m] - 1 ELSE in_degree[m]]
    BY <1>1, <1>3, <1>4, <1>5, <1>6, <1>7, <1>8
  <2> QED BY <2>1, CountedPops
<1>10. InOrder(order', Deps') /\ Counted(Deps', order', in_degree', roots')
  BY <1>1, <1>2, <1>4, <1>7, <1>8, <1>9
<1>11. order' \in Seq(TaskNames)
  BY <1>2, <1>5, <1>10 DEF InOrder
<1> QED BY <1>1, <1>2, <1>3, <1>10, <1>11 DEF DagInv

\* What is in order has no tasks that are stuck.
LEMMA InOrderIsNotStuck ==
  ASSUME NEW ms, NEW o, InOrder(o, ms), DOMAIN ms \subseteq Ran(o),
         \A m \in DOMAIN ms : Len(ms[m]) \in Nat /\ Len(ms[m]) = Cardinality(Range(ms[m]))
  PROVE  ~ \E S \in (SUBSET DOMAIN ms) \ {{}} : StuckIn(ms, S)
<1> SUFFICES ASSUME NEW S \in SUBSET DOMAIN ms, S # {}, StuckIn(ms, S) PROVE FALSE
  OBVIOUS
<1>1. ASSUME NEW n \in S PROVE Range(ms[n]) \cap S # {}
  <2>1. Len(ms[n]) \in Nat /\ Len(ms[n]) = Cardinality(Range(ms[n]))
    OBVIOUS
  <2>2. ~ (Len(ms[n]) > Cardinality(Range(ms[n])))
    BY <2>1
  <2> QED BY <2>2 DEF StuckIn
<1> QED BY <1>1, InOrderIsNoCircle DEF Circle

LEMMA SortEndsKeeps == ASSUME DagInv, DagAssumption, SortEnds PROVE DagInv'
<1>1. /\ phase = "sort" /\ roots = << >> /\ dag' = dag /\ order' = order
      /\ started' = started /\ batch' = batch
      /\ phase' = IF Len(order) = Len(dag) THEN "run" ELSE "Cycle"
      /\ status' = [n \in TaskNames |-> "Pending"]
  BY DEF SortEnds
<1>2. TaskNames' = TaskNames /\ Deps' = Deps /\ (NamesDiffer' <=> NamesDiffer)
  BY <1>1, DepsStay
<1>3. /\ dag \in Dags /\ NamesDiffer /\ InOrder(order, Deps) /\ Counted(Deps, order, in_degree, roots)
      /\ started = << >> /\ batch = << >> /\ order \in Seq(TaskNames)
  BY <1>1 DEF DagInv
<1>4. /\ DOMAIN Deps = TaskNames /\ IsFiniteSet(TaskNames) /\ Cardinality(TaskNames) = Len(dag)
      /\ \A m \in TaskNames : Deps[m] \in Seq(Nat)
  BY <1>3, DagFacts
<1>5. IsFiniteSet(Ran(order)) /\ Cardinality(Ran(order)) = Len(order)
  BY <1>3, ListCounts DEF InOrder
<1>6. Ran(order) \in SUBSET TaskNames
  BY <1>3, LenProperties DEF Ran
<1>7. Ran(order) = TaskNames <=> Len(order) = Len(dag)
  BY <1>4, <1>5, <1>6, FS_Subset
<1>8. CASE Len(order) = Len(dag)
  <2>1. \A n \in TaskNames : Len(Deps[n]) = Cardinality(Range(Deps[n]))
    BY <1>3, <1>7, <1>8 DEF Counted
  <2>2. status' \in [TaskNames -> {"Pending", "Running", "Completed"}]
    BY <1>1
  <2>3. batch' \in Seq(TaskNames) /\ NoRepeats(batch') /\ Ran(batch') = {} /\ Ran(started') = {}
    BY <1>1, <1>3, EmptySeq DEF NoRepeats, Ran
  <2>4. InOrder(started', Deps)
    <3>1. << >> \in Seq(DOMAIN Deps) /\ Len(<< >>) = 0
      BY EmptySeq
    <3> QED BY <1>1, <1>3, <3>1 DEF InOrder, NoRepeats
  <2>5. \A n \in TaskNames : status'[n] = "Pending"
    BY <1>1
  <2>6. {n \in TaskNames : status'[n] # "Pending"} = {}
    BY <2>5
  <2>7. BatchInv'
    BY <1>1, <1>2, <1>7, <1>8, <2>1, <2>2, <2>3, <2>4, <2>5, <2>6 DEF BatchInv
  <2>8. phase' = "run"
    BY <1>1, <1>8
  <2> QED BY <1>1, <1>2, <1>3, <2>7, <2>8 DEF DagInv
<1>9. CASE Len(order) # Len(dag)
  <2>1. PICK S \in SUBSET TaskNames : S = TaskNames \ Ran(order)
    OBVIOUS
  <2>2. S # {}
    BY <1>6, <1>7, <1>9, <2>1
  <2>3. ASSUME NEW n \in S PROVE Range(Deps[n]) \cap S # {} \/ Len(Deps[n]) > Cardinality(Range(Deps[n]))
    <3>1. Ran(roots) = {}
      BY <1>1, EmptySeq DEF Ran
    <3>2. in_degree[n] # 0 /\ in_degree[n] = Len(Deps[n]) - Cardinality(Range(Deps[n]) \cap Ran(order))
          /\ Range(Deps[n]) \subseteq TaskNames
      BY <1>3, <1>4, <2>1, <3>1 DEF Counted
    <3>3. /\ Cardinality(Range(Deps[n])) \in Nat /\ Cardinality(Range(Deps[n])) <= Len(Deps[n])
          /\ Len(Deps[n]) \in Nat
      BY <1>4, RangeCounts, LenProperties
    <3>4. CASE Range(Deps[n]) \subseteq Ran(order)
      <4>1. Range(Deps[n]) \cap Ran(order) = Range(Deps[n])
        BY <3>4
      <4>2. PICK x, y : x = Len(Deps[n]) /\ y = Cardinality(Range(Deps[n])) /\ in_degree[n] = x - y
        BY <3>2, <4>1
      <4> QED BY <3>2, <3>3, <4>2
    <3>5. CASE ~ Range(Deps[n]) \subseteq Ran(order)
      BY <2>1, <3>2, <3>5
    <3> QED BY <3>4, <3>5
  <2>4. StuckIn(Deps, S)
    BY <2>3 DEF StuckIn
  <2>5. phase' = "Cycle"
    BY <1>1, <1>9
  <2> QED BY <1>1, <1>2, <1>3, <2>2, <2>4, <2>5 DEF DagInv
<1> QED BY <1>8, <1>9

LEMMA NextBatchKeeps == ASSUME DagInv, DagAssumption, NextBatch PROVE DagInv'
<1>1. /\ phase = "run" /\ batch = << >> /\ dag' = dag /\ order' = order /\ status' = status
      /\ started' = started /\ batch' = Ascending(Runnable)
      /\ phase' = IF Runnable = {} THEN "ended" ELSE "run"
  BY DEF NextBatch
<1>2. TaskNames' = TaskNames /\ Deps' = Deps /\ (NamesDiffer' <=> NamesDiffer)
  BY <1>1, DepsStay
<1>3. dag \in Dags /\ NamesDiffer /\ InOrder(order, Deps) /\ BatchInv
  BY <1>1 DEF DagInv
<1>4. DOMAIN Deps = TaskNames /\ IsFiniteSet(TaskNames) /\ TaskNames \subseteq Nat
  BY <1>3, DagFacts
<1>5. PICK Z \in SUBSET TaskNames : Z = Runnable
  BY DEF Runnable
<1>6. \A n : n \in Z <=> /\ n \in TaskNames /\ status[n] = "Pending"
                        /\ \A d \in Range(Deps[n]) : status[d] = "Completed"
  BY <1>5 DEF Runnable, Deps
<1>7. batch' \in Seq(Z) /\ NoRepeats(batch') /\ Ran(batch') = Z
  <2>1. Z \in SUBSET Nat /\ IsFiniteSet(Z)
    BY <1>4, FS_Subset
  <2> QED BY <1>1, <1>5, <2>1, AscendingLists
<1>8. batch' \in Seq(TaskNames)
  BY <1>7, SeqMonotonic
<1>9. \A n \in TaskNames : status[n] # "Running" /\ status[n] \in {"Pending", "Running", "Completed"}
  BY <1>1, <1>3 DEF BatchInv
<1>10. \A n \in TaskNames : Range(Deps[n]) \subseteq TaskNames
  <2> SUFFICES ASSUME NEW n \in TaskNames PROVE Range(Deps[n]) \subseteq TaskNames
    OBVIOUS
  <2>1. PICK i \in 1..Len(order) : n = order[i]
    BY <1>3 DEF BatchInv, Ran
  <2>2. order \in Seq(TaskNames) /\ Len(order) \in Nat
    BY <1>3, <1>4, LenProperties DEF InOrder
  <2>3. Range(Deps[n]) \subseteq {order[j] : j \in 1..(i - 1)}
    BY <1>3, <2>1 DEF InOrder
  <2>4. \A j \in 1..(i - 1) : j \in 1..Len(order)
    BY <2>2
  <2>5. \A j \in 1..(i - 1) : order[j] \in TaskNames
    BY <2>2, <2>4, ElementOfSeq
  <2> QED BY <2>3, <2>5
<1>11. BatchInv'
  BY <1>1, <1>2, <1>3, <1>6, <1>7, <1>8, <1>9, <1>10 DEF BatchInv
<1>12. ASSUME Z = {} PROVE \A n \in TaskNames : status[n] = "Completed"
  <2> SUFFICES ASSUME NEW m \in TaskNames, status[m] # "Completed" PROVE FALSE
    OBVIOUS
  <2>1. Len(order) \in Nat
    BY <1>3, LenProperties DEF InOrder
  <2>2. {i \in 1..Len(order) : status[order[i]] = "Pending"} \in SUBSET Nat
    BY <2>1
  <2>3. PICK at \in SUBSET Nat : at = {i \in 1..Len(order) : status[order[i]] = "Pending"}
    BY <2>2
  <2>4. at # {}
    <3>1. status[m] = "Pending"
      BY <1>9
    <3>2. PICK i \in 1..Len(order) : m = order[i]
      BY <1>3 DEF BatchInv, Ran
    <3> QED BY <2>3, <3>1, <3>2
  <2>5. PICK i \in at : \A j \in at : i <= j
    BY <2>4, HasSmallest
  <2>6. i \in Nat /\ i \in 1..Len(order) /\ status[order[i]] = "Pending" /\ order[i] \in TaskNames
    BY <1>3, <1>4, <2>3, <2>5, ElementOfSeq DEF InOrder
  <2>7. ASSUME NEW d \in Range(Deps[order[i]]) PROVE status[d] = "Completed"
    <3>1. PICK j \in 1..(i - 1) : d = order[j]
      BY <1>3, <2>6 DEF InOrder
    <3>2. j \in 1..Len(order) /\ ~ (i <= j)
      BY <2>1, <2>6
    <3>3. d \in TaskNames
      BY <1>10, <2>6
    <3>4. status[d] # "Pending"
      BY <2>3, <2>5, <3>1, <3>2
    <3> QED BY <1>9, <3>3, <3>4
  <2> QED BY <1>6, <1>12, <2>6, <2>7
<1>13. phase' \in {"run", "ended"} /\ (phase' = "ended" => Z = {})
  BY <1>1, <1>5
<1> QED BY <1>1, <1>2, <1>3, <1>11, <1>12, <1>13 DEF DagInv

LEMMA ExecuteTaskKeeps == ASSUME DagInv, DagAssumption, ExecuteTask PROVE DagInv'
<1>1. /\ phase = "run" /\ batch # << >> /\ dag' = dag /\ order' = order /\ phase' = phase
      /\ \/ /\ status[Head(batch)] = "Pending"
            /\ status' = [status EXCEPT ![Head(batch)] = "Running"]
            /\ started' = Append(started, Head(batch)) /\ batch' = batch
         \/ /\ status[Head(batch)] # "Pending"
            /\ status' = [status EXCEPT ![Head(batch)] = "Completed"]
            /\ batch' = Tail(batch) /\ started' = started
  BY DEF ExecuteTask
<1>2. TaskNames' = TaskNames /\ Deps' = Deps /\ (NamesDiffer' <=> NamesDiffer)
  BY <1>1, DepsStay
<1>3. dag \in Dags /\ NamesDiffer /\ InOrder(order, Deps) /\ BatchInv
  BY <1>1 DEF DagInv
<1>4. DOMAIN Deps = TaskNames
  BY <1>3, DagFacts
<1>5. PICK n : n = Head(batch)
  OBVIOUS
<1>6. batch \in Seq(TaskNames) /\ NoRepeats(batch)
  BY <1>3 DEF BatchInv
<1>7. n \in TaskNames /\ n \in Ran(batch)
  BY <1>1, <1>5, <1>6, Beheads
<1>8. /\ status \in [TaskNames -> {"Pending", "Running", "Completed"}] /\ status[n] # "Completed"
      /\ \A d \in Range(Deps[n]) : d \in TaskNames /\ status[d] = "Completed"
      /\ \A m \in TaskNames : status[m] = "Running" => m = n
      /\ InOrder(started, Deps) /\ Ran(started) = {m \in TaskNames : status[m] # "Pending"}
  BY <1>3, <1>5, <1>7 DEF BatchInv
<1>9. /\ TaskNames \subseteq Ran(order) /\ \A m \in TaskNames : Len(Deps[m]) = Cardinality(Range(Deps[m]))
      /\ \A m \in Ran(batch) : /\ status[m] # "Completed"
                               /\ \A d \in Range(Deps[m]) : d \in TaskNames /\ status[d] = "Completed"
  BY <1>3 DEF BatchInv
<1>10. CASE /\ status[n] = "Pending" /\ status' = [status EXCEPT ![n] = "Running"]
            /\ started' = Append(started, n) /\ batch' = batch
  <2>1. n \notin Ran(started) /\ Range(Deps[n]) \subseteq Ran(started)
    BY <1>8, <1>10
  <2>2. InOrder(started', Deps) /\ Ran(started') = Ran(started) \cup {n}
    BY <1>4, <1>7, <1>8, <1>10, <2>1, OrderGrows
  <2>3. Ran(started') = {m \in TaskNames : status'[m] # "Pending"}
    <3>1. \A m \in TaskNames : status'[m] = IF m = n THEN "Running" ELSE status[m]
      BY <1>8, <1>10
    <3>2. \A m : m \in Ran(started') <=> m \in TaskNames /\ status'[m] # "Pending"
      BY <1>7, <1>8, <2>2, <3>1
    <3> QED BY <3>2
  <2>4. status' \in [TaskNames -> {"Pending", "Running", "Completed"}]
    BY <1>8, <1>10
  <2>5. ASSUME NEW m \in Ran(batch)
        PROVE  status'[m] # "Completed" /\ \A d \in Range(Deps[m]) : d \in TaskNames /\ status'[d] = "Completed"
    <3>1. m \in TaskNames
      BY <1>6, ElementOfSeq DEF Ran
    <3> QED BY <1>8, <1>9, <1>10, <2>5, <3>1
  <2>6. ASSUME NEW m \in TaskNames, status'[m] = "Running" PROVE m = n
    BY <1>8, <1>10, <2>6
  <2>7. BatchInv'
    BY <1>1, <1>2, <1>5, <1>6, <1>9, <1>10, <2>2, <2>3, <2>4, <2>5, <2>6 DEF BatchInv
  <2> QED BY <1>1, <1>2, <1>3, <2>7 DEF DagInv
<1>11. CASE /\ status[n] # "Pending" /\ status' = [status EXCEPT ![n] = "Completed"]
            /\ batch' = Tail(batch) /\ started' = started
  <2>1. batch' \in Seq(TaskNames) /\ NoRepeats(batch') /\ Ran(batch') = Ran(batch) \ {n}
    BY <1>1, <1>5, <1>6, <1>11, Beheads
  <2>2. \A m \in TaskNames : status'[m] = IF m = n THEN "Completed" ELSE status[m]
    BY <1>8, <1>11
  <2>3. Ran(started') = {m \in TaskNames : status'[m] # "Pending"}
    <3>1. \A m : m \in Ran(started') <=> m \in TaskNames /\ status'[m] # "Pending"
      BY <1>7, <1>8, <1>11, <2>2
    <3> QED BY <3>1
  <2>4. status' \in [TaskNames -> {"Pending", "Running", "Completed"}]
    BY <1>8, <1>11
  <2>5. ASSUME NEW m \in Ran(batch')
        PROVE  status'[m] # "Completed" /\ \A d \in Range(Deps[m]) : d \in TaskNames /\ status'[d] = "Completed"
    <3>1. m \in Ran(batch) /\ m # n
      BY <2>1, <2>5
    <3>2. m \in TaskNames
      BY <1>6, <3>1, ElementOfSeq DEF Ran
    <3> QED BY <1>9, <2>2, <3>1, <3>2
  <2>6. \A m \in TaskNames : status'[m] # "Running"
    BY <1>8, <2>2
  <2>7. BatchInv'
    BY <1>1, <1>2, <1>8, <1>9, <1>11, <2>1, <2>3, <2>4, <2>5, <2>6 DEF BatchInv
  <2> QED BY <1>1, <1>2, <1>3, <2>7 DEF DagInv
<1> QED BY <1>1, <1>5, <1>10, <1>11

LEMMA DagKeeps == ASSUME DagInv, DagAssumption, DagNext \/ UNCHANGED dagVars PROVE DagInv'
<1>1. CASE UNCHANGED dagVars
  <2>1. UNCHANGED <<dag, phase, in_degree, roots, order, status, batch, started>>
    BY <1>1 DEF dagVars
  <2>2. TaskNames' = TaskNames /\ Deps' = Deps /\ (NamesDiffer' <=> NamesDiffer)
    BY <2>1, DepsStay
  <2>3. BatchInv' <=> BatchInv
    BY <2>1, <2>2 DEF BatchInv
  <2> QED BY <2>1, <2>2, <2>3 DEF DagInv
<1> QED BY <1>1, ValidateKeeps, PopRootKeeps, SortEndsKeeps, NextBatchKeeps, ExecuteTaskKeeps DEF DagNext

LEMMA OrderedMeansRespected ==
  ASSUME dag \in Dags, DagAssumption, NEW s, InOrder(s, Deps)
  PROVE  IsInjective(s) /\ Respects(s) /\ Range(s) = Ran(s) /\ Ran(s) \subseteq TaskNames
<1>1. DOMAIN Deps = TaskNames
  BY DagFacts
<1>2. s \in Seq(TaskNames)
  BY <1>1 DEF InOrder
<1>3. PICK n \in Nat : n = Len(s) /\ DOMAIN s = 1..n
  BY <1>2, LenProperties
<1>4. \A i \in 1..n : s[i] \in TaskNames
  BY <1>2, <1>3, ElementOfSeq
<1>5. IsInjective(s)
  BY <1>3 DEF InOrder, NoRepeats, IsInjective
<1>6. Respects(s)
  <2>1. ASSUME NEW i \in 1..n PROVE Range(DependsOn(s[i])) \subseteq {s[j] : j \in 1..(i - 1)}
    <3>1. Range(Deps[s[i]]) \subseteq {s[j] : j \in 1..(i - 1)}
      BY <1>3 DEF InOrder
    <3> QED BY <1>4, <3>1 DEF Deps
  <2> QED BY <1>3, <2>1 DEF Respects
<1> QED BY <1>3, <1>4, <1>5, <1>6 DEF Range, Ran

LEMMA DagRunsInOrder == ASSUME DagInv, DagAssumption PROVE DagVerdictIsReal
<1>1. dag \in Dags /\ InOrder(order, Deps)
  BY DEF DagInv
<1>2. DOMAIN Deps = TaskNames
  BY <1>1, DagFacts
<1>3. \A S \in (SUBSET TaskNames) \ {{}} : Stuck(S) <=> StuckIn(Deps, S)
  BY DEF Stuck, StuckIn, Deps
<1>4. ASSUME phase \in {"run", "ended"} PROVE ~ \E S \in (SUBSET TaskNames) \ {{}} : Stuck(S)
  <2>1. /\ TaskNames \subseteq Ran(order)
        /\ \A n \in TaskNames : Len(Deps[n]) = Cardinality(Range(Deps[n]))
    BY <1>4 DEF DagInv, BatchInv
  <2>2. \A n \in TaskNames : Len(Deps[n]) \in Nat
    BY <1>1, DagFacts, LenProperties
  <2> QED BY <1>1, <1>2, <1>3, <2>1, <2>2, InOrderIsNotStuck
<1>5. phase = "Cycle" => \E S \in (SUBSET TaskNames) \ {{}} : Stuck(S)
  BY <1>3 DEF DagInv
<1>6. ASSUME phase \in {"run", "ended"}
      PROVE  /\ IsInjective(order) /\ Range(order) = TaskNames /\ Respects(order)
             /\ IsInjective(started) /\ Respects(started)
  <2>1. TaskNames \subseteq Ran(order) /\ InOrder(started, Deps)
    BY <1>6 DEF DagInv, BatchInv
  <2> QED BY <1>1, <2>1, OrderedMeansRespected
<1>7. phase = "ended" => \A n \in TaskNames : status[n] = "Completed"
  BY DEF DagInv
<1> QED BY <1>4, <1>5, <1>6, <1>7 DEF DagVerdictIsReal
-----------------------------------------------------------------------------
(* Deferred events.                                                        *)

FlushLoop == [ctx : Ctx, event : Event \cup {NoEvent}, left : Seq(DOMAIN Listeners), processed : Nat]

EmitTypes ==
  /\ emitMode \in {"sync", "async"}
  /\ deferred \in [Thread -> Seq(Event)] /\ flushing \in [Thread -> BOOLEAN]
  /\ on \in [Task -> Thread] /\ frames \in [Task -> Seq(FlushLoop)]
  /\ stage \in [Task -> {"idle", "loop", "handling", "awaiting", "done", "panicked", "dropped"}]
  /\ emitted \in SUBSET Event /\ cut \in SUBSET Event
  /\ heardBy \in [Event -> Seq(DOMAIN Listeners)]

\* Event e is the i-th on the queue of thread t, in the hands of the i-th loop
\* of task k.
OnQueue(q, t, i, e) == i \in 1..Len(q[t]) /\ q[t][i] = e
InHand(fs, k, i, e) == i \in 1..Len(fs[k]) /\ fs[k][i].event = e
Nowhere(q, fs, e) == /\ \A t \in Thread, i \in Nat : ~ OnQueue(q, t, i, e)
                     /\ \A k \in Task, i \in Nat : ~ InHand(fs, k, i, e)

OnePlace(q, fs, es) ==
  \A e \in Event :
     /\ \A t, u \in Thread, i, j \in Nat : OnQueue(q, t, i, e) /\ OnQueue(q, u, j, e) => t = u /\ i = j
     /\ \A k, l \in Task, i, j \in Nat : InHand(fs, k, i, e) /\ InHand(fs, l, j, e) => k = l /\ i = j
     /\ \A t \in Thread, k \in Task, i, j \in Nat : ~ (OnQueue(q, t, i, e) /\ InHand(fs, k, j, e))
     /\ e \notin es => Nowhere(q, fs, e)

\* Who heard an event is the beginning of the list of one context.
Heard(q, fs, h, es, c) ==
  \A e \in Event :
     /\ e \notin es => h[e] = << >>
     /\ \A t \in Thread, i \in Nat : OnQueue(q, t, i, e) => h[e] = << >>
     /\ \A k \in Task, i \in Nat : InHand(fs, k, i, e) => h[e] \o fs[k][i].left = ListenersFor(fs[k][i].ctx, TypeOf[e])
     /\ \E x \in Ctx, rest \in Seq(DOMAIN Listeners) : h[e] \o rest = ListenersFor(x, TypeOf[e])
     /\ e \in es \ c /\ Nowhere(q, fs, e) => \E x \in Ctx : h[e] = ListenersFor(x, TypeOf[e])

LoopsRun ==
  /\ \A k \in Task : frames[k] # << >> <=> stage[k] \in {"loop", "handling", "awaiting"}
  /\ \A k \in Task, i \in Nat : InHand(frames, k, i, NoEvent) => frames[k][i].left = << >>
  /\ \A k, l \in Task : on[k] = on[l] /\ stage[k] \in {"loop", "handling"} /\ stage[l] \in {"loop", "handling"} => k = l
  /\ emitMode = "sync" => \A k \in Task : stage[k] # "awaiting" /\ Len(frames[k]) <= 1

EmitInv ==
  /\ EmitTypes /\ OnePlace(deferred, frames, emitted) /\ Heard(deferred, frames, heardBy, emitted, cut)
  /\ LoopsRun /\ SyncFlagIsTheLoop

LEMMA ListenersInOrder ==
  ASSUME EmitAssumption, NEW c, NEW type
  PROVE  LET s == ListenersFor(c, type) S == Registered(c, type)
         IN  /\ s \in Seq(S) /\ s \in Seq(DOMAIN Listeners) /\ NoRepeats(s) /\ Ran(s) = S
             /\ \A k, l \in 1..Len(s) : k < l => Before(s[k], s[l])
<1>1. PICK S \in SUBSET (1..Len(Listeners)) : S = Registered(c, type)
  BY DEF EmitAssumption, Registered
<1>2. IsFiniteSet(S)
  <2>1. IsFiniteSet(1..Len(Listeners))
    BY FS_Interval DEF EmitAssumption
  <2> QED BY <2>1, FS_Subset
<1>3. PICK L : L = {p \in S \X S : Before(p[1], p[2])}
  OBVIOUS
<1>4. \A i, j \in S : <<i, j>> \in L <=> Before(i, j)
  BY <1>3
<1>5. \A i \in S : {j \in S : Before(j, i)} = {j \in S : <<j, i>> \in L}
  BY <1>4
<1>6. PICK f : f = ListenersFor(c, type)
  OBVIOUS
<1>7. Ranks(S, L, f)
  <2>1. f = [k \in 1..Cardinality(S) |-> f[k]]
    <3> DEFINE Kth(k) == CHOOSE i \in S : Cardinality({j \in S : Before(j, i)}) = k - 1
    <3>1. f = [k \in 1..Cardinality(S) |-> Kth(k)]
      BY <1>1, <1>6 DEF ListenersFor
    <3> HIDE DEF Kth
    <3> QED BY <3>1
  <2>2. ASSUME NEW k \in 1..Cardinality(S), \E i \in S : Cardinality({j \in S : Before(j, i)}) = k - 1
        PROVE  f[k] \in S /\ Cardinality({j \in S : Before(j, f[k])}) = k - 1
    <3>1. f[k] = CHOOSE i \in S : Cardinality({j \in S : Before(j, i)}) = k - 1
      BY <1>1, <1>6 DEF ListenersFor
    <3> QED BY <2>2, <3>1
  <2> QED BY <1>5, <2>1, <2>2 DEF Ranks
<1>8. /\ \A i \in S : <<i, i>> \notin L
      /\ \A i, j \in S : i # j => <<i, j>> \in L \/ <<j, i>> \in L
      /\ \A i, j, k \in S : <<i, j>> \in L /\ <<j, k>> \in L => <<i, k>> \in L
  <2>1. \A i \in S : i \in Nat /\ Listeners[i].priority \in Int
    BY DEF EmitAssumption
  <2>2. \A i \in S : ~ Before(i, i)
    BY <2>1 DEF Before
  <2>3. \A i, j \in S : i # j => Before(i, j) \/ Before(j, i)
    BY <2>1 DEF Before
  <2>4. \A i, j, k \in S : Before(i, j) /\ Before(j, k) => Before(i, k)
    BY <2>1 DEF Before
  <2> QED BY <1>4, <2>2, <2>3, <2>4
<1>9. /\ f \in Seq(S) /\ NoRepeats(f) /\ Ran(f) = S
      /\ \A k, l \in 1..Len(f) : k < l => <<f[k], f[l]>> \in L
  BY <1>2, <1>7, <1>8, RanksOrder
<1>10. \A k \in 1..Len(f) : f[k] \in S
  BY <1>9, ElementOfSeq
<1>11. f \in Seq(DOMAIN Listeners)
  <2>1. S \subseteq DOMAIN Listeners
    BY DEF EmitAssumption
  <2> QED BY <1>9, <2>1, SeqMonotonic
<1> QED BY <1>1, <1>4, <1>6, <1>9, <1>10, <1>11

\* The innermost loop of a task is replaced.
LEMMA TopIsSet ==
  ASSUME NEW S, NEW s \in Seq(S), s # << >>, NEW g \in S
  PROVE  /\ Append(Front(s), g) \in Seq(S) /\ Append(Front(s), g) # << >>
         /\ Len(s) \in Nat /\ Len(s) >= 1 /\ Len(Append(Front(s), g)) = Len(s)
         /\ Append(Front(s), g)[Len(s)] = g
         /\ \A i \in 1..(Len(s) - 1) : Append(Front(s), g)[i] = s[i]
<1>1. PICK n \in Nat : n = Len(s) /\ n >= 1
  BY Shrinks
<1>2. PICK u \in Seq(S) : u = Front(s) /\ Len(u) = n - 1 /\ \A i \in 1..(n - 1) : u[i] = s[i]
  <2>1. Front(s) \in Seq(S) /\ Len(Front(s)) = Len(s) - 1 /\ \A i \in 1..(Len(s) - 1) : Front(s)[i] = s[i]
    BY Shrinks
  <2> QED BY <1>1, <2>1
<1>3. PICK v \in Seq(S) : v = Append(u, g) /\ Len(v) = n /\ v[n] = g /\ \A i \in 1..(n - 1) : v[i] = u[i]
  <2>1. /\ Append(u, g) \in Seq(S) /\ Len(Append(u, g)) = Len(u) + 1 /\ Append(u, g)[Len(u) + 1] = g
        /\ \A i \in 1..Len(u) : Append(u, g)[i] = u[i]
    BY Grows
  <2>2. Len(u) + 1 = n
    BY <1>1, <1>2
  <2> QED BY <1>2, <2>1, <2>2
<1>4. v # << >>
  BY <1>1, <1>3, EmptySeq
<1> QED BY <1>1, <1>2, <1>3, <1>4

LEMMA EmitInitInv == ASSUME EmitInit, EmitAssumption PROVE EmitInv
<1>1. /\ \A t \in Thread : deferred[t] = << >> /\ Len(deferred[t]) = 0 /\ ~ flushing[t]
      /\ \A k \in Task : frames[k] = << >> /\ Len(frames[k]) = 0 /\ stage[k] = "idle"
      /\ \A e \in Event : heardBy[e] = << >>
      /\ emitted = {}
  BY EmptySeq DEF EmitInit
<1>2. EmitTypes
  <2>1. on \in [Task -> Thread]
    BY DEF EmitInit
  <2> QED BY <2>1, EmptySeq DEF EmitInit, EmitTypes
<1>3. \A e : Nowhere(deferred, frames, e)
  BY <1>1 DEF Nowhere, OnQueue, InHand
<1>4. OnePlace(deferred, frames, emitted)
  BY <1>3 DEF OnePlace, Nowhere
<1>5. Heard(deferred, frames, heardBy, emitted, cut)
  <2>1. \A e \in Event : CtxOf[e] \in Ctx
    BY DEF EmitAssumption
  <2>2. ASSUME NEW e \in Event
        PROVE  /\ ListenersFor(CtxOf[e], TypeOf[e]) \in Seq(DOMAIN Listeners)
               /\ << >> \o ListenersFor(CtxOf[e], TypeOf[e]) = ListenersFor(CtxOf[e], TypeOf[e])
    BY ListenersInOrder, ConcatEmptySeq
  <2>3. \A e \in Event : \E x \in Ctx, rest \in Seq(DOMAIN Listeners) : heardBy[e] \o rest = ListenersFor(x, TypeOf[e])
    BY <1>1, <2>1, <2>2
  <2> QED BY <1>1, <1>3, <2>3 DEF Heard, Nowhere
<1>6. LoopsRun
  BY <1>1 DEF LoopsRun, InHand
<1>7. SyncFlagIsTheLoop
  BY <1>1 DEF SyncFlagIsTheLoop
<1> QED BY <1>2, <1>4, <1>5, <1>6, <1>7 DEF EmitInv

\* An event that was not emitted yet is put on a queue.
LEMMA PushedOnce ==
  ASSUME EmitInv, EmitAssumption, NEW k \in Task, NEW e \in Event \ emitted, NEW t \in Thread,
         deferred' = [deferred EXCEPT ![t] = Append(@, e)], emitted' = emitted \cup {e},
         \/ frames' = frames
         \/ frames' = [frames EXCEPT ![k] = Append(@, NewFrame(CtxOf[e]))]
  PROVE  /\ deferred' \in [Thread -> Seq(Event)] /\ frames' \in [Task -> Seq(FlushLoop)]
         /\ emitted' \in SUBSET Event
         /\ OnePlace(deferred', frames', emitted')
         /\ Heard(deferred', frames', heardBy, emitted', cut)
         /\ \A l \in Task, i \in Nat : InHand(frames', l, i, NoEvent) => frames'[l][i].left = << >>
<1>1. EmitTypes /\ OnePlace(deferred, frames, emitted) /\ Heard(deferred, frames, heardBy, emitted, cut) /\ LoopsRun
  BY DEF EmitInv
<1>2. deferred \in [Thread -> Seq(Event)] /\ frames \in [Task -> Seq(FlushLoop)] /\ emitted \in SUBSET Event
  BY <1>1 DEF EmitTypes
<1>3. PICK n \in Nat : n = Len(deferred[t])
  BY <1>2, LenProperties
<1>4. PICK r : r = NewFrame(CtxOf[e])
  OBVIOUS
<1>5. r \in FlushLoop /\ r.event = NoEvent /\ r.left = << >>
  BY <1>4, EmptySeq DEF NewFrame, FlushLoop, EmitAssumption
<1>6. /\ Append(deferred[t], e) \in Seq(Event) /\ Len(Append(deferred[t], e)) = n + 1
      /\ Append(deferred[t], e)[n + 1] = e /\ \A i \in 1..n : Append(deferred[t], e)[i] = deferred[t][i]
  BY <1>2, <1>3, Grows
<1>7. deferred' \in [Thread -> Seq(Event)]
  BY <1>2, <1>6
<1>8. ASSUME NEW u \in Thread, NEW i \in Nat, NEW x
      PROVE  OnQueue(deferred', u, i, x) <=> OnQueue(deferred, u, i, x) \/ (u = t /\ i = n + 1 /\ x = e)
  <2>1. CASE u = t
    <3>1. i \in 1..(n + 1) <=> i \in 1..n \/ i = n + 1
      OBVIOUS
    <3>2. n + 1 \notin 1..n
      OBVIOUS
    <3> QED BY <1>2, <1>3, <1>6, <2>1, <3>1, <3>2 DEF OnQueue
  <2>2. CASE u # t
    BY <1>2, <2>2 DEF OnQueue
  <2> QED BY <2>1, <2>2
<1>9. /\ frames' \in [Task -> Seq(FlushLoop)]
      /\ \A l \in Task, i \in Nat, x \in Event :
            /\ InHand(frames', l, i, x) <=> InHand(frames, l, i, x)
            /\ InHand(frames, l, i, x) => frames'[l][i] = frames[l][i]
      /\ \A l \in Task, i \in Nat : InHand(frames', l, i, NoEvent) => frames'[l][i].left = << >>
  <2>1. CASE frames' = frames
    BY <1>1, <1>2, <2>1 DEF LoopsRun
  <2>2. CASE frames' = [frames EXCEPT ![k] = Append(@, r)]
    <3>1. PICK m \in Nat : m = Len(frames[k])
      BY <1>2, LenProperties
    <3>2. /\ Append(frames[k], r) \in Seq(FlushLoop) /\ Len(Append(frames[k], r)) = m + 1
          /\ Append(frames[k], r)[m + 1] = r /\ \A i \in 1..m : Append(frames[k], r)[i] = frames[k][i]
      BY <1>2, <1>5, <3>1, Grows
    <3>3. frames' \in [Task -> Seq(FlushLoop)]
      BY <1>2, <2>2, <3>2
    <3>4. ASSUME NEW l \in Task, NEW i \in Nat
          PROVE  /\ i \in 1..Len(frames[l]) => frames'[l][i] = frames[l][i] /\ i \in 1..Len(frames'[l])
                 /\ i \in 1..Len(frames'[l]) /\ i \notin 1..Len(frames[l]) => frames'[l][i] = r
      <4>1. CASE l = k
        <5>1. i \in 1..(m + 1) <=> i \in 1..m \/ i = m + 1
          OBVIOUS
        <5> QED BY <1>2, <2>2, <3>1, <3>2, <4>1, <5>1
      <4>2. CASE l # k
        BY <1>2, <2>2, <4>2
      <4> QED BY <4>1, <4>2
    <3>5. r.event \notin Event
      BY <1>5 DEF EmitAssumption
    <3>6. \A l \in Task, i \in Nat, x \in Event :
            /\ InHand(frames', l, i, x) <=> InHand(frames, l, i, x)
            /\ InHand(frames, l, i, x) => frames'[l][i] = frames[l][i]
      BY <3>4, <3>5 DEF InHand
    <3>7. \A l \in Task, i \in Nat : InHand(frames', l, i, NoEvent) => frames'[l][i].left = << >>
      BY <1>1, <1>5, <3>4 DEF InHand, LoopsRun
    <3> QED BY <3>3, <3>6, <3>7
  <2> QED BY <1>4, <2>1, <2>2
<1>10. Nowhere(deferred, frames, e) /\ heardBy[e] = << >>
  BY <1>1 DEF OnePlace, Heard
<1>11. OnePlace(deferred', frames', emitted')
  <2> SUFFICES ASSUME NEW x \in Event
               PROVE  /\ \A u, v \in Thread, i, j \in Nat :
                            OnQueue(deferred', u, i, x) /\ OnQueue(deferred', v, j, x) => u = v /\ i = j
                      /\ \A l, q \in Task, i, j \in Nat :
                            InHand(frames', l, i, x) /\ InHand(frames', q, j, x) => l = q /\ i = j
                      /\ \A u \in Thread, l \in Task, i, j \in Nat :
                            ~ (OnQueue(deferred', u, i, x) /\ InHand(frames', l, j, x))
                      /\ x \notin emitted' => Nowhere(deferred', frames', x)
    BY DEF OnePlace
  <2>0. /\ \A u \in Thread, i \in Nat : OnQueue(deferred', u, i, x)
                 => OnQueue(deferred, u, i, x) \/ (u = t /\ i = n + 1 /\ x = e)
        /\ \A l \in Task, i \in Nat : InHand(frames', l, i, x) => InHand(frames, l, i, x)
    BY <1>8, <1>9
  <2>1. /\ x = e => \A u \in Thread, i \in Nat : ~ OnQueue(deferred, u, i, x)
        /\ x = e => \A l \in Task, i \in Nat : ~ InHand(frames, l, i, x)
    BY <1>10 DEF Nowhere
  <2>2. /\ \A u, v \in Thread, i, j \in Nat : OnQueue(deferred, u, i, x) /\ OnQueue(deferred, v, j, x) => u = v /\ i = j
        /\ \A l, q \in Task, i, j \in Nat : InHand(frames, l, i, x) /\ InHand(frames, q, j, x) => l = q /\ i = j
        /\ \A u \in Thread, l \in Task, i, j \in Nat : ~ (OnQueue(deferred, u, i, x) /\ InHand(frames, l, j, x))
    BY <1>1 DEF OnePlace
  <2>3. \A u, v \in Thread, i, j \in Nat :
           OnQueue(deferred', u, i, x) /\ OnQueue(deferred', v, j, x) => u = v /\ i = j
    <3>1. CASE x = e
      BY <2>0, <2>1, <3>1
    <3>2. CASE x # e
      BY <2>0, <2>2, <3>2
    <3> QED BY <3>1, <3>2
  <2>4. \A l, q \in Task, i, j \in Nat :
           InHand(frames', l, i, x) /\ InHand(frames', q, j, x) => l = q /\ i = j
    BY <2>0, <2>2
  <2>5. \A u \in Thread, l \in Task, i, j \in Nat : ~ (OnQueue(deferred', u, i, x) /\ InHand(frames', l, j, x))
    <3> SUFFICES ASSUME NEW u \in Thread, NEW l \in Task, NEW i \in Nat, NEW j \in Nat,
                        OnQueue(deferred', u, i, x), InHand(frames', l, j, x)
                 PROVE  FALSE
      OBVIOUS
    <3>1. InHand(frames, l, j, x)
      BY <2>0
    <3>2. x # e
      BY <2>1, <3>1
    <3>3. OnQueue(deferred, u, i, x)
      BY <2>0, <3>2
    <3> QED BY <2>2, <3>1, <3>3
  <2>6. x \notin emitted' => Nowhere(deferred', frames', x)
    <3> SUFFICES ASSUME x \notin emitted' PROVE Nowhere(deferred', frames', x)
      OBVIOUS
    <3>1. x # e /\ x \notin emitted
      OBVIOUS
    <3>2. Nowhere(deferred, frames, x)
      BY <1>1, <3>1 DEF OnePlace
    <3> QED BY <2>0, <3>1, <3>2 DEF Nowhere
  <2> QED BY <2>3, <2>4, <2>5, <2>6
<1>12. Heard(deferred', frames', heardBy, emitted', cut)
  <2> SUFFICES ASSUME NEW x \in Event
               PROVE  /\ x \notin emitted' => heardBy[x] = << >>
                      /\ \A u \in Thread, i \in Nat : OnQueue(deferred', u, i, x) => heardBy[x] = << >>
                      /\ \A l \in Task, i \in Nat : InHand(frames', l, i, x)
                            => heardBy[x] \o frames'[l][i].left = ListenersFor(frames'[l][i].ctx, TypeOf[x])
                      /\ \E c \in Ctx, rest \in Seq(DOMAIN Listeners) : heardBy[x] \o rest = ListenersFor(c, TypeOf[x])
                      /\ x \in emitted' \ cut /\ Nowhere(deferred', frames', x)
                            => \E c \in Ctx : heardBy[x] = ListenersFor(c, TypeOf[x])
    BY DEF Heard
  <2>1. \A l \in Task, i \in Nat : InHand(frames', l, i, x)
           => heardBy[x] \o frames'[l][i].left = ListenersFor(frames'[l][i].ctx, TypeOf[x])
    <3> SUFFICES ASSUME NEW l \in Task, NEW i \in Nat, InHand(frames', l, i, x)
                 PROVE  heardBy[x] \o frames'[l][i].left = ListenersFor(frames'[l][i].ctx, TypeOf[x])
      OBVIOUS
    <3>1. InHand(frames, l, i, x) /\ frames'[l][i] = frames[l][i]
      BY <1>9
    <3>2. heardBy[x] \o frames[l][i].left = ListenersFor(frames[l][i].ctx, TypeOf[x])
      BY <1>1, <3>1 DEF Heard
    <3> QED BY <3>1, <3>2
  <2>2. \E c \in Ctx, rest \in Seq(DOMAIN Listeners) : heardBy[x] \o rest = ListenersFor(c, TypeOf[x])
    BY <1>1 DEF Heard
  <2>3. CASE x = e
    <3>1. ~ Nowhere(deferred', frames', x)
      <4>1. n + 1 \in Nat
        OBVIOUS
      <4>2. OnQueue(deferred', t, n + 1, x)
        BY <1>8, <2>3, <4>1
      <4> QED BY <4>1, <4>2 DEF Nowhere
    <3> QED BY <1>10, <2>1, <2>2, <2>3, <3>1
  <2>4. CASE x # e
    <3>1. Nowhere(deferred', frames', x) => Nowhere(deferred, frames, x)
      BY <1>8, <1>9 DEF Nowhere
    <3>2. \A u \in Thread, i \in Nat : OnQueue(deferred', u, i, x) => heardBy[x] = << >>
      BY <1>1, <1>8, <2>4 DEF Heard
    <3> QED BY <1>1, <2>1, <2>2, <2>4, <3>1, <3>2 DEF Heard
  <2> QED BY <2>3, <2>4
<1> QED BY <1>2, <1>7, <1>9, <1>11, <1>12

LEMMA EmitKeeps ==
  ASSUME EmitInv, EmitAssumption, NEW k \in Task, NEW e \in Event \ emitted, NEW t \in Thread, Emit(k, e, t)
  PROVE  EmitInv'
<1>1. EmitTypes /\ LoopsRun /\ SyncFlagIsTheLoop
  BY DEF EmitInv
<1>2. /\ stage[k] = "idle" /\ Free(t) /\ on' = [on EXCEPT ![k] = t]
      /\ emitted' = emitted \cup {e} /\ deferred' = [deferred EXCEPT ![t] = Append(@, e)]
      /\ \/ /\ flushing[t] /\ stage' = [stage EXCEPT ![k] = "done"] /\ flushing' = flushing /\ frames' = frames
         \/ /\ ~ flushing[t] /\ flushing' = [flushing EXCEPT ![t] = TRUE]
            /\ frames' = [frames EXCEPT ![k] = Append(@, NewFrame(CtxOf[e]))]
            /\ stage' = [stage EXCEPT ![k] = "loop"]
      /\ emitMode' = emitMode /\ heardBy' = heardBy /\ cut' = cut
  BY DEF Emit, Push, SetStage
<1>3. /\ deferred' \in [Thread -> Seq(Event)] /\ frames' \in [Task -> Seq(FlushLoop)]
      /\ emitted' \in SUBSET Event
      /\ OnePlace(deferred', frames', emitted')
      /\ Heard(deferred', frames', heardBy, emitted', cut)
      /\ \A l \in Task, i \in Nat : InHand(frames', l, i, NoEvent) => frames'[l][i].left = << >>
  BY <1>2, PushedOnce
<1>4. EmitTypes'
  BY <1>1, <1>2, <1>3 DEF EmitTypes
<1>5. frames[k] = << >> /\ Len(frames[k]) = 0
  BY <1>1, <1>2, EmptySeq DEF LoopsRun
<1>6. /\ Append(<< >>, NewFrame(CtxOf[e])) # << >> /\ Len(Append(<< >>, NewFrame(CtxOf[e]))) = 1
  <2>1. NewFrame(CtxOf[e]) \in FlushLoop
    BY EmptySeq DEF NewFrame, FlushLoop, EmitAssumption
  <2>2. << >> \in Seq(FlushLoop) /\ Len(<< >>) = 0
    BY EmptySeq
  <2>3. PICK s \in Seq(FlushLoop) : s = Append(<< >>, NewFrame(CtxOf[e])) /\ Len(s) = 0 + 1
    BY <2>1, <2>2, Grows
  <2>4. s # << >>
    BY <2>3, EmptySeq
  <2> QED BY <2>3, <2>4
<1>7. on' \in [Task -> Thread] /\ \A l \in Task : on'[l] = IF l = k THEN t ELSE on[l]
  BY <1>1, <1>2 DEF EmitTypes
<1>8. \A l \in Task : /\ frames'[l] = IF l = k THEN frames'[k] ELSE frames[l]
                      /\ stage'[l] = IF l = k THEN stage'[k] ELSE stage[l]
  BY <1>1, <1>2 DEF EmitTypes
<1>9. \A u \in Thread : u # t => flushing'[u] = flushing[u] /\ deferred'[u] = deferred[u]
  BY <1>1, <1>2 DEF EmitTypes
<1>10. \/ flushing[t] /\ flushing'[t] /\ frames'[k] = << >> /\ stage'[k] = "done"
       \/ ~ flushing[t] /\ flushing'[t] /\ frames'[k] # << >> /\ stage'[k] = "loop" /\ Len(frames'[k]) = 1
  <2>1. frames[k] = << >> /\ k \in DOMAIN frames /\ k \in DOMAIN stage /\ t \in DOMAIN flushing
    BY <1>1, <1>5 DEF EmitTypes
  <2>2. CASE flushing[t] /\ stage' = [stage EXCEPT ![k] = "done"] /\ flushing' = flushing /\ frames' = frames
    BY <2>1, <2>2
  <2>3. CASE /\ ~ flushing[t] /\ flushing' = [flushing EXCEPT ![t] = TRUE]
             /\ frames' = [frames EXCEPT ![k] = Append(@, NewFrame(CtxOf[e]))]
             /\ stage' = [stage EXCEPT ![k] = "loop"]
    <3>1. frames'[k] = Append(<< >>, NewFrame(CtxOf[e])) /\ stage'[k] = "loop" /\ flushing'[t]
      BY <2>1, <2>3
    <3> QED BY <1>6, <2>3, <3>1
  <2> QED BY <1>2, <2>2, <2>3
<1>11. LoopsRun'
  <2>1. \A l \in Task : frames'[l] # << >> <=> stage'[l] \in {"loop", "handling", "awaiting"}
    BY <1>1, <1>8, <1>10 DEF LoopsRun
  <2>2. \A l, m \in Task : on'[l] = on'[m] /\ stage'[l] \in {"loop", "handling"} /\ stage'[m] \in {"loop", "handling"} => l = m
    BY <1>1, <1>2, <1>7, <1>8 DEF LoopsRun, Free
  <2>3. emitMode' = "sync" => \A l \in Task : stage'[l] # "awaiting" /\ Len(frames'[l]) <= 1
    <3>1. Len(<< >>) = 0
      BY EmptySeq
    <3>2. Len(frames'[k]) <= 1 /\ stage'[k] # "awaiting"
      <4>1. PICK m \in {0, 1} : m = Len(frames'[k])
        BY <1>10, <3>1
      <4>2. m <= 1
        OBVIOUS
      <4>3. stage'[k] # "awaiting"
        BY <1>10
      <4> QED BY <4>1, <4>2, <4>3
    <3>3. emitMode = "sync" => \A l \in Task : stage[l] # "awaiting" /\ Len(frames[l]) <= 1
      BY <1>1 DEF LoopsRun
    <3>4. ASSUME NEW l \in Task, emitMode = "sync" PROVE stage'[l] # "awaiting" /\ Len(frames'[l]) <= 1
      <4>1. CASE l = k
        BY <3>2, <4>1
      <4>2. CASE l # k
        BY <1>8, <3>3, <3>4, <4>2
      <4> QED BY <4>1, <4>2
    <3> QED BY <1>2, <3>4
  <2> QED BY <1>3, <2>1, <2>2, <2>3 DEF LoopsRun
<1>12. SyncFlagIsTheLoop'
  <2> SUFFICES ASSUME emitMode = "sync", NEW u \in Thread
               PROVE  /\ flushing'[u] <=> \E l \in Task : on'[l] = u /\ frames'[l] # << >>
                      /\ ~ flushing'[u] /\ deferred'[u] # << >> =>
                            \E l \in Task : on'[l] = u /\ stage'[l] = "panicked"
    BY <1>2 DEF SyncFlagIsTheLoop
  <2>1. /\ flushing[u] <=> \E l \in Task : on[l] = u /\ frames[l] # << >>
        /\ ~ flushing[u] /\ deferred[u] # << >> => \E l \in Task : on[l] = u /\ stage[l] = "panicked"
    BY <1>1 DEF SyncFlagIsTheLoop
  <2>2. CASE u = t
    BY <1>5, <1>7, <1>8, <1>10, <2>1, <2>2
  <2>3. CASE u # t
    BY <1>2, <1>5, <1>7, <1>8, <1>9, <2>1, <2>3
  <2> QED BY <2>2, <2>3
<1> QED BY <1>2, <1>3, <1>4, <1>11, <1>12 DEF EmitInv

LEMMA EmitNestedKeeps ==
  ASSUME EmitInv, EmitAssumption, NEW k \in Task, NEW e \in Event \ emitted, EmitNested(k, e)
  PROVE  EmitInv'
<1>1. EmitTypes /\ LoopsRun /\ SyncFlagIsTheLoop
  BY DEF EmitInv
<1>2. PICK t \in Thread : t = on[k]
  BY <1>1 DEF EmitTypes
<1>3. /\ stage[k] = "handling" /\ on' = on
      /\ emitted' = emitted \cup {e} /\ deferred' = [deferred EXCEPT ![t] = Append(@, e)]
      /\ \/ /\ flushing[t] /\ stage' = [stage EXCEPT ![k] = "handling"] /\ flushing' = flushing /\ frames' = frames
         \/ /\ ~ flushing[t] /\ flushing' = [flushing EXCEPT ![t] = TRUE]
            /\ frames' = [frames EXCEPT ![k] = Append(@, NewFrame(CtxOf[e]))]
            /\ stage' = [stage EXCEPT ![k] = "loop"]
      /\ emitMode' = emitMode /\ heardBy' = heardBy /\ cut' = cut
  BY <1>2 DEF EmitNested, Push, SetStage
<1>4. /\ deferred' \in [Thread -> Seq(Event)] /\ frames' \in [Task -> Seq(FlushLoop)]
      /\ emitted' \in SUBSET Event
      /\ OnePlace(deferred', frames', emitted')
      /\ Heard(deferred', frames', heardBy, emitted', cut)
      /\ \A l \in Task, i \in Nat : InHand(frames', l, i, NoEvent) => frames'[l][i].left = << >>
  BY <1>3, PushedOnce
<1>5. EmitTypes'
  BY <1>1, <1>3, <1>4 DEF EmitTypes
<1>6. frames[k] # << >> /\ (emitMode = "sync" => flushing[t])
  BY <1>1, <1>2, <1>3 DEF LoopsRun, SyncFlagIsTheLoop
<1>7. frames'[k] # << >> /\ stage'[k] \in {"loop", "handling"} /\ \A l \in Task : l # k => frames'[l] = frames[l] /\ stage'[l] = stage[l]
  <2>1. frames \in [Task -> Seq(FlushLoop)] /\ DOMAIN stage = Task
    BY <1>1 DEF EmitTypes
  <2>2. NewFrame(CtxOf[e]) \in FlushLoop
    BY EmptySeq DEF NewFrame, FlushLoop, EmitAssumption
  <2>3. Append(frames[k], NewFrame(CtxOf[e])) # << >>
    <3>1. PICK s \in Seq(FlushLoop) : s = frames[k]
      BY <2>1
    <3>2. PICK u : u = Append(s, NewFrame(CtxOf[e]))
      OBVIOUS
    <3>3. u \in Seq(FlushLoop) /\ Len(s) \in Nat /\ Len(u) = Len(s) + 1
      BY <2>2, <3>2, Grows
    <3>4. u # << >>
      BY <3>3, EmptySeq
    <3> QED BY <3>1, <3>2, <3>4
  <2> QED BY <1>3, <1>6, <2>1, <2>3
<1>8. LoopsRun'
  <2>1. \A l \in Task : frames'[l] # << >> <=> stage'[l] \in {"loop", "handling", "awaiting"}
    BY <1>1, <1>7 DEF LoopsRun
  <2>2. \A l, m \in Task : on'[l] = on'[m] /\ stage'[l] \in {"loop", "handling"} /\ stage'[m] \in {"loop", "handling"} => l = m
    BY <1>1, <1>3, <1>7 DEF LoopsRun
  <2>3. emitMode' = "sync" => \A l \in Task : stage'[l] # "awaiting" /\ Len(frames'[l]) <= 1
    BY <1>1, <1>3, <1>6, <1>7 DEF LoopsRun
  <2> QED BY <1>4, <2>1, <2>2, <2>3 DEF LoopsRun
<1>9. SyncFlagIsTheLoop'
  <2> SUFFICES ASSUME emitMode = "sync", NEW u \in Thread
               PROVE  /\ flushing'[u] <=> \E l \in Task : on'[l] = u /\ frames'[l] # << >>
                      /\ ~ flushing'[u] /\ deferred'[u] # << >> =>
                            \E l \in Task : on'[l] = u /\ stage'[l] = "panicked"
    BY <1>3 DEF SyncFlagIsTheLoop
  <2>1. /\ flushing[u] <=> \E l \in Task : on[l] = u /\ frames[l] # << >>
        /\ ~ flushing[u] /\ deferred[u] # << >> => \E l \in Task : on[l] = u /\ stage[l] = "panicked"
    BY <1>1 DEF SyncFlagIsTheLoop
  <2>2. flushing' = flushing /\ frames' = frames /\ on' = on
    BY <1>3, <1>6
  <2>3. u # t => deferred'[u] = deferred[u]
    BY <1>1, <1>3 DEF EmitTypes
  <2>4. \A l \in Task : stage[l] = "panicked" => stage'[l] = "panicked"
    BY <1>3, <1>7
  <2> QED BY <1>6, <2>1, <2>2, <2>3, <2>4
<1> QED BY <1>3, <1>4, <1>5, <1>8, <1>9 DEF EmitInv

LEMMA TopMoves ==
  ASSUME frames \in [Task -> Seq(FlushLoop)], NEW k \in Task, frames[k] # << >>, NEW g \in FlushLoop,
         frames' = [frames EXCEPT ![k] = Append(Front(@), g)]
  PROVE  /\ frames' \in [Task -> Seq(FlushLoop)] /\ frames'[k][Len(frames[k])] = g
         /\ \A l \in Task : Len(frames'[l]) = Len(frames[l]) /\ (frames'[l] # << >> <=> frames[l] # << >>)
         /\ \A l \in Task, i \in Nat : (l # k \/ i # Len(frames[k])) /\ i \in 1..Len(frames[l])
                                       => frames'[l][i] = frames[l][i]
<1>0. PICK s \in Seq(FlushLoop) : s = frames[k] /\ s # << >>
  OBVIOUS
<1>1. PICK n \in Nat : s = frames[k] /\ n = Len(s) /\ n >= 1
  <2>1. Len(s) \in Nat /\ Len(s) >= 1 /\ Last(s) = s[Len(s)]
    BY <1>0, Shrinks
  <2> QED BY <1>0, <2>1
<1>2. PICK u \in Seq(FlushLoop) : /\ u = Append(Front(s), g) /\ u # << >> /\ Len(u) = n /\ u[n] = g
                                  /\ \A i \in 1..(n - 1) : u[i] = s[i]
  <2>1. /\ Append(Front(s), g) \in Seq(FlushLoop) /\ Append(Front(s), g) # << >>
        /\ Len(Append(Front(s), g)) = Len(s) /\ Append(Front(s), g)[Len(s)] = g
        /\ \A i \in 1..(Len(s) - 1) : Append(Front(s), g)[i] = s[i]
    BY <1>0, TopIsSet
  <2> QED BY <1>1, <2>1
<1>3. s[n] \in FlushLoop
  <2>1. n \in 1..Len(s)
    BY <1>1
  <2> QED BY <2>1, ElementOfSeq
<1>4. \A l \in Task : frames'[l] = IF l = k THEN u ELSE frames[l]
  BY <1>1, <1>2
<1>5. frames' \in [Task -> Seq(FlushLoop)]
  BY <1>1, <1>2
<1>6. \A i \in Nat : i # n /\ i \in 1..n => i \in 1..(n - 1)
  OBVIOUS
<1>7. \A l \in Task, i \in Nat : (l # k \/ i # n) /\ i \in 1..Len(frames[l]) => frames'[l][i] = frames[l][i]
  BY <1>1, <1>2, <1>4, <1>6
<1>8. \A l \in Task : Len(frames'[l]) = Len(frames[l]) /\ (frames'[l] # << >> <=> frames[l] # << >>)
  BY <1>0, <1>1, <1>2, <1>4
<1>9. frames'[k][n] = g /\ n = Len(frames[k])
  BY <1>1, <1>2, <1>4
<1> QED BY <1>5, <1>7, <1>8, <1>9

LEMMA TopIs ==
  ASSUME frames \in [Task -> Seq(FlushLoop)], NEW k \in Task, frames[k] # << >>
  PROVE  /\ Len(frames[k]) \in Nat /\ Len(frames[k]) \in 1..Len(frames[k])
         /\ TopFrame(k) = frames[k][Len(frames[k])] /\ TopFrame(k) \in FlushLoop
<1>1. PICK s \in Seq(FlushLoop) : s = frames[k] /\ s # << >>
  OBVIOUS
<1>2. Len(s) \in Nat /\ Len(s) >= 1 /\ Last(s) = s[Len(s)]
  BY <1>1, Shrinks
<1>3. Len(s) \in 1..Len(s)
  BY <1>2
<1>4. s[Len(s)] \in FlushLoop
  BY <1>3, ElementOfSeq
<1> QED BY <1>1, <1>2, <1>3, <1>4 DEF TopFrame

LEMMA CallListenerKeeps ==
  ASSUME EmitInv, EmitAssumption, NEW k \in Task, CallListener(k) PROVE EmitInv'
<1>1. /\ EmitTypes /\ LoopsRun /\ SyncFlagIsTheLoop
      /\ OnePlace(deferred, frames, emitted) /\ Heard(deferred, frames, heardBy, emitted, cut)
  BY DEF EmitInv
<1>2. PICK r : r = TopFrame(k)
  OBVIOUS
<1>3. /\ stage[k] = "loop" /\ r.left # << >>
      /\ heardBy' = [heardBy EXCEPT ![r.event] = Append(@, Head(r.left))]
      /\ frames' = [frames EXCEPT ![k] = Append(Front(@), [r EXCEPT !.left = Tail(@)])]
      /\ stage' = [stage EXCEPT ![k] = "handling"]
      /\ UNCHANGED <<emitMode, deferred, flushing, on, cut, emitted>>
  BY <1>2 DEF CallListener, SetTop, SetStage
<1>4. frames[k] # << >> /\ frames \in [Task -> Seq(FlushLoop)]
  BY <1>1, <1>3 DEF LoopsRun, EmitTypes
<1>5. PICK n \in Nat : n = Len(frames[k]) /\ n \in 1..n /\ r = frames[k][n] /\ r \in FlushLoop
  BY <1>2, <1>4, TopIs
<1>6. PICK h \in DOMAIN Listeners, tl \in Seq(DOMAIN Listeners) : h = Head(r.left) /\ tl = Tail(r.left)
  BY <1>3, <1>5, HeadTailProperties DEF FlushLoop
<1>7. PICK g \in FlushLoop : g = [r EXCEPT !.left = Tail(@)] /\ g.left = tl /\ g.ctx = r.ctx /\ g.event = r.event
  <2>1. [r EXCEPT !.left = Tail(@)] = [r EXCEPT !.left = tl]
    BY <1>5, <1>6 DEF FlushLoop
  <2>2. [r EXCEPT !.left = tl] \in FlushLoop
    BY <1>5 DEF FlushLoop
  <2>3. [r EXCEPT !.left = tl].left = tl /\ [r EXCEPT !.left = tl].ctx = r.ctx /\ [r EXCEPT !.left = tl].event = r.event
    BY <1>5 DEF FlushLoop
  <2> QED BY <2>1, <2>2, <2>3
<1>8. /\ frames' \in [Task -> Seq(FlushLoop)] /\ frames'[k][n] = g
      /\ \A l \in Task : Len(frames'[l]) = Len(frames[l]) /\ (frames'[l] # << >> <=> frames[l] # << >>)
      /\ \A l \in Task, i \in Nat : (l # k \/ i # n) /\ i \in 1..Len(frames[l]) => frames'[l][i] = frames[l][i]
  <2>1. frames' = [frames EXCEPT ![k] = Append(Front(@), g)]
    BY <1>3, <1>7
  <2>2. /\ frames' \in [Task -> Seq(FlushLoop)] /\ frames'[k][Len(frames[k])] = g
        /\ \A l \in Task : Len(frames'[l]) = Len(frames[l]) /\ (frames'[l] # << >> <=> frames[l] # << >>)
        /\ \A l \in Task, i \in Nat : (l # k \/ i # Len(frames[k])) /\ i \in 1..Len(frames[l])
                                      => frames'[l][i] = frames[l][i]
    BY <1>4, <1>7, <2>1, TopMoves
  <2> QED BY <1>5, <2>2
<1>9. r.event \in Event
  <2>1. InHand(frames, k, n, NoEvent) => r.left = << >>
    BY <1>1, <1>5 DEF LoopsRun
  <2>2. r.event # NoEvent
    BY <1>3, <1>5, <2>1 DEF InHand
  <2> QED BY <1>5, <2>2 DEF FlushLoop
<1>10. PICK e \in Event : e = r.event /\ InHand(frames, k, n, e)
  BY <1>5, <1>9 DEF InHand
<1>11. ASSUME NEW l \in Task, NEW i \in Nat, NEW x PROVE InHand(frames', l, i, x) <=> InHand(frames, l, i, x)
  <2>1. CASE l = k /\ i = n
    BY <1>5, <1>7, <1>8, <2>1 DEF InHand
  <2>2. CASE l # k \/ i # n
    BY <1>8, <2>2 DEF InHand
  <2> QED BY <2>1, <2>2
<1>12. heardBy \in [Event -> Seq(DOMAIN Listeners)] /\ r.left \in Seq(DOMAIN Listeners)
  BY <1>1, <1>5 DEF EmitTypes, FlushLoop
<1>13. heardBy' \in [Event -> Seq(DOMAIN Listeners)] /\ \A x \in Event : heardBy'[x] = IF x = e THEN Append(heardBy[e], h) ELSE heardBy[x]
  <2>1. heardBy' = [heardBy EXCEPT ![e] = Append(@, h)]
    BY <1>3, <1>6, <1>10
  <2>2. Append(heardBy[e], h) \in Seq(DOMAIN Listeners)
    BY <1>12, Grows
  <2> QED BY <1>12, <2>1, <2>2
<1>14. heardBy'[e] \o tl = heardBy[e] \o r.left
  <2>1. Append(heardBy[e], Head(r.left)) \o Tail(r.left) = heardBy[e] \o r.left
    <3>1. PICK s \in Seq(DOMAIN Listeners) : s = heardBy[e]
      BY <1>12
    <3>2. Append(s, Head(r.left)) \o Tail(r.left) = s \o r.left
      BY <1>3, <1>12, MovesOver
    <3> QED BY <3>1, <3>2
  <2> QED BY <1>6, <1>13, <2>1
<1>15. EmitTypes'
  BY <1>1, <1>3, <1>8, <1>13 DEF EmitTypes
<1>16. OnePlace(deferred', frames', emitted')
  <2>1. deferred' = deferred /\ emitted' = emitted
    BY <1>3
  <2> QED BY <1>1, <1>11, <2>1 DEF OnePlace, Nowhere
<1>17. Heard(deferred', frames', heardBy', emitted', cut')
  <2> SUFFICES ASSUME NEW x \in Event
               PROVE  /\ x \notin emitted => heardBy'[x] = << >>
                      /\ \A u \in Thread, i \in Nat : OnQueue(deferred, u, i, x) => heardBy'[x] = << >>
                      /\ \A l \in Task, i \in Nat : InHand(frames', l, i, x)
                            => heardBy'[x] \o frames'[l][i].left = ListenersFor(frames'[l][i].ctx, TypeOf[x])
                      /\ \E c \in Ctx, rest \in Seq(DOMAIN Listeners) : heardBy'[x] \o rest = ListenersFor(c, TypeOf[x])
                      /\ x \in emitted \ cut /\ Nowhere(deferred, frames', x)
                            => \E c \in Ctx : heardBy'[x] = ListenersFor(c, TypeOf[x])
    BY <1>3 DEF Heard
  <2>1. Nowhere(deferred, frames', x) => Nowhere(deferred, frames, x)
    BY <1>11 DEF Nowhere
  <2>2. CASE x = e
    <3>1. x \in emitted /\ \A u \in Thread, i \in Nat : ~ OnQueue(deferred, u, i, x)
      BY <1>1, <1>10, <2>2 DEF OnePlace, Nowhere
    <3>2. ~ Nowhere(deferred, frames, x)
      BY <1>10, <2>2 DEF Nowhere
    <3>3. heardBy[e] \o r.left = ListenersFor(r.ctx, TypeOf[e])
      BY <1>1, <1>5, <1>10 DEF Heard
    <3>4. ASSUME NEW l \in Task, NEW i \in Nat, InHand(frames', l, i, x)
          PROVE  heardBy'[x] \o frames'[l][i].left = ListenersFor(frames'[l][i].ctx, TypeOf[x])
      <4>1. l = k /\ i = n
        BY <1>1, <1>10, <1>11, <2>2, <3>4 DEF OnePlace
      <4> QED BY <1>7, <1>8, <1>14, <2>2, <3>3, <4>1
    <3>5. r.ctx \in Ctx
      BY <1>5 DEF FlushLoop
    <3>6. \E c \in Ctx, rest \in Seq(DOMAIN Listeners) : heardBy'[x] \o rest = ListenersFor(c, TypeOf[x])
      BY <1>14, <2>2, <3>3, <3>5
    <3> QED BY <2>1, <3>1, <3>2, <3>4, <3>6
  <2>3. CASE x # e
    <3>1. heardBy'[x] = heardBy[x]
      BY <1>13, <2>3
    <3>2. ASSUME NEW l \in Task, NEW i \in Nat, InHand(frames', l, i, x)
          PROVE  heardBy'[x] \o frames'[l][i].left = ListenersFor(frames'[l][i].ctx, TypeOf[x])
      <4>1. InHand(frames, l, i, x) /\ i \in 1..Len(frames[l])
        BY <1>11, <3>2 DEF InHand
      <4>2. l # k \/ i # n
        BY <1>5, <1>10, <2>3, <4>1 DEF InHand
      <4>3. frames'[l][i] = frames[l][i]
        BY <1>8, <4>1, <4>2
      <4>4. heardBy[x] \o frames[l][i].left = ListenersFor(frames[l][i].ctx, TypeOf[x])
        BY <1>1, <4>1 DEF Heard
      <4> QED BY <3>1, <4>3, <4>4
    <3>3. /\ x \notin emitted => heardBy[x] = << >>
          /\ \A u \in Thread, i \in Nat : OnQueue(deferred, u, i, x) => heardBy[x] = << >>
          /\ \E c \in Ctx, rest \in Seq(DOMAIN Listeners) : heardBy[x] \o rest = ListenersFor(c, TypeOf[x])
          /\ x \in emitted \ cut /\ Nowhere(deferred, frames, x) => \E c \in Ctx : heardBy[x] = ListenersFor(c, TypeOf[x])
      BY <1>1 DEF Heard
    <3> QED BY <2>1, <3>1, <3>2, <3>3
  <2> QED BY <2>2, <2>3
<1>18. LoopsRun'
  <2>1. \A l \in Task : stage'[l] = IF l = k THEN "handling" ELSE stage[l]
    BY <1>1, <1>3 DEF EmitTypes
  <2>2. \A l \in Task, i \in Nat : InHand(frames', l, i, NoEvent) => frames'[l][i].left = << >>
    <3> SUFFICES ASSUME NEW l \in Task, NEW i \in Nat, InHand(frames', l, i, NoEvent) PROVE frames'[l][i].left = << >>
      OBVIOUS
    <3>1. InHand(frames, l, i, NoEvent) /\ i \in 1..Len(frames[l])
      BY <1>11 DEF InHand
    <3>2. l # k \/ i # n
      BY <1>5, <1>9, <3>1 DEF InHand, EmitAssumption
    <3> QED BY <1>1, <1>8, <3>1, <3>2 DEF LoopsRun
  <2>3. \A l \in Task : frames'[l] # << >> <=> stage'[l] \in {"loop", "handling", "awaiting"}
    BY <1>1, <1>3, <1>8, <2>1 DEF LoopsRun
  <2>4. \A l, m \in Task : on'[l] = on'[m] /\ stage'[l] \in {"loop", "handling"} /\ stage'[m] \in {"loop", "handling"} => l = m
    BY <1>1, <1>3, <2>1 DEF LoopsRun
  <2>5. emitMode' = "sync" => \A l \in Task : stage'[l] # "awaiting" /\ Len(frames'[l]) <= 1
    BY <1>1, <1>3, <1>8, <2>1 DEF LoopsRun
  <2> QED BY <2>2, <2>3, <2>4, <2>5 DEF LoopsRun
<1>19. SyncFlagIsTheLoop'
  <2>1. \A l \in Task : stage[l] = "panicked" => stage'[l] = "panicked"
    BY <1>1, <1>3 DEF EmitTypes
  <2>2. emitMode' = emitMode /\ flushing' = flushing /\ deferred' = deferred /\ on' = on
    BY <1>3
  <2>3. \A l \in Task : frames'[l] # << >> <=> frames[l] # << >>
    BY <1>8
  <2>4. ASSUME emitMode = "sync", NEW u \in Thread
        PROVE  /\ flushing[u] <=> \E l \in Task : on[l] = u /\ frames'[l] # << >>
               /\ ~ flushing[u] /\ deferred[u] # << >> => \E l \in Task : on[l] = u /\ stage'[l] = "panicked"
    BY <1>1, <2>1, <2>3, <2>4 DEF SyncFlagIsTheLoop
  <2> QED BY <2>2, <2>4 DEF SyncFlagIsTheLoop
<1> QED BY <1>15, <1>16, <1>17, <1>18, <1>19 DEF EmitInv

\* When a loop is through with the listeners of an event, all heard it.
LEMMA HeardByAll ==
  ASSUME EmitInv, EmitAssumption, NEW k \in Task, frames[k] # << >>, TopFrame(k).left = << >>,
         NEW e \in Event, TopFrame(k).event = e
  PROVE  \E c \in Ctx : heardBy[e] = ListenersFor(c, TypeOf[e])
<1>1. EmitTypes /\ Heard(deferred, frames, heardBy, emitted, cut)
  BY DEF EmitInv
<1>2. frames \in [Task -> Seq(FlushLoop)] /\ heardBy[e] \in Seq(DOMAIN Listeners)
  BY <1>1 DEF EmitTypes
<1>3. PICK r \in FlushLoop, n \in Nat : /\ n = Len(frames[k]) /\ n \in 1..Len(frames[k])
                                       /\ r = TopFrame(k) /\ r = frames[k][n]
  BY <1>2, TopIs
<1>4. heardBy[e] \o r.left = ListenersFor(r.ctx, TypeOf[e])
  <2>1. InHand(frames, k, n, e)
    BY <1>3 DEF InHand
  <2>2. heardBy[e] \o frames[k][n].left = ListenersFor(frames[k][n].ctx, TypeOf[e])
    BY <1>1, <2>1 DEF Heard
  <2> QED BY <1>3, <2>2
<1>5. heardBy[e] \o << >> = heardBy[e]
  BY <1>2, ConcatEmptySeq
<1> QED BY <1>3, <1>4, <1>5 DEF FlushLoop

LEMMA NextEventKeeps ==
  ASSUME EmitInv, EmitAssumption, NEW k \in Task, NextEvent(k) PROVE EmitInv'
<1>1. /\ EmitTypes /\ LoopsRun /\ SyncFlagIsTheLoop
      /\ OnePlace(deferred, frames, emitted) /\ Heard(deferred, frames, heardBy, emitted, cut)
  BY DEF EmitInv
<1>2. PICK t \in Thread : t = on[k]
  BY <1>1 DEF EmitTypes
<1>3. PICK r, e : r = TopFrame(k) /\ e = Last(deferred[t])
  OBVIOUS
<1>4. /\ stage[k] = "loop" /\ r.left = << >> /\ deferred[t] # << >>
      /\ deferred' = [deferred EXCEPT ![t] = Front(@)]
      /\ frames' = [frames EXCEPT ![k] = Append(Front(@),
                       [r EXCEPT !.event = e, !.left = ListenersFor(r.ctx, TypeOf[e]), !.processed = @ + 1])]
      /\ UNCHANGED <<emitMode, flushing, on, stage, heardBy, cut, emitted>>
  BY <1>2, <1>3 DEF NextEvent, AtNextEvent, PopDeferred, SetTop
<1>5. frames[k] # << >> /\ frames \in [Task -> Seq(FlushLoop)] /\ deferred \in [Thread -> Seq(Event)]
  BY <1>1, <1>4 DEF LoopsRun, EmitTypes
<1>6. PICK n \in Nat : n = Len(frames[k]) /\ n \in 1..n /\ r = frames[k][n] /\ r \in FlushLoop
  BY <1>3, <1>5, TopIs
<1>7. PICK q \in Seq(Event) : q = deferred[t] /\ q # << >>
  BY <1>4, <1>5
<1>8. PICK m \in Nat : /\ m = Len(q) /\ m >= 1 /\ e = q[m] /\ e \in Event /\ Front(q) \in Seq(Event)
                      /\ Len(Front(q)) = m - 1 /\ \A i \in 1..(m - 1) : Front(q)[i] = q[i]
  <2>1. /\ Front(q) \in Seq(Event) /\ Last(q) \in Event /\ Len(q) \in Nat /\ Len(q) >= 1
        /\ Len(Front(q)) = Len(q) - 1 /\ Last(q) = q[Len(q)]
        /\ \A i \in 1..(Len(q) - 1) : Front(q)[i] = q[i]
    BY <1>7, Shrinks
  <2> QED BY <1>3, <1>7, <2>1
<1>9. PICK g \in FlushLoop :
         /\ g = [r EXCEPT !.event = e, !.left = ListenersFor(r.ctx, TypeOf[e]), !.processed = @ + 1]
         /\ g.event = e /\ g.left = ListenersFor(r.ctx, TypeOf[e]) /\ g.ctx = r.ctx /\ r.ctx \in Ctx
  <2>1. PICK s \in Seq(DOMAIN Listeners) : s = ListenersFor(r.ctx, TypeOf[e])
    BY ListenersInOrder
  <2>2. PICK p \in Nat : p = r.processed + 1
    BY <1>6 DEF FlushLoop
  <2>3. PICK g : g = [r EXCEPT !.event = e, !.left = s, !.processed = p]
    OBVIOUS
  <2>4. g \in FlushLoop /\ g.event = e /\ g.left = s /\ g.ctx = r.ctx /\ r.ctx \in Ctx
    BY <1>6, <1>8, <2>3 DEF FlushLoop
  <2>5. g = [r EXCEPT !.event = e, !.left = ListenersFor(r.ctx, TypeOf[e]), !.processed = @ + 1]
    BY <1>6, <2>1, <2>2, <2>3 DEF FlushLoop
  <2> QED BY <2>1, <2>4, <2>5
<1>10. /\ frames' \in [Task -> Seq(FlushLoop)] /\ frames'[k][n] = g
       /\ \A l \in Task : Len(frames'[l]) = Len(frames[l]) /\ (frames'[l] # << >> <=> frames[l] # << >>)
       /\ \A l \in Task, i \in Nat : (l # k \/ i # n) /\ i \in 1..Len(frames[l]) => frames'[l][i] = frames[l][i]
  <2>1. frames' = [frames EXCEPT ![k] = Append(Front(@), g)]
    BY <1>4, <1>9
  <2>2. /\ frames' \in [Task -> Seq(FlushLoop)] /\ frames'[k][Len(frames[k])] = g
        /\ \A l \in Task : Len(frames'[l]) = Len(frames[l]) /\ (frames'[l] # << >> <=> frames[l] # << >>)
        /\ \A l \in Task, i \in Nat : (l # k \/ i # Len(frames[k])) /\ i \in 1..Len(frames[l])
                                      => frames'[l][i] = frames[l][i]
    BY <1>5, <1>9, <2>1, TopMoves
  <2> QED BY <1>6, <2>2
<1>11. ASSUME NEW l \in Task, NEW i \in Nat, NEW x
       PROVE  InHand(frames', l, i, x) <=> IF l = k /\ i = n THEN x = e ELSE InHand(frames, l, i, x)
  <2>1. CASE l = k /\ i = n
    BY <1>6, <1>9, <1>10, <2>1 DEF InHand
  <2>2. CASE l # k \/ i # n
    BY <1>10, <2>2 DEF InHand
  <2> QED BY <2>1, <2>2
<1>12. deferred' \in [Thread -> Seq(Event)]
  BY <1>4, <1>5, <1>7, <1>8
<1>13. ASSUME NEW u \in Thread, NEW i \in Nat, NEW x
       PROVE  OnQueue(deferred', u, i, x) <=> OnQueue(deferred, u, i, x) /\ ~ (u = t /\ i = m)
  <2>1. CASE u = t
    <3>1. deferred'[t] = Front(q)
      BY <1>4, <1>5, <1>7
    <3>2. i \in 1..(m - 1) <=> i \in 1..m /\ i # m
      BY <1>8
    <3> QED BY <1>7, <1>8, <2>1, <3>1, <3>2 DEF OnQueue
  <2>2. CASE u # t
    BY <1>4, <1>5, <2>2 DEF OnQueue
  <2> QED BY <2>1, <2>2
<1>14. OnQueue(deferred, t, m, e)
  BY <1>7, <1>8 DEF OnQueue
<1>15. /\ e \in emitted /\ heardBy[e] = << >> /\ \A l \in Task, i \in Nat : ~ InHand(frames, l, i, e)
       /\ \A u \in Thread, i \in Nat : ~ OnQueue(deferred', u, i, e)
  <2>1. e \in emitted
    BY <1>1, <1>8, <1>14 DEF OnePlace, Nowhere
  <2>2. heardBy[e] = << >>
    BY <1>1, <1>8, <1>14 DEF Heard
  <2>3. \A l \in Task, i \in Nat : ~ InHand(frames, l, i, e)
    BY <1>1, <1>8, <1>14 DEF OnePlace
  <2>4. \A u \in Thread, i \in Nat : OnQueue(deferred, u, i, e) => u = t /\ i = m
    BY <1>1, <1>8, <1>14 DEF OnePlace
  <2> QED BY <1>13, <2>1, <2>2, <2>3, <2>4
<1>16. EmitTypes'
  BY <1>1, <1>4, <1>10, <1>12 DEF EmitTypes
<1>17. OnePlace(deferred', frames', emitted')
  <2> SUFFICES ASSUME NEW x \in Event
               PROVE  /\ \A u, v \in Thread, i, j \in Nat :
                            OnQueue(deferred', u, i, x) /\ OnQueue(deferred', v, j, x) => u = v /\ i = j
                      /\ \A l, p \in Task, i, j \in Nat :
                            InHand(frames', l, i, x) /\ InHand(frames', p, j, x) => l = p /\ i = j
                      /\ \A u \in Thread, l \in Task, i, j \in Nat :
                            ~ (OnQueue(deferred', u, i, x) /\ InHand(frames', l, j, x))
                      /\ x \notin emitted => Nowhere(deferred', frames', x)
    BY <1>4 DEF OnePlace
  <2>1. /\ \A u, v \in Thread, i, j \in Nat : OnQueue(deferred, u, i, x) /\ OnQueue(deferred, v, j, x) => u = v /\ i = j
        /\ \A l, p \in Task, i, j \in Nat : InHand(frames, l, i, x) /\ InHand(frames, p, j, x) => l = p /\ i = j
        /\ \A u \in Thread, l \in Task, i, j \in Nat : ~ (OnQueue(deferred, u, i, x) /\ InHand(frames, l, j, x))
        /\ x \notin emitted => Nowhere(deferred, frames, x)
    BY <1>1 DEF OnePlace
  <2>2. \A u \in Thread, i \in Nat : OnQueue(deferred', u, i, x) => OnQueue(deferred, u, i, x)
    BY <1>13
  <2>3. CASE x = e
    <3>1. \A l \in Task, i \in Nat : InHand(frames', l, i, x) => l = k /\ i = n
      BY <1>11, <1>15, <2>3
    <3>2. \A u \in Thread, i \in Nat : ~ OnQueue(deferred', u, i, x)
      BY <1>15, <2>3
    <3>3. x \in emitted
      BY <1>15, <2>3
    <3> QED BY <3>1, <3>2, <3>3
  <2>4. CASE x # e
    <3>1. \A l \in Task, i \in Nat : InHand(frames', l, i, x) => InHand(frames, l, i, x)
      BY <1>11, <2>4
    <3>2. x \notin emitted => Nowhere(deferred', frames', x)
      BY <2>1, <2>2, <3>1 DEF Nowhere
    <3> QED BY <2>1, <2>2, <3>1, <3>2
  <2> QED BY <2>3, <2>4
<1>18. Heard(deferred', frames', heardBy', emitted', cut')
  <2> SUFFICES ASSUME NEW x \in Event
               PROVE  /\ x \notin emitted => heardBy[x] = << >>
                      /\ \A u \in Thread, i \in Nat : OnQueue(deferred', u, i, x) => heardBy[x] = << >>
                      /\ \A l \in Task, i \in Nat : InHand(frames', l, i, x)
                            => heardBy[x] \o frames'[l][i].left = ListenersFor(frames'[l][i].ctx, TypeOf[x])
                      /\ \E c \in Ctx, rest \in Seq(DOMAIN Listeners) : heardBy[x] \o rest = ListenersFor(c, TypeOf[x])
                      /\ x \in emitted \ cut /\ Nowhere(deferred', frames', x)
                            => \E c \in Ctx : heardBy[x] = ListenersFor(c, TypeOf[x])
    BY <1>4 DEF Heard
  <2>1. /\ x \notin emitted => heardBy[x] = << >>
        /\ \A u \in Thread, i \in Nat : OnQueue(deferred, u, i, x) => heardBy[x] = << >>
        /\ \E c \in Ctx, rest \in Seq(DOMAIN Listeners) : heardBy[x] \o rest = ListenersFor(c, TypeOf[x])
    BY <1>1 DEF Heard
  <2>2. \A u \in Thread, i \in Nat : OnQueue(deferred', u, i, x) => heardBy[x] = << >>
    BY <1>13, <2>1
  <2>3. ASSUME NEW l \in Task, NEW i \in Nat, InHand(frames', l, i, x)
        PROVE  heardBy[x] \o frames'[l][i].left = ListenersFor(frames'[l][i].ctx, TypeOf[x])
    <3>1. CASE l = k /\ i = n
      <4>1. x = e
        BY <1>11, <2>3, <3>1
      <4>2. PICK s \in Seq(DOMAIN Listeners) : s = ListenersFor(r.ctx, TypeOf[e])
        BY ListenersInOrder
      <4>3. << >> \o s = s
        BY ConcatEmptySeq
      <4> QED BY <1>9, <1>10, <1>15, <3>1, <4>1, <4>2, <4>3
    <3>2. CASE l # k \/ i # n
      <4>1. InHand(frames, l, i, x)
        BY <1>11, <2>3, <3>2
      <4>2. frames'[l][i] = frames[l][i]
        BY <1>10, <3>2, <4>1 DEF InHand
      <4>3. heardBy[x] \o frames[l][i].left = ListenersFor(frames[l][i].ctx, TypeOf[x])
        BY <1>1, <4>1 DEF Heard
      <4> QED BY <4>2, <4>3
    <3> QED BY <3>1, <3>2
  <2>4. ASSUME x \in emitted \ cut, Nowhere(deferred', frames', x)
        PROVE  \E c \in Ctx : heardBy[x] = ListenersFor(c, TypeOf[x])
    <3>1. x # e
      <4>1. InHand(frames', k, n, e)
        BY <1>11
      <4> QED BY <2>4, <4>1 DEF Nowhere
    <3>2. CASE r.event = x
      BY <1>3, <1>4, <1>5, <3>2, HeardByAll
    <3>3. CASE r.event # x
      <4>1. ~ InHand(frames, k, n, x)
        BY <1>6, <3>3 DEF InHand
      <4>2. \A l \in Task, i \in Nat : ~ InHand(frames, l, i, x)
        BY <1>11, <2>4, <4>1 DEF Nowhere
      <4>3. ~ OnQueue(deferred, t, m, x)
        BY <1>7, <1>8, <3>1 DEF OnQueue
      <4>4. \A u \in Thread, i \in Nat : ~ OnQueue(deferred, u, i, x)
        BY <1>13, <2>4, <4>3 DEF Nowhere
      <4>5. Nowhere(deferred, frames, x)
        BY <4>2, <4>4 DEF Nowhere
      <4> QED BY <1>1, <2>4, <4>5 DEF Heard
    <3> QED BY <3>2, <3>3
  <2> QED BY <2>1, <2>2, <2>3, <2>4
<1>19. LoopsRun'
  <2>1. \A l \in Task, i \in Nat : InHand(frames', l, i, NoEvent) => frames'[l][i].left = << >>
    <3> SUFFICES ASSUME NEW l \in Task, NEW i \in Nat, InHand(frames', l, i, NoEvent) PROVE frames'[l][i].left = << >>
      OBVIOUS
    <3>1. l # k \/ i # n
      BY <1>8, <1>11 DEF EmitAssumption
    <3>2. InHand(frames, l, i, NoEvent)
      BY <1>11, <3>1
    <3>3. i \in 1..Len(frames[l])
      BY <3>2 DEF InHand
    <3> QED BY <1>1, <1>10, <3>1, <3>2, <3>3 DEF LoopsRun
  <2>2. \A l \in Task : frames'[l] # << >> <=> stage'[l] \in {"loop", "handling", "awaiting"}
    BY <1>1, <1>4, <1>10 DEF LoopsRun
  <2>3. \A l, p \in Task : on'[l] = on'[p] /\ stage'[l] \in {"loop", "handling"} /\ stage'[p] \in {"loop", "handling"} => l = p
    BY <1>1, <1>4 DEF LoopsRun
  <2>4. emitMode' = "sync" => \A l \in Task : stage'[l] # "awaiting" /\ Len(frames'[l]) <= 1
    BY <1>1, <1>4, <1>10 DEF LoopsRun
  <2> QED BY <2>1, <2>2, <2>3, <2>4 DEF LoopsRun
<1>20. SyncFlagIsTheLoop'
  <2>1. emitMode' = emitMode /\ flushing' = flushing /\ on' = on /\ stage' = stage
    BY <1>4
  <2>2. \A l \in Task : frames'[l] # << >> <=> frames[l] # << >>
    BY <1>10
  <2>3. \A u \in Thread : u # t => deferred'[u] = deferred[u]
    BY <1>4, <1>5
  <2>4. emitMode = "sync" => flushing[t]
    BY <1>1, <1>2, <1>5 DEF SyncFlagIsTheLoop
  <2>5. ASSUME emitMode = "sync", NEW u \in Thread
        PROVE  /\ flushing[u] <=> \E l \in Task : on[l] = u /\ frames'[l] # << >>
               /\ ~ flushing[u] /\ deferred'[u] # << >> => \E l \in Task : on[l] = u /\ stage[l] = "panicked"
    BY <1>1, <2>2, <2>3, <2>4, <2>5 DEF SyncFlagIsTheLoop
  <2> QED BY <2>1, <2>5 DEF SyncFlagIsTheLoop
<1> QED BY <1>16, <1>17, <1>18, <1>19, <1>20 DEF EmitInv

\* The loops at some places end.
LoopsGone(fs, gs, G) ==
  /\ \A l \in Task, i \in Nat : i \in 1..Len(gs[l]) <=> i \in 1..Len(fs[l]) /\ <<l, i>> \notin G
  /\ \A l \in Task, i \in Nat : i \in 1..Len(gs[l]) => gs[l][i] = fs[l][i]

\* What they held is through, or its dispatch is cut short.
ThroughOrCut(fs, h, c, G) ==
  \A l \in Task, i \in Nat, x \in Event \ c :
     InHand(fs, l, i, x) /\ <<l, i>> \in G => \E y \in Ctx : h[x] = ListenersFor(y, TypeOf[x])

LEMMA LoopsEnd ==
  ASSUME EmitInv, EmitAssumption, frames' \in [Task -> Seq(FlushLoop)],
         deferred' = deferred, emitted' = emitted, heardBy' = heardBy, cut \subseteq cut', cut' \in SUBSET Event,
         NEW G, LoopsGone(frames, frames', G), ThroughOrCut(frames, heardBy, cut', G)
  PROVE  /\ OnePlace(deferred', frames', emitted') /\ Heard(deferred', frames', heardBy', emitted', cut')
         /\ \A l \in Task, i \in Nat : InHand(frames', l, i, NoEvent) => frames'[l][i].left = << >>
<1>1. /\ OnePlace(deferred, frames, emitted) /\ Heard(deferred, frames, heardBy, emitted, cut) /\ LoopsRun
      /\ deferred' = deferred /\ emitted' = emitted /\ heardBy' = heardBy
  BY DEF EmitInv
<1>2. ASSUME NEW l \in Task, NEW i \in Nat, NEW x
      PROVE  InHand(frames', l, i, x) <=> InHand(frames, l, i, x) /\ <<l, i>> \notin G
  <2>1. i \in 1..Len(frames'[l]) <=> i \in 1..Len(frames[l]) /\ <<l, i>> \notin G
    BY DEF LoopsGone
  <2>2. i \in 1..Len(frames'[l]) => frames'[l][i] = frames[l][i]
    BY DEF LoopsGone
  <2> QED BY <2>1, <2>2 DEF InHand
<1>3. OnePlace(deferred', frames', emitted')
  <2>1. OnePlace(deferred, frames', emitted)
    <3> SUFFICES ASSUME NEW x \in Event
                 PROVE  /\ \A t, u \in Thread, i, j \in Nat :
                              OnQueue(deferred, t, i, x) /\ OnQueue(deferred, u, j, x) => t = u /\ i = j
                        /\ \A l, m \in Task, i, j \in Nat :
                              InHand(frames', l, i, x) /\ InHand(frames', m, j, x) => l = m /\ i = j
                        /\ \A t \in Thread, l \in Task, i, j \in Nat :
                              ~ (OnQueue(deferred, t, i, x) /\ InHand(frames', l, j, x))
                        /\ x \notin emitted => Nowhere(deferred, frames', x)
      BY DEF OnePlace
    <3>1. \A l \in Task, i \in Nat : InHand(frames', l, i, x) => InHand(frames, l, i, x)
      BY <1>2
    <3>2. Nowhere(deferred, frames, x) => Nowhere(deferred, frames', x)
      BY <3>1 DEF Nowhere
    <3> QED BY <1>1, <3>1, <3>2 DEF OnePlace
  <2> QED BY <1>1, <2>1
<1>4. Heard(deferred, frames', heardBy, emitted, cut')
  <2> SUFFICES ASSUME NEW x \in Event
               PROVE  /\ \A l \in Task, i \in Nat : InHand(frames', l, i, x)
                            => heardBy[x] \o frames'[l][i].left = ListenersFor(frames'[l][i].ctx, TypeOf[x])
                      /\ x \in emitted \ cut' /\ Nowhere(deferred, frames', x)
                            => \E c \in Ctx : heardBy[x] = ListenersFor(c, TypeOf[x])
    <3>1. ASSUME NEW x \in Event
          PROVE  /\ x \notin emitted => heardBy[x] = << >>
                 /\ \A t \in Thread, i \in Nat : OnQueue(deferred, t, i, x) => heardBy[x] = << >>
                 /\ \E c \in Ctx, rest \in Seq(DOMAIN Listeners) : heardBy[x] \o rest = ListenersFor(c, TypeOf[x])
      BY <1>1 DEF Heard
    <3> QED BY <3>1 DEF Heard
  <2>1. ASSUME NEW l \in Task, NEW i \in Nat, InHand(frames', l, i, x)
        PROVE  heardBy[x] \o frames'[l][i].left = ListenersFor(frames'[l][i].ctx, TypeOf[x])
    <3>1. InHand(frames, l, i, x) /\ frames'[l][i] = frames[l][i]
      BY <1>2, <2>1 DEF InHand, LoopsGone
    <3>2. heardBy[x] \o frames[l][i].left = ListenersFor(frames[l][i].ctx, TypeOf[x])
      BY <1>1, <3>1 DEF Heard
    <3> QED BY <3>1, <3>2
  <2>2. ASSUME x \in emitted \ cut', Nowhere(deferred, frames', x)
        PROVE  \E c \in Ctx : heardBy[x] = ListenersFor(c, TypeOf[x])
    <3>1. CASE Nowhere(deferred, frames, x)
      BY <1>1, <2>2, <3>1 DEF Heard
    <3>2. CASE ~ Nowhere(deferred, frames, x)
      <4>1. PICK l \in Task, i \in Nat : InHand(frames, l, i, x)
        BY <2>2, <3>2 DEF Nowhere
      <4>2. ~ InHand(frames', l, i, x)
        BY <2>2 DEF Nowhere
      <4>3. <<l, i>> \in G
        BY <1>2, <4>1, <4>2
      <4> QED BY <2>2, <4>1, <4>3 DEF ThroughOrCut
    <3> QED BY <3>1, <3>2
  <2> QED BY <2>1, <2>2
<1>5. ASSUME NEW l \in Task, NEW i \in Nat, InHand(frames', l, i, NoEvent) PROVE frames'[l][i].left = << >>
  <2>1. InHand(frames, l, i, NoEvent) /\ frames'[l][i] = frames[l][i]
    BY <1>2, <1>5 DEF InHand, LoopsGone
  <2> QED BY <1>1, <2>1 DEF LoopsRun
<1> QED BY <1>1, <1>3, <1>4, <1>5

LEMMA FlushEndsKeeps ==
  ASSUME EmitInv, EmitAssumption, NEW k \in Task, FlushEnds(k) PROVE EmitInv'
<1>1. EmitTypes /\ LoopsRun /\ SyncFlagIsTheLoop
  BY DEF EmitInv
<1>2. PICK t \in Thread : t = on[k]
  BY <1>1 DEF EmitTypes
<1>3. /\ stage[k] = "loop" /\ TopFrame(k).left = << >> /\ deferred[t] = << >>
      /\ flushing' = [flushing EXCEPT ![t] = FALSE] /\ frames' = [frames EXCEPT ![k] = Front(@)]
      /\ stage' = [stage EXCEPT ![k] = IF Len(frames[k]) = 1 THEN "done" ELSE "handling"]
      /\ UNCHANGED <<emitMode, deferred, on, heardBy, cut, emitted>>
  BY <1>2 DEF FlushEnds, AtNextEvent, Unflag, SetStage
<1>4. frames[k] # << >> /\ frames \in [Task -> Seq(FlushLoop)]
  BY <1>1, <1>3 DEF LoopsRun, EmitTypes
<1>5. PICK s \in Seq(FlushLoop) : s = frames[k] /\ s # << >>
  BY <1>4
<1>6. PICK n \in Nat, u \in Seq(FlushLoop) : /\ n = Len(s) /\ n >= 1 /\ u = Front(s) /\ Len(u) = n - 1
                                            /\ Last(s) = s[n] /\ \A i \in 1..(n - 1) : u[i] = s[i]
  <2>1. /\ Front(s) \in Seq(FlushLoop) /\ Len(s) \in Nat /\ Len(s) >= 1 /\ Last(s) = s[Len(s)]
        /\ Len(Front(s)) = Len(s) - 1 /\ \A i \in 1..(Len(s) - 1) : Front(s)[i] = s[i]
    BY <1>5, Shrinks
  <2> QED BY <2>1
<1>7. frames' \in [Task -> Seq(FlushLoop)] /\ \A l \in Task : frames'[l] = IF l = k THEN u ELSE frames[l]
  BY <1>3, <1>4, <1>5, <1>6
<1>8. /\ OnePlace(deferred', frames', emitted') /\ Heard(deferred', frames', heardBy', emitted', cut')
      /\ \A l \in Task, i \in Nat : InHand(frames', l, i, NoEvent) => frames'[l][i].left = << >>
  <2>0. PICK G : G = {<<k, n>>}
    OBVIOUS
  <2>1. \A i \in Nat : i \in 1..(n - 1) <=> i \in 1..n /\ i # n
    OBVIOUS
  <2>2. \A l \in Task, i \in Nat : i \in 1..Len(frames'[l]) <=> i \in 1..Len(frames[l]) /\ <<l, i>> \notin G
    BY <1>5, <1>6, <1>7, <2>0, <2>1
  <2>3. \A l \in Task, i \in Nat : i \in 1..Len(frames'[l]) => frames'[l][i] = frames[l][i]
    BY <1>5, <1>6, <1>7
  <2>4. ASSUME NEW l \in Task, NEW i \in Nat, NEW x \in Event \ cut', InHand(frames, l, i, x), <<l, i>> \in G
        PROVE  \E c \in Ctx : heardBy[x] = ListenersFor(c, TypeOf[x])
    <3>1. TopFrame(k).event = x
      BY <1>5, <1>6, <2>0, <2>4 DEF TopFrame, InHand
    <3> QED BY <1>3, <1>4, <3>1, HeardByAll
  <2>5. deferred' = deferred /\ emitted' = emitted /\ heardBy' = heardBy /\ cut \subseteq cut' /\ cut' \in SUBSET Event
    BY <1>1, <1>3 DEF EmitTypes
  <2>6. LoopsGone(frames, frames', G) /\ ThroughOrCut(frames, heardBy, cut', G)
    BY <2>2, <2>3, <2>4 DEF LoopsGone, ThroughOrCut
  <2> QED BY <1>7, <2>5, <2>6, LoopsEnd
<1>9. n = 1 <=> u = << >>
  BY <1>6, EmptySeq
<1>10. \A l \in Task : stage'[l] = IF l = k THEN IF n = 1 THEN "done" ELSE "handling" ELSE stage[l]
  BY <1>1, <1>3, <1>5, <1>6 DEF EmitTypes
<1>11. EmitTypes'
  BY <1>1, <1>3, <1>7 DEF EmitTypes
<1>12. LoopsRun'
  <2>1. \A l \in Task : frames'[l] # << >> <=> stage'[l] \in {"loop", "handling", "awaiting"}
    BY <1>1, <1>7, <1>9, <1>10 DEF LoopsRun
  <2>2. \A l, p \in Task : on'[l] = on'[p] /\ stage'[l] \in {"loop", "handling"} /\ stage'[p] \in {"loop", "handling"} => l = p
    BY <1>1, <1>3, <1>10 DEF LoopsRun
  <2>3. ASSUME emitMode = "sync", NEW l \in Task PROVE stage'[l] # "awaiting" /\ Len(frames'[l]) <= 1
    <3>1. stage[l] # "awaiting" /\ Len(frames[l]) <= 1
      BY <1>1, <2>3 DEF LoopsRun
    <3>2. l = k => Len(frames'[l]) = n - 1 /\ n <= 1
      BY <1>5, <1>6, <1>7, <3>1
    <3>3. l = k => Len(frames'[l]) <= 1
      <4>1. n <= 1 => n - 1 <= 1
        OBVIOUS
      <4> QED BY <3>2, <4>1
    <3> QED BY <1>7, <1>10, <3>1, <3>3
  <2> QED BY <1>3, <1>8, <2>1, <2>2, <2>3 DEF LoopsRun
<1>13. SyncFlagIsTheLoop'
  <2> SUFFICES ASSUME emitMode = "sync", NEW v \in Thread
               PROVE  /\ flushing'[v] <=> \E l \in Task : on[l] = v /\ frames'[l] # << >>
                      /\ ~ flushing'[v] /\ deferred[v] # << >> => \E l \in Task : on[l] = v /\ stage'[l] = "panicked"
    BY <1>3 DEF SyncFlagIsTheLoop
  <2>1. /\ flushing[v] <=> \E l \in Task : on[l] = v /\ frames[l] # << >>
        /\ ~ flushing[v] /\ deferred[v] # << >> => \E l \in Task : on[l] = v /\ stage[l] = "panicked"
    BY <1>1 DEF SyncFlagIsTheLoop
  <2>2. frames'[k] = << >>
    <3>1. Len(frames[k]) <= 1
      BY <1>1 DEF LoopsRun
    <3>2. n <= 1
      BY <1>5, <1>6, <3>1
    <3>3. n = 1
      BY <1>6, <3>2
    <3> QED BY <1>7, <1>9, <3>3
  <2>3. \A l \in Task : on[l] = t /\ frames[l] # << >> => l = k
    BY <1>1, <1>2, <1>3 DEF LoopsRun
  <2>4. \A l \in Task : stage[l] = "panicked" => stage'[l] = "panicked"
    BY <1>3, <1>10
  <2>5. flushing'[v] = IF v = t THEN FALSE ELSE flushing[v]
    BY <1>1, <1>3 DEF EmitTypes
  <2>6. CASE v = t
    BY <1>3, <1>7, <2>2, <2>3, <2>5, <2>6
  <2>7. CASE v # t
    BY <1>2, <1>7, <2>1, <2>2, <2>4, <2>5, <2>7
  <2> QED BY <2>6, <2>7
<1> QED BY <1>8, <1>11, <1>12, <1>13 DEF EmitInv

LEMMA UnwindKeeps ==
  ASSUME EmitInv, EmitAssumption, NEW k \in Task, stage[k] \in {"loop", "handling", "awaiting"},
         NEW t \in Thread, NEW how \in {"panicked", "dropped"}, Unwind(k, t, how),
         on' = [on EXCEPT ![k] = t], emitMode = "sync" => t = on[k] /\ how = "panicked",
         UNCHANGED <<emitMode, deferred, heardBy, emitted>>
  PROVE  EmitInv'
<1>1. EmitTypes /\ LoopsRun /\ SyncFlagIsTheLoop
  BY DEF EmitInv
<1>2. /\ flushing' = [flushing EXCEPT ![t] = FALSE] /\ frames' = [frames EXCEPT ![k] = << >>]
      /\ cut' = cut \cup ({frames[k][i].event : i \in DOMAIN frames[k]} \ {NoEvent})
      /\ stage' = [stage EXCEPT ![k] = how]
  BY DEF Unwind, Unflag, SetStage
<1>3. frames \in [Task -> Seq(FlushLoop)]
  BY <1>1 DEF EmitTypes
<1>4. PICK s \in Seq(FlushLoop) : s = frames[k]
  BY <1>3
<1>5. PICK n \in Nat : n = Len(s) /\ DOMAIN s = 1..n /\ \A i \in 1..n : s[i] \in FlushLoop
  <2>1. Len(s) \in Nat /\ DOMAIN s = 1..Len(s)
    BY LenProperties
  <2>2. \A i \in 1..Len(s) : s[i] \in FlushLoop
    BY ElementOfSeq
  <2> QED BY <2>1, <2>2
<1>6. /\ frames' \in [Task -> Seq(FlushLoop)] /\ Len(<< >>) = 0
      /\ \A l \in Task : frames'[l] = IF l = k THEN << >> ELSE frames[l]
  BY <1>2, <1>3, EmptySeq
<1>7. cut' \in SUBSET Event /\ cut \subseteq cut' /\ \A i \in 1..n : s[i].event # NoEvent => s[i].event \in cut'
  <2>1. \A i \in 1..n : s[i].event \in Event \cup {NoEvent}
    BY <1>5 DEF FlushLoop
  <2>2. cut \in SUBSET Event
    BY <1>1 DEF EmitTypes
  <2> QED BY <1>2, <1>4, <1>5, <2>1, <2>2
<1>8. /\ OnePlace(deferred', frames', emitted') /\ Heard(deferred', frames', heardBy', emitted', cut')
      /\ \A l \in Task, i \in Nat : InHand(frames', l, i, NoEvent) => frames'[l][i].left = << >>
  <2>1. PICK G : G = {k} \X (1..n)
    OBVIOUS
  <2>2. LoopsGone(frames, frames', G)
    <3> SUFFICES ASSUME NEW l \in Task, NEW i \in Nat
                 PROVE  /\ i \in 1..Len(frames'[l]) <=> i \in 1..Len(frames[l]) /\ <<l, i>> \notin G
                        /\ i \in 1..Len(frames'[l]) => frames'[l][i] = frames[l][i]
      BY DEF LoopsGone
    <3>1. CASE l = k
      <4>1. i \notin 1..0
        OBVIOUS
      <4> QED BY <1>4, <1>5, <1>6, <2>1, <3>1, <4>1
    <3>2. CASE l # k
      BY <1>6, <2>1, <3>2
    <3> QED BY <3>1, <3>2
  <2>3. ThroughOrCut(frames, heardBy, cut', G)
    <3> SUFFICES ASSUME NEW l \in Task, NEW i \in Nat, NEW x \in Event \ cut',
                        InHand(frames, l, i, x), <<l, i>> \in G
                 PROVE  FALSE
      BY DEF ThroughOrCut
    <3>1. l = k /\ i \in 1..n /\ s[i].event = x
      BY <1>4, <2>1 DEF InHand
    <3>2. x # NoEvent
      BY DEF EmitAssumption
    <3> QED BY <1>7, <3>1, <3>2
  <2> QED BY <1>6, <1>7, <2>2, <2>3, LoopsEnd
<1>9. /\ \A l \in Task : stage'[l] = IF l = k THEN how ELSE stage[l]
      /\ \A l \in Task : on'[l] = IF l = k THEN t ELSE on[l]
      /\ \A u \in Thread : flushing'[u] = IF u = t THEN FALSE ELSE flushing[u]
  BY <1>1, <1>2 DEF EmitTypes
<1>10. EmitTypes'
  BY <1>1, <1>2, <1>6, <1>7 DEF EmitTypes
<1>11. LoopsRun'
  <2>1. \A l \in Task : frames'[l] # << >> <=> stage'[l] \in {"loop", "handling", "awaiting"}
    BY <1>1, <1>6, <1>9 DEF LoopsRun
  <2>2. \A l, p \in Task : on'[l] = on'[p] /\ stage'[l] \in {"loop", "handling"} /\ stage'[p] \in {"loop", "handling"} => l = p
    BY <1>1, <1>9 DEF LoopsRun
  <2>3. ASSUME emitMode = "sync", NEW l \in Task PROVE stage'[l] # "awaiting" /\ Len(frames'[l]) <= 1
    <3>1. stage[l] # "awaiting" /\ Len(frames[l]) <= 1
      BY <1>1, <2>3 DEF LoopsRun
    <3>2. 0 <= 1
      OBVIOUS
    <3> QED BY <1>6, <1>9, <3>1, <3>2
  <2> QED BY <1>8, <2>1, <2>2, <2>3 DEF LoopsRun
<1>12. SyncFlagIsTheLoop'
  <2> SUFFICES ASSUME emitMode = "sync", NEW v \in Thread
               PROVE  /\ flushing'[v] <=> \E l \in Task : on'[l] = v /\ frames'[l] # << >>
                      /\ ~ flushing'[v] /\ deferred[v] # << >> => \E l \in Task : on'[l] = v /\ stage'[l] = "panicked"
    BY DEF SyncFlagIsTheLoop
  <2>1. /\ flushing[v] <=> \E l \in Task : on[l] = v /\ frames[l] # << >>
        /\ ~ flushing[v] /\ deferred[v] # << >> => \E l \in Task : on[l] = v /\ stage[l] = "panicked"
    BY <1>1 DEF SyncFlagIsTheLoop
  <2>2. stage[k] \in {"loop", "handling"} /\ t = on[k] /\ how = "panicked"
    BY <1>1 DEF LoopsRun
  <2>3. \A l \in Task : on[l] = t /\ frames[l] # << >> => l = k
    BY <1>1, <2>2 DEF LoopsRun
  <2>4. \A l \in Task : on'[l] = on[l] /\ (stage[l] = "panicked" => stage'[l] = "panicked")
    BY <1>9, <2>2
  <2>5. CASE v = t
    <3>1. ~ \E l \in Task : on'[l] = v /\ frames'[l] # << >>
      BY <1>6, <2>3, <2>4, <2>5
    <3>2. on'[k] = v /\ stage'[k] = "panicked"
      BY <1>9, <2>2, <2>5
    <3> QED BY <1>9, <2>5, <3>1, <3>2
  <2>6. CASE v # t
    <3>1. \A l \in Task : on[l] = v => l # k
      BY <2>2, <2>6
    <3>2. \A l \in Task : on[l] = v => (frames'[l] # << >> <=> frames[l] # << >>)
      BY <1>6, <3>1
    <3>3. flushing'[v] = flushing[v]
      BY <1>9, <2>6
    <3> QED BY <2>1, <2>4, <3>2, <3>3
  <2> QED BY <2>5, <2>6
<1> QED BY <1>8, <1>10, <1>11, <1>12 DEF EmitInv

\* A listener returns, awaits or goes on: only where its task stands changes.
LEMMA TurnsKeep ==
  ASSUME EmitInv, NEW k \in Task, NEW t \in Thread,
         \/ stage[k] = "handling" /\ t = on[k] /\ stage' = [stage EXCEPT ![k] = "loop"]
         \/ emitMode = "async" /\ stage[k] = "handling" /\ t = on[k] /\ stage' = [stage EXCEPT ![k] = "awaiting"]
         \/ stage[k] = "awaiting" /\ Free(t) /\ stage' = [stage EXCEPT ![k] = "handling"],
         on' = [on EXCEPT ![k] = t],
         UNCHANGED <<emitMode, deferred, flushing, frames, heardBy, cut, emitted>>
  PROVE  EmitInv'
<1>1. EmitTypes /\ LoopsRun /\ SyncFlagIsTheLoop
  BY DEF EmitInv
<1>2. /\ \A l \in Task : l # k => stage'[l] = stage[l]
      /\ \A l \in Task : on'[l] = IF l = k THEN t ELSE on[l]
  BY <1>1 DEF EmitTypes
<1>3. \/ stage[k] = "handling" /\ t = on[k] /\ stage'[k] = "loop"
      \/ emitMode = "async" /\ stage[k] = "handling" /\ t = on[k] /\ stage'[k] = "awaiting"
      \/ stage[k] = "awaiting" /\ Free(t) /\ stage'[k] = "handling"
  BY <1>1 DEF EmitTypes
<1>4. EmitTypes'
  BY <1>1 DEF EmitTypes
<1>5. LoopsRun'
  <2>1. \A l \in Task : frames'[l] # << >> <=> stage'[l] \in {"loop", "handling", "awaiting"}
    <3> SUFFICES ASSUME NEW l \in Task PROVE frames[l] # << >> <=> stage'[l] \in {"loop", "handling", "awaiting"}
      OBVIOUS
    <3> QED BY <1>1, <1>2, <1>3 DEF LoopsRun
  <2>2. \A l, p \in Task : on'[l] = on'[p] /\ stage'[l] \in {"loop", "handling"} /\ stage'[p] \in {"loop", "handling"} => l = p
    <3>1. \A l \in Task : l # k /\ on[l] = t /\ stage[l] \in {"loop", "handling"} => stage'[k] \notin {"loop", "handling"}
      BY <1>1, <1>3 DEF LoopsRun, Free
    <3> QED BY <1>1, <1>2, <3>1 DEF LoopsRun
  <2>3. emitMode = "sync" => \A l \in Task : stage'[l] # "awaiting" /\ Len(frames[l]) <= 1
    BY <1>1, <1>2, <1>3 DEF LoopsRun
  <2>4. \A l \in Task, i \in Nat : InHand(frames, l, i, NoEvent) => frames[l][i].left = << >>
    BY <1>1 DEF LoopsRun
  <2>5. frames' = frames /\ emitMode' = emitMode
    OBVIOUS
  <2> QED BY <2>1, <2>2, <2>3, <2>4, <2>5 DEF LoopsRun
<1>6. SyncFlagIsTheLoop'
  <2> SUFFICES ASSUME emitMode = "sync", NEW v \in Thread
               PROVE  /\ flushing[v] <=> \E l \in Task : on'[l] = v /\ frames[l] # << >>
                      /\ ~ flushing[v] /\ deferred[v] # << >> => \E l \in Task : on'[l] = v /\ stage'[l] = "panicked"
    BY DEF SyncFlagIsTheLoop
  <2>1. /\ flushing[v] <=> \E l \in Task : on[l] = v /\ frames[l] # << >>
        /\ ~ flushing[v] /\ deferred[v] # << >> => \E l \in Task : on[l] = v /\ stage[l] = "panicked"
    BY <1>1 DEF SyncFlagIsTheLoop
  <2>2. t = on[k] /\ stage[k] # "panicked"
    BY <1>1, <1>3 DEF LoopsRun
  <2>3. \A l \in Task : on'[l] = on[l] /\ (stage[l] = "panicked" => stage'[l] = "panicked")
    BY <1>2, <2>2
  <2> QED BY <2>1, <2>3
<1>7. OnePlace(deferred', frames', emitted') /\ Heard(deferred', frames', heardBy', emitted', cut')
  <2>1. OnePlace(deferred, frames, emitted) /\ Heard(deferred, frames, heardBy, emitted, cut)
    BY DEF EmitInv
  <2>2. deferred' = deferred /\ frames' = frames /\ emitted' = emitted /\ heardBy' = heardBy /\ cut' = cut
    OBVIOUS
  <2> QED BY <2>1, <2>2
<1> QED BY <1>4, <1>5, <1>6, <1>7 DEF EmitInv

LEMMA EmitStepKeeps == ASSUME EmitInv, EmitAssumption, EmitNext \/ UNCHANGED emitVars PROVE EmitInv'
<1>1. EmitTypes /\ LoopsRun
  BY DEF EmitInv
<1>2. ASSUME NEW k \in Task PROVE on[k] \in Thread /\ on = [on EXCEPT ![k] = on[k]]
  BY <1>1 DEF EmitTypes
<1>3. CASE UNCHANGED emitVars
  <2>1. UNCHANGED <<emitMode, deferred, flushing, on, stage, frames, emitted, heardBy, cut>>
    BY <1>3 DEF emitVars
  <2>2. EmitTypes' /\ LoopsRun' /\ SyncFlagIsTheLoop'
    BY <2>1 DEF EmitInv, EmitTypes, LoopsRun, SyncFlagIsTheLoop
  <2>3. OnePlace(deferred', frames', emitted') /\ Heard(deferred', frames', heardBy', emitted', cut')
    <3>1. OnePlace(deferred, frames, emitted) /\ Heard(deferred, frames, heardBy, emitted, cut)
      BY DEF EmitInv
    <3> QED BY <2>1, <3>1
  <2> QED BY <2>2, <2>3 DEF EmitInv
<1>4. ASSUME NEW k \in Task, Overflow(k) \/ ListenerPanics(k) PROVE EmitInv'
  <2>1. /\ stage[k] \in {"loop", "handling", "awaiting"} /\ Unwind(k, on[k], "panicked")
        /\ on' = [on EXCEPT ![k] = on[k]] /\ UNCHANGED <<emitMode, deferred, heardBy, emitted>>
    BY <1>2, <1>4 DEF Overflow, ListenerPanics, AtNextEvent
  <2> QED BY <1>2, <2>1, UnwindKeeps
<1>5. ASSUME NEW k \in Task, NEW t \in Thread, DropFlush(k, t) PROVE EmitInv'
  <2>1. emitMode # "sync"
    BY <1>1, <1>5 DEF DropFlush, LoopsRun
  <2> QED BY <1>5, <2>1, UnwindKeeps DEF DropFlush
<1>6. ASSUME NEW k \in Task, ListenerReturns(k) \/ ListenerAwaits(k) PROVE EmitInv'
  <2>1. on' = [on EXCEPT ![k] = on[k]]
    BY <1>2, <1>6 DEF ListenerReturns, ListenerAwaits
  <2> QED BY <1>2, <1>6, <2>1, TurnsKeep DEF ListenerReturns, ListenerAwaits, SetStage
<1>7. ASSUME NEW k \in Task, NEW t \in Thread, Resume(k, t) PROVE EmitInv'
  BY <1>7, TurnsKeep DEF Resume, SetStage
<1> QED BY <1>3, <1>4, <1>5, <1>6, <1>7, EmitKeeps, EmitNestedKeeps, CallListenerKeeps, NextEventKeeps, FlushEndsKeeps
        DEF EmitNext

LEMMA EventsAreAccounted == ASSUME EmitInv, EmitAssumption PROVE EventsAccountedFor /\ SyncFlagIsTheLoop
<1>1. EmitTypes /\ OnePlace(deferred, frames, emitted) /\ Heard(deferred, frames, heardBy, emitted, cut) /\ SyncFlagIsTheLoop
  BY DEF EmitInv
<1> SUFFICES ASSUME NEW e \in Event
             PROVE  /\ Cardinality(Places(e)) <= 1
                    /\ \A i, j \in DOMAIN heardBy[e] : i < j => Before(heardBy[e][i], heardBy[e][j])
                    /\ \E c \in Ctx :
                          /\ ToSet(heardBy[e]) \subseteq Registered(c, TypeOf[e])
                          /\ e \in emitted \ cut /\ Places(e) = {} =>
                                ToSet(heardBy[e]) = Registered(c, TypeOf[e])
  BY <1>1 DEF EventsAccountedFor
<1>2. ASSUME NEW t \in Thread PROVE DOMAIN deferred[t] = 1..Len(deferred[t]) /\ Len(deferred[t]) \in Nat
  BY <1>1, LenProperties DEF EmitTypes
<1>3. ASSUME NEW k \in Task PROVE DOMAIN frames[k] = 1..Len(frames[k]) /\ Len(frames[k]) \in Nat
  BY <1>1, LenProperties DEF EmitTypes
<1>4. ASSUME NEW p
      PROVE  p \in Places(e) <=> \/ \E t \in Thread, i \in Nat : OnQueue(deferred, t, i, e) /\ p = <<t, i>>
                                 \/ \E k \in Task, i \in Nat : InHand(frames, k, i, e) /\ p = <<k, i>>
  <2>1. p \in Places(e) <=> \/ \E t \in Thread : p \in {t} \X {i \in DOMAIN deferred[t] : deferred[t][i] = e}
                            \/ \E k \in Task : p \in {k} \X {i \in DOMAIN frames[k] : frames[k][i].event = e}
    <3>1. PICK A, B : /\ A = {{t} \X {i \in DOMAIN deferred[t] : deferred[t][i] = e} : t \in Thread}
                     /\ B = {{k} \X {i \in DOMAIN frames[k] : frames[k][i].event = e} : k \in Task}
      OBVIOUS
    <3>2. p \in Places(e) <=> \E S \in A \cup B : p \in S
      BY <3>1 DEF Places
    <3>3. (\E S \in A \cup B : p \in S) <=> (\E S \in A : p \in S) \/ (\E S \in B : p \in S)
      OBVIOUS
    <3>4. (\E S \in A : p \in S) <=> \E t \in Thread : p \in {t} \X {i \in DOMAIN deferred[t] : deferred[t][i] = e}
      BY <3>1
    <3>5. (\E S \in B : p \in S) <=> \E k \in Task : p \in {k} \X {i \in DOMAIN frames[k] : frames[k][i].event = e}
      BY <3>1
    <3> QED BY <3>2, <3>3, <3>4, <3>5
  <2>2. ASSUME NEW t \in Thread
        PROVE  p \in {t} \X {i \in DOMAIN deferred[t] : deferred[t][i] = e}
                 <=> \E i \in Nat : OnQueue(deferred, t, i, e) /\ p = <<t, i>>
    BY <1>2 DEF OnQueue
  <2>3. ASSUME NEW k \in Task
        PROVE  p \in {k} \X {i \in DOMAIN frames[k] : frames[k][i].event = e}
                 <=> \E i \in Nat : InHand(frames, k, i, e) /\ p = <<k, i>>
    BY <1>3 DEF InHand
  <2> QED BY <2>1, <2>2, <2>3
<1>5. \A p, q \in Places(e) : p = q
  BY <1>1, <1>4 DEF OnePlace
<1>6. Cardinality(Places(e)) <= 1
  <2>1. CASE Places(e) = {}
    <3>1. Cardinality(Places(e)) = 0 /\ 0 <= 1
      BY <2>1, FS_EmptySet
    <3> QED BY <3>1
  <2>2. CASE Places(e) # {}
    <3>1. PICK p : p \in Places(e)
      BY <2>2
    <3>2. Places(e) = {p}
      BY <1>5, <3>1
    <3>3. Cardinality(Places(e)) = 1
      BY <3>2, FS_Singleton
    <3> QED BY <3>3
  <2> QED BY <2>1, <2>2
<1>7. Places(e) = {} => Nowhere(deferred, frames, e)
  BY <1>4 DEF Nowhere
<1>8. PICK h \in Seq(DOMAIN Listeners) : h = heardBy[e]
  BY <1>1 DEF EmitTypes
<1>9. PICK n \in Nat : n = Len(h) /\ DOMAIN h = 1..n
  BY LenProperties
<1>10. ToSet(h) = Ran(h)
  BY <1>9 DEF ToSet, Ran
<1>11. ASSUME NEW c \in Ctx, NEW rest \in Seq(DOMAIN Listeners), h \o rest = ListenersFor(c, TypeOf[e])
       PROVE  /\ ToSet(h) \subseteq Registered(c, TypeOf[e])
              /\ \A i, j \in 1..n : i < j => Before(h[i], h[j])
  <2>1. PICK s, m : m \in Nat /\ s = h \o rest /\ m = Len(rest)
    BY LenProperties
  <2>2. Len(s) = n + m /\ \A i \in 1..(n + m) : s[i] = IF i <= n THEN h[i] ELSE rest[i - n]
    BY <1>9, <2>1, ConcatProperties
  <2>3. \A i \in 1..n : i \in 1..Len(s) /\ s[i] = h[i]
    <3>1. \A i \in 1..n : i \in 1..(n + m) /\ i <= n
      BY <2>1
    <3> QED BY <2>2, <3>1
  <2>4. Ran(s) = Registered(c, TypeOf[e]) /\ \A i, j \in 1..Len(s) : i < j => Before(s[i], s[j])
    BY <1>11, <2>1, ListenersInOrder
  <2>5. Ran(h) \subseteq Ran(s)
    BY <1>9, <2>3 DEF Ran
  <2> QED BY <1>10, <2>3, <2>4, <2>5
<1>12. \A i, j \in DOMAIN h : i < j => Before(h[i], h[j])
  <2>1. PICK c \in Ctx, rest \in Seq(DOMAIN Listeners) : h \o rest = ListenersFor(c, TypeOf[e])
    BY <1>1, <1>8 DEF Heard
  <2> QED BY <1>9, <1>11, <2>1
<1>13. CASE e \in emitted \ cut /\ Places(e) = {}
  <2>1. PICK c \in Ctx : h = ListenersFor(c, TypeOf[e])
    BY <1>1, <1>7, <1>8, <1>13 DEF Heard
  <2>2. Ran(h) = Registered(c, TypeOf[e])
    BY <2>1, ListenersInOrder
  <2>3. ToSet(h) = Registered(c, TypeOf[e])
    BY <1>10, <2>2
  <2> QED BY <1>6, <1>8, <1>12, <2>3
<1>14. CASE ~ (e \in emitted \ cut /\ Places(e) = {})
  <2>1. PICK c \in Ctx, rest \in Seq(DOMAIN Listeners) : h \o rest = ListenersFor(c, TypeOf[e])
    BY <1>1, <1>8 DEF Heard
  <2>2. ToSet(h) \subseteq Registered(c, TypeOf[e])
    BY <1>11, <2>1
  <2> QED BY <1>6, <1>8, <1>12, <1>14, <2>2
<1> QED BY <1>13, <1>14
-----------------------------------------------------------------------------
(* Streamed answers.                                                       *)

Octet == [event : Nat, unit : {"first", "second", Newline, Broken}]

StreamTypes ==
  /\ events \in Seq(EventKind) /\ ended \in BOOLEAN
  /\ wire \in Seq(Octet) /\ buffer \in Seq(Octet)
  /\ yielded \in Seq([event : Nat, intact : BOOLEAN])
  /\ split \in SUBSET Nat

\* After c events were taken out of the buffer: where the wire and the buffer
\* stand in the body,
OnTheWire(w, b, c, sent) ==
  /\ 4 * c + Len(b) + Len(w) = sent
  /\ \A i \in 1..Len(w) : w[i] = Byte(4 * c + Len(b) + i)

\* what became of the characters,
InTheBuffer(b, c, sp) ==
  \A i \in 1..Len(b) :
     /\ b[i].event = Byte(4 * c + i).event
     /\ Byte(4 * c + i).unit = Newline \/ b[i].event \notin sp => b[i].unit = Byte(4 * c + i).unit
     /\ Byte(4 * c + i).unit # Newline /\ b[i].event \in sp => b[i].unit = Broken

\* which were cut, of those that began to arrive,
CutSoFar(sp, at) ==
  /\ \A e \in sp : e >= 1 /\ 4 * e - 3 <= at
  /\ \A e \in Nat : at = 4 * e - 3 => e \in sp

\* and what was told of these events.
ToldSoFar(y, c, sp, ev, p, s) ==
  /\ \A i, j \in 1..Len(y) : i < j => y[i].event < y[j].event
  /\ \A i \in 1..Len(y) : /\ y[i].event \in 1..c /\ ev[y[i].event] = "delta"
                          /\ y[i].intact <=> y[i].event \notin sp
  /\ \A e \in 1..c : ev[e] = "delta" => \E i \in 1..Len(y) : y[i].event = e
  /\ \A e \in 1..c : p = "anthropic" /\ ev[e] = "stop" => e = c /\ s = "done"

StreamAt(c) ==
  /\ OnTheWire(wire, buffer, c, Sent) /\ InTheBuffer(buffer, c, split)
  /\ CutSoFar(split, 4 * c + Len(buffer))
  /\ ToldSoFar(yielded, c, split, events, provider, stream)
  /\ stream = "done" => c = Complete \/ (provider = "anthropic" /\ c >= 1 /\ events[c] = "stop")

StreamInv == StreamTypes /\ \E c \in Nat : StreamAt(c)

LEMMA ByteIs ==
  ASSUME NEW k \in Nat, k >= 1
  PROVE  \E e \in Nat : /\ e >= 1 /\ Byte(k).event = e
                        /\ \/ k = 4 * e - 3 /\ Byte(k).unit = "first"
                           \/ k = 4 * e - 2 /\ Byte(k).unit = "second"
                           \/ k = 4 * e - 1 /\ Byte(k).unit = Newline
                           \/ k = 4 * e /\ Byte(k).unit = Newline
<1>1. PICK e \in Nat, r \in 0..3 : k + 3 = 4 * e + r
  <2> DEFINE e == (k + 3) \div 4
             r == (k + 3) % 4
  <2>1. e \in Nat
    OBVIOUS
  <2>2. r \in 0..3
    OBVIOUS
  <2>3. k + 3 = 4 * e + r
    OBVIOUS
  <2> QED BY <2>1, <2>2, <2>3
<1>2. (k + 3) \div 4 = e /\ e >= 1
  BY <1>1
<1>3. (k - 1) % 4 = r
  BY <1>1
<1>4. Byte(k).event = e /\ Byte(k).unit = Units[r + 1]
  BY <1>2, <1>3 DEF Byte
<1>5. r = 0 \/ r = 1 \/ r = 2 \/ r = 3
  OBVIOUS
<1>6. Units[1] = "first" /\ Units[2] = "second" /\ Units[3] = Newline /\ Units[4] = Newline
  BY DEF Units
<1>7. /\ r = 0 => k = 4 * e - 3 /\ r + 1 = 1
      /\ r = 1 => k = 4 * e - 2 /\ r + 1 = 2
      /\ r = 2 => k = 4 * e - 1 /\ r + 1 = 3
      /\ r = 3 => k = 4 * e /\ r + 1 = 4
  BY <1>1
<1> QED BY <1>2, <1>4, <1>5, <1>6, <1>7

LEMMA ByteOf ==
  ASSUME NEW c \in Nat
  PROVE  /\ Byte(4 * c + 1) = [event |-> c + 1, unit |-> "first"]
         /\ Byte(4 * c + 2) = [event |-> c + 1, unit |-> "second"]
         /\ Byte(4 * c + 3) = [event |-> c + 1, unit |-> Newline]
         /\ Byte(4 * c + 4) = [event |-> c + 1, unit |-> Newline]
<1>1. /\ (4 * c + 1 + 3) \div 4 = c + 1 /\ (4 * c + 2 + 3) \div 4 = c + 1
      /\ (4 * c + 3 + 3) \div 4 = c + 1 /\ (4 * c + 4 + 3) \div 4 = c + 1
  OBVIOUS
<1>2. /\ (4 * c + 1 - 1) % 4 = 0 /\ (4 * c + 2 - 1) % 4 = 1
      /\ (4 * c + 3 - 1) % 4 = 2 /\ (4 * c + 4 - 1) % 4 = 3
  OBVIOUS
<1> QED BY <1>1, <1>2 DEF Byte, Units

LEMMA ByteTypes == ASSUME NEW k \in Nat, k >= 1 PROVE Byte(k) \in Octet
<1>1. PICK e \in Nat : e = Byte(k).event /\ Byte(k).unit \in {"first", "second", Newline}
  BY ByteIs
<1>2. Byte(k) = [event |-> Byte(k).event, unit |-> Byte(k).unit]
  BY DEF Byte
<1> QED BY <1>1, <1>2 DEF Octet

LEMMA StreamInitInv == ASSUME StreamInit PROVE StreamInv
<1>1. PICK n \in Nat : events \in [1..n -> EventKind]
  BY DEF StreamInit
<1>2. events \in Seq(EventKind) /\ Len(events) = n /\ (events = << >> => n = 0)
  BY <1>1
<1>3. /\ buffer = << >> /\ Len(buffer) = 0 /\ yielded = << >> /\ Len(yielded) = 0
      /\ stream = "open" /\ split = {} /\ ended \in BOOLEAN
  BY DEF StreamInit
<1>4. Sent \in Nat
  <2>1. events # << >> => n >= 1
    <3>1. n = 0 => events = << >>
      BY <1>2, EmptySeq
    <3> QED BY <3>1
  <2> QED BY <1>2, <2>1 DEF Sent
<1>5. PICK m \in Nat : m = Sent
  BY <1>4
<1>6. wire = [k \in 1..m |-> Byte(k)]
  BY <1>5 DEF StreamInit
<1>7. /\ wire \in Seq(Octet) /\ Len(wire) = m
      /\ \A i \in 1..m : wire[i] = Byte(i)
  <2>1. \A k \in 1..m : Byte(k) \in Octet
    BY ByteTypes
  <2> QED BY <1>6, <2>1
<1>8. StreamTypes
  BY <1>2, <1>3, <1>7, EmptySeq DEF StreamTypes
<1>9. StreamAt(0)
  <2>1. OnTheWire(wire, buffer, 0, Sent)
    BY <1>3, <1>5, <1>7 DEF OnTheWire
  <2>2. InTheBuffer(buffer, 0, split)
    BY <1>3 DEF InTheBuffer
  <2>3. CutSoFar(split, 4 * 0 + Len(buffer))
    BY <1>3 DEF CutSoFar
  <2>4. ToldSoFar(yielded, 0, split, events, provider, stream)
    BY <1>3 DEF ToldSoFar
  <2> QED BY <1>3, <2>1, <2>2, <2>3, <2>4 DEF StreamAt
<1> QED BY <1>8, <1>9 DEF StreamInv

LEMMA ReceiveKeeps == ASSUME StreamInv, Receive PROVE StreamInv'
<1>1. PICK c \in Nat : StreamAt(c)
  BY DEF StreamInv
<1>2. StreamTypes
  BY DEF StreamInv
<1>3. PICK n \in 1..Len(wire) :
         /\ wire' = SubSeq(wire, n + 1, Len(wire))
         /\ buffer' = Collect(SubSeq(wire, 1, n))
         /\ split' = split \cup (IF CutAtEnd(SubSeq(wire, 1, n)) THEN {Last(SubSeq(wire, 1, n)).event} ELSE {})
  BY DEF Receive
<1>4. /\ UNCHANGED <<provider, events, ended, yielded, stream>> /\ stream = "open"
      /\ Sent' = Sent /\ Complete' = Complete
  BY DEF Receive, Sent, Complete
<1>5. PICK w, m \in Nat : w = Len(wire) /\ m = Len(buffer)
  BY <1>2, LenProperties DEF StreamTypes
<1>6. PICK a \in Nat : a = 4 * c + m
  BY <1>5
<1>7. n \in Nat /\ n >= 1 /\ n <= w
  BY <1>3, <1>5
<1>8. PICK piece : piece = SubSeq(wire, 1, n)
  OBVIOUS
<1>9. \A i \in 1..w : wire[i] = Byte(a + i) /\ wire[i] \in Octet
  BY <1>1, <1>2, <1>5, <1>6, ElementOfSeq DEF StreamAt, OnTheWire, StreamTypes
<1>10. /\ piece \in Seq(Octet) /\ Len(piece) = n /\ DOMAIN piece = 1..n
       /\ \A i \in 1..n : piece[i] = Byte(a + i) /\ piece[i] \in Octet
  <2>1. /\ piece \in Seq(Octet) /\ Len(piece) = n
        /\ \A i \in 1..n : piece[i] = wire[i]
    <3>1. \A i \in 1..n : wire[i] \in Octet
      BY <1>7, <1>9
    <3> QED BY <1>7, <1>8, <3>1, SubSeqProperties
  <2>2. DOMAIN piece = 1..n
    BY <2>1, LenProperties
  <2>3. \A i \in 1..n : i \in 1..w
    BY <1>7
  <2> QED BY <1>9, <2>1, <2>2, <2>3
<1>11. /\ wire' \in Seq(Octet) /\ Len(wire') = w - n
       /\ \A i \in 1..(w - n) : wire'[i] = Byte(a + n + i)
  <2>1. \A i \in (n + 1)..w : wire[i] \in Octet
    BY <1>7, <1>9
  <2>2. /\ wire' \in Seq(Octet) /\ Len(wire') = w - n
        /\ \A i \in 1..(w - n) : wire'[i] = wire[(n + 1) + i - 1]
    <3>1. wire' = SubSeq(wire, n + 1, w)
      BY <1>3, <1>5
    <3>2. /\ SubSeq(wire, n + 1, w) \in Seq(Octet)
          /\ Len(SubSeq(wire, n + 1, w)) = IF n + 1 <= w THEN w - (n + 1) + 1 ELSE 0
          /\ \A i \in 1..(w - (n + 1) + 1) : SubSeq(wire, n + 1, w)[i] = wire[(n + 1) + i - 1]
      BY <1>7, <2>1, SubSeqProperties
    <3>3. w - (n + 1) + 1 = w - n /\ (~ (n + 1 <= w) => w - n = 0)
      BY <1>7
    <3> QED BY <3>1, <3>2, <3>3
  <2>3. \A i \in 1..(w - n) : (n + 1) + i - 1 = n + i /\ n + i \in 1..w /\ a + (n + i) = a + n + i
    BY <1>7
  <2> QED BY <1>9, <2>2, <2>3
<1>12. /\ piece # << >>
       /\ Last(piece) = Byte(a + n) /\ Head(piece) = Byte(a + 1)
  BY <1>7, <1>10 DEF Last
<1>13. /\ CutAtEnd(piece) <=> Byte(a + n).unit = "first"
       /\ CutAtStart(piece) <=> Byte(a + 1).unit = "second"
  BY <1>12 DEF CutAtEnd, CutAtStart
<1>14. PICK d : d = Decoded(piece)
  OBVIOUS
<1>15. /\ \A i \in 1..n : d[i].event = Byte(a + i).event
       /\ \A i \in 1..n : (i = 1 /\ Byte(a + 1).unit = "second") \/ (i = n /\ Byte(a + n).unit = "first")
                             => d[i].unit = Broken
       /\ \A i \in 1..n : ~ ((i = 1 /\ Byte(a + 1).unit = "second") \/ (i = n /\ Byte(a + n).unit = "first"))
                             => d[i].unit = Byte(a + i).unit
       /\ \A i \in 1..n : d[i] \in Octet
       /\ d \in Seq(Octet) /\ Len(d) = n
  <2>1. d = [i \in 1..n |-> IF (i = 1 /\ CutAtStart(piece)) \/ (i = n /\ CutAtEnd(piece))
                            THEN [piece[i] EXCEPT !.unit = Broken] ELSE piece[i]]
    BY <1>10, <1>14 DEF Decoded
  <2>2. ASSUME NEW i \in 1..n
        PROVE  /\ d[i].event = Byte(a + i).event /\ d[i] \in Octet
               /\ (i = 1 /\ Byte(a + 1).unit = "second") \/ (i = n /\ Byte(a + n).unit = "first")
                     => d[i].unit = Broken
               /\ ~ ((i = 1 /\ Byte(a + 1).unit = "second") \/ (i = n /\ Byte(a + n).unit = "first"))
                     => d[i].unit = Byte(a + i).unit
    <3>1. piece[i] = Byte(a + i) /\ piece[i] \in Octet
      BY <1>10
    <3>2. [piece[i] EXCEPT !.unit = Broken] \in Octet /\ [piece[i] EXCEPT !.unit = Broken].unit = Broken
          /\ [piece[i] EXCEPT !.unit = Broken].event = piece[i].event
      BY <3>1 DEF Octet
    <3> QED BY <1>13, <2>1, <3>1, <3>2
  <2>3. d \in Seq(Octet) /\ Len(d) = n
    <3>1. DOMAIN d = 1..n /\ d = [i \in 1..n |-> d[i]]
      BY <2>1
    <3>2. d \in [1..n -> Octet]
      BY <2>2, <3>1
    <3> QED BY <1>7, <3>2
  <2> QED BY <2>2, <2>3
<1>16. /\ buffer' \in Seq(Octet) /\ Len(buffer') = m + n
       /\ \A i \in 1..m : buffer'[i] = buffer[i]
       /\ \A i \in 1..n : buffer'[m + i] = d[i]
  <2>1. buffer' = buffer \o d
    BY <1>3, <1>8, <1>14 DEF Collect
  <2>2. buffer \in Seq(Octet)
    BY <1>2 DEF StreamTypes
  <2>3. /\ buffer \o d \in Seq(Octet) /\ Len(buffer \o d) = m + n
        /\ \A i \in 1..(m + n) : (buffer \o d)[i] = IF i <= m THEN buffer[i] ELSE d[i - m]
    BY <1>5, <1>15, <2>2, ConcatProperties
  <2>4. \A i \in 1..m : i \in 1..(m + n) /\ i <= m
    BY <1>7
  <2>5. \A i \in 1..n : m + i \in 1..(m + n) /\ ~ (m + i <= m) /\ (m + i) - m = i
    BY <1>7
  <2> QED BY <2>1, <2>3, <2>4, <2>5
<1>17. \A e : e \in split' <=> e \in split \/ (e = Byte(a + n).event /\ Byte(a + n).unit = "first")
  BY <1>3, <1>8, <1>12, <1>13
<1>18. \A e \in split : e \in Nat /\ e >= 1 /\ 4 * e - 3 <= a
  BY <1>1, <1>2, <1>5, <1>6 DEF StreamAt, CutSoFar, StreamTypes
<1>19. \A e \in Nat : e >= 1 => (e \in split' <=> e \in split \/ a + n = 4 * e - 3)
  <2>1. PICK f \in Nat : /\ f >= 1 /\ Byte(a + n).event = f
                         /\ Byte(a + n).unit = "first" <=> a + n = 4 * f - 3
    <3>1. a + n \in Nat /\ a + n >= 1
      BY <1>7
    <3>2. PICK f \in Nat : /\ f >= 1 /\ Byte(a + n).event = f
                           /\ \/ a + n = 4 * f - 3 /\ Byte(a + n).unit = "first"
                              \/ a + n = 4 * f - 2 /\ Byte(a + n).unit = "second"
                              \/ a + n = 4 * f - 1 /\ Byte(a + n).unit = Newline
                              \/ a + n = 4 * f /\ Byte(a + n).unit = Newline
      BY <3>1, ByteIs
    <3> QED BY <3>2 DEF Newline
  <2>2. \A e \in Nat : a + n = 4 * e - 3 => (a + n = 4 * f - 3 => e = f) /\ (a + n # 4 * f - 3 => e # f)
    BY <1>7, <2>1
  <2>3. ASSUME NEW e \in Nat, e >= 1, a + n = 4 * e - 3 PROVE e \in split'
    <3>1. PICK g \in Nat : /\ Byte(4 * g + 1) = [event |-> g + 1, unit |-> "first"] /\ e = g + 1
      <4>1. PICK g \in Nat : e = g + 1
        <5>1. e - 1 \in Nat /\ e = (e - 1) + 1
          BY <2>3
        <5> QED BY <5>1
      <4> QED BY <4>1, ByteOf
    <3>2. a + n = 4 * g + 1
      BY <2>3, <3>1
    <3> QED BY <1>17, <3>1, <3>2
  <2> QED BY <1>17, <2>1, <2>3
<1>20. StreamTypes'
  <2>1. split' \in SUBSET Nat
    <3>1. PICK f \in Nat : Byte(a + n).event = f
      BY <1>7, ByteIs
    <3> QED BY <1>17, <1>18, <3>1
  <2> QED BY <1>2, <1>4, <1>11, <1>16, <2>1 DEF StreamTypes
<1>21. OnTheWire(wire', buffer', c, Sent)
  <2>1. 4 * c + m + w = Sent
    BY <1>1, <1>5 DEF StreamAt, OnTheWire
  <2>2. 4 * c + (m + n) + (w - n) = Sent /\ 4 * c + (m + n) = a + n
    BY <1>6, <1>7, <2>1
  <2> QED BY <1>11, <1>16, <2>2 DEF OnTheWire
<1>22. CutSoFar(split', a + n)
  <2>1. ASSUME NEW e \in split' PROVE e >= 1 /\ 4 * e - 3 <= a + n
    <3>1. e \in Nat
      BY <1>20 DEF StreamTypes
    <3>2. CASE e \in split
      BY <1>7, <1>18, <3>2
    <3>3. CASE e \notin split
      <4>1. PICK f \in Nat : f >= 1 /\ Byte(a + n).event = f
        BY <1>7, ByteIs
      <4>2. e = f
        BY <1>17, <3>3, <4>1
      <4> QED BY <1>7, <1>19, <3>1, <3>3, <4>1, <4>2
    <3> QED BY <3>2, <3>3
  <2>2. ASSUME NEW e \in Nat, a + n = 4 * e - 3 PROVE e \in split'
    <3>1. e >= 1
      BY <1>7, <2>2
    <3> QED BY <1>19, <2>2, <3>1
  <2> QED BY <2>1, <2>2 DEF CutSoFar
<1>23. \A e \in Nat : e >= 1 /\ 4 * e - 3 <= a => (e \in split' <=> e \in split)
  <2>1. \A e \in Nat : 4 * e - 3 <= a => a + n # 4 * e - 3
    BY <1>7
  <2> QED BY <1>19, <2>1
<1>24. InTheBuffer(buffer', c, split')
  <2>1. ASSUME NEW i \in 1..m
        PROVE  /\ buffer'[i].event = Byte(4 * c + i).event
               /\ Byte(4 * c + i).unit = Newline \/ buffer'[i].event \notin split' => buffer'[i].unit = Byte(4 * c + i).unit
               /\ Byte(4 * c + i).unit # Newline /\ buffer'[i].event \in split' => buffer'[i].unit = Broken
    <3>1. /\ buffer[i].event = Byte(4 * c + i).event
          /\ Byte(4 * c + i).unit = Newline \/ buffer[i].event \notin split => buffer[i].unit = Byte(4 * c + i).unit
          /\ Byte(4 * c + i).unit # Newline /\ buffer[i].event \in split => buffer[i].unit = Broken
      BY <1>1, <1>5 DEF StreamAt, InTheBuffer
    <3>2. PICK e \in Nat : e >= 1 /\ Byte(4 * c + i).event = e /\ 4 * e - 3 <= 4 * c + i
      <4>1. 4 * c + i \in Nat /\ 4 * c + i >= 1
        OBVIOUS
      <4>2. PICK k \in Nat : k = 4 * c + i /\ k >= 1
        BY <4>1
      <4>3. PICK e \in Nat : e >= 1 /\ Byte(k).event = e /\ (k = 4 * e - 3 \/ k = 4 * e - 2 \/ k = 4 * e - 1 \/ k = 4 * e)
        BY <4>2, ByteIs
      <4> QED BY <4>2, <4>3
    <3>3. 4 * c + i <= a
      BY <1>6
    <3>4. e \in split' <=> e \in split
      BY <1>6, <1>23, <3>2, <3>3
    <3> QED BY <1>16, <3>1, <3>2, <3>4
  <2>2. ASSUME NEW i \in 1..n
        PROVE  /\ buffer'[m + i].event = Byte(a + i).event
               /\ Byte(a + i).unit = Newline \/ buffer'[m + i].event \notin split' => buffer'[m + i].unit = Byte(a + i).unit
               /\ Byte(a + i).unit # Newline /\ buffer'[m + i].event \in split' => buffer'[m + i].unit = Broken
    <3>1. PICK k \in Nat : k = a + i /\ k >= 1
      BY <1>7
    <3>2. PICK e \in Nat : /\ e >= 1 /\ Byte(k).event = e
                           /\ \/ k = 4 * e - 3 /\ Byte(k).unit = "first"
                              \/ k = 4 * e - 2 /\ Byte(k).unit = "second"
                              \/ k = 4 * e - 1 /\ Byte(k).unit = Newline
                              \/ k = 4 * e /\ Byte(k).unit = Newline
      BY <3>1, ByteIs
    <3>3. e \in split' <=> e \in split \/ a + n = 4 * e - 3
      BY <1>19, <3>2
    <3>4. e \in split => 4 * e - 3 <= a
      BY <1>18
    <3>5. \A f \in Nat : a = 4 * f - 3 => f \in split
      BY <1>1, <1>5, <1>6 DEF StreamAt, CutSoFar
    <3>6. CASE k = 4 * e - 3
      <4>1. Byte(a + i).unit = "first" /\ i \in Nat
        BY <3>1, <3>2, <3>6 DEF Newline
      <4>2. e \notin split
        BY <3>1, <3>4, <3>6
      <4>3. e \in split' <=> i = n
        BY <1>7, <3>1, <3>3, <3>6, <4>2
      <4>4. i = 1 => Byte(a + 1).unit # "second"
        BY <4>1
      <4>5. i = n => Byte(a + n).unit = "first"
        BY <4>1
      <4>6. i = n => d[i].unit = Broken
        BY <1>15, <4>5
      <4>7. i # n => d[i].unit = Byte(a + i).unit
        BY <1>15, <4>4
      <4> QED BY <1>15, <1>16, <3>1, <3>2, <4>1, <4>3, <4>6, <4>7 DEF Newline
    <3>7. CASE k = 4 * e - 2
      <4>1. Byte(a + i).unit = "second" /\ i \in Nat
        BY <3>1, <3>2, <3>7 DEF Newline
      <4>2. a + n # 4 * e - 3
        BY <1>7, <3>1, <3>7
      <4>3. i = 1 => e \in split
        <5>1. i = 1 => a = 4 * e - 3
          BY <3>1, <3>7
        <5> QED BY <3>5, <5>1
      <4>4. i # 1 => e \notin split
        BY <3>1, <3>4, <3>7
      <4>5. e \in split' <=> i = 1
        BY <3>3, <4>2, <4>3, <4>4
      <4>6. i = n => Byte(a + n).unit # "first"
        BY <4>1
      <4>7. i = 1 => Byte(a + 1).unit = "second"
        BY <4>1
      <4>8. i = 1 => d[i].unit = Broken
        BY <1>15, <4>7
      <4>9. i # 1 => d[i].unit = Byte(a + i).unit
        BY <1>15, <4>6
      <4> QED BY <1>15, <1>16, <3>1, <3>2, <4>1, <4>5, <4>8, <4>9 DEF Newline
    <3>8. CASE Byte(k).unit = Newline
      <4>1. i = 1 => Byte(a + 1).unit # "second"
        BY <3>1, <3>8 DEF Newline
      <4>2. i = n => Byte(a + n).unit # "first"
        BY <3>1, <3>8 DEF Newline
      <4>3. d[i].unit = Byte(a + i).unit
        BY <1>15, <4>1, <4>2
      <4> QED BY <1>15, <1>16, <3>1, <3>8, <4>3
    <3> QED BY <3>2, <3>6, <3>7, <3>8
  <2>3. \A i \in 1..(m + n) : i \in 1..m \/ (\E j \in 1..n : i = m + j /\ 4 * c + i = a + j)
    <3>1. ASSUME NEW i \in 1..(m + n), i \notin 1..m PROVE i - m \in 1..n /\ i = m + (i - m) /\ 4 * c + i = a + (i - m)
      BY <1>6, <1>7, <3>1
    <3> QED BY <3>1
  <2>4. ASSUME NEW i \in 1..(m + n)
        PROVE  /\ buffer'[i].event = Byte(4 * c + i).event
               /\ Byte(4 * c + i).unit = Newline \/ buffer'[i].event \notin split' => buffer'[i].unit = Byte(4 * c + i).unit
               /\ Byte(4 * c + i).unit # Newline /\ buffer'[i].event \in split' => buffer'[i].unit = Broken
    <3>1. CASE i \in 1..m
      BY <2>1, <3>1
    <3>2. CASE i \notin 1..m
      <4>1. PICK j \in 1..n : i = m + j /\ 4 * c + i = a + j
        BY <2>3, <3>2
      <4> QED BY <2>2, <4>1
    <3> QED BY <3>1, <3>2
  <2> QED BY <1>16, <2>4 DEF InTheBuffer
<1>25. ToldSoFar(yielded, c, split', events, provider, stream)
  <2>1. ToldSoFar(yielded, c, split, events, provider, stream)
    BY <1>1 DEF StreamAt
  <2>2. \A e \in 1..c : e \in split' <=> e \in split
    <3>1. \A e \in 1..c : e \in Nat /\ e >= 1 /\ 4 * e - 3 <= a
      BY <1>6
    <3> QED BY <1>23, <3>1
  <2> QED BY <2>1, <2>2 DEF ToldSoFar
<1>26. StreamAt(c)'
  <2>1. 4 * c + Len(buffer') = a + n
    BY <1>6, <1>7, <1>16
  <2> QED BY <1>4, <1>21, <1>22, <1>24, <1>25, <2>1 DEF StreamAt
<1> QED BY <1>20, <1>26 DEF StreamInv

\* An event is complete in the buffer when its four bytes are.
LEMMA EventEndIs ==
  ASSUME StreamTypes, NEW c \in Nat, StreamAt(c)
  PROVE  /\ Len(buffer) >= 4 => /\ EventEnd = 4
                                /\ \A i \in 1..4 : buffer[i].event = c + 1
                                /\ c + 1 \notin split => buffer[1].unit = "first" /\ buffer[2].unit = "second"
                                /\ c + 1 \in split => buffer[1].unit = Broken
         /\ Len(buffer) < 4 => EventEnd = 0
<1>1. PICK m \in Nat : m = Len(buffer)
  BY LenProperties DEF StreamTypes
<1>2. \A i \in 1..m :
         /\ buffer[i].event = Byte(4 * c + i).event
         /\ Byte(4 * c + i).unit = Newline \/ buffer[i].event \notin split => buffer[i].unit = Byte(4 * c + i).unit
         /\ Byte(4 * c + i).unit # Newline /\ buffer[i].event \in split => buffer[i].unit = Broken
  BY <1>1 DEF StreamAt, InTheBuffer
<1>3. /\ Byte(4 * c + 1) = [event |-> c + 1, unit |-> "first"]
      /\ Byte(4 * c + 2) = [event |-> c + 1, unit |-> "second"]
      /\ Byte(4 * c + 3) = [event |-> c + 1, unit |-> Newline]
      /\ Byte(4 * c + 4) = [event |-> c + 1, unit |-> Newline]
  BY ByteOf
<1>4. m >= 2 => buffer[2].unit # Newline
  BY <1>2, <1>3 DEF Newline, Broken
<1>5. m >= 4 => buffer[3].unit = Newline /\ buffer[4].unit = Newline
  BY <1>2, <1>3
<1>6. m >= 4 => /\ buffer[1].event = c + 1 /\ buffer[2].event = c + 1
                /\ buffer[3].event = c + 1 /\ buffer[4].event = c + 1
  BY <1>2, <1>3
<1>7. m >= 4 => /\ c + 1 \notin split => buffer[1].unit = "first" /\ buffer[2].unit = "second"
                /\ c + 1 \in split => buffer[1].unit = Broken
  BY <1>2, <1>3, <1>6 DEF Newline
<1> DEFINE ends == {i \in 2..m : buffer[i].unit = Newline /\ buffer[i - 1].unit = Newline}
<1>8. EventEnd = IF ends = {} THEN 0 ELSE CHOOSE i \in ends : \A j \in ends : i <= j
  BY <1>1 DEF EventEnd
<1>9. 2 \notin ends /\ 3 \notin ends
  <2>1. 2 \in ends => m >= 2 /\ buffer[2].unit = Newline
    OBVIOUS
  <2>2. 3 \in ends => m >= 2 /\ buffer[2].unit = Newline
    <3>1. 3 - 1 = 2
      OBVIOUS
    <3>2. 3 \in ends => m >= 3 /\ buffer[3 - 1].unit = Newline
      OBVIOUS
    <3> QED BY <3>1, <3>2
  <2> QED BY <1>4, <2>1, <2>2
<1>10. \A i \in ends : i \in Nat /\ i >= 4 /\ i <= m
  BY <1>9
<1>11. m >= 4 => EventEnd = 4
  <2> SUFFICES ASSUME m >= 4 PROVE EventEnd = 4
    OBVIOUS
  <2>1. 4 \in ends
    <3>1. 4 - 1 = 3 /\ 4 \in 2..m
      OBVIOUS
    <3> QED BY <1>5, <3>1
  <2>2. \A i \in ends : (\A j \in ends : i <= j) => i = 4
    <3>1. \A i \in ends : i <= 4 => i = 4
      BY <1>10
    <3> QED BY <2>1, <3>1
  <2>3. \A j \in ends : 4 <= j
    BY <1>10
  <2> HIDE DEF ends
  <2> QED BY <1>8, <2>1, <2>2, <2>3
<1>12. m < 4 => EventEnd = 0
  <2>1. m < 4 => ends = {}
    BY <1>10
  <2> HIDE DEF ends
  <2> QED BY <1>8, <2>1
<1>13. \A i \in 1..4 : i = 1 \/ i = 2 \/ i = 3 \/ i = 4
  OBVIOUS
<1> QED BY <1>1, <1>6, <1>7, <1>11, <1>12, <1>13

\* What was sent ends with the last complete event, or three bytes after it.
LEMMA SentIs ==
  ASSUME StreamTypes, Sent \in Nat
  PROVE  /\ Complete \in Nat /\ Len(events) \in Nat /\ Complete <= Len(events)
         /\ Sent = 4 * Complete \/ Sent = 4 * Complete + 3
<1>1. PICK n \in Nat : n = Len(events) /\ (events # << >> => n >= 1)
  <2>1. Len(events) \in Nat /\ (events # << >> => Len(events) # 0)
    BY EmptySeq, LenProperties DEF StreamTypes
  <2> QED BY <2>1
<1>2. CASE ended \/ events = << >>
  BY <1>1, <1>2 DEF Sent, Complete
<1>3. CASE ~ (ended \/ events = << >>)
  BY <1>1, <1>3 DEF Sent, Complete
<1> QED BY <1>2, <1>3

LEMMA TakeEventKeeps == ASSUME StreamInv, TakeEvent PROVE StreamInv'
<1>1. PICK c \in Nat : StreamAt(c)
  BY DEF StreamInv
<1>2. StreamTypes
  BY DEF StreamInv
<1>3. PICK m, w \in Nat : m = Len(buffer) /\ w = Len(wire)
  BY <1>2, LenProperties DEF StreamTypes
<1>4. 4 * c + m + w = Sent
  BY <1>1, <1>3 DEF StreamAt, OnTheWire
<1>5. EventEnd # 0 /\ stream = "open" /\ UNCHANGED <<provider, events, ended, wire, split>>
      /\ Sent' = Sent /\ Complete' = Complete
  BY DEF TakeEvent, Sent, Complete
<1>6. m >= 4 /\ EventEnd = 4
  BY <1>1, <1>2, <1>3, <1>5, EventEndIs
<1>7. /\ \A i \in 1..4 : buffer[i].event = c + 1
      /\ c + 1 \notin split => buffer[1].unit = "first" /\ buffer[2].unit = "second"
      /\ c + 1 \in split => buffer[1].unit = Broken
  BY <1>1, <1>2, <1>3, <1>6, EventEndIs
<1>8. c + 1 \in 1..Complete /\ c + 1 \in 1..Len(events)
  <2>1. /\ Complete \in Nat /\ Len(events) \in Nat /\ Complete <= Len(events)
        /\ Sent = 4 * Complete \/ Sent = 4 * Complete + 3
    BY <1>2, <1>4, SentIs
  <2>2. 4 * c + 4 <= Sent
    BY <1>4, <1>6
  <2> QED BY <2>1, <2>2
<1>9. \A i \in 1..m : buffer[i] \in Octet
  BY <1>2, <1>3, ElementOfSeq DEF StreamTypes
<1>10. PICK event : event = SubSeq(buffer, 1, 4)
  OBVIOUS
<1>11. /\ event \in Seq(Octet) /\ Len(event) = 4 /\ Head(event) = buffer[1] /\ event # << >>
       /\ event[1] = buffer[1] /\ event[2] = buffer[2]
  <2>1. \A i \in 1..4 : buffer[i] \in Octet
    BY <1>6, <1>9
  <2>2. /\ event \in Seq(Octet) /\ Len(event) = 4 - 1 + 1
        /\ \A i \in 1..(4 - 1 + 1) : event[i] = buffer[1 + i - 1]
    BY <1>10, <2>1, SubSeqProperties
  <2>3. 4 - 1 + 1 = 4 /\ 1 + 1 - 1 = 1 /\ 1 + 2 - 1 = 2 /\ 1 \in 1..4 /\ 2 \in 1..4
    OBVIOUS
  <2>4. event[1] = buffer[1] /\ event[2] = buffer[2] /\ Len(event) = 4
    BY <2>2, <2>3
  <2>5. event # << >> /\ Head(event) = event[1]
    <3>1. event \in Seq(Octet) /\ Len(event) = 4
      BY <2>2, <2>4
    <3>2. event # << >>
      BY <3>1, EmptySeq
    <3> QED BY <3>1, <3>2, HeadTailProperties
  <2> QED BY <2>2, <2>4, <2>5
<1>12. PICK kind : kind = events[c + 1]
  OBVIOUS
<1>13. PICK token : token = Token(event)
  OBVIOUS
<1>14. /\ token \in [event : Nat, intact : BOOLEAN] /\ token.event = c + 1
       /\ token.intact <=> c + 1 \notin split
  <2>1. Head(event).event = c + 1
    BY <1>7, <1>11
  <2>2. [i \in 1..2 |-> event[i].unit] = <<"first", "second">> <=> event[1].unit = "first" /\ event[2].unit = "second"
    OBVIOUS
  <2>3. token = [event |-> c + 1, intact |-> [i \in 1..2 |-> event[i].unit] = <<"first", "second">>]
    BY <1>13, <2>1 DEF Token
  <2>4. c + 1 \notin split <=> event[1].unit = "first" /\ event[2].unit = "second"
    BY <1>7, <1>11 DEF Broken
  <2>5. token.event = c + 1 /\ token.intact = ([i \in 1..2 |-> event[i].unit] = <<"first", "second">>)
    BY <2>3
  <2>6. token \in [event : Nat, intact : BOOLEAN]
    BY <2>3
  <2> QED BY <2>2, <2>4, <2>5, <2>6
<1>15. /\ buffer' = SubSeq(buffer, 5, m)
       /\ yielded' = IF kind = "delta" THEN Append(yielded, token) ELSE yielded
       /\ stream' = IF kind = "stop" /\ provider = "anthropic" THEN "done" ELSE stream
  <2>1. Head(event).event = c + 1 /\ 4 + 1 = 5
    BY <1>7, <1>11
  <2> QED BY <1>3, <1>6, <1>10, <1>12, <1>13, <2>1 DEF TakeEvent
<1>16. /\ buffer' \in Seq(Octet) /\ Len(buffer') = m - 4
       /\ \A i \in 1..(m - 4) : buffer'[i] = buffer[4 + i]
  <2>1. \A i \in 5..m : buffer[i] \in Octet
    BY <1>9
  <2>2. /\ SubSeq(buffer, 5, m) \in Seq(Octet)
        /\ Len(SubSeq(buffer, 5, m)) = IF 5 <= m THEN m - 5 + 1 ELSE 0
        /\ \A i \in 1..(m - 5 + 1) : SubSeq(buffer, 5, m)[i] = buffer[5 + i - 1]
    BY <2>1, SubSeqProperties
  <2>3. m - 5 + 1 = m - 4 /\ (~ (5 <= m) => m - 4 = 0)
    BY <1>6
  <2>4. \A i \in 1..(m - 4) : 5 + i - 1 = 4 + i
    BY <1>6
  <2> QED BY <1>15, <2>2, <2>3, <2>4
<1>17. yielded \in Seq([event : Nat, intact : BOOLEAN])
  BY <1>2 DEF StreamTypes
<1>18. PICK k \in Nat : k = Len(yielded)
  BY <1>17, LenProperties
<1>19. /\ yielded' \in Seq([event : Nat, intact : BOOLEAN])
       /\ kind = "delta" => /\ Len(yielded') = k + 1 /\ yielded'[k + 1] = token
                            /\ \A i \in 1..k : yielded'[i] = yielded[i]
       /\ kind # "delta" => yielded' = yielded
  <2>1. CASE kind = "delta"
    <3>1. yielded' = Append(yielded, token)
      BY <1>15, <2>1
    <3>2. /\ Append(yielded, token) \in Seq([event : Nat, intact : BOOLEAN])
          /\ Len(Append(yielded, token)) = k + 1 /\ Append(yielded, token)[k + 1] = token
          /\ \A i \in 1..k : Append(yielded, token)[i] = yielded[i]
      BY <1>14, <1>17, <1>18, AppendProperties
    <3> QED BY <2>1, <3>1, <3>2
  <2>2. CASE kind # "delta"
    BY <1>15, <1>17, <2>2
  <2> QED BY <2>1, <2>2
<1>20. StreamTypes'
  BY <1>2, <1>5, <1>16, <1>19 DEF StreamTypes
<1>21. 4 * (c + 1) + Len(buffer') = 4 * c + m /\ 4 * (c + 1) = 4 * c + 4
  BY <1>6, <1>16
<1>22. OnTheWire(wire', buffer', c + 1, Sent)
  BY <1>1, <1>3, <1>5, <1>21 DEF StreamAt, OnTheWire
<1>23. InTheBuffer(buffer', c + 1, split')
  <2>1. ASSUME NEW i \in 1..Len(buffer')
        PROVE  /\ 4 + i \in 1..m /\ buffer'[i] = buffer[4 + i] /\ 4 * c + (4 + i) = 4 * (c + 1) + i
    BY <1>6, <1>16, <1>21
  <2>2. \A i \in 1..m :
           /\ buffer[i].event = Byte(4 * c + i).event
           /\ Byte(4 * c + i).unit = Newline \/ buffer[i].event \notin split => buffer[i].unit = Byte(4 * c + i).unit
           /\ Byte(4 * c + i).unit # Newline /\ buffer[i].event \in split => buffer[i].unit = Broken
    BY <1>1, <1>3 DEF StreamAt, InTheBuffer
  <2> QED BY <1>5, <2>1, <2>2 DEF InTheBuffer
<1>24. CutSoFar(split', 4 * (c + 1) + Len(buffer'))
  BY <1>1, <1>3, <1>5, <1>21 DEF StreamAt
<1>25. ToldSoFar(yielded, c, split, events, provider, stream)
  BY <1>1 DEF StreamAt
<1>26. /\ \A e : e \in 1..(c + 1) <=> e \in 1..c \/ e = c + 1
       /\ \A e \in 1..c : e < c + 1 /\ e # c + 1
  OBVIOUS
<1>27. \A e \in 1..c : ~ (provider = "anthropic" /\ events[e] = "stop")
  BY <1>5, <1>25 DEF ToldSoFar
<1>28. ToldSoFar(yielded', c + 1, split', events', provider', stream')
  <2>1. CASE kind = "delta"
    <3>1. \A i : i \in 1..(k + 1) <=> i \in 1..k \/ i = k + 1
      OBVIOUS
    <3>2. \A i \in 1..k : yielded'[i] = yielded[i] /\ yielded[i].event \in 1..c
      BY <1>18, <1>19, <1>25, <2>1 DEF ToldSoFar
    <3>3. \A i, j \in 1..(k + 1) : i < j => yielded'[i].event < yielded'[j].event
      <4>1. ASSUME NEW i \in 1..(k + 1), NEW j \in 1..(k + 1), i < j PROVE yielded'[i].event < yielded'[j].event
        <5>1. i \in 1..k
          BY <4>1
        <5>2. CASE j = k + 1
          BY <1>14, <1>19, <1>26, <2>1, <3>2, <5>1, <5>2
        <5>3. CASE j \in 1..k
          BY <1>18, <1>25, <3>2, <4>1, <5>1, <5>3 DEF ToldSoFar
        <5> QED BY <3>1, <5>2, <5>3
      <4> QED BY <4>1
    <3>4. \A i \in 1..(k + 1) : /\ yielded'[i].event \in 1..(c + 1) /\ events[yielded'[i].event] = "delta"
                                /\ yielded'[i].intact <=> yielded'[i].event \notin split
      <4>1. \A i \in 1..k : /\ yielded[i].event \in 1..c /\ events[yielded[i].event] = "delta"
                            /\ yielded[i].intact <=> yielded[i].event \notin split
        BY <1>18, <1>25 DEF ToldSoFar
      <4>2. yielded'[k + 1].event = c + 1 /\ (yielded'[k + 1].intact <=> c + 1 \notin split) /\ events[c + 1] = "delta"
        BY <1>12, <1>14, <1>19, <2>1
      <4> QED BY <1>26, <3>1, <3>2, <4>1, <4>2
    <3>5. \A e \in 1..(c + 1) : events[e] = "delta" => \E i \in 1..(k + 1) : yielded'[i].event = e
      <4>1. \A e \in 1..c : events[e] = "delta" => \E i \in 1..k : yielded[i].event = e
        BY <1>18, <1>25 DEF ToldSoFar
      <4>2. yielded'[k + 1].event = c + 1 /\ k + 1 \in 1..(k + 1)
        BY <1>14, <1>19, <2>1
      <4> QED BY <1>26, <3>1, <3>2, <4>1, <4>2
    <3>6. \A e \in 1..(c + 1) : ~ (provider = "anthropic" /\ events[e] = "stop")
      BY <1>12, <1>26, <1>27, <2>1
    <3>7. Len(yielded') = k + 1
      BY <1>19, <2>1
    <3> QED BY <1>5, <3>3, <3>4, <3>5, <3>6, <3>7 DEF ToldSoFar
  <2>2. CASE kind # "delta"
    <3>1. yielded' = yielded
      BY <1>19, <2>2
    <3>2. \A e \in 1..(c + 1) : events[e] = "delta" => e \in 1..c
      BY <1>12, <1>26, <2>2
    <3>3. \A e \in 1..(c + 1) : provider = "anthropic" /\ events[e] = "stop" => e = c + 1 /\ stream' = "done"
      BY <1>12, <1>15, <1>26, <1>27
    <3>4. \A i \in 1..Len(yielded) : yielded[i].event \in 1..(c + 1)
      BY <1>25, <1>26 DEF ToldSoFar
    <3> QED BY <1>5, <1>25, <3>1, <3>2, <3>3, <3>4 DEF ToldSoFar
  <2> QED BY <2>1, <2>2
<1>29. stream' = "done" => provider = "anthropic" /\ c + 1 >= 1 /\ events[c + 1] = "stop"
  BY <1>5, <1>12, <1>15
<1>30. StreamAt(c + 1)'
  BY <1>5, <1>22, <1>23, <1>24, <1>28, <1>29 DEF StreamAt
<1> QED BY <1>20, <1>30 DEF StreamInv

LEMMA EndingsKeep == ASSUME StreamInv, BodyEnds \/ ChunkError PROVE StreamInv'
<1>1. PICK c \in Nat : StreamAt(c)
  BY DEF StreamInv
<1>2. StreamTypes
  BY DEF StreamInv
<1>3. /\ UNCHANGED <<provider, events, ended, wire, buffer, yielded, split>>
      /\ stream = "open" /\ stream' \in {"done", "error"}
      /\ stream' = "done" => wire = << >> /\ EventEnd = 0
      /\ Sent' = Sent /\ Complete' = Complete
  BY DEF BodyEnds, ChunkError, Sent, Complete
<1>4. PICK m, w \in Nat : m = Len(buffer) /\ w = Len(wire)
  BY <1>2, LenProperties DEF StreamTypes
<1>5. 4 * c + m + w = Sent
  BY <1>1, <1>4 DEF StreamAt, OnTheWire
<1>6. stream' = "done" => c = Complete
  <2> SUFFICES ASSUME stream' = "done" PROVE c = Complete
    OBVIOUS
  <2>1. w = 0
    BY <1>3, <1>4, EmptySeq
  <2>2. m < 4
    BY <1>1, <1>2, <1>3, <1>4, EventEndIs
  <2>3. Complete \in Nat /\ (Sent = 4 * Complete \/ Sent = 4 * Complete + 3)
    BY <1>2, <1>5, SentIs
  <2> QED BY <1>5, <2>1, <2>2, <2>3
<1>7. StreamTypes'
  BY <1>2, <1>3 DEF StreamTypes
<1>8. ToldSoFar(yielded', c, split', events', provider', stream')
  BY <1>1, <1>3 DEF StreamAt, ToldSoFar
<1>9. StreamAt(c)'
  BY <1>1, <1>3, <1>6, <1>8 DEF StreamAt
<1> QED BY <1>7, <1>9 DEF StreamInv

LEMMA StreamKeeps == ASSUME StreamInv, StreamNext \/ UNCHANGED streamVars PROVE StreamInv'
<1>1. CASE UNCHANGED streamVars
  <2>1. PICK c \in Nat : StreamAt(c)
    BY DEF StreamInv
  <2>2. UNCHANGED <<provider, events, ended, wire, buffer, yielded, stream, split>>
        /\ Sent' = Sent /\ Complete' = Complete
    BY <1>1 DEF streamVars, Sent, Complete
  <2>3. StreamAt(c)'
    BY <2>1, <2>2 DEF StreamAt
  <2>4. StreamTypes'
    BY <2>2 DEF StreamInv, StreamTypes
  <2> QED BY <2>3, <2>4 DEF StreamInv
<1> QED BY <1>1, ReceiveKeeps, TakeEventKeeps, EndingsKeep DEF StreamNext

LEMMA StreamsAreTold == ASSUME StreamInv PROVE TokensSurviveCuts
<1>1. PICK c \in Nat : StreamAt(c)
  BY DEF StreamInv
<1>2. StreamTypes
  BY DEF StreamInv
<1>3. PICK m, w, k \in Nat : m = Len(buffer) /\ w = Len(wire) /\ k = Len(yielded) /\ DOMAIN yielded = 1..k
  BY <1>2, LenProperties DEF StreamTypes
<1>4. 4 * c + m + w = Sent
  BY <1>1, <1>3 DEF StreamAt, OnTheWire
<1>5. Complete \in Nat /\ c <= Complete
  <2>1. Complete \in Nat /\ (Sent = 4 * Complete \/ Sent = 4 * Complete + 3)
    BY <1>2, <1>4, SentIs
  <2> QED BY <1>4, <2>1
<1>6. /\ \A i, j \in 1..k : i < j => yielded[i].event < yielded[j].event
      /\ \A i \in 1..k : /\ yielded[i].event \in 1..c /\ events[yielded[i].event] = "delta"
                         /\ yielded[i].intact <=> yielded[i].event \notin split
      /\ \A e \in 1..c : events[e] = "delta" => \E i \in 1..k : yielded[i].event = e
      /\ \A e \in 1..c : provider = "anthropic" /\ events[e] = "stop" => e = c /\ stream = "done"
  BY <1>1, <1>3 DEF StreamAt, ToldSoFar
<1>7. \A e : e \in Seen <=> e \in 1..c /\ events[e] = "delta"
  <2>1. ASSUME NEW i \in 1..k PROVE yielded[i].event \in 1..c /\ events[yielded[i].event] = "delta"
    BY <1>6
  <2>2. ASSUME NEW e \in 1..c, events[e] = "delta" PROVE \E i \in 1..k : yielded[i].event = e
    BY <1>6, <2>2
  <2>3. \A e : e \in Seen <=> \E i \in 1..k : yielded[i].event = e
    BY <1>3 DEF Seen
  <2> QED BY <2>1, <2>2, <2>3
<1>8. Seen \subseteq Expected
  <2> SUFFICES ASSUME NEW e \in 1..c, events[e] = "delta" PROVE e \in Expected
    BY <1>7
  <2>1. e \in 1..Complete
    BY <1>5
  <2>2. ASSUME NEW j \in 1..Complete, events[j] = "stop", provider = "anthropic" PROVE e < j
    <3>1. CASE j \in 1..c
      <4>1. j = c /\ e # j
        BY <1>6, <2>2, <3>1
      <4> QED BY <4>1
    <3>2. CASE j \notin 1..c
      BY <3>2
    <3> QED BY <3>1, <3>2
  <2> QED BY <2>1, <2>2 DEF Expected
<1>9. \A e \in Expected \ Seen, f \in Seen : f < e
  <2>1. \A e \in Expected : e \in 1..Complete /\ events[e] = "delta"
    BY DEF Expected
  <2>2. ASSUME NEW e \in 1..Complete, e \notin 1..c, NEW f \in 1..c PROVE f < e
    BY <1>5, <2>2
  <2> QED BY <1>7, <2>1, <2>2
<1>10. stream = "done" => Expected \subseteq Seen
  <2> SUFFICES ASSUME stream = "done", NEW e \in Expected PROVE e \in Seen
    OBVIOUS
  <2>1. /\ e \in 1..Complete /\ events[e] = "delta"
        /\ provider = "anthropic" => \A j \in 1..Complete : events[j] = "stop" => e < j
    BY DEF Expected
  <2>2. c = Complete \/ (provider = "anthropic" /\ c >= 1 /\ events[c] = "stop")
    BY <1>1 DEF StreamAt
  <2>3. CASE c = Complete
    BY <1>7, <2>1, <2>3
  <2>4. CASE provider = "anthropic" /\ c >= 1 /\ events[c] = "stop"
    <3>1. c \in 1..Complete
      BY <1>5, <2>4
    <3>2. e < c
      BY <2>1, <2>4, <3>1
    <3>3. e \in 1..c
      BY <1>5, <2>1, <3>2
    <3> QED BY <1>7, <2>1, <3>3
  <2> QED BY <2>2, <2>3, <2>4
<1> QED BY <1>3, <1>6, <1>8, <1>9, <1>10 DEF TokensSurviveCuts
-----------------------------------------------------------------------------
(* Compaction.                                                             *)

Happening == [group : Group, ts : Nat, compacted : SUBSET Nat]

\* The events in the order they came, and what summaries name.
EventsOf(it, w) ==
  /\ \A i \in 1..Len(it) : /\ it[i].ts \in 1..w /\ it[i].compacted \subseteq 1..(i - 1)
                           /\ it[i].compacted # {} => it[i].group = "none"
  /\ \A i, j \in 1..Len(it) : i < j => it[i].ts <= it[j].ts

\* An event is in the list, or named by one summary that is.
OneEach(it, c) ==
  \A i \in 1..Len(it) :
     /\ i \in Ran(c) => \A s \in Ran(c) : i \notin it[s].compacted
     /\ i \notin Ran(c) => \E s \in Ran(c) : /\ i \in it[s].compacted
                                             /\ \A t \in Ran(c) : i \in it[t].compacted => t = s

\* Runs leave whole,
Whole(it, c) ==
  \A i \in 1..Len(it) : i \notin Ran(c) =>
     /\ it[i].group \in RunId
     /\ \A j \in 1..(i - 1) : it[j].group = it[i].group => j \notin Ran(c)

\* and for a reason.
Reason(it, s, i) ==
  \E later \in SUBSET (RunId \ {it[i].group}) :
     /\ Cardinality(later) = KeepRecent
     /\ \A r \in later : \E j \in 1..(s - 1), h \in it[s].compacted :
           j > h /\ it[j].group = r /\ it[h].group = it[i].group
Reasons(it) == \A s \in 1..Len(it) : \A i \in it[s].compacted : Reason(it, s, i)

\* Events are in order, and so are the beginnings of runs.
EventsInOrder(it, c) ==
  \A a, b \in 1..Len(c) :
     /\ it[c[a]].compacted = {} /\ it[c[b]].compacted = {} /\ c[a] < c[b]
     /\ it[c[a]].ts < it[c[b]].ts \/ it[c[a]].group = it[c[b]].group
     => a < b
BeginsAt(it, c, k) ==
  /\ k \in 1..Len(c) /\ it[c[k]].group \in RunId
  /\ \A j \in 1..(k - 1) : it[c[j]].group # it[c[k]].group
BeginsInOrder(it, c) ==
  \A a, b \in 1..Len(c) : BeginsAt(it, c, a) /\ BeginsAt(it, c, b) /\ a < b => c[a] < c[b]

CompTypes ==
  /\ item \in Seq(Happening) /\ wall \in Nat /\ context \in Seq(1..Len(item))
CompInv ==
  /\ CompTypes /\ NoRepeats(context) /\ EventsOf(item, wall)
  /\ OneEach(item, context) /\ Whole(item, context) /\ Reasons(item)
  /\ EventsInOrder(item, context) /\ BeginsInOrder(item, context)

\* What an event in the list is.
LEMMA PlaceFacts ==
  ASSUME CompInv
  PROVE  /\ Len(context) \in Nat /\ Len(item) \in Nat /\ DOMAIN context = 1..Len(context) /\ DOMAIN item = 1..Len(item)
         /\ \A k \in 1..Len(context) : /\ context[k] \in 1..Len(item) /\ context[k] \in Nat
                                       /\ item[context[k]] \in Happening
                                       /\ item[context[k]].ts \in Nat
                                       /\ GroupAt(k) = item[context[k]].group /\ GroupAt(k) \in Group
         /\ \A k, l \in 1..Len(context) : context[k] = context[l] => k = l
<1>1. item \in Seq(Happening) /\ context \in Seq(1..Len(item))
  BY DEF CompInv, CompTypes
<1>2. Len(context) \in Nat /\ Len(item) \in Nat /\ DOMAIN context = 1..Len(context) /\ DOMAIN item = 1..Len(item)
  BY <1>1, LenProperties
<1>3. ASSUME NEW k \in 1..Len(context)
      PROVE  /\ context[k] \in 1..Len(item) /\ context[k] \in Nat /\ item[context[k]] \in Happening
  <2>1. context[k] \in 1..Len(item)
    BY <1>1, ElementOfSeq
  <2>2. item[context[k]] \in Happening
    BY <1>1, <2>1, ElementOfSeq
  <2> QED BY <1>2, <2>1, <2>2
<1>4. \A e \in Happening : e.ts \in Nat /\ e.group \in Group
  BY DEF Happening
<1>5. \A k, l \in 1..Len(context) : context[k] = context[l] => k = l
  BY DEF CompInv, NoRepeats
<1> QED BY <1>2, <1>3, <1>4, <1>5 DEF GroupAt

\* The run of an event begins at one place.
LEMMA BeginIs ==
  ASSUME CompInv, NEW k \in 1..Len(context), GroupAt(k) \in RunId
  PROVE  /\ Begin(k) \in Begins /\ GroupAt(Begin(k)) = GroupAt(k)
         /\ Begin(k) \in 1..Len(context) /\ Begin(k) <= k
         /\ \A b \in Begins : GroupAt(b) = GroupAt(k) => b = Begin(k)
<1>1. PICK n \in Nat : n = Len(context) /\ DOMAIN context = 1..n
  BY PlaceFacts
<1>2. Begins \subseteq 1..n
  BY <1>1 DEF Begins
<1>3. PICK S \in SUBSET Nat : S = {j \in 1..k : GroupAt(j) = GroupAt(k)} /\ k \in S
  <2>1. k \in 1..k /\ 1..k \subseteq Nat
    BY <1>1
  <2> QED BY <2>1
<1>4. PICK b \in S : \A j \in S : b <= j
  BY <1>3, HasSmallest
<1>5. b \in 1..n /\ b <= k /\ GroupAt(b) = GroupAt(k)
  BY <1>1, <1>3, <1>4
<1>6. b \in Begins
  <2>1. ASSUME NEW j \in 1..(b - 1), GroupAt(j) = GroupAt(b) PROVE FALSE
    <3>1. j \in 1..k /\ ~ (b <= j)
      BY <1>1, <1>5
    <3> QED BY <1>3, <1>4, <1>5, <2>1, <3>1
  <2> QED BY <1>1, <1>5, <2>1 DEF Begins
<1>7. ASSUME NEW c \in Begins, NEW d \in Begins, GroupAt(c) = GroupAt(d) PROVE c = d
  <2>1. c \in 1..n /\ d \in 1..n
    BY <1>2
  <2>2. ~ (c < d) /\ ~ (d < c)
    <3>1. ASSUME NEW p \in Begins, NEW q \in 1..n, q < p PROVE GroupAt(q) # GroupAt(p)
      <4>1. q \in 1..(p - 1)
        BY <1>1, <1>2, <3>1
      <4> QED BY <4>1 DEF Begins
    <3> QED BY <1>7, <2>1, <3>1
  <2> QED BY <2>1, <2>2
<1>8. Begin(k) \in Begins /\ GroupAt(Begin(k)) = GroupAt(k)
  BY <1>5, <1>6 DEF Begin
<1>9. Begin(k) = b
  BY <1>5, <1>6, <1>7, <1>8
<1> QED BY <1>1, <1>5, <1>6, <1>7, <1>8, <1>9

\* The turn of an event is a number, and that of its run.
LEMMA TurnIs ==
  ASSUME CompInv, CompactionAssumption
  PROVE  /\ \A k \in 1..Len(context) : Turn(k) \in Nat
         /\ \A j, k \in 1..Len(context) : GroupAt(j) = GroupAt(k) => Turn(j) = Turn(k)
         /\ \A k \in 1..Len(context) : GroupAt(k) \in RunId => Turn(k) = Begin(k)
         /\ \A j, k \in 1..Len(context) : GroupAt(j) = GroupAt(k) => (j \in Kept <=> k \in Kept)
<1>1. PICK n \in Nat : n = Len(context) /\ DOMAIN context = 1..n
  BY PlaceFacts
<1>2. \A k \in 1..n : GroupAt(k) \in RunId \/ GroupAt(k) = "always" \/ GroupAt(k) = "none"
  BY <1>1, PlaceFacts DEF Group
<1>3. \A k \in 1..n : GroupAt(k) \in RunId => GroupAt(k) # "always" /\ GroupAt(k) # "none"
  BY DEF CompactionAssumption
<1>4. ASSUME NEW k \in 1..n, GroupAt(k) \in RunId PROVE Turn(k) = Begin(k) /\ Begin(k) \in Nat
  <2>1. Begin(k) \in 1..n
    BY <1>1, <1>4, BeginIs
  <2>2. GroupAt(k) # "always" /\ GroupAt(k) # "none"
    BY <1>3, <1>4
  <2> QED BY <2>1, <2>2 DEF Turn
<1>5. ASSUME NEW k \in 1..n PROVE Turn(k) \in Nat
  <2>1. CASE GroupAt(k) = "always"
    BY <2>1 DEF Turn
  <2>2. CASE GroupAt(k) = "none"
    BY <1>1, <2>2 DEF Turn
  <2> QED BY <1>2, <1>4, <2>1, <2>2
<1>6. ASSUME NEW j \in 1..n, NEW k \in 1..n, GroupAt(j) = GroupAt(k) PROVE Turn(j) = Turn(k) /\ Begin(j) = Begin(k)
  BY <1>6 DEF Turn, Begin
<1>7. \A j, k \in 1..n : GroupAt(j) = GroupAt(k) => (j \in Kept <=> k \in Kept)
  BY <1>1, <1>6 DEF Kept
<1> QED BY <1>1, <1>4, <1>5, <1>6, <1>7

\* What is put together is what is kept, each event once and in its order.
Puts(f, d) ==
  /\ f \in Seq(Kept) /\ NoRepeats(f) /\ Ran(f) = Kept
  /\ \A a, b \in 1..Len(f) : a < b => Sooner(f[a], f[b])
  /\ Len(d) = Len(f) /\ \A a \in 1..Len(f) : d[a] = context[f[a]]

LEMMA ByTimePuts ==
  ASSUME CompInv, CompactionAssumption
  PROVE  /\ ByTime \in Seq(1..Len(item)) /\ \E f : Puts(f, ByTime)
<1>1. PICK n \in Nat : n = Len(context) /\ DOMAIN context = 1..n
  BY PlaceFacts
<1>2. PICK S \in SUBSET (1..n) : S = Kept
  BY <1>1 DEF Kept
<1>3. IsFiniteSet(S)
  <2>1. IsFiniteSet(1..n)
    BY FS_Interval
  <2> QED BY <2>1, FS_Subset
<1>4. PICK L : L = {p \in S \X S : Sooner(p[1], p[2])}
  OBVIOUS
<1>5. \A i, j \in S : <<i, j>> \in L <=> Sooner(i, j)
  BY <1>4
<1>6. \A i \in S : {j \in S : Sooner(j, i)} = {j \in S : <<j, i>> \in L}
  BY <1>5
<1> DEFINE Kth(k) == CHOOSE i \in S : Cardinality({j \in S : Sooner(j, i)}) = k - 1
<1>7. PICK f : f = [k \in 1..Cardinality(S) |-> Kth(k)]
  OBVIOUS
<1>8. ASSUME NEW k \in 1..Cardinality(S), \E i \in S : Cardinality({j \in S : Sooner(j, i)}) = k - 1
      PROVE  f[k] \in S /\ Cardinality({j \in S : Sooner(j, f[k])}) = k - 1
  <2>1. f[k] = CHOOSE i \in S : Cardinality({j \in S : Sooner(j, i)}) = k - 1
    BY <1>7
  <2> QED BY <1>8, <2>1
<1>9. ByTime = [k \in 1..Cardinality(S) |-> context[Kth(k)]]
  BY <1>2 DEF ByTime
<1> HIDE DEF Kth
<1>10. Ranks(S, L, f)
  <2>1. f = [k \in 1..Cardinality(S) |-> f[k]]
    BY <1>7
  <2> QED BY <1>6, <1>8, <2>1 DEF Ranks
<1>11. /\ \A i \in S : <<i, i>> \notin L
       /\ \A i, j \in S : i # j => <<i, j>> \in L \/ <<j, i>> \in L
       /\ \A i, j, k \in S : <<i, j>> \in L /\ <<j, k>> \in L => <<i, k>> \in L
  <2>1. \A i \in S : i \in Nat /\ Turn(i) \in Nat /\ item[context[i]].ts \in Nat
    BY <1>1, TurnIs, PlaceFacts
  <2>2. \A i, j \in S :
          Sooner(i, j) <=> \/ item[context[i]].ts < item[context[j]].ts
                           \/ /\ item[context[i]].ts = item[context[j]].ts
                              /\ Turn(i) < Turn(j) \/ (Turn(i) = Turn(j) /\ i < j)
    BY DEF Sooner
  <2>3. \A i \in S : ~ Sooner(i, i)
    BY <2>1, <2>2
  <2>4. \A i, j \in S : i # j => Sooner(i, j) \/ Sooner(j, i)
    BY <2>1, <2>2
  <2>5. ASSUME NEW i \in S, NEW j \in S, NEW k \in S, Sooner(i, j), Sooner(j, k) PROVE Sooner(i, k)
    <3>1. PICK a, b, c, p, q, r \in Nat : /\ a = item[context[i]].ts /\ b = item[context[j]].ts /\ c = item[context[k]].ts
                                          /\ p = Turn(i) /\ q = Turn(j) /\ r = Turn(k)
      BY <2>1
    <3>2. a < b \/ (a = b /\ (p < q \/ (p = q /\ i < j)))
      BY <2>2, <2>5, <3>1
    <3>3. b < c \/ (b = c /\ (q < r \/ (q = r /\ j < k)))
      BY <2>2, <2>5, <3>1
    <3>4. a < c \/ (a = c /\ (p < r \/ (p = r /\ i < k)))
      <4>1. i \in Nat /\ j \in Nat /\ k \in Nat
        BY <2>1
      <4>2. CASE a < b \/ b < c
        BY <3>2, <3>3, <4>2
      <4>3. CASE a = b /\ b = c
        BY <3>2, <3>3, <4>1, <4>3
      <4> QED BY <3>2, <3>3, <4>2, <4>3
    <3> QED BY <2>2, <3>1, <3>4
  <2> QED BY <1>5, <2>3, <2>4, <2>5
<1>12. /\ f \in Seq(S) /\ NoRepeats(f) /\ Ran(f) = S
       /\ \A k, l \in 1..Len(f) : k < l => <<f[k], f[l]>> \in L
  BY <1>3, <1>10, <1>11, RanksOrder
<1>13. /\ Len(f) = Cardinality(S) /\ Len(f) \in Nat
       /\ \A k \in 1..Len(f) : f[k] \in S /\ f[k] = Kth(k)
  <2>1. Cardinality(S) \in Nat
    BY <1>3, FS_CardinalityType
  <2>2. DOMAIN f = 1..Len(f) /\ Len(f) \in Nat /\ \A k \in 1..Len(f) : f[k] \in S
    BY <1>12, LenProperties, ElementOfSeq
  <2>3. DOMAIN f = 1..Cardinality(S)
    BY <1>7
  <2>4. \A p, q \in Nat : 1..p = 1..q => p = q
    OBVIOUS
  <2>5. Len(f) = Cardinality(S)
    BY <2>1, <2>2, <2>3, <2>4
  <2> QED BY <1>7, <2>2, <2>5
<1>14. ByTime = [k \in 1..Len(f) |-> context[f[k]]]
  BY <1>9, <1>13
<1>15. \A k \in 1..Len(f) : context[f[k]] \in 1..Len(item)
  BY <1>1, <1>13, PlaceFacts
<1>16. ByTime \in Seq(1..Len(item)) /\ Len(ByTime) = Len(f)
  <2>1. ByTime \in [1..Len(f) -> 1..Len(item)]
    BY <1>14, <1>15
  <2> QED BY <1>13, <2>1
<1>17. Puts(f, ByTime)
  BY <1>2, <1>5, <1>12, <1>13, <1>14, <1>16 DEF Puts
<1> QED BY <1>16, <1>17

LEMMA SoonerIs ==
  ASSUME CompInv, CompactionAssumption, NEW j \in 1..Len(context), NEW k \in 1..Len(context), Sooner(j, k)
  PROVE  /\ item[context[j]].ts <= item[context[k]].ts
         /\ item[context[j]].ts = item[context[k]].ts => Turn(j) <= Turn(k) /\ (Turn(j) = Turn(k) => j < k)
<1>1. PICK a, b, p, q \in Nat : /\ a = item[context[j]].ts /\ b = item[context[k]].ts
                                /\ p = Turn(j) /\ q = Turn(k)
  BY TurnIs, PlaceFacts
<1>2. a < b \/ (a = b /\ (p < q \/ (p = q /\ j < k)))
  BY <1>1 DEF Sooner
<1> QED BY <1>1, <1>2

LEMMA BeginsAre == ASSUME CompInv PROVE \A k : k \in Begins <=> BeginsAt(item, context, k)
<1>1. DOMAIN context = 1..Len(context) /\ Len(context) \in Nat
  BY PlaceFacts
<1>2. \A k : k \in Begins => k \in 1..Len(context)
  BY <1>1 DEF Begins
<1> QED BY <1>1, <1>2 DEF Begins, BeginsAt, GroupAt

\* Sorting by time keeps events in order, and the beginnings of runs.
LEMMA ByTimeKeepsOrder ==
  ASSUME CompInv, CompactionAssumption
  PROVE  /\ EventsInOrder(item, ByTime) /\ BeginsInOrder(item, ByTime)
         /\ NoRepeats(ByTime) /\ Ran(ByTime) = {context[k] : k \in Kept}
<1>1. PICK n, m \in Nat : n = Len(context) /\ DOMAIN context = 1..n /\ m = Len(item) /\ DOMAIN item = 1..m
  BY PlaceFacts
<1>2. PICK d \in Seq(1..m) : d = ByTime
  BY <1>1, ByTimePuts
<1>3. PICK f : Puts(f, d)
  BY <1>2, ByTimePuts
<1>4. PICK l \in Nat : l = Len(f) /\ Len(d) = l
  <2>1. Len(f) \in Nat
    BY <1>3, LenProperties DEF Puts
  <2> QED BY <1>3, <2>1 DEF Puts
<1>5. Kept \subseteq 1..n
  BY <1>1 DEF Kept
<1>6. \A a \in 1..l : f[a] \in Kept /\ f[a] \in 1..n /\ f[a] \in Nat /\ d[a] = context[f[a]]
  <2>1. \A a \in 1..l : f[a] \in Kept
    BY <1>3, <1>4, ElementOfSeq DEF Puts
  <2>2. \A a \in 1..l : d[a] = context[f[a]]
    BY <1>3, <1>4 DEF Puts
  <2>3. \A a \in 1..l : f[a] \in 1..n /\ f[a] \in Nat
    <3>1. \A x \in 1..n : x \in Nat
      OBVIOUS
    <3>2. \A a \in 1..l : f[a] \in 1..n
      BY <1>5, <2>1
    <3> QED BY <3>1, <3>2
  <2> QED BY <2>1, <2>2, <2>3
<1>7. \A a, b \in 1..l : f[a] = f[b] => a = b
  BY <1>3, <1>4 DEF Puts, NoRepeats
<1>8. \A k \in Kept : \E a \in 1..l : f[a] = k
  BY <1>3, <1>4 DEF Puts, Ran
<1>9. ASSUME NEW a \in 1..l, NEW b \in 1..l, a < b
      PROVE  /\ item[d[a]].ts <= item[d[b]].ts
             /\ item[d[a]].ts = item[d[b]].ts => Turn(f[a]) <= Turn(f[b]) /\ (Turn(f[a]) = Turn(f[b]) => f[a] < f[b])
  <2>1. Sooner(f[a], f[b])
    BY <1>3, <1>4, <1>9 DEF Puts
  <2> QED BY <1>1, <1>6, <2>1, SoonerIs
<1>10. \A i, j \in 1..m : i < j => item[i].ts <= item[j].ts
  BY <1>1 DEF CompInv, EventsOf
<1>11. ASSUME NEW k \in 1..n
       PROVE  /\ context[k] \in 1..m /\ context[k] \in Nat /\ item[context[k]].ts \in Nat
              /\ GroupAt(k) = item[context[k]].group /\ Turn(k) \in Nat
  BY <1>1, PlaceFacts, TurnIs
<1>12. NoRepeats(d)
  <2> SUFFICES ASSUME NEW a \in 1..l, NEW b \in 1..l, d[a] = d[b] PROVE a = b
    BY <1>4 DEF NoRepeats
  <2>0. d[a] = d[b]
    OBVIOUS
  <2>1. f[a] = f[b]
    <3>1. \A j, k \in 1..n : context[j] = context[k] => j = k
      BY <1>1, PlaceFacts
    <3>2. d[a] = context[f[a]] /\ d[b] = context[f[b]] /\ f[a] \in 1..n /\ f[b] \in 1..n
      BY <1>6
    <3> QED BY <2>0, <3>1, <3>2
  <2> QED BY <1>7, <2>1
<1>13. Ran(d) = {context[k] : k \in Kept}
  <2>1. \A a \in 1..l : f[a] \in Kept /\ d[a] = context[f[a]]
    BY <1>6
  <2>2. Ran(d) = {d[a] : a \in 1..l}
    BY <1>4 DEF Ran
  <2>3. ASSUME NEW a \in 1..l PROVE d[a] \in {context[k] : k \in Kept}
    BY <2>1
  <2>4. ASSUME NEW k \in Kept PROVE context[k] \in {d[a] : a \in 1..l}
    <3>1. PICK a \in 1..l : f[a] = k
      BY <1>8
    <3> QED BY <2>1, <3>1
  <2> QED BY <2>2, <2>3, <2>4
<1>14. ASSUME NEW j \in 1..n, NEW k \in 1..n, item[context[j]].compacted = {}, item[context[k]].compacted = {},
              context[j] < context[k], GroupAt(j) = GroupAt(k)
       PROVE  j < k
  BY <1>1, <1>11, <1>14 DEF CompInv, EventsInOrder
<1>15. EventsInOrder(item, d)
  <2> SUFFICES ASSUME NEW a \in 1..l, NEW b \in 1..l,
                      item[d[a]].compacted = {}, item[d[b]].compacted = {}, d[a] < d[b],
                      item[d[a]].ts < item[d[b]].ts \/ item[d[a]].group = item[d[b]].group, ~ (a < b)
               PROVE  FALSE
    BY <1>4 DEF EventsInOrder
  <2>1. /\ d[a] \in 1..m /\ d[b] \in 1..m /\ d[a] \in Nat /\ d[b] \in Nat
        /\ item[d[a]].ts \in Nat /\ item[d[b]].ts \in Nat /\ d[a] = context[f[a]] /\ d[b] = context[f[b]]
        /\ f[a] \in 1..n /\ f[b] \in 1..n /\ f[a] \in Nat /\ f[b] \in Nat
    BY <1>6, <1>11
  <2>2. a # b
    BY <2>1
  <2>3. b < a
    BY <2>2
  <2>4. item[d[b]].ts <= item[d[a]].ts
    BY <1>9, <2>3
  <2>5. item[d[a]].ts <= item[d[b]].ts
    BY <1>10, <2>1
  <2>6. item[d[a]].ts = item[d[b]].ts /\ item[d[a]].group = item[d[b]].group
    <3>1. PICK s, t \in Nat : s = item[d[a]].ts /\ t = item[d[b]].ts
      BY <2>1
    <3>2. s = t
      BY <2>4, <2>5, <3>1
    <3> QED BY <3>1, <3>2
  <2>7. GroupAt(f[a]) = GroupAt(f[b])
    BY <1>11, <2>1, <2>6
  <2>8. Turn(f[a]) = Turn(f[b])
    BY <1>1, <2>1, <2>7, TurnIs
  <2>9. f[b] < f[a]
    BY <1>9, <2>3, <2>6, <2>8
  <2>10. f[a] < f[b]
    BY <1>14, <2>1, <2>7
  <2> QED BY <2>1, <2>9, <2>10
<1>16. ASSUME NEW k \in 1..n, GroupAt(k) \in RunId PROVE item[context[k]].compacted = {}
  <2>1. GroupAt(k) # "none"
    BY <1>16 DEF CompactionAssumption
  <2> QED BY <1>1, <1>11, <2>1 DEF CompInv, EventsOf
<1>17. ASSUME NEW a \in 1..l, BeginsAt(item, d, a) PROVE f[a] \in Begins
  <2>1. GroupAt(f[a]) \in RunId /\ f[a] \in 1..n /\ f[a] \in Kept /\ f[a] \in Nat
    BY <1>6, <1>11, <1>17 DEF BeginsAt
  <2>2. PICK p \in 1..n : p = Begin(f[a]) /\ p \in Begins /\ GroupAt(p) = GroupAt(f[a]) /\ p <= f[a]
    BY <1>1, <2>1, BeginIs
  <2>3. CASE p = f[a]
    BY <2>2, <2>3
  <2>4. CASE p # f[a]
    <3>1. p \in Kept
      BY <1>1, <2>1, <2>2, TurnIs
    <3>2. PICK a0 \in 1..l : f[a0] = p
      BY <1>8, <3>1
    <3>3. item[d[a0]].group = item[d[a]].group /\ d[a0] = context[p] /\ d[a] = context[f[a]]
      <4>1. d[a0] = context[p] /\ d[a] = context[f[a]]
        BY <1>6, <3>2
      <4>2. GroupAt(p) = item[context[p]].group /\ GroupAt(f[a]) = item[context[f[a]]].group
        BY <1>11, <2>1, <2>2
      <4> QED BY <2>2, <4>1, <4>2
    <3>4. ~ (a0 < a)
      <4>1. a0 < a => a0 \in 1..(a - 1)
        OBVIOUS
      <4> QED BY <1>17, <3>3, <4>1 DEF BeginsAt
    <3>5. a < a0
      BY <2>4, <3>2, <3>4
    <3>6. item[d[a]].ts <= item[d[a0]].ts
      BY <1>9, <3>5
    <3>7. Turn(f[a]) = Turn(p)
      BY <1>1, <2>1, <2>2, TurnIs
    <3>8. context[p] # context[f[a]]
      BY <1>1, <2>1, <2>4, PlaceFacts
    <3>9. ~ (context[f[a]] < context[p])
      <4>1. item[context[p]].compacted = {} /\ item[context[f[a]]].compacted = {}
        BY <1>16, <2>1, <2>2
      <4>2. context[f[a]] < context[p] => f[a] < p
        BY <1>14, <2>1, <2>2, <4>1
      <4> QED BY <2>1, <2>2, <4>2
    <3>10. context[p] < context[f[a]]
      BY <1>11, <2>1, <3>8, <3>9
    <3>11. item[d[a0]].ts <= item[d[a]].ts
      BY <1>10, <1>11, <2>1, <3>3, <3>10
    <3>12. item[d[a0]].ts = item[d[a]].ts
      <4>1. PICK s, t \in Nat : s = item[d[a]].ts /\ t = item[d[a0]].ts
        BY <1>11, <2>1, <3>3
      <4>2. s = t
        BY <3>6, <3>11, <4>1
      <4> QED BY <4>1, <4>2
    <3>13. f[a] < p
      BY <1>9, <3>2, <3>5, <3>7, <3>12
    <3> QED BY <2>1, <2>2, <3>13
  <2> QED BY <2>3, <2>4
<1>18. BeginsInOrder(item, d)
  <2> SUFFICES ASSUME NEW a \in 1..l, NEW b \in 1..l, BeginsAt(item, d, a), BeginsAt(item, d, b), a < b
               PROVE  d[a] < d[b]
    BY <1>4 DEF BeginsInOrder
  <2>1. /\ f[a] \in Begins /\ f[b] \in Begins /\ f[a] \in 1..n /\ f[b] \in 1..n
        /\ d[a] = context[f[a]] /\ d[b] = context[f[b]] /\ f[a] \in Nat /\ f[b] \in Nat
    BY <1>6, <1>17
  <2>2. BeginsAt(item, context, f[a]) /\ BeginsAt(item, context, f[b])
    BY <2>1, BeginsAre
  <2>3. f[a] # f[b]
    BY <1>7
  <2>4. CASE f[a] < f[b]
    BY <1>1, <2>1, <2>2, <2>4 DEF CompInv, BeginsInOrder
  <2>5. CASE f[b] < f[a]
    <3>1. context[f[b]] < context[f[a]]
      BY <1>1, <2>1, <2>2, <2>5 DEF CompInv, BeginsInOrder
    <3>2. item[d[b]].ts <= item[d[a]].ts /\ item[d[a]].ts <= item[d[b]].ts
      BY <1>9, <1>10, <1>11, <2>1, <3>1
    <3>3. item[d[a]].ts = item[d[b]].ts
      <4>1. PICK s, t \in Nat : s = item[d[a]].ts /\ t = item[d[b]].ts
        BY <1>11, <2>1
      <4>2. s = t
        BY <3>2, <4>1
      <4> QED BY <4>1, <4>2
    <3>4. Turn(f[a]) <= Turn(f[b])
      BY <1>9, <3>3
    <3>5. GroupAt(f[a]) \in RunId /\ GroupAt(f[b]) \in RunId
      BY <2>1 DEF Begins
    <3>6. Turn(f[a]) = Begin(f[a]) /\ Turn(f[b]) = Begin(f[b])
      BY <1>1, <2>1, <3>5, TurnIs
    <3>7. Begin(f[a]) = f[a] /\ Begin(f[b]) = f[b]
      BY <1>1, <2>1, <3>5, BeginIs
    <3> QED BY <2>1, <2>5, <3>4, <3>6, <3>7
  <2> QED BY <2>1, <2>3, <2>4, <2>5
<1> QED BY <1>2, <1>12, <1>13, <1>15, <1>18

\* Whatever is trimmed has enough runs after it that began later.
LEMMA TrimmedForARun ==
  ASSUME CompInv, CompactionAssumption, NEW k \in 1..Len(context), k \notin Kept
  PROVE  /\ GroupAt(k) \in RunId /\ Begin(k) \notin Kept
         /\ \E later \in SUBSET (RunId \ {GroupAt(k)}) :
               /\ Cardinality(later) = KeepRecent
               /\ \A r \in later : \E b \in Begins : GroupAt(b) = r /\ context[Begin(k)] < context[b]
<1>1. PICK n \in Nat : n = Len(context) /\ DOMAIN context = 1..n
  BY PlaceFacts
<1>2. GroupAt(k) \in RunId /\ Begin(k) \notin Recent
  BY <1>1 DEF Kept
<1>3. PICK p \in 1..n : p = Begin(k) /\ p \in Begins /\ GroupAt(p) = GroupAt(k)
  BY <1>1, <1>2, BeginIs
<1>4. p \notin Kept
  <2>1. k \in 1..n /\ p \in 1..n
    BY <1>1
  <2> QED BY <1>1, <1>3, <2>1, TurnIs
<1>5. PICK S \in SUBSET (1..n) : S = Begins
  BY <1>1 DEF Begins
<1>6. IsFiniteSet(S)
  <2>1. IsFiniteSet(1..n)
    BY FS_Interval
  <2> QED BY <2>1, FS_Subset
<1>7. PICK L : L = {q \in S \X S : q[1] > q[2]}
  OBVIOUS
<1>8. \A i, j \in S : <<i, j>> \in L <=> i > j
  BY <1>7
<1>9. /\ \A i \in S : <<i, i>> \notin L
      /\ \A i, j \in S : i # j => <<i, j>> \in L \/ <<j, i>> \in L
      /\ \A i, j, h \in S : <<i, j>> \in L /\ <<j, h>> \in L => <<i, h>> \in L
  <2>1. \A i \in S : i \in Nat
    OBVIOUS
  <2> QED BY <1>8, <2>1
<1>10. PICK r : RankOf(S, L, Cardinality(S), r)
  BY <1>6, <1>9, RanksFill
<1>11. PICK s \in Nat : s = Cardinality(S)
  BY <1>6, FS_CardinalityType
<1>12. \A b \in S : {c \in S : c > b} = {c \in S : <<c, b>> \in L}
  BY <1>8
<1>13. /\ r \in [S -> 0..(s - 1)]
       /\ \A b \in S : r[b] = Cardinality({c \in S : c > b})
       /\ \A b, c \in S : b > c => r[b] < r[c]
       /\ \A b, c \in S : r[b] = r[c] => b = c
       /\ \A m \in 0..(s - 1) : \E b \in S : r[b] = m
  BY <1>8, <1>10, <1>11, <1>12 DEF RankOf
<1>14. KeepRecent \in Nat
  BY DEF CompactionAssumption
<1>15. \A b \in S : b \in Recent <=> r[b] < KeepRecent
  BY <1>5, <1>13 DEF Recent
<1>16. Recent \subseteq S
  BY <1>5 DEF Recent
<1>17. p \in S /\ ~ (r[p] < KeepRecent) /\ r[p] \in 0..(s - 1)
  BY <1>2, <1>3, <1>5, <1>13, <1>15
<1>18. KeepRecent <= s - 1
  BY <1>11, <1>14, <1>17
<1>19. Cardinality(0..(KeepRecent - 1)) = KeepRecent /\ IsFiniteSet(0..(KeepRecent - 1))
  BY <1>14, FS_Interval
<1>20. PICK later : later = {GroupAt(b) : b \in Recent}
  OBVIOUS
<1>21. PICK g : g = [m \in 0..(KeepRecent - 1) |-> GroupAt(CHOOSE b \in S : r[b] = m)]
  OBVIOUS
<1>22. ASSUME NEW m \in 0..(KeepRecent - 1)
       PROVE  \E b \in Recent : r[b] = m /\ g[m] = GroupAt(b)
  <2>1. m \in 0..(s - 1) /\ m < KeepRecent
    BY <1>11, <1>14, <1>18
  <2>2. \E b \in S : r[b] = m
    BY <1>13, <2>1
  <2>3. PICK b \in S : r[b] = m /\ g[m] = GroupAt(b)
    BY <1>21, <2>2
  <2> QED BY <1>15, <2>1, <2>3
<1>23. \A b, c \in S : GroupAt(b) = GroupAt(c) => b = c
  <2>1. ASSUME NEW b \in S, NEW c \in S, GroupAt(b) = GroupAt(c) PROVE b = c
    <3>1. b \in 1..n /\ GroupAt(b) \in RunId /\ b \in Begins /\ c \in Begins
      BY <1>5 DEF Begins
    <3> QED BY <1>1, <2>1, <3>1, BeginIs
  <2> QED BY <2>1
<1>24. g \in Bijection(0..(KeepRecent - 1), later)
  <2>1. g \in [0..(KeepRecent - 1) -> later]
    <3>1. \A m \in 0..(KeepRecent - 1) : g[m] \in later
      BY <1>20, <1>22
    <3> QED BY <1>21, <3>1
  <2>2. ASSUME NEW m \in 0..(KeepRecent - 1), NEW o \in 0..(KeepRecent - 1), g[m] = g[o] PROVE m = o
    <3>1. PICK b \in Recent : r[b] = m /\ g[m] = GroupAt(b)
      BY <1>22
    <3>2. PICK c \in Recent : r[c] = o /\ g[o] = GroupAt(c)
      BY <1>22
    <3> QED BY <1>16, <1>23, <2>2, <3>1, <3>2
  <2>3. ASSUME NEW x \in later PROVE \E m \in 0..(KeepRecent - 1) : g[m] = x
    <3>1. PICK b \in Recent : x = GroupAt(b)
      BY <1>20
    <3>2. r[b] \in 0..(s - 1) /\ r[b] < KeepRecent
      BY <1>13, <1>15, <1>16
    <3>3. r[b] \in 0..(KeepRecent - 1)
      BY <1>11, <1>14, <3>2
    <3>4. PICK c \in Recent : r[c] = r[b] /\ g[r[b]] = GroupAt(c)
      BY <1>22, <3>3
    <3>5. c = b
      BY <1>13, <1>16, <3>4
    <3> QED BY <3>1, <3>3, <3>4, <3>5
  <2> QED BY <2>1, <2>2, <2>3 DEF Bijection, Injection, Surjection, IsInjective
<1>25. Cardinality(later) = KeepRecent
  <2>1. ExistsBijection(0..(KeepRecent - 1), later)
    BY <1>24 DEF ExistsBijection
  <2> QED BY <1>19, <2>1, FS_Bijection
<1>26. later \in SUBSET (RunId \ {GroupAt(k)})
  <2> SUFFICES ASSUME NEW b \in Recent PROVE GroupAt(b) \in RunId /\ GroupAt(b) # GroupAt(k)
    BY <1>20
  <2>1. b \in S /\ b # p
    BY <1>2, <1>3, <1>16
  <2> QED BY <1>3, <1>5, <1>17, <1>23, <2>1 DEF Begins
<1>27. ASSUME NEW b \in Recent PROVE context[p] < context[b]
  <2>1. b \in S /\ r[b] < KeepRecent /\ b \in 1..n
    BY <1>15, <1>16
  <2>2. r[b] \in Nat /\ r[p] \in Nat
    BY <1>11, <1>13, <1>17, <2>1
  <2>3. ~ (p > b) /\ p # b
    BY <1>13, <1>14, <1>17, <2>1, <2>2
  <2>4. p < b
    BY <2>1, <2>3
  <2>5. BeginsAt(item, context, p) /\ BeginsAt(item, context, b)
    BY <1>3, <1>5, <2>1, BeginsAre
  <2> QED BY <1>1, <2>1, <2>4, <2>5 DEF CompInv, BeginsInOrder
<1>28. \A x \in later : \E b \in Begins : GroupAt(b) = x /\ context[Begin(k)] < context[b]
  BY <1>3, <1>5, <1>16, <1>20, <1>27
<1> QED BY <1>2, <1>3, <1>4, <1>25, <1>26, <1>28

LEMMA CompactionInitInv == ASSUME CompactionInit PROVE CompInv
<1>1. /\ item = << >> /\ context = << >> /\ wall = 0 /\ Len(item) = 0 /\ Len(context) = 0
      /\ item \in Seq(Happening) /\ context \in Seq(1..Len(item))
  BY EmptySeq DEF CompactionInit
<1>2. 1..0 = {}
  OBVIOUS
<1> QED BY <1>1, <1>2 DEF CompInv, CompTypes, NoRepeats, EventsOf, OneEach, Whole, Reasons,
                          EventsInOrder, BeginsInOrder

\* One more event: what was there is there.
LEMMA ItemGrows ==
  ASSUME CompInv, NEW e \in Happening, item' = Append(item, e)
  PROVE  /\ item' \in Seq(Happening) /\ Len(item) \in Nat /\ Len(item') = Len(item) + 1
         /\ item'[Len(item) + 1] = e /\ \A i \in 1..Len(item) : item'[i] = item[i]
         /\ \A i : i \in 1..Len(item') <=> i \in 1..Len(item) \/ i = Len(item) + 1
<1>1. item \in Seq(Happening)
  BY DEF CompInv, CompTypes
<1>2. /\ Append(item, e) \in Seq(Happening) /\ Len(item) \in Nat /\ Len(Append(item, e)) = Len(item) + 1
      /\ Append(item, e)[Len(item) + 1] = e /\ \A i \in 1..Len(item) : Append(item, e)[i] = item[i]
  BY <1>1, Grows
<1>3. \A n \in Nat : \A i : i \in 1..(n + 1) <=> i \in 1..n \/ i = n + 1
  OBVIOUS
<1> QED BY <1>2, <1>3

\* The events stay in the order they came.
LEMMA EventsOfGrows ==
  ASSUME CompInv, NEW e \in Happening, item' = Append(item, e), wall' \in Nat, wall' >= wall,
         e.ts \in 1..wall', e.ts >= wall, e.compacted \subseteq 1..Len(item), e.compacted # {} => e.group = "none"
  PROVE  EventsOf(item', wall')
<1>1. PICK m, w, v \in Nat : m = Len(item) /\ w = wall /\ v = wall' /\ w <= v
  BY ItemGrows DEF CompInv, CompTypes
<1>2. /\ Len(item') = m + 1 /\ item'[m + 1] = e /\ \A i \in 1..m : item'[i] = item[i]
      /\ \A i : i \in 1..(m + 1) <=> i \in 1..m \/ i = m + 1
  BY <1>1, ItemGrows
<1>3. /\ \A i \in 1..m : item[i].compacted \subseteq 1..(i - 1)
      /\ \A i \in 1..m : item[i].compacted # {} => item[i].group = "none"
  BY <1>1 DEF CompInv, EventsOf
<1>a. \A i \in 1..m : item[i].ts \in 1..w
  BY <1>1 DEF CompInv, EventsOf
<1>b. \A i, j \in 1..m : i < j => item[i].ts <= item[j].ts
  BY <1>1 DEF CompInv, EventsOf
<1>4. ASSUME NEW i \in 1..(m + 1)
      PROVE  /\ item'[i].ts \in 1..v /\ item'[i].compacted \subseteq 1..(i - 1)
             /\ item'[i].compacted # {} => item'[i].group = "none"
  <2>1. CASE i \in 1..m
    <3>1. item'[i] = item[i]
      BY <1>2, <2>1
    <3>2. item[i].ts \in 1..w
      BY <1>a, <2>1
    <3>3. item[i].ts \in 1..v
      BY <1>1, <3>2
    <3> QED BY <1>3, <2>1, <3>1, <3>3
  <2>2. CASE i = m + 1
    <3>1. (m + 1) - 1 = m
      BY <1>1
    <3> QED BY <1>1, <1>2, <2>2, <3>1
  <2> QED BY <1>2, <2>1, <2>2
<1>5. ASSUME NEW i \in 1..(m + 1), NEW j \in 1..(m + 1), i < j PROVE item'[i].ts <= item'[j].ts
  <2>1. i \in 1..m
    BY <1>1, <1>5
  <2>2. CASE j \in 1..m
    BY <1>2, <1>b, <1>5, <2>1, <2>2
  <2>3. CASE j = m + 1
    <3>1. item'[i] = item[i] /\ item'[j] = e
      BY <1>2, <2>1, <2>3
    <3>2. item[i].ts \in 1..w
      BY <1>a, <2>1
    <3>3. e.ts \in 1..v /\ e.ts >= w
      BY <1>1
    <3> QED BY <1>1, <3>1, <3>2, <3>3
  <2> QED BY <1>2, <2>2, <2>3
<1> QED BY <1>1, <1>2, <1>4, <1>5 DEF EventsOf

\* What was said of the events before stays.
LEMMA ReasonsStay ==
  ASSUME CompInv, NEW e \in Happening, item' = Append(item, e),
         NEW s \in 1..Len(item), NEW i \in item[s].compacted
  PROVE  Reason(item', s, i)
<1>1. PICK m \in Nat : m = Len(item)
  BY ItemGrows
<1>2. \A j \in 1..m : item'[j] = item[j]
  BY <1>1, ItemGrows
<1>3. item[s].compacted \subseteq 1..(s - 1) /\ Reason(item, s, i)
  BY DEF CompInv, EventsOf, Reasons
<1>4. \A j \in 1..(s - 1) : j \in 1..m
  BY <1>1
<1>5. /\ item'[s] = item[s] /\ i \in 1..m /\ item'[i] = item[i]
      /\ \A j \in 1..(s - 1) : item'[j] = item[j]
      /\ \A h \in item[s].compacted : item'[h] = item[h]
  BY <1>1, <1>2, <1>3, <1>4
<1>6. PICK later \in SUBSET (RunId \ {item[i].group}) :
        /\ Cardinality(later) = KeepRecent
        /\ \A r \in later : \E j \in 1..(s - 1), h \in item[s].compacted :
              j > h /\ item[j].group = r /\ item[h].group = item[i].group
  BY <1>3 DEF Reason
<1>7. \A r \in later : \E j \in 1..(s - 1), h \in item'[s].compacted :
              j > h /\ item'[j].group = r /\ item'[h].group = item'[i].group
  <2> SUFFICES ASSUME NEW r \in later
               PROVE  \E j \in 1..(s - 1), h \in item'[s].compacted :
                         j > h /\ item'[j].group = r /\ item'[h].group = item'[i].group
    OBVIOUS
  <2>1. PICK j \in 1..(s - 1), h \in item[s].compacted :
           j > h /\ item[j].group = r /\ item[h].group = item[i].group
    BY <1>6
  <2>2. item'[j] = item[j] /\ item'[h] = item[h] /\ item'[i] = item[i] /\ h \in item'[s].compacted
    BY <1>5
  <2> QED BY <2>1, <2>2
<1> QED BY <1>5, <1>6, <1>7 DEF Reason

LEMMA ArrivalKeeps ==
  ASSUME CompInv, CompactionAssumption, NEW g \in Group, NEW ts \in {wall, wall + 1}, ts > 0, EventArrives(g, ts)
  PROVE  CompInv'
<1>1. PICK m, n, w \in Nat : m = Len(item) /\ n = Len(context) /\ w = wall /\ DOMAIN context = 1..n
  BY PlaceFacts DEF CompInv, CompTypes
<1>2. PICK e : e = [group |-> g, ts |-> ts, compacted |-> {}]
  OBVIOUS
<1>3. /\ e \in Happening /\ e.compacted = {} /\ e.group = g /\ e.ts = ts /\ item' = Append(item, e)
      /\ wall' = ts /\ context' = Append(context, m + 1)
  BY <1>1, <1>2 DEF EventArrives, Add, Happening
<1>4. wall' \in Nat /\ wall' >= w /\ ts \in 1..wall' /\ ts >= w
  BY <1>1, <1>3
<1>5. EventsOf(item', wall')
  BY <1>1, <1>3, <1>4, EventsOfGrows
<1>6. /\ item' \in Seq(Happening) /\ Len(item') = m + 1 /\ item'[m + 1] = e
      /\ \A i \in 1..m : item'[i] = item[i]
      /\ \A i : i \in 1..(m + 1) <=> i \in 1..m \/ i = m + 1
  BY <1>1, <1>3, ItemGrows
<1>7. /\ context' \in Seq(1..(m + 1)) /\ Len(context') = n + 1 /\ context'[n + 1] = m + 1
      /\ \A k \in 1..n : context'[k] = context[k]
  <2>1. context \in Seq(1..(m + 1)) /\ m + 1 \in 1..(m + 1)
    <3>1. context \in Seq(1..m) /\ 1..m \subseteq 1..(m + 1)
      BY <1>1 DEF CompInv, CompTypes
    <3>2. context \in Seq(1..(m + 1))
      BY <3>1, SeqMonotonic
    <3> QED BY <1>1, <3>2
  <2> QED BY <1>1, <1>3, <2>1, Grows
<1>8. \A k : k \in 1..(n + 1) <=> k \in 1..n \/ k = n + 1
  OBVIOUS
<1>9. \A k \in 1..n : context[k] \in 1..m /\ context[k] # m + 1 /\ context[k] < m + 1
  BY <1>1, PlaceFacts
<1>10. \A x : x \in Ran(context') <=> x \in Ran(context) \/ x = m + 1
  BY <1>1, <1>7, <1>8 DEF Ran
<1>11. Ran(context) \subseteq 1..m /\ m + 1 \notin Ran(context)
  BY <1>1, <1>9 DEF Ran
<1>12. NoRepeats(context')
  <2>1. \A j, k \in 1..n : context[j] = context[k] => j = k
    BY <1>1, PlaceFacts
  <2> QED BY <1>7, <1>8, <1>9, <2>1 DEF NoRepeats
<1>13. \A s \in 1..m : item[s].compacted \subseteq 1..(s - 1) /\ item[s].compacted \subseteq 1..m /\ m + 1 \notin item[s].compacted
  <2>1. ASSUME NEW s \in 1..m PROVE item[s].compacted \subseteq 1..(s - 1) /\ 1..(s - 1) \subseteq 1..m
    BY <1>1 DEF CompInv, EventsOf
  <2>2. m + 1 \notin 1..m
    BY <1>1
  <2> QED BY <2>1, <2>2
<1>14. /\ \A s \in Ran(context) : item'[s] = item[s]
       /\ item'[m + 1].compacted = {}
  BY <1>3, <1>6, <1>11
<1>15. OneEach(item', context')
  <2>1. ASSUME NEW i \in 1..(m + 1), i \in Ran(context'), NEW s \in Ran(context') PROVE i \notin item'[s].compacted
    <3>1. CASE s = m + 1
      BY <1>14, <3>1
    <3>2. CASE s \in Ran(context)
      <4>1. i = m + 1 => i \notin item[s].compacted
        BY <1>11, <1>13, <3>2
      <4>2. i \in Ran(context) => i \notin item[s].compacted
        BY <1>1, <1>11, <3>2 DEF CompInv, OneEach
      <4> QED BY <1>10, <1>14, <2>1, <3>2, <4>1, <4>2
    <3> QED BY <1>10, <3>1, <3>2
  <2>2. ASSUME NEW i \in 1..(m + 1), i \notin Ran(context')
        PROVE  \E s \in Ran(context') : /\ i \in item'[s].compacted
                                        /\ \A t \in Ran(context') : i \in item'[t].compacted => t = s
    <3>1. i \in 1..m /\ i \notin Ran(context)
      BY <1>6, <1>10, <2>2
    <3>2. PICK s \in Ran(context) : i \in item[s].compacted /\ \A t \in Ran(context) : i \in item[t].compacted => t = s
      BY <1>1, <3>1 DEF CompInv, OneEach
    <3> QED BY <1>10, <1>14, <3>2
  <2> QED BY <1>6, <2>1, <2>2 DEF OneEach
<1>16. Whole(item', context')
  <2> SUFFICES ASSUME NEW i \in 1..(m + 1), i \notin Ran(context')
               PROVE  /\ item'[i].group \in RunId
                      /\ \A j \in 1..(i - 1) : item'[j].group = item'[i].group => j \notin Ran(context')
    BY <1>6 DEF Whole
  <2>1. i \in 1..m /\ i \notin Ran(context)
    BY <1>6, <1>10
  <2>2. \A j \in 1..(i - 1) : j \in 1..m /\ j # m + 1
    BY <1>1, <2>1
  <2>3. /\ item[i].group \in RunId
        /\ \A j \in 1..(i - 1) : item[j].group = item[i].group => j \notin Ran(context)
    BY <1>1, <2>1 DEF CompInv, Whole
  <2> QED BY <1>6, <1>10, <2>1, <2>2, <2>3
<1>17. Reasons(item')
  <2>1. ASSUME NEW s \in 1..(m + 1), NEW i \in item'[s].compacted PROVE Reason(item', s, i)
    <3>1. s \in 1..m /\ item'[s] = item[s]
      BY <1>6, <1>14, <2>1
    <3> QED BY <1>1, <1>3, <2>1, <3>1, ReasonsStay
  <2> QED BY <1>6, <2>1 DEF Reasons
<1>18. \A k \in 1..n : item'[context'[k]] = item[context[k]] /\ context'[k] = context[k]
  BY <1>6, <1>7, <1>9
<1>19. EventsInOrder(item', context')
  <2> SUFFICES ASSUME NEW a \in 1..(n + 1), NEW b \in 1..(n + 1),
                      item'[context'[a]].compacted = {}, item'[context'[b]].compacted = {}, context'[a] < context'[b],
                      item'[context'[a]].ts < item'[context'[b]].ts \/ item'[context'[a]].group = item'[context'[b]].group
               PROVE  a < b
    BY <1>7 DEF EventsInOrder
  <2>1. CASE a \in 1..n /\ b \in 1..n
    BY <1>1, <1>18, <2>1 DEF CompInv, EventsInOrder
  <2>2. CASE b = n + 1 /\ a \in 1..n
    BY <2>2
  <2>3. a # n + 1
    <3>1. \A k \in 1..(n + 1) : context'[k] \in Nat /\ context'[k] <= m + 1
      BY <1>1, <1>7, <1>8, <1>9
    <3>2. context'[b] <= m + 1 /\ context'[b] \in Nat
      BY <3>1
    <3>3. ~ (m + 1 < context'[b])
      BY <3>2
    <3> QED BY <1>7, <3>3
  <2> QED BY <1>8, <2>1, <2>2, <2>3
<1>20. \A k \in 1..n : BeginsAt(item', context', k) => BeginsAt(item, context, k)
  <2> SUFFICES ASSUME NEW k \in 1..n, BeginsAt(item', context', k) PROVE BeginsAt(item, context, k)
    OBVIOUS
  <2>1. \A j \in 1..(k - 1) : j \in 1..n
    BY <1>1
  <2> QED BY <1>1, <1>18, <2>1 DEF BeginsAt
<1>21. BeginsInOrder(item', context')
  <2> SUFFICES ASSUME NEW a \in 1..(n + 1), NEW b \in 1..(n + 1), a < b,
                      BeginsAt(item', context', a), BeginsAt(item', context', b)
               PROVE  context'[a] < context'[b]
    BY <1>7 DEF BeginsInOrder
  <2>1. a \in 1..n
    BY <1>1
  <2>2. CASE b = n + 1
    BY <1>7, <1>9, <2>1, <2>2
  <2>3. CASE b \in 1..n
    <3>1. BeginsAt(item, context, a) /\ BeginsAt(item, context, b)
      BY <1>20, <2>1, <2>3
    <3> QED BY <1>1, <1>18, <2>1, <2>3, <3>1 DEF CompInv, BeginsInOrder
  <2> QED BY <1>8, <2>2, <2>3
<1> QED BY <1>4, <1>5, <1>6, <1>7, <1>12, <1>15, <1>16, <1>17, <1>19, <1>21 DEF CompInv, CompTypes

\* A compaction that trims nothing sorts the list.
LEMMA SortingKeeps ==
  ASSUME CompInv, CompactionAssumption, Compact, {context[k] : k \in DOMAIN context \ Kept} = {}
  PROVE  CompInv'
<1>1. context' = ByTime /\ item' = item /\ wall' = wall
  BY DEF Compact
<1>2. Kept = DOMAIN context
  BY DEF Kept
<1>3. DOMAIN context = 1..Len(context)
  BY PlaceFacts
<1>4. /\ EventsInOrder(item, ByTime) /\ BeginsInOrder(item, ByTime)
      /\ NoRepeats(ByTime) /\ Ran(ByTime) = {context[k] : k \in Kept}
  BY ByTimeKeepsOrder
<1>5. Ran(context') = Ran(context)
  BY <1>1, <1>2, <1>3, <1>4 DEF Ran
<1>6. context' \in Seq(1..Len(item'))
  BY <1>1, ByTimePuts
<1>7. CompTypes'
  BY <1>1, <1>6 DEF CompInv, CompTypes
<1>8. EventsInOrder(item', context') /\ BeginsInOrder(item', context') /\ NoRepeats(context')
  BY <1>1, <1>4
<1>9. OneEach(item', context')
  BY <1>1, <1>5 DEF CompInv, OneEach
<1>10. Whole(item', context')
  BY <1>1, <1>5 DEF CompInv, Whole
<1>11. EventsOf(item', wall') /\ Reasons(item')
  BY <1>1 DEF CompInv
<1> QED BY <1>7, <1>8, <1>9, <1>10, <1>11 DEF CompInv

\* One that trims events names them in a summary.
LEMMA TrimmingKeeps ==
  ASSUME CompInv, CompactionAssumption, Compact, {context[k] : k \in DOMAIN context \ Kept} # {}
  PROVE  CompInv'
<1>1. PICK m, n, w \in Nat : m = Len(item) /\ n = Len(context) /\ w = wall /\ DOMAIN context = 1..n
  BY PlaceFacts DEF CompInv, CompTypes
<1>2. PICK trimmed : trimmed = {context[k] : k \in (1..n) \ Kept}
  OBVIOUS
<1>3. \A k \in 1..n : /\ context[k] \in 1..m /\ context[k] \in Nat /\ GroupAt(k) = item[context[k]].group
  BY <1>1, PlaceFacts
<1>a. \A j, k \in 1..n : context[j] = context[k] => j = k
  BY <1>1, PlaceFacts
<1>4. trimmed \subseteq 1..m /\ trimmed # {}
  BY <1>1, <1>2, <1>3
<1>5. PICK e : e = [group |-> "none", ts |-> w + 1, compacted |-> trimmed]
  OBVIOUS
<1>6. /\ e \in Happening /\ e.group = "none" /\ e.ts = w + 1 /\ e.compacted = trimmed
      /\ item' = Append(item, e) /\ wall' = w + 1 /\ context' = <<m + 1>> \o ByTime
  <2>1. trimmed \in SUBSET Nat
    BY <1>4
  <2>2. e \in Happening
    BY <1>5, <2>1 DEF Happening, Group
  <2>3. item' = Append(item, e) /\ wall' = w + 1 /\ context' = <<m + 1>> \o ByTime
    BY <1>1, <1>2, <1>5 DEF Compact, Add
  <2> QED BY <1>5, <2>2, <2>3
<1>7. wall' \in Nat /\ wall' >= wall /\ e.ts \in 1..wall' /\ e.ts >= wall
  BY <1>1, <1>6
<1>8. EventsOf(item', wall')
  BY <1>1, <1>4, <1>6, <1>7, EventsOfGrows
<1>9. /\ item' \in Seq(Happening) /\ Len(item') = m + 1 /\ item'[m + 1] = e
      /\ \A i \in 1..m : item'[i] = item[i]
      /\ \A i : i \in 1..(m + 1) <=> i \in 1..m \/ i = m + 1
  BY <1>1, <1>6, ItemGrows
<1>10. PICK d \in Seq(1..m) : d = ByTime
  BY <1>1, ByTimePuts
<1>11. /\ EventsInOrder(item, d) /\ BeginsInOrder(item, d)
       /\ NoRepeats(d) /\ Ran(d) = {context[k] : k \in Kept}
  BY <1>10, ByTimeKeepsOrder
<1>12. PICK l \in Nat : l = Len(d) /\ \A k \in 1..l : d[k] \in 1..m
  BY <1>10, LenProperties, ElementOfSeq
<1>13. /\ context' \in Seq(1..(m + 1)) /\ Len(context') = l + 1 /\ context'[1] = m + 1
       /\ \A k \in 1..l : context'[k + 1] = d[k]
  <2>1. d \in Seq(1..(m + 1)) /\ <<m + 1>> \in Seq(1..(m + 1)) /\ Len(<<m + 1>>) = 1 /\ <<m + 1>>[1] = m + 1
    <3>1. 1..m \subseteq 1..(m + 1) /\ m + 1 \in 1..(m + 1)
      BY <1>1
    <3>2. d \in Seq(1..(m + 1))
      BY <1>10, <3>1, SeqMonotonic
    <3> QED BY <3>1, <3>2
  <2>2. PICK o : o = <<m + 1>>
    OBVIOUS
  <2>3. /\ o \o d \in Seq(1..(m + 1)) /\ Len(o \o d) = 1 + l
        /\ \A i \in 1..(1 + l) : (o \o d)[i] = IF i <= 1 THEN o[i] ELSE d[i - 1]
    BY <1>12, <2>1, <2>2, ConcatProperties
  <2>4. \A k \in 1..l : k + 1 \in 1..(1 + l) /\ ~ (k + 1 <= 1) /\ (k + 1) - 1 = k
    OBVIOUS
  <2>5. 1 \in 1..(1 + l) /\ 1 + l = l + 1
    OBVIOUS
  <2>6. context' = o \o d
    BY <1>6, <1>10, <2>2
  <2> QED BY <2>1, <2>2, <2>3, <2>4, <2>5, <2>6
<1>14. \A k \in 1..(l + 1) : k = 1 \/ (k - 1 \in 1..l /\ (k - 1) + 1 = k)
  OBVIOUS
<1>15. \A k \in 1..(l + 1) : k # 1 => /\ k - 1 \in 1..l /\ context'[k] = d[k - 1] /\ context'[k] \in 1..m
                                       /\ item'[context'[k]] = item[d[k - 1]]
  <2> SUFFICES ASSUME NEW k \in 1..(l + 1), k # 1
               PROVE  /\ k - 1 \in 1..l /\ context'[k] = d[k - 1] /\ context'[k] \in 1..m
                      /\ item'[context'[k]] = item[d[k - 1]]
    OBVIOUS
  <2>1. k - 1 \in 1..l /\ (k - 1) + 1 = k
    BY <1>14
  <2>2. context'[k] = d[k - 1] /\ d[k - 1] \in 1..m
    BY <1>12, <1>13, <2>1
  <2> QED BY <1>9, <2>1, <2>2
<1>16. item'[context'[1]].compacted # {} /\ item'[context'[1]].group \notin RunId
  <2>1. "none" \notin RunId
    BY DEF CompactionAssumption
  <2> QED BY <1>4, <1>6, <1>9, <1>13, <2>1
<1>17. Kept \subseteq 1..n
  BY <1>1 DEF Kept
<1>18. \A x : x \in Ran(context') <=> x = m + 1 \/ \E k \in Kept : x = context[k]
  <2>1. \A x : x \in Ran(context') <=> x = m + 1 \/ x \in Ran(d)
    <3>1. 1 \in 1..(l + 1) /\ \A k \in 1..l : k + 1 \in 1..(l + 1)
      OBVIOUS
    <3>2. \A x : x \in Ran(context') => x = m + 1 \/ x \in Ran(d)
      <4> SUFFICES ASSUME NEW k \in 1..(l + 1) PROVE context'[k] = m + 1 \/ context'[k] \in Ran(d)
        BY <1>13 DEF Ran
      <4>1. k # 1 => context'[k] = d[k - 1] /\ k - 1 \in 1..l
        BY <1>15
      <4> QED BY <1>12, <1>13, <4>1 DEF Ran
    <3>3. \A x : x = m + 1 \/ x \in Ran(d) => x \in Ran(context')
      <4>1. m + 1 \in Ran(context')
        BY <1>13, <3>1 DEF Ran
      <4>2. ASSUME NEW k \in 1..l PROVE d[k] \in Ran(context')
        <5>1. k + 1 \in 1..(l + 1) /\ context'[k + 1] = d[k]
          BY <1>13, <3>1
        <5> QED BY <1>13, <5>1 DEF Ran
      <4>3. \A x \in Ran(d) : \E k \in 1..l : x = d[k]
        BY <1>12 DEF Ran
      <4> QED BY <4>1, <4>2, <4>3
    <3> QED BY <3>2, <3>3
  <2> QED BY <1>11, <2>1
<1>19. \A x : x \in Ran(context) <=> \E k \in 1..n : x = context[k]
  BY <1>1 DEF Ran
<1>20. \A x : x \in trimmed <=> \E k \in 1..n : k \notin Kept /\ x = context[k]
  BY <1>2
<1>21. \A x : x \in Ran(context) <=> x \in trimmed \/ (x \in Ran(context') /\ x # m + 1)
  <2>1. m + 1 \notin 1..m
    BY <1>1
  <2> QED BY <1>3, <1>17, <1>18, <1>19, <1>20, <2>1
<1>22. \A x \in trimmed : x \notin Ran(context') /\ x \in 1..m
  <2>1. m + 1 \notin 1..m
    BY <1>1
  <2> SUFFICES ASSUME NEW x \in trimmed PROVE x \notin Ran(context') /\ x \in 1..m
    OBVIOUS
  <2>2. PICK k \in 1..n : k \notin Kept /\ x = context[k] /\ x \in 1..m
    BY <1>4, <1>20
  <2>3. \A j \in Kept : context[j] # x
    BY <1>a, <1>17, <2>2
  <2> QED BY <1>18, <2>1, <2>2, <2>3
<1>23. Ran(context) \subseteq 1..m /\ m + 1 \notin Ran(context) /\ m + 1 \in Ran(context')
  <2>1. m + 1 \notin 1..m
    BY <1>1
  <2>2. Ran(context) \subseteq 1..m
    BY <1>3, <1>19
  <2> QED BY <1>18, <2>1, <2>2
<1>24. \A s \in Ran(context) : item'[s] = item[s]
  BY <1>9, <1>23
<1>25. NoRepeats(context')
  <2>1. \A j, k \in 1..l : d[j] = d[k] => j = k
    BY <1>11, <1>12 DEF NoRepeats
  <2> SUFFICES ASSUME NEW j \in 1..(l + 1), NEW k \in 1..(l + 1), context'[j] = context'[k] PROVE j = k
    BY <1>13 DEF NoRepeats
  <2>2. m + 1 \notin 1..m
    BY <1>1
  <2>3. CASE j = 1 \/ k = 1
    BY <1>13, <1>15, <2>2, <2>3
  <2>4. CASE j # 1 /\ k # 1
    <3>1. context'[j] = d[j - 1] /\ context'[k] = d[k - 1] /\ j - 1 \in 1..l /\ k - 1 \in 1..l
      BY <1>15, <2>4
    <3>2. j - 1 = k - 1
      BY <2>1, <3>1
    <3> QED BY <3>2
  <2> QED BY <2>3, <2>4
<1>26. \A x \in trimmed : item[x].group \in RunId
  <2>1. \A k \in 1..n : k \notin Kept => GroupAt(k) \in RunId
    BY <1>1, TrimmedForARun
  <2> QED BY <1>3, <1>20, <2>1
<1>27. ASSUME NEW s \in Ran(context), item[s].compacted # {} PROVE s \in Ran(context')
  <2>1. item[s].group = "none" /\ "none" \notin RunId
    BY <1>1, <1>23, <1>27 DEF CompInv, EventsOf, CompactionAssumption
  <2> QED BY <1>21, <1>26, <2>1
<1>28. \A i \in 1..m : /\ i \in Ran(context) => \A s \in Ran(context) : i \notin item[s].compacted
                       /\ i \notin Ran(context) => \E s \in Ran(context) : /\ i \in item[s].compacted
                                                                            /\ \A t \in Ran(context) : i \in item[t].compacted => t = s
  BY <1>1 DEF CompInv, OneEach
<1>29. \A s \in 1..m : item[s].compacted \subseteq 1..m
  <2> SUFFICES ASSUME NEW s \in 1..m PROVE item[s].compacted \subseteq 1..m
    OBVIOUS
  <2>1. item[s].compacted \subseteq 1..(s - 1) /\ 1..(s - 1) \subseteq 1..m
    BY <1>1 DEF CompInv, EventsOf
  <2> QED BY <2>1
<1>30. item'[m + 1].compacted = trimmed
  BY <1>6, <1>9
<1>31. \A s \in Ran(context') : s = m + 1 \/ s \in Ran(context)
  BY <1>21
<1>32. OneEach(item', context')
  <2>1. ASSUME NEW i \in 1..(m + 1), i \in Ran(context'), NEW s \in Ran(context') PROVE i \notin item'[s].compacted
    <3>1. CASE s = m + 1
      BY <1>22, <1>30, <2>1, <3>1
    <3>2. CASE s \in Ran(context)
      <4>1. i = m + 1 => i \notin item[s].compacted
        <5>1. item[s].compacted \subseteq 1..m /\ m + 1 \notin 1..m
          BY <1>1, <1>23, <1>29, <3>2
        <5> QED BY <5>1
      <4>2. i \in Ran(context) => i \notin item[s].compacted
        BY <1>23, <1>28, <3>2
      <4> QED BY <1>24, <1>31, <2>1, <3>2, <4>1, <4>2
    <3> QED BY <1>31, <3>1, <3>2
  <2>2. ASSUME NEW i \in 1..(m + 1), i \notin Ran(context')
        PROVE  \E s \in Ran(context') : /\ i \in item'[s].compacted
                                        /\ \A t \in Ran(context') : i \in item'[t].compacted => t = s
    <3>1. i \in 1..m
      BY <1>9, <1>23, <2>2
    <3>2. CASE i \in trimmed
      <4>1. i \in Ran(context)
        BY <1>21, <3>2
      <4>2. \A t \in Ran(context) : i \notin item'[t].compacted
        BY <1>24, <1>28, <3>1, <4>1
      <4> QED BY <1>23, <1>30, <1>31, <3>2, <4>2
    <3>3. CASE i \notin trimmed
      <4>1. i \notin Ran(context)
        BY <1>21, <2>2, <3>3
      <4>2. PICK s \in Ran(context) : i \in item[s].compacted /\ \A t \in Ran(context) : i \in item[t].compacted => t = s
        BY <1>28, <3>1, <4>1
      <4>3. s \in Ran(context')
        BY <1>27, <4>2
      <4>4. i \in item'[s].compacted /\ \A t \in Ran(context') : i \in item'[t].compacted => t = s
        BY <1>24, <1>30, <1>31, <3>3, <4>2
      <4> QED BY <4>3, <4>4
    <3> QED BY <3>2, <3>3
  <2> QED BY <1>9, <2>1, <2>2 DEF OneEach
<1>33. Whole(item', context')
  <2> SUFFICES ASSUME NEW i \in 1..(m + 1), i \notin Ran(context'),
                      NEW j \in 1..(i - 1), item'[j].group = item'[i].group, j \in Ran(context')
               PROVE  FALSE
    <3>1. ASSUME NEW i \in 1..(m + 1), i \notin Ran(context') PROVE item'[i].group \in RunId
      <4>1. i \in 1..m /\ item'[i] = item[i]
        BY <1>9, <1>23, <3>1
      <4>2. i \notin Ran(context) => item[i].group \in RunId
        BY <1>1, <4>1 DEF CompInv, Whole
      <4> QED BY <1>21, <1>26, <3>1, <4>1, <4>2
    <3> QED BY <1>9, <3>1 DEF Whole
  <2>1. i \in 1..m /\ item'[i] = item[i]
    BY <1>9, <1>23
  <2>2. j \in 1..m /\ j # m + 1 /\ item'[j] = item[j]
    <3>1. j \in 1..m /\ j # m + 1
      BY <1>1, <2>1
    <3> QED BY <1>9, <3>1
  <2>3. PICK k \in Kept : j = context[k]
    BY <1>18, <2>2
  <2>4. j \in Ran(context)
    BY <1>21, <2>2
  <2>5. CASE i \notin Ran(context)
    BY <1>1, <2>1, <2>2, <2>4, <2>5 DEF CompInv, Whole
  <2>6. CASE i \in Ran(context)
    <3>1. i \in trimmed
      BY <1>9, <1>21, <2>1, <2>6
    <3>2. PICK h \in 1..n : h \notin Kept /\ i = context[h]
      BY <1>20, <3>1
    <3>3. k \in 1..n
      BY <1>17
    <3>4. GroupAt(h) = GroupAt(k)
      BY <1>3, <2>1, <2>2, <2>3, <3>2, <3>3
    <3> QED BY <1>1, <3>2, <3>3, <3>4, TurnIs
  <2> QED BY <2>5, <2>6
<1>34. ASSUME NEW i \in trimmed PROVE Reason(item', m + 1, i)
  <2>1. PICK k \in 1..n : k \notin Kept /\ i = context[k]
    BY <1>20
  <2>2. GroupAt(k) \in RunId /\ Begin(k) \notin Kept
    BY <1>1, <2>1, TrimmedForARun
  <2>3. PICK later \in SUBSET (RunId \ {GroupAt(k)}) :
          /\ Cardinality(later) = KeepRecent
          /\ \A r \in later : \E b \in Begins : GroupAt(b) = r /\ context[Begin(k)] < context[b]
    BY <1>1, <2>1, TrimmedForARun
  <2>4. PICK p \in 1..n : p = Begin(k) /\ GroupAt(p) = GroupAt(k)
    BY <1>1, <2>2, BeginIs
  <2>5. PICK h : h = context[p]
    OBVIOUS
  <2>6. h \in item'[m + 1].compacted /\ h \in 1..m /\ item'[h].group = GroupAt(k)
    BY <1>3, <1>9, <1>20, <1>30, <2>2, <2>4, <2>5
  <2>7. item'[i].group = GroupAt(k)
    BY <1>3, <1>9, <2>1
  <2>8. ASSUME NEW r \in later
        PROVE  \E j \in 1..((m + 1) - 1), x \in item'[m + 1].compacted :
                  j > x /\ item'[j].group = r /\ item'[x].group = item'[i].group
    <3>1. PICK b \in Begins : GroupAt(b) = r /\ h < context[b]
      BY <2>3, <2>4, <2>5
    <3>2. b \in 1..n
      BY <1>1 DEF Begins
    <3>3. context[b] \in 1..m /\ item'[context[b]].group = r
      BY <1>3, <1>9, <3>1, <3>2
    <3>4. (m + 1) - 1 = m /\ context[b] > h
      BY <1>1, <2>6, <3>1, <3>3
    <3> QED BY <2>6, <2>7, <3>3, <3>4
  <2> QED BY <2>3, <2>7, <2>8 DEF Reason
<1>35. Reasons(item')
  <2>1. ASSUME NEW s \in 1..(m + 1), NEW i \in item'[s].compacted PROVE Reason(item', s, i)
    <3>1. CASE s \in 1..m
      <4>1. item'[s] = item[s]
        BY <1>9, <3>1
      <4> QED BY <1>1, <1>6, <2>1, <3>1, <4>1, ReasonsStay
    <3>2. CASE s = m + 1
      BY <1>30, <1>34, <2>1, <3>2
    <3> QED BY <1>9, <3>1, <3>2
  <2> QED BY <1>9, <2>1 DEF Reasons
<1>36. EventsInOrder(item', context')
  <2> SUFFICES ASSUME NEW a \in 1..(l + 1), NEW b \in 1..(l + 1),
                      item'[context'[a]].compacted = {}, item'[context'[b]].compacted = {}, context'[a] < context'[b],
                      item'[context'[a]].ts < item'[context'[b]].ts \/ item'[context'[a]].group = item'[context'[b]].group
               PROVE  a < b
    BY <1>13 DEF EventsInOrder
  <2>1. a # 1 /\ b # 1
    BY <1>16
  <2>2. /\ a - 1 \in 1..l /\ context'[a] = d[a - 1] /\ item'[context'[a]] = item[d[a - 1]]
        /\ b - 1 \in 1..l /\ context'[b] = d[b - 1] /\ item'[context'[b]] = item[d[b - 1]]
    BY <1>15, <2>1
  <2>3. a - 1 < b - 1
    BY <1>11, <1>12, <2>2 DEF EventsInOrder
  <2> QED BY <2>3
<1>37. ASSUME NEW k \in 1..(l + 1), BeginsAt(item', context', k)
       PROVE  k # 1 /\ BeginsAt(item, d, k - 1)
  <2>1. k # 1
    BY <1>16, <1>37 DEF BeginsAt
  <2>2. k - 1 \in 1..l /\ item'[context'[k]] = item[d[k - 1]]
    BY <1>15, <2>1
  <2>3. ASSUME NEW j \in 1..((k - 1) - 1) PROVE item[d[j]].group # item[d[k - 1]].group
    <3>1. j + 1 \in 1..(k - 1) /\ j + 1 \in 1..(l + 1) /\ j + 1 # 1 /\ (j + 1) - 1 = j
      BY <2>1
    <3>2. item'[context'[j + 1]] = item[d[j]]
      BY <1>15, <3>1
    <3> QED BY <1>37, <2>2, <3>1, <3>2 DEF BeginsAt
  <2> QED BY <1>12, <1>37, <2>1, <2>2, <2>3 DEF BeginsAt
<1>38. BeginsInOrder(item', context')
  <2> SUFFICES ASSUME NEW a \in 1..(l + 1), NEW b \in 1..(l + 1), a < b,
                      BeginsAt(item', context', a), BeginsAt(item', context', b)
               PROVE  context'[a] < context'[b]
    BY <1>13 DEF BeginsInOrder
  <2>1. a # 1 /\ b # 1 /\ BeginsAt(item, d, a - 1) /\ BeginsAt(item, d, b - 1)
    BY <1>37
  <2>2. a - 1 \in 1..l /\ context'[a] = d[a - 1] /\ b - 1 \in 1..l /\ context'[b] = d[b - 1]
    BY <1>15, <2>1
  <2>3. a - 1 < b - 1
    OBVIOUS
  <2> QED BY <1>11, <1>12, <2>1, <2>2, <2>3 DEF BeginsInOrder
<1>39. CompTypes'
  BY <1>1, <1>7, <1>9, <1>13 DEF CompTypes
<1> QED BY <1>8, <1>25, <1>32, <1>33, <1>35, <1>36, <1>38, <1>39 DEF CompInv

LEMMA CompactionKeeps ==
  ASSUME CompInv, CompactionAssumption, CompactionNext \/ UNCHANGED compactionVars PROVE CompInv'
<1>1. CASE UNCHANGED compactionVars
  BY <1>1 DEF compactionVars, CompInv, CompTypes
<1> QED BY <1>1, ArrivalKeeps, SortingKeeps, TrimmingKeeps DEF CompactionNext

LEMMA CompactionIsTold == ASSUME CompInv, CompactionAssumption PROVE CompactionLosesNothing
<1>1. PICK m, n \in Nat : m = Len(item) /\ n = Len(context) /\ DOMAIN context = 1..n /\ DOMAIN item = 1..m
  BY PlaceFacts
<1>2. ToSet(context) = Ran(context)
  BY <1>1 DEF ToSet, Ran
<1>3. IsInjective(context)
  <2>1. \A j, k \in 1..n : context[j] = context[k] => j = k
    BY <1>1, PlaceFacts
  <2> QED BY <1>1, <2>1 DEF IsInjective
<1>4. ASSUME NEW i \in 1..m PROVE Cardinality({s \in Ran(context) : s = i \/ i \in item[s].compacted}) = 1
  <2>1. PICK s : {t \in Ran(context) : t = i \/ i \in item[t].compacted} = {s}
    <3>1. CASE i \in Ran(context)
      <4>1. {t \in Ran(context) : t = i \/ i \in item[t].compacted} = {i}
        BY <1>1, <3>1 DEF CompInv, OneEach
      <4> QED BY <4>1
    <3>2. CASE i \notin Ran(context)
      <4>1. PICK s \in Ran(context) : i \in item[s].compacted /\ \A t \in Ran(context) : i \in item[t].compacted => t = s
        BY <1>1, <3>2 DEF CompInv, OneEach
      <4>2. {t \in Ran(context) : t = i \/ i \in item[t].compacted} = {s}
        BY <3>2, <4>1
      <4> QED BY <4>2
    <3> QED BY <3>1, <3>2
  <2> QED BY <2>1, FS_Singleton
<1>5. \A i \in (1..m) \ Ran(context) :
          /\ item[i].group \in RunId
          /\ \A j \in 1..(i - 1) : item[j].group = item[i].group => j \notin Ran(context)
  BY <1>1 DEF CompInv, Whole
<1>6. \A s \in 1..m : \A i \in item[s].compacted : Reason(item, s, i)
  BY <1>1 DEF CompInv, Reasons
<1>7. ASSUME NEW i \in Ran(context) \cap Arrivals, NEW j \in Ran(context) \cap Arrivals,
             i < j /\ (item[i].ts < item[j].ts \/ item[i].group = item[j].group)
      PROVE  PlaceOf(i) < PlaceOf(j)
  <2>1. item[i].compacted = {} /\ item[j].compacted = {}
    BY DEF Arrivals
  <2>2. \A x \in Ran(context) : PlaceOf(x) \in 1..n /\ context[PlaceOf(x)] = x
    <3> SUFFICES ASSUME NEW x \in Ran(context) PROVE PlaceOf(x) \in 1..n /\ context[PlaceOf(x)] = x
      OBVIOUS
    <3>1. \E k \in 1..n : context[k] = x
      BY <1>1 DEF Ran
    <3> QED BY <1>1, <3>1 DEF PlaceOf
  <2> QED BY <1>1, <1>7, <2>1, <2>2 DEF CompInv, EventsInOrder
<1>8. \A i \in DOMAIN item : Cardinality({s \in ToSet(context) : s = i \/ i \in item[s].compacted}) = 1
  BY <1>1, <1>2, <1>4
<1>9. \A i \in DOMAIN item \ ToSet(context) :
         /\ item[i].group \in RunId
         /\ \A j \in 1..(i - 1) : item[j].group = item[i].group => j \notin ToSet(context)
  BY <1>1, <1>2, <1>5
<1>10. \A s \in DOMAIN item : \A i \in item[s].compacted :
          \E later \in SUBSET (RunId \ {item[i].group}) :
             /\ Cardinality(later) = KeepRecent
             /\ \A r \in later : \E j \in 1..(s - 1), h \in item[s].compacted :
                   j > h /\ item[j].group = r /\ item[h].group = item[i].group
  <2>1. \A s \in DOMAIN item : \A i \in item[s].compacted : Reason(item, s, i)
    BY <1>1, <1>6
  <2> QED BY <2>1, Zenon DEF Reason
<1>11. \A i, j \in ToSet(context) \cap Arrivals :
          i < j /\ (item[i].ts < item[j].ts \/ item[i].group = item[j].group)
             => PlaceOf(i) < PlaceOf(j)
  BY <1>2, <1>7
<1> QED BY <1>3, <1>8, <1>9, <1>10, <1>11 DEF CompactionLosesNothing
===========================================================================
