----------------------------- MODULE Compaction -----------------------------
(* BasicCompactionProvider::compact (crates/ma-harness-compaction/src/       *)
(* lib.rs) on a session that goes on: events arrive, and the list a          *)
(* compaction returned may be compacted again, as the command line allows    *)
(* by writing what it reads (ma-harness-cli/src/main.rs:2789).  A list holds *)
(* indices of item; whether it is too long is left open, since the estimate  *)
(* of its tokens is the caller's.                                            *)
EXTENDS Naturals, FiniteSets, Sequences, SequencesExt

CONSTANTS RunId,            \* run ids
          KeepRecent,       \* keep_recent_steps
          MaxArrivals       \* bound: the events of the session

ASSUME CompactionAssumption ==
    KeepRecent \in Nat /\ MaxArrivals \in Nat /\ "always" \notin RunId /\ "none" \notin RunId

VARIABLES item,             \* every event there was: [group, ts, compacted]
          context,          \* the list: indices of item
          wall              \* the clock

compactionVars == <<item, context, wall>>

\* What a compaction tells events apart by: "always" is in always_keep, "none"
\* has no run; the events it may trim have a run.
Group == {"always", "none"} \cup RunId

CompactionInit == item = << >> /\ context = << >> /\ wall = 0

Add(group, ts, compacted) ==
    item' = Append(item, [group |-> group, ts |-> ts, compacted |-> compacted])

Arrivals == {i \in DOMAIN item : item[i].compacted = {}}

EventArrives(group, ts) ==
    /\ Cardinality(Arrivals) < MaxArrivals
    /\ wall' = ts
    /\ Add(group, ts, {})
    /\ context' = Append(context, Len(item) + 1)

GroupAt(k) == item[context[k]].group

\* Where a run has its first event that may be trimmed, and where the run of
\* the k-th event has it.
Begins == {k \in DOMAIN context : /\ GroupAt(k) \in RunId
                                  /\ \A j \in 1..(k - 1) : GroupAt(j) # GroupAt(k)}
Begin(k) == CHOOSE b \in Begins : GroupAt(b) = GroupAt(k)

\* always_keep, the runs that begin last, and what has no run.
Recent == {b \in Begins : Cardinality({c \in Begins : c > b}) < KeepRecent}
Kept == {k \in DOMAIN context : GroupAt(k) \in RunId => Begin(k) \in Recent}

\* What is kept is put together in this order, the runs one after the other,
\* and sorted by time, which is stable.
Turn(k) == CASE GroupAt(k) = "always" -> 0
             [] GroupAt(k) = "none" -> Len(context) + 1
             [] OTHER -> Begin(k)
Sooner(j, k) ==
    LET s == item[context[j]].ts
        t == item[context[k]].ts
    IN  \/ s < t
        \/ s = t /\ (Turn(j) < Turn(k) \/ (Turn(j) = Turn(k) /\ j < k))
ByTime ==
    [n \in 1..Cardinality(Kept) |->
        context[CHOOSE k \in Kept : Cardinality({j \in Kept : Sooner(j, k)}) = n - 1]]

\* The estimate is above the limit.  The summary, a ModelResponse without a
\* run, has the time of the compaction and goes first.
Compact ==
    LET trimmed == {context[k] : k \in DOMAIN context \ Kept}
    IN  IF trimmed = {}
        THEN context' = ByTime /\ UNCHANGED <<item, wall>>
        ELSE /\ wall' = wall + 1
             /\ Add("none", wall + 1, trimmed)
             /\ context' = <<Len(item) + 1>> \o ByTime

CompactionNext ==
    \/ \E g \in Group, ts \in {wall, wall + 1} : ts > 0 /\ EventArrives(g, ts)
    \/ Compact

PlaceOf(i) == CHOOSE k \in DOMAIN context : context[k] = i

\* However often a session is compacted and goes on: each event is in the
\* list once or named by one summary that is in it, summaries of earlier
\* compactions among them; nothing leaves but events of runs, whole runs at a
\* time, and only for KeepRecent runs that went on after they began; and what
\* stays is in the order of its times, and of its arrival within a run
\* (lib.rs:313-424).
CompactionLosesNothing ==
    /\ IsInjective(context)
    /\ \A i \in DOMAIN item :
          Cardinality({s \in ToSet(context) : s = i \/ i \in item[s].compacted}) = 1
    /\ \A i \in DOMAIN item \ ToSet(context) :
          /\ item[i].group \in RunId
          /\ \A j \in 1..(i - 1) : item[j].group = item[i].group => j \notin ToSet(context)
    /\ \A s \in DOMAIN item : \A i \in item[s].compacted :
          \E later \in SUBSET (RunId \ {item[i].group}) :
             /\ Cardinality(later) = KeepRecent
             /\ \A r \in later : \E j \in 1..(s - 1), h \in item[s].compacted :
                   j > h /\ item[j].group = r /\ item[h].group = item[i].group
    /\ \A i, j \in ToSet(context) \cap Arrivals :
          i < j /\ (item[i].ts < item[j].ts \/ item[i].group = item[j].group)
             => PlaceOf(i) < PlaceOf(j)
=============================================================================
