-------------------------- MODULE ProcessProofs --------------------------
(***************************************************************************)
(* Children of the subprocess provider and of the terminals are accounted  *)
(* for, whatever programs they run and however many calls spawn, wait,     *)
(* read, kill, time out and are dropped.                                   *)
(***************************************************************************)
EXTENDS HostProcesses, FiniteSetTheorems, TLAPS

Life == [state : {"none", "running", "exited", "reaped"}, todo : Seq({"out", "err", "in"}),
         stdin : {"open", "closed"}, killOnDrop : BOOLEAN, readable : BOOLEAN,
         unread : [Streams -> Nat], written : [Streams -> Nat]]

ProviderCall ==
    [op : {"none", "wait", "try_wait", "kill", "output"}, proc : Proc \cup {NoProc},
     stage : {"idle", "out", "err", "waiting", "reaping", "over"}, timed : BOOLEAN,
     got : [Streams -> Nat],
     result : {"none", "HandleNotFound", "status", "ok", "timeout", "dropped"}]

SubTypes ==
    /\ proc \in [Proc -> Life] /\ children \subseteq Proc
    /\ subCall \in [SubCall -> ProviderCall] /\ statuses \in [Proc -> Nat]

Lives(p) == proc[p].state \in {"running", "exited"}
Owns(c, p) == InFlight(c) /\ subCall[c].proc = p

\* The table and the calls in flight share the children that have not been
\* reaped out among them, but for those that were to outlive a drop.
Ownership ==
    /\ \A c \in SubCall : InFlight(c) => subCall[c].proc \in Proc
    /\ \A p \in Proc : p \in children => Lives(p) /\ \A c \in SubCall : ~ Owns(c, p)
    /\ \A p \in Proc, c \in SubCall : Owns(c, p) => Lives(p)
    /\ \A p \in Proc, c, d \in SubCall : Owns(c, p) /\ Owns(d, p) => c = d
    /\ \A p \in Proc : Lives(p) /\ proc[p].killOnDrop =>
                          p \in children \/ \E c \in SubCall : Owns(c, p)

\* A status is given when the child is reaped, and there is no life after that.
StatusOnce == \A p \in Proc : statuses[p] <= 1 /\ (statuses[p] > 0 => proc[p].state = "reaped")

\* What an output has read and what is left in the pipes is what its child
\* wrote; the end of a stream is met when the child is gone and the pipe empty.
ReadsAll(c) ==
    LET r == subCall[c]
        life == proc[r.proc]
    IN  /\ \A s \in Streams : r.got[s] + life.unread[s] = life.written[s]
        /\ r.stage \in {"err", "waiting"} => life.state # "running" /\ life.unread["out"] = 0
        /\ r.stage = "waiting" => life.unread["err"] = 0

OutputIsWhole(c) ==
    LET r == subCall[c]
    IN  /\ r.op = "output" /\ r.stage \in {"out", "err", "waiting"} => ReadsAll(c)
        /\ r.op = "output" /\ r.result = "status" =>
              r.proc \in Proc /\ r.got = proc[r.proc].written /\ proc[r.proc].state = "reaped"
        /\ r.result = "timeout" => r.proc \in Proc /\ proc[r.proc].state = "reaped"
        /\ InFlight(c) => r.result = "none"

OutputsAreWhole == \A c \in SubCall : OutputIsWhole(c)

SubInv == SubTypes /\ Ownership /\ StatusOnce /\ OutputsAreWhole

--------------------------------------------------------------------------
LEMMA SubInitInv == SubInit => SubInv
<1> SUFFICES ASSUME SubInit PROVE SubInv
  OBVIOUS
<1>1. SubTypes
  <2>1. NoLife \in Life
    BY DEF NoLife, Life
  <2>2. NoSubCall \in ProviderCall
    BY DEF NoSubCall, ProviderCall
  <2> QED BY <2>1, <2>2 DEF SubInit, SubTypes
<1>2. \A c \in SubCall : subCall[c].stage = "idle" /\ subCall[c].result = "none"
  BY DEF SubInit, NoSubCall
<1>3. \A p \in Proc : proc[p].state = "none"
  BY DEF SubInit, NoLife
<1>4. Ownership
  BY <1>2, <1>3 DEF SubInit, Ownership, Lives, Owns, InFlight
<1>5. StatusOnce
  BY DEF SubInit, StatusOnce
<1>6. OutputsAreWhole
  BY <1>2 DEF OutputsAreWhole, OutputIsWhole, InFlight
<1> QED BY <1>1, <1>4, <1>5, <1>6 DEF SubInv

\* A child that lives on as before, but for its stdin: nobody's account changes.
LEMMA SpawnKeeps == SubInv /\ (\E p \in Proc : Spawn(p)) => SubInv'
<1> SUFFICES ASSUME SubInv, NEW p \in Proc, Spawn(p) PROVE SubInv'
  OBVIOUS
<1>1. PICK program \in Program, kod \in BOOLEAN :
          proc' = [proc EXCEPT ![p] = Spawned(program, "open", kod)]
  BY DEF Spawn
<1>2. /\ proc[p].state = "none" /\ children' = children \cup {p}
      /\ UNCHANGED <<subCall, statuses>>
  BY DEF Spawn
<1>3. Spawned(program, "open", kod) \in Life /\ Spawned(program, "open", kod).state = "running"
  BY SubprocessAssumption DEF Spawned, NoLife, Life
<1>4. /\ proc' \in [Proc -> Life]
      /\ \A q \in Proc : q # p => proc'[q] = proc[q]
      /\ proc'[p].state = "running"
  BY <1>1, <1>3 DEF SubInv, SubTypes
<1>5. \A c \in SubCall : ~ Owns(c, p)
  BY <1>2 DEF SubInv, Ownership, Lives
<1>6. SubTypes'
  BY <1>2, <1>4 DEF SubInv, SubTypes
<1>7. Ownership'
  BY <1>2, <1>4, <1>5 DEF SubInv, Ownership, Lives, Owns, InFlight
<1>8. StatusOnce'
  BY <1>2, <1>4 DEF SubInv, StatusOnce
<1>9. OutputsAreWhole'
  BY <1>2, <1>4, <1>5 DEF SubInv, OutputsAreWhole, OutputIsWhole, ReadsAll, Owns, InFlight, Ownership
<1> QED BY <1>6, <1>7, <1>8, <1>9 DEF SubInv

\* What every step that changes one child and nothing of its owner has in
\* common: it lives on, and what it writes stands in the pipe.
LEMMA OneChildKeeps ==
  ASSUME SubInv, NEW p \in Proc, NEW life \in Life,
         proc' = [proc EXCEPT ![p] = life], UNCHANGED <<children, subCall, statuses>>,
         Lives(p), life.state \in {"running", "exited"}, life.killOnDrop = proc[p].killOnDrop,
         \A s \in Streams : \/ life.unread[s] = proc[p].unread[s] /\ life.written[s] = proc[p].written[s]
                           \/ /\ proc[p].state = "running"
                              /\ life.unread[s] = proc[p].unread[s] + 1
                              /\ life.written[s] = proc[p].written[s] + 1,
         life.state = "running" => proc[p].state = "running"
  PROVE  SubInv'
<1>1. /\ proc' \in [Proc -> Life] /\ proc'[p] = life
      /\ \A q \in Proc : q # p => proc'[q] = proc[q]
  BY DEF SubInv, SubTypes
<1>2. SubTypes'
  BY <1>1 DEF SubInv, SubTypes
<1>3. \A q \in Proc : Lives(q)' = Lives(q) /\ proc'[q].killOnDrop = proc[q].killOnDrop
  BY <1>1 DEF Lives
<1>4. \A c \in SubCall, q \in Proc : Owns(c, q)' = Owns(c, q) /\ InFlight(c)' = InFlight(c)
  BY DEF Owns, InFlight
<1>5. Ownership'
  BY <1>3, <1>4 DEF SubInv, Ownership
<1>6. StatusOnce'
  BY <1>1 DEF SubInv, StatusOnce, Lives
<1>7. ASSUME NEW c \in SubCall,
             subCall[c].op = "output" /\ subCall[c].stage \in {"out", "err", "waiting"}
      PROVE  ReadsAll(c)'
  <2>1. ReadsAll(c) /\ subCall[c].proc \in Proc /\ subCall[c] \in ProviderCall
    BY <1>7 DEF SubInv, SubTypes, OutputsAreWhole, OutputIsWhole, Ownership, InFlight
  <2>2. CASE subCall[c].proc # p
    BY <1>1, <2>1, <2>2 DEF ReadsAll
  <2>3. CASE subCall[c].proc = p
    <3>1. \A s \in Streams : subCall[c].got[s] \in Nat /\ proc[p].unread[s] \in Nat
                            /\ proc[p].written[s] \in Nat
      BY <2>1 DEF SubInv, SubTypes, Life, ProviderCall
    <3>2. \A s \in Streams : subCall[c].got[s] + proc[p].unread[s] = proc[p].written[s]
      BY <2>1, <2>3 DEF ReadsAll
    <3>3. \A s \in Streams : subCall[c].got[s] + life.unread[s] = life.written[s]
      BY <3>1, <3>2
    <3>4. subCall[c].stage \in {"err", "waiting"} =>
             life.state # "running" /\ life.unread["out"] = 0
      BY <2>1, <2>3 DEF ReadsAll, Streams
    <3>5. subCall[c].stage = "waiting" => life.unread["err"] = 0
      BY <2>1, <2>3 DEF ReadsAll, Streams
    <3> QED BY <1>1, <2>3, <3>3, <3>4, <3>5 DEF ReadsAll
  <2> QED BY <2>2, <2>3
<1>8. OutputsAreWhole'
  BY <1>1, <1>4, <1>7 DEF SubInv, OutputsAreWhole, OutputIsWhole, Lives
<1> QED BY <1>2, <1>5, <1>6, <1>8 DEF SubInv

LEMMA ChildStepKeeps == SubInv /\ (\E p \in Proc : ChildStep(p)) => SubInv'
<1> SUFFICES ASSUME SubInv, NEW p \in Proc, ChildStep(p) PROVE SubInv'
  OBVIOUS
<1>1. proc[p] \in Life /\ proc \in [Proc -> Life]
  BY DEF SubInv, SubTypes
<1>2. CASE ChildExits(p)
  <2> DEFINE life == [proc[p] EXCEPT !.state = "exited"]
  <2>1. /\ proc' = [proc EXCEPT ![p] = life] /\ UNCHANGED <<children, subCall, statuses>>
        /\ Lives(p)
    BY <1>1, <1>2 DEF ChildExits, Running, Lives
  <2>2. /\ life \in Life /\ life.state = "exited" /\ life.killOnDrop = proc[p].killOnDrop
        /\ life.unread = proc[p].unread /\ life.written = proc[p].written
    BY <1>1 DEF Life
  <2> HIDE DEF life
  <2> QED BY <2>1, <2>2, OneChildKeeps
<1>3. CASE ChildReadsStdin(p)
  <2> DEFINE life == [proc[p] EXCEPT !.todo = Tail(@)]
  <2>1. /\ proc' = [proc EXCEPT ![p] = life] /\ UNCHANGED <<children, subCall, statuses>>
        /\ Lives(p) /\ proc[p].state = "running" /\ proc[p].todo # << >>
    BY <1>1, <1>3 DEF ChildReadsStdin, NextIs, Running, Lives
  <2>2. Tail(proc[p].todo) \in Seq({"out", "err", "in"})
    BY <1>1, <2>1 DEF Life
  <2>3. /\ life \in Life /\ life.state = "running" /\ life.killOnDrop = proc[p].killOnDrop
        /\ life.unread = proc[p].unread /\ life.written = proc[p].written
    BY <1>1, <2>1, <2>2 DEF Life
  <2> HIDE DEF life
  <2> QED BY <2>1, <2>3, OneChildKeeps
<1>4. ASSUME NEW s \in Streams, ChildWrites(p, s) PROVE SubInv'
  <2>1. /\ UNCHANGED <<children, subCall, statuses>>
        /\ Lives(p) /\ proc[p].state = "running" /\ proc[p].todo # << >>
    BY <1>4 DEF ChildWrites, NextIs, Running, Lives
  <2>2. CASE proc[p].readable
    <3> DEFINE life == [proc[p] EXCEPT !.todo = Tail(@), !.unread[s] = @ + 1, !.written[s] = @ + 1]
    <3>1. proc' = [proc EXCEPT ![p] = life]
      BY <1>1, <1>4, <2>2 DEF ChildWrites
    <3>2. Tail(proc[p].todo) \in Seq({"out", "err", "in"})
      BY <1>1, <2>1 DEF Life
    <3>3. proc[p].unread \in [Streams -> Nat] /\ proc[p].written \in [Streams -> Nat]
      BY <1>1 DEF Life
    <3>4. /\ life.unread = [proc[p].unread EXCEPT ![s] = @ + 1]
          /\ life.written = [proc[p].written EXCEPT ![s] = @ + 1]
          /\ life.state = "running" /\ life.killOnDrop = proc[p].killOnDrop
      BY <1>1, <2>1 DEF Life
    <3>5. life.unread \in [Streams -> Nat] /\ life.written \in [Streams -> Nat]
      BY <3>3, <3>4
    <3>6. life \in Life
      BY <1>1, <2>1, <3>2, <3>5 DEF Life
    <3>7. \A r \in Streams :
            \/ life.unread[r] = proc[p].unread[r] /\ life.written[r] = proc[p].written[r]
            \/ /\ life.unread[r] = proc[p].unread[r] + 1
               /\ life.written[r] = proc[p].written[r] + 1
      BY <3>3, <3>4
    <3> HIDE DEF life
    <3> QED BY <2>1, <3>1, <3>4, <3>6, <3>7, OneChildKeeps
  <2>3. CASE ~ proc[p].readable
    <3> DEFINE life == [proc[p] EXCEPT !.state = "exited"]
    <3>1. proc' = [proc EXCEPT ![p] = life]
      BY <1>1, <1>4, <2>3 DEF ChildWrites
    <3>2. /\ life \in Life /\ life.state = "exited" /\ life.killOnDrop = proc[p].killOnDrop
          /\ life.unread = proc[p].unread /\ life.written = proc[p].written
      BY <1>1 DEF Life
    <3> HIDE DEF life
    <3> QED BY <2>1, <3>1, <3>2, OneChildKeeps
  <2> QED BY <2>2, <2>3
<1> QED BY <1>2, <1>3, <1>4 DEF ChildStep

--------------------------------------------------------------------------
(* Calls of the provider.                                                  *)

\* The calls a step on child p is not about.
LEMMA OtherOutputKeeps ==
  ASSUME SubInv, NEW p \in Proc, NEW d \in SubCall, subCall'[d] = subCall[d],
         \A q \in Proc : q # p => proc'[q] = proc[q],
         ~ Owns(d, p), proc[p].state # "reaped"
  PROVE  OutputIsWhole(d)'
<1>1. OutputIsWhole(d) /\ (InFlight(d) => subCall[d].proc \in Proc /\ subCall[d].proc # p)
  BY DEF SubInv, OutputsAreWhole, Ownership, Owns
<1>2. subCall[d].op = "output" /\ subCall[d].stage \in {"out", "err", "waiting"} => ReadsAll(d)'
  BY <1>1 DEF OutputIsWhole, ReadsAll, InFlight
<1>3. /\ subCall[d].op = "output" /\ subCall[d].result = "status" => subCall[d].proc # p
      /\ subCall[d].result = "timeout" => subCall[d].proc # p
  BY <1>1 DEF OutputIsWhole
<1> QED BY <1>1, <1>2, <1>3 DEF OutputIsWhole, InFlight

\* A call that answers at once, of a child whose account does not change.
LEMMA AnsweredKeeps ==
  ASSUME SubInv, NEW c \in SubCall, subCall[c].stage = "idle",
         NEW op \in {"wait", "try_wait", "kill"}, NEW p \in Proc,
         NEW told \in {"HandleNotFound", "status", "ok", "none"},
         Answered(c, op, p, told), UNCHANGED <<proc, children, statuses>>
  PROVE  SubInv'
<1> DEFINE rec == [NoSubCall EXCEPT !.op = op, !.proc = p, !.stage = "over", !.result = told]
<1>1. /\ rec \in ProviderCall /\ rec.stage = "over" /\ rec.op = op /\ rec.result = told
  BY DEF NoSubCall, ProviderCall
<1>2. /\ subCall' \in [SubCall -> ProviderCall] /\ subCall'[c] = rec
      /\ \A d \in SubCall : d # c => subCall'[d] = subCall[d]
  BY <1>1 DEF SubInv, SubTypes, Answered
<1> HIDE DEF rec
<1>3. SubTypes'
  BY <1>2 DEF SubInv, SubTypes
<1>4. \A d \in SubCall : InFlight(d)' = InFlight(d) /\ \A q \in Proc : Owns(d, q)' = Owns(d, q)
  BY <1>1, <1>2 DEF InFlight, Owns
<1>5. Ownership'
  <2>1. \A d \in SubCall : InFlight(d)' => subCall'[d] = subCall[d]
    BY <1>1, <1>2 DEF InFlight
  <2> QED BY <1>4, <2>1 DEF SubInv, Ownership, Lives
<1>6. StatusOnce'
  BY DEF SubInv, StatusOnce
<1>7. OutputsAreWhole'
  <2>1. \A d \in SubCall : d # c => subCall'[d] = subCall[d] /\ ReadsAll(d)' = ReadsAll(d)
    BY <1>2 DEF ReadsAll
  <2>2. subCall'[c].op # "output" /\ subCall'[c].result # "timeout" /\ ~ InFlight(c)'
    BY <1>1, <1>2 DEF InFlight
  <2> QED BY <1>2, <1>4, <2>1, <2>2 DEF SubInv, OutputsAreWhole, OutputIsWhole
<1> QED BY <1>3, <1>5, <1>6, <1>7 DEF SubInv

LEMMA WaitKeeps ==
  ASSUME SubInv, NEW c \in SubCall, NEW p \in Proc, subCall[c].stage = "idle", Wait(c, p)
  PROVE  SubInv'
<1>1. CASE NotFound(c, "wait", p)
  BY <1>1, AnsweredKeeps DEF NotFound
<1>2. CASE ~ NotFound(c, "wait", p)
  <2> DEFINE rec == [NoSubCall EXCEPT !.op = "wait", !.proc = p, !.stage = "waiting"]
  <2>1. /\ p \in children /\ children' = children \ {p}
        /\ subCall' = [subCall EXCEPT ![c] = rec]
        /\ proc' = [proc EXCEPT ![p].stdin = "closed"] /\ UNCHANGED statuses
    BY <1>2 DEF Wait, TakeChild
  <2>2. /\ rec \in ProviderCall /\ rec.stage = "waiting" /\ rec.op = "wait" /\ rec.proc = p
        /\ rec.result = "none"
    BY DEF NoSubCall, ProviderCall
  <2> HIDE DEF rec
  <2>3. /\ subCall' \in [SubCall -> ProviderCall] /\ subCall'[c] = rec
        /\ \A d \in SubCall : d # c => subCall'[d] = subCall[d]
    BY <2>1, <2>2 DEF SubInv, SubTypes
  <2>4. proc[p] \in Life /\ proc \in [Proc -> Life]
    BY DEF SubInv, SubTypes
  <2>5. /\ proc' \in [Proc -> Life]
        /\ \A q \in Proc : /\ proc'[q].state = proc[q].state
                           /\ proc'[q].killOnDrop = proc[q].killOnDrop
                           /\ proc'[q].unread = proc[q].unread
                           /\ proc'[q].written = proc[q].written
    BY <2>1, <2>4 DEF Life
  <2>6. SubTypes'
    BY <2>1, <2>3, <2>5 DEF SubInv, SubTypes
  <2>7. Lives(p) /\ \A d \in SubCall : ~ Owns(d, p)
    BY <2>1 DEF SubInv, Ownership
  <2>8. \A d \in SubCall, q \in Proc : Owns(d, q)' = (Owns(d, q) \/ (d = c /\ q = p))
    BY <1>2, <2>2, <2>3 DEF Owns, InFlight
  <2>9. \A q \in Proc : Lives(q)' = Lives(q)
    BY <2>5 DEF Lives
  <2>10. \A d \in SubCall : InFlight(d)' => subCall'[d].proc \in Proc
    BY <2>2, <2>3 DEF SubInv, Ownership, InFlight
  <2>11. Ownership'
    BY <2>1, <2>5, <2>7, <2>8, <2>9, <2>10 DEF SubInv, Ownership
  <2>12. StatusOnce'
    BY <2>1, <2>5 DEF SubInv, StatusOnce
  <2>13. OutputsAreWhole'
    <3>1. ASSUME NEW d \in SubCall, d # c,
                 subCall[d].op = "output" /\ subCall[d].stage \in {"out", "err", "waiting"}
          PROVE  ReadsAll(d)'
      <4>1. ReadsAll(d) /\ subCall[d].proc \in Proc
        BY <3>1 DEF SubInv, OutputsAreWhole, OutputIsWhole, Ownership, InFlight
      <4> QED BY <2>3, <2>5, <3>1, <4>1 DEF ReadsAll
    <3> QED BY <2>2, <2>3, <2>5, <3>1 DEF SubInv, OutputsAreWhole, OutputIsWhole, InFlight
  <2> QED BY <2>6, <2>11, <2>12, <2>13 DEF SubInv
<1> QED BY <1>1, <1>2

\* A child of the table that is reaped leaves it: nobody else knows it.
LEMMA TryWaitKeeps ==
  ASSUME SubInv, NEW c \in SubCall, NEW p \in Proc, subCall[c].stage = "idle", TryWait(c, p)
  PROVE  SubInv'
<1>1. CASE NotFound(c, "try_wait", p)
  BY <1>1, AnsweredKeeps DEF NotFound
<1>2. CASE Answered(c, "try_wait", p, "none") /\ UNCHANGED <<proc, children, statuses>>
  BY <1>2, AnsweredKeeps
<1>3. CASE proc[p].state = "exited" /\ TakeChild(p) /\ Given(p)
           /\ proc' = [proc EXCEPT ![p].state = "reaped"]
           /\ Answered(c, "try_wait", p, "status")
  <2> DEFINE rec == [NoSubCall EXCEPT !.op = "try_wait", !.proc = p, !.stage = "over",
                                      !.result = "status"]
  <2>1. rec \in ProviderCall /\ rec.stage = "over" /\ rec.op = "try_wait" /\ rec.result = "status"
    BY DEF NoSubCall, ProviderCall
  <2>2. /\ subCall' \in [SubCall -> ProviderCall] /\ subCall'[c] = rec
        /\ \A d \in SubCall : d # c => subCall'[d] = subCall[d]
    BY <1>3, <2>1 DEF SubInv, SubTypes, Answered
  <2> HIDE DEF rec
  <2>3. proc[p] \in Life /\ proc \in [Proc -> Life] /\ statuses \in [Proc -> Nat]
    BY DEF SubInv, SubTypes
  <2>4. /\ proc' \in [Proc -> Life] /\ proc'[p].state = "reaped"
        /\ \A q \in Proc : q # p => proc'[q] = proc[q]
    BY <1>3, <2>3 DEF Life
  <2>5. /\ p \in children /\ children' = children \ {p}
        /\ statuses' = [statuses EXCEPT ![p] = @ + 1] /\ statuses[p] = 0
        /\ statuses' \in [Proc -> Nat]
    <3>1. statuses[p] = 0
      BY <1>3, <2>3 DEF SubInv, StatusOnce
    <3> QED BY <1>3, <2>3, <3>1 DEF TakeChild, Given
  <2>6. SubTypes'
    BY <2>2, <2>4, <2>5 DEF SubInv, SubTypes
  <2>7. \A d \in SubCall : InFlight(d)' = InFlight(d) /\ \A q \in Proc : Owns(d, q)' = Owns(d, q)
    BY <2>1, <2>2 DEF InFlight, Owns
  <2>8. \A d \in SubCall : ~ Owns(d, p)
    BY <2>5 DEF SubInv, Ownership
  <2>9. \A d \in SubCall : InFlight(d)' => subCall'[d] = subCall[d]
    BY <2>1, <2>2 DEF InFlight
  <2>10. Ownership'
    BY <2>4, <2>5, <2>7, <2>8, <2>9 DEF SubInv, Ownership, Lives
  <2>11. StatusOnce'
    BY <2>3, <2>4, <2>5 DEF SubInv, StatusOnce
  <2>12. OutputsAreWhole'
    <3>1. ASSUME NEW d \in SubCall, d # c,
                 subCall[d].op = "output" /\ subCall[d].stage \in {"out", "err", "waiting"}
          PROVE  ReadsAll(d)'
      <4>1. ReadsAll(d) /\ subCall[d].proc \in Proc /\ subCall[d].proc # p
        BY <2>8, <3>1 DEF SubInv, OutputsAreWhole, OutputIsWhole, Ownership, InFlight, Owns
      <4> QED BY <2>2, <2>4, <3>1, <4>1 DEF ReadsAll
    <3>2. \A d \in SubCall : subCall[d].op = "output" /\ subCall[d].result = "status" =>
             subCall[d].proc # p
      BY <1>3 DEF SubInv, OutputsAreWhole, OutputIsWhole
    <3>3. \A d \in SubCall : subCall[d].result = "timeout" => subCall[d].proc # p
      BY <1>3 DEF SubInv, OutputsAreWhole, OutputIsWhole
    <3> QED BY <2>1, <2>2, <2>4, <3>1, <3>2, <3>3 DEF SubInv, OutputsAreWhole, OutputIsWhole, InFlight
  <2> QED BY <2>6, <2>10, <2>11, <2>12 DEF SubInv
<1> QED BY <1>1, <1>2, <1>3 DEF TryWait

\* A kill of a child in the table leaves it there, ended.
LEMMA KillKeeps ==
  ASSUME SubInv, NEW c \in SubCall, NEW p \in Proc, subCall[c].stage = "idle", KillChild(c, p)
  PROVE  SubInv'
<1>1. CASE NotFound(c, "kill", p)
  BY <1>1, AnsweredKeeps DEF NotFound
<1>2. CASE ~ NotFound(c, "kill", p)
  <2> DEFINE life == Killed(proc[p])
             rec == [NoSubCall EXCEPT !.op = "kill", !.proc = p, !.stage = "over", !.result = "ok"]
  <2>1. /\ p \in children /\ proc' = [proc EXCEPT ![p] = life]
        /\ subCall' = [subCall EXCEPT ![c] = rec] /\ UNCHANGED <<children, statuses>>
    BY <1>2 DEF KillChild, Answered
  <2>2. Lives(p) /\ \A d \in SubCall : ~ Owns(d, p)
    BY <2>1 DEF SubInv, Ownership
  <2>3. proc[p] \in Life /\ proc \in [Proc -> Life]
    BY DEF SubInv, SubTypes
  <2>4. life \in Life /\ life.state = "exited" /\ life.killOnDrop = proc[p].killOnDrop
    BY <2>2, <2>3 DEF Killed, Life, Lives
  <2>5. rec \in ProviderCall /\ rec.stage = "over" /\ rec.op = "kill" /\ rec.result = "ok"
    BY DEF NoSubCall, ProviderCall
  <2> HIDE DEF life, rec
  <2>6. /\ proc' \in [Proc -> Life] /\ proc'[p] = life
        /\ \A q \in Proc : q # p => proc'[q] = proc[q]
        /\ subCall' \in [SubCall -> ProviderCall] /\ subCall'[c] = rec
        /\ \A d \in SubCall : d # c => subCall'[d] = subCall[d]
    BY <2>1, <2>3, <2>4, <2>5 DEF SubInv, SubTypes
  <2>7. SubTypes'
    BY <2>1, <2>6 DEF SubInv, SubTypes
  <2>8. \A d \in SubCall : /\ InFlight(d)' <=> InFlight(d)
                           /\ InFlight(d)' => subCall'[d] = subCall[d]
                           /\ \A q \in Proc : (Owns(d, q)' <=> Owns(d, q))
    BY <2>5, <2>6 DEF InFlight, Owns
  <2>9. \A q \in Proc : (Lives(q)' <=> Lives(q)) /\ proc'[q].killOnDrop = proc[q].killOnDrop
    BY <2>2, <2>4, <2>6 DEF Lives
  <2>10. Ownership'
    <3>1. \A d \in SubCall : InFlight(d)' => subCall'[d].proc \in Proc
      BY <2>8 DEF SubInv, Ownership
    <3>2. \A q \in Proc : q \in children' => Lives(q)' /\ \A d \in SubCall : ~ Owns(d, q)'
      BY <2>1, <2>8, <2>9 DEF SubInv, Ownership
    <3>3. \A q \in Proc, d, e \in SubCall : /\ Owns(d, q)' => Lives(q)'
                                            /\ Owns(d, q)' /\ Owns(e, q)' => d = e
      BY <2>8, <2>9 DEF SubInv, Ownership
    <3>4. \A q \in Proc : Lives(q)' /\ proc'[q].killOnDrop =>
                             q \in children' \/ \E d \in SubCall : Owns(d, q)'
      BY <2>1, <2>8, <2>9 DEF SubInv, Ownership
    <3> QED BY <3>1, <3>2, <3>3, <3>4 DEF Ownership
  <2>11. StatusOnce'
    BY <2>1, <2>2, <2>6 DEF SubInv, StatusOnce, Lives
  <2>12. OutputsAreWhole'
    <3>1. \A d \in SubCall : d # c => OutputIsWhole(d)'
      BY <2>2, <2>6, OtherOutputKeeps DEF Lives
    <3>2. OutputIsWhole(c)'
      BY <2>5, <2>6 DEF OutputIsWhole, InFlight
    <3> QED BY <3>1, <3>2 DEF OutputsAreWhole
  <2> QED BY <2>7, <2>10, <2>11, <2>12 DEF SubInv
<1> QED BY <1>1, <1>2

LEMMA OutputKeeps ==
  ASSUME SubInv, NEW c \in SubCall, NEW p \in Proc, subCall[c].stage = "idle", Output(c, p)
  PROVE  SubInv'
<1>0. \A caller \in DOMAIN StdinOf : StdinOf[caller] \subseteq {"open", "closed"}
  BY DEF StdinOf
<1>1. PICK program \in Program, end \in {"open", "closed"}, timed \in BOOLEAN :
        /\ proc[p].state = "none" /\ UNCHANGED <<children, statuses>>
        /\ proc' = [proc EXCEPT ![p] = Spawned(program, end, TRUE)]
        /\ subCall' = [subCall EXCEPT ![c] = [NoSubCall EXCEPT !.op = "output", !.proc = p,
                                                               !.stage = "out", !.timed = timed]]
  BY <1>0 DEF Output
<1> DEFINE life == Spawned(program, end, TRUE)
           rec == [NoSubCall EXCEPT !.op = "output", !.proc = p, !.stage = "out", !.timed = timed]
<1>2. /\ life \in Life /\ life.state = "running"
      /\ \A s \in Streams : life.unread[s] = 0 /\ life.written[s] = 0
  BY SubprocessAssumption DEF Spawned, NoLife, Life
<1>3. /\ rec \in ProviderCall /\ rec.stage = "out" /\ rec.op = "output" /\ rec.proc = p
      /\ rec.result = "none" /\ \A s \in Streams : rec.got[s] = 0
  BY DEF NoSubCall, ProviderCall
<1>4. /\ proc' = [proc EXCEPT ![p] = life] /\ subCall' = [subCall EXCEPT ![c] = rec]
  BY <1>1
<1> HIDE DEF life, rec
<1>5. /\ proc' \in [Proc -> Life] /\ proc'[p] = life
      /\ \A q \in Proc : q # p => proc'[q] = proc[q]
      /\ subCall' \in [SubCall -> ProviderCall] /\ subCall'[c] = rec
      /\ \A d \in SubCall : d # c => subCall'[d] = subCall[d]
  BY <1>2, <1>3, <1>4 DEF SubInv, SubTypes
<1>6. SubTypes'
  BY <1>1, <1>5 DEF SubInv, SubTypes
<1>7. p \notin children /\ \A d \in SubCall : ~ Owns(d, p)
  BY <1>1 DEF SubInv, Ownership, Lives
<1>8. \A d \in SubCall, q \in Proc : Owns(d, q)' = (Owns(d, q) \/ (d = c /\ q = p))
  BY <1>3, <1>5 DEF Owns, InFlight
<1>9. \A d \in SubCall : InFlight(d)' => subCall'[d].proc \in Proc
  BY <1>3, <1>5 DEF SubInv, Ownership, InFlight
<1>10. Lives(p)' /\ \A q \in Proc : q # p => Lives(q)' = Lives(q)
  BY <1>2, <1>5 DEF Lives
<1>11. Ownership'
  <2>1. \A q \in Proc : q \in children' => Lives(q)' /\ \A d \in SubCall : ~ Owns(d, q)'
    BY <1>1, <1>7, <1>8, <1>10 DEF SubInv, Ownership
  <2>2. \A q \in Proc, d \in SubCall : Owns(d, q)' => Lives(q)'
    BY <1>8, <1>10 DEF SubInv, Ownership
  <2>3. \A q \in Proc, d, e \in SubCall : Owns(d, q)' /\ Owns(e, q)' => d = e
    BY <1>7, <1>8 DEF SubInv, Ownership
  <2>4. \A q \in Proc : Lives(q)' /\ proc'[q].killOnDrop =>
                           q \in children' \/ \E d \in SubCall : Owns(d, q)'
    BY <1>1, <1>5, <1>8, <1>10 DEF SubInv, Ownership
  <2> QED BY <1>9, <2>1, <2>2, <2>3, <2>4 DEF Ownership
<1>12. StatusOnce'
  BY <1>1, <1>5 DEF SubInv, StatusOnce
<1>13. OutputsAreWhole'
  <2>1. \A d \in SubCall : d # c => OutputIsWhole(d)'
    BY <1>1, <1>5, <1>7, OtherOutputKeeps
  <2>2. ReadsAll(c)'
    BY <1>2, <1>3, <1>5 DEF ReadsAll
  <2>3. OutputIsWhole(c)'
    BY <1>3, <1>5, <2>2 DEF OutputIsWhole
  <2> QED BY <2>1, <2>3 DEF OutputsAreWhole
<1> QED BY <1>6, <1>11, <1>12, <1>13 DEF SubInv

LEMMA BeginKeeps == SubInv /\ (\E c \in SubCall : Begin(c)) => SubInv'
BY WaitKeeps, TryWaitKeeps, KillKeeps, OutputKeeps DEF Begin

--------------------------------------------------------------------------
(* Calls that are under way.                                               *)

\* Nothing else than its call knows a child that is being waited for.
LEMMA OwnerAlone ==
  ASSUME SubInv, NEW c \in SubCall, InFlight(c)
  PROVE  /\ subCall[c] \in ProviderCall /\ subCall[c].proc \in Proc
         /\ proc[subCall[c].proc] \in Life
         /\ Owns(c, subCall[c].proc) /\ Lives(subCall[c].proc)
         /\ subCall[c].proc \notin children
         /\ \A d \in SubCall : d # c => ~ Owns(d, subCall[c].proc)
BY DEF SubInv, SubTypes, Ownership, Owns

\* A call stays in flight with its child, which may end but not be reaped.
LEMMA OwnerGoesOn ==
  ASSUME SubInv, NEW c \in SubCall, InFlight(c), NEW p \in Proc, p = subCall[c].proc,
         NEW life \in Life, NEW rec \in ProviderCall,
         proc' = [proc EXCEPT ![p] = life], subCall' = [subCall EXCEPT ![c] = rec],
         UNCHANGED <<children, statuses>>,
         life.state \in {"running", "exited"}, life.killOnDrop = proc[p].killOnDrop,
         rec.stage \in {"out", "err", "waiting", "reaping"}, rec.proc = p, rec.result = "none",
         rec.op = "output" /\ rec.stage \in {"out", "err", "waiting"} =>
            /\ \A s \in Streams : rec.got[s] + life.unread[s] = life.written[s]
            /\ rec.stage \in {"err", "waiting"} => life.state # "running" /\ life.unread["out"] = 0
            /\ rec.stage = "waiting" => life.unread["err"] = 0
  PROVE  SubInv'
<1>1. /\ proc' \in [Proc -> Life] /\ proc'[p] = life
      /\ \A q \in Proc : q # p => proc'[q] = proc[q]
      /\ subCall' \in [SubCall -> ProviderCall] /\ subCall'[c] = rec
      /\ \A d \in SubCall : d # c => subCall'[d] = subCall[d]
  BY DEF SubInv, SubTypes
<1>2. /\ Lives(p) /\ \A d \in SubCall : d # c => ~ Owns(d, p)
  BY OwnerAlone
<1>3. SubTypes'
  BY <1>1 DEF SubInv, SubTypes
<1>4. \A d \in SubCall : InFlight(d)' <=> InFlight(d)
  BY <1>1 DEF InFlight
<1>5. \A d \in SubCall : subCall'[d].proc = subCall[d].proc
  BY <1>1
<1>6. \A q \in Proc, d \in SubCall : Owns(d, q)' <=> Owns(d, q)
  BY <1>4, <1>5 DEF Owns
<1>7. \A q \in Proc : (Lives(q)' <=> Lives(q)) /\ proc'[q].killOnDrop = proc[q].killOnDrop
  BY <1>1, <1>2 DEF Lives
<1>8. Ownership'
  BY <1>4, <1>5, <1>6, <1>7 DEF SubInv, Ownership
<1>9. StatusOnce'
  BY <1>1, <1>2 DEF SubInv, StatusOnce, Lives
<1>10. OutputsAreWhole'
  <2>1. \A d \in SubCall : d # c => OutputIsWhole(d)'
    BY <1>1, <1>2, OtherOutputKeeps DEF Lives
  <2>2. OutputIsWhole(c)'
    BY <1>1 DEF OutputIsWhole, ReadsAll
  <2> QED BY <2>1, <2>2 DEF OutputsAreWhole
<1> QED BY <1>3, <1>8, <1>9, <1>10 DEF SubInv

LEMMA ReadKeeps ==
  ASSUME SubInv, NEW c \in SubCall, NEW s \in Streams, ReadStream(c, s)
  PROVE  SubInv'
<1> DEFINE p == subCall[c].proc
           life == [proc[p] EXCEPT !.unread[s] = 0]
           rec == [subCall[c] EXCEPT !.got[s] = @ + proc[p].unread[s]]
<1>1. InFlight(c) /\ subCall[c].stage = s
  BY DEF ReadStream, InFlight, Streams
<1>2. /\ subCall[c] \in ProviderCall /\ p \in Proc /\ proc[p] \in Life /\ Lives(p)
      /\ OutputIsWhole(c)
  BY <1>1, OwnerAlone DEF SubInv, OutputsAreWhole
<1>3. /\ proc' = [proc EXCEPT ![p] = life] /\ subCall' = [subCall EXCEPT ![c] = rec]
      /\ UNCHANGED <<children, statuses>>
  BY <1>2 DEF ReadStream, SubInv, SubTypes
<1>4. /\ proc[p].unread \in [Streams -> Nat] /\ proc[p].written \in [Streams -> Nat]
      /\ subCall[c].got \in [Streams -> Nat]
  BY <1>2 DEF Life, ProviderCall
<1>5. /\ life.unread = [proc[p].unread EXCEPT ![s] = 0] /\ life.unread \in [Streams -> Nat]
      /\ life.written = proc[p].written /\ life.state = proc[p].state
      /\ life.killOnDrop = proc[p].killOnDrop /\ life \in Life
  BY <1>2, <1>4 DEF Life
<1>6. /\ rec.got = [subCall[c].got EXCEPT ![s] = @ + proc[p].unread[s]]
      /\ rec.stage = s /\ rec.proc = p /\ rec.result = subCall[c].result /\ rec.op = subCall[c].op
      /\ rec.got \in [Streams -> Nat]
  BY <1>1, <1>2, <1>4 DEF ProviderCall
<1>7. rec \in ProviderCall
  BY <1>2, <1>6 DEF ProviderCall
<1>8. rec.result = "none"
  BY <1>1, <1>2, <1>6 DEF OutputIsWhole
<1>9. ASSUME subCall[c].op = "output"
      PROVE  /\ \A r \in Streams : rec.got[r] + life.unread[r] = life.written[r]
             /\ s = "err" => life.state # "running" /\ life.unread["out"] = 0
  <2>1. /\ \A r \in Streams : subCall[c].got[r] + proc[p].unread[r] = proc[p].written[r]
        /\ s = "err" => proc[p].state # "running" /\ proc[p].unread["out"] = 0
    BY <1>1, <1>2, <1>9 DEF OutputIsWhole, ReadsAll, Streams
  <2>2. ASSUME NEW r \in Streams PROVE rec.got[r] + life.unread[r] = life.written[r]
    <3>1. /\ proc[p].unread[r] \in Nat /\ proc[p].written[r] \in Nat /\ subCall[c].got[r] \in Nat
      BY <1>4
    <3> QED BY <1>4, <1>5, <1>6, <2>1, <3>1
  <2>3. s = "err" => life.unread["out"] = proc[p].unread["out"]
    BY <1>4, <1>5 DEF Streams
  <2> QED BY <1>5, <2>1, <2>2, <2>3
<1>10. life.state \in {"running", "exited"}
  BY <1>2, <1>5 DEF Lives
<1> HIDE DEF life, rec
<1> QED BY <1>1, <1>2, <1>3, <1>5, <1>6, <1>7, <1>8, <1>9, <1>10, OwnerGoesOn DEF Streams

LEMMA StreamEndKeeps ==
  ASSUME SubInv, NEW c \in SubCall, NEW s \in Streams, StreamEnds(c, s)
  PROVE  SubInv'
<1> DEFINE p == subCall[c].proc
           next == IF s = "out" THEN "err" ELSE "waiting"
           rec == [subCall[c] EXCEPT !.stage = next]
<1>1. InFlight(c) /\ subCall[c].stage = s /\ proc[p].unread[s] = 0 /\ ~ Running(p)
  BY DEF StreamEnds, AtEnd, InFlight, Streams
<1>2. /\ subCall[c] \in ProviderCall /\ p \in Proc /\ proc[p] \in Life /\ Lives(p)
      /\ OutputIsWhole(c)
  BY <1>1, OwnerAlone DEF SubInv, OutputsAreWhole
<1>3. /\ proc' = [proc EXCEPT ![p] = proc[p]] /\ subCall' = [subCall EXCEPT ![c] = rec]
      /\ UNCHANGED <<children, statuses>>
  BY <1>2 DEF StreamEnds, SubInv, SubTypes
<1>4. /\ rec \in ProviderCall /\ rec.stage = next /\ rec.proc = p /\ rec.op = subCall[c].op
      /\ rec.got = subCall[c].got /\ rec.result = subCall[c].result
  BY <1>2 DEF ProviderCall
<1>5. rec.result = "none"
  BY <1>1, <1>2, <1>4 DEF OutputIsWhole
<1>6. subCall[c].op = "output" =>
        /\ \A r \in Streams : subCall[c].got[r] + proc[p].unread[r] = proc[p].written[r]
        /\ proc[p].state # "running" /\ proc[p].unread["out"] = 0
        /\ s = "err" => proc[p].unread["err"] = 0
  BY <1>1, <1>2 DEF OutputIsWhole, ReadsAll, Streams, Running
<1>7. next \in {"err", "waiting"} /\ (next = "waiting" => s = "err")
  BY DEF Streams
<1>8. proc[p].state \in {"running", "exited"}
  BY <1>2 DEF Lives
<1> HIDE DEF rec, next
<1> QED BY <1>1, <1>2, <1>3, <1>4, <1>5, <1>6, <1>7, <1>8, OwnerGoesOn

LEMMA TimeoutKeeps ==
  ASSUME SubInv, NEW c \in SubCall, OutputTimesOut(c)
  PROVE  SubInv'
<1> DEFINE p == subCall[c].proc
           life == Killed(proc[p])
           rec == [subCall[c] EXCEPT !.stage = "reaping"]
<1>1. InFlight(c)
  BY DEF OutputTimesOut, InFlight
<1>2. /\ subCall[c] \in ProviderCall /\ p \in Proc /\ proc[p] \in Life /\ Lives(p)
      /\ OutputIsWhole(c)
  BY <1>1, OwnerAlone DEF SubInv, OutputsAreWhole
<1>3. /\ proc' = [proc EXCEPT ![p] = life] /\ subCall' = [subCall EXCEPT ![c] = rec]
      /\ UNCHANGED <<children, statuses>>
  BY <1>2 DEF OutputTimesOut, SubInv, SubTypes
<1>4. life \in Life /\ life.state = "exited" /\ life.killOnDrop = proc[p].killOnDrop
  BY <1>2 DEF Killed, Life, Lives
<1>5. /\ rec \in ProviderCall /\ rec.stage = "reaping" /\ rec.proc = p
      /\ rec.result = subCall[c].result
  BY <1>2 DEF ProviderCall
<1>6. rec.result = "none"
  BY <1>1, <1>2, <1>5 DEF OutputIsWhole
<1> HIDE DEF life, rec
<1> QED BY <1>1, <1>2, <1>3, <1>4, <1>5, <1>6, OwnerGoesOn

\* A call gives up its child, reaped or left to run on by itself.
LEMMA OwnerLeaves ==
  ASSUME SubInv, NEW c \in SubCall, InFlight(c), NEW p \in Proc, p = subCall[c].proc,
         NEW life \in Life, NEW rec \in ProviderCall, NEW n \in Nat,
         proc' = [proc EXCEPT ![p] = life], subCall' = [subCall EXCEPT ![c] = rec],
         UNCHANGED children, statuses' = [statuses EXCEPT ![p] = n],
         life.state \in {"running", "exited", "reaped"},
         life.state # "reaped" => ~ life.killOnDrop,
         n = statuses[p] \/ (n = 1 /\ life.state = "reaped"),
         rec.stage = "over", rec.proc = p,
         rec.op = "output" /\ rec.result = "status" =>
            life.state = "reaped" /\ rec.got = life.written,
         rec.result = "timeout" => life.state = "reaped"
  PROVE  SubInv'
<1>1. /\ proc' \in [Proc -> Life] /\ proc'[p] = life
      /\ \A q \in Proc : q # p => proc'[q] = proc[q]
      /\ subCall' \in [SubCall -> ProviderCall] /\ subCall'[c] = rec
      /\ \A d \in SubCall : d # c => subCall'[d] = subCall[d]
      /\ statuses' \in [Proc -> Nat] /\ statuses'[p] = n
      /\ \A q \in Proc : q # p => statuses'[q] = statuses[q]
  BY DEF SubInv, SubTypes
<1>2. /\ Lives(p) /\ p \notin children /\ \A d \in SubCall : d # c => ~ Owns(d, p)
  BY OwnerAlone
<1>3. SubTypes'
  BY <1>1 DEF SubInv, SubTypes
<1>4. \A d \in SubCall : InFlight(d)' <=> (InFlight(d) /\ d # c)
  BY <1>1 DEF InFlight
<1>5. \A q \in Proc, d \in SubCall : Owns(d, q)' <=> (Owns(d, q) /\ q # p)
  BY <1>1, <1>2, <1>4 DEF Owns
<1>6. \A q \in Proc : q # p => (Lives(q)' <=> Lives(q)) /\ proc'[q].killOnDrop = proc[q].killOnDrop
  BY <1>1 DEF Lives
<1>7. Lives(p)' => ~ proc'[p].killOnDrop
  BY <1>1 DEF Lives
<1>8. Ownership'
  <2>1. \A d \in SubCall : InFlight(d)' => subCall'[d].proc \in Proc
    BY <1>1, <1>4 DEF SubInv, Ownership
  <2>2. \A q \in Proc : q \in children' => Lives(q)' /\ \A d \in SubCall : ~ Owns(d, q)'
    BY <1>2, <1>5, <1>6 DEF SubInv, Ownership
  <2>3. \A q \in Proc, d \in SubCall : Owns(d, q)' => Lives(q)'
    BY <1>5, <1>6 DEF SubInv, Ownership
  <2>4. \A q \in Proc, d, e \in SubCall : Owns(d, q)' /\ Owns(e, q)' => d = e
    BY <1>5 DEF SubInv, Ownership
  <2>5. \A q \in Proc : Lives(q)' /\ proc'[q].killOnDrop =>
                           q \in children' \/ \E d \in SubCall : Owns(d, q)'
    BY <1>5, <1>6, <1>7 DEF SubInv, Ownership
  <2> QED BY <2>1, <2>2, <2>3, <2>4, <2>5 DEF Ownership
<1>9. StatusOnce'
  <2>1. statuses[p] = 0
    BY <1>2 DEF SubInv, SubTypes, StatusOnce, Lives
  <2> QED BY <1>1, <2>1 DEF SubInv, StatusOnce
<1>10. OutputsAreWhole'
  <2>1. \A d \in SubCall : d # c => OutputIsWhole(d)'
    BY <1>1, <1>2, OtherOutputKeeps DEF Lives
  <2>2. OutputIsWhole(c)'
    BY <1>1 DEF OutputIsWhole, InFlight
  <2> QED BY <2>1, <2>2 DEF OutputsAreWhole
<1> QED BY <1>3, <1>8, <1>9, <1>10 DEF SubInv

LEMMA ReapKeeps ==
  ASSUME SubInv, NEW c \in SubCall, Reap(c)
  PROVE  SubInv'
<1> DEFINE p == subCall[c].proc
           life == [proc[p] EXCEPT !.state = "reaped"]
<1>1. InFlight(c) /\ proc[p].state = "exited" /\ subCall[c].stage \in {"waiting", "reaping"}
  BY DEF Reap, InFlight
<1>2. /\ subCall[c] \in ProviderCall /\ p \in Proc /\ proc[p] \in Life /\ Lives(p)
      /\ OutputIsWhole(c) /\ statuses \in [Proc -> Nat] /\ proc \in [Proc -> Life]
  BY <1>1, OwnerAlone DEF SubInv, SubTypes, OutputsAreWhole
<1>3. proc' = [proc EXCEPT ![p] = life] /\ UNCHANGED children
  BY <1>2 DEF Reap
<1>4. life \in Life /\ life.state = "reaped" /\ life.written = proc[p].written
  BY <1>2 DEF Life
<1>5. CASE subCall[c].stage = "waiting"
  <2> DEFINE rec == [subCall[c] EXCEPT !.stage = "over", !.result = "status"]
  <2>1. subCall' = [subCall EXCEPT ![c] = rec] /\ Given(p)
    <3>1. subCall \in [SubCall -> ProviderCall]
      BY DEF SubInv, SubTypes
    <3> QED BY <1>2, <1>5, <3>1 DEF Reap
  <2>2. statuses[p] = 0 /\ statuses' = [statuses EXCEPT ![p] = 1]
    <3>1. statuses[p] = 0
      BY <1>1, <1>2 DEF SubInv, StatusOnce
    <3> HIDE DEF p
    <3> QED BY <1>2, <2>1, <3>1 DEF Given
  <2>3. /\ rec \in ProviderCall /\ rec.stage = "over" /\ rec.proc = p /\ rec.op = subCall[c].op
        /\ rec.got = subCall[c].got /\ rec.result = "status"
    BY <1>2 DEF ProviderCall
  <2>4. ASSUME rec.op = "output" PROVE rec.got = life.written
    <3>1. /\ \A s \in Streams : subCall[c].got[s] + proc[p].unread[s] = proc[p].written[s]
          /\ proc[p].unread["out"] = 0 /\ proc[p].unread["err"] = 0
      BY <1>2, <1>5, <2>3, <2>4 DEF OutputIsWhole, ReadsAll
    <3>2. /\ subCall[c].got \in [Streams -> Nat] /\ proc[p].written \in [Streams -> Nat]
      BY <1>2 DEF Life, ProviderCall
    <3>3. proc[p].unread \in [Streams -> Nat]
      BY <1>2 DEF Life
    <3>4. \A s \in Streams : subCall[c].got[s] = proc[p].written[s]
      <4> TAKE s \in Streams
      <4>1. proc[p].unread[s] = 0 /\ subCall[c].got[s] \in Nat
        BY <3>1, <3>2 DEF Streams
      <4> QED BY <3>1, <4>1
    <3>5. \A f, g \in [Streams -> Nat] : (\A s \in Streams : f[s] = g[s]) => f = g
      OBVIOUS
    <3>6. subCall[c].got = proc[p].written
      BY <3>2, <3>4, <3>5
    <3> QED BY <1>4, <2>3, <3>6
  <2> HIDE DEF rec, life
  <2> QED BY <1>1, <1>2, <1>3, <1>4, <2>1, <2>2, <2>3, <2>4, OwnerLeaves
<1>6. CASE subCall[c].stage = "reaping"
  <2> DEFINE rec == [subCall[c] EXCEPT !.stage = "over", !.result = "timeout"]
  <2>1. /\ subCall' = [subCall EXCEPT ![c] = rec] /\ UNCHANGED statuses
    BY <1>2, <1>6 DEF Reap, SubInv, SubTypes
  <2>2. statuses' = [statuses EXCEPT ![p] = statuses[p]] /\ statuses[p] \in Nat
    BY <1>2, <2>1
  <2>3. /\ rec \in ProviderCall /\ rec.stage = "over" /\ rec.proc = p /\ rec.result = "timeout"
    BY <1>2 DEF ProviderCall
  <2> HIDE DEF rec, life
  <2> QED BY <1>1, <1>2, <1>3, <1>4, <2>1, <2>2, <2>3, OwnerLeaves
<1> QED BY <1>1, <1>5, <1>6

LEMMA DropCallKeeps ==
  ASSUME SubInv, NEW c \in SubCall, DropCall(c)
  PROVE  SubInv'
<1> DEFINE p == subCall[c].proc
           life == Dropped(proc[p])
           rec == [subCall[c] EXCEPT !.stage = "over", !.result = "dropped"]
<1>1. InFlight(c)
  BY DEF DropCall
<1>2. /\ subCall[c] \in ProviderCall /\ p \in Proc /\ proc[p] \in Life /\ Lives(p)
      /\ statuses \in [Proc -> Nat] /\ proc \in [Proc -> Life]
  BY <1>1, OwnerAlone DEF SubInv, SubTypes
<1>3. /\ proc' = [proc EXCEPT ![p] = life] /\ subCall' = [subCall EXCEPT ![c] = rec]
      /\ UNCHANGED <<children, statuses>>
  BY <1>2 DEF DropCall, SubInv, SubTypes
<1>4. /\ life \in Life /\ life.state \in {"running", "exited", "reaped"}
      /\ life.state # "reaped" => ~ life.killOnDrop
  BY <1>2 DEF Dropped, Life, Lives
<1>5. /\ rec \in ProviderCall /\ rec.stage = "over" /\ rec.proc = p /\ rec.result = "dropped"
  BY <1>2 DEF ProviderCall
<1>6. statuses' = [statuses EXCEPT ![p] = statuses[p]] /\ statuses[p] \in Nat
  BY <1>2, <1>3
<1> HIDE DEF life, rec
<1> QED BY <1>1, <1>2, <1>3, <1>4, <1>5, <1>6, OwnerLeaves

\* The provider goes with its table, while no call is under way.
LEMMA DropProviderKeeps == SubInv /\ DropProvider => SubInv'
<1> SUFFICES ASSUME SubInv, DropProvider PROVE SubInv'
  OBVIOUS
<1>1. /\ children' = {} /\ UNCHANGED <<subCall, statuses>> /\ \A c \in SubCall : ~ InFlight(c)
      /\ proc' = [p \in Proc |-> IF p \in children THEN Dropped(proc[p]) ELSE proc[p]]
  BY DEF DropProvider
<1>2. ASSUME NEW p \in Proc
      PROVE  /\ proc'[p] \in Life
             /\ p \in children => proc[p].state # "reaped" /\ statuses[p] = 0
             /\ p \in children /\ proc'[p].state # "reaped" => ~ proc'[p].killOnDrop
             /\ p \notin children => proc'[p] = proc[p]
  <2>1. proc[p] \in Life /\ statuses[p] \in Nat /\ (p \in children => Lives(p))
    BY DEF SubInv, SubTypes, Ownership
  <2>2. p \in children => statuses[p] = 0
    BY <2>1 DEF SubInv, StatusOnce, Lives
  <2>3. Dropped(proc[p]) \in Life
        /\ (p \in children /\ Dropped(proc[p]).state # "reaped" => ~ Dropped(proc[p]).killOnDrop)
    BY <2>1 DEF Dropped, Life, Lives
  <2> QED BY <1>1, <2>1, <2>2, <2>3 DEF Lives
<1>3. SubTypes'
  <2>1. proc' \in [Proc -> Life]
    BY <1>1, <1>2
  <2> QED BY <1>1, <2>1 DEF SubInv, SubTypes
<1>4. \A c \in SubCall : ~ InFlight(c)' /\ \A q \in Proc : ~ Owns(c, q) /\ ~ Owns(c, q)'
  BY <1>1 DEF InFlight, Owns
<1>5. Ownership'
  <2>1. \A q \in Proc : Lives(q)' => ~ proc'[q].killOnDrop
    BY <1>2, <1>4 DEF SubInv, Ownership, Lives
  <2> QED BY <1>1, <1>4, <2>1 DEF Ownership
<1>6. StatusOnce'
  BY <1>1, <1>2 DEF SubInv, StatusOnce
<1>7. ASSUME NEW c \in SubCall PROVE OutputIsWhole(c)'
  <2>1. OutputIsWhole(c) /\ ~ InFlight(c) /\ ~ InFlight(c)' /\ subCall'[c] = subCall[c]
    BY <1>1, <1>4 DEF SubInv, OutputsAreWhole
  <2>2. /\ subCall[c].op = "output" /\ subCall[c].result = "status" => subCall[c].proc \notin children
        /\ subCall[c].result = "timeout" => subCall[c].proc \notin children
    BY <1>2, <2>1 DEF OutputIsWhole
  <2> QED BY <1>2, <2>1, <2>2 DEF OutputIsWhole, InFlight
<1> QED BY <1>3, <1>5, <1>6, <1>7 DEF SubInv, OutputsAreWhole

LEMMA SubStepKeeps == SubInv /\ (SubNext \/ UNCHANGED subVars) => SubInv'
<1>1. SubInv /\ UNCHANGED subVars => SubInv'
  BY DEF subVars, SubInv, SubTypes, Ownership, StatusOnce, OutputsAreWhole, OutputIsWhole,
         ReadsAll, Owns, InFlight, Lives
<1>2. SubInv /\ (\E c \in SubCall : CallStep(c) \/ DropCall(c)) => SubInv'
  BY ReapKeeps, TimeoutKeeps, ReadKeeps, StreamEndKeeps, DropCallKeeps DEF CallStep
<1> QED BY <1>1, <1>2, SpawnKeeps, ChildStepKeeps, BeginKeeps, DropProviderKeeps DEF SubNext

\* The two ways to own a child exclude each other, and each is taken once.
LEMMA SubInvImplies == SubInv => EveryChildHasOneOwner
<1> SUFFICES ASSUME SubInv PROVE EveryChildHasOneOwner
  OBVIOUS
<1>1. ASSUME NEW p \in Proc
      PROVE  /\ Owners(p) <= 1 /\ statuses[p] <= 1
             /\ proc[p].state \in {"running", "exited"} /\ proc[p].killOnDrop => Owners(p) = 1
  <2> DEFINE S == {c \in SubCall : InFlight(c) /\ subCall[c].proc = p}
  <2>1. \A c \in SubCall : c \in S <=> Owns(c, p)
    BY DEF Owns
  <2>2. /\ p \in children => S = {}
        /\ \A c, d \in S : c = d
        /\ Lives(p) /\ proc[p].killOnDrop => p \in children \/ S # {}
    BY <2>1 DEF SubInv, Ownership
  <2>3. Cardinality(S) = IF S = {} THEN 0 ELSE 1
    <3>1. CASE S = {}
      BY <3>1, FS_EmptySet
    <3>2. CASE S # {}
      <4>1. PICK c \in S : S = {c}
        BY <2>2, <3>2
      <4> QED BY <3>2, <4>1, FS_Singleton
    <3> QED BY <3>1, <3>2
  <2>4. Owners(p) = Cardinality(S) + IF p \in children THEN 1 ELSE 0
    BY DEF Owners
  <2> HIDE DEF S
  <2>5. Owners(p) <= 1 /\ (Lives(p) /\ proc[p].killOnDrop => Owners(p) = 1)
    BY <2>2, <2>3, <2>4
  <2> QED BY <2>5 DEF SubInv, StatusOnce, Lives
<1>2. \A c \in SubCall :
        /\ subCall[c].op = "output" /\ subCall[c].result = "status" =>
              subCall[c].got = proc[subCall[c].proc].written
        /\ subCall[c].result = "timeout" => proc[subCall[c].proc].state = "reaped"
  BY DEF SubInv, OutputsAreWhole, OutputIsWhole
<1> QED BY <1>1, <1>2 DEF EveryChildHasOneOwner

--------------------------------------------------------------------------
(* The terminals.                                                          *)

Tty == [entry : {"none", "listed", "removed"}, child : {"none", "running", "exited", "waited"},
        cached : BOOLEAN, unread : Nat, written : Nat, input : Nat]
TerminalCall ==
    [op : TermOp \cup {"none"}, term : Term \cup {NoTerm}, stage : {"idle", "queued", "holding", "over"},
     result : {"none", "HandleNotFound", "ok", "io", "code", "running"}]

TermTypes == /\ term \in [Term -> Tty] /\ termCall \in [TermCall -> TerminalCall]
             /\ mapLock \in TermCall \cup {NoTermCall}

\* An exit code is cached when the child has been waited for, after its entry
\* was made.
CodeIsCached(h) == /\ term[h].cached => term[h].child = "waited"
                   /\ term[h].entry = "none" => term[h].child = "none"

\* What a call was told stays true: exit and removal are final.
TellsTheTruth(c) ==
    LET r == termCall[c]
    IN  /\ r.op \notin {"none", "list"} => r.term \in Term /\ term[r.term].entry # "none"
        /\ r.result # "none" => r.stage = "over"
        /\ r.result = "code" => r.term \in Term /\ term[r.term].child = "waited"
        /\ r.op = "kill" /\ r.result = "ok" => term[r.term].entry = "removed"

TermInv == /\ TermTypes /\ \A h \in Term : CodeIsCached(h)
           /\ \A c \in TermCall : TellsTheTruth(c)
           /\ mapLock \in TermCall => termCall[mapLock].stage = "holding"

LEMMA TermInitInv == TermInit => TermInv
<1> SUFFICES ASSUME TermInit PROVE TermInv
  OBVIOUS
<1>1. NoTty \in Tty /\ IdleTermCall \in TerminalCall
  BY DEF NoTty, Tty, IdleTermCall, TerminalCall
<1>2. TermTypes
  BY <1>1 DEF TermInit, TermTypes
<1>3. \A h \in Term : CodeIsCached(h)
  BY DEF TermInit, CodeIsCached, NoTty
<1>4. \A c \in TermCall : TellsTheTruth(c)
  BY DEF TermInit, TellsTheTruth, IdleTermCall
<1>5. mapLock \notin TermCall
  BY TerminalsAssumption DEF TermInit
<1> QED BY <1>2, <1>3, <1>4, <1>5 DEF TermInv

\* What a step leaves of every terminal: exits and removals are final.
TerminalsGoOn ==
    /\ term' \in [Term -> Tty] /\ \A k \in Term : CodeIsCached(k)'
    /\ \A k \in Term : /\ term[k].child = "waited" => term'[k].child = "waited"
                       /\ term[k].entry = "removed" => term'[k].entry = "removed"
                       /\ term[k].entry # "none" => term'[k].entry # "none"

\* A terminal moves on.
LEMMA TerminalMoves ==
  ASSUME TermInv, NEW h \in Term, NEW t \in Tty, term' = [term EXCEPT ![h] = t],
         t.cached => t.child = "waited", t.entry # "none",
         term[h].child = "waited" => t.child = "waited",
         term[h].entry = "removed" => t.entry = "removed"
  PROVE  TerminalsGoOn
<1>1. /\ term' \in [Term -> Tty] /\ term'[h] = t
      /\ \A k \in Term : k # h => term'[k] = term[k]
  BY DEF TermInv, TermTypes
<1>2. \A k \in Term : CodeIsCached(k)'
  BY <1>1 DEF TermInv, CodeIsCached
<1> QED BY <1>1, <1>2 DEF TerminalsGoOn

\* A call moves on, while terminals do as above.
LEMMA TerminalCallMoves ==
  ASSUME TermInv, NEW c \in TermCall, NEW rec \in TerminalCall,
         termCall' = [termCall EXCEPT ![c] = rec],
         TerminalsGoOn,
         rec.op \notin {"none", "list"} => rec.term \in Term /\ term'[rec.term].entry # "none",
         rec.result # "none" => rec.stage = "over",
         rec.result = "code" => rec.term \in Term /\ term'[rec.term].child = "waited",
         rec.op = "kill" /\ rec.result = "ok" => term'[rec.term].entry = "removed",
         mapLock' \in {mapLock, c, NoTermCall},
         mapLock' = c => rec.stage = "holding"
  PROVE  TermInv'
<1>1. /\ termCall' \in [TermCall -> TerminalCall] /\ termCall'[c] = rec
      /\ \A d \in TermCall : d # c => termCall'[d] = termCall[d]
  BY DEF TermInv, TermTypes
<1>2. TermTypes'
  BY <1>1, TerminalsAssumption DEF TermInv, TermTypes, TerminalsGoOn
<1>3. ASSUME NEW d \in TermCall PROVE TellsTheTruth(d)'
  <2>1. CASE d = c
    BY <1>1, <2>1 DEF TellsTheTruth
  <2>2. CASE d # c
    BY <1>1, <2>2 DEF TermInv, TellsTheTruth, TerminalsGoOn
  <2> QED BY <2>1, <2>2
<1>4. mapLock' \in TermCall => termCall'[mapLock'].stage = "holding"
  BY <1>1, TerminalsAssumption DEF TermInv
<1> QED BY <1>2, <1>3, <1>4 DEF TermInv, TerminalsGoOn

LEMMA TerminalStepKeeps ==
  ASSUME TermInv, NEW h \in Term,
         OpenTerminal(h) \/ TermChildWrites(h) \/ TermChildReads(h) \/ TermChildExits(h)
            \/ CacheExit(h)
  PROVE  TermInv'
<1>1. /\ term[h] \in Tty /\ CodeIsCached(h) /\ UNCHANGED <<termCall, mapLock>>
      /\ term \in [Term -> Tty]
  BY DEF TermInv, TermTypes, OpenTerminal, TermChildWrites, TermChildReads, TermChildExits,
         CacheExit
<1>2. ASSUME NEW t \in Tty, term' = [term EXCEPT ![h] = t],
             t.cached => t.child = "waited", t.entry # "none",
             term[h].child = "waited" => t.child = "waited",
             term[h].entry = "removed" => t.entry = "removed"
      PROVE  TermInv'
  <2>1. TerminalsGoOn
    BY <1>2, TerminalMoves
  <2>2. \A c \in TermCall : TellsTheTruth(c)'
    BY <1>1, <2>1 DEF TermInv, TellsTheTruth, TerminalsGoOn
  <2> QED BY <1>1, <2>1, <2>2 DEF TermInv, TermTypes, TerminalsGoOn
<1>3. CASE OpenTerminal(h)
  <2> DEFINE t == [term[h] EXCEPT !.entry = "listed", !.child = "running"]
  <2>1. /\ t \in Tty /\ term' = [term EXCEPT ![h] = t] /\ ~ t.cached /\ t.entry = "listed"
        /\ term[h].child = "none" /\ term[h].entry = "none"
    BY <1>1, <1>3 DEF OpenTerminal, Tty, CodeIsCached
  <2> QED BY <1>2, <2>1
<1>4. CASE TermChildWrites(h)
  <2> DEFINE t == [term[h] EXCEPT !.unread = @ + 1, !.written = @ + 1]
  <2>1. /\ t \in Tty /\ term' = [term EXCEPT ![h] = t] /\ t.cached = term[h].cached
        /\ t.entry = term[h].entry /\ t.child = term[h].child /\ term[h].child = "running"
    BY <1>1, <1>4 DEF TermChildWrites, Tty
  <2> QED BY <1>1, <1>2, <2>1 DEF CodeIsCached
<1>5. CASE TermChildReads(h)
  <2> DEFINE t == [term[h] EXCEPT !.input = @ - 1]
  <2>1. /\ t \in Tty /\ term' = [term EXCEPT ![h] = t] /\ t.cached = term[h].cached
        /\ t.entry = term[h].entry /\ t.child = term[h].child /\ term[h].child = "running"
    BY <1>1, <1>5 DEF TermChildReads, Tty
  <2> QED BY <1>1, <1>2, <2>1 DEF CodeIsCached
<1>6. CASE TermChildExits(h)
  <2> DEFINE t == [term[h] EXCEPT !.child = "exited"]
  <2>1. /\ t \in Tty /\ term' = [term EXCEPT ![h] = t] /\ t.cached = term[h].cached
        /\ t.entry = term[h].entry /\ term[h].child = "running"
    BY <1>1, <1>6 DEF TermChildExits, Tty
  <2> QED BY <1>1, <1>2, <2>1 DEF CodeIsCached
<1>7. CASE CacheExit(h)
  <2> DEFINE t == [term[h] EXCEPT !.child = "waited", !.cached = Listed(h)]
  <2>1. /\ t \in Tty /\ term' = [term EXCEPT ![h] = t] /\ t.child = "waited"
        /\ t.entry = term[h].entry /\ term[h].child = "exited"
    BY <1>1, <1>7 DEF CacheExit, Tty, Listed
  <2> QED BY <1>1, <1>2, <2>1 DEF CodeIsCached
<1> QED BY <1>3, <1>4, <1>5, <1>6, <1>7

\* A terminal that is left as it is.
LEMMA TerminalStays ==
  ASSUME TermInv, UNCHANGED term
  PROVE  TerminalsGoOn
BY DEF TermInv, TermTypes, CodeIsCached, TerminalsGoOn

\* A call that ends with a result that says nothing of the future.
LEMMA FinishKeeps ==
  ASSUME TermInv, NEW c \in TermCall,
         NEW told \in {"HandleNotFound", "ok", "io", "code", "running"}, Finish(c, told),
         TerminalsGoOn,
         told = "code" => termCall[c].term \in Term /\ term'[termCall[c].term].child = "waited",
         termCall[c].op = "kill" /\ told = "ok" => term'[termCall[c].term].entry = "removed",
         mapLock' = NoTermCall \/ (mapLock' = mapLock /\ mapLock # c)
  PROVE  TermInv'
<1> DEFINE rec == [termCall[c] EXCEPT !.stage = "over", !.result = told]
<1>1. termCall[c] \in TerminalCall /\ TellsTheTruth(c)
  BY DEF TermInv, TermTypes
<1>2. termCall' = [termCall EXCEPT ![c] = rec]
  BY DEF Finish, TermInv, TermTypes
<1>3. /\ rec \in TerminalCall /\ rec.stage = "over" /\ rec.result = told
      /\ rec.op = termCall[c].op /\ rec.term = termCall[c].term
  BY <1>1 DEF TerminalCall
<1>4. rec.op \notin {"none", "list"} => rec.term \in Term /\ term'[rec.term].entry # "none"
  BY <1>1, <1>3 DEF TellsTheTruth, TerminalsGoOn
<1>5. mapLock' \in {mapLock, c, NoTermCall} /\ (mapLock' = c => rec.stage = "holding")
  BY TerminalsAssumption
<1> HIDE DEF rec
<1> QED BY <1>2, <1>3, <1>4, <1>5, TerminalCallMoves

LEMMA LockTableKeeps ==
  ASSUME TermInv, NEW c \in TermCall, LockTable(c)
  PROVE  TermInv'
<1>1. termCall[c] \in TerminalCall /\ TellsTheTruth(c) /\ UNCHANGED term
      /\ termCall[c].stage = "queued" /\ mapLock = NoTermCall
  BY DEF TermInv, TermTypes, LockTable, LockFree
<1>2. CASE Finish(c, "HandleNotFound") /\ UNCHANGED mapLock
  BY <1>1, <1>2, TerminalStays, FinishKeeps
<1>3. CASE termCall' = [termCall EXCEPT ![c].stage = "holding"] /\ mapLock' = c
  <2> DEFINE rec == [termCall[c] EXCEPT !.stage = "holding"]
  <2>1. termCall' = [termCall EXCEPT ![c] = rec]
    BY <1>3 DEF TermInv, TermTypes
  <2>2. /\ rec \in TerminalCall /\ rec.stage = "holding" /\ rec.result = "none"
        /\ rec.op = termCall[c].op /\ rec.term = termCall[c].term
    BY <1>1 DEF TerminalCall, TellsTheTruth
  <2>3. rec.op \notin {"none", "list"} => rec.term \in Term /\ term'[rec.term].entry # "none"
    BY <1>1, <2>2 DEF TellsTheTruth
  <2> HIDE DEF rec
  <2> QED BY <1>1, <1>3, <2>1, <2>2, <2>3, TerminalStays, TerminalCallMoves
<1> QED BY <1>2, <1>3 DEF LockTable

LEMMA CallTerminalKeeps ==
  ASSUME TermInv, NEW c \in TermCall, CallTerminal(c)
  PROVE  TermInv'
<1>1. PICK op \in TermOp, h \in Term \cup {NoTerm} :
        /\ IF op = "list" THEN h = NoTerm ELSE h # NoTerm /\ term[h].entry # "none"
        /\ termCall' = [termCall EXCEPT ![c] = [IdleTermCall EXCEPT !.op = op, !.term = h,
                                                                    !.stage = "queued"]]
  BY DEF CallTerminal
<1> DEFINE rec == [IdleTermCall EXCEPT !.op = op, !.term = h, !.stage = "queued"]
<1>2. /\ rec \in TerminalCall /\ rec.op = op /\ rec.term = h /\ rec.result = "none"
      /\ rec.stage = "queued"
  BY DEF IdleTermCall, TerminalCall
<1>3. op \notin {"none", "list"} => h \in Term /\ term[h].entry # "none"
  BY <1>1
<1>4. UNCHANGED <<term, mapLock>> /\ termCall[c].stage = "idle" /\ mapLock # c
  BY DEF CallTerminal, TermInv
<1>5. termCall' = [termCall EXCEPT ![c] = rec]
  BY <1>1
<1> HIDE DEF rec
<1> QED BY <1>2, <1>3, <1>4, <1>5, TerminalStays, TerminalCallMoves

\* The operations that hold the table: their terminal exists.
LEMMA HolderKeeps ==
  ASSUME TermInv, NEW c \in TermCall,
         ReadReturns(c) \/ WriteReturns(c) \/ KillReturns(c) \/ ListReturns(c) \/ TryWaitReturns(c)
  PROVE  TermInv'
<1> DEFINE h == termCall[c].term
<1>1. /\ TellsTheTruth(c) /\ mapLock' = NoTermCall /\ term \in [Term -> Tty]
      /\ \A k \in Term : CodeIsCached(k)
  BY DEF TermInv, TermTypes, ReadReturns, WriteReturns, KillReturns, ListReturns,
         TryWaitReturns, Release
<1>2. CASE ListReturns(c)
  BY <1>1, <1>2, TerminalStays, FinishKeeps DEF ListReturns, Release, Held
<1>3. CASE TryWaitReturns(c)
  <2>1. h \in Term /\ UNCHANGED term /\ termCall[c].op = "try_wait"
    BY <1>1, <1>3 DEF TryWaitReturns, TellsTheTruth, Held
  <2>2. Finish(c, IF term[h].cached THEN "code" ELSE "running")
    BY <1>3 DEF TryWaitReturns, Release
  <2>3. term[h].cached => term'[h].child = "waited"
    BY <1>1, <2>1 DEF CodeIsCached
  <2>4. CASE term[h].cached
    BY <1>1, <2>1, <2>2, <2>3, <2>4, TerminalStays, FinishKeeps
  <2>5. CASE ~ term[h].cached
    BY <1>1, <2>1, <2>2, <2>5, TerminalStays, FinishKeeps
  <2> QED BY <2>4, <2>5
<1>4. CASE ReadReturns(c)
  <2> DEFINE t == [term[h] EXCEPT !.unread = 0]
  <2>1. h \in Term /\ termCall[c].op = "read" /\ term[h].entry # "none" /\ Finish(c, "ok")
    BY <1>1, <1>4 DEF ReadReturns, TellsTheTruth, Held, Release
  <2>2. /\ term[h] \in Tty /\ (term[h].unread > 0 \/ ChildGone(h))
        /\ term' = [term EXCEPT ![h] = t]
    BY <1>1, <1>4, <2>1 DEF ReadReturns
  <2>3. t \in Tty /\ t.cached = term[h].cached /\ t.entry = term[h].entry /\ t.child = term[h].child
    BY <2>2 DEF Tty
  <2> HIDE DEF t
  <2>4. TerminalsGoOn
    BY <1>1, <2>1, <2>2, <2>3, TerminalMoves DEF CodeIsCached
  <2> QED BY <1>1, <2>1, <2>4, FinishKeeps
<1>5. CASE WriteReturns(c)
  <2>1. h \in Term /\ termCall[c].op = "write" /\ term[h].entry # "none" /\ term[h] \in Tty
    BY <1>1, <1>5 DEF WriteReturns, TellsTheTruth, Held
  <2>2. CASE UNCHANGED term /\ Release(c, "io")
    BY <1>1, <2>1, <2>2, TerminalStays, FinishKeeps DEF Release
  <2>3. CASE term' = [term EXCEPT ![h].input = @ + 1] /\ Release(c, "ok")
    <3> DEFINE t == [term[h] EXCEPT !.input = @ + 1]
    <3>1. term' = [term EXCEPT ![h] = t] /\ Finish(c, "ok")
      BY <1>1, <2>1, <2>3 DEF Release
    <3>2. t \in Tty /\ t.cached = term[h].cached /\ t.entry = term[h].entry /\ t.child = term[h].child
      BY <2>1 DEF Tty
    <3> HIDE DEF t
    <3>3. TerminalsGoOn
      BY <1>1, <2>1, <3>1, <3>2, TerminalMoves DEF CodeIsCached
    <3> QED BY <1>1, <2>1, <3>1, <3>3, FinishKeeps
  <2> QED BY <1>5, <2>2, <2>3 DEF WriteReturns
<1>6. CASE KillReturns(c)
  <2>1. /\ h \in Term /\ termCall[c].op = "kill" /\ term[h].entry # "none" /\ term[h] \in Tty
        /\ Finish(c, "ok")
    BY <1>1, <1>6 DEF KillReturns, TellsTheTruth, Held, Release
  <2>2. PICK ignores \in BOOLEAN :
           term' = [term EXCEPT ![h].entry = "removed",
                                ![h].child = IF @ = "running" /\ ~ ignores THEN "exited" ELSE @]
    BY <1>6 DEF KillReturns
  <2> DEFINE t == [term[h] EXCEPT !.entry = "removed",
                                  !.child = IF @ = "running" /\ ~ ignores THEN "exited" ELSE @]
  <2>3. term' = [term EXCEPT ![h] = t]
    BY <1>1, <2>1, <2>2
  <2>4. /\ t \in Tty /\ t.cached = term[h].cached /\ t.entry = "removed"
        /\ term[h].child = "waited" => t.child = "waited"
    BY <2>1 DEF Tty
  <2> HIDE DEF t
  <2>5. TerminalsGoOn /\ term'[h].entry = "removed"
    BY <1>1, <2>1, <2>3, <2>4, TerminalMoves DEF CodeIsCached
  <2> QED BY <1>1, <2>1, <2>5, FinishKeeps
<1> QED BY <1>2, <1>3, <1>4, <1>5, <1>6

LEMMA TermStepKeeps == TermInv /\ (TermNext \/ UNCHANGED termVars) => TermInv'
<1>1. TermInv /\ UNCHANGED termVars => TermInv'
  BY DEF termVars, TermInv, TermTypes, CodeIsCached, TellsTheTruth
<1>2. TermInv /\ (\E c \in TermCall : TermCallStep(c)) => TermInv'
  BY LockTableKeeps, HolderKeeps DEF TermCallStep
<1> QED BY <1>1, <1>2, CallTerminalKeeps, TerminalStepKeeps DEF TermNext

LEMMA TermInvImplies == TermInv => ExitCodesAreReal
BY DEF TermInv, CodeIsCached, TellsTheTruth, ExitCodesAreReal, ChildGone

--------------------------------------------------------------------------
(* The host's processes.                                                   *)

ProcessInv == SubInv /\ TermInv

\* Whatever calls spawn, wait, read, kill, time out and are dropped: a child
\* that has not been reaped has one owner, its status is given once, an output
\* holds all the child wrote, and exit codes are of terminals that ended.
THEOREM ChildrenStayAccountedFor == HostSpec => []ChildrenAreAccountedFor
<1>1. HostInit => ProcessInv
  BY SubInitInv, TermInitInv DEF HostInit, ProcessInv
<1>2. ProcessInv /\ [HostNext]_hostVars => ProcessInv'
  <2> SUFFICES ASSUME ProcessInv, [HostNext]_hostVars PROVE ProcessInv'
    OBVIOUS
  <2>1. (SubNext \/ UNCHANGED subVars) /\ (TermNext \/ UNCHANGED termVars)
    BY DEF HostNext, hostVars
  <2> QED BY <2>1, SubStepKeeps, TermStepKeeps DEF ProcessInv
<1>3. ProcessInv => ChildrenAreAccountedFor
  BY SubInvImplies, TermInvImplies DEF ProcessInv, ChildrenAreAccountedFor
<1> QED BY <1>1, <1>2, <1>3, PTL DEF HostSpec
==========================================================================
