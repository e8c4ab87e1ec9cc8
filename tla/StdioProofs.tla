--------------------------- MODULE StdioProofs ---------------------------
(* For any number of children, calls, respawns and shutdowns: the clients  *)
(* keep their types, and the DSH adapter orphans no child and misreads an  *)
(* answer only after a call was given up, never by more than there were.   *)
EXTENDS StdioRpc, FiniteSetTheorems, SequenceTheorems, TLAPS

Stages == {"idle", "locking", "reading", "done", "backoff", "spawned", "installed",
           "spawning", "stdin", "stdout", "writing", "holding"}

Types ==
  /\ RpcTypeOK
  /\ stage \in [Call -> Stages]
  /\ lock \in Call \cup {NoCall}
  /\ reborn \in [Call -> Child \cup {NoChild}]
  /\ started \in [Call -> Child \cup {NoChild}]
  /\ kind \in {"dsh", "lsp"}
  /\ \A c \in Call : result[c] # "none" => stage[c] = "done"

\* The adapter reads from the child it writes to, one call at a time, and
\* knows only children that were spawned.
ClientInv ==
  /\ stdin \in Child /\ stdout = stdin /\ child[stdin] # "unborn"
  /\ slot \in Child => child[slot] # "unborn"
  /\ \A c \in Call : (lock = c) <=> (stage[c] = "reading")
  /\ \A c \in Call : stage[c] \in {"spawned", "installed"} =>
                        c \in Respawner /\ reborn[c] \in Child /\ child[reborn[c]] # "unborn"
  /\ \A c \in Call : stage[c] # "holding"
  /\ \A c \in Call : stage[c] = "backoff" => c \in Respawner
  /\ \A k \in late : child[k] # "unborn"

\* Pipes hold what was written to a live child, and on a child without a
\* call given up nothing but the request or the answer of the lock's holder.
PipesInv ==
  \A k \in Child :
    /\ child[k] # "live" => inPipe[k] = << >>
    /\ child[k] = "unborn" => outPipe[k] = << >>
    /\ k \notin late =>
         /\ Len(inPipe[k]) + Len(outPipe[k]) <= 1
         /\ inPipe[k] # << >> => lock # NoCall /\ k = stdin /\ Head(inPipe[k]) = lock
         /\ outPipe[k] # << >> => lock # NoCall /\ k = stdin /\ Head(outPipe[k]) = lock

DshInv == kind = "dsh" => ClientInv /\ PipesInv /\ NoChildIsOrphaned

IInv == Types /\ DshInv

LEMMA InitIInv == Init => IInv
<1> SUFFICES ASSUME Init PROVE IInv
  OBVIOUS
<1>1. (CHOOSE k \in Child : TRUE) \in Child
  BY StdioAssumption
<1>2. Types
  BY <1>1, StdioAssumption
     DEF Init, DshInit, LspInit, Types, RpcTypeOK, Stages, Result
<1>3. ASSUME kind = "dsh" PROVE ClientInv /\ PipesInv /\ NoChildIsOrphaned
  BY <1>1, <1>3, StdioAssumption
     DEF Init, DshInit, ClientInv, PipesInv, NoChildIsOrphaned, InHand
<1> QED BY <1>2, <1>3 DEF IInv, DshInv

\* A child spawned anew is one that was not.
LEMMA FreshIsUnborn == Unborn # {} => Fresh \in Child /\ child[Fresh] = "unborn"
BY DEF Unborn, Fresh

(* The types, action by action. *)

LEMMA ServerTypes ==
  ASSUME Types, NEW k \in Child, Server(Answer(k)) \/ Server(Dies(k))
  PROVE  Types'
<1> USE DEF Types, RpcTypeOK, Server, dshOwn, lspOwn
<1>1. CASE Server(Answer(k))
  <2>1. /\ Head(inPipe[k]) \in Call
        /\ Tail(inPipe[k]) \in Seq(Call)
    BY <1>1 DEF Answer
  <2>2. Append(outPipe[k], Head(inPipe[k])) \in Seq(Call)
    BY <2>1
  <2> QED BY <1>1, <2>1, <2>2 DEF Answer
<1>2. CASE Server(Dies(k))
  BY <1>2 DEF Dies, Kill
<1> QED BY <1>1, <1>2

LEMMA EndTypes ==
  ASSUME Types, NEW c \in Call, NEW how \in Result, End(c, how)
  PROVE  /\ stage' \in [Call -> Stages]
         /\ result' \in [Call -> Result]
         /\ lock' \in Call \cup {NoCall}
         /\ lock' # NoCall => lock' = lock /\ stage'[lock'] \in {"reading", "holding"}
         /\ \A d \in Call : result'[d] # "none" => stage'[d] = "done"
BY StdioAssumption DEF Types, RpcTypeOK, End, Stages

\* A pipe that is written to.
LEMMA SendTypes ==
  ASSUME NEW f \in [Child -> Seq(Call)], NEW k, NEW c \in Call
  PROVE  [f EXCEPT ![k] = Append(f[k], c)] \in [Child -> Seq(Call)]
<1>1. k \in Child => Append(f[k], c) \in Seq(Call)
  OBVIOUS
<1> QED BY <1>1

\* A call that goes on to another stage, keeping its result and the lock.
LEMMA MoveTypes ==
  ASSUME Types, NEW c \in Call, NEW s \in Stages,
         stage' = [stage EXCEPT ![c] = s], UNCHANGED <<result, lock>>,
         stage[c] \notin {"reading", "holding", "done"}
  PROVE  /\ stage' \in [Call -> Stages]
         /\ lock' # NoCall => stage'[lock'] \in {"reading", "holding"}
         /\ \A d \in Call : result'[d] # "none" => stage'[d] = "done"
BY DEF Types, RpcTypeOK

LEMMA CountsAreNumbers ==
  ASSUME Types, NEW c \in Call, NEW how
  PROVE  CountsAfter(c, how) \subseteq Nat
BY DEF Types, RpcTypeOK, CountsAfter

LEMMA QuitTypes ==
  ASSUME Types, NEW c \in Call, NEW how \in Result, Quit(c, how)
  PROVE  late' \subseteq Child
BY DEF Types, RpcTypeOK, Quit

LEMMA DshTypes ==
  ASSUME Types, NEW c \in Call, Dsh(DshStep(c))
  PROVE  Types'
<1> USE DEF Types, RpcTypeOK, Dsh, dshOwn, lspOwn, childVars
<1>0. {"none", "ok", "mismatch", "error", "timeout", "dropped"} = Result
  BY DEF Result
<1>1. CASE DshBegin(c)
  BY <1>1, StdioAssumption DEF DshBegin, Stages
<1>2. CASE DshWrite(c)
  <2>1. CASE child[stdin] = "live"
    <3>1. /\ stage[c] = "locking" /\ lock = NoCall /\ lock' = c
          /\ stage' = [stage EXCEPT ![c] = "reading"]
          /\ UNCHANGED <<child, outPipe, slot, stdin, stdout, late, reborn, result, failures>>
      BY <1>2, <2>1 DEF DshWrite, Hold
    <3>2. inPipe' = [inPipe EXCEPT ![stdin] = Append(inPipe[stdin], c)]
      BY <1>2, <2>1 DEF DshWrite, Send
    <3>3. inPipe' \in [Child -> Seq(Call)]
      BY <3>2, SendTypes
    <3> QED BY <3>1, <3>3 DEF Stages
  <2>2. CASE child[stdin] # "live"
    BY <1>0, <1>2, <2>2, EndTypes, CountsAreNumbers DEF DshWrite
  <2> QED BY <2>1, <2>2
<1>3. CASE DshRead(c)
  <2>1. stdout \in Child => Tail(outPipe[stdout]) \in Seq(Call)
    BY <1>3 DEF DshRead
  <2>2. Matches(c, Head(outPipe[stdout])) \in Result
    BY <1>0 DEF Matches
  <2> QED BY <1>3, <2>1, <2>2, EndTypes, CountsAreNumbers DEF DshRead, Consume
<1>4. CASE DshEof(c)
  BY <1>0, <1>4, EndTypes, CountsAreNumbers DEF DshEof
<1>5. CASE DshExpire(c)
  BY <1>0, <1>5, EndTypes, QuitTypes DEF DshExpire, Quit
<1>6. CASE DshDrop(c)
  BY <1>0, <1>6, EndTypes, QuitTypes DEF DshDrop, Quit, Kill
<1>7. CASE Respawn(c)
  <2>1. CASE failures >= MaxRespawn
    BY <1>0, <1>7, <2>1, EndTypes DEF Respawn
  <2>2. CASE ~ (failures >= MaxRespawn)
    BY <1>7, <2>2 DEF Respawn, Stages
  <2> QED BY <2>1, <2>2
<1>8. CASE SpawnChild(c)
  <2>1. CASE End(c, "error") /\ UNCHANGED <<child, reborn>>
    BY <1>0, <1>8, <2>1, EndTypes DEF SpawnChild
  <2>2. CASE ~ (End(c, "error") /\ UNCHANGED <<child, reborn>>)
    <3>1. /\ Fresh \in Child
          /\ child' = [child EXCEPT ![Fresh] = "live"]
          /\ reborn' = [reborn EXCEPT ![c] = Fresh]
          /\ stage[c] = "backoff" /\ stage' = [stage EXCEPT ![c] = "spawned"]
          /\ UNCHANGED <<result, lock>>
      BY <1>8, <2>2, FreshIsUnborn DEF SpawnChild
    <3>2. "spawned" \in Stages
      BY DEF Stages
    <3> QED BY <1>8, <3>1, <3>2, MoveTypes DEF SpawnChild
  <2> QED BY <2>1, <2>2
<1>9. CASE InstallClient(c)
  BY <1>9 DEF InstallClient, Stages
<1>10. CASE ReplaceChild(c)
  BY <1>10 DEF ReplaceChild, Kill, Stages
<1>11. CASE CloseChild(c)
  BY <1>11 DEF CloseChild, Kill
<1> QED
  BY <1>1, <1>2, <1>3, <1>4, <1>5, <1>6, <1>7, <1>8, <1>9, <1>10, <1>11
     DEF DshStep, DshMoves

LEMMA LspTypes ==
  ASSUME Types, NEW c \in Call, Lsp(LspStep(c))
  PROVE  Types'
<1> USE DEF Types, RpcTypeOK, Lsp, dshOwn, lspOwn, childVars
<1>0. {"none", "ok", "mismatch", "error", "timeout", "dropped"} = Result
  BY DEF Result
<1>1. CASE LspBegin(c)
  BY <1>1 DEF LspBegin, Stages
<1>2. CASE LspSpawn(c)
  <2>1. CASE End(c, "error") /\ UNCHANGED <<child, started, slot>>
    BY <1>0, <1>2, <2>1, EndTypes DEF LspSpawn
  <2>2. CASE ~ (End(c, "error") /\ UNCHANGED <<child, started, slot>>)
    <3>1. /\ Fresh \in Child
          /\ child' = [child EXCEPT ![Fresh] = "live"]
          /\ started' = [started EXCEPT ![c] = Fresh] /\ slot' = Fresh
          /\ stage[c] = "spawning" /\ stage' = [stage EXCEPT ![c] = "stdin"]
          /\ UNCHANGED <<result, lock>>
      BY <1>2, <2>2, FreshIsUnborn DEF LspSpawn
    <3>2. "stdin" \in Stages
      BY DEF Stages
    <3> QED BY <1>2, <3>1, <3>2, MoveTypes DEF LspSpawn
  <2> QED BY <2>1, <2>2
<1>3. CASE LspSetStdin(c)
  BY <1>3 DEF LspSetStdin, Stages
<1>4. CASE LspSetStdout(c)
  BY <1>4 DEF LspSetStdout, Stages
<1>5. CASE LspWrite(c)
  <2>1. CASE End(c, "error") /\ UNCHANGED inPipe
    BY <1>0, <1>5, <2>1, EndTypes DEF LspWrite
  <2>2. CASE ~ (End(c, "error") /\ UNCHANGED inPipe)
    <3>1. /\ inPipe' = [inPipe EXCEPT ![stdin] = Append(inPipe[stdin], c)]
          /\ stage[c] = "writing" /\ stage' = [stage EXCEPT ![c] = "reading"]
          /\ UNCHANGED <<child, outPipe, slot, stdin, stdout, late, lspOwn, result, lock>>
      BY <1>5, <2>2 DEF LspWrite, Send
    <3>2. inPipe' \in [Child -> Seq(Call)]
      BY <3>1, SendTypes
    <3>3. "reading" \in Stages
      BY DEF Stages
    <3> QED BY <3>1, <3>2, <3>3, MoveTypes
  <2> QED BY <2>1, <2>2
<1>6. CASE LspLock(c)
  <2>1. CASE stdout = NoChild
    BY <1>0, <1>6, <2>1, EndTypes DEF LspLock
  <2>2. CASE stdout # NoChild
    BY <1>6, <2>2, StdioAssumption DEF LspLock, Hold, Stages
  <2> QED BY <2>1, <2>2
<1>7. CASE LspRead(c)
  <2>1. stdout \in Child => Tail(outPipe[stdout]) \in Seq(Call)
    BY <1>7 DEF LspRead
  <2>2. outPipe' \in [Child -> Seq(Call)]
    BY <1>7, <2>1 DEF LspRead, Consume
  <2>3. CASE End(c, "ok")
    BY <1>0, <1>7, <2>2, <2>3, EndTypes DEF LspRead
  <2>4. CASE UNCHANGED <<stage, result, lock>>
    BY <1>7, <2>2, <2>4 DEF LspRead
  <2> QED BY <1>7, <2>3, <2>4 DEF LspRead
<1>8. CASE LspEof(c)
  BY <1>0, <1>8, EndTypes DEF LspEof
<1>9. CASE LspExpire(c)
  BY <1>0, <1>9, EndTypes, QuitTypes DEF LspExpire, Quit
<1>10. CASE LspDrop(c)
  BY <1>0, <1>10, EndTypes, QuitTypes DEF LspDrop, Quit
<1> QED
  BY <1>1, <1>2, <1>3, <1>4, <1>5, <1>6, <1>7, <1>8, <1>9, <1>10
     DEF LspStep, LspMoves

LEMMA LspCloseTypes ==
  ASSUME Types, Lsp(LspKill) \/ Lsp(LspForget)
  PROVE  Types'
<1> USE DEF Types, RpcTypeOK, Lsp, dshOwn, childVars
<1>1. CASE Lsp(LspKill)
  <2>1. child' \in [Child -> {"unborn", "live", "dead"}] /\ inPipe' \in [Child -> Seq(Call)]
    BY <1>1 DEF LspKill, Kill
  <2> QED BY <1>1, <2>1 DEF LspKill
<1>2. CASE Lsp(LspForget)
  BY <1>2 DEF LspForget
<1> QED BY <1>1, <1>2

LEMMA NextTypes == Types /\ [Next]_vars => Types'
<1> SUFFICES ASSUME Types, [Next]_vars PROVE Types'
  OBVIOUS
<1>1. CASE UNCHANGED vars
  BY <1>1 DEF Types, RpcTypeOK, vars, rpcVars, dshOwn, lspOwn
<1> QED
  BY <1>1, ServerTypes, DshTypes, LspTypes, LspCloseTypes, StdioAssumption DEF Next

LEMMA TypesInvariant == Spec => []Types
<1>1. Init => Types
  BY InitIInv DEF IInv
<1> QED BY <1>1, NextTypes, PTL DEF Spec

\* Both clients: pipes carry requests, handles are children, and the lock is
\* held by a call that reads, through respawns, shutdowns and drops.
THEOREM StdioTypeCorrect == Spec => []RpcTypeOK
<1>1. Types => RpcTypeOK
  BY DEF Types
<1> QED BY <1>1, TypesInvariant, PTL

(* The adapter's invariant, action by action. *)

DshKept == ClientInv' /\ PipesInv' /\ NoChildIsOrphaned'

\* The child moves an answer from one pipe to the other, or dies.
LEMMA AnswerKeeps ==
  ASSUME IInv, kind = "dsh", NEW k \in Child, Server(Answer(k))
  PROVE  DshKept
<1> USE DEF IInv, DshInv, Types, RpcTypeOK, Server, Answer, dshOwn, lspOwn
<1>1. ClientInv'
  BY DEF ClientInv
<1>2. ASSUME NEW j \in Child, j # k PROVE inPipe'[j] = inPipe[j] /\ outPipe'[j] = outPipe[j]
  BY <1>2
<1>3. /\ inPipe'[k] = Tail(inPipe[k]) /\ outPipe'[k] = Append(outPipe[k], Head(inPipe[k]))
      /\ Len(inPipe[k]) > 0 /\ Len(inPipe'[k]) = Len(inPipe[k]) - 1
      /\ Len(outPipe'[k]) = Len(outPipe[k]) + 1
  OBVIOUS
<1>4. ASSUME k \notin late
      PROVE  /\ Len(inPipe'[k]) + Len(outPipe'[k]) <= 1
             /\ inPipe'[k] = << >> /\ Head(outPipe'[k]) = lock /\ lock # NoCall /\ k = stdin
  <2>1. Len(inPipe[k]) = 1 /\ Len(outPipe[k]) = 0
    BY <1>3, <1>4 DEF PipesInv
  <2>2. outPipe[k] = << >> /\ Head(inPipe[k]) = lock /\ lock # NoCall /\ k = stdin
    BY <1>3, <1>4, <2>1 DEF PipesInv
  <2>3. Head(outPipe'[k]) = Head(inPipe[k])
    BY <1>3, <2>2
  <2> QED BY <1>3, <2>1, <2>2, <2>3
<1>5. PipesInv'
  BY <1>2, <1>3, <1>4 DEF PipesInv
<1>6. NoChildIsOrphaned'
  BY DEF NoChildIsOrphaned, InHand
<1> QED BY <1>1, <1>5, <1>6 DEF DshKept

\* A child stays in a respawn's hand while that respawn does not move on.
LEMMA InHandStays ==
  ASSUME NEW k, InHand(k), reborn' = reborn,
         \A d \in Respawner : stage[d] \in {"spawned", "installed"} => stage'[d] = stage[d]
  PROVE  InHand(k)'
BY DEF InHand

\* Killing children empties what they had still to read.
LEMMA KillKeepsPipes ==
  ASSUME IInv, kind = "dsh", NEW S, Kill(S), \A k \in S : k \in Child => child[k] # "unborn",
         UNCHANGED <<outPipe, stdin>>, late \subseteq late',
         \A k \in Child \ late' : outPipe[k] # << >> \/ inPipe[k] # << >> => lock' = lock
  PROVE  /\ PipesInv'
         /\ \A k \in Child : child'[k] = "unborn" <=> child[k] = "unborn"
         /\ \A k \in Child : child'[k] = "live" <=> child[k] = "live" /\ k \notin S
<1> USE DEF IInv, DshInv, Types, RpcTypeOK, Kill
<1>1. \A k \in Child : inPipe'[k] = inPipe[k] \/ inPipe'[k] = << >>
  OBVIOUS
<1>2. \A k \in Child : /\ child'[k] = "unborn" <=> child[k] = "unborn"
                       /\ child'[k] = "live" <=> child[k] = "live" /\ k \notin S
  <2> SUFFICES ASSUME NEW k \in Child
               PROVE  /\ child'[k] = "unborn" <=> child[k] = "unborn"
                      /\ child'[k] = "live" <=> child[k] = "live" /\ k \notin S
    OBVIOUS
  <2>1. child'[k] = IF k \in S THEN "dead" ELSE child[k]
    OBVIOUS
  <2>2. k \in S => child[k] # "unborn"
    OBVIOUS
  <2> QED BY <2>1, <2>2
<1>3. ASSUME NEW k \in Child, child'[k] # "live" PROVE inPipe'[k] = << >>
  BY <1>3 DEF PipesInv
<1>4. \A k \in Child : /\ Len(inPipe'[k]) <= Len(inPipe[k]) /\ Len(inPipe'[k]) \in Nat
                       /\ Len(inPipe[k]) \in Nat /\ Len(outPipe[k]) \in Nat
  BY <1>1
<1>5. ASSUME NEW k \in Child, k \notin late'
      PROVE  /\ Len(inPipe'[k]) + Len(outPipe'[k]) <= 1
             /\ inPipe'[k] # << >> => lock' # NoCall /\ k = stdin' /\ Head(inPipe'[k]) = lock'
             /\ outPipe'[k] # << >> => lock' # NoCall /\ k = stdin' /\ Head(outPipe'[k]) = lock'
  BY <1>1, <1>4, <1>5 DEF PipesInv
<1> QED BY <1>2, <1>3, <1>5 DEF PipesInv

LEMMA DiesKeeps ==
  ASSUME IInv, kind = "dsh", NEW k \in Child, Server(Dies(k))
  PROVE  DshKept
<1> USE DEF IInv, DshInv, Types, RpcTypeOK, Server, Dies, dshOwn, lspOwn
<1>1. /\ PipesInv'
      /\ \A j \in Child : child'[j] = "unborn" <=> child[j] = "unborn"
      /\ \A j \in Child : child'[j] = "live" <=> child[j] = "live" /\ j \notin {k}
  BY KillKeepsPipes
<1>2. ClientInv'
  BY <1>1 DEF ClientInv
<1>3. NoChildIsOrphaned'
  BY <1>1 DEF NoChildIsOrphaned, InHand
<1> QED BY <1>1, <1>2, <1>3 DEF DshKept

\* A step of one call that leaves the children and their pipes alone.
LEMMA QuietKeeps ==
  ASSUME IInv, kind = "dsh", UNCHANGED <<childVars, slot, stdin, stdout, kind>>,
         late \subseteq late', late' \subseteq late \cup {stdin},
         \A k \in Child \ late' : outPipe[k] # << >> \/ inPipe[k] # << >> => lock' = lock,
         \A d \in Call : (lock' = d) <=> (stage'[d] = "reading"),
         \A d \in Call : /\ stage'[d] # "holding" /\ (stage'[d] = "backoff" => d \in Respawner)
                         /\ (stage[d] \in {"spawned", "installed"}) =
                            (stage'[d] \in {"spawned", "installed"}),
         reborn' = reborn
  PROVE  DshKept
<1> USE DEF IInv, DshInv, Types, RpcTypeOK, childVars
<1>1. child' = child /\ slot' = slot /\ stdin' = stdin /\ stdout' = stdout /\ kind' = kind
  OBVIOUS
<1>2. ClientInv'
  <2>1. \A k \in late' : child'[k] # "unborn"
    BY <1>1 DEF ClientInv
  <2>2. \A c \in Call : stage'[c] \in {"spawned", "installed"} =>
          c \in Respawner /\ reborn'[c] \in Child /\ child'[reborn'[c]] # "unborn"
    BY <1>1 DEF ClientInv
  <2> QED BY <1>1, <2>1, <2>2 DEF ClientInv
<1>3. PipesInv'
  BY <1>1 DEF PipesInv
<1>4. NoChildIsOrphaned'
  <2>1. \A k \in Child : InHand(k) => InHand(k)'
    BY <1>1, StdioAssumption DEF InHand
  <2> QED BY <1>1, <2>1 DEF NoChildIsOrphaned
<1> QED BY <1>2, <1>3, <1>4 DEF DshKept

LEMMA BeginKeeps ==
  ASSUME IInv, kind = "dsh", NEW c \in Call, Dsh(DshBegin(c)) \/ Dsh(Respawn(c))
  PROVE  DshKept
<1> USE DEF IInv, DshInv, Types, RpcTypeOK, Dsh, childVars, dshOwn
<1>1. /\ lock' = lock /\ late' = late /\ stage[c] = "idle" /\ lock # c
      /\ UNCHANGED <<childVars, slot, stdin, stdout, kind, reborn>>
      /\ \/ stage' = [stage EXCEPT ![c] = "locking"]
         \/ stage' = [stage EXCEPT ![c] = "done"]
         \/ stage' = [stage EXCEPT ![c] = "backoff"] /\ c \in Respawner
  BY DEF DshBegin, Respawn, End, ClientInv
<1>2. \A d \in Call : (lock' = d) <=> (stage'[d] = "reading")
  BY <1>1 DEF ClientInv
<1>3. \A d \in Call : /\ stage'[d] # "holding" /\ (stage'[d] = "backoff" => d \in Respawner)
                      /\ (stage[d] \in {"spawned", "installed"}) =
                         (stage'[d] \in {"spawned", "installed"})
  BY <1>1 DEF ClientInv
<1> QED BY <1>1, <1>2, <1>3, QuietKeeps

\* A call that ends without having been given an answer.
LEMMA EndKeeps ==
  ASSUME IInv, kind = "dsh", NEW c \in Call,
         (Dsh(DshWrite(c)) /\ child[stdin] # "live") \/ Dsh(DshEof(c)) \/ Dsh(DshExpire(c))
  PROVE  DshKept
<1> USE DEF IInv, DshInv, Types, RpcTypeOK, Dsh, childVars, dshOwn
<1>1. /\ stage[c] \in {"locking", "reading"}
      /\ lock' = (IF lock = c THEN NoCall ELSE lock)
      /\ stage' = [stage EXCEPT ![c] = "done"]
      /\ UNCHANGED <<childVars, slot, stdin, stdout, kind, reborn>>
  BY DEF DshWrite, DshEof, DshExpire, Quit, End
<1>2. late \subseteq late' /\ late' \subseteq late \cup {stdin}
  BY DEF DshWrite, DshEof, DshExpire, Quit
<1>3. \A d \in Call : (lock' = d) <=> (stage'[d] = "reading")
  BY <1>1, StdioAssumption DEF ClientInv
<1>4. \A d \in Call : /\ stage'[d] # "holding" /\ (stage'[d] = "backoff" => d \in Respawner)
                      /\ (stage[d] \in {"spawned", "installed"}) =
                         (stage'[d] \in {"spawned", "installed"})
  BY <1>1 DEF ClientInv
<1>5. ASSUME NEW k \in Child \ late', outPipe[k] # << >> \/ inPipe[k] # << >>
      PROVE  lock' = lock
  <2>1. lock # NoCall /\ k = stdin
    BY <1>2, <1>5 DEF PipesInv
  <2>2. CASE Dsh(DshWrite(c))
    BY <2>1, <2>2 DEF DshWrite
  <2>3. CASE Dsh(DshEof(c))
    BY <1>5, <2>1, <2>3 DEF DshEof, AtEof, ClientInv, PipesInv
  <2>4. CASE Dsh(DshExpire(c))
    BY <1>5, <2>1, <2>4 DEF DshExpire, Quit, ClientInv
  <2> QED BY <2>2, <2>3, <2>4
<1> QED BY <1>1, <1>2, <1>3, <1>4, <1>5, QuietKeeps

LEMMA WriteKeeps ==
  ASSUME IInv, kind = "dsh", NEW c \in Call, Dsh(DshWrite(c)), child[stdin] = "live"
  PROVE  DshKept
<1> USE DEF IInv, DshInv, Types, RpcTypeOK, Dsh, dshOwn
<1>1. /\ stage[c] = "locking" /\ lock = NoCall /\ lock' = c
      /\ stage' = [stage EXCEPT ![c] = "reading"]
      /\ inPipe' = [inPipe EXCEPT ![stdin] = Append(inPipe[stdin], c)]
      /\ UNCHANGED <<child, outPipe, slot, stdin, stdout, late, reborn, kind>>
  BY DEF DshWrite, Hold, Send
<1>2. ClientInv'
  BY <1>1, StdioAssumption DEF ClientInv
<1>3. PipesInv'
  <2>1. \A k \in Child : k # stdin => inPipe'[k] = inPipe[k]
    BY <1>1
  <2>2. inPipe'[stdin] = Append(inPipe[stdin], c)
    BY <1>1 DEF ClientInv
  <2>3. \A k \in Child \ late : inPipe[k] = << >> /\ outPipe[k] = << >>
    BY <1>1 DEF PipesInv
  <2>4. stdin \notin late =>
          Len(inPipe'[stdin]) = 1 /\ Head(inPipe'[stdin]) = c /\ Len(outPipe[stdin]) = 0
    BY <2>2, <2>3 DEF ClientInv
  <2> QED BY <1>1, <2>1, <2>3, <2>4, StdioAssumption DEF PipesInv
<1>4. NoChildIsOrphaned'
  BY <1>1, InHandStays, StdioAssumption DEF NoChildIsOrphaned
<1> QED BY <1>2, <1>3, <1>4 DEF DshKept

LEMMA LastAnswer ==
  ASSUME NEW p \in Seq(Call), NEW q \in Seq(Call), q # << >>, Len(p) + Len(q) <= 1
  PROVE  p = << >> /\ Tail(q) = << >>
<1>1. Len(p) \in Nat /\ Len(q) \in Nat \ {0}
  BY EmptySeq
<1>2. Len(p) = 0 /\ Len(q) = 1
  <2>1. \A a, b \in Nat : b # 0 /\ a + b <= 1 => a = 0 /\ b = 1
    OBVIOUS
  <2> QED BY <1>1, <2>1
<1>3. Tail(q) \in Seq(Call) /\ Len(Tail(q)) = 0
  BY <1>2, HeadTailProperties
<1> QED BY <1>2, <1>3, EmptySeq

LEMMA ReadKeeps ==
  ASSUME IInv, kind = "dsh", NEW c \in Call, Dsh(DshRead(c))
  PROVE  DshKept
<1> USE DEF IInv, DshInv, Types, RpcTypeOK, Dsh, dshOwn
<1>1. /\ stage[c] = "reading" /\ lock = c /\ lock' = NoCall
      /\ stage' = [stage EXCEPT ![c] = "done"]
      /\ outPipe[stdin] # << >>
      /\ outPipe' = [outPipe EXCEPT ![stdin] = Tail(outPipe[stdin])]
      /\ UNCHANGED <<child, inPipe, slot, stdin, stdout, late, reborn, kind>>
  BY DEF DshRead, End, Consume, ClientInv
<1>2. ClientInv'
  BY <1>1, StdioAssumption DEF ClientInv
<1>3. PipesInv'
  <2>1. \A k \in Child : k # stdin => outPipe'[k] = outPipe[k]
    BY <1>1
  <2>2. outPipe'[stdin] = Tail(outPipe[stdin]) /\ Len(outPipe[stdin]) > 0
    BY <1>1 DEF ClientInv
  <2>3. \A k \in Child \ late : k # stdin => inPipe[k] = << >> /\ outPipe[k] = << >>
    BY <1>1 DEF PipesInv
  <2>4. stdin \in Child /\ inPipe[stdin] \in Seq(Call) /\ outPipe[stdin] \in Seq(Call)
    BY DEF ClientInv
  <2>5. ASSUME stdin \notin late PROVE inPipe[stdin] = << >> /\ outPipe'[stdin] = << >>
    <3>1. Len(inPipe[stdin]) + Len(outPipe[stdin]) <= 1
      BY <2>4, <2>5 DEF PipesInv
    <3> QED BY <1>1, <2>2, <2>4, <3>1, LastAnswer
  <2>6. child[stdin] # "unborn" /\ \A k \in Child : child'[k] = "unborn" => outPipe'[k] = << >>
    BY <1>1, <2>1 DEF ClientInv, PipesInv
  <2> QED BY <1>1, <2>1, <2>3, <2>5, <2>6 DEF PipesInv
<1>4. NoChildIsOrphaned'
  BY <1>1, InHandStays, StdioAssumption DEF NoChildIsOrphaned
<1> QED BY <1>2, <1>3, <1>4 DEF DshKept

LEMMA DropKeeps ==
  ASSUME IInv, kind = "dsh", NEW c \in Call, Dsh(DshDrop(c))
  PROVE  DshKept
<1> USE DEF IInv, DshInv, Types, RpcTypeOK, Dsh, dshOwn
<1> DEFINE S == IF stage[c] \in {"spawned", "installed"} THEN {reborn[c]} ELSE {}
<1>1. /\ stage[c] \notin {"idle", "done"}
      /\ lock' = (IF lock = c THEN NoCall ELSE lock)
      /\ stage' = [stage EXCEPT ![c] = "done"]
      /\ late' = IF stage[c] = "reading" THEN late \cup {stdin} ELSE late
      /\ UNCHANGED <<outPipe, slot, stdin, stdout, reborn, kind>>
      /\ Kill(S)
  BY DEF DshDrop, Quit, End, ClientInv
<1>2. \A k \in S : k \in Child /\ child[k] # "unborn"
  BY DEF ClientInv
<1> HIDE DEF S
<1>3. \A k \in Child \ late' : outPipe[k] # << >> \/ inPipe[k] # << >> => lock' = lock
  BY <1>1 DEF PipesInv, ClientInv
<1>4. /\ PipesInv'
      /\ \A k \in Child : child'[k] = "unborn" <=> child[k] = "unborn"
      /\ \A k \in Child : child'[k] = "live" <=> child[k] = "live" /\ k \notin S
  BY <1>1, <1>2, <1>3, KillKeepsPipes
<1>5. ClientInv'
  BY <1>1, <1>4, StdioAssumption DEF ClientInv
<1>6. NoChildIsOrphaned'
  <2> SUFFICES ASSUME NEW k \in Child, child'[k] = "live", k # slot
               PROVE  InHand(k)'
    BY <1>1 DEF NoChildIsOrphaned
  <2>1. InHand(k) /\ k \notin S
    BY <1>4 DEF NoChildIsOrphaned
  <2>2. PICK d \in Respawner : reborn[d] = k /\ stage[d] \in {"spawned", "installed"}
    BY <2>1 DEF InHand
  <2>3. d # c
    BY <2>1, <2>2 DEF S
  <2> QED BY <1>1, <2>2, <2>3, StdioAssumption DEF InHand
<1> QED BY <1>4, <1>5, <1>6 DEF DshKept

LEMMA SpawnKeeps ==
  ASSUME IInv, kind = "dsh", NEW c \in Call, Dsh(SpawnChild(c))
  PROVE  DshKept
<1> USE DEF IInv, DshInv, Types, RpcTypeOK, Dsh, dshOwn
<1>1. CASE End(c, "error") /\ UNCHANGED <<child, reborn>>
  <2>1. /\ lock' = lock /\ late' = late /\ stage[c] = "backoff" /\ lock # c
        /\ UNCHANGED <<childVars, slot, stdin, stdout, kind, reborn>>
        /\ stage' = [stage EXCEPT ![c] = "done"]
    BY <1>1 DEF SpawnChild, End, ClientInv, childVars
  <2>2. \A d \in Call : (lock' = d) <=> (stage'[d] = "reading")
    BY <2>1 DEF ClientInv
  <2>3. \A d \in Call : /\ stage'[d] # "holding" /\ (stage'[d] = "backoff" => d \in Respawner)
                        /\ (stage[d] \in {"spawned", "installed"}) =
                           (stage'[d] \in {"spawned", "installed"})
    BY <2>1 DEF ClientInv
  <2> QED BY <2>1, <2>2, <2>3, QuietKeeps
<1>2. CASE ~ (End(c, "error") /\ UNCHANGED <<child, reborn>>)
  <2>1. /\ Fresh \in Child /\ child[Fresh] = "unborn"
        /\ child' = [child EXCEPT ![Fresh] = "live"]
        /\ reborn' = [reborn EXCEPT ![c] = Fresh]
        /\ stage[c] = "backoff" /\ stage' = [stage EXCEPT ![c] = "spawned"]
        /\ UNCHANGED <<inPipe, outPipe, slot, stdin, stdout, late, lock, kind>>
    BY <1>2, FreshIsUnborn DEF SpawnChild
  <2>2. ClientInv'
    BY <2>1 DEF ClientInv
  <2>3. PipesInv'
    BY <2>1 DEF PipesInv, ClientInv
  <2>4. NoChildIsOrphaned'
    <3> SUFFICES ASSUME NEW k \in Child, child'[k] = "live", k # slot
                 PROVE  InHand(k)'
      BY <2>1 DEF NoChildIsOrphaned
    <3>1. CASE k = Fresh
      <4>1. c \in Respawner
        BY <2>1 DEF ClientInv
      <4> QED BY <2>1, <3>1, <4>1 DEF InHand
    <3>2. CASE k # Fresh
      <4>1. PICK d \in Respawner : reborn[d] = k /\ stage[d] \in {"spawned", "installed"}
        BY <2>1, <3>2 DEF NoChildIsOrphaned, InHand
      <4> QED BY <2>1, <4>1, StdioAssumption DEF InHand
    <3> QED BY <3>1, <3>2
  <2> QED BY <2>2, <2>3, <2>4 DEF DshKept
<1> QED BY <1>1, <1>2

LEMMA InstallKeeps ==
  ASSUME IInv, kind = "dsh", NEW c \in Call, Dsh(InstallClient(c))
  PROVE  DshKept
<1> USE DEF IInv, DshInv, Types, RpcTypeOK, Dsh, dshOwn, childVars
<1>1. /\ stage[c] = "spawned" /\ stage' = [stage EXCEPT ![c] = "installed"]
      /\ lock = NoCall /\ stdin' = reborn[c] /\ stdout' = reborn[c]
      /\ UNCHANGED <<childVars, slot, lock, late, reborn, kind>>
  BY DEF InstallClient
<1>2. ClientInv'
  BY <1>1 DEF ClientInv
<1>3. PipesInv'
  BY <1>1 DEF PipesInv
<1>4. NoChildIsOrphaned'
  BY <1>1, StdioAssumption DEF NoChildIsOrphaned, InHand
<1> QED BY <1>2, <1>3, <1>4 DEF DshKept

\* The slot's child is killed, whatever takes its place.
LEMMA ReplaceKeeps ==
  ASSUME IInv, kind = "dsh", NEW c \in Call, Dsh(ReplaceChild(c)) \/ Dsh(CloseChild(c))
  PROVE  DshKept
<1> USE DEF IInv, DshInv, Types, RpcTypeOK, Dsh, dshOwn
<1>1. /\ Kill({slot})
      /\ \/ stage[c] = "installed" /\ stage' = [stage EXCEPT ![c] = "locking"] /\ slot' = reborn[c]
         \/ stage' = stage /\ slot' = NoChild
      /\ UNCHANGED <<outPipe, stdin, stdout, lock, late, reborn, kind>>
  BY DEF ReplaceChild, CloseChild
<1>2. /\ PipesInv'
      /\ \A k \in Child : child'[k] = "unborn" <=> child[k] = "unborn"
      /\ \A k \in Child : child'[k] = "live" <=> child[k] = "live" /\ k \notin {slot}
  BY <1>1, KillKeepsPipes DEF ClientInv
<1>3. ClientInv'
  BY <1>1, <1>2, StdioAssumption DEF ClientInv
<1>4. NoChildIsOrphaned'
  <2> SUFFICES ASSUME NEW k \in Child, child'[k] = "live", k # slot'
               PROVE  InHand(k)'
    BY <1>1 DEF NoChildIsOrphaned
  <2>1. PICK d \in Respawner : reborn[d] = k /\ stage[d] \in {"spawned", "installed"}
    BY <1>2 DEF NoChildIsOrphaned, InHand
  <2> QED BY <1>1, <2>1, StdioAssumption DEF InHand
<1> QED BY <1>2, <1>3, <1>4 DEF DshKept

\* Steps of the LSP client do not concern the adapter.
LEMMA NextIInv == IInv /\ [Next]_vars => IInv'
<1> SUFFICES ASSUME IInv, [Next]_vars PROVE IInv'
  OBVIOUS
<1>1. Types'
  BY NextTypes DEF IInv
<1>2. kind' = kind
  BY DEF Next, Server, Dsh, Lsp, vars
<1>3. ASSUME kind = "dsh" PROVE DshKept
  <2>1. CASE UNCHANGED vars
    BY <1>3, <2>1
       DEF vars, rpcVars, dshOwn, IInv, DshInv, DshKept, ClientInv, PipesInv, NoChildIsOrphaned, InHand
  <2>2. CASE \E k \in Child : Server(Answer(k)) \/ Server(Dies(k))
    BY <1>3, <2>2, AnswerKeeps, DiesKeeps
  <2>3. ASSUME NEW c \in Call, Dsh(DshStep(c)) PROVE DshKept
    BY <1>3, <2>3, BeginKeeps, EndKeeps, WriteKeeps, ReadKeeps, DropKeeps, SpawnKeeps,
       InstallKeeps, ReplaceKeeps DEF Dsh, DshStep, DshMoves
  <2> QED BY <1>3, <2>1, <2>2, <2>3 DEF Next, Lsp
<1> QED BY <1>1, <1>2, <1>3 DEF IInv, DshInv, DshKept

LEMMA StdioInvariant == Spec => []IInv
BY InitIInv, NextIInv, PTL DEF Spec

\* However many respawns, shutdowns and drops interleave, no child runs that
\* neither the adapter nor a respawn on its way owns (respawn.rs, lib.rs).
THEOREM NoOrphans == Spec => []NoChildIsOrphaned
<1>1. IInv => NoChildIsOrphaned
  BY DEF IInv, DshInv, NoChildIsOrphaned
<1> QED BY <1>1, StdioInvariant, PTL

\* An answer with another's id is met only on a child on which an earlier
\* call was given up: on every other, the pipes hold the reader's own.
THEOREM MismatchHasACause == Spec => MismatchNeedsAGivenUpCall
<1>1. ASSUME IInv, [Next]_vars
      PROVE  [\A c \in Call :
                 result'[c] = "mismatch" /\ result[c] # "mismatch" => stdout \in late]_vars
  <2> SUFFICES ASSUME NEW c \in Call, Next, result'[c] = "mismatch", result[c] # "mismatch"
               PROVE  stdout \in late
    BY <1>1
  <2> USE DEF IInv, Types, RpcTypeOK
  <2>1. PICK d \in Call : Dsh(DshRead(d)) /\ result' = [result EXCEPT ![d] = Matches(d, Head(outPipe[stdout]))]
    <3>1. ASSUME NEW d \in Call, Dsh(DshStep(d)) PROVE Dsh(DshRead(d))
      BY <1>1, <3>1
         DEF Dsh, DshStep, DshMoves, DshBegin, DshWrite, DshEof, DshExpire, DshDrop, Respawn,
             SpawnChild, InstallClient, ReplaceChild, CloseChild, Quit, End
    <3>2. ASSUME NEW d \in Call, Lsp(LspStep(d)) PROVE FALSE
      BY <1>1, <3>2
         DEF Lsp, LspStep, LspMoves, LspBegin, LspSpawn, LspSetStdin, LspSetStdout, LspWrite,
             LspLock, LspRead, LspEof, LspExpire, LspDrop, Quit, End
    <3>3. \E d \in Call : Dsh(DshRead(d))
      BY <1>1, <3>1, <3>2, StdioAssumption
         DEF Next, Server, Answer, Dies, Lsp, LspKill, LspForget
    <3> QED BY <3>3 DEF Dsh, DshRead, End
  <2>2. ClientInv /\ PipesInv /\ lock = d /\ outPipe[stdout] # << >>
    BY <1>1, <2>1 DEF Dsh, DshRead, DshInv, ClientInv
  <2>3. Head(outPipe[stdout]) # d
    BY <2>1, StdioAssumption DEF Matches
  <2> QED BY <2>2, <2>3 DEF ClientInv, PipesInv
<1> QED BY <1>1, StdioInvariant, PTL DEF Spec, MismatchNeedsAGivenUpCall

(* How far answers and requests may be shifted. *)

Unread(k) == Len(inPipe[k]) + Len(outPipe[k])
Reader(k) == IF lock # NoCall /\ k = stdin THEN 1 ELSE 0

\* Calls given up are counted once each.
LEMMA GivenUpCount == IsFiniteSet(GivenUp) /\ Cardinality(GivenUp) \in Nat
BY FS_Subset, FS_CardinalityType, StdioAssumption DEF GivenUp

LEMMA GivenUpStays ==
  ASSUME Types, \/ result' = result
                \/ \E c \in Call, how \in {"ok", "mismatch", "error"} :
                      stage[c] # "done" /\ result' = [result EXCEPT ![c] = how]
  PROVE  GivenUp' = GivenUp
<1>1. CASE result' = result
  BY <1>1 DEF GivenUp
<1>2. ASSUME NEW c \in Call, NEW how \in {"ok", "mismatch", "error"},
             stage[c] # "done", result' = [result EXCEPT ![c] = how]
      PROVE  GivenUp' = GivenUp
  <2>1. result[c] = "none" /\ \A d \in Call : d # c => result'[d] = result[d]
    BY <1>2 DEF Types, RpcTypeOK
  <2>2. result'[c] = how
    BY <1>2 DEF Types, RpcTypeOK
  <2> QED BY <2>1, <2>2 DEF GivenUp
<1> QED BY <1>1, <1>2

LEMMA GivenUpGrows ==
  ASSUME Types, NEW c \in Call, stage[c] # "done",
         NEW how \in {"timeout", "dropped"}, result' = [result EXCEPT ![c] = how]
  PROVE  Cardinality(GivenUp') = Cardinality(GivenUp) + 1
<1>1. result[c] = "none" /\ result'[c] = how /\ \A d \in Call : d # c => result'[d] = result[d]
  BY DEF Types, RpcTypeOK
<1>2. c \notin GivenUp /\ GivenUp' = GivenUp \cup {c}
  BY <1>1 DEF GivenUp
<1> QED BY <1>2, GivenUpCount, FS_AddElement

\* No child's backlog may grow by more than the excuses for it.
LEMMA BacklogKeeps ==
  ASSUME Types, Types', kind' = kind, ShiftedOnlyByGivenUpCalls,
         kind = "dsh" => \A k \in Child :
            \/ Unread(k)' = 0
            \/ Unread(k)' + Reader(k) + Cardinality(GivenUp) <=
                 Unread(k) + Reader(k)' + Cardinality(GivenUp')
  PROVE  ShiftedOnlyByGivenUpCalls'
<1>1. /\ Cardinality(GivenUp) \in Nat /\ Cardinality(GivenUp') \in Nat
      /\ \A k \in Child : Reader(k) \in {0, 1} /\ Reader(k)' \in {0, 1}
      /\ \A k \in Child : Unread(k) \in Nat /\ Unread(k)' \in Nat
  <2>1. Cardinality(GivenUp) \in Nat
    BY GivenUpCount
  <2>2. Cardinality(GivenUp') \in Nat
    BY FS_Subset, FS_CardinalityType, StdioAssumption DEF GivenUp
  <2>3. \A k \in Child : Reader(k) \in {0, 1} /\ Reader(k)' \in {0, 1}
    BY DEF Reader
  <2>4. \A k \in Child : /\ inPipe[k] \in Seq(Call) /\ outPipe[k] \in Seq(Call)
                         /\ inPipe'[k] \in Seq(Call) /\ outPipe'[k] \in Seq(Call)
    BY DEF Types, RpcTypeOK
  <2>5. \A p, q \in Seq(Call) : Len(p) + Len(q) \in Nat
    OBVIOUS
  <2>6. \A k \in Child : Unread(k) \in Nat /\ Unread(k)' \in Nat
    BY <2>4, <2>5 DEF Unread
  <2> QED BY <2>1, <2>2, <2>3, <2>6
<1>2. ShiftedOnlyByGivenUpCalls <=>
        (kind = "dsh" => \A k \in Child : Unread(k) <= Cardinality(GivenUp) + Reader(k))
  BY DEF ShiftedOnlyByGivenUpCalls, Unread, Reader
<1>3. ShiftedOnlyByGivenUpCalls' <=>
        (kind' = "dsh" => \A k \in Child : Unread(k)' <= Cardinality(GivenUp') + Reader(k)')
  BY DEF ShiftedOnlyByGivenUpCalls, Unread, Reader
<1> HIDE DEF ShiftedOnlyByGivenUpCalls, Unread, Reader
<1>4. \A u, v, r, s, m, n \in Nat : u <= m + r /\ (v = 0 \/ v + r + m <= u + s + n) => v <= n + s
  OBVIOUS
<1>5. ASSUME NEW k \in Child, kind = "dsh"
      PROVE  Unread(k)' <= Cardinality(GivenUp') + Reader(k)'
  BY <1>1, <1>2, <1>4, <1>5
<1> QED BY <1>3, <1>5

\* A step that writes to no pipe, keeps the lock and gives up no call.
LEMMA ResultStep ==
  ASSUME IInv, kind = "dsh", NEW c \in Call, Dsh(DshStep(c)),
         ~ (stage[c] = "locking" /\ lock = NoCall), stage[c] # "reading",
         result'[c] # "dropped"
  PROVE  GivenUp' = GivenUp /\ lock' = lock /\ outPipe' = outPipe
<1> USE DEF IInv, Types, RpcTypeOK, Dsh, childVars
<1>1. lock # c
  BY DEF DshInv, ClientInv
<1>2. CASE DshBegin(c) \/ InstallClient(c) \/ ReplaceChild(c) \/ CloseChild(c)
  BY <1>2, GivenUpStays DEF DshBegin, InstallClient, ReplaceChild, CloseChild
<1>3. CASE Respawn(c)
  BY <1>1, <1>3, GivenUpStays DEF Respawn, End
<1>4. CASE SpawnChild(c)
  BY <1>1, <1>4, GivenUpStays DEF SpawnChild, End
<1>5. CASE DshWrite(c) \/ DshRead(c) \/ DshEof(c) \/ DshExpire(c)
  BY <1>5 DEF DshWrite, DshRead, DshEof, DshExpire
<1>6. CASE DshDrop(c)
  BY <1>6 DEF DshDrop, Quit, End
<1> QED BY <1>2, <1>3, <1>4, <1>5, <1>6 DEF DshStep, DshMoves

Backlog(k) ==
  \/ Unread(k)' = 0
  \/ Unread(k)' + Reader(k) + Cardinality(GivenUp) <= Unread(k) + Reader(k)' + Cardinality(GivenUp')

\* A pipe that is killed or left alone has no more in it than before.
LEMMA Shrinks ==
  ASSUME IInv, IInv', outPipe' = outPipe, NEW k \in Child,
         inPipe'[k] = inPipe[k] \/ inPipe'[k] = << >>
  PROVE  Unread(k)' <= Unread(k) /\ Unread(k) \in Nat /\ Unread(k)' \in Nat
<1>1. inPipe[k] \in Seq(Call) /\ inPipe'[k] \in Seq(Call) /\ outPipe[k] \in Seq(Call)
  BY DEF IInv, Types, RpcTypeOK
<1>2. \A p, q, o \in Seq(Call) : q = p \/ q = << >> =>
        Len(q) + Len(o) <= Len(p) + Len(o) /\ Len(q) + Len(o) \in Nat /\ Len(p) + Len(o) \in Nat
  OBVIOUS
<1> QED BY <1>1, <1>2 DEF Unread

LEMMA ServerBacklog ==
  ASSUME IInv, IInv', kind = "dsh", NEW j \in Child, Server(Answer(j)) \/ Server(Dies(j)),
         NEW k \in Child
  PROVE  Backlog(k)
<1>1. Cardinality(GivenUp) \in Nat /\ GivenUp' = GivenUp /\ Reader(k)' = Reader(k) /\ Reader(k) \in Nat
  BY GivenUpCount, GivenUpStays DEF IInv, Server, Answer, Dies, Reader
<1>2. Unread(k)' <= Unread(k) /\ Unread(k) \in Nat /\ Unread(k)' \in Nat
  <2>1. CASE Server(Dies(j))
    <3>1. outPipe' = outPipe /\ (inPipe'[k] = inPipe[k] \/ inPipe'[k] = << >>)
      BY <2>1 DEF Server, Dies, Kill
    <3> QED BY <3>1, Shrinks
  <2>2. CASE Server(Answer(j)) /\ k # j
    <3>1. inPipe'[k] = inPipe[k] /\ outPipe'[k] = outPipe[k]
      BY <2>2 DEF Server, Answer, IInv, Types, RpcTypeOK
    <3>2. inPipe[k] \in Seq(Call) /\ outPipe[k] \in Seq(Call)
      BY DEF IInv, Types, RpcTypeOK
    <3>3. Unread(k)' = Unread(k)
      BY <3>1 DEF Unread
    <3>4. \A p, q \in Seq(Call) : Len(p) + Len(q) \in Nat
      OBVIOUS
    <3>5. Unread(k) \in Nat
      BY <3>2, <3>4 DEF Unread
    <3> QED BY <3>3, <3>5
  <2>3. CASE Server(Answer(j)) /\ k = j
    <3>1. /\ inPipe[k] # << >> /\ inPipe'[k] = Tail(inPipe[k])
          /\ outPipe'[k] = Append(outPipe[k], Head(inPipe[k]))
          /\ inPipe[k] \in Seq(Call) /\ outPipe[k] \in Seq(Call)
      BY <2>3 DEF Server, Answer, IInv, Types, RpcTypeOK
    <3>2. \A p, q \in Seq(Call) : p # << >> =>
            /\ Len(Tail(p)) + Len(Append(q, Head(p))) = Len(p) + Len(q)
            /\ Len(p) + Len(q) \in Nat
      OBVIOUS
    <3>3. Unread(k)' = Unread(k) /\ Unread(k) \in Nat
      BY <3>1, <3>2 DEF Unread
    <3> QED BY <3>3
  <2> QED BY <2>1, <2>2, <2>3
<1> QED BY <1>1, <1>2 DEF Backlog

LEMMA WriteBacklog ==
  ASSUME IInv, IInv', kind = "dsh", NEW c \in Call, Dsh(DshWrite(c)), NEW k \in Child
  PROVE  Backlog(k)
<1>1. GivenUp' = GivenUp /\ Cardinality(GivenUp) \in Nat
  BY GivenUpStays, GivenUpCount DEF IInv, Dsh, DshWrite, End
<1>2. inPipe[k] \in Seq(Call) /\ outPipe[k] \in Seq(Call) /\ inPipe \in [Child -> Seq(Call)]
  BY DEF IInv, Types, RpcTypeOK
<1>3. lock = NoCall /\ outPipe' = outPipe /\ stdin' = stdin /\ Reader(k) = 0
  BY DEF Dsh, DshWrite, Reader
<1>4. CASE child[stdin] = "live"
  <2>1. lock' = c /\ lock' # NoCall /\ inPipe' = [inPipe EXCEPT ![stdin] = Append(inPipe[stdin], c)]
    BY <1>4, StdioAssumption DEF Dsh, DshWrite, Hold, Send
  <2>2. CASE k = stdin
    <3>1. inPipe'[k] = Append(inPipe[k], c) /\ Reader(k)' = 1
      BY <1>2, <1>3, <2>1, <2>2 DEF Reader
    <3>2. \A p, q \in Seq(Call) : Len(Append(p, c)) + Len(q) = Len(p) + Len(q) + 1 /\ Len(p) + Len(q) \in Nat
      OBVIOUS
    <3>3. Unread(k)' = Unread(k) + 1 /\ Unread(k) \in Nat
      BY <1>2, <1>3, <3>1, <3>2 DEF Unread
    <3> QED BY <1>1, <1>3, <3>1, <3>3 DEF Backlog
  <2>3. CASE k # stdin
    <3>1. inPipe'[k] = inPipe[k] /\ Reader(k)' = 0
      BY <1>2, <1>3, <2>1, <2>3 DEF Reader
    <3> QED BY <1>1, <1>3, <3>1, Shrinks DEF Backlog
  <2> QED BY <2>2, <2>3
<1>5. CASE child[stdin] # "live"
  <2>1. lock' = NoCall /\ inPipe' = inPipe
    BY <1>3, <1>5 DEF Dsh, DshWrite, End
  <2>2. Reader(k)' = 0
    BY <2>1 DEF Reader
  <2> QED BY <1>1, <1>3, <2>1, <2>2, Shrinks DEF Backlog
<1> QED BY <1>4, <1>5

\* A reader takes one answer, or finds both pipes of a dead child empty.
LEMMA ReadBacklog ==
  ASSUME IInv, IInv', kind = "dsh", NEW c \in Call, Dsh(DshRead(c)) \/ Dsh(DshEof(c)), NEW k \in Child
  PROVE  Backlog(k)
<1>1. GivenUp' = GivenUp /\ Cardinality(GivenUp) \in Nat
  BY GivenUpStays, GivenUpCount DEF IInv, Dsh, DshRead, DshEof, End, Matches
<1>2. inPipe[k] \in Seq(Call) /\ outPipe[k] \in Seq(Call) /\ outPipe \in [Child -> Seq(Call)]
  BY DEF IInv, Types, RpcTypeOK
<1>3. /\ inPipe' = inPipe /\ stdin' = stdin /\ stdout = stdin
      /\ lock = c /\ lock' = NoCall /\ Reader(k)' = 0
  BY DEF Dsh, DshRead, DshEof, End, Reader, IInv, DshInv, ClientInv, childVars
<1>4. CASE Dsh(DshRead(c))
  <2>1. outPipe[stdin] # << >> /\ outPipe' = [outPipe EXCEPT ![stdin] = Tail(outPipe[stdin])]
    BY <1>3, <1>4 DEF Dsh, DshRead, Consume
  <2>2. CASE k = stdin
    <3>1. outPipe'[k] = Tail(outPipe[k]) /\ outPipe[k] # << >> /\ Reader(k) = 1
      BY <1>2, <1>3, <2>1, <2>2, StdioAssumption DEF Reader
    <3>2. \A p, q \in Seq(Call) : q # << >> =>
            Len(p) + Len(Tail(q)) + 1 = Len(p) + Len(q) /\ Len(p) + Len(Tail(q)) \in Nat
      OBVIOUS
    <3>3. Unread(k)' + 1 = Unread(k) /\ Unread(k)' \in Nat
      BY <1>2, <1>3, <3>1, <3>2 DEF Unread
    <3> QED BY <1>1, <1>3, <3>1, <3>3 DEF Backlog
  <2>3. CASE k # stdin
    <3>1. outPipe'[k] = outPipe[k] /\ Reader(k) = 0
      BY <1>2, <2>1, <2>3 DEF Reader
    <3>2. Unread(k)' = Unread(k) /\ Unread(k) \in Nat
      BY <1>2, <1>3, <3>1 DEF Unread
    <3> QED BY <1>1, <1>3, <3>1, <3>2 DEF Backlog
  <2> QED BY <2>2, <2>3
<1>5. CASE Dsh(DshEof(c))
  <2>1. outPipe' = outPipe
    BY <1>5 DEF Dsh, DshEof, childVars
  <2>2. CASE k = stdin
    <3>1. inPipe[k] = << >> /\ outPipe[k] = << >>
      BY <1>3, <1>5, <2>2 DEF Dsh, DshEof, AtEof, IInv, DshInv, PipesInv
    <3> QED BY <1>3, <2>1, <3>1 DEF Backlog, Unread
  <2>3. CASE k # stdin
    <3>1. Reader(k) = 0
      BY <2>3 DEF Reader
    <3> QED BY <1>1, <1>3, <2>1, <3>1, Shrinks DEF Backlog
  <2> QED BY <2>2, <2>3
<1> QED BY <1>4, <1>5

\* Whoever is given up pays for the answer it may leave.
LEMMA GiveUpBacklog ==
  ASSUME IInv, IInv', kind = "dsh", NEW c \in Call, Dsh(DshExpire(c)) \/ Dsh(DshDrop(c)), NEW k \in Child
  PROVE  Backlog(k)
<1>1. Cardinality(GivenUp') = Cardinality(GivenUp) + 1 /\ Cardinality(GivenUp) \in Nat
  BY GivenUpGrows, GivenUpCount DEF IInv, Dsh, DshExpire, DshDrop, Quit, End
<1>2. outPipe' = outPipe /\ (inPipe'[k] = inPipe[k] \/ inPipe'[k] = << >>)
  BY DEF Dsh, DshExpire, DshDrop, Kill, childVars
<1>3. Reader(k) \in {0, 1} /\ Reader(k)' \in {0, 1}
  BY DEF Reader
<1>4. Unread(k)' <= Unread(k) /\ Unread(k) \in Nat /\ Unread(k)' \in Nat
  BY <1>2, Shrinks
<1> QED BY <1>1, <1>3, <1>4 DEF Backlog

LEMMA OtherBacklog ==
  ASSUME IInv, IInv', kind = "dsh", NEW c \in Call, Dsh(DshStep(c)), NEW k \in Child,
         DshBegin(c) \/ Respawn(c) \/ SpawnChild(c) \/ InstallClient(c) \/ ReplaceChild(c) \/ CloseChild(c)
  PROVE  Backlog(k)
<1>1. GivenUp' = GivenUp /\ lock' = lock /\ outPipe' = outPipe
  BY ResultStep
     DEF DshBegin, Respawn, SpawnChild, InstallClient, ReplaceChild, CloseChild, End, IInv, Types, RpcTypeOK
<1>2. inPipe'[k] = inPipe[k] \/ inPipe'[k] = << >>
  BY DEF DshBegin, Respawn, SpawnChild, InstallClient, ReplaceChild, CloseChild, Kill, childVars
<1>3. stdin' = stdin \/ lock = NoCall
  BY DEF DshBegin, Respawn, SpawnChild, InstallClient, ReplaceChild, CloseChild
<1>4. Reader(k)' = Reader(k) /\ Reader(k) \in {0, 1}
  BY <1>1, <1>3 DEF Reader
<1>5. Cardinality(GivenUp) \in Nat
  BY GivenUpCount
<1>6. Unread(k)' <= Unread(k) /\ Unread(k) \in Nat /\ Unread(k)' \in Nat
  BY <1>1, <1>2, Shrinks
<1> QED BY <1>1, <1>4, <1>5, <1>6 DEF Backlog

\* Answers and requests are never shifted by more than the calls given up
\* (JsonRpcClient::request under call_tool's timeout, and dropped futures).
THEOREM ShiftIsBounded == Spec => []ShiftedOnlyByGivenUpCalls
<1>1. Init => ShiftedOnlyByGivenUpCalls
  <2> SUFFICES ASSUME Init PROVE ShiftedOnlyByGivenUpCalls
    OBVIOUS
  <2>1. \A k \in Child : Len(inPipe[k]) + Len(outPipe[k]) = 0
    BY DEF Init
  <2>2. Cardinality(GivenUp) \in Nat
    BY GivenUpCount
  <2>3. \A n \in Nat, b \in BOOLEAN : 0 <= n + IF b THEN 1 ELSE 0
    OBVIOUS
  <2> QED BY <2>1, <2>2, <2>3 DEF ShiftedOnlyByGivenUpCalls
<1>2. IInv /\ IInv' /\ ShiftedOnlyByGivenUpCalls /\ [Next]_vars => ShiftedOnlyByGivenUpCalls'
  <2> SUFFICES ASSUME IInv, IInv', ShiftedOnlyByGivenUpCalls, [Next]_vars
               PROVE  ShiftedOnlyByGivenUpCalls'
    OBVIOUS
  <2>1. CASE UNCHANGED vars
    BY <2>1 DEF vars, rpcVars, ShiftedOnlyByGivenUpCalls, GivenUp
  <2>2. CASE Next
    <3>1. kind' = kind
      BY <2>2 DEF Next, Server, Dsh, Lsp
    <3>2. ASSUME kind = "dsh", NEW k \in Child PROVE Backlog(k)
      <4>1. CASE \E j \in Child : Server(Answer(j)) \/ Server(Dies(j))
        BY <3>2, <4>1, ServerBacklog
      <4>2. ASSUME NEW c \in Call, Dsh(DshStep(c)) PROVE Backlog(k)
        BY <3>2, <4>2, WriteBacklog, ReadBacklog, GiveUpBacklog, OtherBacklog DEF Dsh, DshStep, DshMoves
      <4> QED BY <2>2, <3>2, <4>1, <4>2 DEF Next, Lsp
    <3> QED BY <3>1, <3>2, BacklogKeeps DEF Backlog, IInv
  <2> QED BY <2>1, <2>2
<1> QED BY <1>1, <1>2, StdioInvariant, PTL DEF Spec
==========================================================================
