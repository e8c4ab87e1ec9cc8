------------------------ MODULE ToolPipelineProofs ------------------------
(***************************************************************************)
(* For any number of concurrent calls, any registered entries, hooks and   *)
(* deciders: a tool runs only when its own call was let through, within    *)
(* its retry policy, and the pipeline implements GuardedTool.              *)
(***************************************************************************)
EXTENDS ToolPipeline, ApprovalChannelProofs

\* What is known of a call at each of its awaits.
CallInv(c) ==
  /\ stage[c] = "idle" => entry[c] = NoEntry
  /\ stage[c] \in {"idle", "pre"} =>
       waiter[c] = "idle" /\ verdict[c] = "none" /\ attempt[c] = 0
  /\ stage[c] = "approval" =>
       waiter[c] = "waiting" /\ verdict[c] = "ask" /\ attempt[c] = 0
  /\ stage[c] \in {"execute", "running", "backoff"} => verdict[c] \in Through
  /\ stage[c] \in {"running", "backoff"} => attempt[c] > 0
  /\ stage[c] \in {"pre", "approval", "execute", "running", "backoff", "post"} =>
       entry[c] \in Entry
  /\ stage[c] \in {"idle", "pre", "approval", "execute", "running", "backoff"} =>
       outcome[c] = "none"
  /\ stage[c] = "post" => verdict[c] # "none"
  /\ attempt[c] > 0 =>
       verdict[c] \in Through /\ entry[c] \in Entry /\ attempt[c] <= Attempts(c)
  /\ verdict[c] \in Answer => waiter[c] = "answered" /\ answer[c] = verdict[c]
  /\ ran[c] \subseteq {entry[c]}
  /\ attempt[c] = 0 => ran[c] = {}
  /\ outcome[c] = "ok" /\ verdict[c] # "none" => attempt[c] > 0
  /\ stage[c] = "done" /\ verdict[c] # "none" => hooks[c] = PostHooks

IInv == TypeOK /\ ChanInv /\ \A c \in Req : CallInv(c)

LEMMA InitIInv == Init => IInv
<1> SUFFICES ASSUME Init PROVE IInv
  OBVIOUS
<1>1. ChanInv
  BY ChanInitInv DEF Init
<1>2. TypeOK
  BY <1>1, PipelineAssumption DEF Init, TypeOK, ChanInv, ApprovalMode, Stage, Answer, Decision
<1>3. ASSUME NEW c \in Req PROVE CallInv(c)
  BY PipelineAssumption DEF Init, ChanInit, CallInv, Answer, Decision
<1> QED BY <1>1, <1>2, <1>3 DEF IInv

\* A step that leaves call d alone.
Frame(d) ==
  /\ stage'[d] = stage[d] /\ entry'[d] = entry[d]
  /\ verdict'[d] = verdict[d] /\ attempt'[d] = attempt[d]
  /\ ran'[d] = ran[d] /\ outcome'[d] = outcome[d] /\ hooks'[d] = hooks[d]
  /\ waiter'[d] = waiter[d] /\ answer'[d] = answer[d]

\* A step of call c: what it must establish for c itself is enough, when the
\* variables of the other calls keep their values.
LEMMA OwnStep ==
  ASSUME NEW c \in Req, IInv, ChanInv', TypeOK', CallInv(c)',
         \A d \in Req \ {c} : Frame(d)
  PROVE  IInv'
<1>1. ASSUME NEW d \in Req, d # c PROVE CallInv(d)'
  BY <1>1 DEF IInv, CallInv, Attempts, Frame
<1> QED BY <1>1 DEF IInv

LEMMA InvokeKeeps == ASSUME NEW c \in Req, IInv, Invoke(c) PROVE IInv'
<1> USE DEF Invoke, At, Goto, ReturnNow, hostVars, chanVars
<1>1. ChanInv' BY ChanStutter DEF IInv
<1>2. TypeOK' BY <1>1 DEF IInv, TypeOK, Stage, ChanInv
<1>3. CallInv(c)' BY DEF IInv, TypeOK, CallInv, Attempts, Answer, Decision
<1>4. \A d \in Req \ {c} : Frame(d) BY DEF Frame, IInv, TypeOK
<1> QED BY <1>1, <1>2, <1>3, <1>4, OwnStep DEF IInv

LEMMA PreHookKeeps == ASSUME NEW c \in Req, IInv, PreHook(c) PROVE IInv'
<1> USE DEF PreHook, At, Goto, ReturnNow, hostVars, chanVars
<1>1. ChanInv' BY ChanStutter DEF IInv
<1>2. TypeOK' BY <1>1 DEF IInv, TypeOK, Stage, ChanInv
<1>3. CallInv(c)' BY DEF IInv, TypeOK, CallInv, Attempts, Answer, Decision
<1>4. \A d \in Req \ {c} : Frame(d) BY DEF Frame, IInv, TypeOK
<1> QED BY <1>1, <1>2, <1>3, <1>4, OwnStep DEF IInv

LEMMA CheckApprovalKeeps == ASSUME NEW c \in Req, IInv, CheckApproval(c) PROVE IInv'
<1> USE DEF CheckApproval, At, Goto, ToPost, hostVars
<1>1. ChanInv'
  BY ChanStutter, RequestKeepsInv DEF IInv, TypeOK, ApprovalMode
<1>2. TypeOK' BY <1>1 DEF IInv, TypeOK, Stage, ChanInv, Answer
<1>3. CallInv(c)'
  BY DEF IInv, TypeOK, ChanInv, ChanTypeOK, CallInv, Attempts, Answer, Decision,
         Through, Grants, ApprovalMode, chanVars, RequestApproval
<1>4. \A d \in Req \ {c} : Frame(d)
  BY DEF Frame, IInv, TypeOK, ChanInv, ChanTypeOK, chanVars, RequestApproval
<1> QED BY <1>1, <1>2, <1>3, <1>4, OwnStep DEF IInv

LEMMA ApprovalAnsweredKeeps == ASSUME NEW c \in Req, IInv, ApprovalAnswered(c) PROVE IInv'
<1> USE DEF ApprovalAnswered, At, Goto, ToPost, hostVars
<1>1. ChanInv' BY ReceiveKeepsInv DEF IInv
<1>2. TypeOK' BY <1>1 DEF IInv, TypeOK, Stage, ChanInv, Answer, ReceiveDecision
<1>3. CallInv(c)'
  BY DEF IInv, TypeOK, ChanInv, ChanTypeOK, CallInv, Attempts, Answer, Decision,
         Through, Grants, ReceiveDecision
<1>4. \A d \in Req \ {c} : Frame(d)
  BY DEF Frame, IInv, TypeOK, ChanInv, ChanTypeOK, ReceiveDecision
<1> QED BY <1>1, <1>2, <1>3, <1>4, OwnStep DEF IInv

LEMMA StartAttemptKeeps == ASSUME NEW c \in Req, IInv, StartAttempt(c) PROVE IInv'
<1> USE DEF StartAttempt, At, Goto, ToPost, hostVars, chanVars
<1>1. ChanInv' BY ChanStutter DEF IInv
<1>0. CallInv(c) /\ entry[c] \in Entry /\ Attempts(c) \in Nat
  BY PipelineAssumption DEF IInv, CallInv, Attempts
<1>2. TypeOK' BY <1>0, <1>1 DEF IInv, TypeOK, Stage, ChanInv
<1>3. CallInv(c)'
  BY <1>0 DEF IInv, TypeOK, CallInv, Attempts, Answer, Decision, Through, Grants
<1>4. \A d \in Req \ {c} : Frame(d) BY DEF Frame, IInv, TypeOK
<1> QED BY <1>1, <1>2, <1>3, <1>4, OwnStep DEF IInv

LEMMA AttemptOkKeeps == ASSUME NEW c \in Req, IInv, AttemptOk(c) PROVE IInv'
<1> USE DEF AttemptOk, At, Goto, ToPost, hostVars, chanVars
<1>1. ChanInv' BY ChanStutter DEF IInv
<1>2. TypeOK' BY <1>1 DEF IInv, TypeOK, Stage, ChanInv
<1>3. CallInv(c)'
  BY DEF IInv, TypeOK, CallInv, Attempts, Answer, Decision, Through, Grants
<1>4. \A d \in Req \ {c} : Frame(d) BY DEF Frame, IInv, TypeOK
<1> QED BY <1>1, <1>2, <1>3, <1>4, OwnStep DEF IInv

LEMMA AttemptFailedKeeps == ASSUME NEW c \in Req, IInv, AttemptFailed(c) PROVE IInv'
<1> USE DEF AttemptFailed, At, Goto, ToPost, hostVars, chanVars
<1>1. ChanInv' BY ChanStutter DEF IInv
<1>2. TypeOK' BY <1>1 DEF IInv, TypeOK, Stage, ChanInv
<1>3. CallInv(c)'
  BY DEF IInv, TypeOK, CallInv, Attempts, Answer, Decision, Through, Grants
<1>4. \A d \in Req \ {c} : Frame(d) BY DEF Frame, IInv, TypeOK
<1> QED BY <1>1, <1>2, <1>3, <1>4, OwnStep DEF IInv

LEMMA BackoffOverKeeps == ASSUME NEW c \in Req, IInv, BackoffOver(c) PROVE IInv'
<1> USE DEF BackoffOver, At, Goto, hostVars, chanVars
<1>1. ChanInv' BY ChanStutter DEF IInv
<1>2. TypeOK' BY <1>1 DEF IInv, TypeOK, Stage, ChanInv
<1>3. CallInv(c)' BY DEF IInv, TypeOK, CallInv, Attempts
<1>4. \A d \in Req \ {c} : Frame(d) BY DEF Frame, IInv, TypeOK
<1> QED BY <1>1, <1>2, <1>3, <1>4, OwnStep DEF IInv

LEMMA PostHookKeeps == ASSUME NEW c \in Req, IInv, PostHook(c) PROVE IInv'
<1> USE DEF PostHook, At, hostVars, chanVars
<1>1. ChanInv' BY ChanStutter DEF IInv
<1>2. TypeOK' BY <1>1 DEF IInv, TypeOK, ChanInv
<1>3. CallInv(c)' BY DEF IInv, TypeOK, CallInv, Attempts
<1>4. \A d \in Req \ {c} : Frame(d) BY DEF Frame, IInv, TypeOK
<1> QED BY <1>1, <1>2, <1>3, <1>4, OwnStep DEF IInv

LEMMA ReturnKeeps == ASSUME NEW c \in Req, IInv, Return(c) PROVE IInv'
<1> USE DEF Return, At, Goto, hostVars, chanVars
<1>1. ChanInv' BY ChanStutter DEF IInv
<1>2. TypeOK' BY <1>1 DEF IInv, TypeOK, Stage, ChanInv
<1>3. CallInv(c)' BY DEF IInv, TypeOK, CallInv, Attempts
<1>4. \A d \in Req \ {c} : Frame(d) BY DEF Frame, IInv, TypeOK
<1> QED BY <1>1, <1>2, <1>3, <1>4, OwnStep DEF IInv

LEMMA AbandonKeeps == ASSUME NEW c \in Req, IInv, Abandon(c) PROVE IInv'
<1> USE DEF Abandon, At, Goto, hostVars
<1>1. ChanInv' BY ChanStutter, DropKeepsInv DEF IInv
<1>2. TypeOK' BY <1>1 DEF IInv, TypeOK, Stage, ChanInv
<1>3. CallInv(c)'
  BY DEF IInv, TypeOK, ChanInv, ChanTypeOK, CallInv, Attempts, chanVars, DropWaiter,
         Answer, Decision
<1>4. \A d \in Req \ {c} : Frame(d)
  BY DEF Frame, IInv, TypeOK, ChanInv, ChanTypeOK, chanVars, DropWaiter
<1> QED BY <1>1, <1>2, <1>3, <1>4, OwnStep DEF IInv

\* The host and the deciders move nothing a call's own invariant speaks of.
LEMMA HostKeeps ==
  ASSUME IInv, UNCHANGED callVars,
         \/ \E e \in Entry : Register(e)
         \/ \E c \in Req, m \in ApprovalMode : InstallApproval(c, m)
         \/ Decider /\ UNCHANGED hostVars
         \/ UNCHANGED <<chanVars, hostVars>>
  PROVE  IInv'
<1>1. ChanInv'
  BY ChanStutter, DeciderKeepsInv DEF IInv, Register, InstallApproval
<1>2. TypeOK'
  BY <1>1 DEF IInv, TypeOK, ChanInv, Register, InstallApproval, callVars, hostVars
<1>3. UNCHANGED <<waiter, answer>>
  BY DEF Register, InstallApproval, chanVars, Decider, SubmitDecision, Cancel, RemovePending
<1>4. \A c \in Req : CallInv(c)'
  BY <1>3 DEF IInv, CallInv, Attempts, callVars
<1> QED BY <1>1, <1>2, <1>4 DEF IInv

LEMMA NextIInv == IInv /\ [Next]_vars => IInv'
<1> SUFFICES ASSUME IInv, [Next]_vars PROVE IInv'
  OBVIOUS
<1>1. CASE \E c \in Req : Step(c)
  BY <1>1, InvokeKeeps, PreHookKeeps, CheckApprovalKeeps, ApprovalAnsweredKeeps,
     StartAttemptKeeps, AttemptOkKeeps, AttemptFailedKeeps, BackoffOverKeeps,
     PostHookKeeps, ReturnKeeps DEF Step
<1>2. CASE \E c \in Req : Abandon(c)
  BY <1>2, AbandonKeeps
<1>3. CASE \/ \E e \in Entry : Register(e)
           \/ \E c \in Req, m \in ApprovalMode : InstallApproval(c, m)
           \/ Decider /\ UNCHANGED <<hostVars, callVars>>
           \/ UNCHANGED vars
  <2>1. UNCHANGED callVars
    BY <1>3 DEF Register, InstallApproval, vars
  <2> QED BY <1>3, <2>1, HostKeeps DEF vars
<1> QED BY <1>1, <1>2, <1>3 DEF Next

\* A call's step leaves every other call alone.
LEMMA StepFrame ==
  ASSUME NEW c \in Req, IInv, Step(c) \/ Abandon(c)
  PROVE  \A d \in Req \ {c} : Frame(d)
<1> USE DEF At, Goto, ToPost, ReturnNow
<1> USE DEF Frame, IInv, TypeOK, ChanTypeOK, chanVars
<1>1. CASE Invoke(c) BY <1>1 DEF Invoke
<1>2. CASE PreHook(c) BY <1>2 DEF PreHook
<1>3. CASE CheckApproval(c) BY <1>3 DEF CheckApproval, RequestApproval
<1>4. CASE ApprovalAnswered(c) BY <1>4 DEF ApprovalAnswered, ReceiveDecision
<1>5. CASE StartAttempt(c) BY <1>5 DEF StartAttempt
<1>6. CASE AttemptOk(c) BY <1>6 DEF AttemptOk
<1>7. CASE AttemptFailed(c) BY <1>7 DEF AttemptFailed
<1>8. CASE BackoffOver(c) BY <1>8 DEF BackoffOver
<1>9. CASE PostHook(c) BY <1>9 DEF PostHook
<1>10. CASE Return(c) BY <1>10 DEF Return
<1>11. CASE Abandon(c) BY <1>11 DEF Abandon, DropWaiter
<1> QED BY <1>1, <1>2, <1>3, <1>4, <1>5, <1>6, <1>7, <1>8, <1>9, <1>10, <1>11 DEF Step

LEMMA PipelineInvariant == Spec => []IInv
BY InitIInv, NextIInv, PTL DEF Spec

\* Every variable of the pipeline keeps the type it is declared with.
THEOREM TypeCorrect == Spec => []TypeOK
<1>1. IInv => TypeOK BY DEF IInv
<1> QED BY <1>1, PipelineInvariant, PTL

\* No tool runs but for a call that was let through: without a question where
\* the policy asks none, else by the one grant accepted for that very call.
THEOREM NoToolWithoutAGrant == Spec => []OnlyGrantedCallsRun
<1>1. ASSUME IInv PROVE OnlyGrantedCallsRun
  <2> SUFFICES ASSUME NEW c \in Req, attempt[c] > 0
               PROVE  /\ verdict[c] \in Through
                      /\ verdict[c] \in Grants => accepted[c] = <<verdict[c]>>
    BY DEF OnlyGrantedCallsRun
  <2>1. CallInv(c) /\ Accounts!(c)
    BY <1>1 DEF IInv, ChanInv, Accounts
  <2>2. verdict[c] \in Through
    BY <2>1 DEF CallInv
  <2>3. ASSUME verdict[c] \in Grants PROVE accepted[c] = <<verdict[c]>>
    <3>1. waiter[c] = "answered" /\ answer[c] = verdict[c]
      BY <2>1, <2>3 DEF CallInv, Grants, Answer, Decision
    <3>2. oneshot[c] = verdict[c]
      BY <2>1, <3>1
    <3> QED BY <2>1, <2>3, <3>2 DEF Grants, Decision
  <2> QED BY <2>2, <2>3
<1> QED BY <1>1, PipelineInvariant, PTL

\* What runs is the entry the call was made for, although the registry may be
\* rewritten while the call waits.
THEOREM EntryIsPinned == Spec => []RunsTheEntryInvoked
<1>1. IInv => RunsTheEntryInvoked BY DEF IInv, CallInv, RunsTheEntryInvoked
<1> QED BY <1>1, PipelineInvariant, PTL

\* Retries are bounded by the policy and successes are not invented.
THEOREM RetriesAreBounded == Spec => []AttemptsWithinPolicy
<1>1. IInv => AttemptsWithinPolicy BY DEF IInv, CallInv, Attempts, AttemptsWithinPolicy
<1> QED BY <1>1, PipelineInvariant, PTL

\* Every call that passed the pre hooks and returned has run all post hooks.
THEOREM AuditIsComplete == Spec => []ReturnedCallsAreAudited
<1>1. IInv => ReturnedCallsAreAudited BY DEF IInv, CallInv, ReturnedCallsAreAudited
<1> QED BY <1>1, PipelineInvariant, PTL

\* What the post hooks are told stays true: a decided outcome, and all that led
\* to it, is never revised.
THEOREM OutcomeNeverRevised == Spec => OutcomeIsFinal
<1>1. ASSUME IInv, [Next]_vars
      PROVE  [\A c \in Req : outcome[c] # "none" =>
                /\ outcome'[c] = outcome[c]
                /\ attempt'[c] = attempt[c]
                /\ verdict'[c] = verdict[c]]_vars
  <2> SUFFICES ASSUME NEW c \in Req, outcome[c] # "none", Next
               PROVE  /\ outcome'[c] = outcome[c]
                      /\ attempt'[c] = attempt[c]
                      /\ verdict'[c] = verdict[c]
    BY <1>1
  <2>1. stage[c] \in {"post", "done", "dropped"}
    BY <1>1 DEF IInv, TypeOK, CallInv, Stage
  <2>2. CASE \E d \in Req : Step(d) \/ Abandon(d)
    <3> PICK d \in Req : Step(d) \/ Abandon(d)
      BY <2>2
    <3> USE <1>1, <2>1
    <3>1. CASE d = c
      BY <3>1 DEF IInv, TypeOK, Step, Abandon, At, Invoke, PreHook, CheckApproval,
         ApprovalAnswered, StartAttempt, AttemptOk, AttemptFailed, BackoffOver,
         PostHook, Return
    <3>2. CASE d # c
      BY <3>2, StepFrame DEF Frame
    <3> QED BY <3>1, <3>2
  <2>3. CASE UNCHANGED callVars
    BY <2>3 DEF callVars
  <2> QED BY <2>2, <2>3 DEF Next, Register, InstallApproval
<1> QED BY <1>1, PipelineInvariant, PTL DEF Spec, OutcomeIsFinal

--------------------------------------------------------------------------
(* Steps of the pipeline as steps of GuardedTool. *)

\* What the abstract call sees of a step that changes only call c.
LEMMA AbstractMove ==
  ASSUME NEW c \in Req, IInv,
         \A d \in Req \ {c} : Frame(d),
         stage' \in [Req -> Stage], attempt' \in [Req -> Nat],
         \/ Phase(c)' = Phase(c) /\ attempt'[c] = attempt[c]
         \/ Phase(c) = "new" /\ Phase(c)' \in {"allowed", "refused", "ended"}
            /\ attempt'[c] = attempt[c]
         \/ Phase(c) \in {"allowed", "refused"} /\ Phase(c)' = "ended"
            /\ attempt'[c] = attempt[c]
         \/ Phase(c) = "allowed" /\ Phase(c)' = "allowed"
            /\ attempt[c] < MaxRuns /\ attempt'[c] = attempt[c] + 1
  PROVE  [G!Next]_(G!vars)
<1> DEFINE ph == [d \in Req |-> Phase(d)]
<1>1. \A d \in Req \ {c} : Phase(d)' = Phase(d)
  BY DEF Frame, Phase
<1>2. ph' = [ph EXCEPT ![c] = Phase(c)']
  BY <1>1
<1>3. attempt \in [Req -> Nat] /\ \A d \in Req \ {c} : attempt'[d] = attempt[d]
  BY DEF IInv, TypeOK, Frame
<1>4. ph[c] = Phase(c)
  OBVIOUS
<1> HIDE DEF ph
<1>5. CASE Phase(c)' = Phase(c) /\ attempt'[c] = attempt[c]
  <2>1. ph' = ph BY <1>2, <1>4, <1>5 DEF ph
  <2>2. attempt' = attempt BY <1>3, <1>5
  <2> QED BY <2>1, <2>2 DEF G!vars, ph
<1>6. CASE /\ Phase(c) \in {"new", "allowed", "refused"}
           /\ \/ Phase(c) = "new" /\ Phase(c)' \in {"allowed", "refused", "ended"}
              \/ Phase(c) \in {"allowed", "refused"} /\ Phase(c)' = "ended"
           /\ attempt'[c] = attempt[c]
  <2>1. attempt' = attempt BY <1>3, <1>6
  <2> QED BY <2>1, <1>2, <1>4, <1>6 DEF G!Next, G!Allow, G!Refuse, G!End, G!Move, ph
<1>7. CASE Phase(c) = "allowed" /\ Phase(c)' = "allowed"
           /\ attempt[c] < MaxRuns /\ attempt'[c] = attempt[c] + 1
  <2>1. attempt' = [attempt EXCEPT ![c] = @ + 1] BY <1>3, <1>7
  <2>2. ph' = ph BY <1>2, <1>4, <1>7 DEF ph
  <2> QED BY <2>1, <2>2, <1>4, <1>7 DEF G!Next, G!Run, ph
<1> QED BY <1>5, <1>6, <1>7

\* Every step of a call is one of those moves.
LEMMA StepRefines ==
  ASSUME NEW c \in Req, IInv, IInv', Step(c) \/ Abandon(c)
  PROVE  [G!Next]_(G!vars)
<1> USE DEF At, Goto, ToPost, ReturnNow
<1>1. stage' \in [Req -> Stage] /\ attempt' \in [Req -> Nat]
  BY DEF IInv, TypeOK
<1>2. CallInv(c) /\ stage[c] \in Stage /\ attempt[c] \in Nat
  BY DEF IInv, TypeOK
<1>3. \A d \in Req \ {c} : Frame(d)
  BY StepFrame
<1>4. CASE Invoke(c)
  BY <1>1, <1>2, <1>3, <1>4, AbstractMove DEF Invoke, Phase, IInv, TypeOK
<1>5. CASE PreHook(c)
  BY <1>1, <1>2, <1>3, <1>5, AbstractMove DEF PreHook, Phase, IInv, TypeOK
<1>6. CASE CheckApproval(c)
  BY <1>1, <1>2, <1>3, <1>6, AbstractMove
     DEF CheckApproval, Phase, IInv, TypeOK, Through, Grants
<1>7. CASE ApprovalAnswered(c)
  BY <1>1, <1>2, <1>3, <1>7, AbstractMove
     DEF ApprovalAnswered, ReceiveDecision, Phase, IInv, TypeOK, Through, Grants, Answer
<1>8. CASE StartAttempt(c)
  <2>1. Attempts(c) \in Nat /\ Attempts(c) <= MaxRuns
    BY <1>2, <1>8, PipelineAssumption, MaxRunsBounds DEF CallInv, Attempts, StartAttempt
  <2>2. Phase(c) = "allowed" /\ Phase(c)' = "allowed"
    BY <1>2, <1>8 DEF StartAttempt, Phase, IInv, TypeOK, CallInv
  <2>3. \/ attempt'[c] = attempt[c]
        \/ attempt[c] < MaxRuns /\ attempt'[c] = attempt[c] + 1
    BY <1>2, <1>8, <2>1, MaxRunsBounds DEF StartAttempt, IInv, TypeOK
  <2> QED BY <1>1, <1>3, <2>2, <2>3, AbstractMove
<1>9. CASE AttemptOk(c)
  BY <1>1, <1>2, <1>3, <1>9, AbstractMove DEF AttemptOk, Phase, CallInv, IInv, TypeOK
<1>10. CASE AttemptFailed(c)
  BY <1>1, <1>2, <1>3, <1>10, AbstractMove DEF AttemptFailed, Phase, CallInv, IInv, TypeOK
<1>11. CASE BackoffOver(c)
  BY <1>1, <1>2, <1>3, <1>11, AbstractMove DEF BackoffOver, Phase, IInv, TypeOK
<1>12. CASE PostHook(c)
  BY <1>1, <1>2, <1>3, <1>12, AbstractMove DEF PostHook, Phase, IInv, TypeOK
<1>13. CASE Return(c)
  BY <1>1, <1>2, <1>3, <1>13, AbstractMove DEF Return, Phase, IInv, TypeOK
<1>14. CASE Abandon(c)
  BY <1>1, <1>2, <1>3, <1>14, AbstractMove DEF Abandon, Phase, IInv, TypeOK, Stage
<1> QED BY <1>4, <1>5, <1>6, <1>7, <1>8, <1>9, <1>10, <1>11, <1>12, <1>13, <1>14 DEF Step

\* The host and the deciders are invisible to the abstract specification.
LEMMA HostRefines ==
  ASSUME UNCHANGED callVars PROVE UNCHANGED G!vars
BY DEF callVars, G!vars, Phase

\* The pipeline implements GuardedTool: every behaviour with hooks, approvals,
\* retries and abandoned futures is one the abstract tool allows.
THEOREM PipelineImplementsGuardedTool == Spec => ImplementsGuardedTool
<1>1. Init => G!Init
  BY DEF Init, G!Init, Phase
<1>2. IInv /\ IInv' /\ [Next]_vars => [G!Next]_(G!vars)
  <2> SUFFICES ASSUME IInv, IInv', [Next]_vars PROVE [G!Next]_(G!vars)
    OBVIOUS
  <2>1. CASE \E c \in Req : Step(c) \/ Abandon(c)
    BY <2>1, StepRefines
  <2>2. CASE UNCHANGED callVars
    BY <2>2, HostRefines
  <2> QED BY <2>1, <2>2 DEF Next, vars, Register, InstallApproval
<1> QED BY <1>1, <1>2, PipelineInvariant, PTL DEF Spec, ImplementsGuardedTool, G!Spec

==========================================================================
