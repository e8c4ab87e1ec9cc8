--------------------------- MODULE ToolPipeline ---------------------------
(***************************************************************************)
(* invoke_with_pipeline of crates/ma-harness-core/src/tool_pipeline.rs and *)
(* the ToolRegistry it is called through (core/src/tool.rs), composed with *)
(* the approval channel: a member of Req is one tool call, whose approval  *)
(* request carries the tool_call_id the pipeline drew for it.              *)
(*                                                                         *)
(* Each call owns its Context, whose approval registry a hook or the host  *)
(* may install or replace while the call is in flight.  Registered entries *)
(* of the tool (one name) are members of Entry; Config gives the part of   *)
(* ToolConfig the control depends on.  A call is split at its awaits: the  *)
(* hooks, the approval, each attempt, each backoff.                        *)
(***************************************************************************)
EXTENDS ApprovalChannel

CONSTANTS Entry,      \* ToolEntry values registered under the tool's name
          Config,     \* Entry -> [attempts, timeout, backoff]
          NoEntry,
          PreHooks, PostHooks   \* how many of each PipelineConfig holds

ASSUME PipelineAssumption ==
  /\ Config \in [Entry -> [attempts : Nat, timeout : BOOLEAN, backoff : BOOLEAN]]
  /\ NoEntry \notin Entry
  /\ PreHooks \in Nat /\ PostHooks \in Nat

VARIABLES registry,  \* the entry under the tool's name
          approval,  \* the approval registry of each call's Context
          stage,     \* the await the call is at
          entry,     \* the clone of the entry the call works with
          hooks,     \* hooks of the current stage that have returned
          verdict,   \* what stage 3 found or was told
          attempt,   \* attempts started: calls of (entry.invoke)
          ran,       \* history: the entries those attempts invoked
          outcome    \* the Result of the call

callVars == <<stage, entry, hooks, verdict, attempt, ran, outcome>>
hostVars == <<registry, approval>>
vars == <<chanVars, hostVars, callVars>>

\* ctx.approval() and what its policy says of this tool: nothing installed,
\* Never or a Whitelist hit, Ask or Always, or a service that returns Err.
ApprovalMode == {"absent", "auto", "ask", "failing"}

Stage == {"idle", "pre", "approval", "execute", "running", "backoff",
          "post", "done", "dropped"}

\* Verdicts that let the call through to stage 4.
Through == {"absent", "auto"} \cup Grants

TypeOK ==
  /\ ChanTypeOK
  /\ registry \in Entry \cup {NoEntry}
  /\ approval \in [Req -> ApprovalMode]
  /\ stage \in [Req -> Stage]
  /\ entry \in [Req -> Entry \cup {NoEntry}]
  /\ hooks \in [Req -> Nat]
  /\ verdict \in [Req -> ApprovalMode \cup Answer \cup {"none"}]
  /\ attempt \in [Req -> Nat]
  /\ ran \in [Req -> SUBSET Entry]
  /\ outcome \in [Req -> {"none", "ok", "err"}]

Init ==
  /\ ChanInit
  /\ registry = NoEntry
  /\ approval \in [Req -> ApprovalMode]
  /\ stage = [c \in Req |-> "idle"]
  /\ entry = [c \in Req |-> NoEntry]
  /\ hooks = [c \in Req |-> 0]
  /\ verdict = [c \in Req |-> "none"]
  /\ attempt = [c \in Req |-> 0]
  /\ ran = [c \in Req |-> {}]
  /\ outcome = [c \in Req |-> "none"]

\* Faulty variant: max_attempts counts the retries after a first attempt.
AttemptsAsRetries(c) == Config[entry[c]].attempts + 1

\* How often the retry loop of c may invoke the tool.
Attempts(c) == Config[entry[c]].attempts

--------------------------------------------------------------------------
(* The host. *)

\* register_with_config: insert, replacing what was there.
Register(e) ==
  /\ registry' = e
  /\ UNCHANGED <<chanVars, approval, callVars>>

\* install_approval, by the host or by a pre hook that holds the Context.  A
\* later one is not observable: stage 3 clones the Arc and reads it no more.
InstallApproval(c, m) ==
  /\ stage[c] \in {"idle", "pre"}
  /\ approval[c] # m /\ m # "absent"
  /\ approval' = [approval EXCEPT ![c] = m]
  /\ UNCHANGED <<chanVars, registry, callVars>>

--------------------------------------------------------------------------
(* The call. *)

At(c, s) == stage[c] = s
Goto(c, s) == stage' = [stage EXCEPT ![c] = s]

\* Post hooks start with their first; the outcome is decided already.
ToPost(c, o) ==
  /\ Goto(c, "post")
  /\ hooks' = [hooks EXCEPT ![c] = 0]
  /\ outcome' = [outcome EXCEPT ![c] = o]

\* The call returns without post hooks.
ReturnNow(c, o) ==
  /\ Goto(c, "done")
  /\ outcome' = [outcome EXCEPT ![c] = o]

\* ToolRegistry::invoke: clone the entry, or "tool not found".
Invoke(c) ==
  /\ At(c, "idle")
  /\ \/ /\ registry # NoEntry
        /\ Goto(c, "pre")
        /\ entry' = [entry EXCEPT ![c] = registry]
        /\ UNCHANGED outcome
     \/ /\ registry = NoEntry
        /\ ReturnNow(c, "err")
        /\ UNCHANGED entry
  /\ UNCHANGED <<chanVars, hostVars, hooks, verdict, attempt, ran>>

\* Stage 1: a pre hook returns Continue, ShortCircuit(r), or Err (the ?).
PreHook(c) ==
  /\ At(c, "pre") /\ hooks[c] < PreHooks
  /\ \/ /\ hooks' = [hooks EXCEPT ![c] = @ + 1]
        /\ UNCHANGED <<stage, outcome>>
     \/ /\ \E o \in {"ok", "err"} : ReturnNow(c, o)
        /\ UNCHANGED hooks
  /\ UNCHANGED <<chanVars, hostVars, entry, verdict, attempt, ran>>

\* Faulty variant: a failing approval service ends the call with a bare `?`.
CheckApprovalUnaudited(c) ==
  /\ At(c, "pre") /\ hooks[c] = PreHooks
  /\ verdict' = [verdict EXCEPT ![c] = approval[c]]
  /\ \/ /\ approval[c] \in {"absent", "auto"}
        /\ Goto(c, "execute")
        /\ UNCHANGED <<chanVars, hooks, outcome>>
     \/ /\ approval[c] = "ask"
        /\ Goto(c, "approval")
        /\ RequestApproval(c)
        /\ UNCHANGED <<hooks, outcome>>
     \/ /\ approval[c] = "failing"
        /\ ReturnNow(c, "err")
        /\ hooks' = [hooks EXCEPT ![c] = 0]
        /\ UNCHANGED chanVars
  /\ UNCHANGED <<hostVars, entry, attempt, ran>>

\* Stage 3 up to its await: no registry, the policy's auto-approve, the
\* question put to the channel, or the service's own error.
CheckApproval(c) ==
  /\ At(c, "pre") /\ hooks[c] = PreHooks
  /\ verdict' = [verdict EXCEPT ![c] = approval[c]]
  /\ \/ /\ approval[c] \in {"absent", "auto"}
        /\ Goto(c, "execute")
        /\ UNCHANGED <<chanVars, hooks, outcome>>
     \/ /\ approval[c] = "ask"
        /\ Goto(c, "approval")
        /\ RequestApproval(c)
        /\ UNCHANGED <<hooks, outcome>>
     \/ /\ approval[c] = "failing"
        /\ ToPost(c, "err")
        /\ UNCHANGED chanVars
  /\ UNCHANGED <<hostVars, entry, attempt, ran>>

\* Faulty variant: only the user's own "denied" is refused.
ApprovalAnsweredLax(c) ==
  /\ At(c, "approval")
  /\ ReceiveDecision(c)
  /\ verdict' = [verdict EXCEPT ![c] = oneshot[c]]
  /\ \/ oneshot[c] # "denied" /\ Goto(c, "execute") /\ UNCHANGED <<hooks, outcome>>
     \/ oneshot[c] = "denied" /\ ToPost(c, "err")
  /\ UNCHANGED <<hostVars, entry, attempt, ran>>

\* The await of stage 3 completes.
ApprovalAnswered(c) ==
  /\ At(c, "approval")
  /\ ReceiveDecision(c)
  /\ verdict' = [verdict EXCEPT ![c] = oneshot[c]]
  /\ \/ /\ oneshot[c] \in Grants
        /\ Goto(c, "execute")
        /\ UNCHANGED <<hooks, outcome>>
     \/ /\ oneshot[c] \notin Grants
        /\ ToPost(c, "err")
  /\ UNCHANGED <<hostVars, entry, attempt, ran>>

\* Faulty variant: the entry is looked up again when the attempt starts.
StartAttemptFresh(c) ==
  /\ At(c, "execute") /\ attempt[c] < Attempts(c)
  /\ Goto(c, "running")
  /\ attempt' = [attempt EXCEPT ![c] = @ + 1]
  /\ ran' = [ran EXCEPT ![c] = @ \cup {registry}]
  /\ UNCHANGED <<chanVars, hostVars, entry, verdict, hooks, outcome>>

\* Stage 4: the next attempt of the retry loop; a loop over 1..=0 runs the
\* tool not at all and reports "retry exhausted".
StartAttempt(c) ==
  /\ At(c, "execute")
  /\ \/ /\ attempt[c] < Attempts(c)
        /\ Goto(c, "running")
        /\ attempt' = [attempt EXCEPT ![c] = @ + 1]
        /\ ran' = [ran EXCEPT ![c] = @ \cup {entry[c]}]
        /\ UNCHANGED <<hooks, outcome>>
     \/ /\ Attempts(c) = 0
        /\ ToPost(c, "err")
        /\ UNCHANGED <<attempt, ran>>
  /\ UNCHANGED <<chanVars, hostVars, entry, verdict>>

AttemptOk(c) ==
  /\ At(c, "running")
  /\ ToPost(c, "ok")
  /\ UNCHANGED <<chanVars, hostVars, entry, verdict, attempt, ran>>

\* Faulty variant: every failed attempt is reported as the outcome.
AttemptFailedReportsEach(c) ==
  /\ At(c, "running")
  /\ \/ attempt[c] >= Attempts(c) /\ ToPost(c, "err")
     \/ /\ attempt[c] < Attempts(c)
        /\ Goto(c, "execute")
        /\ outcome' = [outcome EXCEPT ![c] = "err"]
        /\ UNCHANGED hooks
  /\ UNCHANGED <<chanVars, hostVars, entry, verdict, attempt, ran>>

\* The attempt returned Err, or its timeout fired: the last one ends the
\* loop, the others sleep when there is a backoff.
AttemptFailed(c) ==
  /\ At(c, "running")
  /\ \/ /\ attempt[c] >= Attempts(c)
        /\ ToPost(c, "err")
     \/ /\ attempt[c] < Attempts(c)
        /\ Goto(c, IF Config[entry[c]].backoff THEN "backoff" ELSE "execute")
        /\ UNCHANGED <<hooks, outcome>>
  /\ UNCHANGED <<chanVars, hostVars, entry, verdict, attempt, ran>>

BackoffOver(c) ==
  /\ At(c, "backoff")
  /\ Goto(c, "execute")
  /\ UNCHANGED <<chanVars, hostVars, entry, hooks, verdict, attempt, ran, outcome>>

\* Stages 5 and 6: run_post_hooks, one await each.
PostHook(c) ==
  /\ At(c, "post") /\ hooks[c] < PostHooks
  /\ hooks' = [hooks EXCEPT ![c] = @ + 1]
  /\ UNCHANGED <<chanVars, hostVars, stage, entry, verdict, attempt, ran, outcome>>

\* Stage 7.
Return(c) ==
  /\ At(c, "post") /\ hooks[c] = PostHooks
  /\ Goto(c, "done")
  /\ UNCHANGED <<chanVars, hostVars, entry, hooks, verdict, attempt, ran, outcome>>

\* The future of the call is dropped at an await: a timeout around the call,
\* an aborted task, a closed connection.
Abandon(c) ==
  /\ stage[c] \notin {"idle", "done", "dropped"}
  /\ Goto(c, "dropped")
  /\ \/ At(c, "approval") /\ DropWaiter(c)
     \/ ~At(c, "approval") /\ UNCHANGED chanVars
  /\ UNCHANGED <<hostVars, entry, hooks, verdict, attempt, ran, outcome>>

Step(c) ==
  \/ Invoke(c) \/ PreHook(c) \/ CheckApproval(c) \/ ApprovalAnswered(c)
  \/ StartAttempt(c) \/ AttemptOk(c) \/ AttemptFailed(c) \/ BackoffOver(c)
  \/ PostHook(c) \/ Return(c)

Next ==
  \/ \E e \in Entry : Register(e)
  \/ \E c \in Req, m \in ApprovalMode : InstallApproval(c, m)
  \/ \E c \in Req : Step(c) \/ Abandon(c)
  \/ Decider /\ UNCHANGED <<hostVars, callVars>>

Spec == Init /\ [][Next]_vars

\* The runtime runs every ready future; an attempt is sure to end only when
\* its entry has a timeout.  Nobody is obliged to decide, to register or to
\* abandon.
FairSpec ==
  /\ Spec
  /\ \A c \in Req :
       /\ WF_vars(Step(c) /\ stage[c] # "running")
       /\ WF_vars(AttemptFailed(c) /\ Config[entry[c]].timeout)

--------------------------------------------------------------------------
(* Properties. *)

\* A tool runs only when no approval registry was installed at stage 3, or
\* its policy waived the question, or exactly one decision was accepted for
\* this call and it was a grant: no overwritten, removed, cancelled, abandoned
\* or failed request lets a tool run (tool_pipeline.rs:178-206).
OnlyGrantedCallsRun ==
  \A c \in Req : attempt[c] > 0 =>
    /\ verdict[c] \in Through
    /\ verdict[c] \in Grants => accepted[c] = <<verdict[c]>>

\* What is executed after the wait for an approval is the entry the call was
\* made for, whatever was registered under the name meanwhile (tool.rs:116-137).
RunsTheEntryInvoked == \A c \in Req : ran[c] \subseteq {entry[c]}

\* Retries stay within max_attempts, and a success is reported only by a pre
\* hook or by a tool that ran (tool_pipeline.rs:220-268).
AttemptsWithinPolicy ==
  \A c \in Req :
    /\ attempt[c] > 0 => attempt[c] <= Config[entry[c]].attempts
    /\ outcome[c] = "ok" /\ verdict[c] # "none" => attempt[c] > 0

\* Post hooks are told the outcome once it is final: nothing is decided or run
\* for the call afterwards (tool_pipeline.rs:209-216).
OutcomeIsFinal ==
  [][\A c \in Req : outcome[c] # "none" =>
       /\ outcome'[c] = outcome[c]
       /\ attempt'[c] = attempt[c]
       /\ verdict'[c] = verdict[c]]_vars

\* A call that got past the pre hooks and returned, granted, refused or
\* failed, has run every post hook (tool_pipeline.rs:192-213).
ReturnedCallsAreAudited ==
  \A c \in Req : stage[c] = "done" /\ verdict[c] # "none" => hooks[c] = PostHooks

\* The one place where a call can hang for good is an approval nobody
\* answers, or a tool without a timeout: stage 3 has no timeout of its own.
OnlyTheDeciderCanStall ==
  \A c \in Req :
    <>[](stage[c] \notin {"idle", "done", "dropped"}) =>
      <>[](\/ stage[c] = "approval" /\ pending[IdOf[c]] = c
           \/ stage[c] = "running" /\ ~Config[entry[c]].timeout)

-----------------------------------------------------------------------------
\* The pipeline implements GuardedTool: hooks, channel and retries hidden, a
\* call is let through, refused and ended as promised there.
CONSTANT MaxRuns   \* no registered entry allows more attempts

ASSUME MaxRunsBounds ==
  MaxRuns \in Nat /\ \A e \in Entry : Config[e].attempts <= MaxRuns

Phase(c) ==
  CASE stage[c] \in {"done", "dropped"} -> "ended"
    [] stage[c] \in {"execute", "running", "backoff"} -> "allowed"
    [] stage[c] = "post" /\ verdict[c] \in Through -> "allowed"
    [] stage[c] = "post" /\ verdict[c] \notin Through -> "refused"
    [] OTHER -> "new"

G == INSTANCE GuardedTool
       WITH Call <- Req, phase <- [c \in Req |-> Phase(c)], runs <- attempt

\* The specification of the abstract pipeline, as a property of the detailed one.
ImplementsGuardedTool == G!Spec
==========================================================================
