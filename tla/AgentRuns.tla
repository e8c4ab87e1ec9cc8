---------------------------- MODULE AgentRuns ---------------------------
(* AgentLoop::run (ma-harness-core, agent.rs): each run appends its        *)
(* lifecycle to the shared log around one await, the model call.  Runs of  *)
(* one session may overlap; the server never asks whether one is active.   *)
EXTENDS EventLog

CONSTANTS Run, SessionOf

ASSUME RunsAssumption == SessionOf \in [Run -> Session]

VARIABLE run       \* [Run -> where the run's future stands]

RunStage == {"idle", "started", "awaiting", "responded", "done",
             "failed", "dropped", "panicked"}

Says(r, type) == Persist(Event(SessionOf[r], type, r, FALSE))

Step(r, from, type, to) ==
    /\ run[r] = from
    /\ Says(r, type)
    /\ run' = [run EXCEPT ![r] = to]

StartRun(r) == Step(r, "idle", "RunStart", "started")
RequestModel(r) == Step(r, "started", "ModelRequest", "awaiting")
ModelAnswers(r) == Step(r, "awaiting", "ModelResponse", "responded")

\* Faulty variant: the failed call falls through to the success path.
ModelFailsFallsThrough(r) == Step(r, "awaiting", "ModelError", "responded")

ModelFails(r) == Step(r, "awaiting", "ModelError", "failed")
EndRun(r) == Step(r, "responded", "RunEnd", "done")

\* The caller goes away while the model call is pending: the future is
\* dropped at its only await and nothing is written about it.
DropRun(r) ==
    /\ run[r] = "awaiting"
    /\ run' = [run EXCEPT ![r] = "dropped"]
    /\ UNCHANGED events

\* EventLog::append panics when the insert fails; the run's task unwinds.
RunAppendFails(r) ==
    /\ run[r] \in {"idle", "started", "awaiting", "responded"}
    /\ run' = [run EXCEPT ![r] = "panicked"]
    /\ UNCHANGED events

RunStep(r) ==
    \/ StartRun(r) \/ RequestModel(r) \/ ModelAnswers(r)
    \/ ModelFails(r) \/ EndRun(r) \/ DropRun(r) \/ RunAppendFails(r)

RunsInit == run = [r \in Run |-> "idle"]
=========================================================================
