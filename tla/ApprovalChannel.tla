------------------------- MODULE ApprovalChannel -------------------------
(***************************************************************************)
(* ChannelApprovalService of crates/ma-harness-cordis/src/approval.rs: the *)
(* bridge between a tool call that waits for a decision and the deciders   *)
(* (the TUI's keys, the HTTP approvals API) that push one.                 *)
(*                                                                         *)
(* A member of Req is one call of request_approval; IdOf gives the         *)
(* tool_call_id it carries.  The tool pipeline draws a fresh uuid for each *)
(* call, a caller that uses the service by hand may repeat an id, so IdOf  *)
(* need not be injective.                                                  *)
(***************************************************************************)
EXTENDS Naturals, Sequences, FiniteSets

CONSTANTS Req,     \* calls of request_approval
          Ids,     \* tool_call_id values
          IdOf,    \* the id each request carries
          NoReq    \* "no entry in the map"

ASSUME ChannelAssumption ==
  /\ IdOf \in [Req -> Ids]
  /\ NoReq \notin Req

VARIABLES pending,   \* the map: id -> the request whose Sender it holds
          oneshot,   \* the oneshot channel of each request
          waiter,    \* where the future of request_approval is
          answer,    \* what the future returned
          accepted   \* history: the decisions submit_decision answered TRUE to

chanVars == <<pending, oneshot, waiter, answer, accepted>>

\* ApprovalDecision; "cancelled" is the Denied that cancel() submits.
Decision == {"approved", "auto_approve", "denied", "cancelled"}

\* What a waiter can get: a decision, or the Denied made of a dropped Sender.
Answer == Decision \cup {"closed"}

\* The answers after which the tool runs.
Grants == {"approved", "auto_approve"}

ChanTypeOK ==
  /\ pending \in [Ids -> Req \cup {NoReq}]
  /\ oneshot \in [Req -> {"unborn", "open"} \cup Answer]
  /\ waiter \in [Req -> {"idle", "waiting", "answered", "dropped"}]
  /\ answer \in [Req -> Answer \cup {"none"}]
  /\ accepted \in [Req -> Seq(Decision)]

ChanInit ==
  /\ pending = [i \in Ids |-> NoReq]
  /\ oneshot = [r \in Req |-> "unborn"]
  /\ waiter = [r \in Req |-> "idle"]
  /\ answer = [r \in Req |-> "none"]
  /\ accepted = [r \in Req |-> << >>]

--------------------------------------------------------------------------
(* The service. *)

\* Faulty variant: the replaced Sender is kept alive somewhere.
CloseSenderNever(r, f) == f

\* A Sender leaves the map without having been used: its receiver reads Err.
CloseSender(r, f) == IF r = NoReq THEN f ELSE [f EXCEPT ![r] = "closed"]

\* request_approval up to its await: the insert drops the Sender it replaces.
RequestApproval(r) ==
  /\ waiter[r] = "idle"
  /\ waiter' = [waiter EXCEPT ![r] = "waiting"]
  /\ pending' = [pending EXCEPT ![IdOf[r]] = r]
  /\ oneshot' = [CloseSender(pending[IdOf[r]], oneshot) EXCEPT ![r] = "open"]
  /\ UNCHANGED <<answer, accepted>>

\* Faulty variant: map.get instead of map.remove.
SubmitDecisionKeepingEntry(i, d) ==
  /\ pending[i] # NoReq
  /\ oneshot' = [oneshot EXCEPT ![pending[i]] = d]
  /\ accepted' = [accepted EXCEPT ![pending[i]] = Append(@, d)]
  /\ UNCHANGED <<pending, waiter, answer>>

\* submit_decision when the id is in the map.  send() fails silently when the
\* receiver is gone, and the caller is told TRUE either way.
SubmitDecision(i, d) ==
  LET r == pending[i] IN
  /\ r # NoReq
  /\ pending' = [pending EXCEPT ![i] = NoReq]
  /\ oneshot' = IF waiter[r] = "waiting" THEN [oneshot EXCEPT ![r] = d]
                                         ELSE CloseSender(r, oneshot)
  /\ accepted' = [accepted EXCEPT ![r] = Append(@, d)]
  /\ UNCHANGED <<waiter, answer>>

Cancel(i) == SubmitDecision(i, "cancelled")

\* remove_pending drops the Sender.
RemovePending(i) ==
  /\ pending[i] # NoReq
  /\ pending' = [pending EXCEPT ![i] = NoReq]
  /\ oneshot' = CloseSender(pending[i], oneshot)
  /\ UNCHANGED <<waiter, answer, accepted>>

\* Faulty variant: try_recv instead of an await.
ReceiveDecisionUnsent(r) ==
  /\ waiter[r] = "waiting"
  /\ waiter' = [waiter EXCEPT ![r] = "answered"]
  /\ answer' = [answer EXCEPT ![r] = oneshot[r]]
  /\ UNCHANGED <<pending, oneshot, accepted>>

\* The await of request_approval completes.
ReceiveDecision(r) ==
  /\ waiter[r] = "waiting"
  /\ oneshot[r] \in Answer
  /\ waiter' = [waiter EXCEPT ![r] = "answered"]
  /\ answer' = [answer EXCEPT ![r] = oneshot[r]]
  /\ UNCHANGED <<pending, oneshot, accepted>>

\* The caller drops the future (its own timeout, a cancelled run): the
\* receiver goes, the map keeps the Sender.
DropWaiter(r) ==
  /\ waiter[r] = "waiting"
  /\ waiter' = [waiter EXCEPT ![r] = "dropped"]
  /\ UNCHANGED <<pending, oneshot, answer, accepted>>

\* What the TUI and the HTTP handlers may do at any time.
Decider ==
  \E i \in Ids :
    \/ \E d \in Decision \ {"cancelled"} : SubmitDecision(i, d)
    \/ Cancel(i)
    \/ RemovePending(i)

ChanNext ==
  \/ Decider
  \/ \E r \in Req : RequestApproval(r) \/ ReceiveDecision(r) \/ DropWaiter(r)

\* The runtime polls a woken future again.
ChanSpec ==
  /\ ChanInit /\ [][ChanNext]_chanVars
  /\ \A r \in Req : WF_chanVars(ReceiveDecision(r))

--------------------------------------------------------------------------
(* Properties. *)

\* An entry of the map is the unused Sender of a request with that id, and a
\* request that waits on an unused Sender has that Sender in the map: nobody
\* waits for a decision that can no longer be given (approval.rs:280-295).
SendersTracked ==
  /\ \A i \in Ids : pending[i] # NoReq =>
       /\ IdOf[pending[i]] = i
       /\ oneshot[pending[i]] = "open"
  /\ \A r \in Req : oneshot[r] = "open" => pending[IdOf[r]] = r

\* Of all deciders that race for a request at most one is told that its
\* decision was taken, and what the tool call gets is that decision; a call
\* that got "closed" belongs to nobody's accepted decision.
OneDecisionPerRequest ==
  \A r \in Req :
    /\ Len(accepted[r]) <= 1
    /\ answer[r] \in Decision => accepted[r] = <<answer[r]>>
    /\ answer[r] = "closed" => accepted[r] = << >>

\* A waiter whose Sender was used or dropped (decided, overwritten by a second
\* request with its id, removed) does not stay suspended.
ResolvedWaitersWake ==
  \A r \in Req :
    (waiter[r] = "waiting" /\ pending[IdOf[r]] # r) ~> (waiter[r] # "waiting")
==========================================================================
