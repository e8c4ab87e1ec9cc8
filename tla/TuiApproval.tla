--------------------------- MODULE TuiApproval ---------------------------
(***************************************************************************)
(* TuiApprover (crates/ma-harness-tui/src/approval.rs) over the approval   *)
(* channel, and the modal of the TUI's main loop (tui/src/lib.rs) that     *)
(* shows one pending id and turns a key into a decision about it, while    *)
(* the HTTP approvals API decides through the same channel.                *)
(***************************************************************************)
EXTENDS ApprovalChannel

CONSTANT NoId   \* the TUI is not in Approval mode

VARIABLES queue,    \* PendingApprovals.inner, oldest first
          mode,     \* "list" | "detail" | "approval"
          modal,    \* the tool_call_id of AppMode::Approval
          shown,    \* history: the request that was pending when the modal opened
          reached   \* history: <<request shown, request the key decided>>

tuiVars == <<queue, mode, modal, shown, reached>>
vars == <<chanVars, tuiVars>>

TuiTypeOK ==
  /\ ChanTypeOK
  /\ queue \in Seq(Req)
  /\ mode \in {"list", "detail", "approval"}
  /\ modal \in Ids \cup {NoId}
  /\ shown \in Req \cup {NoReq}
  /\ reached \subseteq Req \X Req
  /\ (mode = "approval") <=> (modal # NoId)

TuiInit ==
  /\ ChanInit
  /\ queue = << >> /\ mode = "list" /\ modal = NoId
  /\ shown = NoReq /\ reached = {}

\* TuiApprover::request_approval: push to the v1 queue, then the channel.
TuiRequest(r) ==
  /\ RequestApproval(r)
  /\ queue' = Append(queue, r)
  /\ UNCHANGED <<mode, modal, shown, reached>>

\* PendingApprovals::pop is Vec::pop.
Pop ==
  /\ queue # << >>
  /\ queue' = SubSeq(queue, 1, Len(queue) - 1)
  /\ UNCHANGED <<chanVars, mode, modal, shown, reached>>

\* poll_approval: the first of pending_ids(), in the map's arbitrary order.
PollApproval ==
  /\ mode # "approval"
  /\ \E i \in Ids :
       /\ pending[i] # NoReq
       /\ mode' = "approval" /\ modal' = i /\ shown' = pending[i]
  /\ UNCHANGED <<chanVars, queue, reached>>

\* Faulty variant: the key answers whatever request is pending now.
ModalTargetLatest(i) == \E j \in Ids : pending[j] # NoReq /\ i = j

\* The id a key of the modal decides about.
ModalTarget(i) == i = modal

\* Faulty variant: the modal closes only when the decision was accepted.
ApprovalKeyOnAccepted(d) ==
  /\ mode = "approval"
  /\ \/ /\ SubmitDecision(modal, d)
        /\ reached' = reached \cup {<<shown, pending[modal]>>}
        /\ mode' = "list" /\ modal' = NoId /\ shown' = NoReq
     \/ /\ pending[modal] = NoReq
        /\ UNCHANGED <<chanVars, reached, mode, modal, shown>>
  /\ UNCHANGED queue

\* handle_approval_key: y approves, n and Esc deny; the result of
\* submit_decision is ignored and the TUI returns to the list.
ApprovalKey(d) ==
  /\ mode = "approval"
  /\ \/ \E i \in Ids :
          /\ ModalTarget(i)
          /\ SubmitDecision(i, d)
          /\ reached' = reached \cup {<<shown, pending[i]>>}
     \/ /\ pending[modal] = NoReq
        /\ UNCHANGED <<chanVars, reached>>
  /\ mode' = "list" /\ modal' = NoId /\ shown' = NoReq
  /\ UNCHANGED queue

\* Enter on a session row, and the keys that leave the detail view.
EnterDetail == mode = "list" /\ mode' = "detail" /\ UNCHANGED <<chanVars, queue, modal, shown, reached>>
LeaveDetail == mode = "detail" /\ mode' = "list" /\ UNCHANGED <<chanVars, queue, modal, shown, reached>>

\* The HTTP handlers on the same service, and the waiting futures.
Others ==
  /\ \/ \E i \in Ids, d \in Decision : SubmitDecision(i, d)
     \/ \E r \in Req : ReceiveDecision(r) \/ DropWaiter(r)
  /\ UNCHANGED tuiVars

TuiNext ==
  \/ \E r \in Req : TuiRequest(r)
  \/ Pop
  \/ PollApproval
  \/ \E d \in {"approved", "denied"} : ApprovalKey(d)
  \/ EnterDetail \/ LeaveDetail
  \/ Others

\* The main loop polls for ever, the user answers every modal, a woken
\* future is polled.  Nothing is assumed of the HTTP side.
TuiFairness ==
  /\ WF_vars(PollApproval \/ \E d \in {"approved", "denied"} : ApprovalKey(d))
  /\ WF_vars((\E r \in Req : ReceiveDecision(r)) /\ UNCHANGED tuiVars)

--------------------------------------------------------------------------
\* With the pipeline's fresh ids a key decides the request that was on the
\* screen or none, even when the HTTP side decided it while the modal was open
\* (lib.rs:657-689).
KeyDecidesShown == \A p \in reached : p[1] = p[2]

\* As long as the user answers modals, no tool call waits for ever, although
\* the modal shows an arbitrary pending id, perhaps one whose waiter is gone.
EveryRequestResolved == []<>(\A r \in Req : waiter[r] # "waiting")
==========================================================================
