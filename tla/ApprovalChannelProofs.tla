---------------------- MODULE ApprovalChannelProofs ----------------------
(***************************************************************************)
(* The approval channel decides every request at most once, for any set of *)
(* requests, any ids (repeated ones too) and any number of deciders.       *)
(***************************************************************************)
EXTENDS ApprovalChannel, TLAPS

\* A request is unborn exactly until it is made; an answer is what the channel
\* held; a decision in the channel is the only accepted one, and nothing was
\* accepted while the Sender is unused or when it was dropped under a waiter.
Accounts ==
  \A r \in Req :
    /\ (waiter[r] = "idle") <=> (oneshot[r] = "unborn")
    /\ (answer[r] # "none") <=> (waiter[r] = "answered")
    /\ waiter[r] = "answered" => answer[r] = oneshot[r]
    /\ oneshot[r] \in {"unborn", "open"} => accepted[r] = << >>
    /\ oneshot[r] \in Decision => accepted[r] = <<oneshot[r]>>
    /\ oneshot[r] = "closed" /\ waiter[r] # "dropped" => accepted[r] = << >>
    /\ Len(accepted[r]) <= 1

ChanInv == ChanTypeOK /\ SendersTracked /\ Accounts

LEMMA ChanInitInv == ChanInit => ChanInv
<1> SUFFICES ASSUME ChanInit PROVE ChanInv
  OBVIOUS
<1>1. ChanTypeOK
  BY ChannelAssumption DEF ChanInit, ChanTypeOK, Answer, Decision
<1>2. SendersTracked
  BY DEF ChanInit, SendersTracked
<1>3. Accounts
  BY DEF ChanInit, Accounts, Decision
<1> QED BY <1>1, <1>2, <1>3 DEF ChanInv

\* What every step of the service and its callers keeps, one lemma per action.
LEMMA RequestKeepsInv ==
  ASSUME NEW r \in Req, ChanInv, RequestApproval(r)
  PROVE  ChanInv'
<1> DEFINE q == pending[IdOf[r]]
<1>1. /\ IdOf[r] \in Ids
      /\ waiter[r] = "idle" /\ oneshot[r] = "unborn"
      /\ accepted[r] = << >> /\ answer[r] = "none"
  BY ChannelAssumption DEF RequestApproval, ChanInv, Accounts, ChanTypeOK
<1>2. q # NoReq => q \in Req /\ q # r /\ oneshot[q] = "open" /\ IdOf[q] = IdOf[r]
                   /\ accepted[q] = << >>
  BY <1>1 DEF ChanInv, ChanTypeOK, SendersTracked, Accounts
<1>3. /\ pending' = [pending EXCEPT ![IdOf[r]] = r]
      /\ waiter' = [waiter EXCEPT ![r] = "waiting"]
      /\ accepted' = accepted /\ answer' = answer
  BY DEF RequestApproval
<1>4. /\ oneshot' \in [Req -> {"unborn", "open"} \cup Answer]
      /\ \A s \in Req : oneshot'[s] = IF s = r THEN "open"
                                      ELSE IF s = q THEN "closed" ELSE oneshot[s]
  BY <1>2, ChannelAssumption
     DEF RequestApproval, CloseSender, ChanInv, ChanTypeOK, Answer
<1> HIDE DEF q
<1>5. ChanTypeOK'
  BY <1>1, <1>3, <1>4 DEF ChanInv, ChanTypeOK
<1>6. SendersTracked'
  <2>1. ASSUME NEW i \in Ids, pending'[i] # NoReq
        PROVE  IdOf[pending'[i]] = i /\ oneshot'[pending'[i]] = "open"
    <3>1. CASE i = IdOf[r]
      BY <3>1, <1>3, <1>4 DEF ChanInv, ChanTypeOK
    <3>2. CASE i # IdOf[r]
      <4>1. pending'[i] = pending[i] /\ pending[i] \in Req
            /\ IdOf[pending[i]] = i /\ oneshot[pending[i]] = "open"
        BY <2>1, <3>2, <1>3 DEF ChanInv, ChanTypeOK, SendersTracked
      <4>2. pending[i] # r /\ pending[i] # q
        BY <4>1, <3>2, <1>1, <1>2, ChannelAssumption
      <4> QED BY <4>1, <4>2, <1>4
    <3> QED BY <3>1, <3>2
  <2>2. ASSUME NEW s \in Req, oneshot'[s] = "open"
        PROVE  pending'[IdOf[s]] = s
    <3>1. CASE s = r
      BY <3>1, <1>1, <1>3 DEF ChanInv, ChanTypeOK
    <3>2. CASE s # r
      <4>1. s # q /\ oneshot[s] = "open" /\ pending[IdOf[s]] = s /\ IdOf[s] \in Ids
        BY <2>2, <3>2, <1>4, ChannelAssumption DEF ChanInv, SendersTracked
      <4>2. IdOf[s] # IdOf[r]
        BY <4>1 DEF q
      <4> QED BY <4>1, <4>2, <1>3 DEF ChanInv, ChanTypeOK
    <3> QED BY <3>1, <3>2
  <2> QED BY <2>1, <2>2 DEF SendersTracked
<1>7. Accounts'
  <2> SUFFICES ASSUME NEW s \in Req
               PROVE  Accounts!(s)'
    BY DEF Accounts
  <2>1. Accounts!(s)
    BY DEF ChanInv, Accounts
  <2>2. CASE s = r
    BY <2>1, <2>2, <1>1, <1>3, <1>4 DEF ChanInv, ChanTypeOK, Decision
  <2>3. CASE s # r /\ s = q
    <3>1. oneshot[s] = "open" /\ accepted[s] = << >> /\ oneshot'[s] = "closed"
          /\ waiter'[s] = waiter[s] /\ answer'[s] = answer[s] /\ accepted'[s] = << >>
      BY <2>3, <1>2, <1>3, <1>4, ChannelAssumption DEF ChanInv, ChanTypeOK
    <3>2. answer[s] # "open" /\ answer[s] \in Answer \cup {"none"}
      BY DEF ChanInv, ChanTypeOK, Answer, Decision
    <3> QED BY <2>1, <3>1, <3>2 DEF Decision
  <2>4. CASE s # r /\ s # q
    BY <2>1, <2>4, <1>3, <1>4 DEF ChanInv, ChanTypeOK
  <2> QED BY <2>2, <2>3, <2>4
<1> QED BY <1>5, <1>6, <1>7 DEF ChanInv

LEMMA SubmitKeepsInv ==
  ASSUME NEW i \in Ids, NEW d \in Decision, ChanInv, SubmitDecision(i, d)
  PROVE  ChanInv'
<1> DEFINE q == pending[i]
<1>1. /\ q \in Req /\ oneshot[q] = "open" /\ IdOf[q] = i /\ accepted[q] = << >>
      /\ waiter[q] # "answered"
  <2>1. q \in Req /\ oneshot[q] = "open" /\ IdOf[q] = i
    BY ChannelAssumption DEF SubmitDecision, ChanInv, ChanTypeOK, SendersTracked
  <2>2. accepted[q] = << >> /\ (waiter[q] = "answered" => answer[q] = "open")
    BY <2>1 DEF ChanInv, Accounts
  <2>3. answer[q] # "open"
    BY <2>1 DEF ChanInv, ChanTypeOK, Answer, Decision
  <2> QED BY <2>1, <2>2, <2>3
<1>2. accepted' = [accepted EXCEPT ![q] = <<d>>]
  BY <1>1 DEF SubmitDecision
<1>3. /\ oneshot' = [oneshot EXCEPT ![q] = IF waiter[q] = "waiting" THEN d ELSE "closed"]
      /\ pending' = [pending EXCEPT ![i] = NoReq]
      /\ waiter' = waiter /\ answer' = answer
  BY <1>1, ChannelAssumption DEF SubmitDecision, CloseSender
<1> HIDE DEF q
<1>4. ChanTypeOK'
  BY <1>1, <1>2, <1>3, ChannelAssumption DEF ChanInv, ChanTypeOK, Answer
<1>5. SendersTracked'
  BY <1>1, <1>3, ChannelAssumption
     DEF ChanInv, ChanTypeOK, SendersTracked, Answer, Decision, q
<1>6. Accounts'
  BY <1>1, <1>2, <1>3, ChannelAssumption
     DEF ChanInv, ChanTypeOK, Accounts, Answer, Decision
<1> QED BY <1>4, <1>5, <1>6 DEF ChanInv

LEMMA RemoveKeepsInv ==
  ASSUME NEW i \in Ids, ChanInv, RemovePending(i)
  PROVE  ChanInv'
<1> USE ChannelAssumption DEF RemovePending, ChanInv, CloseSender
<1>1. ChanTypeOK'
  BY DEF ChanTypeOK, Answer
<1>2. SendersTracked'
  BY DEF ChanTypeOK, SendersTracked, Answer, Decision
<1>3. Accounts'
  BY DEF ChanTypeOK, SendersTracked, Accounts, Answer, Decision
<1> QED BY <1>1, <1>2, <1>3

LEMMA ReceiveKeepsInv ==
  ASSUME NEW r \in Req, ChanInv, ReceiveDecision(r)
  PROVE  ChanInv'
<1> USE ChannelAssumption DEF ReceiveDecision, ChanInv
<1>1. ChanTypeOK'
  BY DEF ChanTypeOK, Answer
<1>2. SendersTracked'
  BY DEF SendersTracked
<1>3. Accounts'
  BY DEF ChanTypeOK, Accounts, Answer, Decision
<1> QED BY <1>1, <1>2, <1>3

LEMMA DropKeepsInv ==
  ASSUME NEW r \in Req, ChanInv, DropWaiter(r)
  PROVE  ChanInv'
<1> USE ChannelAssumption DEF DropWaiter, ChanInv
<1>1. ChanTypeOK'
  BY DEF ChanTypeOK, Answer
<1>2. SendersTracked'
  BY DEF SendersTracked
<1>3. Accounts'
  BY DEF ChanTypeOK, Accounts, Answer, Decision
<1> QED BY <1>1, <1>2, <1>3

LEMMA DeciderKeepsInv == ChanInv /\ Decider => ChanInv'
<1> SUFFICES ASSUME ChanInv, NEW i \in Ids,
                    \/ \E d \in Decision \ {"cancelled"} : SubmitDecision(i, d)
                    \/ Cancel(i)
                    \/ RemovePending(i)
             PROVE  ChanInv'
  BY DEF Decider
<1>1. CASE \E d \in Decision \ {"cancelled"} : SubmitDecision(i, d)
  BY <1>1, SubmitKeepsInv
<1>2. CASE Cancel(i)
  BY <1>2, SubmitKeepsInv DEF Cancel, Decision
<1>3. CASE RemovePending(i)
  BY <1>3, RemoveKeepsInv
<1> QED BY <1>1, <1>2, <1>3

LEMMA ChanStutter == ChanInv /\ UNCHANGED chanVars => ChanInv'
BY DEF ChanInv, chanVars, ChanTypeOK, SendersTracked, Accounts

\* The two safety invariants of the runs are part of, or follow from, ChanInv.
LEMMA ChanInvImplies == ChanInv => SendersTracked /\ OneDecisionPerRequest
BY DEF ChanInv, ChanTypeOK, Accounts, OneDecisionPerRequest, Answer, Decision

LEMMA ChanInvariant == ChanSpec => []ChanInv
<1>1. ChanInv /\ [ChanNext]_chanVars => ChanInv'
  BY RequestKeepsInv, ReceiveKeepsInv, DropKeepsInv, DeciderKeepsInv, ChanStutter
     DEF ChanNext
<1> QED BY <1>1, ChanInitInv, PTL DEF ChanSpec

\* The map of pending approvals and the waiting futures always agree.
THEOREM SendersAlwaysTracked == ChanSpec => []SendersTracked
BY ChanInvariant, ChanInvImplies, PTL

\* However many deciders race, at most one is told its decision was taken, and
\* the tool call gets that one.
THEOREM DecidedAtMostOnce == ChanSpec => []OneDecisionPerRequest
BY ChanInvariant, ChanInvImplies, PTL

==========================================================================
