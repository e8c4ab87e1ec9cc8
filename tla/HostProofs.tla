---------------------------- MODULE HostProofs -----------------------------
(***************************************************************************)
(* What holds of the parts that run beside the agent, for any constants:   *)
(* each part's own invariant, carried over to the composition, in which    *)
(* one part moves and the others stay as they were.                        *)
(***************************************************************************)
EXTENDS HostComponents, ApprovalChannelProofs, PartProofs

\* A step moves one part, or none, and leaves every other as it was.
LEMMA OnePartMoves ==
  [HostNext]_partVars =>
    /\ [TuiNext]_tuiAll /\ [WebUiNext]_webUiVars /\ [EmitNext]_emitVars
    /\ [DisposalNext]_disposalVars /\ [AsyncDisposalNext]_asyncDisposalVars
    /\ [PluginsNext]_pluginVars /\ [LoaderNext]_loaderVars
    /\ [RecNext]_recVars /\ [BreakerNext]_breakerVars /\ [StreamNext]_streamVars
    /\ [CompactionNext]_compactionVars /\ [DagNext]_dagVars
    /\ part' = part
BY Zenon DEF HostNext, Moves, Rest, partVars

-----------------------------------------------------------------------------
(* The approval modal.                                                     *)

\* The pipeline draws a fresh uuid for each call.
FreshIds == \A r, s \in Req : IdOf[r] = IdOf[s] => r = s

\* The request that was pending when the modal opened carries the modal's id,
\* though it may long have left the map.
ModalNamesShown ==
  mode = "approval" => modal \in Ids /\ shown \in Req /\ IdOf[shown] = modal

TuiInv == ChanInv /\ ModalNamesShown /\ KeyDecidesShown

LEMMA TuiInitInv == TuiInit => TuiInv
BY ChanInitInv DEF TuiInit, TuiInv, ModalNamesShown, KeyDecidesShown

\* The part about the channel is the channel's own invariant.
LEMMA TuiKeepsChanInv == TuiInv /\ [TuiNext]_vars => ChanInv'
<1> SUFFICES ASSUME TuiInv, [TuiNext]_vars PROVE ChanInv'
  OBVIOUS
<1>1. ChanInv
  BY DEF TuiInv
<1>2. ASSUME NEW r \in Req, TuiRequest(r) PROVE ChanInv'
  BY <1>1, <1>2, RequestKeepsInv DEF TuiRequest
<1>3. ASSUME NEW d \in {"approved", "denied"}, ApprovalKey(d) PROVE ChanInv'
  <2>1. CASE \E i \in Ids : SubmitDecision(i, d)
    BY <2>1, <1>1, SubmitKeepsInv DEF Decision
  <2>2. CASE UNCHANGED chanVars
    BY <2>2, <1>1, ChanStutter
  <2> QED BY <1>3, <2>1, <2>2 DEF ApprovalKey
<1>4. CASE Others
  BY <1>1, <1>4, SubmitKeepsInv, ReceiveKeepsInv, DropKeepsInv DEF Others
<1>5. CASE Pop \/ PollApproval \/ EnterDetail \/ LeaveDetail \/ UNCHANGED vars
  BY <1>1, <1>5, ChanStutter DEF Pop, PollApproval, EnterDetail, LeaveDetail, vars
<1> QED BY <1>2, <1>3, <1>4, <1>5 DEF TuiNext

\* Only a poll opens the modal, on the sender the map holds under its id.
LEMMA TuiKeepsModal == TuiInv /\ [TuiNext]_vars => ModalNamesShown'
<1> SUFFICES ASSUME TuiInv, [TuiNext]_vars PROVE ModalNamesShown'
  OBVIOUS
<1>1. CASE PollApproval
  <2>1. PICK i \in Ids : pending[i] # NoReq /\ modal' = i /\ shown' = pending[i]
    BY <1>1 DEF PollApproval
  <2>2. pending[i] \in Req /\ IdOf[pending[i]] = i
    BY <2>1 DEF TuiInv, ChanInv, ChanTypeOK, SendersTracked
  <2> QED BY <2>1, <2>2 DEF ModalNamesShown
<1>2. CASE ~ PollApproval
  BY <1>2 DEF TuiInv, ModalNamesShown, TuiNext, TuiRequest, Pop, ApprovalKey,
              EnterDetail, LeaveDetail, Others, tuiVars, vars
<1> QED BY <1>1, <1>2

\* A key reaches the request that the map holds under the modal's id: with
\* fresh ids there is no other with that id than the one shown.
LEMMA TuiKeepsDecided ==
  ASSUME FreshIds PROVE TuiInv /\ [TuiNext]_vars => KeyDecidesShown'
<1> SUFFICES ASSUME TuiInv, [TuiNext]_vars PROVE KeyDecidesShown'
  OBVIOUS
<1>1. ASSUME NEW d \in {"approved", "denied"}, ApprovalKey(d) PROVE KeyDecidesShown'
  <2>1. CASE reached' = reached
    BY <2>1 DEF TuiInv, KeyDecidesShown
  <2>2. CASE reached' # reached
    <3>1. PICK i \in Ids : /\ ModalTarget(i) /\ SubmitDecision(i, d)
                           /\ reached' = reached \cup {<<shown, pending[i]>>}
      BY <1>1, <2>2 DEF ApprovalKey
    <3>2. pending[i] \in Req /\ IdOf[pending[i]] = i
      BY <3>1 DEF SubmitDecision, TuiInv, ChanInv, ChanTypeOK, SendersTracked
    <3>3. shown \in Req /\ IdOf[shown] = i
      BY <1>1, <3>1 DEF ApprovalKey, ModalTarget, TuiInv, ModalNamesShown
    <3>4. shown = pending[i]
      BY <3>2, <3>3, FreshIds DEF FreshIds
    <3> QED BY <3>1, <3>4 DEF TuiInv, KeyDecidesShown
  <2> QED BY <2>1, <2>2
<1>2. CASE reached' = reached
  BY <1>2 DEF TuiInv, KeyDecidesShown
<1>3. reached' = reached \/ \E d \in {"approved", "denied"} : ApprovalKey(d)
  BY DEF TuiNext, TuiRequest, Pop, PollApproval, EnterDetail, LeaveDetail,
         Others, tuiVars, vars
<1> QED BY <1>1, <1>2, <1>3

\* With fresh ids a key decides the request that was on the screen or none,
\* however many requests wait, whoever decides them over HTTP while the modal
\* is open, and whichever futures are dropped (tui/src/lib.rs, the modal).
THEOREM KeysDecideWhatWasShown ==
  ASSUME FreshIds
  PROVE  HostSpec => []KeyDecidesShown
<1>1. TuiInv /\ [HostNext]_partVars => TuiInv'
  <2>1. [HostNext]_partVars => [TuiNext]_vars
    BY OnePartMoves DEF tuiAll, vars
  <2> QED BY <2>1, FreshIds, TuiKeepsChanInv, TuiKeepsModal, TuiKeepsDecided DEF TuiInv
<1>2. TuiInv => KeyDecidesShown
  BY DEF TuiInv
<1>3. HostInit => TuiInv
  BY TuiInitInv DEF HostInit
<1> QED BY <1>1, <1>2, <1>3, PTL DEF HostSpec

-----------------------------------------------------------------------------
(* The circuit breaker.                                                    *)

\* What is kept is the history: failures counts since the last success, last
\* is the time of the newest failure, the circuit is closed exactly below the
\* threshold, and half-open only once that failure is old enough.
BreakerInv ==
    /\ circuit \in [state : {"Closed", "Open", "HalfOpen"}, failures : Nat, last : Nat]
    /\ now \in 0..MaxNow /\ said \in {"none", "allowed", "refused"}
    /\ sinceOk \in Nat /\ lastReport \in 0..MaxNow \cup {Never}
    /\ circuit.failures = sinceOk /\ circuit.last = lastReport
    /\ circuit.state = "Closed" <=> sinceOk = 0 \/ sinceOk < Threshold
    /\ circuit.state = "HalfOpen" => lastReport # Never /\ now - lastReport >= Cooldown
    /\ sinceOk > 0 => lastReport # Never /\ lastReport <= now
    /\ BreakerIsItsReports

\* Of any breaker, asked and reported to in any order: it refuses exactly
\* while the reports say so (retry.rs:223-261).
THEOREM BreakerFollowsItsReports == HostSpec => []BreakerIsItsReports
<1> USE BreakerAssumption DEF BreakerAssumption, Never
<1>1. BreakerInit => BreakerInv
  BY DEF BreakerInit, BreakerInv, BreakerIsItsReports
<1>2. BreakerInv /\ [BreakerNext]_breakerVars => BreakerInv'
  <2> SUFFICES ASSUME BreakerInv, [BreakerNext]_breakerVars PROVE BreakerInv'
    OBVIOUS
  <2> USE DEF BreakerInv
  <2>1. CASE Allow
    <3>1. Current = "Open" <=> sinceOk >= Threshold /\ sinceOk > 0 /\ now - lastReport < Cooldown
      BY DEF Current
    <3>2. /\ Current = "Closed" <=> sinceOk = 0 \/ sinceOk < Threshold
          /\ Current = "HalfOpen" => lastReport # Never /\ now - lastReport >= Cooldown
          /\ Current \in {"Closed", "Open", "HalfOpen"}
      BY DEF Current
    <3>3. circuit' = [circuit EXCEPT !.state = Current]
      BY <2>1 DEF Allow
    <3>4. /\ circuit'.state = Current
          /\ circuit'.failures = circuit.failures /\ circuit'.last = circuit.last
          /\ circuit' \in [state : {"Closed", "Open", "HalfOpen"}, failures : Nat, last : Nat]
      BY <3>2, <3>3
    <3>5. /\ said' = IF Current = "Open" THEN "refused" ELSE "allowed"
          /\ now' = now /\ sinceOk' = sinceOk /\ lastReport' = lastReport
      BY <2>1 DEF Allow
    <3> QED
      BY <3>1, <3>2, <3>4, <3>5 DEF BreakerIsItsReports
  <2>2. CASE RecordSuccess
    <3>1. /\ circuit'.state = "Closed" /\ circuit'.failures = 0 /\ circuit'.last = circuit.last
          /\ circuit' \in [state : {"Closed", "Open", "HalfOpen"}, failures : Nat, last : Nat]
      BY <2>2 DEF RecordSuccess
    <3> QED
      BY <2>2, <3>1 DEF RecordSuccess, BreakerIsItsReports
  <2>3. CASE RecordFailure
    BY <2>3 DEF RecordFailure, BreakerIsItsReports
  <2>4. CASE Tick
    BY <2>4 DEF Tick, BreakerIsItsReports
  <2>5. CASE UNCHANGED breakerVars
    BY <2>5 DEF breakerVars, BreakerIsItsReports
  <2> QED
    BY <2>1, <2>2, <2>3, <2>4, <2>5 DEF BreakerNext
<1>3. BreakerInv => BreakerIsItsReports
  BY DEF BreakerInv
<1>4. HostInit => BreakerInit
  BY DEF HostInit
<1>5. [HostNext]_partVars => [BreakerNext]_breakerVars
  BY OnePartMoves
<1> QED
  BY <1>1, <1>2, <1>3, <1>4, <1>5, PTL DEF HostSpec

-----------------------------------------------------------------------------
(* The plugin registry.                                                    *)

Life == {"new", "installed", "failed", "registered", "clashed", "uninstalling", "lost", "gone"}

PluginsInv ==
    /\ plugins \in [PluginName -> Plugin \cup {NoPlugin}]
    /\ install \in [Plugin -> Life] /\ rival \in [Plugin -> Plugin \cup {NoPlugin}]
    /\ \A n \in PluginName : plugins[n] \in Plugin => NameOf[plugins[n]] = n
    /\ RegistryIsWhatIsInstalled

\* register keeps the registry true, whichever way it ends, for a plugin that
\* was not registered.
LEMMA RegisterKeepsInv ==
    ASSUME PluginsInv, NEW p \in Plugin, install[p] \in {"installed", "uninstalling"},
           NEW refused \in {"clashed", "lost"}, Register(p, refused)
    PROVE  PluginsInv'
<1> USE PluginAssumption DEF PluginAssumption, Life
<1> USE DEF PluginsInv, RegistryIsWhatIsInstalled, Register, To
<1>0. NameOf[p] \in PluginName /\ plugins[NameOf[p]] # p
  OBVIOUS
<1>1. CASE plugins[NameOf[p]] = NoPlugin
  <2>1. /\ plugins' = [plugins EXCEPT ![NameOf[p]] = p]
        /\ install' = [install EXCEPT ![p] = "registered"] /\ rival' = rival
    BY <1>1
  <2>2. \A q \in Plugin : install'[q] = "registered" <=> plugins'[NameOf[q]] = q
    BY <1>0, <1>1, <2>1
  <2>3. \A q \in Plugin : install[q] # "new" => install'[q] # "new"
    BY <2>1
  <2>4. /\ plugins' \in [PluginName -> Plugin \cup {NoPlugin}]
        /\ install' \in [Plugin -> Life] /\ rival' \in [Plugin -> Plugin \cup {NoPlugin}]
    BY <1>0, <2>1
  <2>5. \A n \in PluginName : plugins'[n] \in Plugin => NameOf[plugins'[n]] = n
    BY <1>0, <2>1
  <2> QED
    BY <2>1, <2>2, <2>3, <2>4, <2>5
<1>2. CASE plugins[NameOf[p]] # NoPlugin
  <2> DEFINE q == plugins[NameOf[p]]
  <2>1. q \in Plugin /\ NameOf[q] = NameOf[p] /\ q # p
    BY <1>0, <1>2
  <2>2. install[q] = "registered"
    BY <2>1
  <2>3. plugins' = plugins /\ install' = [install EXCEPT ![p] = refused]
        /\ rival' = [rival EXCEPT ![p] = q]
    BY <1>2
  <2>4. \A r \in Plugin : install[r] # "new" => install'[r] # "new"
    BY <2>3
  <2> HIDE DEF q
  <2> QED
    BY <2>1, <2>2, <2>3, <2>4
<1> QED
  BY <1>1, <1>2

\* For any plugins, names and overlapping calls: the registry lists exactly
\* the plugins registered and not taken out, under their names, and whoever is
\* refused was refused for another one (context.rs:211-231, plugin.rs:48-63).
THEOREM RegistryStaysTrue == HostSpec => []RegistryIsWhatIsInstalled
<1> USE PluginAssumption DEF PluginAssumption, Life
<1>1. PluginsInit => PluginsInv
  BY DEF PluginsInit, PluginsInv, RegistryIsWhatIsInstalled
<1>2. PluginsInv /\ [PluginsNext]_pluginVars => PluginsInv'
  <2> SUFFICES ASSUME PluginsInv, [PluginsNext]_pluginVars PROVE PluginsInv'
    OBVIOUS
  <2>1. ASSUME NEW p \in Plugin, NEW ok \in BOOLEAN, RunInstall(p, ok) PROVE PluginsInv'
    BY <2>1 DEF RunInstall, To, PluginsInv, RegistryIsWhatIsInstalled
  <2>2. ASSUME NEW p \in Plugin, RegisterInstalled(p) PROVE PluginsInv'
    BY <2>2, RegisterKeepsInv DEF RegisterInstalled
  <2>3. ASSUME NEW p \in Plugin, UninstallFails(p) PROVE PluginsInv'
    BY <2>3, RegisterKeepsInv DEF UninstallFails
  <2>4. ASSUME NEW p \in Plugin, UninstallWorks(p) PROVE PluginsInv'
    BY <2>4 DEF UninstallWorks, To, PluginsInv, RegistryIsWhatIsInstalled
  <2>5. ASSUME NEW n \in PluginName, Unregister(n) PROVE PluginsInv'
    BY <2>5 DEF Unregister, To, PluginsInv, RegistryIsWhatIsInstalled
  <2>6. CASE UNCHANGED pluginVars
    BY <2>6 DEF pluginVars, PluginsInv, RegistryIsWhatIsInstalled
  <2> QED
    BY <2>1, <2>2, <2>3, <2>4, <2>5, <2>6 DEF PluginsNext
<1>3. PluginsInv => RegistryIsWhatIsInstalled
  BY DEF PluginsInv
<1>4. HostInit => PluginsInit
  BY DEF HostInit
<1>5. [HostNext]_partVars => [PluginsNext]_pluginVars
  BY OnePartMoves
<1> QED
  BY <1>1, <1>2, <1>3, <1>4, <1>5, PTL DEF HostSpec

-----------------------------------------------------------------------------
(* The session records.                                                    *)

Rec == [state : {"absent", "created"} \cup FinalState, closedBy : RecCall \cup {NoCaller},
        metadata : {"none", "plain", "custom"}]

RecTypes ==
  /\ sessions \in [Sid -> Rec] /\ born \in [Sid -> Rec]
  /\ recCall \in [RecCall -> [op : {"none", "create", "get", "close"}, sid : Sid \cup {"none"},
                              stage : {"idle", "closing", "over"}, copy : Rec, reply : Rec,
                              final : FinalState \cup {"none"}]]

\* What a session has is one of its own, made by its create: a record in the
\* store, a copy a close has read, a close that has answered, a deletion.
OnlyBornAreKnown ==
  /\ \A s \in Sid : born[s] # NoSession => born[s].closedBy = NoCaller
  /\ \A s \in Sid : Exists(s) \/ s \in removed => born[s] # NoSession
  /\ \A c \in RecCall : recCall[c].op = "close" /\ (recCall[c].stage = "closing" \/ recCall[c].reply # NoSession)
        => recCall[c].sid \in Sid /\ born[recCall[c].sid] # NoSession

\* A close that is under way has read the metadata its session was stored
\* with, and has not answered.
CopiesAreOfTheirSession ==
  \A c \in RecCall :
     /\ recCall[c].stage # "over" => recCall[c].reply = NoSession
     /\ recCall[c].stage = "closing" =>
           /\ recCall[c].op = "close" /\ recCall[c].sid \in Sid /\ recCall[c].copy # NoSession
           /\ recCall[c].final \in FinalState
           /\ recCall[c].copy.metadata = Stored(born[recCall[c].sid]).metadata

RecInv == RecTypes /\ OnlyBornAreKnown /\ CopiesAreOfTheirSession /\ RecordsAreOfOneClose

LEMMA StoredFacts ==
  ASSUME NEW r \in Rec
  PROVE  /\ Stored(r) \in Rec /\ Stored(r).state = r.state /\ Stored(r).closedBy = r.closedBy
         /\ Stored(r).metadata = IF backend = "sqlite" /\ r.metadata = "custom" THEN "plain" ELSE r.metadata
BY DEF Stored, Rec

LEMMA InitRecords == RecInit => RecInv
<1> SUFFICES ASSUME RecInit PROVE RecInv
  OBVIOUS
<1>1. NoSession \in Rec
  BY DEF NoSession, Rec
<1>2. /\ \A s \in Sid : sessions[s] = NoSession /\ born[s] = NoSession
      /\ \A c \in RecCall : recCall[c] = IdleRecCall
      /\ removed = {}
  BY DEF RecInit
<1>3. RecTypes
  BY <1>1 DEF RecInit, RecTypes, IdleRecCall
<1>4. OnlyBornAreKnown /\ CopiesAreOfTheirSession
  BY <1>2 DEF OnlyBornAreKnown, CopiesAreOfTheirSession, Exists, IdleRecCall
<1>5. RecordsAreOfOneClose
  BY <1>2 DEF RecordsAreOfOneClose, Exists
<1> QED BY <1>3, <1>4, <1>5 DEF RecInv

\* What each session is owed, and what it is owed by the calls.
Fits(s) ==
  /\ Exists(s) =>
        /\ sessions[s].metadata = Stored(born[s]).metadata
        /\ IF sessions[s].closedBy = NoCaller
           THEN sessions[s] = Stored(born[s]) /\ \A c \in RecCall : ~ CloseAnswered(c, s)
           ELSE /\ CloseAnswered(sessions[s].closedBy, s)
                /\ sessions[s].state = recCall[sessions[s].closedBy].final
  /\ s \in removed /\ Exists(s) => sessions[s].closedBy # NoCaller

LEMMA RecordsFit == RecordsAreOfOneClose <=> \A s \in Sid : Fits(s)
BY DEF RecordsAreOfOneClose, Fits

\* A session that keeps its record and its closes fits as it did.
LEMMA FitsAsBefore ==
  ASSUME NEW s \in Sid, RecTypes, Fits(s), UNCHANGED backend, sessions'[s] = sessions[s], born'[s] = born[s],
         s \in removed' => s \in removed,
         \A c \in RecCall : /\ CloseAnswered(c, s)' <=> CloseAnswered(c, s)
                            /\ CloseAnswered(c, s) => recCall'[c].final = recCall[c].final
  PROVE  Fits(s)'
<1>1. Stored(born[s])' = Stored(born[s])
  BY DEF Stored
<1>2. sessions[s].closedBy \in RecCall \cup {NoCaller}
  BY DEF RecTypes, Rec
<1>3. Exists(s)' <=> Exists(s)
  BY DEF Exists
<1>4. CASE ~ Exists(s)
  BY <1>3, <1>4 DEF Fits
<1>5. CASE Exists(s) /\ sessions[s].closedBy = NoCaller
  BY <1>1, <1>3, <1>5 DEF Fits
<1>6. CASE Exists(s) /\ sessions[s].closedBy \in RecCall /\ sessions[s].closedBy # NoCaller
  BY <1>1, <1>3, <1>6 DEF Fits
<1> QED BY <1>2, <1>4, <1>5, <1>6

\* A call that has ended stays as it is: what a step writes of another one.
LEMMA OneCallMoves ==
  ASSUME RecInv, NEW c \in RecCall, recCall[c].stage # "over",
         NEW r, recCall' = [recCall EXCEPT ![c] = r]
  PROVE  /\ recCall'[c] = r
         /\ \A d \in RecCall : d # c => recCall'[d] = recCall[d]
         /\ \A s : ~ CloseAnswered(c, s)
BY DEF RecInv, RecTypes, CopiesAreOfTheirSession, CloseAnswered

LEMMA CreateKeepsRecords ==
  ASSUME RecInv, NEW c \in RecCall, NEW s \in Sid, CreateSession(c, s) PROVE RecInv'
<1>1. PICK m \in {"none", "plain", "custom"}, r \in Rec :
        /\ r = [state |-> "created", closedBy |-> NoCaller, metadata |-> m]
        /\ sessions' = [sessions EXCEPT ![s] = Stored(r)] /\ Reply(c, "create", s, r)
        /\ born' = [born EXCEPT ![s] = r]
        /\ recCall[c].stage = "idle" /\ born[s] = NoSession /\ UNCHANGED <<backend, removed>>
  BY DEF CreateSession, Write, Rec
<1>2. PICK q : q = [IdleRecCall EXCEPT !.op = "create", !.sid = s, !.stage = "over", !.reply = r]
  OBVIOUS
<1>3. /\ q.op = "create" /\ q.stage = "over"
      /\ q \in [op : {"none", "create", "get", "close"}, sid : Sid \cup {"none"},
                stage : {"idle", "closing", "over"}, copy : Rec, reply : Rec,
                final : FinalState \cup {"none"}]
  BY <1>2 DEF IdleRecCall, NoSession, Rec
<1>4. /\ recCall' = [recCall EXCEPT ![c] = q] /\ recCall'[c] = q
      /\ \A d \in RecCall : d # c => recCall'[d] = recCall[d]
      /\ \A t : ~ CloseAnswered(c, t)
  BY <1>1, <1>2, OneCallMoves DEF Reply
<1>5. /\ Stored(r) \in Rec /\ Stored(r)' = Stored(r) /\ Stored(r).closedBy = NoCaller
      /\ Stored(r) # NoSession /\ r # NoSession
  BY <1>1, StoredFacts DEF Stored, NoSession
<1>6. RecTypes'
  BY <1>1, <1>3, <1>4, <1>5 DEF RecInv, RecTypes
<1>7. /\ sessions'[s] = Stored(r) /\ born'[s] = r
      /\ \A t \in Sid : t # s => sessions'[t] = sessions[t] /\ born'[t] = born[t]
  BY <1>1 DEF RecInv, RecTypes
<1>8. OnlyBornAreKnown'
  BY <1>1, <1>3, <1>4, <1>5, <1>7 DEF RecInv, OnlyBornAreKnown, Exists
<1>9. CopiesAreOfTheirSession'
  <2>1. \A d \in RecCall : recCall'[d].stage = "closing" =>
            d # c /\ recCall[d].sid # s /\ recCall[d].sid \in Sid
    BY <1>1, <1>3, <1>4 DEF RecInv, OnlyBornAreKnown, CopiesAreOfTheirSession
  <2>2. \A t \in Sid : t # s => Stored(born[t])' = Stored(born[t])
    BY <1>1, <1>7 DEF Stored
  <2> QED BY <1>3, <1>4, <2>1, <2>2 DEF RecInv, CopiesAreOfTheirSession
<1>10. \A d \in RecCall, t \in Sid : /\ CloseAnswered(d, t)' <=> CloseAnswered(d, t)
                                     /\ CloseAnswered(d, t) => recCall'[d].final = recCall[d].final
  BY <1>3, <1>4 DEF CloseAnswered
<1>11. ASSUME NEW t \in Sid PROVE Fits(t)'
  <2>1. CASE t = s
    <3>1. \A d \in RecCall : ~ CloseAnswered(d, s)'
      <4>1. \A d \in RecCall : CloseAnswered(d, s) => born[s] # NoSession
        BY DEF RecInv, OnlyBornAreKnown, CloseAnswered
      <4> QED BY <1>1, <1>10, <4>1
    <3>2. s \notin removed'
      BY <1>1 DEF RecInv, OnlyBornAreKnown
    <3> QED BY <1>1, <1>5, <1>7, <2>1, <3>1, <3>2 DEF Fits
  <2>2. CASE t # s
    <3>1. RecTypes /\ Fits(t)
      BY RecordsFit DEF RecInv
    <3>2. /\ UNCHANGED backend /\ sessions'[t] = sessions[t] /\ born'[t] = born[t]
          /\ t \in removed' => t \in removed
      BY <1>1, <1>7, <2>2
    <3>3. \A d \in RecCall : /\ CloseAnswered(d, t)' <=> CloseAnswered(d, t)
                             /\ CloseAnswered(d, t) => recCall'[d].final = recCall[d].final
      BY <1>10
    <3> QED BY <3>1, <3>2, <3>3, FitsAsBefore
  <2> QED BY <2>1, <2>2
<1> QED BY <1>6, <1>8, <1>9, <1>11, RecordsFit DEF RecInv, RecordsAreOfOneClose, Fits

\* Calls that end without a close, or copy what they will close, write nothing.
LEMMA ReadKeepsRecords ==
  ASSUME RecInv, NEW c \in RecCall, recCall[c].stage = "idle", UNCHANGED <<backend, sessions, born, removed>>,
         NEW q \in [op : {"none", "create", "get", "close"}, sid : Sid \cup {"none"},
                   stage : {"idle", "closing", "over"}, copy : Rec, reply : Rec,
                   final : FinalState \cup {"none"}],
         recCall' = [recCall EXCEPT ![c] = q],
         q.op = "close" => q.reply = NoSession,
         q.stage # "over" => q.reply = NoSession,
         q.stage = "closing" => /\ q.op = "close" /\ q.sid \in Sid /\ Exists(q.sid)
                                /\ q.copy = sessions[q.sid] /\ q.final \in FinalState
  PROVE  RecInv'
<1>1. /\ recCall'[c] = q
      /\ \A d \in RecCall : d # c => recCall'[d] = recCall[d]
      /\ \A t : ~ CloseAnswered(c, t)
  BY OneCallMoves
<1>2. RecTypes'
  BY <1>1 DEF RecInv, RecTypes
<1>3. OnlyBornAreKnown'
  BY <1>1 DEF RecInv, OnlyBornAreKnown, Exists
<1>4. q.stage = "closing" => q.copy # NoSession /\ q.copy.metadata = Stored(born[q.sid]).metadata
  BY RecordsFit DEF RecInv, Fits, Exists
<1>5. \A t : Stored(born[t])' = Stored(born[t])
  BY DEF Stored
<1>6. CopiesAreOfTheirSession'
  BY <1>1, <1>4, <1>5 DEF RecInv, CopiesAreOfTheirSession
<1>7. \A d \in RecCall, t \in Sid : /\ CloseAnswered(d, t)' <=> CloseAnswered(d, t)
                                    /\ CloseAnswered(d, t) => recCall'[d].final = recCall[d].final
  BY <1>1 DEF CloseAnswered
<1>8. ASSUME NEW t \in Sid PROVE Fits(t)'
  <2>1. RecTypes /\ Fits(t)
    BY RecordsFit DEF RecInv
  <2>2. /\ UNCHANGED backend /\ sessions'[t] = sessions[t] /\ born'[t] = born[t]
        /\ t \in removed' => t \in removed
    OBVIOUS
  <2>3. \A d \in RecCall : /\ CloseAnswered(d, t)' <=> CloseAnswered(d, t)
                           /\ CloseAnswered(d, t) => recCall'[d].final = recCall[d].final
    BY <1>7
  <2> QED BY <2>1, <2>2, <2>3, FitsAsBefore
<1> QED BY <1>2, <1>3, <1>6, <1>8, RecordsFit DEF RecInv, RecordsAreOfOneClose, Fits

LEMMA CloseKeepsRecords == ASSUME RecInv, NEW c \in RecCall, WriteClosed(c) PROVE RecInv'
<1>1. PICK s \in Sid : s = recCall[c].sid
  BY DEF WriteClosed, RecInv, CopiesAreOfTheirSession
<1>2. PICK r : r = Closed(c)
  OBVIOUS
<1>3. /\ recCall[c].stage = "closing" /\ recCall[c].op = "close" /\ born[s] # NoSession
      /\ recCall[c].copy \in Rec /\ recCall[c].copy.metadata = Stored(born[s]).metadata
      /\ recCall[c].final \in FinalState
  BY <1>1 DEF WriteClosed, RecInv, CopiesAreOfTheirSession, OnlyBornAreKnown, RecTypes
<1>4. /\ r \in Rec /\ r.closedBy = c /\ r.state = recCall[c].final
      /\ r.metadata = Stored(born[s]).metadata /\ r # NoSession
  <2>1. r = [recCall[c].copy EXCEPT !.state = recCall[c].final, !.closedBy = c]
    BY <1>2 DEF Closed
  <2> QED BY <1>3, <2>1, RecAssumption DEF Rec, NoSession
<1>5. /\ Stored(r) \in Rec /\ Stored(r).closedBy = c /\ Stored(r).state = recCall[c].final
      /\ Stored(r).metadata = Stored(born[s]).metadata
  <2>1. born[s] \in Rec
    BY DEF RecInv, RecTypes
  <2> QED BY <1>4, <2>1, StoredFacts
<1>6. /\ sessions' = [sessions EXCEPT ![s] = Stored(r)] /\ UNCHANGED <<backend, born, removed>>
      /\ recCall' = [recCall EXCEPT ![c] = [recCall[c] EXCEPT !.stage = "over", !.reply = r]]
  <2>1. recCall' = [recCall EXCEPT ![c].stage = "over", ![c].reply = r]
    BY <1>2 DEF WriteClosed
  <2> QED BY <1>1, <1>2, <2>1 DEF WriteClosed, Write, RecInv, RecTypes
<1>7. PICK q : q = [recCall[c] EXCEPT !.stage = "over", !.reply = r]
  OBVIOUS
<1>8. /\ q.op = "close" /\ q.stage = "over" /\ q.sid = s /\ q.reply = r /\ q.final = recCall[c].final
      /\ q \in [op : {"none", "create", "get", "close"}, sid : Sid \cup {"none"},
                stage : {"idle", "closing", "over"}, copy : Rec, reply : Rec,
                final : FinalState \cup {"none"}]
  <2>1. recCall[c] \in [op : {"none", "create", "get", "close"}, sid : Sid \cup {"none"},
                        stage : {"idle", "closing", "over"}, copy : Rec, reply : Rec,
                        final : FinalState \cup {"none"}]
    BY DEF RecInv, RecTypes
  <2>2. recCall[c].op = "close" /\ recCall[c].sid = s /\ r \in Rec
    BY <1>1, <1>3, <1>4
  <2> HIDE DEF Rec
  <2> QED BY <1>7, <2>1, <2>2
<1>9. /\ recCall'[c] = q
      /\ \A d \in RecCall : d # c => recCall'[d] = recCall[d]
      /\ \A t : ~ CloseAnswered(c, t)
  BY <1>3, <1>6, <1>7, OneCallMoves
<1>10. sessions'[s] = Stored(r) /\ \A t \in Sid : t # s => sessions'[t] = sessions[t]
  BY <1>6 DEF RecInv, RecTypes
<1>11. RecTypes'
  BY <1>5, <1>6, <1>7, <1>8 DEF RecInv, RecTypes
<1>12. OnlyBornAreKnown'
  BY <1>3, <1>6, <1>8, <1>9, <1>10 DEF RecInv, OnlyBornAreKnown, Exists
<1>13. \A t : Stored(born[t])' = Stored(born[t])
  BY <1>6 DEF Stored
<1>14. CopiesAreOfTheirSession'
  BY <1>6, <1>8, <1>9, <1>13 DEF RecInv, CopiesAreOfTheirSession
<1>15. ASSUME NEW t \in Sid PROVE Fits(t)'
  <2>1. CASE t = s
    <3>1. CloseAnswered(c, s)' /\ recCall'[c].final = recCall[c].final
      BY <1>4, <1>8, <1>9 DEF CloseAnswered
    <3> QED BY <1>5, <1>10, <1>13, <2>1, <3>1, RecAssumption DEF Fits
  <2>2. CASE t # s
    <3>1. \A d \in RecCall : /\ CloseAnswered(d, t)' <=> CloseAnswered(d, t)
                             /\ CloseAnswered(d, t) => recCall'[d].final = recCall[d].final
      BY <1>8, <1>9, <2>2 DEF CloseAnswered
    <3> QED BY <1>6, <1>10, <2>2, <3>1, FitsAsBefore, RecordsFit DEF RecInv
  <2> QED BY <2>1, <2>2
<1> QED BY <1>11, <1>12, <1>14, <1>15, RecordsFit DEF RecInv, RecordsAreOfOneClose, Fits

LEMMA DeleteKeepsRecords == ASSUME RecInv, NEW s \in Sid, DeleteSession(s) PROVE RecInv'
<1>1. /\ Exists(s) /\ sessions' = [sessions EXCEPT ![s] = NoSession] /\ removed' = removed \cup {s}
      /\ UNCHANGED <<backend, born, recCall>>
  BY DEF DeleteSession
<1>2. sessions'[s] = NoSession /\ \A t \in Sid : t # s => sessions'[t] = sessions[t]
  BY <1>1 DEF RecInv, RecTypes
<1>3. RecTypes'
  BY <1>1 DEF RecInv, RecTypes, NoSession, Rec
<1>4. OnlyBornAreKnown'
  BY <1>1, <1>2 DEF RecInv, OnlyBornAreKnown, Exists
<1>5. CopiesAreOfTheirSession'
  BY <1>1 DEF RecInv, CopiesAreOfTheirSession, Stored
<1>6. \A d \in RecCall, t \in Sid : CloseAnswered(d, t)' <=> CloseAnswered(d, t)
  BY <1>1 DEF CloseAnswered
<1>7. ASSUME NEW t \in Sid PROVE Fits(t)'
  <2>1. CASE t = s
    BY <1>2, <2>1 DEF Fits, Exists
  <2>2. CASE t # s
    BY <1>1, <1>2, <1>6, <2>2, FitsAsBefore, RecordsFit DEF RecInv
  <2> QED BY <2>1, <2>2
<1> QED BY <1>3, <1>4, <1>5, <1>7, RecordsFit DEF RecInv, RecordsAreOfOneClose, Fits

LEMMA StepKeepsRecords == RecInv /\ [RecNext]_recVars => RecInv'
<1> SUFFICES ASSUME RecInv, [RecNext]_recVars PROVE RecInv'
  OBVIOUS
<1> DEFINE Calls == [op : {"none", "create", "get", "close"}, sid : Sid \cup {"none"},
                     stage : {"idle", "closing", "over"}, copy : Rec, reply : Rec,
                     final : FinalState \cup {"none"}]
<1>0. IdleRecCall \in Calls /\ NoSession \in Rec
  BY DEF IdleRecCall, NoSession, Rec
<1>1. ASSUME NEW c \in RecCall, NEW s \in Sid, GetSession(c, s) PROVE RecInv'
  <2>1. PICK q : q = [IdleRecCall EXCEPT !.op = "get", !.sid = s, !.stage = "over", !.reply = sessions[s]]
    OBVIOUS
  <2>2. q \in Calls /\ q.op = "get" /\ q.stage = "over"
    BY <1>0, <2>1 DEF IdleRecCall, RecInv, RecTypes
  <2>3. /\ recCall' = [recCall EXCEPT ![c] = q] /\ recCall[c].stage = "idle"
        /\ UNCHANGED <<backend, sessions, born, removed>>
    BY <1>1, <2>1 DEF GetSession, Reply
  <2> HIDE DEF Calls
  <2> QED BY <2>2, <2>3, ReadKeepsRecords DEF Calls
<1>2. ASSUME NEW c \in RecCall, NEW s \in Sid, NEW f \in FinalState, ReadToClose(c, s, f) PROVE RecInv'
  <2>1. recCall[c].stage = "idle" /\ UNCHANGED <<backend, sessions, born, removed>>
    BY <1>2 DEF ReadToClose
  <2>2. CASE Exists(s)
    <3>1. PICK q : q = [IdleRecCall EXCEPT !.op = "close", !.sid = s, !.stage = "closing",
                                           !.copy = sessions[s], !.final = f]
      OBVIOUS
    <3>2. /\ q \in Calls /\ q.op = "close" /\ q.stage = "closing" /\ q.sid = s /\ q.copy = sessions[s]
          /\ q.reply = NoSession /\ q.final = f
      BY <1>0, <3>1 DEF IdleRecCall, RecInv, RecTypes
    <3>3. recCall' = [recCall EXCEPT ![c] = q]
      BY <1>2, <2>2, <3>1 DEF ReadToClose
    <3> HIDE DEF Calls
    <3> QED BY <2>1, <2>2, <3>2, <3>3, ReadKeepsRecords DEF Calls
  <2>3. CASE ~ Exists(s)
    <3>1. PICK q : q = [IdleRecCall EXCEPT !.op = "close", !.sid = s, !.stage = "over", !.reply = NoSession]
      OBVIOUS
    <3>2. q \in Calls /\ q.op = "close" /\ q.stage = "over" /\ q.reply = NoSession
      BY <1>0, <3>1 DEF IdleRecCall, RecInv, RecTypes
    <3>3. recCall' = [recCall EXCEPT ![c] = q]
      BY <1>2, <2>3, <3>1 DEF ReadToClose, Reply
    <3> HIDE DEF Calls
    <3> QED BY <2>1, <3>2, <3>3, ReadKeepsRecords DEF Calls
  <2> QED BY <2>2, <2>3
<1>3. CASE UNCHANGED recVars
  BY <1>3 DEF recVars, RecInv, RecTypes, OnlyBornAreKnown, CopiesAreOfTheirSession, RecordsAreOfOneClose,
              Exists, CloseAnswered, Stored
<1> QED BY <1>1, <1>2, <1>3, CreateKeepsRecords, CloseKeepsRecords, DeleteKeepsRecords DEF RecNext

-----------------------------------------------------------------------------
(* The web page.                                                           *)

Has(s, x) == \E i \in 1..Len(s) : s[i] = x
Once(s, x) == \A i, j \in 1..Len(s) : s[i] = x /\ s[j] = x => i = j

LEMMA TimesCount ==
  ASSUME NEW S, NEW s \in Seq(S), NEW x
  PROVE  /\ Times(s, x) <= 1 <=> Once(s, x)
         /\ Times(s, x) = 1 <=> Once(s, x) /\ Has(s, x)
<1>1. PICK P : P = {i \in 1..Len(s) : s[i] = x}
  OBVIOUS
<1>2. Times(s, x) = Cardinality(P)
  BY <1>1, LenProperties DEF Times
<1>3. IsFiniteSet(P) /\ Cardinality(P) \in Nat
  <2>1. Len(s) \in Nat
    BY LenProperties
  <2>2. IsFiniteSet(1..Len(s))
    BY <2>1, FS_Interval
  <2> QED BY <1>1, <2>2, FS_Subset, FS_CardinalityType
<1>4. Cardinality(P) = 0 <=> P = {}
  BY <1>3, FS_EmptySet
<1>5. Cardinality(P) = 1 <=> \E i : P = {i}
  BY <1>3, FS_Singleton
<1>6. P = {} <=> ~ Has(s, x)
  BY <1>1 DEF Has
<1>7. (\E i : P = {i}) <=> Has(s, x) /\ Once(s, x)
  <2>1. ASSUME NEW i, P = {i} PROVE Has(s, x) /\ Once(s, x)
    <3>1. \A j \in 1..Len(s) : s[j] = x <=> j = i
      BY <1>1, <2>1
    <3>2. i \in 1..Len(s) /\ s[i] = x
      BY <1>1, <2>1
    <3> QED BY <3>1, <3>2 DEF Has, Once
  <2>2. ASSUME Has(s, x), Once(s, x) PROVE \E i : P = {i}
    <3>1. PICK i \in 1..Len(s) : s[i] = x
      BY <2>2 DEF Has
    <3>2. P = {i}
      BY <1>1, <2>2, <3>1 DEF Once
    <3> QED BY <3>2
  <2> QED BY <2>1, <2>2
<1>8. ~ Has(s, x) => Once(s, x)
  BY DEF Has, Once
<1>9. Cardinality(P) <= 1 <=> Cardinality(P) = 0 \/ Cardinality(P) = 1
  BY <1>3
<1> QED BY <1>2, <1>4, <1>5, <1>6, <1>7, <1>8, <1>9

LEMMA AppendCounts ==
  ASSUME NEW S, NEW s \in Seq(S), NEW e \in S, NEW x
  PROVE  /\ Append(s, e) \in Seq(S) /\ Append(s, e) # << >>
         /\ Has(Append(s, e), x) <=> Has(s, x) \/ e = x
         /\ Once(s, x) /\ ~(Has(s, x) /\ e = x) => Once(Append(s, e), x)
<1>1. /\ Append(s, e) \in Seq(S) /\ Append(s, e) # << >> /\ Len(Append(s, e)) = Len(s) + 1
      /\ \A i \in 1..Len(s) : Append(s, e)[i] = s[i]
      /\ Append(s, e)[Len(s) + 1] = e /\ Len(s) \in Nat
  BY AppendProperties, LenProperties
<1>2. PICK a : a = Append(s, e)
  OBVIOUS
<1> QED BY <1>1, <1>2 DEF Has, Once

LEMMA TailCounts ==
  ASSUME NEW S, NEW s \in Seq(S), s # << >>, NEW x
  PROVE  /\ Tail(s) \in Seq(S) /\ Head(s) \in S
         /\ Has(s, x) <=> Head(s) = x \/ Has(Tail(s), x)
         /\ Once(s, x) => Once(Tail(s), x) /\ ~(Head(s) = x /\ Has(Tail(s), x))
<1>0. /\ Tail(s) \in Seq(S) /\ Head(s) \in S /\ Len(Tail(s)) = Len(s) - 1
      /\ Len(s) \in Nat /\ Len(Tail(s)) \in Nat /\ s[1] = Head(s)
      /\ \A i \in 1..Len(Tail(s)) : Tail(s)[i] = s[i + 1]
  BY HeadTailProperties, LenProperties
<1> DEFINE t == Tail(s) h == Head(s) n == Len(t)
<1>1. /\ n = Len(t) /\ Len(s) = n + 1 /\ s[1] = h
      /\ t \in Seq(S) /\ h \in S /\ n \in Nat
      /\ \A i \in 1..n : t[i] = s[i + 1]
  BY <1>0
<1> HIDE DEF t, h, n
<1>2. Has(s, x) <=> h = x \/ Has(t, x)
  <2>1. ASSUME NEW i \in 1..(n + 1), s[i] = x PROVE h = x \/ Has(t, x)
    <3>1. CASE i = 1
      BY <1>1, <2>1, <3>1
    <3>2. CASE i # 1
      <4>1. i - 1 \in 1..n /\ t[i - 1] = s[i]
        BY <1>1, <3>2
      <4> QED BY <1>1, <2>1, <4>1 DEF Has
    <3> QED BY <3>1, <3>2
  <2>2. h = x => Has(s, x)
    BY <1>1 DEF Has
  <2>3. Has(t, x) => Has(s, x)
    BY <1>1 DEF Has
  <2> QED BY <1>1, <2>1, <2>2, <2>3 DEF Has
<1>3. ASSUME Once(s, x) PROVE Once(t, x) /\ ~(h = x /\ Has(t, x))
  <2>1. \A i \in 1..n : t[i] = x => s[i + 1] = x /\ i + 1 \in 1..Len(s) /\ i + 1 # 1
    BY <1>1
  <2>2. 1 \in 1..Len(s)
    BY <1>1
  <2> QED BY <1>1, <1>3, <2>1, <2>2 DEF Once, Has
<1> QED BY <1>1, <1>2, <1>3 DEF t, h

LEMMA ConcatCounts ==
  ASSUME NEW S, NEW s \in Seq(S), NEW t \in Seq(S), NEW x
  PROVE  /\ Has(s \o t, x) <=> Has(s, x) \/ Has(t, x)
         /\ Once(s, x) /\ Once(t, x) /\ ~(Has(s, x) /\ Has(t, x)) => Once(s \o t, x)
<1> DEFINE u == s \o t m == Len(s) n == Len(t)
<1>1. /\ m = Len(s) /\ n = Len(t) /\ Len(u) = m + n
      /\ m \in Nat /\ n \in Nat
      /\ \A i \in 1..(m + n) : u[i] = IF i <= m THEN s[i] ELSE t[i - m]
  BY ConcatProperties, LenProperties
<1> HIDE DEF u, m, n
<1>2. \A i \in 1..m : i \in 1..Len(u) /\ u[i] = s[i]
  BY <1>1
<1>3. \A i \in 1..n : i + m \in 1..Len(u) /\ u[i + m] = t[i]
  BY <1>1
<1>4. \A i \in 1..Len(u) : (i \in 1..m /\ u[i] = s[i]) \/ (i - m \in 1..n /\ u[i] = t[i - m])
  <2> TAKE i \in 1..Len(u)
  <2>1. i \in 1..(m + n)
    BY <1>1
  <2>2. CASE i <= m
    BY <1>1, <2>1, <2>2
  <2>3. CASE ~ (i <= m)
    BY <1>1, <2>1, <2>3
  <2> QED BY <2>2, <2>3
<1>5. Has(u, x) <=> Has(s, x) \/ Has(t, x)
  <2>1. Has(u, x) => Has(s, x) \/ Has(t, x)
    BY <1>1, <1>4 DEF Has
  <2>2. Has(s, x) => Has(u, x)
    BY <1>1, <1>2 DEF Has
  <2>3. Has(t, x) => Has(u, x)
    BY <1>1, <1>3 DEF Has
  <2> QED BY <2>1, <2>2, <2>3
<1>6. ASSUME Once(s, x), Once(t, x), ~(Has(s, x) /\ Has(t, x)),
             NEW i \in 1..Len(u), NEW j \in 1..Len(u), u[i] = x, u[j] = x
      PROVE  i = j
  <2>1. \/ i \in 1..m /\ j \in 1..m /\ s[i] = x /\ s[j] = x
        \/ i - m \in 1..n /\ j - m \in 1..n /\ t[i - m] = x /\ t[j - m] = x
    BY <1>1, <1>4, <1>6 DEF Has
  <2>2. i - m = j - m => i = j
    BY <1>1
  <2> QED BY <1>1, <1>6, <2>1, <2>2 DEF Once
<1> QED BY <1>1, <1>5, <1>6 DEF Once, u

LEMMA EmptyCounts == ASSUME NEW x PROVE ~ Has(<< >>, x) /\ Once(<< >>, x)
BY EmptySeq DEF Has, Once

Queued == Post \cup {HeartbeatEvent}

UiTypes ==
  /\ server \in {"off", "polling", "waiting", "returned"}
  /\ beat \in {"off", "polling", "waiting", "exited"}
  /\ tab \in [Tab -> {"away", "accepted", "open", "closed", "timed out"}]
  /\ active_sse_subs \subseteq Tab /\ quiet \in [Tab -> Nat] /\ due \in BOOLEAN
  /\ inbox \in [Tab -> Seq(Queued)] /\ got \in [Tab -> Seq(Queued)]
  /\ post \in [Post -> {"new", "accepted", "400", "forwarding", "acking", "200"}]
  /\ to \in [Post -> SUBSET (Agent \cup Tab)] /\ called \in [Post -> SUBSET (Agent \cup Tab)]
  /\ agent \in [Agent -> {"on", "dropped"}] /\ heard \in [Agent -> Seq(Queued)]

\* No connection is there before run has begun, a listed or a called one is
\* open or has been.
TabsComeInOrder ==
  /\ server = "off" => beat = "off" /\ notify \in [waiters : {<< >>}, woken : {{}}, permit : BOOLEAN]
  /\ beat = "off" => server \in {"off", "returned"} /\ \A c \in Tab : tab[c] = "away"
  /\ \A c \in Tab : c \in active_sse_subs \/ (\E p \in Post : c \in called[p])
        => tab[c] \notin {"away", "accepted"}

\* The agents a post was sent to have it, once, before any tab can know.
Forwarded(p, a) ==
  /\ Once(heard[a], p)
  /\ Has(heard[a], p) => \/ post[p] \in {"acking", "200"}
                         \/ post[p] = "forwarding" /\ a \notin to[p]
  /\ agent[a] = "on" /\ ( \/ post[p] \in {"acking", "200"}
                          \/ post[p] = "forwarding" /\ a \notin to[p] )
        => Has(heard[a], p)

\* The tabs it was acknowledged to have it, once, in their queue or beyond.
Acked(p, c) ==
  /\ Once(got[c], p) /\ Once(inbox[c], p) /\ ~ (Has(got[c], p) /\ Has(inbox[c], p))
  /\ Has(got[c], p) \/ Has(inbox[c], p) =>
        post[p] \in {"acking", "200"} /\ c \in called[p] /\ c \notin to[p]
  /\ Has(got[c], p) => Matches(c, p)
  /\ tab[c] = "open" /\ c \in called[p] /\ c \notin to[p] /\ Matches(c, p)
        => Has(got[c], p) \/ Has(inbox[c], p)

\* What is left to send, and to whom, at each stage of a post.
Stands(p) ==
  /\ post[p] \in {"new", "accepted", "400"} => called[p] = {}
  /\ post[p] = "forwarding" => called[p] \subseteq Agent
  /\ post[p] = "acking" => to[p] \subseteq called[p]
  /\ post[p] = "200" => to[p] = {}

PostsStand ==
  \A p \in Post : /\ Stands(p)
                  /\ \A a \in Agent : Forwarded(p, a)
                  /\ \A c \in Tab : Acked(p, c)

\* While the heartbeat runs, a tab that was silent for a period is about to be
\* written to.
HeartbeatsCome ==
  /\ \A c \in Tab : tab[c] # "open" => quiet[c] = 0
  /\ \A c \in Tab : tab[c] = "open" /\ beat # "exited" =>
        /\ c \in active_sse_subs /\ quiet[c] <= 1
        /\ quiet[c] > 0 => due \/ inbox[c] # << >>
  /\ IdleTabsStay

UiInv == UiTypes /\ TabsComeInOrder /\ PostsStand /\ HeartbeatsCome

LEMMA UiInvSuffices == UiInv => InputsReachBothSides /\ IdleTabsStay
<1> SUFFICES ASSUME UiInv PROVE InputsReachBothSides
  BY DEF UiInv, HeartbeatsCome
<1> SUFFICES ASSUME NEW p \in Post
             PROVE  /\ \A c \in Tab :
                          /\ Times(got[c] \o inbox[c], p) <= 1
                          /\ Times(got[c], p) = 1 => Matches(c, p) /\ c \in called[p]
                          /\ post[p] = "200" /\ c \in called[p] /\ tab[c] = "open" /\ Matches(c, p)
                                => Times(got[c] \o inbox[c], p) = 1
                    /\ \A a \in Agent :
                          /\ Times(heard[a], p) <= 1
                          /\ Times(heard[a], p) = 1 => post[p] # "400"
                          /\ (\E c \in Tab : Times(got[c], p) = 1) \/ post[p] = "200"
                                => (agent[a] = "on" => Times(heard[a], p) = 1)
  BY DEF InputsReachBothSides
<1>1. ASSUME NEW c \in Tab
      PROVE  /\ Times(got[c], p) = 1 <=> Has(got[c], p)
             /\ Times(got[c] \o inbox[c], p) <= 1
             /\ Times(got[c] \o inbox[c], p) = 1 <=> Has(got[c], p) \/ Has(inbox[c], p)
  <2>1. got[c] \in Seq(Queued) /\ inbox[c] \in Seq(Queued)
    BY DEF UiInv, UiTypes
  <2>2. got[c] \o inbox[c] \in Seq(Queued)
    BY <2>1, ConcatProperties
  <2>3. Once(got[c], p) /\ Once(inbox[c], p) /\ ~ (Has(got[c], p) /\ Has(inbox[c], p))
    BY DEF UiInv, PostsStand, Acked
  <2>4. /\ Has(got[c] \o inbox[c], p) <=> Has(got[c], p) \/ Has(inbox[c], p)
        /\ Once(got[c] \o inbox[c], p)
    BY <2>1, <2>3, ConcatCounts
  <2> QED BY <2>1, <2>2, <2>3, <2>4, TimesCount
<1>2. ASSUME NEW a \in Agent
      PROVE  Times(heard[a], p) <= 1 /\ (Times(heard[a], p) = 1 <=> Has(heard[a], p))
  <2>1. heard[a] \in Seq(Queued) /\ Once(heard[a], p)
    BY DEF UiInv, UiTypes, PostsStand, Forwarded
  <2> QED BY <2>1, TimesCount
<1>3. ASSUME NEW c \in Tab
      PROVE  /\ Has(got[c], p) => Matches(c, p) /\ c \in called[p] /\ post[p] \in {"acking", "200"}
             /\ post[p] = "200" /\ c \in called[p] /\ tab[c] = "open" /\ Matches(c, p)
                   => Has(got[c], p) \/ Has(inbox[c], p)
  BY DEF UiInv, PostsStand, Acked, Stands
<1>4. ASSUME NEW a \in Agent
      PROVE  /\ Has(heard[a], p) => post[p] # "400"
             /\ agent[a] = "on" /\ post[p] \in {"acking", "200"} => Has(heard[a], p)
  BY DEF UiInv, PostsStand, Forwarded
<1> QED BY <1>1, <1>2, <1>3, <1>4

LEMMA UiInitInv == WebUiInit => UiInv
<1> SUFFICES ASSUME WebUiInit PROVE UiInv
  OBVIOUS
<1>1. UiTypes
  BY EmptySeq DEF WebUiInit, UiTypes
<1>2. TabsComeInOrder /\ HeartbeatsCome
  BY DEF WebUiInit, TabsComeInOrder, HeartbeatsCome, IdleTabsStay
<1>3. \A p \in Post : Stands(p)
  BY DEF WebUiInit, Stands
<1>4. \A p \in Post, a \in Agent : Forwarded(p, a)
  BY EmptyCounts DEF WebUiInit, Forwarded
<1>5. \A p \in Post, c \in Tab : Acked(p, c)
  BY EmptyCounts DEF WebUiInit, Acked
<1> QED BY <1>1, <1>2, <1>3, <1>4, <1>5 DEF UiInv, PostsStand

-----------------------------------------------------------------------------
\* A step of the loops alone.
LEMMA LoopsKeepUi ==
  ASSUME UiInv, UNCHANGED <<uiTabs, uiPosts>>,
         Stop \/ Run \/ RunPolls \/ BeatPolls \/ RunStops \/ BeatStops
  PROVE  UiInv'
<1>1. UNCHANGED <<tab, active_sse_subs, inbox, stalled, quiet, due, got, post, to, agent, heard, called>>
  BY DEF uiTabs, uiPosts
<1>2. /\ server' \in {"off", "polling", "waiting", "returned"}
      /\ beat' \in {"off", "polling", "waiting", "exited"}
  BY DEF Stop, Run, RunPolls, BeatPolls, RunStops, BeatStops, UiInv, UiTypes
<1>3. UiTypes'
  BY <1>1, <1>2 DEF UiInv, UiTypes
<1>4. /\ beat = "exited" => beat' = "exited"
      /\ beat' = "off" => beat = "off" /\ server' \in {"off", "returned"}
      /\ server' = "off" => server = "off"
  BY DEF Stop, Run, RunPolls, BeatPolls, RunStops, BeatStops, UiInv, UiTypes, TabsComeInOrder
<1>5. server' = "off" => beat' = "off" /\ notify' \in [waiters : {<< >>}, woken : {{}}, permit : BOOLEAN]
  BY <1>4 DEF Stop, Run, RunPolls, BeatPolls, RunStops, BeatStops, UiInv, TabsComeInOrder, NotifyOne
<1>6. TabsComeInOrder'
  BY <1>1, <1>4, <1>5 DEF UiInv, TabsComeInOrder
<1>7. HeartbeatsCome'
  BY <1>1, <1>4 DEF UiInv, HeartbeatsCome, IdleTabsStay
<1>8. PostsStand'
  BY <1>1 DEF UiInv, PostsStand, Stands, Forwarded, Acked
<1> QED BY <1>3, <1>6, <1>7, <1>8 DEF UiInv

\* Posts are where they were when no list or queue of theirs has changed.
LEMMA PostsAsBefore ==
  ASSUME PostsStand, UNCHANGED <<inbox, got, post, to, agent, heard, called>>,
         \A c \in Tab : tab'[c] = "open" => tab[c] = "open" \/ \A p \in Post : c \notin called[p]
  PROVE  PostsStand'
<1>1. \A p \in Post : Stands(p)'
  BY DEF PostsStand, Stands
<1>2. \A p \in Post, a \in Agent : Forwarded(p, a)'
  BY DEF PostsStand, Forwarded
<1>3. \A p \in Post, c \in Tab : Acked(p, c)'
  BY DEF PostsStand, Acked
<1> QED BY <1>1, <1>2, <1>3 DEF PostsStand

LEMMA AcceptTabKeepsUi == ASSUME UiInv, NEW c \in Tab, AcceptTab(c) PROVE UiInv'
<1>1. /\ server = "waiting" /\ tab[c] = "away" /\ tab' = [tab EXCEPT ![c] = "accepted"]
      /\ server' = "polling"
      /\ UNCHANGED <<beat, active_sse_subs, inbox, quiet, due, got, post, to, agent, heard, called>>
  BY DEF AcceptTab, uiPosts
<1>2. /\ tab'[c] = "accepted" /\ \A d \in Tab : d # c => tab'[d] = tab[d]
      /\ tab' \in [Tab -> {"away", "accepted", "open", "closed", "timed out"}]
  BY <1>1 DEF UiInv, UiTypes
<1>3. UiTypes'
  BY <1>1, <1>2 DEF UiInv, UiTypes
<1>4. TabsComeInOrder' /\ HeartbeatsCome'
  BY <1>1, <1>2 DEF UiInv, TabsComeInOrder, HeartbeatsCome, IdleTabsStay
<1>5. PostsStand'
  BY <1>1, <1>2, PostsAsBefore DEF UiInv
<1> QED BY <1>3, <1>4, <1>5 DEF UiInv

LEMMA OpenTabKeepsUi == ASSUME UiInv, NEW c \in Tab, OpenTab(c) PROVE UiInv'
<1>1. /\ tab[c] = "accepted" /\ tab' = [tab EXCEPT ![c] = "open"]
      /\ active_sse_subs' = active_sse_subs \cup {c}
      /\ UNCHANGED <<server, beat, notify, inbox, quiet, due, got, post, to, agent, heard, called>>
  BY DEF OpenTab, uiPosts, uiTasks
<1>2. /\ tab'[c] = "open" /\ \A d \in Tab : d # c => tab'[d] = tab[d]
      /\ tab' \in [Tab -> {"away", "accepted", "open", "closed", "timed out"}]
  BY <1>1 DEF UiInv, UiTypes
<1>3. UiTypes'
  BY <1>1, <1>2 DEF UiInv, UiTypes
<1>4. TabsComeInOrder'
  BY <1>1, <1>2 DEF UiInv, UiTypes, TabsComeInOrder
<1>7. HeartbeatsCome'
  <2>1. quiet[c] = 0
    BY <1>1 DEF UiInv, HeartbeatsCome
  <2>2. ASSUME NEW d \in Tab, tab'[d] # "open" PROVE quiet'[d] = 0
    BY <1>1, <1>2, <2>1, <2>2 DEF UiInv, HeartbeatsCome
  <2>3. ASSUME NEW d \in Tab, tab'[d] = "open", beat # "exited"
        PROVE  /\ d \in active_sse_subs' /\ quiet'[d] <= 1
               /\ quiet'[d] > 0 => due' \/ inbox'[d] # << >>
    <3>1. CASE d = c
      BY <1>1, <2>1, <3>1
    <3>2. CASE d # c
      BY <1>1, <1>2, <2>3, <3>2 DEF UiInv, HeartbeatsCome
    <3> QED BY <3>1, <3>2
  <2>4. IdleTabsStay'
    BY <1>1, <1>2 DEF UiInv, HeartbeatsCome, IdleTabsStay
  <2> QED BY <1>1, <2>2, <2>3, <2>4 DEF HeartbeatsCome
<1>5. \A p \in Post : c \notin called[p]
  BY <1>1 DEF UiInv, TabsComeInOrder
<1>6. PostsStand'
  BY <1>1, <1>2, <1>5, PostsAsBefore DEF UiInv
<1> QED BY <1>3, <1>4, <1>6, <1>7 DEF UiInv

LEMMA StallsKeepsUi == ASSUME UiInv, NEW c \in Tab, Stalls(c) PROVE UiInv'
<1>1. UNCHANGED <<server, beat, notify, tab, active_sse_subs, inbox, quiet, due, got, post, to, agent, heard, called>>
  BY DEF Stalls, uiPosts, uiTasks
<1>2. PostsStand'
  BY <1>1, PostsAsBefore DEF UiInv
<1> QED BY <1>1, <1>2 DEF UiInv, UiTypes, TabsComeInOrder, HeartbeatsCome, IdleTabsStay

\* What a tab that ended had in its queue is gone, and no one waits for it.
LEMMA EndsKeepsUi ==
  ASSUME UiInv, NEW c \in Tab, tab[c] = "open", NEW how \in {"closed", "timed out"}, Ends(c, how),
         how = "timed out" => beat = "exited"
  PROVE  UiInv'
<1>1. /\ tab' = [tab EXCEPT ![c] = how] /\ inbox' = [inbox EXCEPT ![c] = << >>]
      /\ quiet' = [quiet EXCEPT ![c] = 0]
      /\ UNCHANGED <<server, beat, notify, active_sse_subs, due, got, post, to, agent, heard, called>>
  BY DEF Ends, uiPosts, uiTasks
<1>2. /\ tab'[c] = how /\ inbox'[c] = << >> /\ quiet'[c] = 0
      /\ \A d \in Tab : d # c => tab'[d] = tab[d] /\ inbox'[d] = inbox[d] /\ quiet'[d] = quiet[d]
      /\ tab' \in [Tab -> {"away", "accepted", "open", "closed", "timed out"}]
      /\ inbox' \in [Tab -> Seq(Queued)] /\ quiet' \in [Tab -> Nat]
  <2>1. << >> \in Seq(Queued)
    BY EmptySeq
  <2> QED BY <1>1, <2>1 DEF UiInv, UiTypes
<1>3. UiTypes'
  BY <1>1, <1>2 DEF UiInv, UiTypes
<1>4. TabsComeInOrder' /\ HeartbeatsCome'
  BY <1>1, <1>2 DEF UiInv, UiTypes, TabsComeInOrder, HeartbeatsCome, IdleTabsStay
<1>5. \A p \in Post : Stands(p)'
  BY <1>1 DEF UiInv, PostsStand, Stands
<1>6. \A p \in Post, a \in Agent : Forwarded(p, a)'
  BY <1>1 DEF UiInv, PostsStand, Forwarded
<1>7. ASSUME NEW p \in Post, NEW d \in Tab PROVE Acked(p, d)'
  <2>1. Acked(p, d) /\ ~ Has(<< >>, p) /\ Once(<< >>, p)
    BY EmptyCounts DEF UiInv, PostsStand
  <2>2. CASE d = c
    BY <1>1, <1>2, <2>1, <2>2 DEF Acked
  <2>3. CASE d # c
    BY <1>1, <1>2, <2>1, <2>3 DEF Acked
  <2> QED BY <2>2, <2>3
<1> QED BY <1>3, <1>4, <1>5, <1>6, <1>7 DEF UiInv, PostsStand

LEMMA ElapseKeepsUi == ASSUME UiInv, Elapse PROVE UiInv'
<1>1. /\ ~due /\ beat # "polling"
      /\ \A c \in Tab : tab[c] = "open" => Blocked(c) \/ (inbox[c] = << >> /\ quiet[c] < 2)
      /\ quiet' = [c \in Tab |-> IF tab[c] = "open" /\ ~Blocked(c) THEN quiet[c] + 1 ELSE quiet[c]]
      /\ due' = (beat = "waiting")
      /\ UNCHANGED <<server, beat, notify, tab, active_sse_subs, inbox, got, post, to, agent, heard, called>>
  BY DEF Elapse, uiPosts, uiTasks
<1>2. UiTypes'
  <2>1. ASSUME NEW c \in Tab
        PROVE  (IF tab[c] = "open" /\ ~Blocked(c) THEN quiet[c] + 1 ELSE quiet[c]) \in Nat
    <3>1. quiet[c] \in Nat
      BY DEF UiInv, UiTypes
    <3>2. quiet[c] + 1 \in Nat
      BY <3>1
    <3> QED BY <3>1, <3>2
  <2>2. quiet' \in [Tab -> Nat]
    BY <1>1, <2>1
  <2>3. due' \in BOOLEAN
    BY <1>1
  <2> QED BY <1>1, <2>2, <2>3 DEF UiInv, UiTypes
<1>3. PostsStand' /\ TabsComeInOrder'
  BY <1>1, PostsAsBefore DEF UiInv, TabsComeInOrder
<1>4. ASSUME NEW c \in Tab, tab[c] = "open", beat # "exited"
      PROVE  quiet'[c] <= 1 /\ (quiet'[c] > 0 => due' \/ inbox[c] # << >>)
  <2>0. beat = "waiting" => due'
    BY <1>1
  <2>1. beat = "waiting"
    BY <1>1, <1>4 DEF UiInv, UiTypes, TabsComeInOrder
  <2>2. quiet[c] <= 1 /\ quiet[c] \in Nat /\ (quiet[c] > 0 => inbox[c] # << >>)
    BY <1>1, <1>4 DEF UiInv, UiTypes, HeartbeatsCome
  <2>3. CASE Blocked(c)
    BY <1>1, <2>1, <2>2, <2>3
  <2>4. CASE ~ Blocked(c)
    <3>1. quiet'[c] = quiet[c] + 1 /\ inbox[c] = << >>
      BY <1>1, <1>4, <2>4
    <3>2. quiet[c] = 0
      BY <2>2, <3>1
    <3> QED BY <2>0, <2>1, <3>1, <3>2
  <2> QED BY <2>3, <2>4
<1>5. HeartbeatsCome'
  BY <1>1, <1>4 DEF UiInv, HeartbeatsCome, IdleTabsStay
<1> QED BY <1>2, <1>3, <1>5 DEF UiInv

LEMMA WithHeartbeatCounts ==
  ASSUME NEW s \in Seq(Queued), NEW p \in Post
  PROVE  /\ WithHeartbeat(s) \in Seq(Queued) /\ WithHeartbeat(s) # << >>
         /\ Has(WithHeartbeat(s), p) <=> Has(s, p)
         /\ Once(s, p) => Once(WithHeartbeat(s), p)
<1>1. HeartbeatEvent \in Queued /\ HeartbeatEvent # p
  BY UiAssumption DEF Queued, HeartbeatEvent, UiAssumption
<1>2. (WithHeartbeat(s) = s /\ s # << >>) \/ WithHeartbeat(s) = Append(s, HeartbeatEvent)
  BY DEF WithHeartbeat
<1>3. PICK q : q = Append(s, HeartbeatEvent)
  OBVIOUS
<1>4. /\ q \in Seq(Queued) /\ q # << >> /\ (Has(q, p) <=> Has(s, p))
      /\ Once(s, p) => Once(q, p)
  BY <1>1, <1>3, AppendCounts
<1> QED BY <1>2, <1>3, <1>4

LEMMA BeatKeepsUi == ASSUME UiInv, HeartbeatTick PROVE UiInv'
<1>1. /\ beat = "waiting" /\ due' = FALSE /\ active_sse_subs' = Pruned /\ beat' = "polling"
      /\ inbox' = [c \in Tab |-> IF c \in Pruned /\ tab[c] = "open"
                                 THEN WithHeartbeat(inbox[c]) ELSE inbox[c]]
      /\ UNCHANGED <<server, tab, quiet, got, post, to, agent, heard, called>>
  BY DEF HeartbeatTick, uiPosts
<1>2. Pruned \subseteq active_sse_subs /\ \A c \in active_sse_subs : c \in Pruned <=> tab[c] = "open"
  BY DEF Pruned
<1>3. ASSUME NEW c \in Tab
      PROVE  /\ inbox[c] \in Seq(Queued)
             /\ inbox'[c] = inbox[c] \/ inbox'[c] = WithHeartbeat(inbox[c])
             /\ c \in Pruned => inbox'[c] = WithHeartbeat(inbox[c])
  BY <1>1 DEF UiInv, UiTypes, Pruned
<1>4. UiTypes'
  <2>1. ASSUME NEW c \in Tab
        PROVE  (IF c \in Pruned /\ tab[c] = "open" THEN WithHeartbeat(inbox[c]) ELSE inbox[c]) \in Seq(Queued)
    <3>1. WithHeartbeat(inbox[c]) \in Seq(Queued)
      BY <1>3, AppendProperties DEF WithHeartbeat, Queued
    <3> QED BY <1>3, <3>1
  <2>2. inbox' \in [Tab -> Seq(Queued)]
    BY <1>1, <2>1
  <2>3. active_sse_subs' \subseteq Tab
    BY <1>1, <1>2 DEF UiInv, UiTypes
  <2> QED BY <1>1, <2>2, <2>3 DEF UiInv, UiTypes
<1>5. TabsComeInOrder'
  <2>1. server # "off"
    BY <1>1 DEF UiInv, TabsComeInOrder
  <2> QED BY <1>1, <1>2, <2>1 DEF UiInv, TabsComeInOrder
<1>6. HeartbeatsCome'
  <2>1. ASSUME NEW c \in Tab, tab[c] = "open"
        PROVE  c \in Pruned /\ quiet[c] <= 1 /\ inbox'[c] # << >>
    <3>1. c \in active_sse_subs /\ quiet[c] <= 1
      BY <1>1, <2>1 DEF UiInv, HeartbeatsCome
    <3>2. c \in Pruned
      BY <1>2, <2>1, <3>1
    <3>3. WithHeartbeat(inbox[c]) # << >>
      BY <1>3, AppendProperties, LenProperties DEF WithHeartbeat, Queued
    <3> QED BY <1>3, <3>1, <3>2, <3>3
  <2>2. IdleTabsStay'
    BY <1>1 DEF UiInv, HeartbeatsCome, IdleTabsStay
  <2> QED BY <1>1, <2>1, <2>2 DEF UiInv, HeartbeatsCome
<1>7. \A p \in Post : Stands(p)'
  BY <1>1 DEF UiInv, PostsStand, Stands
<1>8. \A p \in Post, a \in Agent : Forwarded(p, a)'
  BY <1>1 DEF UiInv, PostsStand, Forwarded
<1>9. ASSUME NEW p \in Post, NEW c \in Tab PROVE Acked(p, c)'
  <2>1. Acked(p, c)
    BY DEF UiInv, PostsStand
  <2>2. /\ Has(WithHeartbeat(inbox[c]), p) <=> Has(inbox[c], p)
        /\ Once(inbox[c], p) => Once(WithHeartbeat(inbox[c]), p)
    BY <1>3, WithHeartbeatCounts
  <2>3. CASE inbox'[c] = inbox[c]
    BY <1>1, <2>1, <2>3 DEF Acked
  <2>4. CASE inbox'[c] = WithHeartbeat(inbox[c])
    BY <1>1, <2>1, <2>2, <2>4 DEF Acked
  <2> QED BY <1>3, <2>3, <2>4
<1> QED BY <1>4, <1>5, <1>6, <1>7, <1>8, <1>9 DEF UiInv, PostsStand

LEMMA WriteKeepsUi == ASSUME UiInv, NEW c \in Tab, WriteEvent(c) PROVE UiInv'
<1>1. /\ tab[c] = "open" /\ inbox[c] # << >>
      /\ inbox' = [inbox EXCEPT ![c] = Tail(inbox[c])] /\ quiet' = [quiet EXCEPT ![c] = 0]
      /\ got' = IF Matches(c, Head(inbox[c])) /\ Head(inbox[c]) # HeartbeatEvent
                THEN [got EXCEPT ![c] = Append(got[c], Head(inbox[c]))] ELSE got
      /\ UNCHANGED <<server, beat, notify, tab, active_sse_subs, due, post, to, agent, heard, called>>
  BY DEF WriteEvent, uiPosts, uiTasks
<1>2. inbox[c] \in Seq(Queued) /\ got[c] \in Seq(Queued)
  BY DEF UiInv, UiTypes
<1>3. PICK e \in Queued : e = Head(inbox[c])
  BY <1>1, <1>2, HeadTailProperties
<1>4. Tail(inbox[c]) \in Seq(Queued) /\ Append(got[c], e) \in Seq(Queued)
  BY <1>1, <1>2, HeadTailProperties, AppendProperties
<1>5. /\ inbox'[c] = Tail(inbox[c]) /\ quiet'[c] = 0
      /\ got'[c] = got[c] \/ (e # HeartbeatEvent /\ Matches(c, e) /\ got'[c] = Append(got[c], e))
      /\ e # HeartbeatEvent /\ Matches(c, e) => got'[c] = Append(got[c], e)
      /\ \A d \in Tab : d # c => inbox'[d] = inbox[d] /\ quiet'[d] = quiet[d] /\ got'[d] = got[d]
      /\ inbox' \in [Tab -> Seq(Queued)] /\ quiet' \in [Tab -> Nat] /\ got' \in [Tab -> Seq(Queued)]
  BY <1>1, <1>2, <1>3, <1>4 DEF UiInv, UiTypes
<1>6. UiTypes'
  BY <1>1, <1>5 DEF UiInv, UiTypes
<1>7. TabsComeInOrder'
  BY <1>1 DEF UiInv, TabsComeInOrder
<1>8. HeartbeatsCome'
  <2>1. ASSUME NEW d \in Tab, tab[d] # "open" PROVE quiet'[d] = 0
    BY <1>1, <1>5, <2>1 DEF UiInv, HeartbeatsCome
  <2>2. ASSUME NEW d \in Tab, tab[d] = "open", beat # "exited"
        PROVE  d \in active_sse_subs /\ quiet'[d] <= 1 /\ (quiet'[d] > 0 => due \/ inbox'[d] # << >>)
    <3>1. CASE d = c
      BY <1>5, <2>2, <3>1 DEF UiInv, HeartbeatsCome
    <3>2. CASE d # c
      BY <1>5, <2>2, <3>2 DEF UiInv, HeartbeatsCome
    <3> QED BY <3>1, <3>2
  <2> QED BY <1>1, <2>1, <2>2 DEF UiInv, HeartbeatsCome, IdleTabsStay
<1>9. \A p \in Post : Stands(p)'
  BY <1>1 DEF UiInv, PostsStand, Stands
<1>10. \A p \in Post, a \in Agent : Forwarded(p, a)'
  BY <1>1 DEF UiInv, PostsStand, Forwarded
<1>11. ASSUME NEW p \in Post, NEW d \in Tab PROVE Acked(p, d)'
  <2>1. Acked(p, d)
    BY DEF UiInv, PostsStand
  <2>2. CASE d # c
    BY <1>1, <1>5, <2>1, <2>2 DEF Acked
  <2>3. CASE d = c
    <3>1. PICK t : t = inbox'[c]
      OBVIOUS
    <3>2. /\ Has(inbox[c], p) <=> e = p \/ Has(t, p)
          /\ Once(t, p) /\ ~ (e = p /\ Has(t, p))
      BY <1>1, <1>2, <1>3, <1>5, <2>1, <2>3, <3>1, TailCounts DEF Acked
    <3>3. /\ Has(Append(got[c], e), p) <=> Has(got[c], p) \/ e = p
          /\ Once(got[c], p) /\ ~ (Has(got[c], p) /\ e = p) => Once(Append(got[c], e), p)
      BY <1>2, AppendCounts
    <3>4. e = p => e # HeartbeatEvent
      BY UiAssumption DEF UiAssumption, HeartbeatEvent
    <3>5. CASE e # HeartbeatEvent /\ Matches(c, e) /\ got'[c] = Append(got[c], e)
      BY <1>1, <2>1, <2>3, <3>1, <3>2, <3>3, <3>5 DEF Acked
    <3>6. CASE got'[c] = got[c] /\ (e = p => ~ Matches(c, p))
      BY <1>1, <2>1, <2>3, <3>1, <3>2, <3>6 DEF Acked
    <3> QED BY <1>5, <3>4, <3>5, <3>6
  <2> QED BY <2>2, <2>3
<1> QED BY <1>6, <1>7, <1>8, <1>9, <1>10, <1>11 DEF UiInv, PostsStand

-----------------------------------------------------------------------------
(* The posts.                                                              *)

LEMMA AgentDropsKeepsUi == ASSUME UiInv, NEW a \in Agent, AgentDrops(a) PROVE UiInv'
<1>1. /\ agent' = [agent EXCEPT ![a] = "dropped"]
      /\ UNCHANGED <<server, beat, notify, tab, active_sse_subs, inbox, quiet, due, got, post, to, heard, called>>
  BY DEF AgentDrops, uiTabs, uiTasks
<1>2. agent' \in [Agent -> {"on", "dropped"}] /\ \A b \in Agent : agent'[b] = "on" => agent[b] = "on"
  BY <1>1 DEF UiInv, UiTypes
<1>3. UiTypes' /\ TabsComeInOrder' /\ HeartbeatsCome'
  BY <1>1, <1>2 DEF UiInv, UiTypes, TabsComeInOrder, HeartbeatsCome, IdleTabsStay
<1>4. \A p \in Post : Stands(p)'
  BY <1>1 DEF UiInv, PostsStand, Stands
<1>5. \A p \in Post, b \in Agent : Forwarded(p, b)'
  BY <1>1, <1>2 DEF UiInv, PostsStand, Forwarded
<1>6. \A p \in Post, c \in Tab : Acked(p, c)'
  BY <1>1 DEF UiInv, PostsStand, Acked
<1> QED BY <1>3, <1>4, <1>5, <1>6 DEF UiInv, PostsStand

\* A step that takes one post on, and sends nothing: what it writes, and when
\* the post may stand so.
Goes(p, st, t, k) ==
  /\ UNCHANGED <<uiTabs, agent, heard, beat>>
  /\ UNCHANGED <<server, notify>> \/ (server = "waiting" /\ server' = "polling")
  /\ post' = [post EXCEPT ![p] = st] /\ to' = [to EXCEPT ![p] = t] /\ called' = [called EXCEPT ![p] = k]

MayStand(p, st, t, k) ==
  /\ st \in {"accepted", "400", "forwarding", "acking", "200"}
  /\ t \in SUBSET (Agent \cup Tab) /\ k \in SUBSET (Agent \cup Tab)
  /\ \A c \in Tab : c \in k => c \in called[p] \/ c \in active_sse_subs
  /\ st \in {"accepted", "400"} => k = {}
  /\ st = "forwarding" => k \subseteq Agent
  /\ st = "acking" => t \subseteq k
  /\ st = "200" => t = {}
  /\ \A a \in Agent :
        /\ Has(heard[a], p) => st \in {"acking", "200"} \/ (st = "forwarding" /\ a \notin t)
        /\ agent[a] = "on" /\ (st \in {"acking", "200"} \/ (st = "forwarding" /\ a \notin t))
              => Has(heard[a], p)
  /\ \A c \in Tab :
        /\ Has(got[c], p) \/ Has(inbox[c], p) => st \in {"acking", "200"} /\ c \in k /\ c \notin t
        /\ tab[c] = "open" /\ c \in k /\ c \notin t /\ Matches(c, p)
              => Has(got[c], p) \/ Has(inbox[c], p)

LEMMA OnePostMoves ==
  ASSUME UiInv, NEW p \in Post, NEW st, NEW t, NEW k, MayStand(p, st, t, k), Goes(p, st, t, k)
  PROVE  UiInv'
<1> USE DEF MayStand, Goes
<1>1. UNCHANGED <<tab, active_sse_subs, inbox, quiet, due, got, agent, heard, beat>>
  BY DEF uiTabs
<1>2. /\ post'[p] = st /\ to'[p] = t /\ called'[p] = k
      /\ \A q \in Post : q # p => post'[q] = post[q] /\ to'[q] = to[q] /\ called'[q] = called[q]
      /\ post' \in [Post -> {"new", "accepted", "400", "forwarding", "acking", "200"}]
      /\ to' \in [Post -> SUBSET (Agent \cup Tab)] /\ called' \in [Post -> SUBSET (Agent \cup Tab)]
  BY DEF UiInv, UiTypes
<1>3. UiTypes'
  BY <1>1, <1>2 DEF UiInv, UiTypes
<1>4. HeartbeatsCome'
  BY <1>1 DEF UiInv, HeartbeatsCome, IdleTabsStay
<1>5. TabsComeInOrder'
  <2>1. \A c \in Tab : (\E q \in Post : c \in called'[q])
          => c \in active_sse_subs \/ (\E q \in Post : c \in called[q])
    BY <1>2
  <2>2. server' = "off" => server = "off" /\ UNCHANGED notify
    OBVIOUS
  <2>3. beat = "off" => server' \in {"off", "returned"}
    BY DEF UiInv, UiTypes, TabsComeInOrder
  <2> QED BY <1>1, <2>1, <2>2, <2>3 DEF UiInv, TabsComeInOrder
<1>6. ASSUME NEW q \in Post PROVE Stands(q)'
  BY <1>2 DEF UiInv, PostsStand, Stands
<1>7. ASSUME NEW q \in Post, NEW a \in Agent PROVE Forwarded(q, a)'
  <2>1. Forwarded(q, a)
    BY DEF UiInv, PostsStand
  <2>2. CASE q = p
    BY <1>1, <1>2, <2>1, <2>2 DEF Forwarded
  <2>3. CASE q # p
    BY <1>1, <1>2, <2>1, <2>3 DEF Forwarded
  <2> QED BY <2>2, <2>3
<1>8. ASSUME NEW q \in Post, NEW c \in Tab PROVE Acked(q, c)'
  <2>1. Acked(q, c)
    BY DEF UiInv, PostsStand
  <2>2. CASE q = p
    BY <1>1, <1>2, <2>1, <2>2 DEF Acked
  <2>3. CASE q # p
    BY <1>1, <1>2, <2>1, <2>3 DEF Acked
  <2> QED BY <2>2, <2>3
<1> QED BY <1>3, <1>4, <1>5, <1>6, <1>7, <1>8 DEF UiInv, PostsStand

LEMMA PostBeginsKeepsUi == ASSUME UiInv, NEW p \in Post, AcceptPost(p) \/ RefusePost(p) \/ CopyAgents(p) PROVE UiInv'
<1>1. /\ post[p] \in {"new", "accepted"} /\ called[p] = {}
      /\ \A a \in Agent : ~ Has(heard[a], p)
      /\ \A c \in Tab : ~ Has(got[c], p) /\ ~ Has(inbox[c], p)
  <2>1. post[p] \in {"new", "accepted"}
    BY DEF AcceptPost, RefusePost, CopyAgents, PostStep
  <2> QED BY <2>1 DEF UiInv, PostsStand, Stands, Forwarded, Acked
<1>2. to[p] \in SUBSET (Agent \cup Tab) /\ called[p] \in SUBSET (Agent \cup Tab)
      /\ to' = [to EXCEPT ![p] = to'[p]] /\ called' = [called EXCEPT ![p] = called'[p]]
  BY DEF AcceptPost, RefusePost, CopyAgents, Copies, UiInv, UiTypes
<1>3. CASE AcceptPost(p) \/ RefusePost(p)
  <2>1. PICK st \in {"accepted", "400"} : post' = [post EXCEPT ![p] = st]
    BY <1>3 DEF AcceptPost, RefusePost, PostStep
  <2>2. /\ UNCHANGED <<uiTabs, agent, heard, beat, to, called>>
        /\ UNCHANGED <<server, notify>> \/ (server = "waiting" /\ server' = "polling")
    BY <1>3 DEF AcceptPost, RefusePost, uiTasks
  <2>3. /\ to' = [to EXCEPT ![p] = to[p]] /\ called' = [called EXCEPT ![p] = {}]
    BY <1>1, <1>2, <2>2
  <2>4. MayStand(p, st, to[p], {})
    BY <1>1, <1>2, <2>1 DEF MayStand
  <2> QED BY <2>1, <2>2, <2>3, <2>4, OnePostMoves DEF Goes
<1>4. CASE CopyAgents(p)
  <2>1. /\ UNCHANGED <<uiTabs, agent, heard, beat, server, notify>>
        /\ post' = [post EXCEPT ![p] = "forwarding"] /\ to' = [to EXCEPT ![p] = Agent]
        /\ called' = [called EXCEPT ![p] = Agent]
    BY <1>1, <1>4 DEF CopyAgents, PostStep, Copies, uiTasks
  <2>2. \A c \in Tab : c \notin Agent
    BY UiAssumption DEF UiAssumption
  <2>3. MayStand(p, "forwarding", Agent, Agent)
    BY <1>1, <2>2 DEF MayStand
  <2> QED BY <2>1, <2>3, OnePostMoves DEF Goes
<1> QED BY <1>3, <1>4

LEMMA CopyTabsKeepsUi == ASSUME UiInv, NEW p \in Post, CopyTabs(p) PROVE UiInv'
<1>1. /\ post[p] = "forwarding" /\ to[p] = {} /\ called[p] \subseteq Agent
      /\ \A a \in Agent : agent[a] = "on" => Has(heard[a], p)
      /\ \A c \in Tab : ~ Has(got[c], p) /\ ~ Has(inbox[c], p)
  <2>1. post[p] = "forwarding" /\ to[p] = {}
    BY DEF CopyTabs, PostStep
  <2> QED BY <2>1 DEF UiInv, PostsStand, Stands, Forwarded, Acked
<1>2. /\ UNCHANGED <<uiTabs, agent, heard, beat, server, notify>>
      /\ post' = [post EXCEPT ![p] = "acking"] /\ to' = [to EXCEPT ![p] = active_sse_subs]
      /\ called' = [called EXCEPT ![p] = called[p] \cup active_sse_subs]
  BY DEF CopyTabs, PostStep, Copies, uiTasks
<1>3. active_sse_subs \in SUBSET (Agent \cup Tab) /\ called[p] \cup active_sse_subs \in SUBSET (Agent \cup Tab)
  BY DEF UiInv, UiTypes
<1>4. \A c \in Tab : c \notin called[p]
  BY <1>1, UiAssumption DEF UiAssumption
<1>5. MayStand(p, "acking", active_sse_subs, called[p] \cup active_sse_subs)
  BY <1>1, <1>3, <1>4 DEF MayStand
<1> QED BY <1>2, <1>5, OnePostMoves DEF Goes

LEMMA RespondKeepsUi == ASSUME UiInv, NEW p \in Post, Respond(p) PROVE UiInv'
<1>1. post[p] = "acking" /\ to[p] = {}
  BY DEF Respond, PostStep
<1>2. /\ UNCHANGED <<uiTabs, agent, heard, beat, server, notify>>
      /\ post' = [post EXCEPT ![p] = "200"] /\ to' = [to EXCEPT ![p] = {}]
      /\ called' = [called EXCEPT ![p] = called[p]] /\ called[p] \in SUBSET (Agent \cup Tab)
  BY <1>1 DEF Respond, PostStep, uiTasks, UiInv, UiTypes
<1>3. /\ \A a \in Agent : agent[a] = "on" => Has(heard[a], p)
      /\ \A c \in Tab :
            /\ Has(got[c], p) \/ Has(inbox[c], p) => c \in called[p]
            /\ tab[c] = "open" /\ c \in called[p] /\ Matches(c, p) => Has(got[c], p) \/ Has(inbox[c], p)
  BY <1>1 DEF UiInv, PostsStand, Forwarded, Acked
<1>4. MayStand(p, "200", {}, called[p])
  BY <1>1, <1>2, <1>3 DEF MayStand
<1> QED BY <1>2, <1>4, OnePostMoves DEF Goes

LEMMA ForwardKeepsUi == ASSUME UiInv, NEW p \in Post, NEW a \in Agent, ForwardTo(p, a) PROVE UiInv'
<1>1. /\ post[p] = "forwarding" /\ a \in to[p] /\ to' = [to EXCEPT ![p] = to[p] \ {a}]
      /\ heard' = IF agent[a] = "on" THEN [heard EXCEPT ![a] = Append(heard[a], p)] ELSE heard
      /\ UNCHANGED <<server, beat, notify, tab, active_sse_subs, inbox, quiet, due, got, post, agent, called>>
  BY DEF ForwardTo, uiTabs, uiTasks
<1>2. heard[a] \in Seq(Queued) /\ p \in Queued /\ Append(heard[a], p) \in Seq(Queued)
  BY AppendProperties DEF UiInv, UiTypes, Queued
<1>3. /\ to'[p] = to[p] \ {a} /\ \A q \in Post : q # p => to'[q] = to[q]
      /\ to' \in [Post -> SUBSET (Agent \cup Tab)] /\ heard' \in [Agent -> Seq(Queued)]
      /\ agent[a] = "on" => heard'[a] = Append(heard[a], p)
      /\ agent[a] # "on" => heard'[a] = heard[a]
      /\ \A b \in Agent : b # a => heard'[b] = heard[b]
  BY <1>1, <1>2 DEF UiInv, UiTypes
<1>4. UiTypes'
  BY <1>1, <1>3 DEF UiInv, UiTypes
<1>5. TabsComeInOrder' /\ HeartbeatsCome'
  BY <1>1 DEF UiInv, TabsComeInOrder, HeartbeatsCome, IdleTabsStay
<1>6. ASSUME NEW q \in Post PROVE Stands(q)'
  BY <1>1, <1>3 DEF UiInv, PostsStand, Stands
<1>7. ASSUME NEW q \in Post, NEW b \in Agent PROVE Forwarded(q, b)'
  <2>1. Forwarded(q, b)
    BY DEF UiInv, PostsStand
  <2>2. PICK h : h = Append(heard[a], p)
    OBVIOUS
  <2>3. /\ Has(h, q) <=> Has(heard[a], q) \/ p = q
        /\ Once(heard[a], q) /\ ~ (Has(heard[a], q) /\ p = q) => Once(h, q)
    BY <1>2, <2>2, AppendCounts
  <2>4. CASE b = a /\ agent[a] = "on"
    <3>1. heard'[b] = h
      BY <1>3, <2>2, <2>4
    <3>2. q = p => ~ Has(heard[a], q)
      BY <1>1, <2>1, <2>4 DEF Forwarded
    <3>3. CASE q = p
      BY <1>1, <1>3, <2>1, <2>3, <2>4, <3>1, <3>2, <3>3 DEF Forwarded
    <3>4. CASE q # p
      BY <1>1, <1>3, <2>1, <2>3, <2>4, <3>1, <3>4 DEF Forwarded
    <3> QED BY <3>3, <3>4
  <2>5. CASE b = a /\ agent[a] # "on"
    <3>1. CASE q = p
      BY <1>1, <1>3, <2>1, <2>5, <3>1 DEF Forwarded
    <3>2. CASE q # p
      BY <1>1, <1>3, <2>1, <2>5, <3>2 DEF Forwarded
    <3> QED BY <3>1, <3>2
  <2>6. CASE b # a
    <3>1. CASE q = p
      BY <1>1, <1>3, <2>1, <2>6, <3>1 DEF Forwarded
    <3>2. CASE q # p
      BY <1>1, <1>3, <2>1, <2>6, <3>2 DEF Forwarded
    <3> QED BY <3>1, <3>2
  <2> QED BY <2>4, <2>5, <2>6
<1>8. ASSUME NEW q \in Post, NEW c \in Tab PROVE Acked(q, c)'
  <2>1. Acked(q, c) /\ c # a
    BY UiAssumption DEF UiInv, PostsStand, UiAssumption
  <2>2. CASE q = p
    BY <1>1, <1>3, <2>1, <2>2 DEF Acked
  <2>3. CASE q # p
    BY <1>1, <1>3, <2>1, <2>3 DEF Acked
  <2> QED BY <2>2, <2>3
<1> QED BY <1>4, <1>5, <1>6, <1>7, <1>8 DEF UiInv, PostsStand

LEMMA AckKeepsUi == ASSUME UiInv, NEW p \in Post, NEW c \in Tab, AckTo(p, c) PROVE UiInv'
<1>1. /\ post[p] = "acking" /\ c \in to[p] /\ to' = [to EXCEPT ![p] = to[p] \ {c}]
      /\ inbox' = IF tab[c] = "open" THEN [inbox EXCEPT ![c] = Append(inbox[c], p)] ELSE inbox
      /\ UNCHANGED <<server, beat, notify, tab, active_sse_subs, quiet, due, got, post, agent, heard, called>>
  BY DEF AckTo, uiTasks
<1>2. /\ inbox[c] \in Seq(Queued) /\ p \in Queued /\ Append(inbox[c], p) \in Seq(Queued)
      /\ Append(inbox[c], p) # << >>
  <2>1. inbox[c] \in Seq(Queued) /\ p \in Queued
    BY DEF UiInv, UiTypes, Queued
  <2> QED BY <2>1, AppendCounts
<1>3. /\ to'[p] = to[p] \ {c} /\ \A q \in Post : q # p => to'[q] = to[q]
      /\ to' \in [Post -> SUBSET (Agent \cup Tab)] /\ inbox' \in [Tab -> Seq(Queued)]
      /\ tab[c] = "open" => inbox'[c] = Append(inbox[c], p)
      /\ tab[c] # "open" => inbox'[c] = inbox[c]
      /\ \A d \in Tab : d # c => inbox'[d] = inbox[d]
  BY <1>1, <1>2 DEF UiInv, UiTypes
<1>4. UiTypes'
  BY <1>1, <1>3 DEF UiInv, UiTypes
<1>5. TabsComeInOrder'
  BY <1>1 DEF UiInv, TabsComeInOrder
<1>6. HeartbeatsCome'
  <2>1. \A d \in Tab : inbox[d] # << >> => inbox'[d] # << >>
    BY <1>2, <1>3
  <2> QED BY <1>1, <2>1 DEF UiInv, HeartbeatsCome, IdleTabsStay
<1>7. ASSUME NEW q \in Post PROVE Stands(q)'
  BY <1>1, <1>3 DEF UiInv, PostsStand, Stands
<1>8. ASSUME NEW q \in Post, NEW a \in Agent PROVE Forwarded(q, a)'
  <2>1. Forwarded(q, a)
    BY DEF UiInv, PostsStand
  <2>2. CASE q = p
    BY <1>1, <2>1, <2>2 DEF Forwarded
  <2>3. CASE q # p
    BY <1>1, <1>3, <2>1, <2>3 DEF Forwarded
  <2> QED BY <2>2, <2>3
<1>9. ASSUME NEW q \in Post, NEW d \in Tab PROVE Acked(q, d)'
  <2>1. Acked(q, d)
    BY DEF UiInv, PostsStand
  <2>2. PICK h : h = Append(inbox[c], p)
    OBVIOUS
  <2>3. /\ Has(h, q) <=> Has(inbox[c], q) \/ p = q
        /\ Once(inbox[c], q) /\ ~ (Has(inbox[c], q) /\ p = q) => Once(h, q)
    BY <1>2, <2>2, AppendCounts
  <2>4. q = p /\ d = c => ~ Has(got[c], q) /\ ~ Has(inbox[c], q) /\ c \in called[p]
    <3>1. c \in called[p]
      BY <1>1 DEF UiInv, PostsStand, Stands
    <3> QED BY <1>1, <2>1, <3>1 DEF Acked
  <2>5. CASE d = c /\ tab[c] = "open"
    <3>1. inbox'[d] = h
      BY <1>3, <2>2, <2>5
    <3>2. CASE q = p
      BY <1>1, <1>3, <2>1, <2>3, <2>4, <2>5, <3>1, <3>2 DEF Acked
    <3>3. CASE q # p
      BY <1>1, <1>3, <2>1, <2>3, <2>5, <3>1, <3>3 DEF Acked
    <3> QED BY <3>2, <3>3
  <2>6. CASE d = c /\ tab[c] # "open"
    <3>1. CASE q = p
      BY <1>1, <1>3, <2>1, <2>6, <3>1 DEF Acked
    <3>2. CASE q # p
      BY <1>1, <1>3, <2>1, <2>6, <3>2 DEF Acked
    <3> QED BY <3>1, <3>2
  <2>7. CASE d # c
    <3>1. CASE q = p
      BY <1>1, <1>3, <2>1, <2>7, <3>1 DEF Acked
    <3>2. CASE q # p
      BY <1>1, <1>3, <2>1, <2>7, <3>2 DEF Acked
    <3> QED BY <3>1, <3>2
  <2> QED BY <2>5, <2>6, <2>7
<1> QED BY <1>4, <1>5, <1>6, <1>7, <1>8, <1>9 DEF UiInv, PostsStand

LEMMA StepKeepsUi == UiInv /\ [WebUiNext]_webUiVars => UiInv'
<1> SUFFICES ASSUME UiInv, [WebUiNext]_webUiVars PROVE UiInv'
  OBVIOUS
<1>1. CASE Stop \/ Run \/ RunMoves \/ BeatPolls \/ BeatStops
  <2>1. UNCHANGED <<uiTabs, uiPosts>>
    BY <1>1 DEF Stop, Run, RunMoves, RunPolls, RunStops, BeatPolls, BeatStops
  <2> QED BY <1>1, <2>1, LoopsKeepUi DEF RunMoves
<1>2. ASSUME NEW c \in Tab, AcceptTab(c) \/ TabMoves(c) \/ Stalls(c) \/ TabCloses(c) PROVE UiInv'
  <2>1. CASE TabCloses(c)
    BY <2>1, EndsKeepsUi DEF TabCloses
  <2>2. CASE ReadTimesOut(c)
    <3>1. tab[c] = "open" /\ inbox[c] = << >> /\ quiet[c] = 2 /\ Ends(c, "timed out")
      BY <2>2 DEF ReadTimesOut
    <3>2. beat = "exited"
      <4>1. beat # "exited" => quiet[c] <= 1
        BY <3>1 DEF UiInv, HeartbeatsCome
      <4>2. ~ (quiet[c] <= 1)
        <5>1. quiet[c] = 2
          BY <3>1
        <5> QED BY <5>1
      <4> QED BY <4>1, <4>2
    <3> QED BY <3>1, <3>2, EndsKeepsUi
  <2> QED BY <1>2, <2>1, <2>2, AcceptTabKeepsUi, OpenTabKeepsUi, StallsKeepsUi, WriteKeepsUi DEF TabMoves
<1>3. ASSUME NEW p \in Post, PostMoves(p) PROVE UiInv'
  BY <1>3, PostBeginsKeepsUi, CopyTabsKeepsUi, RespondKeepsUi, ForwardKeepsUi, AckKeepsUi DEF PostMoves
<1>4. CASE UNCHANGED webUiVars
  <2>1. UNCHANGED <<server, beat, notify, tab, active_sse_subs, inbox, quiet, due, got, post, to, agent, heard, called>>
    BY <1>4 DEF webUiVars, uiTabs, uiPosts, uiTasks
  <2>2. PostsStand'
    BY <2>1, PostsAsBefore DEF UiInv
  <2> QED BY <2>1, <2>2 DEF UiInv, UiTypes, TabsComeInOrder, HeartbeatsCome, IdleTabsStay
<1> QED BY <1>1, <1>2, <1>3, <1>4, BeatKeepsUi, ElapseKeepsUi, AgentDropsKeepsUi DEF WebUiNext, BeatMoves

-----------------------------------------------------------------------------
\* However closes of one session overlap with each other and with a delete,
\* its record is the created one with the state and times of one close; and of
\* the posts of the web page, whatever tabs, prunings, agents and other posts
\* do: each is seen once, an agent has it before a tab can know, none is lost
\* on a tab that stays, and no tab times out while the heartbeat runs
\* (session_service.rs:48-61; web-ui lib.rs:440-518, 1057-1109).
THEOREM ServersKeepWhatTheySay == HostSpec => []ServersKeepTheirWord
<1>1. HostInit => RecInv /\ UiInv
  <2>1. HostInit => RecInit /\ WebUiInit
    BY DEF HostInit
  <2> QED BY <2>1, InitRecords, UiInitInv
<1>2. RecInv /\ UiInv /\ [HostNext]_partVars => (RecInv /\ UiInv)'
  BY OnePartMoves, StepKeepsRecords, StepKeepsUi
<1>3. RecInv /\ UiInv => ServersKeepTheirWord
  BY UiInvSuffices DEF RecInv, ServersKeepTheirWord
<1> QED BY <1>1, <1>2, <1>3, PTL DEF HostSpec

-----------------------------------------------------------------------------
\* Whatever registers, disposes, fails, panics and overlaps: the resources of
\* a context go as from a stack and errors are told as promised; the registry
\* names what is installed; and the loader loads what is needed first, once,
\* and calls a graph circular exactly if names in it wait for each other
\* (context.rs:211-231, 526-580; ma-harness-seam/src/lib.rs:457-541).
THEOREM ResourcesGoAsPromised == HostSpec => []ResourcesAreReleased
<1> DEFINE PartsInv == DisposalInv /\ AsyncInv /\ LoaderInv
<1>1. HostInit => PartsInv
  <2>1. HostInit => DisposalInit /\ AsyncDisposalInit /\ LoaderInit
    BY DEF HostInit
  <2> QED BY <2>1, DisposalInitInv, AsyncInitInv, LoaderInitInv
<1>2. PartsInv /\ [HostNext]_partVars => PartsInv'
  <2> SUFFICES ASSUME DisposalInv, AsyncInv, LoaderInv, [HostNext]_partVars
               PROVE  DisposalInv' /\ AsyncInv' /\ LoaderInv'
    OBVIOUS
  <2>1. [DisposalNext]_disposalVars /\ [AsyncDisposalNext]_asyncDisposalVars /\ [LoaderNext]_loaderVars
    BY OnePartMoves
  <2> QED BY <2>1, EntryAssumption, LoaderAssumption, DisposalKeeps, AsyncKeeps, LoaderKeeps
<1>3. PartsInv /\ RegistryIsWhatIsInstalled => ResourcesAreReleased
  BY DisposalIsAStack, AsyncTellsTheNewest, LoaderIsInOrder DEF ResourcesAreReleased
<1>4. HostSpec => []RegistryIsWhatIsInstalled
  BY RegistryStaysTrue
<1> HIDE DEF PartsInv
<1> QED BY <1>1, <1>2, <1>3, <1>4, PTL DEF HostSpec

-----------------------------------------------------------------------------
\* Of every list of tasks: it is refused as a cycle exactly if some of its
\* tasks can never be counted down, and every other one runs them all, each
\* once and after what it depends on (ma-harness-dag/src/lib.rs:238-273).
THEOREM TasksRunAsListed == HostSpec => []TasksRunInOrder
<1>1. HostInit => DagInv
  BY DagInitInv, DagAssumption DEF HostInit
<1>2. DagInv /\ [HostNext]_partVars => DagInv'
  BY OnePartMoves, DagKeeps, DagAssumption
<1>3. DagInv => TasksRunInOrder
  BY DagRunsInOrder, DagAssumption DEF TasksRunInOrder
<1> QED BY <1>1, <1>2, <1>3, PTL DEF HostSpec

-----------------------------------------------------------------------------
\* Whatever is emitted, from whatever task, thread or listener: an event is
\* queued or handled in one place at most, it is heard in the order of the
\* listeners and by each once, and by every one of them unless the flush that
\* had taken it was dropped or unwound (ma-harness-cordis/src/context.rs:363-487).
THEOREM EventsReachTheirListeners == HostSpec => []EventsAreDelivered
<1>1. HostInit => EmitInv
  BY EmitInitInv, EmitAssumption DEF HostInit
<1>2. EmitInv /\ [HostNext]_partVars => EmitInv'
  BY OnePartMoves, EmitStepKeeps, EmitAssumption
<1>3. EmitInv => EventsAreDelivered
  BY EventsAreAccounted, EmitAssumption DEF EventsAreDelivered
<1> QED BY <1>1, <1>2, <1>3, PTL DEF HostSpec

-----------------------------------------------------------------------------
\* For any answers, cut anywhere, any breaker and any session: a call is
\* refused exactly as the reports say; the tokens of a streamed answer come
\* once each, in order, whole where no character was cut, and all of them
\* unless the connection broke; and a list that is compacted again and again
\* still accounts for every event, lets go of whole runs only, and keeps the
\* order (retry.rs:223-261; ma-harness-model lib.rs:403-432, 716-757;
\* ma-harness-compaction lib.rs:313-424).
THEOREM ModelCallsStayTold == HostSpec => []ModelCallsAreTold
<1>1. HostInit => StreamInv /\ CompInv
  <2>1. HostInit => StreamInit /\ CompactionInit
    BY DEF HostInit
  <2> QED BY <2>1, StreamInitInv, CompactionInitInv
<1>2. StreamInv /\ CompInv /\ [HostNext]_partVars => (StreamInv /\ CompInv)'
  <2> SUFFICES ASSUME StreamInv, CompInv, [HostNext]_partVars PROVE StreamInv' /\ CompInv'
    OBVIOUS
  <2>1. [StreamNext]_streamVars /\ [CompactionNext]_compactionVars
    BY OnePartMoves
  <2> QED BY <2>1, StreamKeeps, CompactionKeeps, CompactionAssumption
<1>3. StreamInv /\ CompInv /\ BreakerIsItsReports => ModelCallsAreTold
  BY StreamsAreTold, CompactionIsTold, CompactionAssumption DEF ModelCallsAreTold
<1>4. HostSpec => []BreakerIsItsReports
  BY BreakerFollowsItsReports
<1> QED BY <1>1, <1>2, <1>3, <1>4, PTL DEF HostSpec
-----------------------------------------------------------------------------
(* Files: cordis.yml and the settings, saved by replacing.                   *)
\* What the file system keeps, for documents with parts of V.
Docs(V) == [Chunk -> V]
Stages == {"idle", "create", "write", "sync", "rename", "saved", "failed", "gone"}
FileTypes(V) ==
  /\ target \in Inode \cup {0} /\ tmp \in Inode \cup {0} /\ oldTarget \in Inode \cup {0}
  /\ inode \in [Inode -> [data : Docs(V), durable : Docs(V)]]
  /\ saver \in [Saver -> [stage : Stages, ino : Inode \cup {0}, at : Chunk \cup {Chunks + 1}, doc : Docs(V)]]

\* A save that writes has its place and its inode; the temporary is never the
\* file; and where the directory on the disk is behind, a save has renamed.
SaverShape(s) ==
  /\ saver[s].stage = "create" => saver[s].ino = 0 /\ saver[s].at = 1
  /\ saver[s].stage = "write" => saver[s].ino # 0 /\ saver[s].at \in Chunk
  /\ saver[s].stage \in {"sync", "rename"} => saver[s].ino # 0
NamesApart ==
  /\ tmp # 0 => tmp # target /\ tmp # oldTarget
  /\ target # oldTarget => \E r \in Saver : saver[r].stage \in {"saved", "gone"}
FileOK(V) == FileTypes(V) /\ (\A s \in Saver : SaverShape(s)) /\ NamesApart

\* There are as many inodes as can be in use, and one more.
LEMMA InodeNumbers ==
  /\ Cardinality(Saver) \in Nat /\ IsFiniteSet(Inode) /\ Cardinality(Inode) = Cardinality(Saver) + 1
  /\ Inode \subseteq Nat \ {0} /\ 1 \in Inode
<1>1. Cardinality(Saver) \in Nat
  BY FileAssumption, FS_CardinalityType
<1>2. IsFiniteSet(Inode) /\ Cardinality(Inode) = IF 1 > Cardinality(Saver) + 1 THEN 0 ELSE (Cardinality(Saver) + 1) - 1 + 1
  BY <1>1, FS_Interval DEF Inode
<1> QED BY <1>1, <1>2 DEF Inode

LEMMA FreshIsFree ==
  ASSUME NEW V, FileOK(V), NEW s \in Saver, saver[s].stage = "create", tmp = 0
  PROVE  FreshInode \in Inode /\ ~ InUse(FreshInode)
<1> DEFINE held(r) == IF r = s THEN target
                      ELSE IF saver[r].stage \in {"saved", "gone"} THEN oldTarget ELSE saver[r].ino
           g == [r \in Saver |-> IF held(r) \in Inode THEN held(r) ELSE 1]
<1>1. ASSUME NEW i \in Inode, InUse(i) PROVE \E r \in Saver : held(r) = i
  <2>1. i # 0
    BY InodeNumbers
  <2>2. CASE i = target
    BY <2>2
  <2>3. CASE i = oldTarget /\ oldTarget # target
    <3>1. PICK r \in Saver : saver[r].stage \in {"saved", "gone"}
      BY <2>3 DEF FileOK, NamesApart
    <3> QED BY <2>3, <3>1
  <2>4. CASE \E r \in Saver : Saving(r) /\ saver[r].ino = i
    <3>1. PICK r \in Saver : Saving(r) /\ saver[r].ino = i
      BY <2>4
    <3>2. r # s
      BY <3>1, <2>1 DEF FileOK, SaverShape
    <3> QED BY <3>1, <3>2 DEF Saving
  <2> QED BY <1>1, <2>1, <2>2, <2>3, <2>4 DEF InUse
<1>2. ASSUME \A i \in Inode : InUse(i) PROVE FALSE
  <2>1. g \in [Saver -> Inode]
    BY InodeNumbers
  <2>2. \A i \in Inode : \E r \in Saver : g[r] = i
    BY <1>1, <1>2
  <2>3. g \in Surjection(Saver, Inode)
    BY <2>1, <2>2 DEF Surjection
  <2>4. Cardinality(Inode) <= Cardinality(Saver)
    BY <2>3, FileAssumption, FS_Surjection
  <2> QED BY <2>4, InodeNumbers
<1> QED BY <1>2 DEF FreshInode

-----------------------------------------------------------------------------
\* A save that nobody disturbs has written what its handle has passed, and the
\* inode it writes has the name of the temporary.
Progress(s) ==
  LET r == saver[s]
  IN  /\ r.stage = "write" => r.ino = tmp /\ \A i \in Chunk : i < r.at => inode[r.ino].data[i] = r.doc[i]
      /\ r.stage \in {"sync", "rename"} => r.ino = tmp /\ inode[r.ino].data = r.doc
      /\ r.stage = "rename" => inode[r.ino].durable = r.doc

\* A temporary that is there is written over; a new one is a free inode.
LEMMA CreateStep ==
  ASSUME NEW V, Blank \in V, FileOK(V), NEW s \in Saver, CreateTmp(s)
  PROVE  /\ FileOK(V)'
         /\ tmp' \in Inode /\ tmp' # target /\ tmp' # oldTarget
         /\ inode' = [inode EXCEPT ![tmp'].data = Nothing]
         /\ saver' = [saver EXCEPT ![s].stage = "write", ![s].ino = tmp']
<1> DEFINE i == IF tmp = 0 THEN FreshInode ELSE tmp
<1>1. /\ saver[s].stage = "create" /\ tmp' = i /\ inode' = [inode EXCEPT ![i].data = Nothing]
      /\ saver' = [saver EXCEPT ![s].stage = "write", ![s].ino = i]
      /\ UNCHANGED <<target, oldTarget, rivals>>
  BY DEF CreateTmp
<1>2. i \in Inode /\ i # target /\ i # oldTarget
  <2>1. CASE tmp = 0
    <3>1. FreshInode \in Inode /\ ~ InUse(FreshInode)
      BY <1>1, <2>1, FreshIsFree
    <3> QED BY <2>1, <3>1 DEF InUse
  <2>2. CASE tmp # 0
    BY <2>2 DEF FileOK, FileTypes, NamesApart
  <2> QED BY <2>1, <2>2
<1>3. i # 0 /\ Nothing \in Docs(V) /\ saver[s].at = 1 /\ 1 \in Chunk
  BY <1>1, <1>2, InodeNumbers, FileAssumption DEF FileOK, SaverShape, Nothing, Docs, Chunk
<1> HIDE DEF i
<1>4. FileTypes(V)'
  <2>1. inode' \in [Inode -> [data : Docs(V), durable : Docs(V)]]
    BY <1>1, <1>2, <1>3 DEF FileOK, FileTypes
  <2>2. saver[s] \in [stage : Stages, ino : Inode \cup {0}, at : Chunk \cup {Chunks + 1}, doc : Docs(V)]
    BY DEF FileOK, FileTypes
  <2>3. saver' = [saver EXCEPT ![s] = [saver[s] EXCEPT !.stage = "write", !.ino = i]]
    BY <1>1
  <2>4. [saver[s] EXCEPT !.stage = "write", !.ino = i]
          \in [stage : Stages, ino : Inode \cup {0}, at : Chunk \cup {Chunks + 1}, doc : Docs(V)]
    BY <2>2, <1>2 DEF Stages
  <2>5. saver' \in [Saver -> [stage : Stages, ino : Inode \cup {0}, at : Chunk \cup {Chunks + 1}, doc : Docs(V)]]
    BY <2>3, <2>4 DEF FileOK, FileTypes
  <2> QED BY <1>1, <1>2, <2>1, <2>5 DEF FileOK, FileTypes, Inode
<1>5. \A r \in Saver : SaverShape(r)'
  BY <1>1, <1>3 DEF FileOK, FileTypes, SaverShape
<1>6. NamesApart'
  BY <1>1, <1>2, <1>3 DEF FileOK, FileTypes, NamesApart
<1> QED BY <1>1, <1>2, <1>4, <1>5, <1>6 DEF FileOK

LEMMA WriteStep ==
  ASSUME NEW V, FileOK(V), NEW s \in Saver, WriteChunk(s)
  PROVE  FileOK(V)'
<1> DEFINE r == saver[s]
<1>1. /\ r.stage = "write"
      /\ inode' = [inode EXCEPT ![r.ino].data[r.at] = r.doc[r.at]]
      /\ saver' = [saver EXCEPT ![s].at = @ + 1,
                                ![s].stage = IF r.at + 1 \in Chunk THEN @ ELSE "sync"]
      /\ UNCHANGED <<target, tmp, oldTarget, rivals>>
  BY DEF WriteChunk
<1>2. r.at \in Chunk /\ r.ino \in Inode /\ r.ino # 0 /\ r.doc \in Docs(V)
  BY <1>1 DEF FileOK, FileTypes, SaverShape
<1>3. r.at + 1 \in Chunk \cup {Chunks + 1} /\ r.doc[r.at] \in V
  BY <1>2, FileAssumption DEF Chunk, Docs
<1>4. inode' \in [Inode -> [data : Docs(V), durable : Docs(V)]]
  <2>1. inode[r.ino].data \in Docs(V)
    BY <1>2 DEF FileOK, FileTypes
  <2>2. [inode[r.ino].data EXCEPT ![r.at] = r.doc[r.at]] \in Docs(V)
    BY <2>1, <1>2, <1>3 DEF Docs
  <2>3. inode' = [inode EXCEPT ![r.ino].data = [inode[r.ino].data EXCEPT ![r.at] = r.doc[r.at]]]
    BY <1>1
  <2> QED BY <2>2, <2>3, <1>2 DEF FileOK, FileTypes
<1>5. saver' \in [Saver -> [stage : Stages, ino : Inode \cup {0}, at : Chunk \cup {Chunks + 1}, doc : Docs(V)]]
  <2>1. r \in [stage : Stages, ino : Inode \cup {0}, at : Chunk \cup {Chunks + 1}, doc : Docs(V)]
    BY DEF FileOK, FileTypes
  <2>2. saver' = [saver EXCEPT ![s] = [r EXCEPT !.at = r.at + 1,
                                                !.stage = IF r.at + 1 \in Chunk THEN r.stage ELSE "sync"]]
    BY <1>1
  <2> HIDE DEF r
  <2>3. [r EXCEPT !.at = r.at + 1, !.stage = IF r.at + 1 \in Chunk THEN r.stage ELSE "sync"]
          \in [stage : Stages, ino : Inode \cup {0}, at : Chunk \cup {Chunks + 1}, doc : Docs(V)]
    BY <2>1, <1>3 DEF Stages
  <2> QED BY <2>2, <2>3 DEF FileOK, FileTypes
<1>6. FileTypes(V)'
  BY <1>1, <1>4, <1>5 DEF FileOK, FileTypes, Inode
<1>7. \A c \in Saver : SaverShape(c)'
  BY <1>1, <1>2 DEF FileOK, FileTypes, SaverShape
<1>8. NamesApart'
  BY <1>1 DEF FileOK, FileTypes, NamesApart
<1> QED BY <1>6, <1>7, <1>8 DEF FileOK

LEMMA SyncStep ==
  ASSUME NEW V, FileOK(V), NEW s \in Saver, SyncAll(s)
  PROVE  FileOK(V)'
<1>1. saver[s].ino \in Inode
  BY DEF SyncAll, FileOK, FileTypes, SaverShape
<1>2. FileTypes(V)'
  BY <1>1 DEF SyncAll, FileOK, FileTypes, Stages, Inode
<1>3. \A c \in Saver : SaverShape(c)'
  BY DEF SyncAll, FileOK, FileTypes, SaverShape
<1>4. NamesApart'
  BY DEF SyncAll, FileOK, FileTypes, NamesApart
<1> QED BY <1>2, <1>3, <1>4 DEF FileOK

LEMMA RenameStep ==
  ASSUME NEW V, FileOK(V), NEW s \in Saver, Rename(s)
  PROVE  FileOK(V)'
<1>1. FileTypes(V)'
  BY DEF Rename, FileOK, FileTypes, Stages, Inode
<1>2. \A c \in Saver : SaverShape(c)'
  BY DEF Rename, FileOK, FileTypes, SaverShape
<1>3. NamesApart'
  BY DEF Rename, FileOK, FileTypes, NamesApart
<1> QED BY <1>1, <1>2, <1>3 DEF FileOK

LEMMA FailStep ==
  ASSUME NEW V, FileOK(V), NEW s \in Saver, SaveFails(s)
  PROVE  FileOK(V)'
<1>1. FileTypes(V)'
  BY DEF SaveFails, FileOK, FileTypes, Stages, Inode
<1>2. \A c \in Saver : SaverShape(c)'
  BY DEF SaveFails, FileOK, FileTypes, SaverShape
<1>3. NamesApart'
  BY DEF SaveFails, Saving, FileOK, FileTypes, NamesApart
<1> QED BY <1>1, <1>2, <1>3 DEF FileOK

LEMMA SaveStepKeepsFiles ==
  ASSUME NEW V, Blank \in V, FileOK(V), NEW s \in Saver, SaveStep(s)
  PROVE  FileOK(V)'
BY CreateStep, WriteStep, SyncStep, RenameStep, FailStep DEF SaveStep

LEMMA BeginKeepsFiles ==
  ASSUME NEW V, Blank \in V, FileOK(V), NEW s \in Saver, saver[s].stage = "idle", NEW d \in Docs(V),
         BeginSave(s, d), UNCHANGED <<target, tmp, oldTarget, inode>>
  PROVE  FileOK(V)' /\ saver'[s].stage = "create" /\ saver'[s].doc = d
<1> DEFINE new == [IdleSaver EXCEPT !.stage = "create", !.doc = d]
<1>1. saver' = [saver EXCEPT ![s] = new] /\ new.stage = "create" /\ new.ino = 0 /\ new.at = 1 /\ new.doc = d
  BY DEF BeginSave, IdleSaver
<1>2. 1 \in Chunk
  BY FileAssumption DEF Chunk
<1>6. new \in [stage : Stages, ino : Inode \cup {0}, at : Chunk \cup {Chunks + 1}, doc : Docs(V)]
  BY <1>2 DEF IdleSaver, Stages, Nothing, Docs
<1> HIDE DEF new
<1>3. FileTypes(V)'
  BY <1>1, <1>6 DEF FileOK, FileTypes, Stages, Inode
<1>4. \A c \in Saver : SaverShape(c)'
  BY <1>1 DEF FileOK, FileTypes, SaverShape
<1>5. NamesApart'
  BY <1>1 DEF FileOK, FileTypes, NamesApart
<1> QED BY <1>1, <1>3, <1>4, <1>5 DEF FileOK, FileTypes

LEMMA CrashKeepsFiles ==
  ASSUME NEW V, FileOK(V), NEW power \in BOOLEAN, FileCrash(power)
  PROVE  FileOK(V)' /\ \A s \in Saver : saver'[s].stage \in {"idle", "gone"}
<1>1. saver' = [s \in Saver |-> IF saver[s].stage = "idle" THEN saver[s]
                                ELSE [saver[s] EXCEPT !.stage = "gone"]]
  BY DEF FileCrash
<1>2. saver' \in [Saver -> [stage : Stages, ino : Inode \cup {0}, at : Chunk \cup {Chunks + 1}, doc : Docs(V)]]
  BY <1>1 DEF FileOK, FileTypes, Stages
<1>3. \A s \in Saver : saver'[s].stage = IF saver[s].stage = "idle" THEN "idle" ELSE "gone"
  BY <1>1 DEF FileOK, FileTypes
<1>4. inode' \in [Inode -> [data : Docs(V), durable : Docs(V)]]
  <2>1. CASE power
    BY <2>1 DEF FileCrash, FileOK, FileTypes
  <2>2. CASE ~ power
    BY <2>2 DEF FileCrash, FileOK, FileTypes
  <2> QED BY <2>1, <2>2
<1>5. /\ target' \in {target, oldTarget} /\ oldTarget' \in {target, oldTarget} /\ tmp' = tmp
      /\ target' # oldTarget' => target # oldTarget
  BY DEF FileCrash
<1>6. FileTypes(V)'
  BY <1>2, <1>4, <1>5 DEF FileOK, FileTypes, Inode
<1>7. \A s \in Saver : SaverShape(s)'
  BY <1>3 DEF SaverShape
<1>8. NamesApart'
  BY <1>3, <1>5 DEF FileOK, NamesApart
<1> QED BY <1>3, <1>6, <1>7, <1>8 DEF FileOK

-----------------------------------------------------------------------------
\* A save that goes on alone: it stays in step with what it has written, and
\* the file stays as it is until it is renamed, and then is its document.
LEMMA SaveAlone ==
  ASSUME NEW V, Blank \in V, FileOK(V), NEW s \in Saver, SaveStep(s),
         \A r \in Saver : Saving(r) => r = s, Progress(s)
  PROVE  /\ \A r \in Saver : Progress(r)'
         /\ \A r \in Saver : Saving(r)' => r = s
         /\ saver'[s].doc = saver[s].doc
         /\ oldTarget' = oldTarget
         /\ oldTarget # 0 => inode'[oldTarget] = inode[oldTarget]
         /\ \/ /\ target' = target /\ saver'[s].stage # "saved"
               /\ target # 0 => inode'[target] = inode[target]
            \/ /\ target' # 0 /\ inode'[target'].data = saver[s].doc /\ inode'[target'].durable = saver[s].doc
               /\ saver'[s].stage = "saved" /\ tmp' = 0
<1>1. FileOK(V)'
  BY SaveStepKeepsFiles
<1> DEFINE Writing(st) == st \in {"write", "sync", "rename"}
<1>2. \A r \in Saver \ {s} : saver'[r] = saver[r]
  BY DEF SaveStep, CreateTmp, WriteChunk, SyncAll, Rename, SaveFails, FileOK, FileTypes
<1>3. \A r \in Saver \ {s} : ~ Saving(r)' /\ ~ Writing(saver'[r].stage)
  BY <1>2 DEF Saving
<1>4. Saving(s) /\ saver[s] \in [stage : Stages, ino : Inode \cup {0}, at : Chunk \cup {Chunks + 1}, doc : Docs(V)]
  BY DEF SaveStep, CreateTmp, WriteChunk, SyncAll, Rename, SaveFails, Saving, FileOK, FileTypes
<1>5. CASE CreateTmp(s)
  <2>1. /\ tmp' \in Inode /\ tmp' # target /\ tmp' # oldTarget
        /\ inode' = [inode EXCEPT ![tmp'].data = Nothing]
        /\ saver' = [saver EXCEPT ![s].stage = "write", ![s].ino = tmp']
        /\ UNCHANGED <<target, oldTarget>>
    BY <1>5, CreateStep DEF CreateTmp
  <2>2. saver'[s].stage = "write" /\ saver'[s].ino = tmp' /\ saver'[s].at = saver[s].at /\ saver'[s].doc = saver[s].doc
    BY <2>1, <1>4 DEF FileOK, FileTypes
  <2>3. saver[s].at = 1
    BY <1>5 DEF CreateTmp, FileOK, SaverShape
  <2>4. Progress(s)'
    BY <2>2, <2>3, FileAssumption DEF Progress, Chunk
  <2>5. (target # 0 => inode'[target] = inode[target]) /\ (oldTarget # 0 => inode'[oldTarget] = inode[oldTarget])
    BY <2>1 DEF FileOK, FileTypes
  <2> QED BY <1>3, <2>1, <2>2, <2>4, <2>5 DEF Progress
<1>6. CASE WriteChunk(s)
  <2> DEFINE r == saver[s]
  <2>1. /\ r.stage = "write"
        /\ inode' = [inode EXCEPT ![r.ino].data[r.at] = r.doc[r.at]]
        /\ saver' = [saver EXCEPT ![s].at = @ + 1,
                                  ![s].stage = IF r.at + 1 \in Chunk THEN @ ELSE "sync"]
        /\ UNCHANGED <<target, tmp, oldTarget>>
    BY <1>6 DEF WriteChunk
  <2>2. r.at \in Chunk /\ r.ino \in Inode /\ r.ino = tmp /\ tmp # 0 /\ r.doc \in Docs(V)
    BY <2>1, <1>4 DEF FileOK, FileTypes, SaverShape, Progress
  <2>3. tmp # target /\ tmp # oldTarget
    BY <2>2 DEF FileOK, NamesApart
  <2>4. /\ saver'[s].at = r.at + 1 /\ saver'[s].doc = r.doc /\ saver'[s].ino = r.ino
        /\ saver'[s].stage = IF r.at + 1 \in Chunk THEN "write" ELSE "sync"
    BY <2>1, <1>4 DEF FileOK, FileTypes
  <2>5. inode[r.ino].data \in Docs(V) /\ inode'[r.ino].data = [inode[r.ino].data EXCEPT ![r.at] = r.doc[r.at]]
    BY <2>1, <2>2 DEF FileOK, FileTypes
  <2>6. \A i \in Chunk : i < r.at + 1 => inode'[r.ino].data[i] = r.doc[i]
    <3>1. SUFFICES ASSUME NEW i \in Chunk, i < r.at + 1 PROVE inode'[r.ino].data[i] = r.doc[i]
      OBVIOUS
    <3>2. i < r.at \/ i = r.at
      BY <3>1, <2>2, FileAssumption DEF Chunk
    <3>3. i < r.at => inode[r.ino].data[i] = r.doc[i]
      BY <2>1 DEF Progress
    <3> QED BY <2>2, <2>5, <3>2, <3>3 DEF Docs
  <2>7. r.at + 1 \notin Chunk => inode'[r.ino].data = r.doc
    <3> SUFFICES ASSUME r.at + 1 \notin Chunk PROVE inode'[r.ino].data = r.doc
      OBVIOUS
    <3>1. \A i \in Chunk : i < r.at + 1
      BY <2>2, FileAssumption DEF Chunk
    <3>2. inode'[r.ino].data \in Docs(V)
      BY <2>5, <2>2 DEF Docs
    <3> QED BY <2>2, <2>6, <3>1, <3>2 DEF Docs
  <2>8. Progress(s)'
    <3> HIDE DEF r
    <3>1. saver'[s].ino = tmp' /\ saver'[s].doc = r.doc /\ saver'[s].at = r.at + 1 /\ inode'[saver'[s].ino] = inode'[r.ino]
      BY <2>1, <2>2, <2>4
    <3>2. CASE r.at + 1 \in Chunk
      BY <3>1, <3>2, <2>4, <2>6 DEF Progress
    <3>3. CASE r.at + 1 \notin Chunk
      BY <3>1, <3>3, <2>4, <2>7 DEF Progress
    <3> QED BY <3>2, <3>3
  <2>9. (target # 0 => inode'[target] = inode[target]) /\ (oldTarget # 0 => inode'[oldTarget] = inode[oldTarget])
    BY <2>1, <2>2, <2>3 DEF FileOK, FileTypes
  <2>10. saver'[s].stage # "saved" /\ \A c \in Saver : Progress(c)'
    BY <1>3, <2>4, <2>8 DEF Progress
  <2>11. saver'[s].doc = saver[s].doc
    BY <2>4
  <2> HIDE DEF r
  <2> QED BY <1>3, <2>1, <2>9, <2>10, <2>11
<1>7. CASE SyncAll(s)
  <2>1. /\ saver[s].stage = "sync" /\ saver[s].ino = tmp /\ tmp # 0 /\ tmp \in Inode
        /\ inode' = [inode EXCEPT ![tmp].durable = inode[tmp].data]
        /\ saver' = [saver EXCEPT ![s].stage = "rename"]
        /\ UNCHANGED <<target, tmp, oldTarget>>
    BY <1>7, <1>4 DEF SyncAll, Progress, FileOK, SaverShape
  <2>2. tmp # target /\ tmp # oldTarget
    BY <2>1 DEF FileOK, NamesApart
  <2>3. saver'[s].stage = "rename" /\ saver'[s].doc = saver[s].doc /\ saver'[s].ino = saver[s].ino
    BY <2>1, <1>4 DEF FileOK, FileTypes
  <2>4. inode'[tmp].data = inode[tmp].data /\ inode'[tmp].durable = inode[tmp].data
    BY <2>1 DEF FileOK, FileTypes
  <2>5. Progress(s)'
    BY <2>1, <2>3, <2>4 DEF Progress
  <2>6. (target # 0 => inode'[target] = inode[target]) /\ (oldTarget # 0 => inode'[oldTarget] = inode[oldTarget])
    BY <2>1, <2>2 DEF FileOK, FileTypes
  <2> QED BY <1>3, <2>1, <2>3, <2>5, <2>6 DEF Progress
<1>8. CASE Rename(s)
  <2>1. saver[s].stage = "rename" /\ saver[s].ino = tmp /\ tmp # 0
    BY <1>8 DEF Rename, Progress, FileOK, SaverShape
  <2>2. /\ target' = tmp /\ tmp' = 0 /\ saver' = [saver EXCEPT ![s].stage = "saved"]
        /\ UNCHANGED <<oldTarget, inode>>
    BY <1>8, <2>1 DEF Rename
  <2>3. saver'[s].stage = "saved" /\ saver'[s].doc = saver[s].doc
    BY <2>2, <1>4 DEF FileOK, FileTypes
  <2>4. inode[tmp].data = saver[s].doc /\ inode[tmp].durable = saver[s].doc
    BY <2>1 DEF Progress
  <2>5. Progress(s)' /\ ~ Saving(s)'
    BY <2>3 DEF Progress, Saving
  <2> QED BY <1>3, <2>1, <2>2, <2>3, <2>4, <2>5 DEF Progress
<1>9. CASE SaveFails(s)
  <2>1. saver'[s].stage = "failed" /\ saver'[s].doc = saver[s].doc /\ UNCHANGED <<target, oldTarget, inode>>
    BY <1>9, <1>4 DEF SaveFails, FileOK, FileTypes
  <2> QED BY <1>3, <2>1 DEF Progress, Saving
<1> QED BY <1>5, <1>6, <1>7, <1>8, <1>9 DEF SaveStep

-----------------------------------------------------------------------------
(* settings.yaml                                                           *)

Writers == Saver \cup Edit \cup {"old"}
Parts0 == Writers \cup {Blank}

NoRivals == \A s \in Saver : rivals[s] = {}

RivalsKept ==
  /\ rivals \in [Saver -> SUBSET Saver]
  /\ \A s \in Saver : saver[s].stage = "idle" => rivals[s] = {}

WatcherShape ==
  watcher = [stage |-> watcher.stage, pending |-> watcher.pending, dirty |-> watcher.dirty,
             loaded |-> watcher.loaded, reports |-> watcher.reports]

WholeDoc(i) == \E who \in Writers : inode[i].data = SavedAs(who) /\ inode[i].durable = SavedAs(who)
Shown(d) == d \in {NotYet, Unparseable, Nothing} \/ \E who \in Saver \cup {"old"} : d = SavedAs(who)

OneSave ==
  /\ \A s, r \in Saver : Saving(s) /\ Saving(r) => s = r
  /\ \A s \in Saver : Progress(s) /\ (Saving(s) => saver[s].doc = SavedAs(s))
  /\ target # 0 => WholeDoc(target)
  /\ oldTarget # 0 => WholeDoc(oldTarget)
  /\ Shown(delivered) /\ Shown(watcher.loaded)

SettingsInv == FileOK(Parts0) /\ RivalsKept /\ WatcherShape /\ (NoRivals => OneSave)

LEMMA FilesStart ==
  ASSUME NEW V, Blank \in V, NEW docs \in SUBSET Docs(V), FileInit(docs)
  PROVE  /\ FileOK(V) /\ tmp = 0 /\ oldTarget = target
         /\ \A s \in Saver : saver[s].stage = "idle" /\ rivals[s] = {}
         /\ rivals \in [Saver -> SUBSET Saver]
         /\ target # 0 => \E d \in docs : inode[target].data = d /\ inode[target].durable = d
<1>1. /\ tmp = 0 /\ target \in {0, 1} /\ oldTarget = target
      /\ saver = [s \in Saver |-> IdleSaver] /\ rivals = [s \in Saver |-> {}]
  BY DEF FileInit
<1>2. IdleSaver \in [stage : Stages, ino : Inode \cup {0}, at : Chunk \cup {Chunks + 1}, doc : Docs(V)]
  BY FileAssumption DEF IdleSaver, Nothing, Docs, Stages, Chunk
<1>3. NoFile \in [data : Docs(V), durable : Docs(V)]
  BY DEF NoFile, Nothing, Docs
<1>4. /\ inode \in [Inode -> [data : Docs(V), durable : Docs(V)]]
      /\ target # 0 => \E d \in docs : inode[target].data = d /\ inode[target].durable = d
  <2>1. CASE target = 0
    BY <2>1, <1>3 DEF FileInit
  <2>2. CASE target # 0
    <3>1. PICK d \in docs : inode = [[i \in Inode |-> NoFile] EXCEPT ![1] = [data |-> d, durable |-> d]]
      BY <2>2 DEF FileInit
    <3>2. [data |-> d, durable |-> d] \in [data : Docs(V), durable : Docs(V)]
      OBVIOUS
    <3> QED BY <1>1, <2>2, <3>1, <3>2, <1>3, InodeNumbers
  <2> QED BY <2>1, <2>2
<1>5. \A s \in Saver : saver[s].stage = "idle" /\ saver[s] = IdleSaver
  BY <1>1 DEF IdleSaver
<1>6. FileTypes(V)
  BY <1>1, <1>2, <1>4, InodeNumbers DEF FileTypes
<1>7. \A s \in Saver : SaverShape(s)
  BY <1>5 DEF SaverShape
<1> QED BY <1>1, <1>4, <1>5, <1>6, <1>7 DEF FileOK, NamesApart

LEMMA SettingsStart == FileInit({SavedAs("old")}) /\ WatcherInit => SettingsInv
<1> SUFFICES ASSUME FileInit({SavedAs("old")}), WatcherInit PROVE SettingsInv
  OBVIOUS
<1>1. {SavedAs("old")} \in SUBSET Docs(Parts0)
  BY DEF SavedAs, Docs, Parts0, Writers
<1>2. /\ FileOK(Parts0) /\ tmp = 0 /\ oldTarget = target
      /\ \A s \in Saver : saver[s].stage = "idle" /\ rivals[s] = {}
      /\ rivals \in [Saver -> SUBSET Saver]
      /\ target # 0 => \E d \in {SavedAs("old")} : inode[target].data = d /\ inode[target].durable = d
  <2>1. Blank \in Parts0
    BY DEF Parts0
  <2> QED BY <1>1, <2>1, FilesStart
<1>3. WatcherShape /\ Shown(delivered) /\ Shown(watcher.loaded)
  BY DEF WatcherInit, WatcherShape, Shown
<1>4. OneSave
  BY <1>2, <1>3 DEF OneSave, Saving, Progress, WholeDoc, Writers
<1> QED BY <1>2, <1>3, <1>4 DEF SettingsInv, RivalsKept

\* A load of one save, of an edit or of no file gives that, or nothing.
LEMMA ParsedIsWhole == (target # 0 => WholeDoc(target)) => \A d \in Parsed : Shown(d)
<1> SUFFICES ASSUME target # 0 => WholeDoc(target), NEW d \in Parsed PROVE Shown(d)
  OBVIOUS
<1>1. CASE target = 0
  BY <1>1 DEF Parsed, Content, Shown
<1>2. CASE target # 0
  <2>1. PICK who \in Writers : Content = SavedAs(who)
    BY <1>2 DEF WholeDoc, Content
  <2>2. \A i \in Chunk : Content[i] = who
    BY <2>1 DEF SavedAs
  <2>3. 1 \in Chunk
    BY FileAssumption DEF Chunk
  <2>4. CASE who \in Edit
    <3>1. CASE who = Blank
      <4>1. Content = Nothing
        BY <2>1, <3>1 DEF SavedAs, Nothing
      <4>2. d \in {Nothing, Unparseable}
        BY <4>1 DEF Parsed
      <4> QED BY <4>2 DEF Shown
    <3>2. CASE who # Blank
      <4>1. Content # Nothing /\ ~ \E i \in Chunk : Content[i] = Blank
        BY <2>2, <2>3, <3>2 DEF Nothing
      <4>2. \E i \in Chunk : Content[i] \in Edit
        BY <2>2, <2>3, <2>4
      <4>3. Parsed = {Unparseable}
        BY <4>1, <4>2 DEF Parsed
      <4> QED BY <4>3 DEF Shown
    <3> QED BY <3>1, <3>2
  <2>5. CASE who \in Saver \cup {"old"}
    BY <2>1, <2>5 DEF Parsed, Shown
  <2> QED BY <2>4, <2>5 DEF Writers
<1> QED BY <1>1, <1>2

\* A save that begins is a rival of those under way, and they are its.
LEMMA MarkedRivals ==
  ASSUME NEW s \in Saver, NEW others \in SUBSET Saver, s \notin others, MarkRivals(s, others),
         rivals \in [Saver -> SUBSET Saver]
  PROVE  /\ rivals' \in [Saver -> SUBSET Saver]
         /\ rivals'[s] = others
         /\ \A r \in Saver \ {s} : rivals'[r] = IF r \in others THEN rivals[r] \cup {s} ELSE rivals[r]
<1>1. rivals' = [r \in Saver |-> CASE r = s -> others
                                  [] r \in others -> rivals[r] \cup {s}
                                  [] OTHER -> rivals[r]]
  BY DEF MarkRivals
<1>2. rivals'[s] = others
  BY <1>1
<1>3. \A r \in Saver \ {s} : rivals'[r] = IF r \in others THEN rivals[r] \cup {s} ELSE rivals[r]
  BY <1>1
<1>4. rivals' = [r \in Saver |-> rivals'[r]]
  BY <1>1
<1>5. \A r \in Saver : rivals'[r] \in SUBSET Saver
  BY <1>2, <1>3
<1> QED BY <1>2, <1>3, <1>4, <1>5

\* Saves that do not overlap.
LEMMA BeginOneSave ==
  ASSUME SettingsInv, NEW s \in Saver, Save(s) PROVE SettingsInv'
<1>1. SavedAs(s) \in Docs(Parts0) /\ Blank \in Parts0
  BY DEF SavedAs, Docs, Parts0, Writers
<1>2. FileOK(Parts0)' /\ saver'[s].stage = "create" /\ saver'[s].doc = SavedAs(s)
  BY <1>1, BeginKeepsFiles DEF Save, SettingsInv
<1>3. \A r \in Saver \ {s} : saver'[r] = saver[r]
  BY DEF Save, BeginSave, SettingsInv, FileOK, FileTypes
<1>4. /\ rivals' \in [Saver -> SUBSET Saver]
      /\ rivals'[s] = {r \in Saver : Saving(r)}
      /\ \A r \in Saver \ {s} : rivals'[r] = IF Saving(r) THEN rivals[r] \cup {s} ELSE rivals[r]
  <2> DEFINE others == {r \in Saver : Saving(r)}
  <2>1. s \notin others /\ MarkRivals(s, others) /\ rivals \in [Saver -> SUBSET Saver]
    BY DEF Save, Saving, SettingsInv, RivalsKept
  <2>2. others \in SUBSET Saver /\ \A r \in Saver : r \in others <=> Saving(r)
    OBVIOUS
  <2> HIDE DEF others
  <2>3. /\ rivals' \in [Saver -> SUBSET Saver]
        /\ rivals'[s] = others
        /\ \A r \in Saver \ {s} : rivals'[r] = IF r \in others THEN rivals[r] \cup {s} ELSE rivals[r]
    BY <2>1, <2>2, MarkedRivals
  <2> QED BY <2>2, <2>3 DEF others
<1>5. RivalsKept'
  BY <1>2, <1>3, <1>4 DEF SettingsInv, RivalsKept, Saving
<1>6. NoRivals' => NoRivals /\ \A r \in Saver : ~ Saving(r)
  BY <1>4 DEF SettingsInv, RivalsKept, NoRivals, Save
<1>7. UNCHANGED <<target, tmp, oldTarget, inode, watcher, delivered>>
  BY DEF Save
<1>8. WatcherShape'
  BY <1>7 DEF SettingsInv, WatcherShape
<1>9. NoRivals' => OneSave'
  <2> SUFFICES ASSUME NoRivals' PROVE OneSave'
    OBVIOUS
  <2>1. OneSave /\ \A r \in Saver : ~ Saving(r)
    BY <1>6 DEF SettingsInv
  <2>2. \A r \in Saver : Saving(r)' => r = s
    BY <2>1, <1>3 DEF Saving
  <2>3. \A r \in Saver : Progress(r)'
    BY <2>1, <1>2, <1>3 DEF Saving, Progress
  <2>4. (target' # 0 => WholeDoc(target)') /\ (oldTarget' # 0 => WholeDoc(oldTarget)')
    BY <2>1, <1>7 DEF OneSave, WholeDoc
  <2>5. Shown(delivered)' /\ Shown(watcher.loaded)'
    BY <2>1, <1>7 DEF OneSave, Shown
  <2> QED BY <1>2, <2>2, <2>3, <2>4, <2>5 DEF OneSave
<1> QED BY <1>2, <1>5, <1>8, <1>9 DEF SettingsInv

\* A change of the file is noted; what the callback gets is as it was.
LEMMA ReportsKeep ==
  WatcherShape /\ Reports => WatcherShape' /\ watcher'.loaded = watcher.loaded
<1> SUFFICES ASSUME WatcherShape, Reports PROVE WatcherShape' /\ watcher'.loaded = watcher.loaded
  OBVIOUS
<1>1. watcher' = watcher \/ watcher' = [watcher EXCEPT !.pending = TRUE]
  BY DEF Reports
<1>2. CASE watcher' = [watcher EXCEPT !.pending = TRUE]
  <2>1. watcher' = [stage |-> watcher.stage, pending |-> TRUE, dirty |-> watcher.dirty,
                    loaded |-> watcher.loaded, reports |-> watcher.reports]
    BY <1>2 DEF WatcherShape
  <2> QED BY <2>1 DEF WatcherShape
<1> QED BY <1>1, <1>2 DEF WatcherShape

LEMMA SaverMoves ==
  ASSUME NEW V, FileOK(V), NEW s \in Saver, SaveStep(s)
  PROVE  /\ saver[s].stage # "idle" /\ saver'[s].stage # "idle" /\ Saving(s)
         /\ saver'[s].doc = saver[s].doc /\ UNCHANGED rivals
         /\ \A r \in Saver \ {s} : saver'[r] = saver[r]
BY DEF SaveStep, CreateTmp, WriteChunk, SyncAll, Rename, SaveFails, Saving, FileOK, FileTypes

LEMMA SaveOneSave ==
  ASSUME SettingsInv, NEW s \in Saver, SettingsSaveStep(s) PROVE SettingsInv'
<1>1. FileOK(Parts0) /\ Blank \in Parts0 /\ SaveStep(s) /\ Reports /\ UNCHANGED <<rivals, delivered>>
  BY DEF SettingsInv, Parts0, SettingsSaveStep, SaveStep, CreateTmp, WriteChunk, SyncAll, Rename, SaveFails
<1>2. FileOK(Parts0)'
  BY <1>1, SaveStepKeepsFiles
<1>3. WatcherShape' /\ watcher'.loaded = watcher.loaded
  BY <1>1, ReportsKeep DEF SettingsInv
<1>4. /\ saver[s].stage # "idle" /\ saver'[s].stage # "idle" /\ Saving(s)
      /\ \A r \in Saver \ {s} : saver'[r] = saver[r]
  BY <1>1, SaverMoves
<1>5. RivalsKept'
  BY <1>1, <1>4 DEF SettingsInv, RivalsKept
<1>6. ASSUME NoRivals' PROVE OneSave'
  <2>1. OneSave
    BY <1>1, <1>6 DEF SettingsInv, NoRivals
  <2>2. (\A r \in Saver : Saving(r) => r = s) /\ Progress(s) /\ saver[s].doc = SavedAs(s)
    BY <1>4, <2>1 DEF OneSave
  <2>3. /\ \A r \in Saver : Progress(r)'
        /\ \A r \in Saver : Saving(r)' => r = s
        /\ saver'[s].doc = saver[s].doc
        /\ oldTarget' = oldTarget
        /\ oldTarget # 0 => inode'[oldTarget] = inode[oldTarget]
        /\ \/ /\ target' = target /\ saver'[s].stage # "saved"
              /\ target # 0 => inode'[target] = inode[target]
           \/ /\ target' # 0 /\ inode'[target'].data = saver[s].doc /\ inode'[target'].durable = saver[s].doc
              /\ saver'[s].stage = "saved" /\ tmp' = 0
    BY <1>1, <2>2, SaveAlone
  <2>4. target' # 0 => WholeDoc(target)'
    BY <2>1, <2>2, <2>3 DEF OneSave, WholeDoc, Writers
  <2>5. oldTarget' # 0 => WholeDoc(oldTarget)'
    BY <2>1, <2>3 DEF OneSave, WholeDoc
  <2>6. Shown(delivered)' /\ Shown(watcher.loaded)'
    BY <2>1, <1>1, <1>3 DEF OneSave, Shown
  <2> QED BY <2>2, <2>3, <2>4, <2>5, <2>6 DEF OneSave
<1> QED BY <1>2, <1>3, <1>5, <1>6 DEF SettingsInv

\* An edit in place is of the file, never of the temporary.
LEMMA EditOneSave ==
  ASSUME SettingsInv, NEW e \in Edit, EditInPlace(e) PROVE SettingsInv'
<1>1. /\ target # 0 /\ inode' = [inode EXCEPT ![target] = [data |-> SavedAs(e), durable |-> SavedAs(e)]]
      /\ UNCHANGED <<target, tmp, oldTarget, saver, rivals, delivered>> /\ Reports
  BY DEF EditInPlace
<1>2. SavedAs(e) \in Docs(Parts0)
  BY DEF SavedAs, Docs, Parts0, Writers
<1>3. FileOK(Parts0)'
  <2>1. FileTypes(Parts0)'
    BY <1>1, <1>2 DEF SettingsInv, FileOK, FileTypes, Inode
  <2>2. (\A s \in Saver : SaverShape(s)') /\ NamesApart'
    BY <1>1 DEF SettingsInv, FileOK, SaverShape, NamesApart
  <2> QED BY <2>1, <2>2 DEF FileOK
<1>4. WatcherShape' /\ watcher'.loaded = watcher.loaded
  BY <1>1, ReportsKeep DEF SettingsInv
<1>5. RivalsKept'
  BY <1>1 DEF SettingsInv, RivalsKept
<1>6. ASSUME NoRivals' PROVE OneSave'
  <2>1. OneSave
    BY <1>1, <1>6 DEF SettingsInv, NoRivals
  <2>2. \A i \in Inode \ {target} : inode'[i] = inode[i]
    BY <1>1 DEF SettingsInv, FileOK, FileTypes
  <2>3. \A s \in Saver : Progress(s)'
    <3> SUFFICES ASSUME NEW s \in Saver, saver[s].stage \in {"write", "sync", "rename"} PROVE Progress(s)'
      BY <1>1 DEF Progress
    <3>1. saver[s].ino = tmp /\ tmp # 0 /\ tmp # target /\ tmp \in Inode
      BY <2>1 DEF OneSave, Progress, SettingsInv, FileOK, SaverShape, NamesApart, FileTypes
    <3> QED BY <1>1, <2>1, <2>2, <3>1 DEF OneSave, Progress
  <2>4. WholeDoc(target)'
    BY <1>1 DEF WholeDoc, Writers, SettingsInv, FileOK, FileTypes
  <2>5. oldTarget' # 0 => WholeDoc(oldTarget)'
    BY <2>1, <2>2, <2>4, <1>1 DEF OneSave, WholeDoc, SettingsInv, FileOK, FileTypes
  <2>6. Shown(delivered)' /\ Shown(watcher.loaded)'
    BY <2>1, <1>1, <1>4 DEF OneSave, Shown
  <2>7. \A s, r \in Saver : Saving(s)' /\ Saving(r)' => s = r
    BY <2>1, <1>1 DEF OneSave, Saving
  <2>8. \A s \in Saver : Saving(s)' => saver'[s].doc = SavedAs(s)
    BY <2>1, <1>1 DEF OneSave, Saving
  <2> QED BY <2>3, <2>4, <2>5, <2>6, <2>7, <2>8 DEF OneSave
<1> QED BY <1>3, <1>4, <1>5, <1>6 DEF SettingsInv

\* The watcher loads and delivers; it writes nothing.
LEMMA WatchOneSave ==
  ASSUME SettingsInv, StartWatcher \/ WatcherStep \/ DropWatcher PROVE SettingsInv'
<1>1. UNCHANGED fileVars
  BY DEF StartWatcher, WatcherStep, RecvEvent, Reload, CallbackReturns, WatcherEnds, DropWatcher
<1>2. FileOK(Parts0)' /\ RivalsKept'
  BY <1>1 DEF SettingsInv, FileOK, FileTypes, SaverShape, NamesApart, RivalsKept, fileVars, Inode
<1>3. WatcherShape'
  <2>1. \A w : (\E a, b, c, d, e : w = [stage |-> a, pending |-> b, dirty |-> c, loaded |-> d, reports |-> e])
           => w = [stage |-> w.stage, pending |-> w.pending, dirty |-> w.dirty, loaded |-> w.loaded, reports |-> w.reports]
    OBVIOUS
  <2>2. \E a, b, c, d, e : watcher' = [stage |-> a, pending |-> b, dirty |-> c, loaded |-> d, reports |-> e]
    BY DEF SettingsInv, WatcherShape, StartWatcher, WatcherStep, RecvEvent, Reload, CallbackReturns, WatcherEnds, DropWatcher
  <2> QED BY <2>1, <2>2 DEF WatcherShape
<1>4. ASSUME OneSave PROVE Shown(delivered)' /\ Shown(watcher.loaded)'
  <2>1. \A d \in Parsed : Shown(d)
    BY <1>4, ParsedIsWhole DEF OneSave
  <2>2. delivered' \in {delivered, watcher.loaded}
    BY DEF StartWatcher, WatcherStep, RecvEvent, Reload, CallbackReturns, WatcherEnds, DropWatcher
  <2>3. Shown(watcher'.loaded)
    <3>1. CASE Reload
      <4>1. PICK d \in Parsed : watcher' = [watcher EXCEPT !.stage = "calling", !.pending = watcher.reports,
                                     !.loaded = IF d = Unparseable THEN Nothing ELSE d]
        BY <3>1 DEF Reload
      <4>2. watcher'.loaded = IF d = Unparseable THEN Nothing ELSE d
        BY <4>1 DEF SettingsInv, WatcherShape
      <4> QED BY <2>1, <4>2 DEF Shown
    <3>2. CASE ~ Reload
      <4>1. watcher'.loaded = watcher.loaded \/ watcher'.loaded = NotYet
        BY <3>2 DEF SettingsInv, WatcherShape, StartWatcher, WatcherStep, RecvEvent, CallbackReturns, WatcherEnds, DropWatcher
      <4> QED BY <1>4, <4>1 DEF OneSave, Shown
    <3> QED BY <3>1, <3>2
  <2> QED BY <1>4, <2>2, <2>3 DEF OneSave, Shown
<1>5. NoRivals' => OneSave'
  BY <1>1, <1>4 DEF SettingsInv, NoRivals, OneSave, Saving, Progress, WholeDoc, fileVars
<1> QED BY <1>2, <1>3, <1>5 DEF SettingsInv

LEMMA CrashOneSave ==
  ASSUME SettingsInv, NEW power \in BOOLEAN, SettingsCrash(power) PROVE SettingsInv'
<1>1. FileOK(Parts0)' /\ \A s \in Saver : saver'[s].stage \in {"idle", "gone"}
  BY CrashKeepsFiles DEF SettingsInv, SettingsCrash
<1>2. UNCHANGED <<rivals, tmp, delivered>>
  BY DEF SettingsCrash, FileCrash
<1>3. \A s \in Saver : saver'[s].stage = "idle" => saver[s].stage = "idle"
  BY DEF SettingsCrash, FileCrash, SettingsInv, FileOK, FileTypes
<1>4. RivalsKept'
  BY <1>2, <1>3 DEF SettingsInv, RivalsKept
<1>5. WatcherShape' /\ watcher'.loaded = NotYet
  BY DEF SettingsCrash, SettingsInv, WatcherShape
<1>6. ASSUME NoRivals' PROVE OneSave'
  <2>1. OneSave
    BY <1>2, <1>6 DEF SettingsInv, NoRivals
  <2>2. \A i \in Inode : WholeDoc(i) => WholeDoc(i)'
    <3>1. CASE power
      BY <3>1 DEF WholeDoc, SettingsCrash, FileCrash, SettingsInv, FileOK, FileTypes
    <3>2. CASE ~ power
      BY <3>2 DEF WholeDoc, SettingsCrash, FileCrash
    <3> QED BY <3>1, <3>2
  <2>3. target' \in {target, oldTarget} /\ oldTarget' \in {target, oldTarget}
    BY DEF SettingsCrash, FileCrash
  <2>4. (target' # 0 => WholeDoc(target)') /\ (oldTarget' # 0 => WholeDoc(oldTarget)')
    BY <2>1, <2>2, <2>3 DEF OneSave, SettingsInv, FileOK, FileTypes, WholeDoc
  <2>5. \A s \in Saver : Progress(s)' /\ ~ Saving(s)'
    BY <1>1 DEF Progress, Saving
  <2>6. Shown(delivered)' /\ Shown(watcher.loaded)'
    BY <2>1, <1>2, <1>5 DEF OneSave, Shown
  <2> QED BY <2>4, <2>5, <2>6 DEF OneSave
<1> QED BY <1>1, <1>4, <1>5, <1>6 DEF SettingsInv

\* Every step of a save, the watcher, a hand edit and a crash keeps it.
LEMMA SettingsKeep == SettingsInv /\ [SettingsNext]_settingsVars => SettingsInv'
<1> SUFFICES ASSUME SettingsInv, [SettingsNext]_settingsVars PROVE SettingsInv'
  OBVIOUS
<1>1. CASE UNCHANGED settingsVars
  BY <1>1 DEF settingsVars, SettingsInv, FileOK, FileTypes, SaverShape, NamesApart, RivalsKept, Inode, WatcherShape,
              NoRivals, OneSave, Saving, Progress, WholeDoc, Shown
<1>2. CASE SettingsNext
  BY <1>2, BeginOneSave, SaveOneSave, EditOneSave, WatchOneSave, CrashOneSave DEF SettingsNext
<1> QED BY <1>1, <1>2

\* What the run checks follows.
LEMMA SettingsAreTold == SettingsInv => SettingsAreOneSave
<1> SUFFICES ASSUME SettingsInv, NoRivals PROVE
     /\ target # 0 => \E who \in Saver \cup Edit \cup {"old"} : Content = SavedAs(who)
     /\ \A d \in (Parsed \cup {delivered, watcher.loaded}) \ {NotYet, Unparseable, Nothing} :
           \E who \in Saver \cup {"old"} : d = SavedAs(who)
  BY DEF SettingsAreOneSave, NoRivals
<1>1. OneSave
  BY DEF SettingsInv
<1>2. \A d \in Parsed : Shown(d)
  BY <1>1, ParsedIsWhole DEF OneSave
<1> QED BY <1>1, <1>2 DEF OneSave, WholeDoc, Writers, Content, Shown

-----------------------------------------------------------------------------
(* cordis.yml                                                              *)

Flags == BOOLEAN \cup {Blank}
Results == {"none", "changed", "unchanged", "not found", "parse error", "io error"}
ModStages == {"idle", "load", "change", "save", "note", "over", "gone"}
AuditEntry == [op : {"none", "enable", "disable", "inspect"}, name : Chunk \cup {Unlisted}, by : Saver,
               success : BOOLEAN, changed : BOOLEAN]
ModTypes ==
  /\ modCall \in [Saver -> [op : {"none", "enable", "disable", "inspect"}, name : Chunk \cup {Unlisted},
                            stage : ModStages, config : Docs(Flags), result : Results]]
  /\ audit \in Seq(AuditEntry) /\ start \in Docs(Flags)

\* What a call is about to save, and what it may say it has changed.
CallShape(c) ==
  /\ Saving(c) => modCall[c].stage = "save"
  /\ modCall[c].stage \in {"idle", "load", "change"} => saver[c].stage = "idle"
  /\ modCall[c].stage = "save" => /\ saver[c].doc = SetEnabled(c) /\ modCall[c].name \in Chunk
                                  /\ modCall[c].result = "changed"
  /\ modCall[c].stage \in {"idle", "load", "change"} => modCall[c].result = "none"
  /\ modCall[c].stage = "idle" => modCall[c].name = Unlisted
  /\ modCall[c].result = "changed" => modCall[c].name \in Chunk

CallDone(c) == /\ modCall[c].result = "changed"
           /\ \/ modCall[c].stage \in {"note", "over"}
              \/ modCall[c].stage = "save" /\ saver[c].stage = "saved"

AuditIsOfCalls ==
  \A i \in DOMAIN audit :
     LET e == audit[i]
     IN  e.changed => /\ modCall[e.by].stage = "over" /\ CallDone(e.by)
                      /\ e.name = modCall[e.by].name /\ e.op = modCall[e.by].op

CallsRivals ==
  /\ rivals \in [Saver -> SUBSET Saver]
  /\ \A c \in Saver : modCall[c].stage = "idle" => rivals[c] = {}
  /\ \A c, d \in Saver : Busy(c) /\ Busy(d) /\ c # d => rivals[c] # {}
  /\ \A c \in Saver : rivals[c] = {} => Progress(c)

\* A change that nobody overlapped and no other call is about stays: whatever
\* is on its way to the file has it, or nothing, at its place.
Stays(b) ==
  LET n == modCall[b].name
      kept == {Wanted(b), Blank}
  IN  /\ Content[n] \in kept
      /\ tmp # 0 => inode[tmp].data[n] \in kept
      /\ \A c \in Saver \ {b} : /\ modCall[c].stage \in {"change", "save"} => modCall[c].config[n] \in kept
Alone(b) == rivals[b] = {} /\ \A c \in Saver \ {b} : modCall[c].name # modCall[b].name
ChangesStay == \A b \in Saver : CallDone(b) /\ Alone(b) => Stays(b)

\* While no calls overlap the file is what the log says, but for the change of
\* the call that has still to note it.
Pending(c) == Unnoted(c) /\ modCall[c].result = "changed"
ToldBy(c) == IF Pending(c) THEN [Replayed EXCEPT ![modCall[c].name] = Wanted(c)] ELSE Replayed
LogTells ==
  /\ (\A c \in Saver : ~ Pending(c)) => Content = Replayed
  /\ \A c \in Saver : Pending(c) => Content = ToldBy(c)
  /\ \A c \in Saver : modCall[c].stage = "change" \/ Saving(c) => modCall[c].config = Content

ModInv == /\ FileOK(Flags) /\ ModTypes /\ (\A c \in Saver : CallShape(c)) /\ AuditIsOfCalls
          /\ CallsRivals /\ ChangesStay /\ (NoRivals => LogTells)

\* The largest number of a bounded set.
LEMMA HasLargest ==
  ASSUME NEW n \in Nat, NEW S \in SUBSET (1..n), S # {}
  PROVE  \E k \in S : \A j \in S : j <= k
<1> DEFINE over == {m \in Nat : \A j \in S : j <= m}
<1>1. n \in over
  OBVIOUS
<1>2. PICK m \in over : \A i \in over : m <= i
  BY <1>1, HasSmallest
<1>3. m \in S
  <2>1. ASSUME m \notin S PROVE FALSE
    <3>1. m # 0 /\ m \in Nat
      <4>1. PICK j \in S : j \in 1..n
        OBVIOUS
      <4> QED BY <1>2, <4>1
    <3>2. \A j \in S : j <= m - 1
      BY <1>2, <2>1
    <3>3. m - 1 \in over
      BY <3>1, <3>2
    <3> QED BY <1>2, <3>1, <3>3
  <2> QED BY <2>1
<1> QED BY <1>2, <1>3

\* What an entry more does to the flags that the log tells.
LEMMA OneEntryMore ==
  ASSUME audit \in Seq(AuditEntry), start' = start, NEW e \in AuditEntry, audit' = Append(audit, e)
  PROVE  Replayed' = IF e.changed /\ e.name \in Chunk THEN [Replayed EXCEPT ![e.name] = (e.op = "enable")]
                     ELSE Replayed
<1> DEFINE n == Len(audit)
<1>1. /\ n \in Nat /\ DOMAIN audit = 1..n /\ DOMAIN audit' = 1..(n + 1) /\ audit'[n + 1] = e
      /\ \A i \in 1..n : audit'[i] = audit[i]
  BY Grows
<1> HIDE DEF n
<1> DEFINE newest(S) == CHOOSE k \in S : \A j \in S : j <= k
<1>2. ASSUME NEW p \in Chunk, e.changed, e.name = p PROVE Replayed'[p] = (e.op = "enable")
  <2>1. n + 1 \in Changes(p)' /\ \A j \in Changes(p)' : j <= n + 1 /\ j \in Nat
    BY <1>1, <1>2 DEF Changes
  <2>2. newest(Changes(p)') = n + 1
    BY <2>1, <1>1
  <2> QED BY <1>1, <2>1, <2>2 DEF Replayed
<1>3. ASSUME NEW p \in Chunk, ~ (e.changed /\ e.name = p) PROVE Replayed'[p] = Replayed[p]
  <2>1. Changes(p)' = Changes(p) /\ Changes(p) \subseteq 1..n
    BY <1>1, <1>3 DEF Changes
  <2>2. CASE Changes(p) = {}
    BY <2>1, <2>2 DEF Replayed
  <2>3. CASE Changes(p) # {}
    <3>1. newest(Changes(p)) \in 1..n
      <4>1. \E k \in Changes(p) : \A j \in Changes(p) : j <= k
        BY <1>1, <2>1, <2>3, HasLargest
      <4> QED BY <2>1, <4>1
    <3> QED BY <1>1, <2>1, <2>3, <3>1 DEF Replayed
  <2> QED BY <2>2, <2>3
<1>4. Replayed = [p \in Chunk |-> Replayed[p]] /\ Replayed' = [p \in Chunk |-> Replayed'[p]]
  BY DEF Replayed
<1>5. CASE e.changed /\ e.name \in Chunk
  <2>1. \A p \in Chunk : Replayed'[p] = [Replayed EXCEPT ![e.name] = (e.op = "enable")][p]
    BY <1>2, <1>3, <1>4, <1>5
  <2> QED BY <1>4, <1>5, <2>1
<1>6. CASE ~ (e.changed /\ e.name \in Chunk)
  <2>1. \A p \in Chunk : Replayed'[p] = Replayed[p]
    BY <1>3, <1>6
  <2> QED BY <1>4, <1>6, <2>1
<1> QED BY <1>5, <1>6

LEMMA LogStays == UNCHANGED <<audit, start>> => Replayed' = Replayed
BY DEF Replayed, Changes

-----------------------------------------------------------------------------
\* The states of cordis.yml and its calls.

\* What a call's own step changes: its entry in the table of calls.
CallRec == [op : {"none", "enable", "disable", "inspect"}, name : Chunk \cup {Unlisted},
            stage : ModStages, config : Docs(Flags), result : Results]

LEMMA IdleCallRec == IdleModCall \in CallRec
BY DEF IdleModCall, CallRec, ModStages, Results, Nothing, Docs, Flags

LEMMA ModStart == FileInit({[i \in Chunk |-> i = 1]}) /\ CallsInit => ModInv
<1> SUFFICES ASSUME FileInit({[i \in Chunk |-> i = 1]}), CallsInit PROVE ModInv
  OBVIOUS
<1>1. Blank \in Flags /\ {[i \in Chunk |-> i = 1]} \in SUBSET Docs(Flags)
  BY DEF Flags, Docs
<1>2. /\ FileOK(Flags) /\ tmp = 0 /\ oldTarget = target
      /\ \A s \in Saver : saver[s].stage = "idle" /\ rivals[s] = {}
      /\ rivals \in [Saver -> SUBSET Saver]
      /\ target # 0 => \E d \in {[i \in Chunk |-> i = 1]} : inode[target].data = d /\ inode[target].durable = d
  BY <1>1, FilesStart
<1>3. /\ modCall = [c \in Saver |-> IdleModCall] /\ audit = << >> /\ start = Content
  BY DEF CallsInit
<1>5. Content \in Docs(Flags)
  BY <1>1, <1>2 DEF Content, Nothing, Docs, FileOK, FileTypes
<1>6. ModTypes
  BY <1>3, <1>5, IdleCallRec DEF ModTypes, CallRec
<1>7. \A c \in Saver : /\ modCall[c].stage = "idle" /\ modCall[c].result = "none" /\ modCall[c].name = Unlisted
  BY <1>3 DEF IdleModCall
<1>8. \A c \in Saver : CallShape(c)
  BY <1>2, <1>7 DEF CallShape, Saving
<1>9. AuditIsOfCalls
  BY <1>3 DEF AuditIsOfCalls
<1>10. CallsRivals
  BY <1>2, <1>7 DEF CallsRivals, Busy, Progress
<1>11. ChangesStay
  BY <1>7 DEF ChangesStay, CallDone
<1>12. Replayed = start
  BY <1>3, <1>5 DEF Replayed, Changes, Docs
<1>13. LogTells
  BY <1>2, <1>3, <1>7, <1>12 DEF LogTells, Pending, Saving
<1> QED BY <1>2, <1>6, <1>8, <1>9, <1>10, <1>11, <1>13 DEF ModInv

LEMMA FilesAsTheyWere ==
  ASSUME NEW V, FileOK(V), UNCHANGED fileVars
  PROVE  FileOK(V)' /\ Content' = Content /\ \A s \in Saver : Saving(s)' = Saving(s) /\ Progress(s)' = Progress(s)
BY DEF fileVars, FileOK, FileTypes, SaverShape, NamesApart, Inode, Content, Saving, Progress

\* Entries of the log are of calls that are over, and these do not change.
LEMMA AuditStaysTrue ==
  ASSUME ModTypes, AuditIsOfCalls, audit' = audit,
         \A d \in Saver : modCall[d].stage = "over" => modCall'[d] = modCall[d]
  PROVE  AuditIsOfCalls'
<1> SUFFICES ASSUME NEW i \in DOMAIN audit, audit[i].changed
             PROVE  /\ modCall'[audit[i].by].stage = "over" /\ CallDone(audit[i].by)'
                    /\ audit[i].name = modCall'[audit[i].by].name /\ audit[i].op = modCall'[audit[i].by].op
  BY DEF AuditIsOfCalls
<1>1. audit[i].by \in Saver
  <2>1. audit[i] \in AuditEntry
    BY DEF ModTypes
  <2> QED BY <2>1 DEF AuditEntry
<1>2. modCall[audit[i].by].stage = "over" /\ modCall[audit[i].by].result = "changed"
      /\ audit[i].name = modCall[audit[i].by].name /\ audit[i].op = modCall[audit[i].by].op
  BY DEF AuditIsOfCalls, CallDone
<1> QED BY <1>1, <1>2 DEF CallDone

LEMMA BeginKeepsMod ==
  ASSUME ModInv, NEW c \in Saver, BeginCall(c) PROVE ModInv'
<1> DEFINE others == {d \in Saver : Busy(d)}
<1>1. PICK op \in {"enable", "disable", "inspect"}, n \in Chunk \cup {Unlisted} :
          modCall' = [modCall EXCEPT ![c] = [IdleModCall EXCEPT !.op = op, !.name = n, !.stage = "load"]]
  BY DEF BeginCall
<1>2. /\ modCall[c].stage = "idle" /\ MarkRivals(c, others)
      /\ UNCHANGED <<target, tmp, oldTarget, inode, saver, audit, start>>
  BY DEF BeginCall
<1> DEFINE new == [IdleModCall EXCEPT !.op = op, !.name = n, !.stage = "load"]
<1>3. new \in CallRec /\ new.stage = "load" /\ new.result = "none"
  <2>1. "load" \in ModStages /\ IdleModCall.result = "none"
    BY DEF ModStages, IdleModCall
  <2> QED BY <2>1, IdleCallRec DEF CallRec
<1> HIDE DEF new
<1>4. /\ modCall' \in [Saver -> CallRec] /\ modCall'[c] = new
      /\ \A d \in Saver \ {c} : modCall'[d] = modCall[d]
  BY <1>1, <1>3 DEF ModInv, ModTypes, CallRec, new
<1>5. others \in SUBSET Saver /\ c \notin others /\ \A d \in Saver : d \in others <=> Busy(d)
  BY <1>2 DEF Busy
<1> HIDE DEF others
<1>6. /\ rivals' \in [Saver -> SUBSET Saver] /\ rivals'[c] = others
      /\ \A d \in Saver \ {c} : rivals'[d] = IF d \in others THEN rivals[d] \cup {c} ELSE rivals[d]
  <2>1. rivals \in [Saver -> SUBSET Saver]
    BY DEF ModInv, CallsRivals
  <2>2. MarkRivals(c, others)
    BY <1>2
  <2>3. PICK o \in SUBSET Saver : o = others
    BY <1>5
  <2>4. c \notin o /\ MarkRivals(c, o)
    BY <1>5, <2>2, <2>3
  <2>5. /\ rivals' \in [Saver -> SUBSET Saver] /\ rivals'[c] = o
        /\ \A d \in Saver \ {c} : rivals'[d] = IF d \in o THEN rivals[d] \cup {c} ELSE rivals[d]
    BY <2>1, <2>4, MarkedRivals
  <2> QED BY <2>3, <2>5
<1>7. FileOK(Flags)' /\ Content' = Content /\ \A s \in Saver : Saving(s)' = Saving(s) /\ Progress(s)' = Progress(s)
  BY <1>2 DEF ModInv, FileOK, FileTypes, SaverShape, NamesApart, Inode, Content, Saving, Progress
<1>8. ModTypes'
  BY <1>2, <1>4 DEF ModInv, ModTypes, CallRec, AuditEntry
<1>9. \A d \in Saver : CallShape(d)'
  <2>1. CallShape(c)'
    BY <1>2, <1>3, <1>4, <1>7 DEF ModInv, CallShape, Saving
  <2>2. ASSUME NEW d \in Saver \ {c} PROVE CallShape(d)'
    BY <1>2, <1>4, <1>7 DEF ModInv, CallShape, SetEnabled, Wanted
  <2> QED BY <2>1, <2>2
<1>10. \A d \in Saver : CallDone(d)' <=> d # c /\ CallDone(d)
  BY <1>2, <1>3, <1>4 DEF CallDone
<1>11. AuditIsOfCalls'
  BY <1>2, <1>4, AuditStaysTrue DEF ModInv
<1>12. CallsRivals'
  <2>1. \A d \in Saver : modCall'[d].stage = "idle" => rivals'[d] = {}
    BY <1>3, <1>4, <1>5, <1>6 DEF ModInv, CallsRivals, Busy
  <2>2. \A d \in Saver : Busy(d)' <=> d = c \/ Busy(d)
    BY <1>3, <1>4 DEF Busy
  <2>3. \A d, e \in Saver : Busy(d)' /\ Busy(e)' /\ d # e => rivals'[d] # {}
    BY <2>2, <1>5, <1>6 DEF ModInv, CallsRivals
  <2>4. \A d \in Saver : rivals'[d] = {} => Progress(d)'
    <3>1. Progress(c)
      BY <1>2 DEF ModInv, CallShape, Progress
    <3>2. \A d \in Saver \ {c} : rivals'[d] = {} => rivals[d] = {}
      BY <1>6
    <3> QED BY <1>7, <3>1, <3>2 DEF ModInv, CallsRivals
  <2> QED BY <1>6, <2>1, <2>3, <2>4 DEF CallsRivals
<1>13. ChangesStay'
  <2> SUFFICES ASSUME NEW b \in Saver, CallDone(b)', Alone(b)' PROVE Stays(b)'
    BY DEF ChangesStay
  <2>1. b # c /\ CallDone(b) /\ modCall'[b] = modCall[b] /\ modCall[b].name \in Chunk
    BY <1>4, <1>10 DEF CallDone, ModInv, CallShape
  <2>2. rivals[b] = {}
    BY <1>6, <2>1 DEF Alone
  <2>3. modCall[c].name # modCall[b].name
    BY <1>2, <2>1, UnlistedAssumption DEF ModInv, CallShape
  <2>4. Alone(b)
    BY <1>4, <2>1, <2>2, <2>3 DEF Alone
  <2>5. Stays(b)
    BY <2>1, <2>4 DEF ModInv, ChangesStay
  <2> QED BY <1>2, <1>3, <1>4, <1>7, <2>1, <2>5 DEF Stays, Wanted
<1>14. ASSUME NoRivals' PROVE LogTells'
  <2>1. NoRivals /\ LogTells
    <3>1. \A d \in Saver : rivals[d] = {}
      BY <1>2, <1>6, <1>14 DEF NoRivals, ModInv, CallsRivals
    <3> QED BY <3>1 DEF NoRivals, ModInv
  <2>2. Replayed' = Replayed
    BY <1>2, LogStays
  <2>3. ~ Pending(c) /\ ~ Pending(c)' /\ \A d \in Saver \ {c} : Pending(d)' <=> Pending(d)
    BY <1>2, <1>3, <1>4 DEF Pending, Unnoted
  <2>4. \A d \in Saver : Pending(d)' => ToldBy(d)' = ToldBy(d)
    BY <1>4, <2>2, <2>3 DEF ToldBy, Wanted
  <2>5. \A d \in Saver : modCall'[d].stage = "change" \/ Saving(d)' => modCall'[d].config = Content'
    <3>1. ~ Saving(c)
      BY <1>2 DEF ModInv, CallShape, Saving
    <3> QED BY <1>3, <1>4, <1>7, <2>1, <3>1 DEF LogTells
  <2> QED BY <1>3, <1>4, <1>7, <2>1, <2>2, <2>3, <2>4, <2>5 DEF LogTells
<1> QED BY <1>7, <1>8, <1>9, <1>11, <1>12, <1>13, <1>14 DEF ModInv

\* A step of a call that leaves the files alone, knows the file if it goes on
\* to change it, and has changed nothing itself.
LEMMA ReadKeepsMod ==
  ASSUME ModInv, NEW c \in Saver, Busy(c), UNCHANGED <<fileVars, audit, start>>, NEW new \in CallRec,
         modCall' = [modCall EXCEPT ![c] = new], new.name = modCall[c].name,
         modCall[c].stage \in {"load", "change"}, new.stage \in {"change", "note", "over"},
         new.result # "changed", new.stage = "change" => new.config = Content /\ new.result = "none"
  PROVE  ModInv'
<1>1. /\ modCall' \in [Saver -> CallRec] /\ modCall'[c] = new
      /\ \A d \in Saver \ {c} : modCall'[d] = modCall[d]
  BY DEF ModInv, ModTypes, CallRec
<1>2. FileOK(Flags)' /\ Content' = Content /\ \A s \in Saver : Saving(s)' = Saving(s) /\ Progress(s)' = Progress(s)
  BY FilesAsTheyWere DEF ModInv
<1>3. UNCHANGED <<target, tmp, oldTarget, inode, saver, rivals>>
  BY DEF fileVars
<1>4. ModTypes'
  BY <1>1 DEF ModInv, ModTypes, CallRec, AuditEntry
<1>5. saver[c].stage = "idle" /\ ~ Saving(c)
  BY DEF ModInv, CallShape, Saving
<1>6. \A d \in Saver : CallShape(d)'
  <2>1. CallShape(c)'
    BY <1>1, <1>2, <1>3, <1>5 DEF CallShape, Saving
  <2>2. ASSUME NEW d \in Saver \ {c} PROVE CallShape(d)'
    BY <1>1, <1>2, <1>3 DEF ModInv, CallShape, SetEnabled, Wanted
  <2> QED BY <2>1, <2>2
<1>7. ~ CallDone(c) /\ \A d \in Saver : CallDone(d)' <=> CallDone(d)
  <2>1. modCall[c].result = "none"
    BY DEF ModInv, CallShape
  <2> QED BY <1>1, <1>3, <2>1 DEF CallDone
<1>8. AuditIsOfCalls'
  BY <1>1, AuditStaysTrue DEF ModInv
<1>9. CallsRivals'
  <2>1. \A d \in Saver : Busy(d)' => Busy(d)
    BY <1>1 DEF Busy
  <2> QED BY <1>1, <1>2, <1>3, <2>1 DEF ModInv, CallsRivals
<1>10. ChangesStay'
  <2> SUFFICES ASSUME NEW b \in Saver, CallDone(b)', Alone(b)' PROVE Stays(b)'
    BY DEF ChangesStay
  <2>1. b # c /\ CallDone(b) /\ modCall'[b] = modCall[b]
    BY <1>1, <1>7
  <2>2. Alone(b)
    BY <1>1, <1>3, <2>1 DEF Alone
  <2>3. Stays(b)
    BY <2>1, <2>2 DEF ModInv, ChangesStay
  <2> QED BY <1>1, <1>2, <1>3, <2>1, <2>3 DEF Stays, Wanted
<1>11. ASSUME NoRivals' PROVE LogTells'
  <2>1. NoRivals /\ LogTells
    BY <1>3, <1>11 DEF NoRivals, ModInv
  <2>2. Replayed' = Replayed
    BY LogStays
  <2>3. ~ Pending(c) /\ \A d \in Saver : Pending(d)' <=> Pending(d)
    BY <1>1, <1>3, <1>7 DEF Pending, Unnoted, CallDone
  <2>4. \A d \in Saver : Pending(d)' => ToldBy(d)' = ToldBy(d)
    BY <1>1, <2>2, <2>3 DEF ToldBy, Wanted
  <2>5. \A d \in Saver : modCall'[d].stage = "change" \/ Saving(d)' => modCall'[d].config = Content'
    BY <1>1, <1>2, <1>5, <2>1 DEF LogTells
  <2> QED BY <1>2, <2>1, <2>2, <2>3, <2>4, <2>5 DEF LogTells
<1> QED BY <1>2, <1>4, <1>6, <1>8, <1>9, <1>10, <1>11 DEF ModInv

LEMMA LoadKeepsMod ==
  ASSUME ModInv, NEW c \in Saver, LoadConfig(c) PROVE ModInv'
<1>1. modCall \in [Saver -> CallRec] /\ Content \in Docs(Flags) /\ modCall[c].result = "none"
  <2>1. Nothing \in Docs(Flags)
    BY DEF Nothing, Docs, Flags
  <2>2. Content \in Docs(Flags)
    BY <2>1 DEF Content, ModInv, FileOK, FileTypes
  <2> QED BY <2>2 DEF ModInv, ModTypes, CallRec, CallShape, LoadConfig
<1>2. CASE target = 0 \/ Parses(Content)
  <2> DEFINE new == [modCall[c] EXCEPT !.config = Content,
                              !.stage = IF modCall[c].op = "inspect" THEN "note" ELSE "change"]
  <2>1. modCall' = [modCall EXCEPT ![c] = new]
    BY <1>2 DEF LoadConfig
  <2>2. new \in CallRec /\ new.name = modCall[c].name /\ new.stage \in {"note", "change"} /\ new.config = Content
        /\ new.result = "none"
    BY <1>1 DEF CallRec, ModStages
  <2> HIDE DEF new
  <2> QED BY <2>1, <2>2, ReadKeepsMod DEF LoadConfig, Busy
<1>3. CASE ~ (target = 0 \/ Parses(Content))
  <2> DEFINE new == [modCall[c] EXCEPT !.stage = "over", !.result = "parse error"]
  <2>1. modCall' = [modCall EXCEPT ![c] = new]
    BY <1>3 DEF LoadConfig, Returns
  <2>2. new \in CallRec /\ new.name = modCall[c].name /\ new.stage = "over" /\ new.result = "parse error"
    BY <1>1 DEF CallRec, ModStages, Results
  <2> HIDE DEF new
  <2> QED BY <2>1, <2>2, ReadKeepsMod DEF LoadConfig, Busy
<1> QED BY <1>2, <1>3

LEMMA ChangeKeepsMod ==
  ASSUME ModInv, NEW c \in Saver, ChangeConfig(c) PROVE ModInv'
<1>1. modCall \in [Saver -> CallRec] /\ modCall[c].result = "none" /\ modCall[c].stage = "change" /\ Busy(c)
      /\ saver[c].stage = "idle"
  BY DEF ModInv, ModTypes, CallRec, CallShape, ChangeConfig, Busy
<1>2. CASE ~ (Knows(c) /\ modCall[c].config[modCall[c].name] # Wanted(c))
  <2> DEFINE new == [modCall[c] EXCEPT !.stage = "note",
                                 !.result = IF Knows(c) THEN "unchanged" ELSE "not found"]
  <2>1. modCall' = [modCall EXCEPT ![c] = new] /\ UNCHANGED <<fileVars, audit, start>>
    BY <1>2 DEF ChangeConfig, fileVars
  <2>2. new \in CallRec /\ new.name = modCall[c].name /\ new.stage = "note" /\ new.result # "changed"
    BY <1>1 DEF CallRec, ModStages, Results
  <2> HIDE DEF new
  <2> QED BY <1>1, <2>1, <2>2, ReadKeepsMod
<1>3. CASE Knows(c) /\ modCall[c].config[modCall[c].name] # Wanted(c)
  <2> DEFINE new == [modCall[c] EXCEPT !.stage = "save", !.result = "changed"]
  <2>1. /\ modCall' = [modCall EXCEPT ![c] = new] /\ BeginSave(c, SetEnabled(c))
        /\ UNCHANGED <<target, tmp, oldTarget, inode, rivals, audit, start>>
    BY <1>3 DEF ChangeConfig
  <2>2. new \in CallRec /\ new.name = modCall[c].name /\ new.stage = "save" /\ new.result = "changed"
        /\ new.config = modCall[c].config /\ new.op = modCall[c].op
    BY <1>1 DEF CallRec, ModStages, Results
  <2> HIDE DEF new
  <2>3. /\ modCall' \in [Saver -> CallRec] /\ modCall'[c] = new
        /\ \A d \in Saver \ {c} : modCall'[d] = modCall[d]
    BY <1>1, <2>1, <2>2
  <2>4. Blank \in Flags /\ SetEnabled(c) \in Docs(Flags) /\ modCall[c].name \in Chunk
    BY <1>1, <1>3 DEF SetEnabled, Wanted, Knows, Docs, Flags, CallRec
  <2>5. FileOK(Flags)' /\ saver'[c].stage = "create" /\ saver'[c].doc = SetEnabled(c)
    BY <1>1, <2>1, <2>4, BeginKeepsFiles DEF ModInv
  <2>6. \A d \in Saver \ {c} : saver'[d] = saver[d]
    BY <2>1 DEF BeginSave, ModInv, FileOK, FileTypes
  <2>7. ModTypes'
    BY <2>1, <2>3 DEF ModInv, ModTypes, CallRec, AuditEntry
  <2>8. SetEnabled(c)' = SetEnabled(c)
    BY <2>2, <2>3 DEF SetEnabled, Wanted
  <2>9. \A d \in Saver : CallShape(d)'
    <3>1. CallShape(c)'
      BY <2>2, <2>3, <2>4, <2>5, <2>8 DEF CallShape
    <3>2. ASSUME NEW d \in Saver \ {c} PROVE CallShape(d)'
      BY <2>3, <2>6 DEF ModInv, CallShape, SetEnabled, Wanted, Saving
    <3> QED BY <3>1, <3>2
  <2>10. \A d \in Saver : CallDone(d)' <=> d # c /\ CallDone(d)
    BY <2>2, <2>3, <2>5, <2>6 DEF CallDone
  <2>11. AuditIsOfCalls'
    BY <1>1, <2>1, <2>3, AuditStaysTrue DEF ModInv
  <2>12. CallsRivals'
    <3>1. \A d \in Saver : Busy(d)' => Busy(d)
      BY <1>1, <2>3 DEF Busy
    <3>2. \A d \in Saver : Progress(d) => Progress(d)'
      BY <2>1, <2>5, <2>6 DEF Progress
    <3> QED BY <2>1, <2>2, <2>3, <3>1, <3>2 DEF ModInv, CallsRivals
  <2>13. ChangesStay'
    <3> SUFFICES ASSUME NEW b \in Saver, CallDone(b)', Alone(b)' PROVE Stays(b)'
      BY DEF ChangesStay
    <3>1. b # c /\ CallDone(b) /\ modCall'[b] = modCall[b]
      BY <2>3, <2>10
    <3>2. Alone(b)
      BY <2>1, <2>2, <2>3, <3>1 DEF Alone
    <3>3. Stays(b)
      BY <3>1, <3>2 DEF ModInv, ChangesStay
    <3> QED BY <1>1, <2>1, <2>2, <2>3, <3>1, <3>3 DEF Stays, Wanted, Content
  <2>14. ASSUME NoRivals' PROVE LogTells'
    <3>1. NoRivals /\ LogTells
      BY <2>1, <2>14 DEF NoRivals, ModInv
    <3>2. Replayed' = Replayed /\ Content' = Content
      BY <2>1, LogStays DEF Content
    <3>3. ~ Pending(c) /\ \A d \in Saver : Pending(d)' <=> Pending(d)
      BY <1>1, <2>2, <2>3, <2>5, <2>6 DEF Pending, Unnoted
    <3>4. \A d \in Saver : Pending(d)' => ToldBy(d)' = ToldBy(d)
      BY <2>3, <3>2, <3>3 DEF ToldBy, Wanted
    <3>5. \A d \in Saver : modCall'[d].stage = "change" \/ Saving(d)' => modCall'[d].config = Content'
      BY <1>1, <2>2, <2>3, <2>6, <3>1, <3>2 DEF LogTells, Saving
    <3> QED BY <3>1, <3>2, <3>3, <3>4, <3>5 DEF LogTells
  <2> QED BY <2>5, <2>7, <2>9, <2>11, <2>12, <2>13, <2>14 DEF ModInv
<1> QED BY <1>2, <1>3

\* What a save does to any part of a document: it is as it was, blank, or of
\* the document that is saved.
LEMMA SaveStepParts ==
  ASSUME NEW V, Blank \in V, FileOK(V), NEW s \in Saver, SaveStep(s), NEW n \in Chunk, NEW kept,
         Blank \in kept, saver[s].doc[n] \in kept, Content[n] \in kept,
         tmp # 0 => inode[tmp].data[n] \in kept
  PROVE  Content'[n] \in kept /\ (tmp' # 0 => inode'[tmp'].data[n] \in kept)
<1>1. CASE CreateTmp(s)
  <2>1. /\ tmp' \in Inode /\ tmp' # target /\ target' = target
        /\ inode' = [inode EXCEPT ![tmp'].data = Nothing]
    BY <1>1, CreateStep DEF CreateTmp
  <2>2. inode'[tmp'].data = Nothing
    BY <2>1 DEF FileOK, FileTypes
  <2>3. Content' = Content
    BY <2>1 DEF Content, FileOK, FileTypes
  <2> QED BY <2>2, <2>3 DEF Nothing
<1>2. CASE WriteChunk(s)
  <2> DEFINE r == saver[s]
  <2>1. /\ inode' = [inode EXCEPT ![r.ino].data[r.at] = r.doc[r.at]] /\ UNCHANGED <<target, tmp>>
        /\ r.ino \in Inode /\ r.at \in Chunk
    BY <1>2 DEF WriteChunk, FileOK, FileTypes, SaverShape
  <2>2. \A i \in Inode : inode'[i].data[n] = inode[i].data[n] \/ inode'[i].data[n] = r.doc[n]
    <3>1. inode[r.ino].data \in Docs(V)
      BY <2>1 DEF FileOK, FileTypes
    <3>2. inode'[r.ino].data = [inode[r.ino].data EXCEPT ![r.at] = r.doc[r.at]]
      BY <2>1 DEF FileOK, FileTypes
    <3>3. \A i \in Inode \ {r.ino} : inode'[i] = inode[i]
      BY <2>1 DEF FileOK, FileTypes
    <3> QED BY <2>1, <3>1, <3>2, <3>3 DEF Docs
  <2> QED BY <2>1, <2>2 DEF Content, FileOK, FileTypes
<1>3. CASE SyncAll(s)
  <2>1. UNCHANGED <<target, tmp>> /\ \A i \in Inode : inode'[i].data = inode[i].data
    BY <1>3 DEF SyncAll, FileOK, FileTypes, SaverShape
  <2> QED BY <2>1 DEF Content, FileOK, FileTypes
<1>4. CASE Rename(s)
  BY <1>4 DEF Rename, Content
<1>5. CASE SaveFails(s)
  BY <1>5 DEF SaveFails, Content
<1> QED BY <1>1, <1>2, <1>3, <1>4, <1>5 DEF SaveStep

LEMMA SaveKeepsMod ==
  ASSUME ModInv, NEW c \in Saver, SaveConfig(c) PROVE ModInv'
<1>1. /\ modCall[c].stage = "save" /\ Busy(c) /\ SaveStep(c) /\ UNCHANGED <<modCall, audit, start>>
      /\ FileOK(Flags) /\ Blank \in Flags
  BY DEF SaveConfig, Busy, ModInv, Flags
<1>2. FileOK(Flags)'
  BY <1>1, SaveStepKeepsFiles
<1>3. /\ saver[c].stage # "idle" /\ saver'[c].stage # "idle" /\ Saving(c)
      /\ saver'[c].doc = saver[c].doc /\ UNCHANGED rivals
      /\ \A r \in Saver \ {c} : saver'[r] = saver[r]
  BY <1>1, SaverMoves
<1>4. ModTypes'
  BY <1>1 DEF ModInv, ModTypes, AuditEntry
<1>5. /\ modCall[c].name \in Chunk /\ modCall[c].result = "changed" /\ saver[c].doc = SetEnabled(c)
      /\ modCall[c].config \in Docs(Flags)
  BY <1>1 DEF ModInv, CallShape, ModTypes
<1>6. \A d \in Saver : CallShape(d)'
  <2>1. CallShape(c)'
    BY <1>1, <1>3, <1>5 DEF CallShape, SetEnabled, Wanted
  <2>2. ASSUME NEW d \in Saver \ {c} PROVE CallShape(d)'
    BY <1>1, <1>3 DEF ModInv, CallShape, SetEnabled, Wanted, Saving
  <2> QED BY <2>1, <2>2
<1>7. AuditIsOfCalls'
  BY <1>1, AuditStaysTrue DEF ModInv
\* Alone, when nobody is its rival: then no other call is under way.
<1>8. ASSUME rivals[c] = {}
      PROVE  /\ \A d \in Saver \ {c} : ~ Busy(d) /\ ~ Saving(d)
             /\ \A r \in Saver : Progress(r)'
             /\ \/ /\ target' = target /\ saver'[c].stage # "saved"
                   /\ target # 0 => inode'[target] = inode[target]
                \/ /\ target' # 0 /\ inode'[target'].data = saver[c].doc /\ inode'[target'].durable = saver[c].doc
                   /\ saver'[c].stage = "saved" /\ tmp' = 0
  <2>1. \A d \in Saver \ {c} : ~ Busy(d)
    BY <1>1, <1>8 DEF ModInv, CallsRivals
  <2>2. \A d \in Saver \ {c} : ~ Saving(d)
    BY <2>1 DEF ModInv, CallShape, Busy
  <2>3. Progress(c)
    BY <1>8 DEF ModInv, CallsRivals
  <2> QED BY <1>1, <2>1, <2>2, <2>3, SaveAlone
<1>9. CallsRivals'
  <2>1. \A d \in Saver : Busy(d)' <=> Busy(d)
    BY <1>1 DEF Busy
  <2>2. ASSUME NEW d \in Saver \ {c}, rivals[d] = {} PROVE Progress(d)'
    <3>1. ~ Busy(d)
      BY <1>1, <2>2 DEF ModInv, CallsRivals
    <3>2. ~ Saving(d)
      BY <3>1 DEF ModInv, CallShape, Busy
    <3> QED BY <1>3, <3>2 DEF Progress, Saving
  <2>3. rivals[c] = {} => Progress(c)'
    BY <1>8
  <2> QED BY <1>1, <1>3, <2>1, <2>2, <2>3 DEF ModInv, CallsRivals
<1>10. ChangesStay'
  <2> SUFFICES ASSUME NEW b \in Saver, CallDone(b)', Alone(b)' PROVE Stays(b)'
    BY DEF ChangesStay
  <2>1. Alone(b)
    BY <1>1, <1>3 DEF Alone
  <2>2. CASE b = c
    <3>1. saver'[c].stage = "saved" /\ rivals[c] = {}
      BY <1>1, <2>1, <2>2 DEF CallDone, Alone
    <3>2. /\ target' # 0 /\ inode'[target'].data = SetEnabled(c) /\ tmp' = 0
          /\ \A d \in Saver \ {c} : ~ Busy(d)
      BY <1>5, <1>8, <3>1
    <3>3. Content'[modCall[c].name] = Wanted(c)
      BY <1>5, <3>2 DEF Content, SetEnabled, Docs
    <3> QED BY <1>1, <2>2, <3>2, <3>3 DEF Stays, Wanted, Busy
  <2>3. CASE b # c
    <3> DEFINE n == modCall[b].name
               kept == {Wanted(b), Blank}
    <3>1. CallDone(b) /\ n \in Chunk
      BY <1>1, <1>3, <2>3 DEF CallDone, ModInv, CallShape
    <3>2. Stays(b)
      BY <2>1, <3>1 DEF ModInv, ChangesStay
    <3>3. saver[c].doc[n] \in kept
      <4>1. modCall[c].config[n] \in kept /\ modCall[c].name # n
        BY <1>1, <2>1, <2>3, <3>2 DEF Stays, Alone
      <4> QED BY <1>5, <3>1, <4>1 DEF SetEnabled, Docs
    <3>4. Content[n] \in kept /\ (tmp # 0 => inode[tmp].data[n] \in kept)
      BY <3>2 DEF Stays
    <3>5. Content'[n] \in kept /\ (tmp' # 0 => inode'[tmp'].data[n] \in kept)
      <4>1. Blank \in kept
        OBVIOUS
      <4> HIDE DEF kept, n
      <4> QED BY <1>1, <3>1, <3>3, <3>4, <4>1, SaveStepParts
    <3> QED BY <1>1, <3>2, <3>5 DEF Stays, Wanted
  <2> QED BY <2>2, <2>3
<1>11. ASSUME NoRivals' PROVE LogTells'
  <2>1. NoRivals /\ LogTells /\ rivals[c] = {}
    BY <1>3, <1>11 DEF NoRivals, ModInv
  <2>2. /\ \A d \in Saver \ {c} : ~ Busy(d) /\ ~ Saving(d)
        /\ \/ /\ target' = target /\ saver'[c].stage # "saved"
              /\ target # 0 => inode'[target] = inode[target]
           \/ /\ target' # 0 /\ inode'[target'].data = saver[c].doc
              /\ saver'[c].stage = "saved"
    BY <2>1, <1>8
  <2>3. Replayed' = Replayed
    BY <1>1, LogStays
  <2>4. \A d \in Saver : ~ Pending(d)
    BY <1>1, <1>3, <2>2 DEF Pending, Unnoted, Busy, Saving
  <2>5. Content = Replayed /\ modCall[c].config = Content
    BY <1>3, <2>1, <2>4 DEF LogTells
  <2>6. \A d \in Saver \ {c} : ~ Pending(d)' /\ ~ Saving(d)' /\ modCall'[d].stage # "change"
    BY <1>1, <1>3, <2>2 DEF Pending, Unnoted, Busy, Saving
  <2>7. CASE target' = target /\ saver'[c].stage # "saved" /\ (target # 0 => inode'[target] = inode[target])
    <3>1. Content' = Content
      BY <2>7 DEF Content
    <3>2. ~ Pending(c)'
      BY <1>1, <2>7 DEF Pending, Unnoted
    <3> QED BY <1>1, <2>3, <2>5, <2>6, <3>1, <3>2 DEF LogTells
  <2>8. CASE target' # 0 /\ inode'[target'].data = saver[c].doc /\ saver'[c].stage = "saved"
    <3>1. Content' = [Replayed EXCEPT ![modCall[c].name] = Wanted(c)]
      BY <1>5, <2>5, <2>8 DEF Content, SetEnabled
    <3>2. Pending(c)' /\ ~ Saving(c)'
      BY <1>1, <1>5, <2>8 DEF Pending, Unnoted, Saving
    <3>3. ToldBy(c)' = [Replayed EXCEPT ![modCall[c].name] = Wanted(c)]
      BY <1>1, <2>3, <3>2 DEF ToldBy, Wanted
    <3> QED BY <1>1, <2>6, <3>1, <3>2, <3>3 DEF LogTells
  <2> QED BY <2>2, <2>7, <2>8
<1> QED BY <1>2, <1>4, <1>6, <1>7, <1>9, <1>10, <1>11 DEF ModInv

LEMMA SaveReturnsKeepsMod ==
  ASSUME ModInv, NEW c \in Saver, SaveReturns(c) PROVE ModInv'
<1>1. modCall[c].stage = "save" /\ UNCHANGED <<fileVars, audit, start>> /\ modCall \in [Saver -> CallRec]
  BY DEF SaveReturns, ModInv, ModTypes, CallRec
<1>2. PICK new \in CallRec :
        /\ modCall' = [modCall EXCEPT ![c] = new]
        /\ new.name = modCall[c].name /\ new.op = modCall[c].op
        /\ \/ saver[c].stage = "saved" /\ new.stage = "note" /\ new.result = modCall[c].result
           \/ saver[c].stage = "failed" /\ new.stage = "over" /\ new.result = "io error"
  <2>1. CASE saver[c].stage = "saved" /\ modCall' = [modCall EXCEPT ![c].stage = "note"]
    <3> DEFINE new == [modCall[c] EXCEPT !.stage = "note"]
    <3>1. new \in CallRec /\ modCall' = [modCall EXCEPT ![c] = new] /\ new.name = modCall[c].name
          /\ new.op = modCall[c].op /\ new.stage = "note" /\ new.result = modCall[c].result
      BY <1>1, <2>1 DEF CallRec, ModStages
    <3> HIDE DEF new
    <3> QED BY <2>1, <3>1
  <2>2. CASE saver[c].stage = "failed" /\ Returns(c, "io error")
    <3> DEFINE new == [modCall[c] EXCEPT !.stage = "over", !.result = "io error"]
    <3>1. modCall' = [modCall EXCEPT ![c] = new]
      BY <2>2 DEF Returns
    <3>2. new \in CallRec /\ new.name = modCall[c].name
          /\ new.op = modCall[c].op /\ new.stage = "over" /\ new.result = "io error"
      BY <1>1 DEF CallRec, ModStages, Results
    <3> HIDE DEF new
    <3> QED BY <2>2, <3>1, <3>2
  <2> QED BY <2>1, <2>2 DEF SaveReturns
<1>3. /\ modCall' \in [Saver -> CallRec] /\ modCall'[c] = new
      /\ \A d \in Saver \ {c} : modCall'[d] = modCall[d]
  BY <1>1, <1>2
<1>4. FileOK(Flags)' /\ Content' = Content /\ \A s \in Saver : Saving(s)' = Saving(s) /\ Progress(s)' = Progress(s)
  BY <1>1, FilesAsTheyWere DEF ModInv
<1>5. UNCHANGED <<target, tmp, oldTarget, inode, saver, rivals>>
  BY <1>1 DEF fileVars
<1>6. ModTypes'
  BY <1>1, <1>3 DEF ModInv, ModTypes, CallRec, AuditEntry
<1>7. ~ Saving(c) /\ modCall[c].name \in Chunk /\ modCall[c].result = "changed"
  BY <1>1, <1>2 DEF ModInv, CallShape, Saving
<1>8. \A d \in Saver : CallShape(d)'
  <2>1. CallShape(c)'
    BY <1>2, <1>3, <1>4, <1>7 DEF CallShape
  <2>2. ASSUME NEW d \in Saver \ {c} PROVE CallShape(d)'
    BY <1>3, <1>4, <1>5 DEF ModInv, CallShape, SetEnabled, Wanted
  <2> QED BY <2>1, <2>2
<1>9. AuditIsOfCalls'
  BY <1>1, <1>3, AuditStaysTrue DEF ModInv
<1>10. CallsRivals'
  <2>1. \A d \in Saver : Busy(d)' => Busy(d)
    BY <1>1, <1>3 DEF Busy
  <2> QED BY <1>2, <1>3, <1>4, <1>5, <2>1 DEF ModInv, CallsRivals
<1>11. \A d \in Saver : CallDone(d)' <=> CallDone(d)
  BY <1>1, <1>2, <1>3, <1>5 DEF CallDone
<1>12. \A d \in Saver : Wanted(d)' = Wanted(d) /\ modCall'[d].name = modCall[d].name
  BY <1>2, <1>3 DEF Wanted
<1>13. ChangesStay'
  <2> SUFFICES ASSUME NEW b \in Saver, CallDone(b)', Alone(b)' PROVE Stays(b)'
    BY DEF ChangesStay
  <2>1. Stays(b)
    BY <1>5, <1>11, <1>12 DEF ModInv, ChangesStay, Alone
  <2>2. \A d \in Saver : modCall'[d].stage \in {"change", "save"} => modCall'[d] = modCall[d]
    BY <1>2, <1>3
  <2> QED BY <1>4, <1>5, <1>12, <2>1, <2>2 DEF Stays
<1>14. ASSUME NoRivals' PROVE LogTells'
  <2>1. LogTells
    BY <1>5, <1>14 DEF NoRivals, ModInv
  <2>2. Replayed' = Replayed
    BY <1>1, LogStays
  <2>3. \A d \in Saver : Pending(d)' <=> Pending(d)
    BY <1>1, <1>2, <1>3, <1>5 DEF Pending, Unnoted
  <2>4. \A d \in Saver : ToldBy(d)' = ToldBy(d)
    BY <1>12, <2>2, <2>3 DEF ToldBy
  <2>5. \A d \in Saver : modCall'[d].stage = "change" \/ Saving(d)' => modCall'[d].config = Content'
    BY <1>2, <1>3, <1>4, <1>7, <2>1 DEF LogTells
  <2> QED BY <1>4, <2>1, <2>2, <2>3, <2>4, <2>5 DEF LogTells
<1> QED BY <1>4, <1>6, <1>8, <1>9, <1>10, <1>13, <1>14 DEF ModInv

LEMMA NoteKeepsMod ==
  ASSUME ModInv, NEW c \in Saver, NoteAudit(c) PROVE ModInv'
<1> DEFINE e == [op |-> modCall[c].op, name |-> modCall[c].name, by |-> c,
                 success |-> modCall[c].result # "not found",
                 changed |-> modCall[c].result = "changed"]
           new == [modCall[c] EXCEPT !.stage = "over", !.result = modCall[c].result]
<1>1. /\ modCall[c].stage = "note" /\ modCall \in [Saver -> CallRec] /\ Busy(c)
      /\ UNCHANGED <<fileVars, start>> /\ audit' = Append(audit, e) /\ modCall' = [modCall EXCEPT ![c] = new]
  BY DEF NoteAudit, Returns, ModInv, ModTypes, CallRec, Busy
<1>2. /\ new \in CallRec /\ new.name = modCall[c].name /\ new.op = modCall[c].op
      /\ new.stage = "over" /\ new.result = modCall[c].result /\ new.config = modCall[c].config
  BY <1>1 DEF CallRec, ModStages
<1>3. /\ e \in AuditEntry /\ e.op = modCall[c].op /\ e.name = modCall[c].name /\ e.by = c
      /\ e.changed <=> modCall[c].result = "changed"
  BY <1>1 DEF CallRec, AuditEntry
<1> HIDE DEF e, new
<1>4. /\ modCall' \in [Saver -> CallRec] /\ modCall'[c] = new
      /\ \A d \in Saver \ {c} : modCall'[d] = modCall[d]
  BY <1>1, <1>2
<1>5. FileOK(Flags)' /\ Content' = Content /\ \A s \in Saver : Saving(s)' = Saving(s) /\ Progress(s)' = Progress(s)
  BY <1>1, FilesAsTheyWere DEF ModInv
<1>6. UNCHANGED <<target, tmp, oldTarget, inode, saver, rivals>>
  BY <1>1 DEF fileVars
<1>7. /\ audit \in Seq(AuditEntry) /\ audit' \in Seq(AuditEntry)
      /\ DOMAIN audit = 1..Len(audit) /\ DOMAIN audit' = 1..(Len(audit) + 1) /\ Len(audit) \in Nat
      /\ audit'[Len(audit) + 1] = e /\ \A i \in 1..Len(audit) : audit'[i] = audit[i]
  <2>1. audit \in Seq(AuditEntry)
    BY DEF ModInv, ModTypes
  <2> QED BY <1>1, <1>3, <2>1, Grows
<1>8. ModTypes'
  BY <1>1, <1>4, <1>7 DEF ModInv, ModTypes, CallRec, AuditEntry
<1>9. ~ Saving(c)
  BY <1>1 DEF ModInv, CallShape
<1>10. \A d \in Saver : CallShape(d)'
  <2>1. CallShape(c)'
    BY <1>2, <1>4, <1>5, <1>9 DEF ModInv, CallShape
  <2>2. ASSUME NEW d \in Saver \ {c} PROVE CallShape(d)'
    BY <1>4, <1>5, <1>6 DEF ModInv, CallShape, SetEnabled, Wanted
  <2> QED BY <2>1, <2>2
<1>11. \A d \in Saver : CallDone(d)' <=> CallDone(d)
  BY <1>1, <1>2, <1>4, <1>6 DEF CallDone
<1>12. AuditIsOfCalls'
  <2> SUFFICES ASSUME NEW i \in DOMAIN audit', NEW f, f = audit'[i], f.changed
               PROVE  /\ modCall'[f.by].stage = "over" /\ CallDone(f.by)'
                      /\ f.name = modCall'[f.by].name /\ f.op = modCall'[f.by].op
    BY DEF AuditIsOfCalls
  <2>1. CASE i = Len(audit) + 1
    BY <1>2, <1>3, <1>4, <1>7, <2>1 DEF CallDone
  <2>2. CASE i \in 1..Len(audit)
    <3>1. f = audit[i] /\ f.by \in Saver
      <4>1. audit[i] \in AuditEntry
        BY <1>7, <2>2
      <4> QED BY <1>7, <2>2, <4>1 DEF AuditEntry
    <3>2. modCall[f.by].stage = "over" /\ CallDone(f.by)
          /\ f.name = modCall[f.by].name /\ f.op = modCall[f.by].op
      BY <1>7, <2>2, <3>1 DEF ModInv, AuditIsOfCalls
    <3>3. f.by # c
      BY <1>1, <3>2
    <3> QED BY <1>4, <1>11, <3>1, <3>2, <3>3
  <2> QED BY <1>7, <2>1, <2>2
<1>13. CallsRivals'
  <2>1. \A d \in Saver : Busy(d)' => Busy(d)
    BY <1>1, <1>4 DEF Busy
  <2> QED BY <1>2, <1>4, <1>5, <1>6, <2>1 DEF ModInv, CallsRivals
<1>14. \A d \in Saver : Wanted(d)' = Wanted(d) /\ modCall'[d].name = modCall[d].name
  BY <1>2, <1>4 DEF Wanted
<1>15. ChangesStay'
  <2> SUFFICES ASSUME NEW b \in Saver, CallDone(b)', Alone(b)' PROVE Stays(b)'
    BY DEF ChangesStay
  <2>1. Stays(b)
    BY <1>6, <1>11, <1>14 DEF ModInv, ChangesStay, Alone
  <2>2. \A d \in Saver : modCall'[d].stage \in {"change", "save"} => modCall'[d] = modCall[d]
    BY <1>2, <1>4
  <2> QED BY <1>5, <1>6, <1>14, <2>1, <2>2 DEF Stays
<1>16. ASSUME NoRivals' PROVE LogTells'
  <2>1. LogTells /\ \A d \in Saver \ {c} : ~ Busy(d)
    BY <1>1, <1>6, <1>16 DEF NoRivals, ModInv, CallsRivals
  <2>2. Replayed' = IF e.changed /\ e.name \in Chunk THEN [Replayed EXCEPT ![e.name] = (e.op = "enable")]
                    ELSE Replayed
    BY <1>1, <1>3, <1>7, OneEntryMore
  <2>3. \A d \in Saver : ~ Pending(d)'
    BY <1>2, <1>4, <2>1 DEF Pending, Unnoted, Busy
  <2>4. \A d \in Saver \ {c} : ~ Pending(d)
    BY <2>1 DEF Pending, Unnoted, Busy
  <2>5. Content = Replayed'
    <3>1. CASE modCall[c].result = "changed"
      <4>1. Pending(c) /\ modCall[c].name \in Chunk
        BY <1>1, <3>1 DEF Pending, Unnoted, ModInv, CallShape
      <4>2. Content = [Replayed EXCEPT ![modCall[c].name] = Wanted(c)]
        BY <2>1, <4>1 DEF LogTells, ToldBy
      <4> QED BY <1>3, <2>2, <3>1, <4>1, <4>2 DEF Wanted
    <3>2. CASE modCall[c].result # "changed"
      <4>1. ~ Pending(c)
        BY <3>2 DEF Pending
      <4> QED BY <1>3, <2>1, <2>2, <2>4, <3>2, <4>1 DEF LogTells
    <3> QED BY <3>1, <3>2
  <2>6. \A d \in Saver : modCall'[d].stage = "change" \/ Saving(d)' => modCall'[d].config = Content'
    BY <1>2, <1>4, <1>5, <1>9, <2>1 DEF LogTells
  <2> QED BY <1>5, <2>3, <2>5, <2>6 DEF LogTells
<1> QED BY <1>5, <1>8, <1>10, <1>12, <1>13, <1>15, <1>16 DEF ModInv

\* After a crash there is a file, an empty log and no call.
LEMMA CrashKeepsMod ==
  ASSUME ModInv, NEW power \in BOOLEAN, SelfModCrash(power) PROVE ModInv'
<1>1. /\ FileCrash(power) /\ audit' = << >>
      /\ modCall' = [c \in Saver |-> IF modCall[c].stage = "idle" THEN modCall[c]
                                     ELSE [modCall[c] EXCEPT !.stage = "gone"]]
      /\ start' = Content'
  BY DEF SelfModCrash, Content
<1>2. FileOK(Flags)' /\ \A s \in Saver : saver'[s].stage \in {"idle", "gone"}
  BY <1>1, CrashKeepsFiles DEF ModInv
<1>3. \A s \in Saver : ~ Saving(s)' /\ Progress(s)' /\ (saver[s].stage = "idle" => saver'[s].stage = "idle")
  BY <1>1, <1>2 DEF FileCrash, Saving, Progress
<1>4. modCall \in [Saver -> CallRec]
  BY DEF ModInv, ModTypes, CallRec
<1>5. modCall' \in [Saver -> CallRec]
  BY <1>1, <1>4 DEF CallRec, ModStages
<1>6. \A c \in Saver : /\ modCall'[c].stage \in {"idle", "gone"}
                       /\ modCall'[c].stage = "idle" => modCall'[c] = modCall[c] /\ modCall[c].stage = "idle"
                       /\ modCall'[c].name = modCall[c].name /\ modCall'[c].result = modCall[c].result
  BY <1>1, <1>4 DEF CallRec
<1>7. Content' \in Docs(Flags)
  <2>1. Nothing \in Docs(Flags)
    BY DEF Nothing, Docs, Flags
  <2>2. inode' \in [Inode -> [data : Docs(Flags), durable : Docs(Flags)]] /\ target' \in Inode \cup {0}
    BY <1>2 DEF FileOK, FileTypes, Inode
  <2> QED BY <2>1, <2>2 DEF Content, Nothing
<1>8. ModTypes'
  BY <1>1, <1>5, <1>7 DEF ModTypes, CallRec, AuditEntry, Docs
<1>9. \A c \in Saver : CallShape(c)'
  BY <1>3, <1>6 DEF ModInv, CallShape
<1>10. AuditIsOfCalls'
  BY <1>1 DEF AuditIsOfCalls
<1>11. CallsRivals'
  <2>1. rivals' = rivals /\ \A c \in Saver : ~ Busy(c)'
    BY <1>1, <1>6 DEF FileCrash, Busy
  <2> QED BY <1>3, <1>6, <2>1 DEF ModInv, CallsRivals
<1>12. \A c \in Saver : ~ CallDone(c)' /\ ~ Pending(c)'
  <2>1. \A c \in Saver : modCall'[c].stage = "idle" => modCall'[c].result = "none"
    BY <1>6 DEF ModInv, CallShape
  <2> QED BY <1>6, <2>1 DEF CallDone, Pending, Unnoted
<1>13. ChangesStay'
  BY <1>12 DEF ChangesStay
<1>14. Replayed' = Content'
  <2>1. \A n : Changes(n)' = {}
    BY <1>1 DEF Changes
  <2> QED BY <1>1, <1>7, <2>1 DEF Replayed, Docs
<1>15. LogTells'
  BY <1>3, <1>6, <1>12, <1>14 DEF LogTells
<1> QED BY <1>2, <1>8, <1>9, <1>10, <1>11, <1>13, <1>15 DEF ModInv

\* Every step of a plugin call and of the save under it keeps it.
LEMMA ModKeep == ModInv /\ [SelfModNext]_modVars => ModInv'
<1> SUFFICES ASSUME ModInv, [SelfModNext]_modVars PROVE ModInv'
  OBVIOUS
<1>1. CASE SelfModNext
  BY <1>1, BeginKeepsMod, LoadKeepsMod, ChangeKeepsMod, SaveKeepsMod, SaveReturnsKeepsMod, NoteKeepsMod,
     CrashKeepsMod DEF SelfModNext
<1>2. CASE UNCHANGED modVars
  <2>1. UNCHANGED <<target, tmp, oldTarget, inode, saver, rivals, modCall, audit, start>>
    BY <1>2 DEF modVars
  <2>2. FileOK(Flags)' /\ Content' = Content /\ \A s \in Saver : Saving(s)' = Saving(s) /\ Progress(s)' = Progress(s)
    BY <2>1, FilesAsTheyWere DEF ModInv, fileVars
  <2>3. Replayed' = Replayed
    BY <2>1, LogStays
  <2>4. ModTypes' /\ (\A c \in Saver : CallShape(c)') /\ AuditIsOfCalls'
    BY <2>1, <2>2 DEF ModInv, ModTypes, AuditEntry, CallShape, SetEnabled, Wanted, AuditIsOfCalls, CallDone
  <2>5. CallsRivals' /\ ChangesStay'
    BY <2>1, <2>2 DEF ModInv, CallsRivals, ChangesStay, Busy, Stays, Alone, CallDone, Wanted
  <2>6. NoRivals' => LogTells'
    BY <2>1, <2>2, <2>3 DEF ModInv, NoRivals, LogTells, Pending, Unnoted, ToldBy, Wanted
  <2> QED BY <2>2, <2>4, <2>5, <2>6 DEF ModInv
<1> QED BY <1>1, <1>2

\* What the run checks follows.
LEMMA AuditIsTold == ModInv => AuditTellsTheFile
<1> SUFFICES ASSUME ModInv PROVE AuditTellsTheFile
  OBVIOUS
<1>1. ASSUME \A c \in Saver : rivals[c] = {} /\ ~ Unnoted(c) PROVE Content = Replayed
  <2>1. LogTells /\ \A c \in Saver : ~ Pending(c)
    BY <1>1 DEF ModInv, NoRivals, Pending
  <2> QED BY <2>1 DEF LogTells
<1>2. ASSUME NEW i \in DOMAIN audit, audit[i].changed, rivals[audit[i].by] = {}, Content[audit[i].name] # Blank,
             ~ \E c \in Saver \ {audit[i].by} : modCall[c].name = audit[i].name
      PROVE  Content[audit[i].name] = (audit[i].op = "enable")
  <2> DEFINE b == audit[i].by
  <2>1. b \in Saver
    <3>1. audit[i] \in AuditEntry
      BY DEF ModInv, ModTypes
    <3> QED BY <3>1 DEF AuditEntry
  <2>2. CallDone(b) /\ audit[i].name = modCall[b].name /\ audit[i].op = modCall[b].op
    BY <1>2 DEF ModInv, AuditIsOfCalls
  <2>3. Alone(b)
    BY <1>2, <2>2 DEF Alone
  <2>4. Stays(b)
    BY <2>1, <2>2, <2>3 DEF ModInv, ChangesStay
  <2> QED BY <1>2, <2>2, <2>4 DEF Stays, Wanted
<1> QED BY <1>1, <1>2 DEF AuditTellsTheFile
-----------------------------------------------------------------------------
(* The settings tree: what get shows at every key, and what each operation   *)
(* leaves there.                                                             *)

\* A part at a time: the function get is written with exists.
LEMMA GetWalks ==
  ASSUME NEW m, NEW p, Len(p) \in Nat
  PROVE  \E at : /\ at = [i \in 0..Len(p) |-> IF i = 0 THEN MapNode(m) ELSE Child(at[i - 1], p[i])]
                 /\ Get(m, p) = at[Len(p)]
<1> DEFINE L == Len(p)
           Step(f, i) == IF i = 0 THEN MapNode(m) ELSE Child(f[i - 1], p[i])
           OkTo(f, n) == f = [i \in 0..L |-> f[i]] /\ \A i \in 0..n : f[i] = Step(f, i)
           Bad == {n \in 0..L : ~ \E f : OkTo(f, n)}
<1>1. Bad = {}
  <2> SUFFICES ASSUME Bad # {} PROVE FALSE
    OBVIOUS
  <2>1. PICK n \in Bad : \A j \in Bad : n <= j
    <3>1. Bad \in SUBSET Nat
      OBVIOUS
    <3> HIDE DEF Bad
    <3> QED BY <3>1, HasSmallest
  <2>2. CASE n = 0
    <3>1. OkTo([i \in 0..L |-> MapNode(m)], 0)
      OBVIOUS
    <3> QED BY <2>1, <2>2, <3>1
  <2>3. CASE n # 0
    <3>1. n - 1 \in 0..L /\ n - 1 \notin Bad /\ n \in 0..L
      BY <2>1, <2>3
    <3>2. PICK f : OkTo(f, n - 1)
      BY <3>1
    <3> DEFINE g == [i \in 0..L |-> IF i = n THEN Child(f[n - 1], p[n]) ELSE f[i]]
    <3>3. g = [i \in 0..L |-> g[i]] /\ \A i \in 0..L : g[i] = IF i = n THEN Child(f[n - 1], p[n]) ELSE f[i]
      BY <3>2
    <3> HIDE DEF g
    <3>4. ASSUME NEW i \in 0..n PROVE g[i] = Step(g, i)
      <4>1. CASE i = n
        BY <4>1, <3>1, <3>3, <2>3
      <4>2. CASE i # n
        <5>0. i \in 0..(n - 1)
          BY <4>2, <3>1
        <5>1. i \in 0..(n - 1) /\ f[i] = Step(f, i)
          BY <5>0, <3>2
        <5>2. g[i] = f[i] /\ (i # 0 => g[i - 1] = f[i - 1])
          BY <3>1, <3>3, <5>1
        <5> QED BY <5>1, <5>2
      <4> QED BY <4>1, <4>2
    <3> QED BY <3>3, <3>4, <2>1
  <2> QED BY <2>2, <2>3
<1>2. PICK f : OkTo(f, L)
  BY <1>1
<1>3. f = [i \in 0..L |-> IF i = 0 THEN MapNode(m) ELSE Child(f[i - 1], p[i])]
  BY <1>2
<1>4. Get(m, p) = (CHOOSE at : at = [i \in 0..L |-> IF i = 0 THEN MapNode(m) ELSE Child(at[i - 1], p[i])])[L]
  BY DEF Get
<1> QED BY <1>3, <1>4

\* The empty key is the whole tree; one part more is a child.
LEMMA GetRoot == ASSUME NEW m PROVE Get(m, << >>) = MapNode(m)
<1> DEFINE p == << >>
<1>1. Len(p) = 0
  OBVIOUS
<1>2. PICK at : /\ at = [i \in 0..Len(p) |-> IF i = 0 THEN MapNode(m) ELSE Child(at[i - 1], p[i])]
                /\ Get(m, p) = at[Len(p)]
  <2> HIDE DEF p
  <2> QED BY GetWalks, <1>1
<1> QED BY <1>1, <1>2

LEMMA GetChild ==
  ASSUME NEW m, NEW p \in Seq(Key), NEW k \in Key
  PROVE  Get(m, Append(p, k)) = Child(Get(m, p), k)
<1> DEFINE q == Append(p, k)  L == Len(p)
<1>1. L \in Nat /\ Len(q) = L + 1 /\ q[L + 1] = k /\ \A i \in 1..L : q[i] = p[i]
  BY Grows
<1>2. PICK a : /\ a = [i \in 0..L |-> IF i = 0 THEN MapNode(m) ELSE Child(a[i - 1], p[i])]
               /\ Get(m, p) = a[L]
  BY GetWalks, <1>1
<1> HIDE DEF q, L
<1>3. PICK b : /\ b = [i \in 0..(L + 1) |-> IF i = 0 THEN MapNode(m) ELSE Child(b[i - 1], q[i])]
               /\ Get(m, q) = b[L + 1]
  <2>1. Len(q) \in Nat
    BY <1>1
  <2>2. PICK b : /\ b = [i \in 0..Len(q) |-> IF i = 0 THEN MapNode(m) ELSE Child(b[i - 1], q[i])]
                 /\ Get(m, q) = b[Len(q)]
    BY GetWalks, <2>1
  <2> QED BY <1>1, <2>2
<1> DEFINE Differ == {i \in 0..L : a[i] # b[i]}
<1>4. Differ = {}
  <2> SUFFICES ASSUME Differ # {} PROVE FALSE
    OBVIOUS
  <2>1. PICK i \in Differ : \A j \in Differ : i <= j
    <3>1. Differ \in SUBSET Nat
      BY <1>1
    <3> HIDE DEF Differ
    <3> QED BY <3>1, HasSmallest
  <2>2. i \in 0..L /\ a[i] # b[i] /\ i \in 0..(L + 1)
    BY <2>1, <1>1
  <2>3. /\ a[i] = IF i = 0 THEN MapNode(m) ELSE Child(a[i - 1], p[i])
        /\ b[i] = IF i = 0 THEN MapNode(m) ELSE Child(b[i - 1], q[i])
    BY <2>2, <1>2, <1>3
  <2>4. i # 0 => i - 1 \in 0..L /\ i - 1 \notin Differ /\ i \in 1..L
    BY <2>1, <2>2, <1>1
  <2> QED BY <2>2, <2>3, <2>4, <1>1
<1>5. L \in 0..L /\ L + 1 \in 0..(L + 1) /\ L + 1 # 0 /\ (L + 1) - 1 = L
  BY <1>1
<1>6. b[L + 1] = Child(b[L], q[L + 1]) /\ a[L] = b[L]
  BY <1>3, <1>4, <1>5
<1> QED BY <1>1, <1>2, <1>3, <1>6 DEF q

\* Keys as lists of parts, and what above and below mean part by part.
LEMMA PathIs == \A p : p \in Path <=> p \in Seq(Key) /\ Len(p) \in 1..Depth
<1>1. ASSUME NEW p \in Path PROVE p \in Seq(Key) /\ Len(p) \in 1..Depth
  <2>1. PICK n \in 1..Depth : p \in [1..n -> Key]
    BY <1>1 DEF Path
  <2>2. n \in Nat
    BY <2>1, TreeAssumption
  <2>3. p \in Seq(Key)
    BY <2>1, <2>2, SeqDef
  <2>4. Len(p) = n
    BY <2>1, <2>2, <2>3, LenProperties
  <2> QED BY <2>1, <2>3, <2>4
<1>2. ASSUME NEW p \in Seq(Key), Len(p) \in 1..Depth PROVE p \in Path
  BY <1>2, LenProperties DEF Path
<1> QED BY <1>1, <1>2

LEMMA BelowIs ==
  ASSUME NEW p \in Seq(Key), NEW q \in Seq(Key)
  PROVE  Below(p, q) <=> Len(p) <= Len(q) /\ \A i \in 1..Len(p) : p[i] = q[i]
<1>1. Len(p) \in Nat /\ Len(q) \in Nat
  BY LenProperties
<1>2. SubSeq(p, 1, Len(p)) = p
  BY SubSeqFull
<1>3. CASE Len(p) <= Len(q)
  <2>1. \A i \in 1..Len(p) : q[i] \in Key
    BY <1>1, <1>3, ElementOfSeq
  <2>2. /\ SubSeq(q, 1, Len(p)) \in Seq(Key)
        /\ Len(SubSeq(q, 1, Len(p))) = Len(p)
        /\ \A i \in 1..Len(p) : SubSeq(q, 1, Len(p))[i] = q[i]
    BY <2>1, <1>1, SubSeqProperties
  <2>3. SubSeq(q, 1, Len(p)) = p <=> \A i \in 1..Len(p) : p[i] = q[i]
    BY <2>2, SeqEqual
  <2> QED BY <2>3, <1>2, <1>3 DEF Below, IsPrefix
<1> QED BY <1>1, <1>3 DEF Below, IsPrefix

LEMMA TopOf ==
  ASSUME NEW p \in Seq(Key), NEW i \in 0..Len(p)
  PROVE  /\ SubSeq(p, 1, i) \in Seq(Key) /\ Len(SubSeq(p, 1, i)) = i
         /\ \A j \in 1..i : SubSeq(p, 1, i)[j] = p[j]
         /\ Below(SubSeq(p, 1, i), p)
<1>1. Len(p) \in Nat /\ i \in Nat
  BY LenProperties
<1>2. \A j \in 1..i : p[j] \in Key
  BY <1>1, ElementOfSeq
<1>3. /\ SubSeq(p, 1, i) \in Seq(Key) /\ Len(SubSeq(p, 1, i)) = i
      /\ \A j \in 1..i : SubSeq(p, 1, i)[j] = p[j]
  BY <1>1, <1>2, SubSeqProperties
<1> DEFINE t == SubSeq(p, 1, i)
<1>4. Below(t, p) <=> Len(t) <= Len(p) /\ \A j \in 1..Len(t) : t[j] = p[j]
  <2> HIDE DEF t
  <2> QED BY <1>3, BelowIs DEF t
<1> QED BY <1>1, <1>3, <1>4

LEMMA TopGrows ==
  ASSUME NEW p \in Seq(Key), NEW i \in 0..(Len(p) - 1)
  PROVE  p[i + 1] \in Key /\ SubSeq(p, 1, i + 1) = Append(SubSeq(p, 1, i), p[i + 1])
<1>1. Len(p) \in Nat /\ i \in 0..Len(p) /\ i + 1 \in 0..Len(p) /\ i + 1 \in 1..Len(p)
  BY LenProperties
<1>2. p[i + 1] \in Key
  BY <1>1, ElementOfSeq
<1> DEFINE t == SubSeq(p, 1, i)  u == SubSeq(p, 1, i + 1)
<1>3. /\ t \in Seq(Key) /\ Len(t) = i /\ \A j \in 1..i : t[j] = p[j]
      /\ u \in Seq(Key) /\ Len(u) = i + 1 /\ \A j \in 1..(i + 1) : u[j] = p[j]
  BY <1>1, TopOf
<1> HIDE DEF t, u
<1>4. /\ Append(t, p[i + 1]) \in Seq(Key) /\ Len(Append(t, p[i + 1])) = i + 1
      /\ Append(t, p[i + 1])[i + 1] = p[i + 1]
      /\ \A j \in 1..i : Append(t, p[i + 1])[j] = t[j]
  BY <1>2, <1>3, Grows
<1>5. \A j \in 1..(i + 1) : u[j] = Append(t, p[i + 1])[j]
  BY <1>1, <1>3, <1>4
<1>6. u = Append(t, p[i + 1])
  BY <1>3, <1>4, <1>5, SeqEqual
<1> QED BY <1>2, <1>6 DEF t, u

LEMMA AboveIsTop ==
  ASSUME NEW p \in Seq(Key), NEW q \in Seq(Key), Below(q, p)
  PROVE  Len(q) \in 0..Len(p) /\ q = SubSeq(p, 1, Len(q))
<1>1. Len(q) \in 0..Len(p) /\ \A i \in 1..Len(q) : q[i] = p[i]
  BY BelowIs, LenProperties
<1>2. /\ SubSeq(p, 1, Len(q)) \in Seq(Key) /\ Len(SubSeq(p, 1, Len(q))) = Len(q)
      /\ \A j \in 1..Len(q) : SubSeq(p, 1, Len(q))[j] = p[j]
  BY <1>1, TopOf
<1> QED BY <1>1, <1>2, SeqEqual

LEMMA BelowAppend ==
  ASSUME NEW p \in Seq(Key), NEW q \in Seq(Key), NEW k \in Key
  PROVE  Below(p, Append(q, k)) <=> p = Append(q, k) \/ Below(p, q)
<1> DEFINE r == Append(q, k)
<1> SUFFICES Below(p, r) <=> p = r \/ Below(p, q)
  OBVIOUS
<1>1. /\ r \in Seq(Key) /\ Len(r) = Len(q) + 1 /\ r[Len(q) + 1] = k
      /\ \A i \in 1..Len(q) : r[i] = q[i]
      /\ Len(p) \in Nat /\ Len(q) \in Nat
  BY Grows, LenProperties
<1> HIDE DEF r
<1>2. Below(p, r) <=> Len(p) <= Len(r) /\ \A i \in 1..Len(p) : p[i] = r[i]
  BY <1>1, BelowIs
<1>3. Below(p, q) <=> Len(p) <= Len(q) /\ \A i \in 1..Len(p) : p[i] = q[i]
  BY BelowIs
<1>4. CASE Len(p) <= Len(q)
  BY <1>1, <1>2, <1>3, <1>4
<1>5. CASE Len(p) = Len(q) + 1
  <2>1. (\A i \in 1..Len(p) : p[i] = r[i]) => p = r
    BY <1>1, <1>5, SeqEqual
  <2>2. p = r => \A i \in 1..Len(p) : p[i] = r[i]
    OBVIOUS
  <2> QED BY <1>1, <1>2, <1>3, <1>5, <2>1, <2>2
<1>6. CASE Len(p) > Len(q) + 1
  BY <1>1, <1>2, <1>3, <1>6
<1> QED BY <1>1, <1>4, <1>5, <1>6

\* Induction over keys, a part at a time.
LEMMA LastPart ==
  ASSUME NEW p \in Seq(Key), Len(p) # 0
  PROVE  /\ Front(p) \in Seq(Key) /\ Last(p) \in Key /\ p = Append(Front(p), Last(p))
         /\ Len(Front(p)) = Len(p) - 1
<1>1. Len(p) \in Nat /\ Len(p) - 1 \in 0..(Len(p) - 1) /\ Len(p) - 1 \in 0..Len(p) /\ (Len(p) - 1) + 1 = Len(p)
  BY LenProperties
<1>2. p[Len(p)] \in Key /\ SubSeq(p, 1, Len(p)) = Append(SubSeq(p, 1, Len(p) - 1), p[Len(p)])
  BY <1>1, TopGrows
<1>3. SubSeq(p, 1, Len(p)) = p
  BY SubSeqFull
<1>4. SubSeq(p, 1, Len(p) - 1) \in Seq(Key) /\ Len(SubSeq(p, 1, Len(p) - 1)) = Len(p) - 1
  BY <1>1, TopOf
<1> QED BY <1>2, <1>3, <1>4 DEF Front, Last

LEMMA KeyInduction ==
  ASSUME NEW S, << >> \in S,
         \A p \in Seq(Key), k \in Key : p \in S => Append(p, k) \in S
  PROVE  \A p \in Seq(Key) : p \in S
<1> DEFINE Bad == {n \in Nat : \E p \in Seq(Key) : p \notin S /\ Len(p) = n}
<1>1. Bad = {}
  <2> SUFFICES ASSUME Bad # {} PROVE FALSE
    OBVIOUS
  <2>1. PICK n \in Bad : \A j \in Bad : n <= j
    <3>1. Bad \in SUBSET Nat
      OBVIOUS
    <3> HIDE DEF Bad
    <3> QED BY <3>1, HasSmallest
  <2>2. PICK p \in Seq(Key) : p \notin S /\ Len(p) = n
    BY <2>1
  <2>3. CASE n = 0
    <3>1. p = << >>
      BY <2>2, <2>3, EmptySeq
    <3> QED BY <3>1, <2>2
  <2>4. CASE n # 0
    <3>1. /\ Front(p) \in Seq(Key) /\ Last(p) \in Key /\ p = Append(Front(p), Last(p))
          /\ Len(Front(p)) = n - 1
      BY <2>2, <2>4, LastPart
    <3>2. n \in Nat /\ n - 1 \in Nat
      BY <2>1, <2>4
    <3>3. Front(p) \in S
      BY <2>1, <3>1, <3>2
    <3> QED BY <3>1, <3>3, <2>2
  <2> QED BY <2>3, <2>4
<1>2. \A p \in Seq(Key) : Len(p) \in Nat
  BY LenProperties
<1> QED BY <1>1, <1>2

\* What is above and below the empty key, and a key itself.
LEMMA BelowEnds ==
  ASSUME NEW p \in Seq(Key)
  PROVE  Below(p, p) /\ (Below(p, << >>) <=> p = << >>) /\ Below(<< >>, p)
<1>1. << >> \in Seq(Key) /\ Len(<< >>) = 0 /\ Len(p) \in Nat
  BY EmptySeq, LenProperties
<1>2. Len(p) = 0 => p = << >>
  BY EmptySeq
<1>3. Below(p, << >>) <=> Len(p) <= Len(<< >>) /\ \A i \in 1..Len(p) : p[i] = << >>[i]
  BY <1>1, BelowIs
<1>4. Below(<< >>, p) <=> Len(<< >>) <= Len(p) /\ \A i \in 1..Len(<< >>) : << >>[i] = p[i]
  BY <1>1, BelowIs
<1>5. Below(p, p) <=> Len(p) <= Len(p) /\ \A i \in 1..Len(p) : p[i] = p[i]
  BY BelowIs
<1> QED BY <1>1, <1>2, <1>3, <1>4, <1>5

\* Two trees that agree at a key agree below it.
LEMMA SameBelow ==
  ASSUME NEW m, NEW n, NEW r \in Seq(Key), Get(m, r) = Get(n, r)
  PROVE  \A q \in Seq(Key) : Below(r, q) => Get(m, q) = Get(n, q)
<1> DEFINE S == {q \in Seq(Key) : Below(r, q) => Get(m, q) = Get(n, q)}
<1>1. << >> \in S
  <2>1. << >> \in Seq(Key) /\ (Below(r, << >>) => r = << >>)
    BY EmptySeq, BelowEnds
  <2> QED BY <2>1
<1>2. ASSUME NEW q \in Seq(Key), NEW k \in Key, q \in S PROVE Append(q, k) \in S
  <2>1. Append(q, k) \in Seq(Key) /\ (Below(r, Append(q, k)) => r = Append(q, k) \/ Below(r, q))
    BY AppendProperties, BelowAppend
  <2>2. Get(m, Append(q, k)) = Child(Get(m, q), k) /\ Get(n, Append(q, k)) = Child(Get(n, q), k)
    BY GetChild
  <2> QED BY <1>2, <2>1, <2>2
<1> HIDE DEF S
<1>3. \A q \in Seq(Key) : q \in S
  BY <1>1, <1>2, KeyInduction
<1> QED BY <1>3 DEF S

LEMMA NoneIs == ~ IsMapping(None) /\ None.scalar = "none" /\ None.map = EmptyMapping
BY TreeAssumption DEF None, ScalarNode, IsMapping

\* Below what is no mapping there is nothing.
LEMMA NoneBelow ==
  ASSUME NEW m, NEW r \in Seq(Key), ~ IsMapping(Get(m, r))
  PROVE  \A q \in Seq(Key) : Below(r, q) => ~ IsMapping(Get(m, q)) /\ (q # r => Get(m, q) = None)
<1> DEFINE S == {q \in Seq(Key) : Below(r, q) => ~ IsMapping(Get(m, q)) /\ (q # r => Get(m, q) = None)}
<1>1. << >> \in S
  <2>1. << >> \in Seq(Key) /\ (Below(r, << >>) => r = << >>)
    BY EmptySeq, BelowEnds
  <2> QED BY <2>1
<1>2. ASSUME NEW q \in Seq(Key), NEW k \in Key, q \in S PROVE Append(q, k) \in S
  <2>1. Append(q, k) \in Seq(Key) /\ (Below(r, Append(q, k)) => r = Append(q, k) \/ Below(r, q))
    BY AppendProperties, BelowAppend
  <2>2. ~ IsMapping(Get(m, q)) => Get(m, Append(q, k)) = None
    BY GetChild DEF Child
  <2> QED BY <1>2, <2>1, <2>2, NoneIs
<1> HIDE DEF S
<1>3. \A q \in Seq(Key) : q \in S
  BY <1>1, <1>2, KeyInduction
<1> QED BY <1>3 DEF S

\* Above something there are mappings only.
LEMMA MappingsAbove ==
  ASSUME NEW m, NEW q \in Seq(Key), NEW r \in Seq(Key), Below(r, q),
         IsMapping(Get(m, q)) \/ (r # q /\ Get(m, q).scalar # "none")
  PROVE  IsMapping(Get(m, r))
BY NoneBelow, NoneIs

\* set: the function it is written with exists, from the last part up.
Writes(m, p, n, from) ==
  from = [i \in 1..Len(p) |-> Put(Under(m, SubSeq(p, 1, i - 1)), p[i],
                                   IF i = Len(p) THEN n ELSE MapNode(from[i + 1]))]
LEMMA SetKeyWrites ==
  ASSUME NEW m, NEW p \in Seq(Key), Len(p) # 0, NEW n
  PROVE  \E from : Writes(m, p, n, from) /\ SetKey(m, p, n) = from[1]
<1> DEFINE L == Len(p)
           W(i, c) == Put(Under(m, SubSeq(p, 1, i - 1)), p[i], IF i = L THEN n ELSE MapNode(c))
           OkFrom(f, j) == f = [i \in 1..L |-> f[i]] /\ \A i \in 1..L : i >= j => f[i] = W(i, f[i + 1])
           Bad == {d \in 0..L : ~ \E f : OkFrom(f, (L - d) + 1)}
<1>0. L \in Nat /\ L >= 1
  BY LenProperties
<1>1. Bad = {}
  <2> SUFFICES ASSUME Bad # {} PROVE FALSE
    OBVIOUS
  <2>1. PICK d \in Bad : \A j \in Bad : d <= j
    <3>1. Bad \in SUBSET Nat
      BY <1>0
    <3> HIDE DEF Bad
    <3> QED BY <3>1, HasSmallest
  <2>a. d \in 0..L /\ ~ \E f : OkFrom(f, (L - d) + 1)
    BY <2>1
  <2>2. CASE d = 0
    <3> DEFINE f == [i \in 1..L |-> n]
    <3>1. f = [i \in 1..L |-> f[i]]
      OBVIOUS
    <3>2. \A i \in 1..L : ~ (i >= (L - d) + 1)
      BY <1>0, <2>2
    <3> HIDE DEF f
    <3>3. OkFrom(f, (L - d) + 1)
      BY <3>1, <3>2
    <3> QED BY <2>a, <3>3
  <2>3. CASE d # 0
    <3>1. d - 1 \in 0..L /\ d - 1 \notin Bad
      <4> HIDE DEF Bad, OkFrom
      <4> QED BY <2>1, <2>3, <2>a, <1>0
    <3>2. PICK f : OkFrom(f, (L - (d - 1)) + 1)
      BY <3>1
    <3> DEFINE j == (L - d) + 1
               g == [i \in 1..L |-> IF i = j THEN W(j, f[j + 1]) ELSE f[i]]
    <3>3. g = [i \in 1..L |-> g[i]] /\ \A i \in 1..L : g[i] = IF i = j THEN W(j, f[j + 1]) ELSE f[i]
      OBVIOUS
    <3>4. j \in 1..L /\ (L - (d - 1)) + 1 = j + 1
      BY <2>3, <2>a, <1>0
    <3>7. OkFrom(f, j + 1)
      <4> HIDE DEF OkFrom
      <4> QED BY <3>2, <3>4
    <3> HIDE DEF g, j, W
    <3>8. \A i \in 1..L : i >= j + 1 => f[i] = W(i, f[i + 1])
      BY <3>7
    <3>5. ASSUME NEW i \in 1..L, i >= j PROVE g[i] = W(i, g[i + 1])
      <4>0. g[i] = W(i, f[i + 1])
        <5>1. i = j \/ i >= j + 1
          BY <3>4, <3>5, <1>0
        <5>2. CASE i = j
          BY <5>2, <3>3
        <5>3. CASE i # j
          BY <5>1, <5>3, <3>3, <3>8
        <5> QED BY <5>2, <5>3
      <4>1. CASE i = L
        <5>1. W(L, f[L + 1]) = W(L, g[L + 1])
          BY DEF W
        <5> QED BY <4>0, <4>1, <5>1
      <4>2. CASE i # L
        <5>1. i + 1 \in 1..L /\ i + 1 # j
          BY <4>2, <3>5, <3>4, <1>0
        <5>2. g[i + 1] = f[i + 1]
          BY <5>1, <3>3
        <5> QED BY <4>0, <5>2
      <4> QED BY <4>1, <4>2
    <3>6. OkFrom(g, j)
      BY <3>3, <3>5
    <3> QED BY <2>a, <3>6 DEF j
  <2> QED BY <2>2, <2>3
<1>2. PICK f : OkFrom(f, 1)
  <2>1. L \notin Bad /\ L \in 0..L /\ (L - L) + 1 = 1
    <3> HIDE DEF Bad
    <3> QED BY <1>0, <1>1
  <2> QED BY <2>1
<1>3. f = [i \in 1..L |-> W(i, f[i + 1])]
  <2> HIDE DEF W
  <2>1. \A i \in 1..L : f[i] = W(i, f[i + 1])
    <3>1. \A i \in 1..L : i >= 1 => f[i] = W(i, f[i + 1])
      BY <1>2
    <3>2. \A i \in 1..L : i >= 1
      BY <1>0
    <3> QED BY <3>1, <3>2
  <2> QED BY <1>2, <2>1
<1>4. SetKey(m, p, n) = (CHOOSE from : Writes(m, p, n, from))[1]
  BY DEF SetKey, Writes
<1>5. Writes(m, p, n, f)
  BY <1>3 DEF Writes
<1> QED BY <1>4, <1>5

\* Induction up to a bound.
LEMMA UpTo ==
  ASSUME NEW N \in Nat, NEW S, 0 \in S, \A i \in 0..(N - 1) : i \in S => i + 1 \in S
  PROVE  \A i \in 0..N : i \in S
<1> DEFINE Bad == {i \in 0..N : i \notin S}
<1>1. Bad \in SUBSET Nat
  OBVIOUS
<1>2. ASSUME Bad # {} PROVE FALSE
  <2>1. PICK i \in Bad : \A j \in Bad : i <= j
    <3> HIDE DEF Bad
    <3> QED BY <1>1, <1>2, HasSmallest
  <2>2. i \in 0..N /\ i # 0
    BY <2>1
  <2>3. i - 1 \in 0..(N - 1) /\ i - 1 \in 0..N /\ i - 1 \notin Bad /\ (i - 1) + 1 = i
    BY <2>1, <2>2
  <2> QED BY <2>1, <2>3
<1> QED BY <1>2

LEMMA ChildOfMap == \A f, k : Child(MapNode(f), k) = IF k \in DOMAIN f THEN f[k] ELSE None
BY DEF Child, MapNode, IsMapping

LEMMA ChildUnder ==
  \A m, q, k : Child(Get(m, q), k) = IF k \in DOMAIN Under(m, q) THEN Under(m, q)[k] ELSE None
<1> SUFFICES ASSUME NEW m, NEW q, NEW k
             PROVE  Child(Get(m, q), k) = IF k \in DOMAIN Under(m, q) THEN Under(m, q)[k] ELSE None
  OBVIOUS
<1> QED BY DEF Child, Under, EmptyMapping

\* What set leaves at the key and above it.
Opened(m, p, n, i, c) ==
  /\ c = n \/ IsMapping(c)
  /\ Get(SetKey(m, p, n), SubSeq(p, 1, i)) = MapNode(Put(Under(m, SubSeq(p, 1, i)), p[i + 1], c))

LEMMA SetKeyAbove ==
  ASSUME NEW m, NEW p \in Seq(Key), Len(p) # 0, NEW n
  PROVE  /\ Get(SetKey(m, p, n), p) = n
         /\ \A i \in 0..(Len(p) - 1) : \E c : Opened(m, p, n, i, c)
<1> DEFINE L == Len(p)
<1>0. L \in Nat /\ L >= 1
  BY LenProperties
<1>1. PICK from : Writes(m, p, n, from) /\ SetKey(m, p, n) = from[1]
  BY SetKeyWrites
<1> DEFINE new == SetKey(m, p, n)
           C(i) == IF i = L THEN n ELSE MapNode(from[i + 1])
           S == {i \in 0..L : Get(new, SubSeq(p, 1, i)) = C(i)}
<1>2. \A i \in 1..L : from[i] = Put(Under(m, SubSeq(p, 1, i - 1)), p[i], C(i))
  BY <1>1 DEF Writes
<1>3. new = from[1]
  BY <1>1
<1> HIDE DEF new
<1>4. 0 \in S
  <2>1. SubSeq(p, 1, 0) = << >>
    BY SubSeqEmpty
  <2>2. Get(new, << >>) = MapNode(from[1])
    BY <1>3, GetRoot
  <2>3. 0 \in 0..L /\ 0 # L /\ 0 + 1 = 1
    BY <1>0
  <2>4. C(0) = MapNode(from[1])
    BY <2>3
  <2> HIDE DEF C
  <2> QED BY <2>1, <2>2, <2>3, <2>4
<1>5. ASSUME NEW i \in 0..(L - 1), i \in S PROVE i + 1 \in S
  <2>1. i + 1 \in 1..L /\ i + 1 \in 0..L /\ i # L /\ (i + 1) - 1 = i /\ i \in 0..L
    BY <1>0
  <2>2. p[i + 1] \in Key /\ SubSeq(p, 1, i + 1) = Append(SubSeq(p, 1, i), p[i + 1])
    BY TopGrows
  <2>3. SubSeq(p, 1, i) \in Seq(Key)
    BY <2>1, TopOf
  <2>4. Get(new, SubSeq(p, 1, i)) = MapNode(from[i + 1])
    BY <1>5, <2>1
  <2>5. Get(new, SubSeq(p, 1, i + 1)) = Child(MapNode(from[i + 1]), p[i + 1])
    <3> DEFINE t == SubSeq(p, 1, i)  k == p[i + 1]
    <3>1. t \in Seq(Key) /\ k \in Key
      BY <2>2, <2>3
    <3> HIDE DEF t, k
    <3>2. Get(new, Append(t, k)) = Child(Get(new, t), k)
      BY <3>1, GetChild
    <3> QED BY <3>2, <2>2, <2>4 DEF t, k
  <2>6. from[i + 1] = Put(Under(m, SubSeq(p, 1, i)), p[i + 1], C(i + 1))
    BY <1>2, <2>1
  <2> HIDE DEF C
  <2>7. p[i + 1] \in DOMAIN from[i + 1] /\ from[i + 1][p[i + 1]] = C(i + 1)
    BY <2>6 DEF Put
  <2>8. Get(new, SubSeq(p, 1, i + 1)) = C(i + 1)
    BY <2>5, <2>7, ChildOfMap
  <2> QED BY <2>1, <2>8
<1>6. \A i \in 0..L : i \in S
  <2> HIDE DEF S
  <2> QED BY <1>0, <1>4, <1>5, UpTo
<1>7. Get(new, p) = n
  <2>1. SubSeq(p, 1, L) = p
    BY SubSeqFull
  <2>2. L \in S
    BY <1>0, <1>6
  <2> QED BY <2>1, <2>2
<1>8. ASSUME NEW i \in 0..(L - 1)
      PROVE  \E c : Opened(m, p, n, i, c)
  <2>1. i + 1 \in 1..L /\ i \in 0..L /\ i # L /\ (i + 1) - 1 = i
    BY <1>0
  <2>2. i \in S
    BY <2>1, <1>6
  <2>3. Get(new, SubSeq(p, 1, i)) = MapNode(from[i + 1])
    BY <2>1, <2>2
  <2>4. from[i + 1] = Put(Under(m, SubSeq(p, 1, i)), p[i + 1], C(i + 1))
    BY <2>1, <1>2
  <2>5. C(i + 1) = n \/ IsMapping(C(i + 1))
    BY DEF IsMapping, MapNode
  <2> HIDE DEF C
  <2>6. Opened(m, p, n, i, C(i + 1))
    BY <2>3, <2>4, <2>5 DEF Opened, new
  <2> QED BY <2>6
<1> QED BY <1>7, <1>8 DEF new

\* A key that is neither above nor below keeps what it had.
LEMMA SetKeyBeside ==
  ASSUME NEW m, NEW p \in Seq(Key), Len(p) # 0, NEW n
  PROVE  \A q \in Seq(Key) : ~ Below(q, p) /\ ~ Below(p, q) => Get(SetKey(m, p, n), q) = Get(m, q)
<1> DEFINE new == SetKey(m, p, n)
           S == {q \in Seq(Key) : ~ Below(q, p) /\ ~ Below(p, q) => Get(new, q) = Get(m, q)}
<1>0. \A i \in 0..(Len(p) - 1) : \E c :
         Get(new, SubSeq(p, 1, i)) = MapNode(Put(Under(m, SubSeq(p, 1, i)), p[i + 1], c))
  <2>1. \A i \in 0..(Len(p) - 1) : \E c : Opened(m, p, n, i, c)
    BY SetKeyAbove
  <2> QED BY <2>1 DEF Opened
<1> HIDE DEF new
<1>1. << >> \in S
  BY EmptySeq, BelowEnds
<1>2. ASSUME NEW q \in Seq(Key), NEW k \in Key, q \in S PROVE Append(q, k) \in S
  <2> DEFINE r == Append(q, k)
  <2>1. r \in Seq(Key) /\ (Below(p, q) => Below(p, r))
    BY AppendProperties, BelowAppend
  <2>2. Get(new, r) = Child(Get(new, q), k) /\ Get(m, r) = Child(Get(m, q), k)
    BY GetChild
  <2>3. CASE ~ Below(q, p)
    BY <1>2, <2>1, <2>2, <2>3
  <2>4. CASE Below(q, p) /\ ~ Below(r, p) /\ ~ Below(p, r)
    <3>1. Len(q) \in 0..Len(p) /\ q = SubSeq(p, 1, Len(q)) /\ Len(p) \in Nat
      BY <2>4, AboveIsTop, LenProperties
    <3>2. q # p
      BY <2>1, <2>4, BelowEnds
    <3>3. Len(q) # Len(p)
      BY <3>1, <3>2, SubSeqFull
    <3> DEFINE i == Len(q)
    <3>4. i \in 0..(Len(p) - 1) /\ i + 1 \in 0..Len(p)
      BY <3>1, <3>3
    <3>5. SubSeq(p, 1, i + 1) = Append(q, p[i + 1]) /\ Below(SubSeq(p, 1, i + 1), p)
      BY <3>1, <3>4, TopGrows, TopOf
    <3>6. k # p[i + 1]
      BY <2>4, <3>5
    <3>7. PICK c : Get(new, q) = MapNode(Put(Under(m, q), p[i + 1], c))
      BY <1>0, <3>1, <3>4
    <3> DEFINE f == Put(Under(m, q), p[i + 1], c)
    <3>8. /\ k \in DOMAIN f <=> k \in DOMAIN Under(m, q)
          /\ k \in DOMAIN f => f[k] = Under(m, q)[k]
      BY <3>6 DEF Put
    <3> HIDE DEF f
    <3>9. Child(Get(new, q), k) = IF k \in DOMAIN f THEN f[k] ELSE None
      BY <3>7, ChildOfMap DEF f
    <3> QED BY <2>1, <2>2, <3>8, <3>9, ChildUnder
  <2> QED BY <2>1, <2>3, <2>4
<1> HIDE DEF S
<1>3. \A q \in Seq(Key) : q \in S
  BY <1>1, <1>2, KeyInduction
<1> QED BY <1>3 DEF S, new

\* A key that is strictly below another is below one of its children.
LEMMA BelowChild ==
  ASSUME NEW p \in Seq(Key), NEW q \in Seq(Key), Below(p, q), p # q
  PROVE  \E k \in Key : Below(Append(p, k), q)
<1>1. Len(p) \in 0..Len(q) /\ p = SubSeq(q, 1, Len(p)) /\ Len(q) \in Nat
  BY AboveIsTop, LenProperties
<1>2. Len(p) # Len(q)
  BY <1>1, SubSeqFull
<1>3. Len(p) \in 0..(Len(q) - 1) /\ Len(p) + 1 \in 0..Len(q)
  BY <1>1, <1>2
<1>4. q[Len(p) + 1] \in Key /\ SubSeq(q, 1, Len(p) + 1) = Append(p, q[Len(p) + 1])
  BY <1>1, <1>3, TopGrows
<1>5. Below(SubSeq(q, 1, Len(p) + 1), q)
  BY <1>3, TopOf
<1> QED BY <1>4, <1>5

\* Below the key there is what is below the new node, which is nothing, or
\* what was there before.
LEMMA SetKeyBelow ==
  ASSUME NEW m, NEW p \in Seq(Key), Len(p) # 0, NEW n, NEW k \in Key,
         NEW q \in Seq(Key), Below(Append(p, k), q)
  PROVE  /\ Child(n, k) = None => Get(SetKey(m, p, n), q) = None
         /\ Child(n, k) = Child(Get(m, p), k) => Get(SetKey(m, p, n), q) = Get(m, q)
<1> DEFINE new == SetKey(m, p, n)
           r == Append(p, k)
<1>1. r \in Seq(Key) /\ Get(new, r) = Child(n, k) /\ Get(m, r) = Child(Get(m, p), k)
  <2>1. Get(SetKey(m, p, n), p) = n
    BY SetKeyAbove
  <2> HIDE DEF new
  <2>2. Get(new, r) = Child(Get(new, p), k) /\ Get(m, r) = Child(Get(m, p), k)
    BY GetChild
  <2>3. Get(new, p) = n
    BY <2>1 DEF new
  <2>4. r \in Seq(Key)
    BY AppendProperties
  <2> QED BY <2>2, <2>3, <2>4
<1> HIDE DEF new, r
<1>2. Below(r, q)
  BY DEF r
<1>3. Get(new, r) = None => Get(new, q) = None
  BY <1>1, <1>2, NoneBelow, NoneIs
<1>4. Get(new, r) = Get(m, r) => Get(new, q) = Get(m, q)
  BY <1>1, <1>2, SameBelow
<1> QED BY <1>1, <1>3, <1>4 DEF new

\* What a node may be at a key of l parts, and a tree of such nodes.
NodeOK(n, l) ==
  \/ n = None
  \/ n.scalar \in Scalar
  \/ /\ IsMapping(n) /\ DOMAIN n.map \subseteq Key /\ (l >= Depth => DOMAIN n.map = {})
     /\ \A k \in DOMAIN n.map : n.map[k].scalar # "none"
Keys == {p \in Seq(Key) : Len(p) <= Depth}
Tree(m) == \A p \in Keys : NodeOK(Get(m, p), Len(p))

\* What the reader sees at a key.
Kind(m, p) == Get(m, p).scalar

LEMMA KeysAre == /\ << >> \in Keys /\ Path \subseteq Keys /\ Keys \subseteq Seq(Key)
                 /\ \A p \in Keys : p # << >> => p \in Path
                 /\ \A p \in Path : p \in Seq(Key) /\ Len(p) \in 1..Depth /\ p # << >>
                 /\ \A p \in Path : \A q \in Seq(Key) : Below(q, p) => q \in Keys
                 /\ Depth \in Nat \ {0}
<1>1. << >> \in Seq(Key) /\ Len(<< >>) = 0 /\ Depth \in Nat \ {0}
  BY EmptySeq, TreeAssumption
<1>2. ASSUME NEW p \in Keys, p # << >> PROVE p \in Path
  <2>1. p \in Seq(Key) /\ Len(p) <= Depth
    BY DEF Keys
  <2>2. Len(p) \in Nat \ {0}
    BY <1>2, <2>1, EmptySeq
  <2> QED BY <1>1, <2>1, <2>2, PathIs
<1>3. ASSUME NEW p \in Path PROVE p \in Seq(Key) /\ Len(p) \in 1..Depth /\ p # << >> /\ p \in Keys
  <2>1. p \in Seq(Key) /\ Len(p) \in 1..Depth
    BY PathIs
  <2> QED BY <1>1, <2>1 DEF Keys
<1>4. ASSUME NEW p \in Path, NEW q \in Seq(Key), Below(q, p) PROVE q \in Keys
  <2>1. Len(q) \in 0..Len(p) /\ Len(p) \in 1..Depth
    BY <1>3, <1>4, AboveIsTop
  <2> QED BY <1>1, <2>1 DEF Keys
<1>5. Path \subseteq Keys
  BY <1>3
<1> QED BY <1>1, <1>2, <1>3, <1>4, <1>5 DEF Keys

\* The shape of a mapping after a put.
LEMMA PutOK ==
  ASSUME NEW n, NEW l \in Nat, l < Depth, NodeOK(n, l),
         NEW k \in Key, NEW c, c.scalar # "none",
         NEW f, f = IF IsMapping(n) THEN n.map ELSE EmptyMapping
  PROVE  NodeOK(MapNode(Put(f, k, c)), l)
<1>1. DOMAIN f \subseteq Key /\ \A x \in DOMAIN f : f[x].scalar # "none"
  <2>1. CASE IsMapping(n)
    BY <2>1, NoneIs, TreeAssumption DEF NodeOK, IsMapping
  <2>2. CASE ~ IsMapping(n)
    BY <2>2 DEF EmptyMapping
  <2> QED BY <2>1, <2>2
<1> DEFINE g == Put(f, k, c)
<1>2. DOMAIN g \subseteq Key /\ \A x \in DOMAIN g : g[x].scalar # "none"
  BY <1>1 DEF Put
<1> HIDE DEF g
<1>3. IsMapping(MapNode(g)) /\ MapNode(g).map = g
  BY DEF IsMapping, MapNode
<1>4. ~ (l >= Depth)
  BY TreeAssumption
<1> QED BY <1>2, <1>3, <1>4 DEF NodeOK, g

\* A key below a child is below its parent, and below no other child.
LEMMA BelowOne ==
  ASSUME NEW p \in Seq(Key), NEW q \in Seq(Key), NEW k \in Key, Below(Append(p, k), q)
  PROVE  /\ Below(p, q) /\ p # q /\ ~ Below(q, p)
         /\ \A j \in Key : Below(Append(p, j), q) => j = k
<1>1. \A j \in Key : /\ Append(p, j) \in Seq(Key) /\ Len(Append(p, j)) = Len(p) + 1
                    /\ Append(p, j)[Len(p) + 1] = j
                    /\ \A i \in 1..Len(p) : Append(p, j)[i] = p[i]
  BY Grows
<1>2. Len(p) \in Nat /\ Len(q) \in Nat
  BY LenProperties
<1>3. ASSUME NEW j \in Key, Below(Append(p, j), q)
      PROVE  Len(p) + 1 <= Len(q) /\ q[Len(p) + 1] = j /\ \A i \in 1..Len(p) : p[i] = q[i]
  <2> DEFINE r == Append(p, j)
  <2>1. /\ r \in Seq(Key) /\ Len(r) = Len(p) + 1 /\ r[Len(p) + 1] = j
        /\ \A i \in 1..Len(p) : r[i] = p[i]
    BY <1>1
  <2>2. Below(r, q)
    BY <1>3
  <2> HIDE DEF r
  <2>3. Len(r) <= Len(q) /\ \A i \in 1..Len(r) : r[i] = q[i]
    BY <2>1, <2>2, BelowIs
  <2> QED BY <1>2, <2>1, <2>3
<1>4. Len(p) + 1 <= Len(q) /\ q[Len(p) + 1] = k /\ \A i \in 1..Len(p) : p[i] = q[i]
  BY <1>3
<1>5. Below(p, q)
  BY <1>2, <1>4, BelowIs
<1>6. Len(p) # Len(q) /\ ~ (Len(q) <= Len(p))
  BY <1>2, <1>4
<1>7. p # q /\ ~ Below(q, p)
  BY <1>6, BelowIs
<1> QED BY <1>3, <1>4, <1>5, <1>7

\* Setting a node of the right shape keeps the shape.
LEMMA SetKeyKeepsTree ==
  ASSUME NEW m, Tree(m), NEW p \in Path, NEW n, NodeOK(n, Len(p)), n.scalar # "none",
         \A k \in Key : Child(n, k) = None \/ Child(n, k) = Child(Get(m, p), k)
  PROVE  Tree(SetKey(m, p, n))
<1> DEFINE new == SetKey(m, p, n)
<1>0. p \in Seq(Key) /\ Len(p) \in Nat /\ Len(p) # 0 /\ Len(p) <= Depth /\ Depth \in Nat
  BY KeysAre
<1> SUFFICES ASSUME NEW q \in Keys PROVE NodeOK(Get(new, q), Len(q))
  BY DEF Tree
<1>1. q \in Seq(Key) /\ NodeOK(Get(m, q), Len(q)) /\ Len(q) \in Nat
  BY KeysAre, LenProperties DEF Tree
<1>2. CASE q = p
  BY <1>0, <1>2, SetKeyAbove
<1>3. CASE Below(q, p) /\ q # p
  <2>1. Len(q) \in 0..Len(p) /\ q = SubSeq(p, 1, Len(q))
    BY <1>0, <1>1, <1>3, AboveIsTop
  <2>2. Len(q) # Len(p)
    BY <1>0, <1>3, <2>1, SubSeqFull
  <2>3. Len(q) \in 0..(Len(p) - 1) /\ Len(q) < Depth
    BY <1>0, <2>1, <2>2
  <2>4. PICK c : Opened(m, p, n, Len(q), c)
    <3>1. \A i \in 0..(Len(p) - 1) : \E c : Opened(m, p, n, i, c)
      BY <1>0, SetKeyAbove
    <3> QED BY <3>1, <2>3
  <2>5. (c = n \/ IsMapping(c)) /\ Get(new, q) = MapNode(Put(Under(m, q), p[Len(q) + 1], c))
    BY <2>1, <2>4 DEF Opened
  <2>6. c.scalar # "none"
    BY <2>5, TreeAssumption DEF IsMapping
  <2>7. p[Len(q) + 1] \in Key
    BY <1>0, <2>3, TopGrows
  <2>8. Under(m, q) = IF IsMapping(Get(m, q)) THEN Get(m, q).map ELSE EmptyMapping
    BY DEF Under
  <2>9. NodeOK(MapNode(Put(Under(m, q), p[Len(q) + 1], c)), Len(q))
    BY <1>1, <2>3, <2>6, <2>7, <2>8, PutOK
  <2> QED BY <2>5, <2>9
<1>4. CASE Below(p, q) /\ q # p
  <2>1. PICK k \in Key : Below(Append(p, k), q)
    BY <1>0, <1>1, <1>4, BelowChild
  <2>2. Get(new, q) = None \/ Get(new, q) = Get(m, q)
    BY <1>0, <1>1, <2>1, SetKeyBelow
  <2> QED BY <1>1, <2>2 DEF NodeOK
<1>5. CASE ~ Below(q, p) /\ ~ Below(p, q)
  <2>1. Get(new, q) = Get(m, q)
    BY <1>0, <1>1, <1>5, SetKeyBeside
  <2> QED BY <1>1, <2>1
<1>6. q = p => Below(q, p)
  BY <1>0, BelowEnds
<1> QED BY <1>2, <1>3, <1>4, <1>5, <1>6

\* What get shows after a set, above the key, at it and beside it.
LEMMA SetKeyKinds ==
  ASSUME NEW m, NEW p \in Path, NEW n
  PROVE  /\ Kind(SetKey(m, p, n), p) = n.scalar
         /\ \A q \in Seq(Key) : Below(q, p) /\ q # p => Kind(SetKey(m, p, n), q) = NoValue
         /\ \A q \in Seq(Key) : ~ Below(q, p) /\ ~ Below(p, q) => Kind(SetKey(m, p, n), q) = Kind(m, q)
<1> DEFINE new == SetKey(m, p, n)
<1>0. p \in Seq(Key) /\ Len(p) \in Nat /\ Len(p) # 0
  BY KeysAre
<1>1. Kind(new, p) = n.scalar
  BY <1>0, SetKeyAbove DEF Kind
<1>2. ASSUME NEW q \in Seq(Key), Below(q, p), q # p PROVE Kind(new, q) = NoValue
  <2>1. Len(q) \in 0..Len(p) /\ q = SubSeq(p, 1, Len(q))
    BY <1>0, <1>2, AboveIsTop
  <2>2. Len(q) # Len(p)
    BY <1>0, <1>2, <2>1, SubSeqFull
  <2>3. Len(q) \in 0..(Len(p) - 1)
    BY <1>0, <2>1, <2>2
  <2>4. PICK c : Opened(m, p, n, Len(q), c)
    <3>1. \A i \in 0..(Len(p) - 1) : \E c : Opened(m, p, n, i, c)
      BY <1>0, SetKeyAbove
    <3> QED BY <3>1, <2>3
  <2>5. Get(new, q) = MapNode(Put(Under(m, q), p[Len(q) + 1], c))
    BY <2>1, <2>4 DEF Opened
  <2> QED BY <2>5 DEF Kind, MapNode
<1>3. ASSUME NEW q \in Seq(Key), ~ Below(q, p), ~ Below(p, q) PROVE Kind(new, q) = Kind(m, q)
  <2>1. Get(new, q) = Get(m, q)
    BY <1>0, <1>3, SetKeyBeside
  <2> QED BY <2>1 DEF Kind
<1> HIDE DEF new
<1> QED BY <1>1, <1>2, <1>3 DEF new

\* A leaf: nothing below it, mappings above it, the rest as it was.
LEMMA SetLeafIs ==
  ASSUME NEW m, Tree(m), NEW p \in Path, NEW v \in Scalar
  PROVE  /\ Tree(SetKey(m, p, ScalarNode(v)))
         /\ \A q \in Path : Kind(SetKey(m, p, ScalarNode(v)), q) =
               IF q = p THEN v
               ELSE IF Below(q, p) THEN NoValue
               ELSE IF Below(p, q) THEN "none"
               ELSE Kind(m, q)
<1> DEFINE n == ScalarNode(v)
<1>1. n.scalar = v /\ v # "none" /\ v # NoValue
  BY TreeAssumption DEF ScalarNode
<1>2. \A k : Child(n, k) = None
  BY <1>1 DEF Child, IsMapping
<1>3. NodeOK(n, Len(p))
  BY <1>1 DEF NodeOK
<1> HIDE DEF n
<1>4. Tree(SetKey(m, p, n))
  BY <1>1, <1>2, <1>3, SetKeyKeepsTree
<1>5. /\ Kind(SetKey(m, p, n), p) = n.scalar
      /\ \A q \in Seq(Key) : Below(q, p) /\ q # p => Kind(SetKey(m, p, n), q) = NoValue
      /\ \A q \in Seq(Key) : ~ Below(q, p) /\ ~ Below(p, q) => Kind(SetKey(m, p, n), q) = Kind(m, q)
  BY SetKeyKinds
<1>6. ASSUME NEW q \in Path, Below(p, q), q # p PROVE Kind(SetKey(m, p, n), q) = "none"
  <2>1. p \in Seq(Key) /\ Len(p) # 0 /\ q \in Seq(Key)
    BY KeysAre
  <2>2. PICK k \in Key : Below(Append(p, k), q)
    BY <1>6, <2>1, BelowChild
  <2>3. /\ Child(n, k) = None => Get(SetKey(m, p, n), q) = None
        /\ Child(n, k) = Child(Get(m, p), k) => Get(SetKey(m, p, n), q) = Get(m, q)
    BY <2>1, <2>2, SetKeyBelow
  <2> QED BY <1>2, <2>3, NoneIs DEF Kind
<1>7. ASSUME NEW q \in Path
      PROVE Kind(SetKey(m, p, n), q) = IF q = p THEN v
                                       ELSE IF Below(q, p) THEN NoValue
                                       ELSE IF Below(p, q) THEN "none"
                                       ELSE Kind(m, q)
  <2>1. q \in Seq(Key)
    BY KeysAre
  <2>2. CASE q = p
    BY <1>1, <1>5, <2>2
  <2>3. CASE q # p /\ Below(q, p)
    BY <1>5, <2>1, <2>3
  <2>4. CASE q # p /\ ~ Below(q, p) /\ Below(p, q)
    BY <1>6, <2>4
  <2>5. CASE q # p /\ ~ Below(q, p) /\ ~ Below(p, q)
    BY <1>5, <2>1, <2>5
  <2> QED BY <2>2, <2>3, <2>4, <2>5
<1> QED BY <1>4, <1>7 DEF n

\* A mapping with a key dropped is a mapping with the other keys.
LEMMA DropIs ==
  \A f, k : /\ IsMapping(MapNode(Drop(f, k))) /\ MapNode(Drop(f, k)).map = Drop(f, k)
            /\ DOMAIN Drop(f, k) = DOMAIN f \ {k}
            /\ \A x \in DOMAIN f \ {k} : Drop(f, k)[x] = f[x]
            /\ \A x : Child(MapNode(Drop(f, k)), x) = IF x = k THEN None ELSE Child(MapNode(f), x)
BY DEF Drop, MapNode, IsMapping, Child

LEMMA DropOK ==
  ASSUME NEW n, NEW l, IsMapping(n), NodeOK(n, l), NEW k
  PROVE  NodeOK(MapNode(Drop(n.map, k)), l)
<1>1. /\ DOMAIN n.map \subseteq Key /\ (l >= Depth => DOMAIN n.map = {})
      /\ \A x \in DOMAIN n.map : n.map[x].scalar # "none"
  BY NoneIs, TreeAssumption DEF NodeOK, IsMapping
<1> DEFINE g == Drop(n.map, k)
<1>2. DOMAIN g = DOMAIN n.map \ {k} /\ \A x \in DOMAIN n.map \ {k} : g[x] = n.map[x]
  BY DropIs
<1>3. IsMapping(MapNode(g)) /\ MapNode(g).map = g
  BY DropIs
<1> HIDE DEF g
<1>4. NodeOK(MapNode(g), l)
  BY <1>1, <1>2, <1>3 DEF NodeOK
<1> QED BY <1>4 DEF g

\* unset: the key and what is below it go, the rest stays as it was.
LEMMA UnsetTop ==
  ASSUME NEW m, Tree(m), NEW p \in Path, Len(p) = 1
  PROVE  /\ Tree(Unset(m, p))
         /\ \A q \in Path : Kind(Unset(m, p), q) = IF Below(p, q) THEN "none" ELSE Kind(m, q)
<1> DEFINE new == Drop(m, p[1])
<1>0. Unset(m, p) = new
  BY DEF Unset
<1>1. p \in Seq(Key) /\ p[1] \in Key /\ p = Append(<< >>, p[1]) /\ << >> \in Seq(Key) /\ << >> \in Keys
  <2>1. p \in Seq(Key) /\ 0 \in 0..(Len(p) - 1) /\ 0 + 1 = 1
    BY KeysAre
  <2>2. p[0 + 1] \in Key /\ SubSeq(p, 1, 0 + 1) = Append(SubSeq(p, 1, 0), p[0 + 1])
    BY <2>1, TopGrows
  <2>3. SubSeq(p, 1, 0) = << >> /\ SubSeq(p, 1, 1) = p
    BY <2>1, SubSeqEmpty, SubSeqFull
  <2> QED BY <2>1, <2>2, <2>3, KeysAre
<1>2. NodeOK(MapNode(new), 0)
  <2>1. NodeOK(MapNode(m), 0)
    BY <1>1, GetRoot, EmptySeq DEF Tree
  <2>2. IsMapping(MapNode(m)) /\ MapNode(m).map = m
    BY DEF MapNode, IsMapping
  <2>3. NodeOK(MapNode(Drop(MapNode(m).map, p[1])), 0)
    BY <2>1, <2>2, DropOK
  <2> QED BY <2>2, <2>3
<1>3. \A x : Child(MapNode(new), x) = IF x = p[1] THEN None ELSE Child(MapNode(m), x)
  BY DropIs
<1> DEFINE e == << >>
<1>e. /\ e \in Seq(Key) /\ Get(new, e) = MapNode(new) /\ Get(m, e) = MapNode(m)
      /\ p = Append(e, p[1]) /\ \A q \in Seq(Key) : Below(e, q)
  BY <1>1, GetRoot, BelowEnds
<1> HIDE DEF new
<1>4. ASSUME NEW q \in Seq(Key), q # << >>
      PROVE  IF Below(p, q) THEN Get(new, q) = None ELSE Get(new, q) = Get(m, q)
  <2>0. e # q
    BY <1>4
  <2> HIDE DEF e
  <2>1. PICK k \in Key : Below(Append(e, k), q)
    BY <1>e, <1>4, <2>0, BelowChild
  <2> DEFINE r == Append(e, k)
  <2>2. r \in Seq(Key) /\ Get(new, r) = Child(Get(new, e), k) /\ Get(m, r) = Child(Get(m, e), k)
    BY <1>e, GetChild, AppendProperties
  <2>3. Get(new, r) = Child(MapNode(new), k) /\ Get(m, r) = Child(MapNode(m), k)
    BY <1>e, <2>2
  <2>4. Below(r, q)
    BY <2>1
  <2>5. Below(p, q) => k = p[1]
    <3>1. \A i \in Key : Below(Append(e, i), q) => i = k
      BY <1>e, <2>1, BelowOne
    <3> QED BY <1>1, <1>e, <3>1
  <2>6. k = p[1] => r = p
    BY <1>e
  <2> HIDE DEF r
  <2>7. CASE k = p[1]
    <3>1. Get(new, r) = None
      BY <1>3, <2>3, <2>7
    <3>2. Get(new, q) = None
      BY <2>2, <2>4, <3>1, NoneBelow, NoneIs
    <3> QED BY <2>4, <2>6, <2>7, <3>2
  <2>8. CASE k # p[1]
    <3>1. Get(new, r) = Get(m, r)
      BY <1>3, <2>3, <2>8
    <3>2. Get(new, q) = Get(m, q)
      BY <2>2, <2>4, <3>1, SameBelow
    <3> QED BY <2>5, <2>8, <3>2
  <2> QED BY <2>7, <2>8
<1>5. ASSUME NEW q \in Keys PROVE NodeOK(Get(new, q), Len(q))
  <2>1. CASE q = << >>
    BY <1>2, <2>1, GetRoot, EmptySeq
  <2>2. CASE q # << >>
    <3>1. q \in Seq(Key) /\ NodeOK(Get(m, q), Len(q))
      BY KeysAre DEF Tree
    <3>2. Get(new, q) = None \/ Get(new, q) = Get(m, q)
      BY <1>4, <2>2, <3>1
    <3> QED BY <3>1, <3>2 DEF NodeOK
  <2> QED BY <2>1, <2>2
<1>6. ASSUME NEW q \in Path PROVE Kind(new, q) = IF Below(p, q) THEN "none" ELSE Kind(m, q)
  <2>1. q \in Seq(Key) /\ q # << >>
    BY KeysAre
  <2> QED BY <1>4, <2>1, NoneIs DEF Kind
<1> QED BY <1>0, <1>5, <1>6 DEF Tree

LEMMA UnsetDeep ==
  ASSUME NEW m, Tree(m), NEW p \in Path, Len(p) > 1, IsMapping(Get(m, Front(p)))
  PROVE  /\ Tree(Unset(m, p))
         /\ \A q \in Path : Kind(Unset(m, p), q) = IF Below(p, q) THEN "none" ELSE Kind(m, q)
<1> DEFINE o == Front(p)  j == Last(p)  f == Get(m, o).map
           n == MapNode(Drop(f, j))
           new == SetKey(m, o, n)
<1>0. Unset(m, p) = new
  <2>1. ~ (Len(p) = 1)
    <3>1. Len(p) \in Nat
      BY KeysAre, LenProperties
    <3> QED BY <3>1
  <2>2. Under(m, o) = f
    BY DEF Under
  <2> QED BY <2>1, <2>2 DEF Unset
<1>1. /\ p \in Seq(Key) /\ o \in Seq(Key) /\ j \in Key /\ p = Append(o, j)
      /\ o \in Path /\ Len(o) \in Nat /\ Len(o) # 0
  <2>1. p \in Seq(Key) /\ Len(p) \in 1..Depth /\ Len(p) # 0 /\ Depth \in Nat
    BY KeysAre
  <2>2. o \in Seq(Key) /\ j \in Key /\ p = Append(o, j) /\ Len(o) = Len(p) - 1
    BY <2>1, LastPart
  <2>3. Len(o) \in 1..Depth
    BY <2>1, <2>2
  <2> QED BY <2>1, <2>2, <2>3, PathIs
<1> HIDE DEF o, j
<1>m. IsMapping(Get(m, o))
  BY DEF o
<1>2. NodeOK(n, Len(o)) /\ n.scalar = NoValue /\ n.scalar # "none"
  <2>1. NodeOK(Get(m, o), Len(o))
    BY <1>1, KeysAre DEF Tree
  <2>2. NodeOK(n, Len(o))
    BY <1>m, <2>1, DropOK
  <2> QED BY <2>2, TreeAssumption DEF MapNode
<1>3. \A k : Child(n, k) = IF k = j THEN None ELSE Child(Get(m, o), k)
  <2>1. \A k : Child(MapNode(f), k) = Child(Get(m, o), k)
    BY <1>m DEF Child, MapNode, IsMapping
  <2>2. \A k : Child(n, k) = IF k = j THEN None ELSE Child(MapNode(f), k)
    BY DropIs
  <2> QED BY <2>1, <2>2
<1> HIDE DEF n, f
<1>4. Tree(new)
  BY <1>1, <1>2, <1>3, SetKeyKeepsTree
<1>5. /\ Kind(new, o) = NoValue
      /\ \A q \in Seq(Key) : Below(q, o) /\ q # o => Kind(new, q) = NoValue
      /\ \A q \in Seq(Key) : ~ Below(q, o) /\ ~ Below(o, q) => Kind(new, q) = Kind(m, q)
  BY <1>1, <1>2, SetKeyKinds
<1>6. ASSUME NEW q \in Path PROVE Kind(new, q) = IF Below(p, q) THEN "none" ELSE Kind(m, q)
  <2>1. q \in Seq(Key)
    BY KeysAre
  <2>2. Below(p, q) => Below(o, q) /\ o # q /\ ~ Below(q, o)
    BY <1>1, <2>1, BelowOne
  <2>3. CASE Below(q, o)
    <3>1. Kind(new, q) = NoValue
      <4>1. q # o => Kind(new, q) = NoValue
        BY <1>5, <2>1, <2>3
      <4>2. q = o => Kind(new, q) = NoValue
        BY <1>5
      <4> QED BY <4>1, <4>2
    <3>2. IsMapping(Get(m, q))
      BY <1>m, <1>1, <2>1, <2>3, MappingsAbove
    <3> QED BY <2>2, <2>3, <3>1, <3>2 DEF Kind, IsMapping
  <2>4. CASE Below(o, q) /\ ~ Below(q, o)
    <3>1. o # q
      BY <1>1, <2>4, BelowEnds
    <3>2. PICK k \in Key : Below(Append(o, k), q)
      BY <1>1, <2>1, <2>4, <3>1, BelowChild
    <3>3. /\ Child(n, k) = None => Get(new, q) = None
          /\ Child(n, k) = Child(Get(m, o), k) => Get(new, q) = Get(m, q)
      BY <1>1, <2>1, <3>2, SetKeyBelow
    <3>4. Below(p, q) <=> k = j
      BY <1>1, <2>1, <3>2, BelowOne
    <3> QED BY <1>3, <3>3, <3>4, NoneIs DEF Kind
  <2>5. CASE ~ Below(o, q) /\ ~ Below(q, o)
    BY <1>5, <2>1, <2>2, <2>5
  <2> QED BY <2>3, <2>4, <2>5
<1> HIDE DEF new
<1> QED BY <1>0, <1>4, <1>6

LEMMA OneOrMore == \A l \in Nat : l # 0 => l = 1 \/ l > 1
OBVIOUS

\* unset, whatever the key: at the top, in a mapping, or nowhere.
LEMMA UnsetIs ==
  ASSUME NEW m, Tree(m), NEW p \in Path
  PROVE  /\ Tree(Unset(m, p))
         /\ \A q \in Path : Kind(Unset(m, p), q) = IF Below(p, q) THEN "none" ELSE Kind(m, q)
<1>0. p \in Seq(Key) /\ Len(p) \in Nat /\ Len(p) # 0
  <2>1. p \in Seq(Key) /\ p # << >>
    BY KeysAre
  <2> QED BY <2>1, LenProperties, EmptySeq
<1>4. Len(p) = 1 \/ Len(p) > 1
  BY <1>0, OneOrMore, Zenon
<1>1. CASE Len(p) = 1
  BY <1>1, UnsetTop
<1>2. CASE Len(p) > 1 /\ IsMapping(Get(m, Front(p)))
  BY <1>2, UnsetDeep
<1>3. CASE Len(p) > 1 /\ ~ IsMapping(Get(m, Front(p)))
  <2>0. ~ (Len(p) = 1)
    <3>1. \A l \in Nat : l > 1 => l # 1
      OBVIOUS
    <3> QED BY <1>0, <1>3, <3>1, Zenon
  <2>1. Unset(m, p) = m
    BY <1>3, <2>0 DEF Unset
  <2> DEFINE o == Front(p)  j == Last(p)
  <2>2. o \in Seq(Key) /\ j \in Key /\ p = Append(o, j)
    BY <1>0, LastPart
  <2>n. ~ IsMapping(Get(m, o))
    BY <1>3
  <2> HIDE DEF o, j
  <2>3. ASSUME NEW q \in Path, Below(p, q) PROVE Kind(m, q) = "none"
    <3>1. q \in Seq(Key)
      BY KeysAre
    <3>2. Below(o, q) /\ o # q
      BY <2>2, <2>3, <3>1, BelowOne
    <3>3. Get(m, q) = None
      BY <2>n, <2>2, <3>1, <3>2, NoneBelow
    <3> QED BY <3>3, NoneIs DEF Kind
  <2> QED BY <2>1, <2>3
<1> QED BY <1>1, <1>2, <1>3, <1>4

\* Of a tree, a key shows nothing only where nothing is, and what is there has
\* keys of at most Depth parts.
LEMMA TreeNodes ==
  ASSUME NEW m, Tree(m), NEW p \in Keys
  PROVE  /\ Kind(m, p) = "none" <=> Get(m, p) = None
         /\ Kind(m, p) \in Scalar \/ IsMapping(Get(m, p)) \/ Get(m, p) = None
         /\ IsMapping(Get(m, p)) <=> Kind(m, p) = NoValue
         /\ \A k \in DOMAIN Under(m, p) :
               /\ k \in Key /\ Append(p, k) \in Keys /\ Len(Append(p, k)) = Len(p) + 1
               /\ Get(m, Append(p, k)) = Under(m, p)[k] /\ Get(m, Append(p, k)) # None
<1>1. NodeOK(Get(m, p), Len(p)) /\ p \in Seq(Key) /\ Len(p) \in Nat
  BY KeysAre, LenProperties DEF Tree
<1>2. /\ Kind(m, p) = "none" <=> Get(m, p) = None
      /\ Kind(m, p) \in Scalar \/ IsMapping(Get(m, p)) \/ Get(m, p) = None
  BY <1>1, NoneIs, TreeAssumption DEF NodeOK, Kind, IsMapping
<1>3. IsMapping(Get(m, p)) <=> Kind(m, p) = NoValue
  BY DEF Kind, IsMapping
<1>4. ASSUME NEW k \in DOMAIN Under(m, p)
      PROVE  /\ k \in Key /\ Append(p, k) \in Keys /\ Len(Append(p, k)) = Len(p) + 1
             /\ Get(m, Append(p, k)) = Under(m, p)[k] /\ Get(m, Append(p, k)) # None
  <2>1. IsMapping(Get(m, p)) /\ Under(m, p) = Get(m, p).map /\ k \in DOMAIN Get(m, p).map
    BY <1>4 DEF Under, EmptyMapping
  <2>2. /\ k \in Key /\ ~ (Len(p) >= Depth) /\ Under(m, p)[k].scalar # "none"
    BY <1>1, <2>1, NoneIs, TreeAssumption DEF NodeOK, IsMapping
  <2>3. Append(p, k) \in Seq(Key) /\ Len(Append(p, k)) = Len(p) + 1
    BY <1>1, <2>2, Grows
  <2>4. Append(p, k) \in Keys
    BY <1>1, <2>2, <2>3, TreeAssumption DEF Keys
  <2>5. Get(m, Append(p, k)) = Child(Get(m, p), k)
    BY <1>1, <2>2, GetChild
  <2>6. Get(m, Append(p, k)) = Under(m, p)[k]
    BY <1>4, <2>5, ChildUnder
  <2> QED BY <2>2, <2>3, <2>4, <2>6, NoneIs
<1> QED BY <1>2, <1>3, <1>4

\* merge: the function it is written with exists, from the longest keys up.
Merged(t, s, p, k, m) ==
  IF Get(s, Append(p, k)) = None THEN Get(t, Append(p, k))
  ELSE IF IsMapping(Get(t, Append(p, k))) /\ IsMapping(Get(s, Append(p, k))) THEN MapNode(m)
  ELSE Get(s, Append(p, k))
Row(t, s, p, f) ==
  [k \in DOMAIN Under(t, p) \cup DOMAIN Under(s, p) |-> Merged(t, s, p, k, f[Append(p, k)])]
Merges(t, s, f) == f = [p \in Path \cup {<< >>} |-> Row(t, s, p, f)]

\* A mapping of the merge depends on the longer keys only.
LEMMA RowIsOfBelow ==
  ASSUME NEW t, NEW s, NEW p, NEW f, NEW g,
         \A k \in DOMAIN Under(t, p) \cup DOMAIN Under(s, p) : f[Append(p, k)] = g[Append(p, k)]
  PROVE  Row(t, s, p, f) = Row(t, s, p, g)
<1>1. \A k \in DOMAIN Under(t, p) \cup DOMAIN Under(s, p) :
         Merged(t, s, p, k, f[Append(p, k)]) = Merged(t, s, p, k, g[Append(p, k)])
  OBVIOUS
<1> QED BY <1>1 DEF Row

LEMMA AllKeys == Path \cup {<< >>} = Keys
BY KeysAre

LEMMA MergeWrites ==
  ASSUME NEW t, NEW s, Tree(t), Tree(s)
  PROVE  \E f : Merges(t, s, f) /\ MergeMapping(t, s) = f[<< >>]
<1> DEFINE D == Path \cup {<< >>}
           R(p, f) == Row(t, s, p, f)
           OkFrom(f, l) == f = [p \in D |-> f[p]] /\ \A p \in D : Len(p) >= l => f[p] = R(p, f)
           Bad == {d \in 0..(Depth + 1) : ~ \E f : OkFrom(f, (Depth + 1) - d)}
<1>0. /\ Depth \in Nat /\ \A p \in D : p \in Keys /\ Len(p) \in Nat /\ Len(p) <= Depth
      /\ \A p \in Keys : p \in D
  <2>1. \A p \in Keys : Len(p) \in Nat
    BY KeysAre, LenProperties
  <2> QED BY <2>1, KeysAre, AllKeys DEF Keys
<1>a. \A p \in D : \A k \in DOMAIN Under(t, p) \cup DOMAIN Under(s, p) :
         Append(p, k) \in D /\ Len(Append(p, k)) = Len(p) + 1
  BY <1>0, TreeNodes
<1> HIDE DEF D, R
<1>1. Bad = {}
  <2> SUFFICES ASSUME Bad # {} PROVE FALSE
    OBVIOUS
  <2>1. PICK d \in Bad : \A j \in Bad : d <= j
    <3>1. Bad \in SUBSET Nat
      BY <1>0
    <3> HIDE DEF Bad
    <3> QED BY <3>1, HasSmallest
  <2>a. d \in 0..(Depth + 1) /\ ~ \E f : OkFrom(f, (Depth + 1) - d)
    BY <2>1
  <2>2. CASE d = 0
    <3> DEFINE f == [p \in D |-> 0]
    <3>1. f = [p \in D |-> f[p]]
      OBVIOUS
    <3>2. \A p \in D : ~ (Len(p) >= (Depth + 1) - d)
      BY <1>0, <2>2
    <3> HIDE DEF f
    <3>3. OkFrom(f, (Depth + 1) - d)
      BY <3>1, <3>2
    <3> QED BY <2>a, <3>3
  <2>3. CASE d # 0
    <3>1. d - 1 \in 0..(Depth + 1) /\ d - 1 \notin Bad
      <4> HIDE DEF Bad, OkFrom
      <4> QED BY <2>1, <2>3, <2>a, <1>0
    <3>2. PICK f : OkFrom(f, (Depth + 1) - (d - 1))
      BY <3>1
    <3> DEFINE j == (Depth + 1) - d
               g == [p \in D |-> IF Len(p) = j THEN R(p, f) ELSE f[p]]
    <3>3. g = [p \in D |-> g[p]] /\ \A p \in D : g[p] = IF Len(p) = j THEN R(p, f) ELSE f[p]
      OBVIOUS
    <3>4. j \in Nat /\ (Depth + 1) - (d - 1) = j + 1
      BY <2>3, <2>a, <1>0
    <3>7. OkFrom(f, j + 1)
      <4> HIDE DEF OkFrom
      <4> QED BY <3>2, <3>4
    <3> HIDE DEF g, j
    <3>8. \A p \in D : Len(p) >= j + 1 => f[p] = R(p, f)
      BY <3>7
    <3>5. ASSUME NEW p \in D, Len(p) >= j PROVE g[p] = R(p, g)
      <4>0. g[p] = R(p, f)
        <5>1. Len(p) = j \/ Len(p) >= j + 1
          BY <1>0, <3>4, <3>5
        <5>2. CASE Len(p) = j
          BY <5>2, <3>3
        <5>3. CASE Len(p) # j
          BY <5>1, <5>3, <3>3, <3>8
        <5> QED BY <5>2, <5>3
      <4>1. ASSUME NEW k \in DOMAIN Under(t, p) \cup DOMAIN Under(s, p)
            PROVE  f[Append(p, k)] = g[Append(p, k)]
        <5>1. Append(p, k) \in D /\ Len(Append(p, k)) = Len(p) + 1
          BY <1>a, <4>1
        <5>2. Len(p) + 1 # j
          BY <1>0, <3>4, <3>5
        <5> QED BY <5>1, <5>2, <3>3
      <4>2. R(p, f) = R(p, g)
        BY <4>1, RowIsOfBelow DEF R
      <4> QED BY <4>0, <4>2
    <3>6. OkFrom(g, j)
      BY <3>3, <3>5
    <3> QED BY <2>a, <3>6 DEF j
  <2> QED BY <2>2, <2>3
<1>2. PICK f : OkFrom(f, 0)
  <2>1. Depth + 1 \notin Bad /\ Depth + 1 \in 0..(Depth + 1) /\ (Depth + 1) - (Depth + 1) = 0
    <3> HIDE DEF Bad
    <3> QED BY <1>0, <1>1
  <2> QED BY <2>1
<1>3. f = [p \in D |-> R(p, f)]
  <2>1. \A p \in D : f[p] = R(p, f)
    BY <1>0, <1>2
  <2> QED BY <1>2, <2>1
<1>4. MergeMapping(t, s) = (CHOOSE h : Merges(t, s, h))[<< >>]
  BY DEF MergeMapping, Merges, Row, Merged
<1>5. Merges(t, s, f)
  BY <1>3 DEF Merges, R, D
<1> QED BY <1>4, <1>5

\* merge, at every key: both had a mapping; or only the first had anything; or
\* the second's node took its place, at the key or above it.
LeafAbove(s, q) == \E u \in Path : Below(u, q) /\ Kind(s, u) \in Scalar

BothMaps(t, s, new, q) ==
  /\ IsMapping(Get(t, q)) /\ IsMapping(Get(s, q)) /\ ~ LeafAbove(s, q)
  /\ \E f : Merges(t, s, f) /\ Get(new, q) = MapNode(Row(t, s, q, f))
OnlyFirst(t, s, new, q) ==
  Get(new, q) = Get(t, q) /\ Get(s, q) = None /\ ~ LeafAbove(s, q)
Second(t, s, new, q) ==
  /\ Get(new, q) = Get(s, q)
  /\ LeafAbove(s, q) \/ (~ IsMapping(Get(t, q)) /\ (Get(s, q) = None => Get(t, q) = None))

\* A leaf above a longer key is that key or above the shorter one.
LEMMA LeafAboveGrows ==
  ASSUME NEW s, NEW q \in Seq(Key), NEW k \in Key
  PROVE  LeafAbove(s, Append(q, k)) <=>
            LeafAbove(s, q) \/ (Append(q, k) \in Path /\ Kind(s, Append(q, k)) \in Scalar)
<1> DEFINE r == Append(q, k)
<1>1. \A u \in Path : Below(u, r) <=> u = r \/ Below(u, q)
  BY KeysAre, BelowAppend
<1> HIDE DEF r
<1>2. LeafAbove(s, r) <=> LeafAbove(s, q) \/ (r \in Path /\ Kind(s, r) \in Scalar)
  BY <1>1 DEF LeafAbove
<1> QED BY <1>2 DEF r

\* One part further, one of the three holds again.
LEMMA MergeStep ==
  ASSUME NEW t, NEW s, Tree(t), Tree(s), NEW new, NEW q \in Seq(Key), NEW k \in Key,
         Append(q, k) \in Keys,
         BothMaps(t, s, new, q) \/ OnlyFirst(t, s, new, q) \/ Second(t, s, new, q)
  PROVE  \/ BothMaps(t, s, new, Append(q, k)) \/ OnlyFirst(t, s, new, Append(q, k))
         \/ Second(t, s, new, Append(q, k))
<1> DEFINE r == Append(q, k)
<1>0. r \in Keys /\ r \in Path /\ q \in Keys
  <2>1. Len(r) = Len(q) + 1 /\ Len(q) \in Nat /\ r \in Seq(Key) /\ Depth \in Nat
    BY Grows, TreeAssumption
  <2>2. r \in Keys
    OBVIOUS
  <2> HIDE DEF r
  <2>3. Len(r) <= Depth
    BY <2>2 DEF Keys
  <2>4. Len(r) \in 1..Depth /\ Len(q) <= Depth
    BY <2>1, <2>3
  <2> QED BY <2>1, <2>2, <2>4, PathIs DEF Keys
<1>1. /\ Get(new, r) = Child(Get(new, q), k) /\ Get(t, r) = Child(Get(t, q), k)
      /\ Get(s, r) = Child(Get(s, q), k)
  BY GetChild
<1>2. LeafAbove(s, r) <=> LeafAbove(s, q) \/ Kind(s, r) \in Scalar
  BY <1>0, LeafAboveGrows
<1>3. /\ Kind(s, r) = "none" <=> Get(s, r) = None
      /\ Kind(s, r) \in Scalar \/ IsMapping(Get(s, r)) \/ Get(s, r) = None
      /\ IsMapping(Get(s, r)) <=> Kind(s, r) = NoValue
  BY <1>0, TreeNodes
<1>4. "none" \notin Scalar /\ NoValue \notin Scalar
  BY TreeAssumption
<1>5. CASE BothMaps(t, s, new, q)
  <2>1. PICK f : Merges(t, s, f) /\ Get(new, q) = MapNode(Row(t, s, q, f))
    BY <1>5 DEF BothMaps
  <2>2. ~ LeafAbove(s, q)
    BY <1>5 DEF BothMaps
  <2> DEFINE K == DOMAIN Under(t, q) \cup DOMAIN Under(s, q)
             w == Row(t, s, q, f)
  <2>3. DOMAIN w = K /\ \A x \in K : w[x] = Merged(t, s, q, x, f[Append(q, x)])
    BY DEF Row
  <2>4. f[r] = Row(t, s, r, f)
    BY <1>0, <2>1, AllKeys DEF Merges
  <2> HIDE DEF w, K
  <2>5. Get(new, r) = IF k \in K THEN Merged(t, s, q, k, f[r]) ELSE None
    <3>1. Get(new, q) = MapNode(w)
      BY <2>1 DEF w
    <3>2. Child(MapNode(w), k) = IF k \in DOMAIN w THEN w[k] ELSE None
      BY ChildOfMap
    <3> QED BY <1>1, <2>3, <3>1, <3>2
  <2>6. CASE k \notin K
    <3>1. Get(t, r) = None /\ Get(s, r) = None
      BY <1>1, <2>6, ChildUnder DEF K
    <3> QED BY <1>2, <1>3, <1>4, <2>2, <2>5, <2>6, <3>1 DEF OnlyFirst
  <2>7. CASE k \in K /\ Get(s, r) = None
    <3>1. Get(new, r) = Get(t, r)
      BY <2>5, <2>7 DEF Merged
    <3> QED BY <1>2, <1>3, <1>4, <2>2, <2>7, <3>1 DEF OnlyFirst
  <2>8. CASE k \in K /\ Get(s, r) # None /\ IsMapping(Get(t, r)) /\ IsMapping(Get(s, r))
    <3>1. Get(new, r) = MapNode(f[r])
      BY <2>5, <2>8 DEF Merged
    <3>2. ~ LeafAbove(s, r)
      BY <1>2, <1>3, <1>4, <2>2, <2>8
    <3> HIDE DEF r
    <3>3. BothMaps(t, s, new, r)
      BY <2>1, <2>4, <2>8, <3>1, <3>2 DEF BothMaps
    <3> QED BY <3>3 DEF r
  <2>9. CASE k \in K /\ Get(s, r) # None /\ ~ (IsMapping(Get(t, r)) /\ IsMapping(Get(s, r)))
    <3>1. Get(new, r) = Get(s, r)
      BY <2>5, <2>9 DEF Merged
    <3>2. LeafAbove(s, r) \/ ~ IsMapping(Get(t, r))
      BY <1>2, <1>3, <2>9
    <3> HIDE DEF r
    <3>3. Second(t, s, new, r)
      BY <2>9, <3>1, <3>2 DEF Second
    <3> QED BY <3>3 DEF r
  <2> QED BY <2>6, <2>7, <2>8, <2>9
<1>6. CASE OnlyFirst(t, s, new, q)
  <2>1. Get(new, r) = Get(t, r) /\ Get(s, r) = None
    BY <1>1, <1>6, NoneIs DEF OnlyFirst, Child
  <2>2. ~ LeafAbove(s, r)
    BY <1>2, <1>3, <1>4, <1>6, <2>1 DEF OnlyFirst
  <2> HIDE DEF r
  <2>3. OnlyFirst(t, s, new, r)
    BY <2>1, <2>2 DEF OnlyFirst
  <2> QED BY <2>3 DEF r
<1>7. CASE Second(t, s, new, q)
  <2>1. Get(new, r) = Get(s, r)
    BY <1>1, <1>7 DEF Second
  <2>2. ~ LeafAbove(s, q) => Get(t, r) = None
    BY <1>1, <1>7 DEF Second, Child
  <2> HIDE DEF r
  <2>3. Second(t, s, new, r)
    BY <1>2, <2>1, <2>2, NoneIs DEF Second
  <2> QED BY <2>3 DEF r
<1> QED BY <1>5, <1>6, <1>7

\* Every key is one of these three, from the empty key down.
LEMMA MergeEverywhere ==
  ASSUME NEW t, NEW s, Tree(t), Tree(s)
  PROVE  \A q \in Keys : \/ BothMaps(t, s, MergeMapping(t, s), q)
                        \/ OnlyFirst(t, s, MergeMapping(t, s), q)
                        \/ Second(t, s, MergeMapping(t, s), q)
<1> DEFINE new == MergeMapping(t, s)
           All(q) == BothMaps(t, s, new, q) \/ OnlyFirst(t, s, new, q) \/ Second(t, s, new, q)
           S == {q \in Seq(Key) : q \in Keys => All(q)}
           e == << >>
<1>0. PICK f : Merges(t, s, f) /\ MergeMapping(t, s) = f[<< >>]
  BY MergeWrites
<1>1. e \in S
  <2>1. e \in Seq(Key) /\ e \in Keys /\ e \notin Path
    BY KeysAre, EmptySeq
  <2>2. /\ Get(t, e) = MapNode(t) /\ Get(s, e) = MapNode(s) /\ Get(new, e) = MapNode(new)
    BY GetRoot
  <2>3. new = f[e]
    BY <1>0
  <2>4. \A u \in Path : ~ Below(u, e)
    BY <2>1, KeysAre, BelowEnds
  <2> HIDE DEF e, new
  <2>5. f[e] = Row(t, s, e, f)
    BY <1>0, <2>1, AllKeys DEF Merges
  <2>6. ~ LeafAbove(s, e)
    BY <2>4 DEF LeafAbove
  <2>7. IsMapping(MapNode(t)) /\ IsMapping(MapNode(s))
    BY DEF IsMapping, MapNode
  <2>8. Get(new, e) = MapNode(Row(t, s, e, f))
    BY <2>2, <2>3, <2>5
  <2>9. BothMaps(t, s, new, e)
    BY <1>0, <2>2, <2>6, <2>7, <2>8 DEF BothMaps
  <2> QED BY <2>1, <2>9
<1> HIDE DEF new
<1>2. ASSUME NEW q \in Seq(Key), NEW k \in Key, q \in S PROVE Append(q, k) \in S
  <2> SUFFICES ASSUME Append(q, k) \in Keys PROVE All(Append(q, k))
    BY AppendProperties
  <2>1. q \in Keys
    <3>1. Len(Append(q, k)) = Len(q) + 1 /\ Len(q) \in Nat /\ Len(Append(q, k)) <= Depth /\ Depth \in Nat
      BY Grows, TreeAssumption DEF Keys
    <3> QED BY <3>1 DEF Keys
  <2>2. All(q)
    BY <1>2, <2>1
  <2> QED BY <2>2, MergeStep
<1> HIDE DEF S
<1>3. \A q \in Seq(Key) : q \in S
  BY <1>1, <1>2, KeyInduction DEF e
<1>4. \A q \in Keys : All(q)
  BY <1>3, KeysAre DEF S
<1> QED BY <1>4 DEF new

\* So a merge keeps the shape, and shows what the second tree has, nothing
\* below the second's leaves, and what the first had elsewhere.
LEMMA MergeKeepsTree ==
  ASSUME NEW t, NEW s, Tree(t), Tree(s)
  PROVE  Tree(MergeMapping(t, s))
<1> DEFINE new == MergeMapping(t, s)
<1> SUFFICES ASSUME NEW q \in Keys PROVE NodeOK(Get(new, q), Len(q))
  BY DEF Tree
<1>0. NodeOK(Get(t, q), Len(q)) /\ NodeOK(Get(s, q), Len(q)) /\ q \in Seq(Key) /\ Len(q) \in Nat
  BY KeysAre, LenProperties DEF Tree
<1>1. BothMaps(t, s, new, q) \/ OnlyFirst(t, s, new, q) \/ Second(t, s, new, q)
  BY MergeEverywhere
<1> HIDE DEF new
<1>2. CASE BothMaps(t, s, new, q)
  <2>1. PICK f : Get(new, q) = MapNode(Row(t, s, q, f))
    BY <1>2 DEF BothMaps
  <2> DEFINE K == DOMAIN Under(t, q) \cup DOMAIN Under(s, q)
             w == Row(t, s, q, f)
  <2>2. DOMAIN w = K /\ \A x \in K : w[x] = Merged(t, s, q, x, f[Append(q, x)])
    BY DEF Row
  <2>3. IsMapping(MapNode(w)) /\ MapNode(w).map = w
    BY DEF IsMapping, MapNode
  <2>4. ASSUME NEW k \in K PROVE k \in Key /\ ~ (Len(q) >= Depth) /\ w[k].scalar # "none"
    <3>1. /\ k \in DOMAIN Under(t, q) => Get(t, Append(q, k)) # None
          /\ k \in DOMAIN Under(s, q) => Get(s, Append(q, k)) # None
          /\ k \in Key /\ Append(q, k) \in Keys /\ Len(Append(q, k)) = Len(q) + 1
      BY <2>4, TreeNodes
    <3>2. ~ (Len(q) >= Depth)
      BY <1>0, <3>1, TreeAssumption DEF Keys
    <3> DEFINE r == Append(q, k)
    <3>3. /\ Kind(t, r) = "none" <=> Get(t, r) = None
          /\ Kind(s, r) = "none" <=> Get(s, r) = None
      BY <3>1, TreeNodes
    <3>4. w[k] = Merged(t, s, q, k, f[r])
      BY <2>2, <2>4
    <3>5. MapNode(f[r]).scalar # "none"
      BY TreeAssumption DEF MapNode
    <3>6. w[k] = IF Get(s, r) = None THEN Get(t, r)
                 ELSE IF IsMapping(Get(t, r)) /\ IsMapping(Get(s, r)) THEN MapNode(f[r])
                 ELSE Get(s, r)
      BY <3>4 DEF Merged
    <3>7. Get(t, r) # None \/ Get(s, r) # None
      BY <2>4, <3>1
    <3> HIDE DEF w, r
    <3>8. w[k].scalar # "none"
      BY <3>3, <3>5, <3>6, <3>7 DEF Kind
    <3> QED BY <3>1, <3>2, <3>8
  <2> HIDE DEF w, K
  <2>5. Get(new, q) = MapNode(w)
    BY <2>1 DEF w
  <2>6. NodeOK(MapNode(w), Len(q))
    BY <2>2, <2>3, <2>4 DEF NodeOK
  <2> QED BY <2>5, <2>6
<1>3. CASE OnlyFirst(t, s, new, q)
  BY <1>0, <1>3 DEF OnlyFirst
<1>4. CASE Second(t, s, new, q)
  BY <1>0, <1>4 DEF Second
<1> QED BY <1>1, <1>2, <1>3, <1>4

LEMMA MergeKinds ==
  ASSUME NEW t, NEW s, Tree(t), Tree(s)
  PROVE  \A q \in Path : Kind(MergeMapping(t, s), q) =
            IF Kind(s, q) # "none" THEN Kind(s, q)
            ELSE IF LeafAbove(s, q) THEN "none"
            ELSE Kind(t, q)
<1> DEFINE new == MergeMapping(t, s)
<1> SUFFICES ASSUME NEW q \in Path
             PROVE  Kind(new, q) = IF Kind(s, q) # "none" THEN Kind(s, q)
                                   ELSE IF LeafAbove(s, q) THEN "none"
                                   ELSE Kind(t, q)
  OBVIOUS
<1>0. q \in Keys
  BY KeysAre
<1>1. BothMaps(t, s, new, q) \/ OnlyFirst(t, s, new, q) \/ Second(t, s, new, q)
  BY <1>0, MergeEverywhere
<1>2. /\ Kind(s, q) = "none" <=> Get(s, q) = None
      /\ Kind(t, q) = "none" <=> Get(t, q) = None
      /\ IsMapping(Get(s, q)) <=> Kind(s, q) = NoValue
  BY <1>0, TreeNodes
<1>3. NoValue # "none"
  BY TreeAssumption
<1> HIDE DEF new
<1>4. CASE BothMaps(t, s, new, q)
  <2>1. Kind(new, q) = NoValue /\ Kind(s, q) = NoValue
    BY <1>2, <1>4 DEF BothMaps, Kind, MapNode
  <2> QED BY <1>3, <2>1
<1>5. CASE OnlyFirst(t, s, new, q)
  <2>1. Kind(new, q) = Kind(t, q) /\ Kind(s, q) = "none" /\ ~ LeafAbove(s, q)
    BY <1>2, <1>5 DEF OnlyFirst, Kind
  <2> QED BY <2>1
<1>6. CASE Second(t, s, new, q)
  <2>1. Kind(new, q) = Kind(s, q)
    BY <1>6 DEF Second, Kind
  <2>2. LeafAbove(s, q) \/ (Kind(s, q) = "none" => Kind(t, q) = "none")
    BY <1>2, <1>6 DEF Second
  <2> QED BY <2>1, <2>2
<1> QED BY <1>1, <1>4, <1>5, <1>6

\* collect_keys: what the function it is written with must be, and is.
LeavesBelow(m, p) == {q \in Path : Below(p, q) /\ p # q /\ Kind(m, q) \in Scalar}
Collected(m, p, f) ==
  UNION {IF IsMapping(Get(m, Append(p, k))) THEN f[Append(p, k)] ELSE {Append(p, k)}
         : k \in DOMAIN Under(m, p)}
Collects(m, f) == f = [p \in Path \cup {<< >>} |-> Collected(m, p, f)]

LEMMA LeavesAreCollected ==
  ASSUME NEW m, Tree(m), NEW p \in Keys, NEW f,
         \A k \in DOMAIN Under(m, p) : f[Append(p, k)] = LeavesBelow(m, Append(p, k))
  PROVE  Collected(m, p, f) = LeavesBelow(m, p)
<1>0. p \in Seq(Key)
  BY KeysAre
<1>1. ASSUME NEW q \in Collected(m, p, f) PROVE q \in LeavesBelow(m, p)
  <2>1. PICK k \in DOMAIN Under(m, p) :
           q \in IF IsMapping(Get(m, Append(p, k))) THEN f[Append(p, k)] ELSE {Append(p, k)}
    BY <1>1 DEF Collected
  <2> DEFINE r == Append(p, k)
  <2>2. k \in Key /\ r \in Keys /\ Get(m, r) # None
    BY TreeNodes
  <2>3. r \in Seq(Key) /\ Below(r, r)
    BY <2>2, KeysAre, BelowEnds
  <2>4. Kind(m, r) \in Scalar \/ IsMapping(Get(m, r)) \/ Get(m, r) = None
    BY <2>2, TreeNodes
  <2>5. CASE IsMapping(Get(m, r))
    <3>1. q \in LeavesBelow(m, r)
      BY <2>1, <2>5
    <3>2. q \in Path /\ Below(r, q) /\ Kind(m, q) \in Scalar /\ q \in Seq(Key)
      BY <3>1, KeysAre DEF LeavesBelow
    <3>3. Below(p, q) /\ p # q
      BY <1>0, <2>2, <3>2, BelowOne
    <3> QED BY <3>2, <3>3 DEF LeavesBelow
  <2>6. CASE ~ IsMapping(Get(m, r))
    <3>1. q = r
      BY <2>1, <2>6
    <3>2. Below(p, r) /\ p # r
      BY <1>0, <2>2, <2>3, BelowOne
    <3>3. r # << >>
      BY <1>0, <2>3, <3>2, BelowEnds
    <3>4. r \in Path /\ Kind(m, r) \in Scalar
      BY <2>2, <2>4, <2>6, <3>3, KeysAre
    <3> HIDE DEF r
    <3> QED BY <3>1, <3>2, <3>4 DEF LeavesBelow
  <2> QED BY <2>5, <2>6
<1>2. ASSUME NEW q \in LeavesBelow(m, p) PROVE q \in Collected(m, p, f)
  <2>1. q \in Path /\ Below(p, q) /\ p # q /\ Kind(m, q) \in Scalar /\ q \in Seq(Key) /\ q \in Keys
    BY <1>2, KeysAre DEF LeavesBelow
  <2>2. PICK k \in Key : Below(Append(p, k), q)
    BY <1>0, <2>1, BelowChild
  <2> DEFINE r == Append(p, k)
  <2>3. r \in Seq(Key) /\ Get(m, r) = Child(Get(m, p), k)
    BY <1>0, GetChild, AppendProperties
  <2>4. Kind(m, q) # "none" /\ Kind(m, q) # NoValue
    BY <2>1, TreeAssumption
  <2>5. Below(r, q)
    BY <2>2
  <2>6. r # q => IsMapping(Get(m, r))
    <3> HIDE DEF r
    <3> QED BY <2>1, <2>3, <2>4, <2>5, MappingsAbove DEF Kind
  <2>7. Get(m, r) # None
    BY <2>1, <2>4, <2>6, NoneIs DEF Kind
  <2>8. k \in DOMAIN Under(m, p)
    BY <2>3, <2>7, ChildUnder
  <2>9. q \in IF IsMapping(Get(m, r)) THEN f[r] ELSE {r}
    <3>1. CASE r = q
      <4>1. ~ IsMapping(Get(m, r))
        BY <2>4, <3>1 DEF Kind, IsMapping
      <4> QED BY <3>1, <4>1
    <3>2. CASE r # q
      <4>1. f[r] = LeavesBelow(m, r)
        BY <2>8
      <4>2. q \in LeavesBelow(m, r)
        BY <2>1, <2>5, <3>2 DEF LeavesBelow
      <4> QED BY <2>6, <3>2, <4>1, <4>2
    <3> QED BY <3>1, <3>2
  <2> QED BY <2>8, <2>9 DEF Collected
<1> QED BY <1>1, <1>2

\* keys lists exactly the keys that show a value.
LEMMA KeysOfAreLeaves ==
  ASSUME NEW m, Tree(m)
  PROVE  KeysOf(m) = {q \in Path : Kind(m, q) \in Scalar}
<1> DEFINE D == Path \cup {<< >>}
           g == [p \in D |-> LeavesBelow(m, p)]
<1>0. /\ Depth \in Nat /\ \A p \in D : p \in Keys /\ Len(p) \in Nat /\ Len(p) <= Depth
      /\ \A p \in Keys : p \in D
  <2>1. \A p \in Keys : Len(p) \in Nat
    BY KeysAre, LenProperties
  <2> QED BY <2>1, KeysAre, AllKeys DEF Keys
<1>a. \A p \in D : \A k \in DOMAIN Under(m, p) : Append(p, k) \in D /\ Len(Append(p, k)) = Len(p) + 1
  BY <1>0, TreeNodes
<1>1. Collects(m, g)
  <2>0. \A p \in D : g[p] = LeavesBelow(m, p)
    OBVIOUS
  <2>1. ASSUME NEW p \in D PROVE LeavesBelow(m, p) = Collected(m, p, g)
    <3>1. \A k \in DOMAIN Under(m, p) : g[Append(p, k)] = LeavesBelow(m, Append(p, k))
      BY <1>a, <2>0
    <3>2. p \in Keys
      BY <1>0
    <3> HIDE DEF g, D
    <3> QED BY <3>1, <3>2, LeavesAreCollected
  <2>2. g = [p \in D |-> Collected(m, p, g)]
    BY <2>1
  <2> QED BY <2>2 DEF Collects
<1>2. ASSUME NEW f, Collects(m, f) PROVE \A p \in D : f[p] = LeavesBelow(m, p)
  <2> DEFINE Bad == {d \in 0..Depth : \E p \in D : Depth - Len(p) = d /\ f[p] # LeavesBelow(m, p)}
  <2> SUFFICES Bad = {}
    <3>1. \A p \in D : Depth - Len(p) \in 0..Depth
      BY <1>0
    <3> QED BY <3>1
  <2> SUFFICES ASSUME Bad # {} PROVE FALSE
    OBVIOUS
  <2>1. PICK d \in Bad : \A j \in Bad : d <= j
    <3>1. Bad \in SUBSET Nat
      BY <1>0
    <3> HIDE DEF Bad
    <3> QED BY <3>1, HasSmallest
  <2>2. PICK p \in D : Depth - Len(p) = d /\ f[p] # LeavesBelow(m, p)
    BY <2>1
  <2>3. ASSUME NEW k \in DOMAIN Under(m, p) PROVE f[Append(p, k)] = LeavesBelow(m, Append(p, k))
    <3>1. Append(p, k) \in D /\ Len(Append(p, k)) = Len(p) + 1 /\ Len(Append(p, k)) <= Depth /\ Len(p) \in Nat
      BY <1>0, <1>a
    <3>2. Depth - Len(Append(p, k)) \in 0..Depth /\ Depth - Len(Append(p, k)) < d
      BY <1>0, <2>2, <3>1
    <3>3. d \in Nat
      BY <1>0, <2>1
    <3>4. Depth - Len(Append(p, k)) \notin Bad
      <4> HIDE DEF Bad
      <4> QED BY <1>0, <2>1, <3>2, <3>3
    <3> QED BY <3>1, <3>2, <3>4
  <2>4. f[p] = Collected(m, p, f)
    BY <1>2 DEF Collects
  <2>5. p \in Keys
    BY <1>0
  <2>6. Collected(m, p, f) = LeavesBelow(m, p)
    BY <2>3, <2>5, LeavesAreCollected
  <2> QED BY <2>2, <2>4, <2>6
<1>3. KeysOf(m) = (CHOOSE f : Collects(m, f))[<< >>]
  BY DEF KeysOf, Collects, Collected
<1>4. KeysOf(m) = LeavesBelow(m, << >>)
  <2>1. << >> \in D
    OBVIOUS
  <2> HIDE DEF D, g
  <2>2. Collects(m, CHOOSE f : Collects(m, f))
    BY <1>1
  <2> QED BY <1>2, <1>3, <2>1, <2>2
<1>5. \A q \in Path : Below(<< >>, q) /\ << >> # q
  BY KeysAre, BelowEnds
<1> QED BY <1>4, <1>5 DEF LeavesBelow

\* The mappings of the model's inputs are trees.
Nodes(below) == {ScalarNode(v) : v \in Scalar} \cup {MapNode(m) : m \in below}
Level(f, d) == UNION {[ks -> Nodes(IF d = 1 THEN {EmptyMapping} ELSE f[d - 1])] : ks \in SUBSET Key}
Levels(f) == f = [d \in 1..Depth |-> Level(f, d)]

LEMMA MappingsAreLevels == Levels(Mappings)
<1> DEFINE D == 1..Depth
           OkTo(f, n) == f = [d \in D |-> f[d]] /\ \A d \in D : d <= n => f[d] = Level(f, d)
           Bad == {n \in 0..Depth : ~ \E f : OkTo(f, n)}
<1>0. Depth \in Nat
  BY TreeAssumption
<1>1. Bad = {}
  <2> SUFFICES ASSUME Bad # {} PROVE FALSE
    OBVIOUS
  <2>1. PICK n \in Bad : \A j \in Bad : n <= j
    <3>1. Bad \in SUBSET Nat
      BY <1>0
    <3> HIDE DEF Bad
    <3> QED BY <3>1, HasSmallest
  <2>a. n \in 0..Depth /\ ~ \E f : OkTo(f, n)
    BY <2>1
  <2>2. CASE n = 0
    <3> DEFINE f == [d \in D |-> 0]
    <3>1. f = [d \in D |-> f[d]]
      OBVIOUS
    <3>2. \A d \in D : ~ (d <= n)
      BY <2>2
    <3> HIDE DEF f
    <3>3. OkTo(f, n)
      BY <3>1, <3>2
    <3> QED BY <2>a, <3>3
  <2>3. CASE n # 0
    <3>1. n - 1 \in 0..Depth /\ n - 1 \notin Bad
      <4> HIDE DEF Bad, OkTo
      <4> QED BY <2>1, <2>3, <2>a, <1>0
    <3>2. PICK f : OkTo(f, n - 1)
      BY <3>1
    <3> DEFINE g == [d \in D |-> IF d = n THEN Level(f, n) ELSE f[d]]
    <3>3. g = [d \in D |-> g[d]] /\ \A d \in D : g[d] = IF d = n THEN Level(f, n) ELSE f[d]
      OBVIOUS
    <3> HIDE DEF g
    <3>4. \A d \in D : d <= n - 1 => f[d] = Level(f, d)
      BY <3>2
    <3>5. ASSUME NEW d \in D, d <= n PROVE g[d] = Level(g, d)
      <4>1. g[d] = Level(f, d)
        <5>1. d = n \/ d <= n - 1
          BY <2>a, <3>5
        <5>2. CASE d = n
          BY <5>2, <3>3
        <5>3. CASE d # n
          BY <5>1, <5>3, <3>3, <3>4
        <5> QED BY <5>2, <5>3
      <4>2. d = 1 \/ f[d - 1] = g[d - 1]
        <5>1. CASE d # 1
          <6>1. d - 1 \in D /\ d - 1 # n
            BY <1>0, <2>a, <3>5, <5>1
          <6> QED BY <3>3, <6>1
        <5> QED BY <5>1
      <4>3. (IF d = 1 THEN {EmptyMapping} ELSE f[d - 1]) = (IF d = 1 THEN {EmptyMapping} ELSE g[d - 1])
        BY <4>2
      <4>4. Level(f, d) = Level(g, d)
        BY <4>3 DEF Level
      <4> QED BY <4>1, <4>4
    <3>6. OkTo(g, n)
      BY <3>3, <3>5
    <3> QED BY <2>a, <3>6
  <2> QED BY <2>2, <2>3
<1>2. PICK f : OkTo(f, Depth)
  <2>1. Depth \notin Bad /\ Depth \in 0..Depth
    <3> HIDE DEF Bad
    <3> QED BY <1>0, <1>1
  <2> QED BY <2>1
<1>3. f = [d \in D |-> Level(f, d)]
  <2>1. \A d \in D : f[d] = Level(f, d)
    BY <1>0, <1>2
  <2> QED BY <1>2, <2>1
<1>4. Mappings = CHOOSE h : Levels(h)
  BY DEF Mappings, Levels, Level, Nodes
<1>5. Levels(f)
  BY <1>3 DEF Levels
<1> QED BY <1>4, <1>5

LEMMA LevelIs ==
  ASSUME NEW d \in 1..Depth, NEW x \in Mappings[d]
  PROVE  /\ DOMAIN x \subseteq Key
         /\ \A k \in DOMAIN x : \/ \E v \in Scalar : x[k] = ScalarNode(v)
                                \/ \E y : /\ x[k] = MapNode(y)
                                          /\ IF d = 1 THEN y = EmptyMapping ELSE y \in Mappings[d - 1]
<1> DEFINE below == IF d = 1 THEN {EmptyMapping} ELSE Mappings[d - 1]
<1>1. Mappings[d] = Level(Mappings, d)
  BY MappingsAreLevels DEF Levels
<1>2. PICK ks \in SUBSET Key : x \in [ks -> Nodes(below)]
  BY <1>1 DEF Level
<1>3. DOMAIN x = ks /\ \A k \in ks : x[k] \in Nodes(below)
  BY <1>2
<1>4. ASSUME NEW k \in DOMAIN x
      PROVE  \/ \E v \in Scalar : x[k] = ScalarNode(v)
             \/ \E y : /\ x[k] = MapNode(y)
                       /\ IF d = 1 THEN y = EmptyMapping ELSE y \in Mappings[d - 1]
  <2>1. x[k] \in Nodes(below)
    BY <1>3, <1>4
  <2> HIDE DEF below
  <2>2. (\E v \in Scalar : x[k] = ScalarNode(v)) \/ \E y \in below : x[k] = MapNode(y)
    BY <2>1 DEF Nodes
  <2> QED BY <2>2 DEF below
<1> QED BY <1>3, <1>4

LEMMA MappingsAreTrees == ASSUME NEW m \in Mappings[Depth] PROVE Tree(m)
<1> DEFINE Shape(p) ==
             \/ Get(m, p) = None
             \/ \E v \in Scalar : Get(m, p) = ScalarNode(v)
             \/ \E x : /\ Get(m, p) = MapNode(x)
                       /\ IF Len(p) = Depth THEN x = EmptyMapping ELSE x \in Mappings[Depth - Len(p)]
           S == {p \in Seq(Key) : Len(p) <= Depth => Shape(p)}
<1>0. Depth \in Nat /\ Depth # 0
  BY TreeAssumption
<1>n. ~ IsMapping(None) /\ \A v \in Scalar : ~ IsMapping(ScalarNode(v)) /\ ScalarNode(v).scalar = v
  BY NoneIs, TreeAssumption DEF ScalarNode, IsMapping
<1>1. << >> \in S
  <2>1. << >> \in Seq(Key) /\ Len(<< >>) = 0 /\ Get(m, << >>) = MapNode(m)
    BY EmptySeq, GetRoot
  <2>2. Depth - 0 = Depth /\ Len(<< >>) # Depth
    BY <1>0, <2>1
  <2> QED BY <2>1, <2>2
<1>2. ASSUME NEW p \in Seq(Key), NEW k \in Key, p \in S PROVE Append(p, k) \in S
  <2> DEFINE r == Append(p, k)
  <2>1. r \in Seq(Key) /\ Len(r) = Len(p) + 1 /\ Len(p) \in Nat
    BY Grows
  <2>2. Get(m, r) = Child(Get(m, p), k)
    BY GetChild
  <2> HIDE DEF r
  <2> SUFFICES ASSUME Len(r) <= Depth PROVE Shape(r)
    BY <2>1 DEF r
  <2>3. Len(p) <= Depth /\ Len(p) # Depth /\ Depth - Len(p) \in 1..Depth
    BY <1>0, <2>1
  <2>4. Shape(p)
    BY <1>2, <2>3
  <2>5. CASE ~ IsMapping(Get(m, p)) \/ Get(m, r) = None
    <3>1. Get(m, r) = None
      BY <2>2, <2>5 DEF Child
    <3> QED BY <3>1
  <2>6. CASE IsMapping(Get(m, p)) /\ Get(m, r) # None
    <3>1. PICK x : Get(m, p) = MapNode(x) /\ x \in Mappings[Depth - Len(p)]
      BY <1>n, <2>3, <2>4, <2>6
    <3> DEFINE d == Depth - Len(p)
    <3>2. k \in DOMAIN x /\ Get(m, r) = x[k]
      BY <2>2, <2>6, <3>1, ChildOfMap
    <3>3. d \in 1..Depth /\ (d = 1 <=> Len(r) = Depth) /\ d - 1 = Depth - Len(r)
      BY <1>0, <2>1, <2>3
    <3>4. x \in Mappings[d]
      BY <3>1
    <3> HIDE DEF d
    <3>5. \/ \E v \in Scalar : x[k] = ScalarNode(v)
          \/ \E y : x[k] = MapNode(y) /\ IF d = 1 THEN y = EmptyMapping ELSE y \in Mappings[d - 1]
      BY <3>2, <3>3, <3>4, LevelIs
    <3> QED BY <3>2, <3>3, <3>5
  <2> QED BY <2>5, <2>6
<1>3. \A p \in Seq(Key) : p \in S
  <2> HIDE DEF S
  <2> QED BY <1>1, <1>2, KeyInduction
<1>4. ASSUME NEW p \in Keys PROVE NodeOK(Get(m, p), Len(p))
  <2>1. p \in Seq(Key) /\ Len(p) <= Depth /\ Len(p) \in Nat
    BY LenProperties DEF Keys
  <2>2. Shape(p)
    BY <1>3, <2>1
  <2>3. CASE Get(m, p) = None \/ \E v \in Scalar : Get(m, p) = ScalarNode(v)
    BY <1>n, <2>3 DEF NodeOK
  <2>4. ASSUME NEW x, Get(m, p) = MapNode(x),
               IF Len(p) = Depth THEN x = EmptyMapping ELSE x \in Mappings[Depth - Len(p)]
        PROVE  NodeOK(Get(m, p), Len(p))
    <3>1. IsMapping(MapNode(x)) /\ MapNode(x).map = x
      BY DEF IsMapping, MapNode
    <3>2. CASE Len(p) = Depth
      <4>1. DOMAIN x = {}
        BY <2>4, <3>2 DEF EmptyMapping
      <4> QED BY <2>4, <3>1, <4>1 DEF NodeOK
    <3>3. CASE Len(p) # Depth
      <4> DEFINE d == Depth - Len(p)
      <4>1. d \in 1..Depth /\ ~ (Len(p) >= Depth)
        BY <1>0, <2>1, <3>3
      <4>2. x \in Mappings[d]
        BY <2>4, <3>3
      <4> HIDE DEF d
      <4>3. /\ DOMAIN x \subseteq Key
            /\ \A k \in DOMAIN x : (\E v \in Scalar : x[k] = ScalarNode(v)) \/ \E y : x[k] = MapNode(y)
        BY <4>1, <4>2, LevelIs
      <4>4. \A k \in DOMAIN x : x[k].scalar # "none"
        BY <4>3, TreeAssumption DEF ScalarNode, MapNode
      <4> QED BY <2>4, <3>1, <4>1, <4>3, <4>4 DEF NodeOK
    <3> QED BY <3>2, <3>3
  <2> QED BY <2>2, <2>3, <2>4
<1> QED BY <1>4 DEF Tree

\* What there is before anything was set.
LEMMA EmptyIsTree == Tree(EmptyMapping) /\ \A q \in Path : Kind(EmptyMapping, q) = "none"
<1> DEFINE e == << >>
<1>1. e \in Seq(Key) /\ Get(EmptyMapping, e) = MapNode(EmptyMapping)
  BY EmptySeq, GetRoot
<1>2. NodeOK(MapNode(EmptyMapping), 0) /\ Len(e) = 0
  BY DEF NodeOK, MapNode, EmptyMapping, IsMapping
<1>3. ASSUME NEW q \in Seq(Key), q # e PROVE Get(EmptyMapping, q) = None
  <2>0. Below(e, q)
    BY BelowEnds
  <2> HIDE DEF e
  <2>1. PICK k \in Key : Below(Append(e, k), q)
    BY <1>1, <1>3, <2>0, BelowChild
  <2> DEFINE r == Append(e, k)
  <2>2. r \in Seq(Key) /\ Get(EmptyMapping, r) = Child(MapNode(EmptyMapping), k)
    BY <1>1, GetChild, AppendProperties
  <2>3. Get(EmptyMapping, r) = None
    BY <2>2, ChildOfMap DEF EmptyMapping
  <2>4. Below(r, q)
    BY <2>1
  <2> HIDE DEF r
  <2> QED BY <2>2, <2>3, <2>4, NoneBelow, NoneIs
<1>4. ASSUME NEW q \in Keys PROVE NodeOK(Get(EmptyMapping, q), Len(q))
  BY <1>1, <1>2, <1>3, KeysAre DEF NodeOK
<1>5. ASSUME NEW q \in Path PROVE Kind(EmptyMapping, q) = "none"
  BY <1>3, KeysAre, NoneIs DEF Kind
<1> QED BY <1>4, <1>5 DEF Tree

LEMMA EnvironmentsAreTrees == ASSUME NEW env \in Environments PROVE Tree(env)
<1>1. PICK a \in [key : Path, value : Scalar], b \in [key : Path, value : Scalar] : env = EnvLoaded(a, b)
  BY DEF Environments
<1>2. a.key \in Path /\ a.value \in Scalar /\ b.key \in Path /\ b.value \in Scalar
  OBVIOUS
<1> DEFINE one == SetKey(EmptyMapping, a.key, ScalarNode(a.value))
<1>3. Tree(one)
  BY <1>2, EmptyIsTree, SetLeafIs
<1> HIDE DEF one
<1>4. Tree(SetKey(one, b.key, ScalarNode(b.value)))
  BY <1>2, <1>3, SetLeafIs
<1> QED BY <1>1, <1>4 DEF EnvLoaded, one

\* The tree and its reference say the same of every key.
SameKeys(m, lv, mp) ==
  /\ DOMAIN lv \subseteq Path /\ mp \subseteq Path
  /\ \A q \in Path : /\ q \in DOMAIN lv <=> Kind(m, q) \in Scalar
                     /\ q \in DOMAIN lv => lv[q] = Kind(m, q)
                     /\ q \in mp <=> Kind(m, q) = NoValue
TreeInv == Tree(root) /\ SameKeys(root, leaves, mappings)

LEMMA TreeStart == TreeInit => TreeInv
BY EmptyIsTree, TreeAssumption DEF TreeInit, TreeInv, SameKeys

LEMMA WithoutIs == \A f, gone : /\ DOMAIN Without(f, gone) = DOMAIN f \ gone
                                /\ \A x \in DOMAIN f \ gone : Without(f, gone)[x] = f[x]
BY DEF Without

\* Each operation keeps the tree and its reference alike.
LEMMA SetKeepsTree ==
  ASSUME TreeInv, NEW p \in Path, NEW v \in Scalar, Set(p, v)
  PROVE  TreeInv'
<1> DEFINE above == {q \in Path : Below(p, q) \/ Below(q, p)}
           one == [q \in {p} |-> v]
           rest == Without(leaves, above)
           lv == Over(one, rest)
           mp == {q \in mappings : ~ Below(p, q)} \cup {q \in Path : Below(q, p) /\ q # p}
           new == SetKey(root, p, ScalarNode(v))
<1>0. root' = new /\ leaves' = lv /\ mappings' = mp
  BY DEF Set
<1>1. Tree(root) /\ SameKeys(root, leaves, mappings)
  BY DEF TreeInv
<1>2. /\ Tree(new)
      /\ \A q \in Path : Kind(new, q) = IF q = p THEN v
                                        ELSE IF Below(q, p) THEN NoValue
                                        ELSE IF Below(p, q) THEN "none"
                                        ELSE Kind(root, q)
  BY <1>1, SetLeafIs
<1>3. DOMAIN one = {p} /\ one[p] = v
  OBVIOUS
<1>4. /\ DOMAIN lv = {p} \cup (DOMAIN leaves \ above)
      /\ lv[p] = v /\ \A q \in DOMAIN leaves \ above : q # p => lv[q] = leaves[q]
  <2>1. DOMAIN rest = DOMAIN leaves \ above /\ \A q \in DOMAIN leaves \ above : rest[q] = leaves[q]
    BY WithoutIs
  <2> HIDE DEF one, rest
  <2>2. /\ DOMAIN lv = DOMAIN one \cup DOMAIN rest
        /\ \A x \in DOMAIN lv : lv[x] = IF x \in DOMAIN one THEN one[x] ELSE rest[x]
    BY DEF Over
  <2> HIDE DEF lv
  <2> QED BY <1>3, <2>1, <2>2
<1>5. Below(p, p)
  BY KeysAre, BelowEnds
<1>6. "none" \notin Scalar /\ NoValue \notin Scalar /\ NoValue # "none"
  BY TreeAssumption
<1> HIDE DEF new, lv, one, rest
<1>7. ASSUME NEW q \in Path
      PROVE  /\ q \in DOMAIN lv <=> Kind(new, q) \in Scalar
             /\ q \in DOMAIN lv => lv[q] = Kind(new, q)
             /\ q \in mp <=> Kind(new, q) = NoValue
  <2>1. /\ q \in DOMAIN leaves <=> Kind(root, q) \in Scalar
        /\ q \in DOMAIN leaves => leaves[q] = Kind(root, q)
        /\ q \in mappings <=> Kind(root, q) = NoValue
    BY <1>1 DEF SameKeys
  <2>2. CASE q = p
    BY <1>2, <1>4, <1>5, <1>6, <2>2
  <2>3. CASE q # p /\ Below(q, p)
    BY <1>2, <1>4, <1>6, <2>3
  <2>4. CASE q # p /\ ~ Below(q, p) /\ Below(p, q)
    BY <1>2, <1>4, <1>6, <2>4
  <2>5. CASE q # p /\ ~ Below(q, p) /\ ~ Below(p, q)
    BY <1>2, <1>4, <2>1, <2>5
  <2> QED BY <2>2, <2>3, <2>4, <2>5
<1>8. DOMAIN lv \subseteq Path /\ mp \subseteq Path
  BY <1>1, <1>4 DEF SameKeys
<1> HIDE DEF mp
<1>9. SameKeys(new, lv, mp)
  BY <1>7, <1>8 DEF SameKeys
<1> QED BY <1>0, <1>2, <1>9 DEF TreeInv

LEMMA UnsetKeepsTree ==
  ASSUME TreeInv, NEW p \in Path, UnsetKey(p)
  PROVE  TreeInv'
<1> DEFINE gone == {q \in Path : Below(p, q)}
           lv == Without(leaves, gone)
           mp == {q \in mappings : ~ Below(p, q)}
           new == Unset(root, p)
<1>0. root' = new /\ leaves' = lv /\ mappings' = mp
  BY DEF UnsetKey
<1>1. Tree(root) /\ SameKeys(root, leaves, mappings)
  BY DEF TreeInv
<1>2. /\ Tree(new)
      /\ \A q \in Path : Kind(new, q) = IF Below(p, q) THEN "none" ELSE Kind(root, q)
  BY <1>1, UnsetIs
<1>4. DOMAIN lv = DOMAIN leaves \ gone /\ \A q \in DOMAIN leaves \ gone : lv[q] = leaves[q]
  BY WithoutIs
<1>6. "none" \notin Scalar /\ NoValue # "none"
  BY TreeAssumption
<1> HIDE DEF new, lv
<1>7. ASSUME NEW q \in Path
      PROVE  /\ q \in DOMAIN lv <=> Kind(new, q) \in Scalar
             /\ q \in DOMAIN lv => lv[q] = Kind(new, q)
             /\ q \in mp <=> Kind(new, q) = NoValue
  <2>1. /\ q \in DOMAIN leaves <=> Kind(root, q) \in Scalar
        /\ q \in DOMAIN leaves => leaves[q] = Kind(root, q)
        /\ q \in mappings <=> Kind(root, q) = NoValue
    BY <1>1 DEF SameKeys
  <2>2. CASE Below(p, q)
    BY <1>2, <1>4, <1>6, <2>2
  <2>3. CASE ~ Below(p, q)
    BY <1>2, <1>4, <2>1, <2>3
  <2> QED BY <2>2, <2>3
<1>8. DOMAIN lv \subseteq Path /\ mp \subseteq Path
  BY <1>1, <1>4 DEF SameKeys
<1> HIDE DEF mp
<1>9. SameKeys(new, lv, mp)
  BY <1>7, <1>8 DEF SameKeys
<1> QED BY <1>0, <1>2, <1>9 DEF TreeInv

LEMMA ReferenceMergeKeeps ==
  ASSUME TreeInv, NEW s, Tree(s), NEW new, ReferenceMerge(s),
         \A q \in Path : Kind(new, q) = IF Kind(s, q) # "none" THEN Kind(s, q)
                                        ELSE IF LeafAbove(s, q) THEN "none"
                                        ELSE Kind(root, q)
  PROVE  SameKeys(new, leaves', mappings')
<1> DEFINE f == LeavesOf(s)
           maps == MappingsOf(s)
           replaced == {q \in Path : \E p \in DOMAIN f : Below(p, q)}
           rest == Without(leaves, maps \cup replaced)
           lv == Over(f, rest)
           mp == (mappings \ replaced) \cup maps
<1>0. leaves' = lv /\ mappings' = mp
  BY DEF ReferenceMerge
<1>1. SameKeys(root, leaves, mappings)
  BY DEF TreeInv
<1>2. /\ DOMAIN f = {q \in Path : Kind(s, q) \in Scalar}
      /\ \A q \in DOMAIN f : f[q] = Kind(s, q)
      /\ maps = {q \in Path : Kind(s, q) = NoValue}
  BY DEF LeavesOf, MappingsOf, Kind, IsMapping
<1> HIDE DEF f, maps
<1>3. replaced = {q \in Path : LeafAbove(s, q)}
  BY <1>2 DEF LeafAbove
<1> HIDE DEF replaced
<1>4. /\ DOMAIN lv = DOMAIN f \cup (DOMAIN leaves \ (maps \cup replaced))
      /\ \A q \in DOMAIN f : lv[q] = f[q]
      /\ \A q \in DOMAIN leaves \ (maps \cup replaced) : q \notin DOMAIN f => lv[q] = leaves[q]
  <2>1. /\ DOMAIN rest = DOMAIN leaves \ (maps \cup replaced)
        /\ \A q \in DOMAIN leaves \ (maps \cup replaced) : rest[q] = leaves[q]
    BY WithoutIs
  <2> HIDE DEF rest
  <2>2. /\ DOMAIN lv = DOMAIN f \cup DOMAIN rest
        /\ \A x \in DOMAIN lv : lv[x] = IF x \in DOMAIN f THEN f[x] ELSE rest[x]
    BY DEF Over
  <2> HIDE DEF lv
  <2> QED BY <2>1, <2>2
<1>5. "none" \notin Scalar /\ NoValue \notin Scalar /\ NoValue # "none"
  BY TreeAssumption
<1>6. \A q \in Path : Kind(s, q) \in Scalar => LeafAbove(s, q)
  BY KeysAre, BelowEnds DEF LeafAbove
<1>7. \A q \in Path : Kind(s, q) \in Scalar \/ Kind(s, q) = NoValue \/ Kind(s, q) = "none"
  BY KeysAre, TreeNodes
<1> HIDE DEF lv
<1>8. ASSUME NEW q \in Path
      PROVE  /\ q \in DOMAIN lv <=> Kind(new, q) \in Scalar
             /\ q \in DOMAIN lv => lv[q] = Kind(new, q)
             /\ q \in mp <=> Kind(new, q) = NoValue
  <2>1. /\ q \in DOMAIN leaves <=> Kind(root, q) \in Scalar
        /\ q \in DOMAIN leaves => leaves[q] = Kind(root, q)
        /\ q \in mappings <=> Kind(root, q) = NoValue
    BY <1>1 DEF SameKeys
  <2>2. /\ q \in DOMAIN f <=> Kind(s, q) \in Scalar
        /\ q \in maps <=> Kind(s, q) = NoValue
        /\ q \in replaced <=> LeafAbove(s, q)
    BY <1>2, <1>3
  <2>3. Kind(new, q) = IF Kind(s, q) # "none" THEN Kind(s, q)
                       ELSE IF LeafAbove(s, q) THEN "none"
                       ELSE Kind(root, q)
    OBVIOUS
  <2>4. CASE Kind(s, q) \in Scalar
    BY <1>2, <1>4, <1>5, <1>6, <2>2, <2>3, <2>4
  <2>5. CASE Kind(s, q) = NoValue
    BY <1>4, <1>5, <2>2, <2>3, <2>5
  <2>6. CASE Kind(s, q) = "none" /\ LeafAbove(s, q)
    BY <1>4, <1>5, <2>2, <2>3, <2>6
  <2>7. CASE Kind(s, q) = "none" /\ ~ LeafAbove(s, q)
    BY <1>4, <1>5, <2>1, <2>2, <2>3, <2>7
  <2> QED BY <1>7, <2>4, <2>5, <2>6, <2>7
<1>9. DOMAIN lv \subseteq Path /\ mp \subseteq Path
  BY <1>1, <1>2, <1>4 DEF SameKeys
<1> HIDE DEF mp
<1> QED BY <1>0, <1>8, <1>9 DEF SameKeys

LEMMA MergeKeeps ==
  ASSUME TreeInv, NEW m, Tree(m), Merge(m)
  PROVE  TreeInv'
<1>1. Tree(root) /\ root' = MergeMapping(root, m) /\ ReferenceMerge(m)
  BY DEF TreeInv, Merge
<1> DEFINE new == MergeMapping(root, m)
<1>2. /\ Tree(new)
      /\ \A q \in Path : Kind(new, q) = IF Kind(m, q) # "none" THEN Kind(m, q)
                                        ELSE IF LeafAbove(m, q) THEN "none"
                                        ELSE Kind(root, q)
  BY <1>1, MergeKeepsTree, MergeKinds
<1>3. root' = new
  BY <1>1
<1> HIDE DEF new
<1>4. SameKeys(new, leaves', mappings')
  BY <1>1, <1>2, ReferenceMergeKeeps
<1> QED BY <1>2, <1>3, <1>4 DEF TreeInv

LEMMA LayersKeep ==
  ASSUME TreeInv, NEW env, Tree(env), LoadLayers(env)
  PROVE  TreeInv'
<1> DEFINE one == MergeMapping(EmptyMapping, root)
           new == MergeMapping(one, env)
<1>1. Tree(root) /\ root' = new /\ ReferenceMerge(env)
  BY DEF TreeInv, LoadLayers, Layered
<1>2. Tree(one)
  BY <1>1, EmptyIsTree, MergeKeepsTree
<1>3. ASSUME NEW q \in Path PROVE Kind(one, q) = Kind(root, q)
  <2>1. Kind(one, q) = IF Kind(root, q) # "none" THEN Kind(root, q)
                       ELSE IF LeafAbove(root, q) THEN "none"
                       ELSE Kind(EmptyMapping, q)
    BY <1>1, EmptyIsTree, MergeKinds
  <2>2. Kind(EmptyMapping, q) = "none"
    BY EmptyIsTree
  <2> QED BY <2>1, <2>2
<1> HIDE DEF one
<1>4. /\ Tree(new)
      /\ \A q \in Path : Kind(new, q) = IF Kind(env, q) # "none" THEN Kind(env, q)
                                        ELSE IF LeafAbove(env, q) THEN "none"
                                        ELSE Kind(one, q)
  BY <1>2, MergeKeepsTree, MergeKinds
<1> HIDE DEF new
<1>5. \A q \in Path : Kind(new, q) = IF Kind(env, q) # "none" THEN Kind(env, q)
                                     ELSE IF LeafAbove(env, q) THEN "none"
                                     ELSE Kind(root, q)
  BY <1>3, <1>4
<1>6. SameKeys(new, leaves', mappings')
  BY <1>1, <1>5, ReferenceMergeKeeps
<1> QED BY <1>1, <1>4, <1>6 DEF TreeInv

\* So every step does, in any order and number.
LEMMA TreeKeep == TreeInv /\ [TreeNext]_treeVars => TreeInv'
<1> SUFFICES ASSUME TreeInv, [TreeNext]_treeVars PROVE TreeInv'
  OBVIOUS
<1>1. ASSUME NEW p \in Path, UnsetKey(p) PROVE TreeInv'
  BY <1>1, UnsetKeepsTree
<1>2. ASSUME NEW p \in Path, NEW v \in Scalar, Set(p, v) PROVE TreeInv'
  BY <1>2, SetKeepsTree
<1>3. ASSUME NEW m \in Mappings[Depth], Merge(m) PROVE TreeInv'
  BY <1>3, MappingsAreTrees, MergeKeeps
<1>4. ASSUME NEW env \in Environments, LoadLayers(env) PROVE TreeInv'
  BY <1>4, EnvironmentsAreTrees, LayersKeep
<1>5. CASE UNCHANGED treeVars
  BY <1>5 DEF TreeInv, treeVars
<1> QED BY <1>1, <1>2, <1>3, <1>4, <1>5 DEF TreeNext

\* And a tree that is like its reference is what its keys say.
LEMMA TreeIsTold == TreeInv => TreeIsItsKeys
<1> SUFFICES ASSUME TreeInv PROVE TreeIsItsKeys
  OBVIOUS
<1>1. Tree(root) /\ SameKeys(root, leaves, mappings)
  BY DEF TreeInv
<1>2. KeysOf(root) = {q \in Path : Kind(root, q) \in Scalar}
  BY <1>1, KeysOfAreLeaves
<1>3. KeysOf(root) = DOMAIN leaves
  BY <1>1, <1>2 DEF SameKeys
<1>4. ASSUME NEW p \in Path
      PROVE  Get(root, p).scalar = IF p \in DOMAIN leaves THEN leaves[p]
                                   ELSE IF p \in mappings THEN NoValue ELSE "none"
  <2>1. Kind(root, p) \in Scalar \/ Kind(root, p) = NoValue \/ Kind(root, p) = "none"
    BY <1>1, KeysAre, TreeNodes
  <2> QED BY <1>1, <2>1, TreeAssumption DEF SameKeys, Kind
<1> QED BY <1>3, <1>4 DEF TreeIsItsKeys

-----------------------------------------------------------------------------
\* Of the three parts that keep documents, only the one that is looked at moves.
LEMMA OneDocumentMoves ==
  [HostNext]_partVars =>
    /\ part' = part
    /\ part = "settings" => [SettingsNext]_settingsVars
    /\ part = "selfmod" => [SelfModNext]_modVars
    /\ [TreeNext]_treeVars
<1>1. [HostNext]_partVars =>
        /\ part' = part
        /\ part = "settings" => SettingsNext \/ (UNCHANGED fileVars /\ UNCHANGED watchVars)
        /\ part = "selfmod" => SelfModNext \/ (UNCHANGED fileVars /\ UNCHANGED callVars)
        /\ [TreeNext]_treeVars
  <2> SUFFICES ASSUME [HostNext]_partVars
               PROVE  /\ part' = part
                      /\ part = "settings" => SettingsNext \/ (UNCHANGED fileVars /\ UNCHANGED watchVars)
                      /\ part = "selfmod" => SelfModNext \/ (UNCHANGED fileVars /\ UNCHANGED callVars)
                      /\ [TreeNext]_treeVars
    OBVIOUS
  <2>1. CASE Moves("settings", SettingsNext) /\ Rest("settings")
    BY <2>1, Zenon DEF Moves, Rest
  <2>2. CASE Moves("selfmod", SelfModNext) /\ Rest("selfmod")
    BY <2>2, Zenon DEF Moves, Rest
  <2>3. CASE Moves("tree", TreeNext) /\ Rest("tree")
    BY <2>3, Zenon DEF Moves, Rest
  <2>4. CASE UNCHANGED partVars
    BY <2>4, Zenon DEF partVars
  <2>5. CASE \E p \in Parts \ {"settings", "selfmod", "tree"} : Moves(p, TRUE) /\ Rest(p)
    BY <2>5, Zenon DEF Moves, Rest
  <2> QED BY <2>1, <2>2, <2>3, <2>4, <2>5 DEF HostNext, Moves, Parts
<1>2. UNCHANGED fileVars /\ UNCHANGED watchVars => UNCHANGED settingsVars
  BY DEF fileVars, watchVars, settingsVars
<1>3. UNCHANGED fileVars /\ UNCHANGED callVars => UNCHANGED modVars
  BY DEF fileVars, callVars, modVars
<1> QED BY <1>1, <1>2, <1>3, Zenon

\* Whatever saves, watches, plugin calls, hand edits and crashes come together,
\* and whatever is set, unset, merged and layered: unless two saves overlapped,
\* the settings file and what a load or the watcher shows are each one save; unless
\* two calls overlapped, the audit log replays to cordis.yml, and a change nobody
\* overlapped is undone only by a later call; and the tree is what its whole keys
\* say (ma-harness-settings lib.rs:186-352, 613-630, 938-959, 1091-1168;
\* ma-harness-self-modification lib.rs:369-480).
THEOREM FilesStayWhatWasSaved == HostSpec => []FilesAreWhatWasSaved
<1> DEFINE FilesInv ==
             /\ part = "settings" => SettingsInv
             /\ part = "selfmod" => ModInv
             /\ TreeInv
<1>1. HostInit => FilesInv
  <2>1. HostInit => /\ TreeInit /\ WatcherInit /\ CallsInit
                    /\ part = "settings" => FileInit({SavedAs("old")})
                    /\ part = "selfmod" => FileInit({[i \in Chunk |-> i = 1]})
    BY Zenon DEF HostInit
  <2> QED BY <2>1, SettingsStart, ModStart, TreeStart
<1>2. FilesInv /\ [HostNext]_partVars => FilesInv'
  <2> SUFFICES ASSUME FilesInv, [HostNext]_partVars PROVE FilesInv'
    OBVIOUS
  <2>1. /\ part' = part
        /\ part = "settings" => [SettingsNext]_settingsVars
        /\ part = "selfmod" => [SelfModNext]_modVars
        /\ [TreeNext]_treeVars
    BY OneDocumentMoves
  <2>2. part = "settings" => SettingsInv'
    BY <2>1, SettingsKeep
  <2>3. part = "selfmod" => ModInv'
    BY <2>1, ModKeep
  <2>4. TreeInv'
    BY <2>1, TreeKeep
  <2> QED BY <2>1, <2>2, <2>3, <2>4
<1>3. FilesInv => FilesAreWhatWasSaved
  BY SettingsAreTold, AuditIsTold, TreeIsTold DEF FilesAreWhatWasSaved
<1> HIDE DEF FilesInv
<1> QED BY <1>1, <1>2, <1>3, PTL DEF HostSpec
=============================================================================
