------------------------------- MODULE WebUi -------------------------------
(* LocalWebUiServer of crates/ma-harness-web-ui/src/lib.rs: run accepts     *)
(* connections, a heartbeat task prunes the senders of those that ended,    *)
(* both wait on one Notify for stop; each SSE connection has a queue of its *)
(* own, and POST /api/input goes to the subscribed agents and, as an        *)
(* acknowledgement, to the connections.                                     *)
EXTENDS Naturals, FiniteSets, Sequences, SequencesExt

CONSTANTS Tab,          \* SSE connections
          Filter,       \* [Tab -> what its ?session= asks for, or NoFilter]
          NoFilter,
          Post,         \* requests POST /api/input
          SessionOf,    \* [Post -> the session it names]
          Agent,        \* calls of subscribe_user_input
          MaxRequests   \* bound on the calls of stop and the posts, together

\* An event is a post or a heartbeat; lists of agents and of tabs are apart.
ASSUME UiAssumption == "heartbeat" \notin Post /\ Agent \cap Tab = {}

VARIABLES server,       \* run: "off", "polling", "waiting", "returned"
          beat,         \* heartbeat_loop: "off", "polling", "waiting", "exited"
          notify,       \* the Notify: [waiters, woken, permit]
          stops,
          tab,          \* [Tab -> "away", "accepted", "open" or how it ended]
          active_sse_subs,  \* the tabs whose sender is listed
          inbox,        \* [Tab -> what its queue holds: posts and HeartbeatEvent]
          stalled,      \* tabs that have stopped reading
          quiet,        \* [Tab -> 15 s periods since its last event]
          due,          \* the heartbeat's tick is due
          post,         \* [Post -> where its request stands]
          to,           \* [Post -> senders copied from a list and not used yet]
          agent,        \* [Agent -> "on", "dropped"], whether its receiver lives
          heard,        \* [Agent -> the posts sent to its channel]
          got,          \* history: [Tab -> posts whose acknowledgement it was written]
          called        \* history: [Post -> the agents and tabs it was meant for]

uiTasks == <<server, beat, notify, stops>>
uiTabs == <<tab, active_sse_subs, inbox, stalled, quiet, due, got>>
uiPosts == <<post, to, agent, heard, called>>
webUiVars == <<uiTasks, uiTabs, uiPosts>>

HeartbeatEvent == "heartbeat"

WebUiInit ==
    /\ server = "off" /\ beat = "off" /\ stops = 0
    /\ notify = [waiters |-> << >>, woken |-> {}, permit |-> FALSE]
    /\ tab = [c \in Tab |-> "away"] /\ active_sse_subs = {}
    /\ inbox = [c \in Tab |-> << >>] /\ stalled = {} /\ due = FALSE
    /\ quiet = [c \in Tab |-> 0] /\ got = [c \in Tab |-> << >>]
    /\ post = [p \in Post |-> "new"] /\ to = [p \in Post |-> {}]
    /\ agent = [a \in Agent |-> "on"] /\ heard = [a \in Agent |-> << >>]
    /\ called = [p \in Post |-> {}]

-----------------------------------------------------------------------------
(* tokio's Notify: one permit at most, waiters served in order; a waiter    *)
(* that goes away after it was woken hands the wake-up on.                  *)
NotifyOne(n) ==
    IF n.waiters = << >> THEN [n EXCEPT !.permit = TRUE]
    ELSE [n EXCEPT !.waiters = Tail(@), !.woken = @ \cup {Head(n.waiters)}]

WaitNoMore(w) ==
    IF w \in notify.woken THEN NotifyOne([notify EXCEPT !.woken = @ \ {w}])
    ELSE [notify EXCEPT !.waiters = Remove(@, w)]

WaitsOn(w) ==
    IF notify.permit THEN [notify EXCEPT !.permit = FALSE]
    ELSE [notify EXCEPT !.waiters = Append(@, w)]

Requests == stops + Cardinality({p \in Post : post[p] # "new"})

Stop ==
    /\ Requests < MaxRequests /\ stops' = stops + 1
    /\ notify' = NotifyOne(notify)
    /\ UNCHANGED <<server, beat, uiTabs, uiPosts>>

\* run: binds, spawns the heartbeat and starts to accept.
Run ==
    /\ server = "off" /\ server' = "polling" /\ beat' = "polling"
    /\ UNCHANGED <<notify, stops, uiTabs, uiPosts>>

\* Both loops poll the Notify first and wait for it with each round anew.
RunPolls ==
    /\ server = "polling" /\ notify' = WaitsOn("run")
    /\ server' = IF notify.permit THEN "returned" ELSE "waiting"
    /\ UNCHANGED <<beat, stops, uiTabs, uiPosts>>
BeatPolls ==
    /\ beat = "polling" /\ notify' = WaitsOn("beat")
    /\ beat' = IF notify.permit THEN "exited" ELSE "waiting"
    /\ UNCHANGED <<server, stops, uiTabs, uiPosts>>

RunStops ==
    /\ "run" \in notify.woken /\ server' = "returned"
    /\ notify' = [notify EXCEPT !.woken = @ \ {"run"}]
    /\ UNCHANGED <<beat, stops, uiTabs, uiPosts>>
BeatStops ==
    /\ "beat" \in notify.woken /\ beat' = "exited"
    /\ notify' = [notify EXCEPT !.woken = @ \ {"beat"}]
    /\ UNCHANGED <<server, stops, uiTabs, uiPosts>>

AcceptTab(c) ==
    /\ server = "waiting" /\ tab[c] = "away"
    /\ tab' = [tab EXCEPT ![c] = "accepted"]
    /\ server' = "polling" /\ notify' = WaitNoMore("run")
    /\ UNCHANGED <<beat, stops, active_sse_subs, inbox, stalled, quiet, due, got, uiPosts>>
AcceptPost(p) ==
    /\ server = "waiting" /\ post[p] = "new" /\ Requests < MaxRequests
    /\ post' = [post EXCEPT ![p] = "accepted"]
    /\ server' = "polling" /\ notify' = WaitNoMore("run")
    /\ UNCHANGED <<beat, stops, uiTabs, to, agent, heard, called>>

\* Faulty variant: a heartbeat is sent to whoever is listed, none is removed.
PrunedNever == active_sse_subs

\* A sender is dropped when sending fails: its connection's handler is over.
Pruned == {c \in active_sse_subs : tab[c] = "open"}

\* Heartbeats queued in a row are not told apart.
WithHeartbeat(q) ==
    IF q # << >> /\ Last(q) = HeartbeatEvent THEN q ELSE Append(q, HeartbeatEvent)

HeartbeatTick ==
    /\ beat = "waiting" /\ due /\ due' = FALSE
    /\ active_sse_subs' = Pruned
    /\ inbox' = [c \in Tab |-> IF c \in Pruned /\ tab[c] = "open"
                               THEN WithHeartbeat(inbox[c]) ELSE inbox[c]]
    /\ beat' = "polling" /\ notify' = WaitNoMore("beat")
    /\ UNCHANGED <<server, stops, tab, stalled, quiet, got, uiPosts>>

-----------------------------------------------------------------------------
(* One SSE connection.                                                      *)
\* The sender is listed after the answer's head was written.
OpenTab(c) ==
    /\ tab[c] = "accepted" /\ tab' = [tab EXCEPT ![c] = "open"]
    /\ active_sse_subs' = active_sse_subs \cup {c}
    /\ UNCHANGED <<uiTasks, inbox, stalled, quiet, due, got, uiPosts>>

Matches(c, event) ==
    event # HeartbeatEvent => Filter[c] \in {NoFilter, SessionOf[event]}

\* The handler's loop takes one event; whatever comes, the 30 s start again.
\* Writing to a tab that does not read has no timeout.
WriteEvent(c) ==
    /\ tab[c] = "open" /\ inbox[c] # << >> /\ c \notin stalled
    /\ inbox' = [inbox EXCEPT ![c] = Tail(@)] /\ quiet' = [quiet EXCEPT ![c] = 0]
    /\ got' = IF Matches(c, Head(inbox[c])) /\ Head(inbox[c]) # HeartbeatEvent
              THEN [got EXCEPT ![c] = Append(@, Head(inbox[c]))] ELSE got
    /\ UNCHANGED <<uiTasks, tab, active_sse_subs, stalled, due, uiPosts>>

Stalls(c) ==
    /\ tab[c] = "open" /\ stalled' = stalled \cup {c}
    /\ UNCHANGED <<uiTasks, tab, active_sse_subs, inbox, quiet, due, got, uiPosts>>

\* The handler ends and drops its receiver; the sender stays in the list.
Ends(c, how) ==
    /\ tab' = [tab EXCEPT ![c] = how] /\ inbox' = [inbox EXCEPT ![c] = << >>]
    /\ stalled' = stalled \ {c} /\ quiet' = [quiet EXCEPT ![c] = 0]
    /\ UNCHANGED <<uiTasks, active_sse_subs, due, got, uiPosts>>
TabCloses(c) == tab[c] = "open" /\ Ends(c, "closed")
ReadTimesOut(c) ==
    /\ tab[c] = "open" /\ inbox[c] = << >> /\ quiet[c] = 2 /\ Ends(c, "timed out")

\* Fifteen seconds, in which every task that could go on has.
Blocked(c) == c \in stalled /\ inbox[c] # << >>
Elapse ==
    /\ ~due /\ beat # "polling" /\ notify.woken = {}
    /\ \A c \in Tab : tab[c] = "open" => Blocked(c) \/ (inbox[c] = << >> /\ quiet[c] < 2)
    /\ quiet' = [c \in Tab |-> IF tab[c] = "open" /\ ~Blocked(c) THEN quiet[c] + 1 ELSE quiet[c]]
    /\ due' = (beat = "waiting")
    /\ UNCHANGED <<uiTasks, tab, active_sse_subs, inbox, stalled, got, uiPosts>>

-----------------------------------------------------------------------------
(* handle_post_api_input; agents subscribed before the server ran.          *)
AgentDrops(a) ==
    /\ agent[a] = "on" /\ agent' = [agent EXCEPT ![a] = "dropped"]
    /\ UNCHANGED <<uiTasks, uiTabs, post, to, heard, called>>

PostStep(p, from, next) == post[p] = from /\ post' = [post EXCEPT ![p] = next]

\* A body that is no JSON or lacks a field.
RefusePost(p) ==
    /\ PostStep(p, "accepted", "400")
    /\ UNCHANGED <<uiTasks, uiTabs, to, agent, heard, called>>

Copies(p, senders) ==
    /\ to' = [to EXCEPT ![p] = senders]
    /\ called' = [called EXCEPT ![p] = @ \cup senders]

\* The list of agents is never pruned.
CopyAgents(p) ==
    /\ PostStep(p, "accepted", "forwarding")
    /\ Copies(p, Agent)
    /\ UNCHANGED <<uiTasks, uiTabs, agent, heard>>

ForwardTo(p, a) ==
    /\ post[p] = "forwarding" /\ a \in to[p] /\ to' = [to EXCEPT ![p] = @ \ {a}]
    /\ heard' = IF agent[a] = "on" THEN [heard EXCEPT ![a] = Append(@, p)] ELSE heard
    /\ UNCHANGED <<uiTasks, uiTabs, post, agent, called>>

\* Faulty variant: the acknowledgement does not wait for the forwarding.
CopyTabsEarly(p) ==
    /\ PostStep(p, "accepted", "acking")
    /\ Copies(p, active_sse_subs)
    /\ UNCHANGED <<uiTasks, uiTabs, agent, heard>>

CopyTabs(p) ==
    /\ PostStep(p, "forwarding", "acking") /\ to[p] = {}
    /\ Copies(p, active_sse_subs)
    /\ UNCHANGED <<uiTasks, uiTabs, agent, heard>>

AckTo(p, c) ==
    /\ post[p] = "acking" /\ c \in to[p] /\ to' = [to EXCEPT ![p] = @ \ {c}]
    /\ inbox' = IF tab[c] = "open" THEN [inbox EXCEPT ![c] = Append(@, p)] ELSE inbox
    /\ UNCHANGED <<uiTasks, tab, active_sse_subs, stalled, quiet, due, got,
                   post, agent, heard, called>>

Respond(p) ==
    /\ PostStep(p, "acking", "200") /\ to[p] = {}
    /\ UNCHANGED <<uiTasks, uiTabs, to, agent, heard, called>>

PostMoves(p) ==
    \/ AcceptPost(p) \/ RefusePost(p) \/ CopyAgents(p) \/ CopyTabs(p) \/ Respond(p)
    \/ \E a \in Agent : ForwardTo(p, a)
    \/ \E c \in Tab : AckTo(p, c)
TabMoves(c) == OpenTab(c) \/ WriteEvent(c) \/ ReadTimesOut(c)
RunMoves == RunPolls \/ RunStops
BeatMoves == BeatPolls \/ BeatStops \/ HeartbeatTick

WebUiNext ==
    \/ Stop \/ Run \/ RunMoves \/ BeatMoves \/ Elapse
    \/ \E c \in Tab : AcceptTab(c) \/ TabMoves(c) \/ Stalls(c) \/ TabCloses(c)
    \/ \E a \in Agent : AgentDrops(a)
    \/ \E p \in Post : PostMoves(p)

\* Tasks that can go on do, and time passes; a browser owes nothing.
WebUiFairness ==
    /\ WF_webUiVars(RunMoves) /\ WF_webUiVars(BeatMoves) /\ WF_webUiVars(Elapse)
    /\ \A c \in Tab : WF_webUiVars(TabMoves(c))

WebUiSpec == WebUiInit /\ [][WebUiNext]_webUiVars /\ WebUiFairness
-----------------------------------------------------------------------------
Times(s, x) == Cardinality({i \in DOMAIN s : s[i] = x})

\* A tab gets acknowledgements of its session only, each at most once, and
\* none it was meant to get is lost on a tab that stays open; and whoever sees
\* one, or the answer 200, may rely on every agent that is still subscribed
\* having the input, exactly once, whatever other posts, prunings and closing
\* tabs came in between (lib.rs:440-460, 1057-1109).
InputsReachBothSides ==
    \A p \in Post :
        /\ \A c \in Tab :
              /\ Times(got[c] \o inbox[c], p) <= 1
              /\ Times(got[c], p) = 1 => Matches(c, p) /\ c \in called[p]
              /\ post[p] = "200" /\ c \in called[p] /\ tab[c] = "open" /\ Matches(c, p)
                    => Times(got[c] \o inbox[c], p) = 1
        /\ \A a \in Agent :
              /\ Times(heard[a], p) <= 1
              /\ Times(heard[a], p) = 1 => post[p] # "400"
              /\ (\E c \in Tab : Times(got[c], p) = 1) \/ post[p] = "200"
                    => (agent[a] = "on" => Times(heard[a], p) = 1)

\* The 30 s a tab may be silent never run out while the heartbeat task runs,
\* whose 15 s start them anew: a tab that times out had no heartbeat any more.
IdleTabsStay == (\E c \in Tab : tab[c] = "timed out") => beat = "exited"

\* The senders of tabs that ended do not stay, as long as the heartbeat does.
DeadSendersGo ==
    []<>(beat \in {"off", "exited"} \/ \A c \in active_sse_subs : tab[c] = "open")

\* A stop is never lost: it ends run or the heartbeat, before or after they
\* began to wait, whatever they are doing.
StopReachesATask ==
    []<>(stops = 0 \/ server \in {"off", "returned"} \/ beat = "exited")

\* stop: run returns Ok once it has received the signal (lib.rs:353-356).
StopEndsTheServer == []<>(stops = 0 \/ server \in {"off", "returned"})
=============================================================================
