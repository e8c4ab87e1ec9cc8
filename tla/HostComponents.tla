--------------------------- MODULE HostComponents ---------------------------
(* The parts of the harness that run beside the agent and share no state     *)
(* with each other: part names the one that is looked at.                    *)
EXTENDS TuiApproval, WebUi, EmitQueue, Disposal, PluginRegistry,
        SettingsFile, SelfMod, SettingsTree, SessionRecords, ModelCalls,
        TaskDag, Compaction

VARIABLE part

Parts == {"tui", "web", "emit", "dispose", "dispose_async", "plugins", "loader",
          "settings", "selfmod", "tree", "records", "breaker", "stream", "compaction", "dag"}

\* The variables of a part; settings and selfmod write files alike.
tuiAll == <<chanVars, tuiVars>>
watchVars == <<watcher, delivered, changed, handEdited>>
callVars == <<modCall, audit, start>>
partVars == <<tuiAll, webUiVars, emitVars, disposalVars, asyncDisposalVars, pluginVars,
              loaderVars, fileVars, watchVars, callVars, treeVars, recVars, breakerVars,
              streamVars, compactionVars, dagVars, part>>

\* A part that is not looked at has one initial state, here and below any.
HostInit ==
    /\ part \in Parts
    /\ TuiInit /\ WebUiInit /\ DisposalInit /\ AsyncDisposalInit /\ PluginsInit
    /\ TreeInit /\ BreakerInit /\ CompactionInit
    /\ (part = "emit" \/ (emitMode = "sync" /\ on = [k \in Task |-> CHOOSE t \in Thread : TRUE])) /\ EmitInit
    /\ (part = "records" \/ backend = "memory") /\ RecInit
    /\ (part = "stream" \/ (provider = "openai" /\ events = << >> /\ ended = TRUE)) /\ StreamInit
    /\ (part = "dag" \/ dag = << >>) /\ DagInit
    /\ CASE part = "settings" -> FileInit({SavedAs("old")})
         [] part = "selfmod" -> FileInit({[i \in Chunk |-> i = 1]})
         [] OTHER -> FileInit({}) /\ target = 0
    /\ WatcherInit /\ (part = "settings" \/ ~ watcher.reports)
    /\ CallsInit
    /\ (part = "loader" \/ (manifests = << >> /\ linked = {})) /\ LoaderInit

Moves(p, A) == part = p /\ A /\ part' = p

\* Every part but p, whose step sets its own variables.
Rest(p) ==
    /\ IF p = "tui" THEN TRUE ELSE UNCHANGED tuiAll
    /\ IF p = "web" THEN TRUE ELSE UNCHANGED webUiVars
    /\ IF p = "emit" THEN TRUE ELSE UNCHANGED emitVars
    /\ IF p = "dispose" THEN TRUE ELSE UNCHANGED disposalVars
    /\ IF p = "dispose_async" THEN TRUE ELSE UNCHANGED asyncDisposalVars
    /\ IF p = "plugins" THEN TRUE ELSE UNCHANGED pluginVars
    /\ IF p = "loader" THEN TRUE ELSE UNCHANGED loaderVars
    /\ IF p \in {"settings", "selfmod"} THEN TRUE ELSE UNCHANGED fileVars
    /\ IF p = "settings" THEN TRUE ELSE UNCHANGED watchVars
    /\ IF p = "selfmod" THEN TRUE ELSE UNCHANGED callVars
    /\ IF p = "tree" THEN TRUE ELSE UNCHANGED treeVars
    /\ IF p = "records" THEN TRUE ELSE UNCHANGED recVars
    /\ IF p = "breaker" THEN TRUE ELSE UNCHANGED breakerVars
    /\ IF p = "stream" THEN TRUE ELSE UNCHANGED streamVars
    /\ IF p = "compaction" THEN TRUE ELSE UNCHANGED compactionVars
    /\ IF p = "dag" THEN TRUE ELSE UNCHANGED dagVars

HostNext ==
    \/ Moves("tui", TuiNext) /\ Rest("tui")
    \/ Moves("web", WebUiNext) /\ Rest("web")
    \/ Moves("emit", EmitNext) /\ Rest("emit")
    \/ Moves("dispose", DisposalNext) /\ Rest("dispose")
    \/ Moves("dispose_async", AsyncDisposalNext) /\ Rest("dispose_async")
    \/ Moves("plugins", PluginsNext) /\ Rest("plugins")
    \/ Moves("loader", LoaderNext) /\ Rest("loader")
    \/ Moves("settings", SettingsNext) /\ Rest("settings")
    \/ Moves("selfmod", SelfModNext) /\ Rest("selfmod")
    \/ Moves("tree", TreeNext) /\ Rest("tree")
    \/ Moves("records", RecNext) /\ Rest("records")
    \/ Moves("breaker", BreakerNext) /\ Rest("breaker")
    \/ Moves("stream", StreamNext) /\ Rest("stream")
    \/ Moves("compaction", CompactionNext) /\ Rest("compaction")
    \/ Moves("dag", DagNext) /\ Rest("dag")

\* No fair step is possible in the initial state of a part.
HostSpec ==
    HostInit /\ [][HostNext]_partVars /\ TuiFairness /\ WebUiFairness /\ SettingsFairness
-----------------------------------------------------------------------------
\* Cordis events: delivered once and in order, and no flag left behind.
EventsAreDelivered == part = "emit" => EventsAccountedFor /\ SyncFlagIsTheLoop

\* Cordis resources and plugins: released like a stack, errors reported,
\* the registry true to what is installed, and dependencies loaded first.
ResourcesAreReleased ==
    /\ part = "dispose" => DisposesLikeAStack
    /\ part = "dispose_async" => AsyncErrorIsTheNewest
    /\ part = "plugins" => RegistryIsWhatIsInstalled
    /\ part = "loader" => LoadsInOrder

\* Settings and cordis.yml: files are one save, the audit log replays to the
\* file, and the tree is what its keys say.
FilesAreWhatWasSaved ==
    /\ part = "settings" => SettingsAreOneSave
    /\ part = "selfmod" => AuditTellsTheFile
    /\ part = "tree" => TreeIsItsKeys

\* Model calls: the breaker follows its reports, streams survive their cuts,
\* and a compacted session still accounts for every event.
ModelCallsAreTold ==
    /\ part = "breaker" => BreakerIsItsReports
    /\ part = "stream" => TokensSurviveCuts
    /\ part = "compaction" => CompactionLosesNothing

\* Session records and the web page: closes that overlap leave one of them,
\* and inputs reach agents and pages, whose connections stay.
ServersKeepTheirWord ==
    /\ part = "records" => RecordsAreOfOneClose
    /\ part = "web" => InputsReachBothSides /\ IdleTabsStay

\* The task DAG's verdict is the graph's.
TasksRunInOrder == part = "dag" => DagVerdictIsReal

\* The watcher delivers the last change, the heartbeat removes dead senders,
\* and a stop reaches a task.
LoopsMoveOn == LastChangeIsDelivered /\ DeadSendersGo /\ StopReachesATask
=============================================================================
