-------------------------- MODULE PluginRegistry -------------------------
(* Context::plugin and uninstall_plugin (crates/ma-harness-cordis/src,      *)
(* context.rs and plugin.rs).  The lock is on the map alone: the plugin's   *)
(* own install runs before it is registered and its uninstall after it was  *)
(* taken out, so another call may come in between.  Below, the loader that  *)
(* installs what is linked in (PluginLoader, ma-harness-seam/src/lib.rs).   *)
EXTENDS Naturals, FiniteSets, Sequences, SequencesExt

CONSTANTS Plugin, NoPlugin,
          PluginName,
          NameOf          \* [Plugin -> PluginName]

ASSUME PluginAssumption == NameOf \in [Plugin -> PluginName] /\ NoPlugin \notin Plugin

VARIABLES plugins,        \* [PluginName -> Plugin or NoPlugin], the registry
          install,        \* [Plugin -> where its life stands]
          rival           \* history: [Plugin -> who held its name when it was refused]

pluginVars == <<plugins, install, rival>>

PluginsInit ==
    /\ plugins = [n \in PluginName |-> NoPlugin]
    /\ install = [p \in Plugin |-> "new"]
    /\ rival = [p \in Plugin |-> NoPlugin]

To(p, s) == install' = [install EXCEPT ![p] = s]

\* Plugin::install; an error ends the call, what it did so far is not undone.
RunInstall(p, ok) ==
    /\ install[p] = "new"
    /\ To(p, IF ok THEN "installed" ELSE "failed")
    /\ UNCHANGED <<plugins, rival>>

\* PluginRegistry::register.
Register(p, refused) ==
    IF plugins[NameOf[p]] = NoPlugin
    THEN /\ plugins' = [plugins EXCEPT ![NameOf[p]] = p]
         /\ To(p, "registered")
         /\ UNCHANGED rival
    ELSE /\ To(p, refused)
         /\ rival' = [rival EXCEPT ![p] = plugins[NameOf[p]]]
         /\ UNCHANGED plugins

\* A name that is taken is an error after the install has run.
RegisterInstalled(p) == install[p] = "installed" /\ Register(p, "clashed")

Unregister(n) ==
    /\ plugins[n] # NoPlugin
    /\ plugins' = [plugins EXCEPT ![n] = NoPlugin]
    /\ To(plugins[n], "uninstalling")
    /\ UNCHANGED rival

\* Plugin::uninstall failed: the plugin goes back, if its name is still free.
UninstallFails(p) == install[p] = "uninstalling" /\ Register(p, "lost")

UninstallWorks(p) ==
    /\ install[p] = "uninstalling"
    /\ To(p, "gone")
    /\ UNCHANGED <<plugins, rival>>

PluginsNext ==
    \/ \E p \in Plugin : \/ \E ok \in BOOLEAN : RunInstall(p, ok)
                         \/ RegisterInstalled(p) \/ UninstallFails(p) \/ UninstallWorks(p)
    \/ \E n \in PluginName : Unregister(n)

\* The registry lists what is installed: each name has the plugin registered
\* under it, every registered plugin is found under its name, and a plugin
\* that is installed and not found lost its name to another one meanwhile.
RegistryIsWhatIsInstalled ==
    /\ \A p \in Plugin : install[p] = "registered" <=> plugins[NameOf[p]] = p
    /\ \A p \in Plugin : install[p] \in {"clashed", "lost"} =>
          /\ rival[p] \in Plugin \ {p} /\ NameOf[rival[p]] = NameOf[p]
          /\ install[rival[p]] # "new"

-----------------------------------------------------------------------------
\* PluginLoader::load_all: who may be loaded, when, and how the call ends.

CONSTANTS Manifests,      \* what may be linked in: functions from names to dependencies
          Linked          \* names of the plugins whose factory is linked in, or may be

ASSUME LoaderAssumption ==
    \A m \in Manifests : IsFiniteSet(DOMAIN m) /\ \A n \in DOMAIN m : m[n] \in Seq(Range(m[n]))

VARIABLES manifests,      \* the dependencies of the names that have a manifest
          linked,         \* the names that have a factory
          unmet,          \* in_degree of the sort
          ready,          \* its queue
          sorted,         \* its result, what is left of it once plugins are installed
          loaded,         \* history: the plugins installed by load_by_name
          load            \* "collect", "sort", "install" or how it ended

loaderVars == <<manifests, linked, unmet, ready, sorted, loaded, load>>

LoaderInit ==
    /\ manifests \in Manifests /\ linked \in SUBSET Linked
    /\ unmet = << >> /\ ready = << >> /\ sorted = << >> /\ loaded = << >>
    /\ load = "collect"

Manifested == DOMAIN manifests
Needs(n) == Range(manifests[n])
Needed == UNION {Needs(n) : n \in Manifested}

\* The maps hash their keys at random: any order.
InAnyOrder(S) == SetToSeqs(S)

\* A dependency with a factory but no manifest passes the check and has no
\* list to be pushed to: graph.get_mut(dep).unwrap() panics.
CollectManifests ==
    /\ load = "collect"
    /\ load' = IF ~ Needed \subseteq linked THEN "missing"
               ELSE IF ~ Needed \subseteq Manifested THEN "panicked" ELSE "sort"
    /\ unmet' = [n \in Manifested |-> Len(manifests[n])]
    /\ ready' \in InAnyOrder({n \in Manifested : manifests[n] = << >>})
    /\ UNCHANGED <<manifests, linked, sorted, loaded>>

\* How often n is in the list of m, as n has m in its own so often.
TimesNeeded(n, m) == Cardinality({k \in DOMAIN manifests[m] : manifests[m][k] = n})

PopReady ==
    /\ load = "sort" /\ ready # << >>
    /\ LET n == Head(ready)
           left == [m \in Manifested |-> unmet[m] - TimesNeeded(n, m)]
       IN  /\ sorted' = Append(sorted, n)
           /\ unmet' = left
           /\ \E freed \in InAnyOrder({m \in Manifested : unmet[m] > 0 /\ left[m] = 0}) :
                 ready' = Tail(ready) \o freed
    /\ UNCHANGED <<manifests, linked, loaded, load>>

SortedAll ==
    /\ load = "sort" /\ ready = << >>
    /\ load' = IF Len(sorted) = Cardinality(Manifested) THEN "install" ELSE "circular"
    /\ UNCHANGED <<manifests, linked, unmet, ready, sorted, loaded>>

\* load_by_name; the first error ends load_all and leaves what is installed.
LoadByName(ok) ==
    /\ load = "install" /\ sorted # << >>
    /\ IF ok /\ Head(sorted) \in linked
       THEN loaded' = Append(loaded, Head(sorted)) /\ sorted' = Tail(sorted) /\ UNCHANGED load
       ELSE load' = "failed" /\ UNCHANGED <<loaded, sorted>>
    /\ UNCHANGED <<manifests, linked, unmet, ready>>

LoadReturns ==
    /\ load = "install" /\ sorted = << >>
    /\ load' = "ok"
    /\ UNCHANGED <<manifests, linked, unmet, ready, sorted, loaded>>

LoaderNext ==
    CollectManifests \/ PopReady \/ SortedAll \/ LoadReturns \/ \E ok \in BOOLEAN : LoadByName(ok)

\* Plugins are loaded once and after all they depend on; nothing is loaded if
\* a dependency is missing or circular, which is said exactly then; and a call
\* that returns has loaded every plugin that has a manifest - not, as its
\* documentation has it, every plugin (lib.rs:457-541).
LoadsInOrder ==
    /\ IsInjective(loaded) /\ Range(loaded) \subseteq Manifested \cap linked
    /\ \A i \in DOMAIN loaded : Needs(loaded[i]) \subseteq {loaded[j] : j \in 1..(i - 1)}
    /\ load \in {"missing", "panicked", "circular"} => loaded = << >>
    /\ load # "collect" => (load = "missing" <=> ~ Needed \subseteq linked)
    /\ load \in {"circular", "install", "failed", "ok"} =>
          (load = "circular" <=> \E S \in (SUBSET Manifested) \ {{}} : \A n \in S : Needs(n) \cap S # {})
    /\ load = "ok" => Range(loaded) = Manifested
    /\ load = "failed" => Range(loaded) # Manifested
==========================================================================
