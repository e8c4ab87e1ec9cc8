--------------------------- MODULE SettingsFile ---------------------------
(* FileSettingsStore and SettingsWatcher of crates/ma-harness-settings/src/ *)
(* lib.rs: saves and loads of settings.yaml and the thread that reloads it  *)
(* after a change and hands the result to a callback.  A save is "write a   *)
(* temporary, sync, rename", as is save_cordis_atomic of crates/            *)
(* ma-harness-self-modification; the temporary has one fixed name, so two   *)
(* saves at once write the same file.                                       *)
EXTENDS Naturals, FiniteSets

CONSTANTS Saver,        \* saves, one per call that makes one
          Chunks,       \* how many parts a document is written in
          Blank         \* a part that is not there

ASSUME FileAssumption == Chunks \in Nat \ {0} /\ IsFiniteSet(Saver)

Chunk == 1..Chunks

VARIABLES target, tmp,   \* the inode each name has, 0 for none
          oldTarget,     \* the inode the directory on the disk has for the target
          inode,         \* [1..|Saver|+1 -> [data, durable : [Chunk -> a part or Blank]]]
          saver,         \* [Saver -> [stage, ino, at, doc]]
          rivals         \* history: [Saver -> saves or calls under way at the same time]

fileVars == <<target, tmp, oldTarget, inode, saver, rivals>>

Inode == 1..(Cardinality(Saver) + 1)
Nothing == [i \in Chunk |-> Blank]
NoFile == [data |-> Nothing, durable |-> Nothing]
IdleSaver == [stage |-> "idle", ino |-> 0, at |-> 1, doc |-> Nothing]

\* No file, or one with a document that is on the disk.
FileInit(docs) ==
    /\ tmp = 0 /\ target \in {0, 1} /\ oldTarget = target
    /\ IF target = 0 THEN inode = [i \in Inode |-> NoFile]
       ELSE \E d \in docs : inode = [[i \in Inode |-> NoFile] EXCEPT
                                        ![1] = [data |-> d, durable |-> d]]
    /\ saver = [s \in Saver |-> IdleSaver] /\ rivals = [s \in Saver |-> {}]

Saving(s) == saver[s].stage \in {"create", "write", "sync", "rename"}
Content == IF target = 0 THEN Nothing ELSE inode[target].data

\* Saves that begin while others are under way.
MarkRivals(s, others) ==
    rivals' = [r \in Saver |-> CASE r = s -> others
                                 [] r \in others -> rivals[r] \cup {s}
                                 [] OTHER -> rivals[r]]

BeginSave(s, d) == saver' = [saver EXCEPT ![s] = [IdleSaver EXCEPT !.stage = "create", !.doc = d]]

InUse(i) == i \in {target, tmp, oldTarget} \/ \E s \in Saver : Saving(s) /\ saver[s].ino = i
FreshInode == CHOOSE i \in Inode : ~ InUse(i)

\* File::create: the temporary is made, or truncated if it is there.
CreateTmp(s) ==
    /\ saver[s].stage = "create"
    /\ LET i == IF tmp = 0 THEN FreshInode ELSE tmp
       IN  /\ tmp' = i
           /\ inode' = [inode EXCEPT ![i].data = Nothing]
           /\ saver' = [saver EXCEPT ![s].stage = "write", ![s].ino = i]
    /\ UNCHANGED <<target, oldTarget, rivals>>

\* write_all, at the position of this save's own handle.
WriteChunk(s) ==
    /\ saver[s].stage = "write"
    /\ LET r == saver[s]
       IN  /\ inode' = [inode EXCEPT ![r.ino].data[r.at] = r.doc[r.at]]
           /\ saver' = [saver EXCEPT ![s].at = @ + 1,
                                     ![s].stage = IF r.at + 1 \in Chunk THEN @ ELSE "sync"]
    /\ UNCHANGED <<target, tmp, oldTarget, rivals>>

\* Faulty variant: renamed without having been synced.
SyncAllSkipped(s) ==
    /\ saver[s].stage = "sync"
    /\ saver' = [saver EXCEPT ![s].stage = "rename"]
    /\ UNCHANGED <<target, tmp, oldTarget, rivals, inode>>

SyncAll(s) ==
    /\ saver[s].stage = "sync"
    /\ inode' = [inode EXCEPT ![saver[s].ino].durable = inode[saver[s].ino].data]
    /\ saver' = [saver EXCEPT ![s].stage = "rename"]
    /\ UNCHANGED <<target, tmp, oldTarget, rivals>>

\* Whatever has the name of the temporary now gets the name of the file; when
\* another save took it away there is none, which is an error.
Rename(s) ==
    /\ saver[s].stage = "rename"
    /\ IF tmp = 0
       THEN saver' = [saver EXCEPT ![s].stage = "failed"] /\ UNCHANGED <<target, tmp>>
       ELSE /\ target' = tmp /\ tmp' = 0
            /\ saver' = [saver EXCEPT ![s].stage = "saved"]
    /\ UNCHANGED <<oldTarget, inode, rivals>>

\* Any of the calls reports an I/O error; nothing is cleaned up.
SaveFails(s) ==
    /\ Saving(s)
    /\ saver' = [saver EXCEPT ![s].stage = "failed"]
    /\ UNCHANGED <<target, tmp, oldTarget, inode, rivals>>

SaveStep(s) ==
    CreateTmp(s) \/ WriteChunk(s) \/ SyncAll(s) \/ Rename(s) \/ SaveFails(s)

\* The process ends, and with it its saves; the machine may go down too: then
\* what was not synced is lost, and the last rename with it or not.
FileCrash(power) ==
    /\ saver' = [s \in Saver |-> IF saver[s].stage = "idle" THEN saver[s]
                                 ELSE [saver[s] EXCEPT !.stage = "gone"]]
    /\ IF power
       THEN /\ target' \in {target, oldTarget} /\ oldTarget' = target'
            /\ inode' = [i \in Inode |-> [inode[i] EXCEPT !.data = inode[i].durable]]
       ELSE UNCHANGED <<target, oldTarget, inode>>
    /\ UNCHANGED <<tmp, rivals>>

---------------------------------------------------------------------------
(* The watcher.                                                            *)

CONSTANTS Edit,         \* contents that somebody else writes over the file
          ReadsReported \* values it may have: reading the file is reported as a change

VARIABLES watcher,      \* [stage, pending, dirty, loaded, reports]
          delivered,    \* what the callback was last called with, or NotYet
          changed,      \* history: the file changed since it is watched
          handEdited    \* history: the edits made

settingsVars == <<target, tmp, oldTarget, inode, saver, rivals,
                  watcher, delivered, changed, handEdited>>

SavedAs(s) == [i \in Chunk |-> s]
NotYet == SavedAs("not yet")
Unparseable == SavedAs("unparseable")

WatcherInit ==
    /\ watcher \in {[stage |-> "off", pending |-> FALSE, dirty |-> FALSE, loaded |-> NotYet,
                     reports |-> r] : r \in ReadsReported}
    /\ delivered = NotYet /\ changed = FALSE /\ handEdited = {}
SettingsInit == FileInit({SavedAs("old")}) /\ WatcherInit

\* Whether a step is one the watch of the parent directory reports for the file.
TargetChanged ==
    \/ target' # target
    \/ target # 0 /\ inode'[target].data # inode[target].data

Watching == watcher.stage \notin {"off", "ended", "stopping"}

\* notify's handler: the name is compared, the event is dropped if the
\* receiver is gone.
Reports ==
    IF Watching /\ TargetChanged
    THEN watcher' = [watcher EXCEPT !.pending = TRUE] /\ changed' = TRUE
    ELSE UNCHANGED <<watcher, changed>>

Save(s) ==
    /\ saver[s].stage = "idle"
    /\ BeginSave(s, SavedAs(s)) /\ MarkRivals(s, {r \in Saver : Saving(r)})
    /\ UNCHANGED <<target, tmp, oldTarget, inode, watcher, delivered, changed, handEdited>>

SettingsSaveStep(s) ==
    SaveStep(s) /\ Reports /\ UNCHANGED <<delivered, handEdited>>

\* An editor that writes the file in place; the content need not be YAML.
EditInPlace(e) ==
    /\ e \notin handEdited /\ target # 0
    /\ inode' = [inode EXCEPT ![target] = [data |-> SavedAs(e), durable |-> SavedAs(e)]]
    /\ handEdited' = handEdited \cup {e}
    /\ UNCHANGED <<target, tmp, oldTarget, saver, rivals, delivered>>
    /\ Reports

\* What load makes of the file, by from_yaml: a document, a part of one that
\* may or may not be YAML, or nothing, which is empty settings.  Edits are no
\* YAML, which is an error.
Parsed ==
    CASE Content = Nothing -> {Nothing}
      [] \E i \in Chunk : Content[i] \in Edit -> {Unparseable}
      [] \E i \in Chunk : Content[i] = Blank -> {Content, Unparseable}
      [] OTHER -> {Content}

--------------------------------------------------------------------------
(* The watcher.                                                            *)

StartWatcher ==
    /\ watcher.stage = "off"
    /\ watcher' = [watcher EXCEPT !.stage = "waiting"]
    /\ UNCHANGED <<fileVars, delivered, changed, handEdited>>

\* recv_timeout gives an event: the quiet time starts anew.
RecvEvent ==
    /\ watcher.stage \in {"waiting", "stopping"} /\ watcher.pending
    /\ watcher' = [watcher EXCEPT !.pending = FALSE, !.dirty = TRUE]
    /\ UNCHANGED <<fileVars, delivered, changed, handEdited>>

\* It times out with a change noted: load_for_watcher, where an error is empty
\* settings.  Where reads are reported the load itself is the next event.
Reload ==
    /\ watcher.stage = "waiting" /\ watcher.dirty /\ ~ watcher.pending
    /\ \E s \in Parsed :
          watcher' = [watcher EXCEPT !.stage = "calling", !.pending = watcher.reports,
                                     !.loaded = IF s = Unparseable THEN Nothing ELSE s]
    /\ UNCHANGED <<fileVars, delivered, changed, handEdited>>

CallbackReturns ==
    /\ watcher.stage \in {"calling", "stopping_call"}
    /\ delivered' = watcher.loaded
    /\ watcher' = [watcher EXCEPT !.dirty = FALSE, !.loaded = NotYet,
                                  !.stage = IF @ = "calling" THEN "waiting" ELSE "stopping"]
    /\ UNCHANGED <<fileVars, changed, handEdited>>

\* Drop: the sender goes with the watch; then the thread is joined.
DropWatcher ==
    /\ watcher.stage \in {"waiting", "calling"}
    /\ watcher' = [watcher EXCEPT !.stage = IF @ = "calling" THEN "stopping_call" ELSE "stopping"]
    /\ UNCHANGED <<fileVars, delivered, changed, handEdited>>

\* Disconnected, once the events are read; a change noted is not reloaded.
WatcherEnds ==
    /\ watcher.stage = "stopping" /\ ~ watcher.pending
    /\ watcher' = [watcher EXCEPT !.stage = "ended"]
    /\ UNCHANGED <<fileVars, delivered, changed, handEdited>>

SettingsCrash(power) ==
    /\ FileCrash(power)
    /\ watcher' = [watcher EXCEPT !.stage = "ended", !.pending = FALSE, !.dirty = FALSE,
                                  !.loaded = NotYet]
    /\ UNCHANGED <<delivered, changed, handEdited>>

WatcherStep == RecvEvent \/ Reload \/ CallbackReturns \/ WatcherEnds

SettingsNext ==
    \/ \E s \in Saver : Save(s) \/ SettingsSaveStep(s)
    \/ \E e \in Edit : EditInPlace(e)
    \/ StartWatcher \/ WatcherStep \/ DropWatcher
    \/ \E p \in BOOLEAN : SettingsCrash(p)

\* The watcher's thread keeps running; nothing else has to happen.
SettingsFairness == WF_settingsVars(WatcherStep)

--------------------------------------------------------------------------
\* Settings are replaced as a whole: whatever the file, a load or the callback
\* shows is one save, one edit or no file, wherever a crash or a loss of power
\* comes, unless two saves overlapped (the temporary's name is fixed,
\* lib.rs:731-763).
SettingsAreOneSave ==
    (\A s \in Saver : rivals[s] = {}) =>
        /\ target # 0 => \E who \in Saver \cup Edit \cup {"old"} : Content = SavedAs(who)
        /\ \A d \in (Parsed \cup {delivered, watcher.loaded}) \ {NotYet, Unparseable, Nothing} :
              \E who \in Saver \cup {"old"} : d = SavedAs(who)

\* However saves, reloads and the callback interleave, the last content of the
\* file, or empty settings where it does not parse, is what the callback ends
\* up with, unless the watcher is dropped, which then ends (lib.rs:1137-1236).
LastChangeIsDelivered ==
    []<>(\/ watcher.stage \in {"off", "ended"}
         \/ /\ watcher.stage \in {"waiting", "calling"}
            /\ \/ ~ changed
               \/ delivered \in {IF s = Unparseable THEN Nothing ELSE s : s \in Parsed})
===========================================================================
