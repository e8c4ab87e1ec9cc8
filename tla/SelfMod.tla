------------------------------ MODULE SelfMod ------------------------------
(* LocalSelfMod of crates/ma-harness-self-modification/src/lib.rs: enable   *)
(* and disable load cordis.yml, change one plugin, save the whole file and  *)
(* note it in the audit log, with no lock over the four steps.  A document  *)
(* is the enabled flags of the plugins 1..n, in the order of the file.      *)
EXTENDS SettingsFile, Sequences

CONSTANTS Unlisted      \* a plugin name the file does not have

ASSUME UnlistedAssumption == Unlisted \notin Chunk

VARIABLES modCall,      \* [Saver -> [op, name, stage, config, result]]
          audit,        \* Seq of [op, name, success, changed, by], in memory
          start         \* history: what the file held when the process started

modVars == <<target, tmp, oldTarget, inode, saver, rivals, modCall, audit, start>>

IdleModCall == [op |-> "none", name |-> Unlisted, stage |-> "idle", config |-> Nothing,
                result |-> "none"]

CallsInit ==
    /\ modCall = [c \in Saver |-> IdleModCall]
    /\ audit = << >> /\ start = Content
SelfModInit == FileInit([Chunk -> BOOLEAN]) /\ CallsInit

Busy(c) == modCall[c].stage \in {"load", "change", "save", "note"}

BeginCall(c) ==
    /\ modCall[c].stage = "idle"
    /\ \E op \in {"enable", "disable", "inspect"}, n \in Chunk \cup {Unlisted} :
          modCall' = [modCall EXCEPT ![c] = [IdleModCall EXCEPT !.op = op, !.name = n,
                                                                !.stage = "load"]]
    /\ MarkRivals(c, {d \in Saver : Busy(d)})
    /\ UNCHANGED <<target, tmp, oldTarget, inode, saver, audit, start>>

Returns(c, result) == modCall' = [modCall EXCEPT ![c].stage = "over", ![c].result = result]

\* A prefix of the file is a document with fewer plugins; a gap or an empty
\* file is not a CordisConfig.
Parses(d) == d[1] # Blank /\ \A i, j \in Chunk : i < j /\ d[j] # Blank => d[i] # Blank

\* load_config and the read of inspect; a missing file is an empty list.  An
\* error returns at once, nothing is noted (inspect notes an unreadable file).
LoadConfig(c) ==
    /\ modCall[c].stage = "load"
    /\ IF target = 0 \/ Parses(Content)
       THEN modCall' = [modCall EXCEPT ![c].config = Content,
                              ![c].stage = IF modCall[c].op = "inspect" THEN "note" ELSE "change"]
       ELSE Returns(c, "parse error")
    /\ UNCHANGED <<fileVars, audit, start>>

Wanted(c) == modCall[c].op = "enable"
Knows(c) == modCall[c].name \in Chunk /\ modCall[c].config[modCall[c].name] # Blank

SetEnabled(c) == [modCall[c].config EXCEPT ![modCall[c].name] = Wanted(c)]

\* CordisConfig::enable and disable: not found, nothing to do, or a change to save.
ChangeConfig(c) ==
    /\ modCall[c].stage = "change"
    /\ IF Knows(c) /\ modCall[c].config[modCall[c].name] # Wanted(c)
       THEN /\ modCall' = [modCall EXCEPT ![c].stage = "save", ![c].result = "changed"]
            /\ BeginSave(c, SetEnabled(c))
       ELSE /\ modCall' = [modCall EXCEPT ![c].stage = "note",
                                 ![c].result = IF Knows(c) THEN "unchanged" ELSE "not found"]
            /\ UNCHANGED saver
    /\ UNCHANGED <<target, tmp, oldTarget, inode, rivals, audit, start>>

SaveConfig(c) ==
    /\ modCall[c].stage = "save" /\ SaveStep(c)
    /\ UNCHANGED <<modCall, audit, start>>

\* An error returns at once, without an entry.
SaveReturns(c) ==
    /\ modCall[c].stage = "save"
    /\ \/ saver[c].stage = "saved" /\ modCall' = [modCall EXCEPT ![c].stage = "note"]
       \/ saver[c].stage = "failed" /\ Returns(c, "io error")
    /\ UNCHANGED <<fileVars, audit, start>>

\* append_audit, under its own lock.
NoteAudit(c) ==
    /\ modCall[c].stage = "note"
    /\ audit' = Append(audit, [op |-> modCall[c].op, name |-> modCall[c].name, by |-> c,
                               success |-> modCall[c].result # "not found",
                               changed |-> modCall[c].result = "changed"])
    /\ Returns(c, modCall[c].result)
    /\ UNCHANGED <<fileVars, start>>

\* A new process starts with the file as it is and an empty log.
SelfModCrash(power) ==
    /\ FileCrash(power)
    /\ modCall' = [c \in Saver |-> IF modCall[c].stage = "idle" THEN modCall[c]
                                   ELSE [modCall[c] EXCEPT !.stage = "gone"]]
    /\ audit' = << >>
    /\ start' = IF target' = 0 THEN Nothing ELSE inode'[target'].data

SelfModNext ==
    \/ \E c \in Saver : \/ BeginCall(c) \/ LoadConfig(c) \/ ChangeConfig(c)
                        \/ SaveConfig(c) \/ SaveReturns(c) \/ NoteAudit(c)
    \/ \E p \in BOOLEAN : SelfModCrash(p)

--------------------------------------------------------------------------
\* The flags after all changes of the log: of each plugin its last one.
Changes(n) == {k \in DOMAIN audit : audit[k].changed /\ audit[k].name = n}
Replayed ==
    [n \in Chunk |-> IF Changes(n) = {} THEN start[n]
                     ELSE audit[CHOOSE k \in Changes(n) : \A j \in Changes(n) : j <= k].op = "enable"]

\* The file has the change and the log has not.
Unnoted(c) == \/ modCall[c].stage = "save" /\ saver[c].stage = "saved"
              \/ modCall[c].stage = "note"

\* While no two calls overlapped the log tells what the file holds: replaying
\* its changes over what this process found gives the file, whatever failed
\* and wherever a crash came; and whichever did overlap, a change that nobody
\* overlapped is undone only by a later call (lib.rs:369-480).
AuditTellsTheFile ==
    /\ (\A c \in Saver : rivals[c] = {} /\ ~ Unnoted(c)) => Content = Replayed
    /\ \A i \in DOMAIN audit :
          LET e == audit[i]
          IN  e.changed /\ rivals[e.by] = {} /\ Content[e.name] # Blank =>
                 \/ Content[e.name] = (e.op = "enable")
                 \/ \E c \in Saver \ {e.by} : modCall[c].name = e.name
===========================================================================
