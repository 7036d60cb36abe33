----------------------------- MODULE ModelCache -----------------------------
(***************************************************************************)
(* The local model cache (apps/cli/src/model.rs): the model files, one     *)
(* manifest per model, and the active model the configuration names.       *)
(*                                                                         *)
(* A command runs in a CLI process that may be killed between any two of   *)
(* its steps.  It downloads, lists the manifests, computes the new ones,   *)
(* writes them one at a time, deletes the stale ones and saves the         *)
(* configuration.  Models are numbers, so that the order of their names is *)
(* the order of numbers.                                                   *)
(***************************************************************************)
EXTENDS Integers, FiniteSets

CONSTANTS
    Models,      \* the names of the models, positive integers
    Official,    \* the models the catalogue offers as a GGUF file
    Hub,         \* the models a hub serves to MLX and vLLM: no file is cached
    Kinds,       \* the commands the user may run
    MaxOps,      \* bound: commands run
    MaxFaults    \* bound: killed commands and deleted source files

ASSUME CacheAssumption ==
    /\ Models \subseteq Nat \ {0}
    /\ Official \subseteq Models /\ Hub \subseteq Models
    /\ Kinds \subseteq {"add", "use", "import", "remove", "prune", "install", "start"}
    /\ MaxOps \in Nat /\ MaxFaults \in Nat

VARIABLES
    files,       \* files[m]: where m's file is; "damaged" if it is not m's
    partial,     \* partial[m]: what the .downloading file of m holds
    manifest,    \* the manifests on disk; their domain is the models that have one
    active,      \* active_model of the saved configuration, 0 for none
    op,          \* the command in progress
    ops,         \* commands run
    faults       \* faults that happened

cacheVars == <<files, partial, manifest, active, op, ops, faults>>

none == 0
noRecords == [m \in {} |-> 0]
blank == [active |-> FALSE, source |-> FALSE, rejected |-> FALSE, readable |-> TRUE]
resting == [kind |-> "idle", name |-> none, flag |-> FALSE, step |-> "idle",
            old |-> noRecords, \* the list of records the command has read
            new |-> noRecords, \* what it makes of the list
            left |-> {},       \* the records of it not yet written
            active |-> none,
            setup |-> "none",  \* the setup the command belongs to
            torn |-> FALSE]    \* a command was killed since the last that completed

\* The command ends before it saves.
Exits == [resting EXCEPT !.torn = op.torn]

\* A cache with a model of the catalogue in use, or an empty one.
CacheInit ==
    /\ \E had \in Official \cup {none} :
          /\ files = [m \in Models |-> IF m = had THEN {"managed"} ELSE {}]
          /\ manifest = [m \in {had} \ {none} |-> [blank EXCEPT !.active = TRUE]]
          /\ active = had
    /\ partial = [m \in Models |-> "none"]
    /\ op = resting /\ ops = 0 /\ faults = 0

-----------------------------------------------------------------------------
(* Reading the cache.                                                      *)

\* The readable manifests.
list_models == [m \in {n \in DOMAIN manifest : manifest[n].readable} |-> manifest[m]]

\* Its order: the active one first, then by name.
ByName(list, a, b) == a < b

ActiveFirst(list, a, b) ==
    IF list[a].active = list[b].active THEN a < b ELSE list[a].active

\* The order of the records a command makes of the list: a new one is last.
Precedes(list, a, b) ==
    IF {a, b} \subseteq DOMAIN list THEN ActiveFirst(list, a, b) ELSE a \in DOMAIN list

FirstActive(list, new) ==
    LET on == {m \in DOMAIN new : new[m].active}
    IN  IF on = {} THEN none
        ELSE CHOOSE m \in on : \A n \in on \ {m} : Precedes(list, m, n)

active_model_name ==
    IF active # none THEN active ELSE FirstActive(list_models, list_models)

cached_model_path(m) ==
    \/ "managed" \in files[m]
    \/ /\ m \in DOMAIN manifest /\ manifest[m].readable
       /\ manifest[m].source /\ "imported" \in files[m]

-----------------------------------------------------------------------------
(* What a command does to the list of records it has read.                 *)

Record(mans, m) == IF m \in DOMAIN mans THEN mans[m] ELSE blank

upsert_model(mans, name, use) ==
    [m \in DOMAIN mans \cup {name} |->
        IF m = name THEN [Record(mans, m) EXCEPT !.active = use \/ @]
        ELSE [mans[m] EXCEPT !.active = ~use /\ @]]

upsert_imported_model(mans, name, use, rejected) ==
    LET on == use /\ ~rejected
    IN  [m \in DOMAIN mans \cup {name} |->
            IF m = name
            THEN [Record(mans, m) EXCEPT !.active = ~rejected /\ (on \/ @),
                                         !.source = TRUE, !.rejected = rejected]
            ELSE [mans[m] EXCEPT !.active = ~on /\ @]]

Without(mans, gone) == [m \in DOMAIN mans \ gone |-> mans[m]]

\* sync_config_models, and the writing that follows.
Writes(new) ==
    op' = [op EXCEPT !.step = "write", !.old = list_models, !.new = new, !.left = DOMAIN new,
                     !.active = FirstActive(list_models, new)]

-----------------------------------------------------------------------------
(* The commands.                                                           *)

\* A model of the catalogue, or a file to import.
prompt_model_selection == ({"use"} \X (Official \cup Hub)) \cup ({"import"} \X Models)

Begins ==
    /\ op.kind = "idle" /\ ops < MaxOps
    /\ \E kind \in Kinds \ {"install", "start"}, m \in Models, flag \in BOOLEAN :
          \* flag: import --activate, remove --force
          /\ kind \in {"add", "use", "prune"} => ~flag
          /\ op' = [Exits EXCEPT !.kind = kind, !.name = m, !.flag = flag,
                                 !.step = IF kind \in {"add", "use"} THEN "fit"
                                          ELSE "records"]
    /\ ops' = ops + 1
    /\ UNCHANGED <<files, partial, manifest, active, faults>>

\* install and start.  With a model in use, start refreshes it and install keeps it;
\* without one the user picks a model of the menu or imports a file, unless the
\* node contributes a cluster.
SetsUp ==
    /\ op.kind = "idle" /\ ops < MaxOps
    /\ \E setup \in Kinds \cap {"install", "start"} :
          \/ /\ active_model_name # none /\ setup = "start"
             /\ op' = [Exits EXCEPT !.kind = "use", !.name = active_model_name,
                                    !.step = "fit", !.setup = "refresh"]
          \/ /\ active_model_name = none \/ setup = "install"
             /\ op' = [Exits EXCEPT !.kind = setup, !.step = "save", !.active = active]
          \/ /\ active_model_name = none
             /\ \E choice \in prompt_model_selection :
                   op' = [Exits EXCEPT !.kind = choice[1], !.name = choice[2],
                                       !.flag = choice[1] = "import",
                                       !.step = IF choice[1] = "use" THEN "fit" ELSE "records",
                                       !.setup = setup]
    /\ ops' = ops + 1
    /\ UNCHANGED <<files, partial, manifest, active, faults>>

\* A catalogue model this machine cannot run or hold is refused.
ensure_catalog_model_fits ==
    /\ op.step = "fit"
    /\ \/ op' = [op EXCEPT !.step = IF op.setup = "none" THEN "prefetch" ELSE "download"]
       \/ op.name \in Official \cup Hub /\ op' = Exits
    /\ UNCHANGED <<files, partial, manifest, active, ops, faults>>

\* A hub model is fetched into the hub's own cache, or the command ends.
Prefetches ==
    /\ op.step = "prefetch"
    /\ \/ op' = [op EXCEPT !.step = "download"]
       \/ op.name \in Hub /\ op' = Exits
    /\ UNCHANGED <<files, partial, manifest, active, ops, faults>>

DownloadsInPlace ==
    /\ op.step = "download"
    /\ IF op.name \notin Official \/ files[op.name] \cap {"managed", "damaged"} # {}
       THEN op' = [op EXCEPT !.step = "records"] /\ UNCHANGED <<files, partial>>
       ELSE \E got \in {"whole", "damaged"} :
               /\ files' = [files EXCEPT ![op.name] = @ \cup
                               {IF got = "whole" THEN "managed" ELSE "damaged"}]
               /\ op' = [op EXCEPT !.step = "records"]
               /\ UNCHANGED partial
    /\ UNCHANGED <<manifest, active, ops, faults>>

\* An earlier .downloading file is removed; a failed download removes its own.
Downloads ==
    /\ op.step = "download"
    /\ IF op.name \notin Official \/ "managed" \in files[op.name]
       THEN op' = [op EXCEPT !.step = "records"] /\ UNCHANGED partial
       ELSE \/ \E got \in {"whole", "damaged"} :
                  /\ partial' = [partial EXCEPT ![op.name] = got]
                  /\ op' = [op EXCEPT !.step = "verify"]
            \/ /\ partial' = [partial EXCEPT ![op.name] = "none"]
               /\ op' = Exits
    /\ UNCHANGED <<files, manifest, active, ops, faults>>

\* A checksum that differs ends the command and leaves the file.  Every model of
\* the catalogue has one: without it a remote model is refused before it is
\* downloaded, and only the copy of a file:// source would go unchecked.
Verifies ==
    /\ op.step = "verify"
    /\ op' = IF partial[op.name] = "whole" THEN [op EXCEPT !.step = "rename"] ELSE Exits
    /\ UNCHANGED <<files, partial, manifest, active, ops, faults>>

Renames ==
    /\ op.step = "rename"
    /\ files' = [files EXCEPT ![op.name] = @ \cup
                    {IF partial[op.name] = "whole" THEN "managed" ELSE "damaged"}]
    /\ partial' = [partial EXCEPT ![op.name] = "none"]
    /\ op' = [op EXCEPT !.step = "records"]
    /\ UNCHANGED <<manifest, active, ops, faults>>

add_model ==
    /\ op.step = "records" /\ op.kind = "add"
    /\ Writes(upsert_model(list_models, op.name, FALSE))
    /\ UNCHANGED <<files, partial, manifest, active, ops, faults>>

use_model ==
    /\ op.step = "records" /\ op.kind = "use"
    /\ IF cached_model_path(op.name) \/ op.name \in Hub
       THEN Writes(upsert_model(list_models, op.name, TRUE))
       ELSE op' = Exits
    /\ UNCHANGED <<files, partial, manifest, active, ops, faults>>

\* The user's file is there, or the command is refused; compatibility_for may reject it.
import_model ==
    /\ op.step = "records" /\ op.kind = "import"
    /\ \/ \E rejected \in BOOLEAN :
             /\ files' = [files EXCEPT ![op.name] = @ \cup {"imported"}]
             /\ Writes(upsert_imported_model(list_models, op.name, op.flag, rejected))
       \/ op' = Exits /\ UNCHANGED files
    /\ UNCHANGED <<partial, manifest, active, ops, faults>>

\* With no other model left nothing is written: the manifest stays.
remove_model ==
    /\ op.step = "records" /\ op.kind = "remove"
    /\ LET new == Without(list_models, {op.name})
       IN  IF op.name \notin DOMAIN list_models \/ (list_models[op.name].active /\ ~op.flag)
           THEN op' = Exits /\ UNCHANGED files
           ELSE /\ files' = [files EXCEPT ![op.name] = @ \ {"managed", "damaged"}]
                /\ IF DOMAIN new = {}
                   THEN op' = [op EXCEPT !.step = "save", !.active = none]
                   ELSE Writes(new)
    /\ UNCHANGED <<partial, manifest, active, ops, faults>>

\* The directories it would remove are those of the records it keeps: none.
prune_models ==
    /\ op.step = "records" /\ op.kind = "prune"
    /\ LET new == Without(list_models, DOMAIN list_models \ {active_model_name})
       IN  IF DOMAIN new = {}
           THEN op' = [op EXCEPT !.step = "save", !.active = none]
           ELSE Writes(new)
    /\ UNCHANGED <<files, partial, manifest, active, ops, faults>>

\* The next record to be written.
IsNext(m) == m \in op.left /\ \A n \in op.left \ {m} : Precedes(op.old, m, n)

With(mans, m, record) ==
    [n \in DOMAIN mans \cup {m} |-> IF n = m THEN record ELSE mans[n]]

WritesRecord(m) ==
    /\ op.step = "write" /\ IsNext(m)
    /\ manifest' = With(manifest, m, op.new[m])
    /\ op' = [op EXCEPT !.left = @ \ {m}]

\* The manifests that are not of the list are deleted when the others are written.
DeletesStale(m) ==
    /\ op.step = "write" /\ op.left = {}
    /\ manifest' = Without(manifest, {m})
    /\ UNCHANGED op

write_models ==
    /\ \/ \E m \in op.left : WritesRecord(m)
       \/ \E m \in DOMAIN manifest \ DOMAIN op.new : DeletesStale(m)
       \/ /\ op.step = "write" /\ op.left = {} /\ DOMAIN manifest \subseteq DOMAIN op.new
          /\ op' = [op EXCEPT !.step = IF op.setup = "none" THEN "save" ELSE "applied",
                              !.old = noRecords]
          /\ UNCHANGED manifest
    /\ UNCHANGED <<files, partial, active, ops, faults>>

\* The choice of a setup is on disk.  A file that was rejected ends the command;
\* start goes on to refresh the model that is now in use.
apply_model_choice ==
    /\ op.step = "applied"
    /\ op' = IF op.kind = "import" /\ op.new[op.name].rejected THEN Exits
             ELSE IF op.setup = "start"
             THEN [op EXCEPT !.kind = "use", !.name = op.active, !.flag = FALSE,
                             !.step = "fit", !.setup = "refresh"]
             ELSE [op EXCEPT !.step = "save"]
    /\ UNCHANGED <<files, partial, manifest, active, ops, faults>>

SavesUnsynced ==
    /\ op.step = "save" /\ op' = resting
    /\ UNCHANGED <<files, partial, manifest, active, ops, faults>>

\* A setup that chose no model has written no manifest.
Saves ==
    /\ op.step = "save"
    /\ active' = op.active
    /\ op' = IF op.kind \in {"install", "start"} THEN Exits ELSE resting
    /\ UNCHANGED <<files, partial, manifest, ops, faults>>

\* The process is killed; one that was writing a manifest leaves it unreadable.
Killed ==
    /\ op.kind # "idle" /\ faults < MaxFaults
    /\ op' = [resting EXCEPT !.torn = TRUE] /\ faults' = faults + 1
    /\ \/ UNCHANGED manifest
       \/ \E m \in op.left :
             /\ op.step = "write" /\ IsNext(m)
             /\ manifest' = With(manifest, m, [blank EXCEPT !.readable = FALSE])
    /\ UNCHANGED <<files, partial, active, ops>>

SourceDeleted ==
    /\ faults < MaxFaults
    /\ \E m \in Models : "imported" \in files[m] /\
          files' = [files EXCEPT ![m] = @ \ {"imported"}]
    /\ faults' = faults + 1
    /\ UNCHANGED <<partial, manifest, active, op, ops>>

CacheStep ==
    \/ Begins \/ SetsUp \/ ensure_catalog_model_fits \/ Prefetches \/ Downloads \/ Verifies \/ Renames
    \/ add_model \/ use_model \/ import_model \/ remove_model \/ prune_models
    \/ write_models \/ apply_model_choice \/ Saves \/ Killed \/ SourceDeleted

CacheSpec == CacheInit /\ [][CacheStep]_cacheVars

-----------------------------------------------------------------------------
(* Properties.                                                             *)

\* Whatever a killed command left behind, a file under a model's name in the
\* cache is the whole file of the catalogue: it is downloaded beside, verified
\* and only then renamed (download_model_from_option).
CachedIsWhole == \A m \in Models : "damaged" \notin files[m]

\* Even between two manifest writes, and whatever command was killed there, at
\* most one manifest says it is active: the worker, which scans the directory,
\* has one answer.  The manifests are written in the order of list_models, so
\* the one that loses the mark is written first (write_models).
AtMostOneActive ==
    Cardinality({m \in DOMAIN manifest : manifest[m].active}) <= 1

\* Between commands the model the configuration names is the one whose manifest is
\* active: the CLI, which reads the configuration, and the worker, which reads the
\* manifests, use the same model.  A killed command may part them; the next command
\* that writes the manifests and completes, such as the refresh of start, brings
\* them together again (sync_config_models).
SelectionAgrees ==
    op.kind = "idle" /\ ~op.torn /\ active # none =>
       /\ active \in DOMAIN manifest
       /\ \A m \in DOMAIN manifest : manifest[m].active <=> m = active

\* As long as no command was killed and no source file deleted, the file of the
\* model the configuration names is removed only by remove --force, although
\* remove_model looks at the manifests and not at the configuration.
ActiveNotDeleted ==
    [][\A m \in Models :
          "managed" \in files[m] \ files'[m] /\ active = m /\ faults = 0
             => op.kind = "remove" /\ op.flag]_cacheVars

\* What docs/model-lifecycle.md and docs/cli-commands.md say of remove ("remove a
\* cached model") and of prune ("remove inactive cached models"): when the command
\* has done its work, neither the manifest nor the cached file of a removed model
\* is left.
RemovalDeletes ==
    op.step = "save" =>
       \A m \in Models :
          \/ op.kind = "remove" /\ m = op.name
          \/ op.kind = "prune" /\ m # active_model_name
          => m \notin DOMAIN manifest /\ "managed" \notin files[m]
=============================================================================
