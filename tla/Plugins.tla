------------------------------ MODULE Plugins ------------------------------
(***************************************************************************)
(* The plugin installer of vad/control_plane/plugins.py over the config    *)
(* files of a user: apply, uninstall and rollback of a reviewed dry run,   *)
(* the `.vad-backup` files they leave, and the plugin_inventory row that   *)
(* the caller saves after each of them.  The user may edit or delete the   *)
(* files at any time, also between the hash check of a cleanup and the      *)
(* change it makes, and the process may die between two file operations.   *)
(***************************************************************************)
EXTENDS Integers, Sequences

CONSTANTS
  File,          \* config files
  UserContent,   \* what the user may write into them
  Version,       \* versions of the plugin
  ConfigPaths,   \* [Version -> Seq(File)]: config_paths of the manifest
  Project,       \* the versions whose manifest has a project-scoped path
  Config(_),     \* the config a version writes
  Absent, Torn, None,
  MaxOps,        \* bound on operations started
  MaxEdits       \* bound on edits by the user

Configs == {Config(v) : v \in Version}
Content == UserContent \cup Configs \cup {Torn}

ASSUME PluginAssumption ==
  /\ ConfigPaths \in [Version -> Seq(File)]
  /\ \A v \in Version : Len(ConfigPaths[v]) > 0
  /\ Absent \notin Content /\ Torn \notin UserContent \cup Configs
  /\ UserContent \cap Configs = {} /\ None \notin Content
  /\ Project \subseteq Version
  /\ MaxOps \in Nat /\ MaxEdits \in Nat

VARIABLES
  target,     \* [File -> Content \cup {Absent}]
  backup,     \* the .vad-backup of each file
  inventory,  \* the plugin_inventory row, or None
  phase, op,  \* the operation that runs
  ops, edits,
  before,     \* history: what the last apply found in each file
  lastUser,   \* history: what the user last wrote there, None if deleted
  raced,      \* history: files last edited between a backup and the write,
              \*          or between a hash check and the change
  doubt       \* history: an operation broke off and none has completed since

vars == <<target, backup, inventory, phase, op, ops, edits, before, lastUser, raced, doubt>>

(* A hash stands for the content it was computed from.                       *)
Hashes == [File -> Content \cup {None}]
Inventory == [version : Version, hashes : Hashes,
              uninstall : {"available", "uninstalled"},
              rollback : {"ready", "rolled_back"},
              dashboard : {"installed", "available"}]
Operation == [kind : {"apply", "uninstall", "rollback"}, version : Version, next : Nat,
              hashes : Hashes, loaded : Inventory \cup {None},
              touched : SUBSET File, found : [File -> Content \cup {Absent}]]

TypeOK ==
  /\ target \in [File -> Content \cup {Absent}]
  /\ backup \in [File -> Content \cup {Absent}]
  /\ inventory \in Inventory \cup {None}
  /\ phase \in {"idle", "copy", "write", "check", "restore", "unlink", "save"}
  /\ op \in Operation \cup {None}
  /\ ops \in 0..MaxOps /\ edits \in 0..MaxEdits
  /\ before \in [File -> Content \cup {Absent}]
  /\ lastUser \in [File -> UserContent \cup {None}]
  /\ raced \subseteq File /\ doubt \in BOOLEAN

Init ==
  /\ target \in [File -> UserContent \cup {Absent}]
  /\ backup = [f \in File |-> Absent]
  /\ inventory = None
  /\ phase = "idle" /\ op = None
  /\ ops = 0 /\ edits = 0
  /\ before = target
  /\ lastUser = [f \in File |-> IF target[f] = Absent THEN None ELSE target[f]]
  /\ raced = {} /\ doubt = FALSE

-----------------------------------------------------------------------------
Paths(v) == ConfigPaths[v]
Current == Paths(op.version)[op.next]
Last == op.next = Len(Paths(op.version))
NoHashes == [f \in File |-> None]

(* create_plugin_installer_dry_run refuses project-scoped paths.             *)
Plannable(v) == v \notin Project

(* An operation needs an approval reference that is not blank.               *)
Begin(kind, v, loaded, approved, first) ==
  /\ phase = "idle" /\ ops < MaxOps
  /\ Plannable(v) /\ approved
  /\ ops' = ops + 1
  /\ phase' = first
  /\ op' = [kind |-> kind, version |-> v, next |-> 1, hashes |-> NoHashes,
            loaded |-> loaded, touched |-> {}, found |-> target]
  /\ UNCHANGED <<target, backup, inventory, edits, before, lastUser, raced, doubt>>

BeginApply(v, approved) == Begin("apply", v, None, approved, "copy")

InventoryMatchesPlan(v) == inventory # None /\ inventory.version = v

BeginUninstall(v, approved) ==
  /\ InventoryMatchesPlan(v)
  /\ Begin("uninstall", v, inventory, approved, "check")

BeginRollback(v, approved) ==
  /\ InventoryMatchesPlan(v)
  /\ Begin("rollback", v, inventory, approved, "check")

-----------------------------------------------------------------------------
(* Apply: per file, the backup of what is there, then the new config *)

(* Mutant: a backup that is there is kept.                                   *)
Copy_KeepsOldBackup ==
  /\ phase = "copy"
  /\ backup' = IF target[Current] = Absent \/ backup[Current] # Absent THEN backup
               ELSE [backup EXCEPT ![Current] = target[Current]]
  /\ before' = [before EXCEPT ![Current] = target[Current]]
  /\ phase' = "write"
  /\ UNCHANGED <<target, inventory, op, ops, edits, lastUser, raced, doubt>>

Copy ==
  /\ phase = "copy"
  /\ backup' = IF target[Current] = Absent THEN backup
               ELSE [backup EXCEPT ![Current] = target[Current]]
  /\ before' = [before EXCEPT ![Current] = target[Current]]
  /\ phase' = "write"
  /\ UNCHANGED <<target, inventory, op, ops, edits, lastUser, raced, doubt>>

Write ==
  /\ phase = "write"
  /\ target' = [target EXCEPT ![Current] = Config(op.version)]
  /\ op' = [op EXCEPT !.hashes[Current] = Config(op.version), !.next = @ + 1,
                      !.touched = @ \cup {Current}]
  /\ phase' = IF Last THEN "save" ELSE "copy"
  /\ UNCHANGED <<backup, inventory, ops, edits, before, lastUser, raced, doubt>>

-----------------------------------------------------------------------------
(* Uninstall and rollback: per file, the hash check, then the change *)

Expected == op.loaded.hashes[Current]
MissingHash == Expected = None
Drifted == target[Current] # Absent /\ target[Current] # Expected
Blocked == MissingHash \/ Drifted

(* The loop goes on to the next file once the files in changed have been     *)
(* written or removed for this one.                                          *)
FileDone(changed) ==
  /\ op' = [op EXCEPT !.next = @ + 1, !.touched = @ \cup changed]
  /\ phase' = IF Last THEN "save" ELSE "check"

(* The hash is compared.  Nothing holds the file from here to its change.    *)
Check ==
  /\ phase = "check" /\ ~Blocked
  /\ \/ op.kind = "uninstall" /\ target[Current] = Absent /\ FileDone({})
     \/ op.kind = "uninstall" /\ target[Current] # Absent /\ phase' = "unlink" /\ UNCHANGED op
     \/ op.kind = "rollback" /\ phase' = "restore" /\ UNCHANGED op
  /\ UNCHANGED <<target, backup, inventory, ops, edits, before, lastUser, raced, doubt>>

(* Mutant: a rollback removes the config and restores nothing.               *)
Restore_Removes ==
  /\ phase = "restore"
  /\ target' = [target EXCEPT ![Current] = Absent] /\ FileDone({Current})
  /\ UNCHANGED <<backup, inventory, ops, edits, before, lastUser, raced, doubt>>

(* The backup is copied back where there is one; it is not deleted.          *)
Restore ==
  /\ phase = "restore"
  /\ \/ /\ backup[Current] # Absent
        /\ target' = [target EXCEPT ![Current] = backup[Current]] /\ FileDone({Current})
     \/ backup[Current] = Absent /\ target[Current] = Absent /\ FileDone({}) /\ UNCHANGED target
     \/ /\ backup[Current] = Absent /\ target[Current] # Absent
        /\ phase' = "unlink" /\ UNCHANGED <<op, target>>
  /\ UNCHANGED <<backup, inventory, ops, edits, before, lastUser, raced, doubt>>

(* Mutant: the operation ends after the first file.                          *)
Unlink_FirstOnly ==
  /\ phase = "unlink" /\ target[Current] # Absent
  /\ target' = [target EXCEPT ![Current] = Absent]
  /\ op' = [op EXCEPT !.next = @ + 1, !.touched = @ \cup {Current}]
  /\ phase' = "save"
  /\ UNCHANGED <<backup, inventory, ops, edits, before, lastUser, raced, doubt>>

Unlink ==
  /\ phase = "unlink" /\ target[Current] # Absent
  /\ target' = [target EXCEPT ![Current] = Absent] /\ FileDone({Current})
  /\ UNCHANGED <<backup, inventory, ops, edits, before, lastUser, raced, doubt>>

(* A missing hash, a drifted file, or a file that is gone by the time it is  *)
(* unlinked ends the operation with an error; the files before it have been  *)
(* changed and no inventory is returned.                                     *)
CleanFails ==
  /\ \/ phase = "check" /\ Blocked
     \/ phase = "unlink" /\ target[Current] = Absent
  /\ phase' = "idle" /\ op' = None
  /\ doubt' = (doubt \/ op.next > 1)
  /\ UNCHANGED <<target, backup, inventory, ops, edits, before, lastUser, raced>>

-----------------------------------------------------------------------------
(* The inventory that an operation returns, and saving it *)

(* Mutant: the uninstall status goes into the dashboard status as well.      *)
Returned_SwapsStatus ==
  CASE op.kind = "apply" ->
         [version |-> op.version, hashes |-> op.hashes, uninstall |-> "available",
          rollback |-> "ready", dashboard |-> "installed"]
    [] OTHER ->
         [op.loaded EXCEPT !.hashes = NoHashes, !.uninstall = "uninstalled",
                           !.dashboard = "uninstalled"]

Returned ==
  CASE op.kind = "apply" ->
         [version |-> op.version, hashes |-> op.hashes, uninstall |-> "available",
          rollback |-> "ready", dashboard |-> "installed"]
    [] op.kind = "uninstall" ->
         [op.loaded EXCEPT !.hashes = NoHashes, !.uninstall = "uninstalled",
                           !.dashboard = "available"]
    [] op.kind = "rollback" ->
         [op.loaded EXCEPT !.hashes = NoHashes, !.rollback = "rolled_back",
                           !.dashboard = "available"]

Save ==
  /\ phase = "save"
  /\ inventory' = Returned
  /\ phase' = "idle" /\ op' = None
  /\ doubt' = FALSE
  /\ UNCHANGED <<target, backup, ops, edits, before, lastUser, raced>>

-----------------------------------------------------------------------------
(* The process dies, or a file operation raises (a file removed between its  *)
(* exists() and its reading, a full disk); the file being written may be     *)
(* left truncated.                                                           *)
Crash ==
  /\ phase # "idle"
  /\ \/ UNCHANGED <<target, backup>>
     \/ phase = "copy" /\ target[Current] # Absent
        /\ backup' = [backup EXCEPT ![Current] = Torn] /\ UNCHANGED target
     \/ /\ phase = "write" \/ (phase = "restore" /\ backup[Current] # Absent)
        /\ target' = [target EXCEPT ![Current] = Torn] /\ UNCHANGED backup
  /\ phase' = "idle" /\ op' = None
  /\ doubt' = TRUE
  /\ UNCHANGED <<inventory, ops, edits, before, lastUser, raced>>

(* The file has been backed up or compared, and is about to be changed.      *)
Looked == {"write", "restore", "unlink"}

UserEdit(f, c) ==
  /\ edits < MaxEdits /\ target[f] # c
  /\ edits' = edits + 1
  /\ target' = [target EXCEPT ![f] = c]
  /\ lastUser' = [lastUser EXCEPT ![f] = IF c = Absent THEN None ELSE c]
  /\ raced' = IF phase \in Looked /\ f = Current THEN raced \cup {f} ELSE raced \ {f}
  /\ UNCHANGED <<backup, inventory, phase, op, ops, before, doubt>>

Next ==
  \/ \E v \in Version, approved \in BOOLEAN :
       BeginApply(v, approved) \/ BeginUninstall(v, approved) \/ BeginRollback(v, approved)
  \/ Copy \/ Write \/ Check \/ Restore \/ Unlink \/ CleanFails \/ Save \/ Crash
  \/ \E f \in File, c \in UserContent \cup {Absent} : UserEdit(f, c)

Spec == Init /\ [][Next]_vars

-----------------------------------------------------------------------------
(* Properties *)

(* The user's last content of a file is never lost: it is in the file or in  *)
(* its backup, whatever was installed, rolled back, retried or cut short.    *)
(* The ways to lose it are an edit between the backup and the write of an    *)
(* apply, an edit between the hash check and the removal or restoration of a *)
(* cleanup, and a backup that another apply overwrites with the plugin's own *)
(* config or with what a crash has left.  (apply_plugin_installer_plan,      *)
(* uninstall_plugin_installation, rollback_plugin_installation)              *)
UserContentSurvives ==
  \A f \in File \ raced : lastUser[f] \in UserContent =>
    \/ lastUser[f] \in {target[f], backup[f]}
    \/ backup[f] \in Configs \cup {Torn}

(* A step with which a rollback is done with a file                          *)
RolledBack == op.kind = "rollback" /\ (Restore \/ Unlink) /\ op' # op

(* Unless an operation broke off, a rollback leaves in each file it is done  *)
(* with what the last apply found there; where that found none, the backup   *)
(* of an earlier installation, if one was left behind, comes back instead.   *)
(* (rollback_plugin_installation after apply_plugin_installer_plan)          *)
RollbackRestores ==
  [][~doubt /\ phase \in {"restore", "unlink"} /\ RolledBack =>
       \/ target'[Current] = before[Current]
       \/ before[Current] = Absent /\ target'[Current] = backup[Current]]_vars

(* An inventory that says the plugin is gone (uninstalled or rolled back) is *)
(* right: none of its files holds a config of the plugin, unless the backup  *)
(* is one itself or an operation has broken off since.                       *)
InventoryTruthful ==
  (inventory # None /\ inventory.dashboard = "available" /\ phase = "idle" /\ ~doubt) =>
    \A k \in DOMAIN Paths(inventory.version) :
      LET f == Paths(inventory.version)[k]
      IN target[f] \in Configs => backup[f] \in Configs

(* A file that had drifted when a cleanup began blocks it before any file is *)
(* changed.  (uninstall_plugin_installation, rollback_plugin_installation)   *)
DriftBlocksCleanup ==
  [][(phase = "check" /\ Drifted /\ target[Current] = op.found[Current] /\ CleanFails) =>
       op.touched = {}]_vars
=============================================================================
