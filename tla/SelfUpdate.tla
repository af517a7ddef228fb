----------------------------- MODULE SelfUpdate -----------------------------
(* The in-place updater: `aof update`, `aof update --rollback` and            *)
(* `aof deps update`.  The install directory is four items: the code, and the *)
(* preserved paths data (config, data), deps (bin, node_modules) and meta     *)
(* (.aof, whose channel.json names the installed version).                    *)
(*                                                                            *)
(* A copy that throws leaves an incomplete target behind; in the backup, the  *)
(* preserve and the rollback loops the error is swallowed.                    *)
EXTENDS Naturals, Sequences

CONSTANT Setups   \* records: daemon (it runs), copy, step, crash (how many may fail), deps, undo

VARIABLES
    setup, root,
    backups,    \* .aof-backup/backup-<time>, in order; path: printed for the user
    temp,       \* the update's temporary directory: preserved copies
    pc, cmd,
    i,          \* index into preservePaths
    faults      \* of each kind, so far

vars == <<setup, root, backups, temp, pc, cmd, i, faults>>

preservePaths == <<"data", "deps", "meta">>
Items == {"code", "data", "deps", "meta"}
Nothing == [p \in Items |-> "none"]
Item == preservePaths[i]

Init ==
    /\ setup \in Setups
    /\ root = [p \in Items |-> "old"]
    /\ backups = <<>> /\ temp = Nothing
    /\ pc = "idle" /\ cmd = "none" /\ i = 1
    /\ faults = [copy |-> 0, step |-> 0, crash |-> 0]

Fault(kind) == faults[kind] < setup[kind] /\ faults' = [faults EXCEPT ![kind] = @ + 1]
Goto(p) == pc' = p /\ i' = 1
(* The loops over preservePaths. *)
NextPath(here, after) ==
    IF i < Len(preservePaths) THEN pc' = here /\ i' = i + 1 ELSE Goto(after)

(* cp of one path: complete, or it throws.  Node refuses to copy a socket,    *)
(* and a running daemon keeps one in the data directory.                      *)
CopyOk == (Item = "data" => ~setup.daemon) /\ UNCHANGED faults
CopyThrows ==
    \/ Item = "data" /\ setup.daemon /\ UNCHANGED faults
    \/ ~(Item = "data" /\ setup.daemon) /\ Fault("copy")

(* ------------------------------- Starting ---------------------------------- *)

(* The manifest of the channel: fetched, or not (HTTP error, timeout, no       *)
(* release candidate on beta).                                                 *)
getVersionManifest == UNCHANGED faults
(* channel.json is written back with what could be read of it. *)
WithChannel(meta) == IF meta \in {"old", "new"} THEN meta ELSE "bare"

(* The command line is part of what is replaced. *)
Runs == pc = "idle" /\ {root.code, root.deps} \subseteq {"old", "new"}

setChannel ==
    /\ Runs /\ root.meta \notin {"old", "new", "bare"}
    /\ root' = [root EXCEPT !.meta = WithChannel(@)]
    /\ UNCHANGED <<setup, backups, temp, pc, cmd, i, faults>>

updateAvailable == root.meta = "old"

checkForUpdates ==
    /\ Runs /\ getVersionManifest
    /\ root' = [root EXCEPT !.meta = WithChannel(@)]
    /\ IF updateAvailable
         THEN Goto("backup") /\ cmd' = "update" /\ backups' = Append(backups, Nothing)
         ELSE UNCHANGED <<pc, i, cmd, backups>>
    /\ temp' = Nothing
    /\ UNCHANGED setup

(* `aof deps update`: the backup goes to the temporary directory. *)
update ==
    /\ Runs /\ setup.deps /\ root.deps = "old"
    /\ Goto("backup") /\ cmd' = "deps" /\ backups' = Append(backups, Nothing)
    /\ temp' = Nothing
    /\ UNCHANGED <<setup, root, faults>>

(* -------------------------------- selfUpdate ------------------------------- *)

Backup == backups[Len(backups)]
ToBackup(content) == backups' = [backups EXCEPT ![Len(backups)][Item] = content]

createBackup ==
    /\ pc = "backup"
    /\ \/ CopyOk /\ ToBackup(root[Item])
       \/ root[Item] # "none" /\ CopyThrows /\ ToBackup("part")
    /\ NextPath("backup", IF cmd = "deps" THEN "npm" ELSE "download")
    /\ UNCHANGED <<setup, root, temp, cmd>>

(* Download, extract, health check of the new version, all outside the root. *)
downloadFile ==
    /\ pc = "download" /\ Goto("preserve")
    /\ UNCHANGED <<setup, root, backups, temp, cmd, faults>>

Preserve ==
    /\ pc = "preserve"
    /\ \/ CopyOk /\ temp' = [temp EXCEPT ![Item] = root[Item]]
       \/ root[Item] # "none" /\ CopyThrows /\ UNCHANGED temp   \* not in preservedPaths
    /\ NextPath("preserve", "remove")
    /\ UNCHANGED <<setup, root, backups, cmd>>

(* Everything but .aof-backup is removed, entry by entry. *)
RemoveOld ==
    /\ pc = "remove"
    /\ \/ \E p \in Items : root[p] # "none" /\ root' = [root EXCEPT ![p] = "none"] /\ UNCHANGED <<pc, i>>
       \/ root = Nothing /\ Goto("copy") /\ UNCHANGED root
    /\ UNCHANGED <<setup, backups, temp, cmd, faults>>

CopyNew ==
    /\ pc = "copy" /\ root' = [root EXCEPT !.code = "new"]
    /\ Goto("restore")
    /\ UNCHANGED <<setup, backups, temp, cmd, faults>>

RestorePreserved ==
    /\ pc = "restore"
    /\ root' = IF temp[Item] # "none" THEN [root EXCEPT ![Item] = temp[Item]] ELSE root
    /\ NextPath("restore", "version")
    /\ UNCHANGED <<setup, backups, temp, cmd, faults>>

(* channel.json is written in place: a crash tears it. *)
updateVersionConfig ==
    /\ pc = "version" /\ root' = [root EXCEPT !.meta = "new"]
    /\ Goto("updated") /\ UNCHANGED <<setup, backups, temp, cmd, faults>>

(* The post-update hook runs an empty list of migrations; the command prints   *)
(* the path of the backup and ends.                                            *)
UpdateDone ==
    /\ pc = "updated" /\ Goto("idle") /\ temp' = Nothing /\ cmd' = "none"
    /\ UNCHANGED <<setup, root, backups, faults>>

npmInstall ==
    /\ pc = "npm"
    /\ \/ root' = [root EXCEPT !.deps = "new"] /\ Goto("updated") /\ UNCHANGED faults
       \/ root' = [root EXCEPT !.deps = "part"] /\ Fault("step") /\ Goto("rollback")
    /\ UNCHANGED <<setup, backups, temp, cmd>>

(* A step that throws: the download, the health check, a removal, a copy into  *)
(* the root (what it was writing is incomplete).                               *)
StepThrows ==
    /\ pc \in {"download", "remove", "copy", "restore", "version"}
    /\ Fault("step") /\ Goto("rollback")
    /\ root' = CASE pc = "copy" -> [root EXCEPT !.code = "part"]
                 [] pc = "restore" /\ temp[Item] # "none" -> [root EXCEPT ![Item] = "part"]
                 [] OTHER -> root
    /\ UNCHANGED <<setup, backups, temp, cmd>>

(* ------------------------------- Rolling back ------------------------------- *)

(* `aof update --rollback --backup <the path an update printed>` *)
Rollback ==
    /\ Runs /\ setup.undo /\ backups # <<>> /\ root.meta = "new"
    /\ Goto("rollback") /\ cmd' = "rollback"
    /\ UNCHANGED <<setup, root, backups, temp, faults>>

(* Mutation of rollbackUpdate: the paths are taken from the temporary copies. *)
rollbackUpdateTemp ==
    /\ pc = "rollback"
    /\ root' = [root EXCEPT ![Item] = temp[Item]]
    /\ NextPath("rollback", "forget")
    /\ UNCHANGED <<setup, backups, temp, cmd, faults>>

(* The loop also swallows a copy that throws after the target was removed.    *)
rollbackUpdate ==
    /\ pc = "rollback"
    /\ \/ /\ CopyOk
          /\ root' = IF Backup[Item] # "none" THEN [root EXCEPT ![Item] = Backup[Item]] ELSE root
       \/ /\ Backup[Item] # "none" /\ CopyThrows
          /\ root' = [root EXCEPT ![Item] = "part"]
    /\ NextPath("rollback", "forget")
    /\ UNCHANGED <<setup, backups, temp, cmd>>

(* The backup is removed, then the version it named is written. *)
ForgetBackup ==
    /\ pc = "forget"
    /\ backups' = SubSeq(backups, 1, Len(backups) - 1)
    /\ root' = IF Backup.meta \in {"old", "new"} THEN [root EXCEPT !.meta = Backup.meta] ELSE root
    /\ Goto(IF cmd = "rollback" THEN "rolledback" ELSE "failed")
    /\ UNCHANGED <<setup, temp, cmd, faults>>

RollbackDone ==
    /\ pc \in {"rolledback", "failed"} /\ Goto("idle") /\ temp' = Nothing /\ cmd' = "none"
    /\ UNCHANGED <<setup, root, backups, faults>>

(* --------------------------------- Crashes ---------------------------------- *)

(* The process dies: what it was writing is incomplete, the temporary          *)
(* directory is nobody's.                                                      *)
Crash ==
    /\ pc # "idle" /\ Fault("crash")
    /\ Goto("idle") /\ cmd' = "none" /\ temp' = Nothing
    /\ root' = CASE pc = "copy" -> [root EXCEPT !.code = "part"]
                 [] pc = "restore" /\ temp[Item] # "none" -> [root EXCEPT ![Item] = "part"]
                 [] pc = "rollback" /\ Backup[Item] # "none" -> [root EXCEPT ![Item] = "part"]
                 [] pc = "version" -> [root EXCEPT !.meta = "part"]
                 [] OTHER -> root
    /\ backups' = IF pc = "backup" /\ root[Item] # "none"
                    THEN [backups EXCEPT ![Len(backups)][Item] = "part"] ELSE backups
    /\ UNCHANGED setup

Next ==
    \/ setChannel \/ checkForUpdates \/ update
    \/ createBackup \/ downloadFile \/ Preserve \/ RemoveOld \/ CopyNew \/ RestorePreserved
    \/ updateVersionConfig \/ UpdateDone \/ npmInstall \/ StepThrows
    \/ Rollback \/ rollbackUpdate \/ ForgetBackup \/ RollbackDone \/ Crash

Spec == Init /\ [][Next]_vars

(* -------------------------------- Properties --------------------------------- *)

(* At every moment the user's data is complete in the install directory, in a  *)
(* backup, or in the temporary directory of the update that is under way:      *)
(* removal, replacement and rollback never destroy the last copy, whichever    *)
(* copy or step fails and wherever the process dies (updater.ts).  Not when    *)
(* the daemon runs, nor when a copy that threw, whose error the loops swallow, *)
(* is followed by another failure or by a rollback to the incomplete backup.   *)
DataKept ==
    \/ setup.daemon \/ setup.copy > 1
    \/ setup.copy = 1 /\ (setup.step > 0 \/ setup.crash > 0 \/ setup.undo)
    \/ root.data = "old"
    \/ \E b \in DOMAIN backups : backups[b].data = "old"
    \/ temp.data = "old"

(* An update that reports success has put the user's data and the              *)
(* dependencies back next to the new code, under the new version; one that     *)
(* reports failure has put the preserved paths and the old version back.       *)
(* Only where no copy throws (the loops swallow that error) and no earlier     *)
(* update died half way (the next one takes what it finds): selfUpdate,        *)
(* rollbackUpdate, installer.ts update.                                        *)
OutcomeTrue ==
  setup.copy = 0 /\ ~setup.daemon /\ faults.crash = 0 =>
    /\ pc = "updated" /\ cmd = "update" =>
         root = [code |-> "new", data |-> "old", deps |-> root.deps, meta |-> "new"]
         /\ root.deps \in {"old", "new"}
    /\ pc = "failed" => root.data = "old" /\ root.deps \in {"old", "new"} /\ root.meta \in {"old", "new"}
=============================================================================
