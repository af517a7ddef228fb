------------------------------ MODULE Installer ------------------------------
(* scripts/install.sh with the `aof setup` it runs: code is wiped and          *)
(* extracted anew while the data directory is moved aside and back, then the   *)
(* migrations run between a snapshot and a marker.  `aof setup --upgrade` is   *)
(* also run by hand (setup.via = "setup").                                     *)
(*                                                                             *)
(* User data is two items: the tasks (an empty scaffold is directories only)   *)
(* and the org chart (a scaffold is a file with a default chart).              *)
EXTENDS Naturals, Sequences, Functions

CONSTANT Setups   \* records: see MCHost

Items == {"tasks", "org"}
Nothing == [tasks |-> "none", org |-> "none"]
User == [tasks |-> "user", org |-> "user"]
Empty == [items |-> Nothing, files |-> {}, history |-> {}, marker |-> FALSE]

VARIABLES
    setup,
    legacy,     \* ~/.openclaw/aof: its items, and the breadcrumb of migration 005
    mixed,      \* items in the install directory itself (before 1.13)
    stash,      \* items 006 renamed in the install directory
    data,       \* the data directory: items, rewritten files, migration history, marker
    install,    \* the install directory: code, .version, breadcrumb of 006
    preserved,  \* ~/.aof-backup-<time>/data: the directories install.sh moved aside
    snaps,      \* .aof/snapshots, oldest first
    service,    \* the daemon's service file exists
    wired,      \* OpenClaw's configuration names the plugin
    pc, flags,  \* where the installer is; what it detected
    todo,       \* migrations left in this run
    before,     \* the data directory as this run's snapshot found it
    faults

vars == <<setup, legacy, mixed, stash, data, install, preserved, snaps, service, wired,
          pc, flags, todo, before, faults>>
disk == <<legacy, mixed, stash, data, install, preserved, snaps, service, wired>>

Init ==
    /\ setup \in Setups
    /\ legacy = [items |-> IF setup.scene = "legacy" THEN User ELSE Nothing, done |-> FALSE]
    /\ mixed = IF setup.scene = "mixed" THEN User ELSE Nothing
    /\ stash = Nothing
    /\ data = IF setup.scene = "modern" THEN [Empty EXCEPT !.items = User, !.files = {"001", "003"},
                                                          !.history = {"001", "003"}] ELSE Empty
    /\ install = [code |-> IF setup.scene \in {"modern", "mixed"} THEN "ok" ELSE "none",
                  version |-> setup.scene \in {"modern", "mixed"}, moved |-> FALSE]
    /\ preserved = <<>> /\ snaps = <<>> /\ service = FALSE
    /\ wired = (setup.scene = "modern")
    /\ pc = "idle" /\ flags = [upgrade |-> FALSE, legacy |-> FALSE, fresh |-> FALSE, kept |-> FALSE, ok |-> TRUE]
    /\ todo = {} /\ before = Empty
    /\ faults = [fail |-> 0, crash |-> 0, runs |-> 0]

Goto(p) == pc' = p
Fails == faults.fail < setup.fail /\ faults' = [faults EXCEPT !.fail = @ + 1]

(* ------------------------------- install.sh --------------------------------- *)

(* A .version file: an upgrade.  Otherwise a legacy installation, or a fresh   *)
(* one.  --clean unsets both and preserves and wipes all the same.             *)
detect_existing_install ==
    LET up == install.version
        old == ~up /\ legacy.items # Nothing
    IN [upgrade |-> ~setup.clean /\ (up \/ old), legacy |-> ~setup.clean /\ old,
        fresh |-> ~setup.clean /\ ~up /\ ~old, kept |-> FALSE, ok |-> TRUE]

Start ==
    /\ pc = "idle" /\ faults.runs < setup.runs /\ setup.via = "install"
    /\ faults' = [faults EXCEPT !.runs = @ + 1]
    /\ flags' = detect_existing_install
    /\ Goto("download")
    /\ UNCHANGED <<setup, disk, todo, before>>

(* `aof setup --upgrade`, by hand. *)
StartSetup ==
    /\ pc = "idle" /\ faults.runs < setup.runs /\ setup.via = "setup"
    /\ faults' = [faults EXCEPT !.runs = @ + 1]
    /\ flags' = [upgrade |-> TRUE, legacy |-> FALSE, fresh |-> FALSE, kept |-> FALSE, ok |-> TRUE]
    /\ Goto("setup")
    /\ UNCHANGED <<setup, disk, todo, before>>

(* The release is resolved and downloaded, or the script ends. *)
download_tarball ==
    /\ pc = "download"
    /\ \/ Goto(IF setup.clean THEN "clean" ELSE IF flags.fresh THEN "extract" ELSE "preserve")
          /\ UNCHANGED faults
       \/ Fails /\ Goto("idle")
    /\ UNCHANGED <<setup, disk, flags, todo, before>>

(* --clean: refused or declined, or the plugin is taken out of OpenClaw. *)
run_clean_flow_preinstall ==
    /\ pc = "clean"
    /\ \/ Goto("idle") /\ UNCHANGED wired
       \/ Goto("preserve") /\ wired' = FALSE
    /\ UNCHANGED <<setup, legacy, mixed, stash, data, install, preserved, snaps, service, flags, todo, before, faults>>

(* The data directory is renamed into a new backup directory. *)
preserve_data_dir ==
    /\ pc = "preserve" /\ Goto("wipe")
    /\ preserved' = IF data # Empty THEN Append(preserved, [data |-> data, snaps |-> snaps]) ELSE preserved
    /\ flags' = [flags EXCEPT !.kept = data # Empty]
    /\ data' = Empty /\ snaps' = <<>>
    /\ UNCHANGED <<setup, legacy, mixed, stash, install, service, wired, todo, before, faults>>

wipe_code_in_install_dir ==
    /\ pc = "wipe" /\ Goto("extract")
    /\ mixed' = Nothing /\ stash' = Nothing
    /\ install' = [code |-> "none", version |-> FALSE, moved |-> FALSE]
    /\ UNCHANGED <<setup, legacy, data, preserved, snaps, service, wired, flags, todo, before, faults>>

(* Extract, then npm. *)
extract_and_install ==
    /\ pc = "extract" /\ install' = [install EXCEPT !.code = "ok"]
    /\ Goto(IF flags.fresh THEN "setup" ELSE "restore")
    /\ UNCHANGED <<setup, legacy, mixed, stash, data, preserved, snaps, service, wired, flags, todo, before, faults>>

(* exit 1 with the EXIT trap: a fresh installation removes the install         *)
(* directory, and the data directory is inside it.                             *)
cleanup ==
    /\ pc \in {"preserve", "wipe", "extract"} /\ Fails /\ Goto("idle")
    /\ IF flags.fresh
         THEN /\ install' = [code |-> "none", version |-> FALSE, moved |-> FALSE]
              /\ mixed' = Nothing /\ stash' = Nothing /\ data' = Empty /\ snaps' = <<>>
         ELSE UNCHANGED <<install, mixed, stash, data, snaps>>
    /\ UNCHANGED <<setup, legacy, preserved, service, wired, flags, todo, before>>

restore_preserved_data ==
    /\ pc = "restore" /\ Goto("setup")
    /\ IF flags.kept
         THEN LET last == preserved[Len(preserved)] IN
              /\ data' = last.data /\ snaps' = last.snaps
              /\ preserved' = SubSeq(preserved, 1, Len(preserved) - 1)
         ELSE UNCHANGED <<data, snaps, preserved>>
    /\ UNCHANGED <<setup, legacy, mixed, stash, install, service, wired, flags, todo, before, faults>>

(* After `aof setup`, failed or not: the version file, the launchers, the      *)
(* daemon (installed or not) and the validation, which only warns.             *)
write_version_file ==
    /\ pc = "setupEnd" /\ Goto("done") /\ setup.via = "install"
    /\ install' = [install EXCEPT !.version = TRUE]
    /\ service' \in {service, TRUE}
    /\ UNCHANGED <<setup, legacy, mixed, stash, data, preserved, snaps, wired, flags, todo, before, faults>>

Done ==
    /\ pc = "done" \/ (pc = "setupEnd" /\ setup.via = "setup")
    /\ Goto("idle")
    /\ UNCHANGED <<setup, disk, flags, todo, before, faults>>

(* --------------------------------- runSetup ---------------------------------- *)

migrateLegacyData ==
    /\ pc = "setup" /\ Goto(IF flags.upgrade THEN "snapshot" ELSE "wizard")
    /\ data' = IF flags.legacy
                 THEN [data EXCEPT !.items = [it \in Items |->
                        IF legacy.items[it] # "none" THEN legacy.items[it] ELSE data.items[it]]]
                 ELSE data
    /\ UNCHANGED <<setup, legacy, mixed, stash, install, preserved, snaps, service, wired, flags, todo, before, faults>>

pruneSnapshots(s) == IF Len(s) <= 2 THEN s ELSE SubSeq(s, Len(s) - 1, Len(s))

migrations == <<"001", "003", "004", "005", "006", "007", "008">>
(* The migration that runs: the first of those left. *)
Current ==
    LET left == {k \in DOMAIN migrations : migrations[k] \in todo}
    IN  migrations[CHOOSE k \in left : \A l \in left : k <= l]

createSnapshot ==
    /\ pc = "snapshot" /\ Goto("migrate")
    /\ snaps' = pruneSnapshots(Append(snaps, data))
    /\ before' = data
    /\ data' = [data EXCEPT !.marker = TRUE]
    /\ todo' = Range(migrations) \ data.history
    /\ UNCHANGED <<setup, legacy, mixed, stash, install, preserved, service, wired, flags, faults>>

(* ensureScaffold: missing directories and a missing org chart. *)
Scaffolded(items) == [it \in Items |-> IF items[it] = "none" THEN "scaffold" ELSE items[it]]

(* 005, unless its breadcrumb is there: what the data directory lacks is        *)
(* copied; an org chart that is newer in the legacy directory replaces the      *)
(* other (here the scaffold of 004 is the newer one).                           *)
Reconciled ==
    [it \in Items |-> IF ~legacy.done /\ data.items[it] = "none" THEN legacy.items[it] ELSE data.items[it]]

(* A directory without files; the org directory of a scaffold has one. *)
hasOnlyScaffold(it) == it = "tasks" /\ data.items[it] = "scaffold"

(* 006 renames one item: into the data directory, or aside if the destination   *)
(* has content.                                                                 *)
MoveItem(it) ==
    /\ pc = "migrate" /\ todo # {} /\ Current = "006"
    /\ ~install.moved /\ mixed[it] # "none"
    /\ (it = "org" => mixed.tasks = "none")
    /\ mixed' = [mixed EXCEPT ![it] = "none"]
    /\ IF data.items[it] = "none" \/ hasOnlyScaffold(it)
         THEN data' = [data EXCEPT !.items[it] = mixed[it]] /\ UNCHANGED stash
         ELSE stash' = [stash EXCEPT ![it] = mixed[it]] /\ UNCHANGED data
    /\ UNCHANGED <<setup, legacy, install, preserved, snaps, service, wired, pc, flags, todo, before, faults>>

(* One migration runs to its end. *)
Rewrites(m, newData) ==
    /\ pc = "migrate" /\ todo # {} /\ Current = m /\ Goto("record")
    /\ data' = newData
    /\ UNCHANGED <<setup, mixed, stash, preserved, snaps, wired, flags, todo, before, faults>>
Stays == UNCHANGED <<legacy, install, service>>
(* What 001, 003 and 008 do to files, atomically each. *)
Rewritten(m) == [data EXCEPT !.files = @ \cup {m}]

(* The default workflow of every project manifest. *)
migration001 == Rewrites("001", Rewritten("001")) /\ Stays
(* channel.json *)
migration003 == Rewrites("003", Rewritten("003")) /\ Stays
migration004 == Rewrites("004", [data EXCEPT !.items = Scaffolded(@)]) /\ Stays
migration005 ==
    /\ Rewrites("005", [data EXCEPT !.items = Reconciled])
    /\ legacy' = IF legacy.items # Nothing THEN [legacy EXCEPT !.done = TRUE] ELSE legacy
    /\ UNCHANGED <<install, service>>
(* Nothing left to move, or moved before: the breadcrumb. *)
migration006 ==
    /\ install.moved \/ mixed = Nothing
    /\ Rewrites("006", data)
    /\ install' = [install EXCEPT !.moved = TRUE]
    /\ UNCHANGED <<legacy, service>>
(* The daemon's service, unless it is there. *)
migration007 == Rewrites("007", data) /\ service' = TRUE /\ UNCHANGED <<legacy, install>>
(* The wrong project of unscoped tasks. *)
migration008 == Rewrites("008", Rewritten("008")) /\ Stays

recordMigration ==
    /\ pc = "record" /\ Goto("migrate")
    /\ data' = [data EXCEPT !.history = @ \cup {Current}]
    /\ todo' = todo \ {Current}
    /\ UNCHANGED <<setup, legacy, mixed, stash, install, preserved, snaps, service, wired, flags, before, faults>>

runMigrations ==
    \/ recordMigration
    \/ migration001 \/ migration003 \/ migration004 \/ migration005 \/ migration006
    \/ migration007 \/ migration008

MigrationsDone ==
    /\ pc = "migrate" /\ todo = {} /\ Goto("scaffold")
    /\ data' = [data EXCEPT !.marker = FALSE]
    /\ UNCHANGED <<setup, legacy, mixed, stash, install, preserved, snaps, service, wired, flags, todo, before, faults>>

(* A migration throws (007: the service manager refuses): everything in the     *)
(* data directory is removed, ...                                               *)
MigrationFails ==
    /\ pc = "migrate" /\ todo # {} /\ Current # "006" /\ (Current = "007" => ~service)
    /\ Fails /\ Goto("restoreSnapshot")
    /\ data' = Empty
    /\ UNCHANGED <<setup, legacy, mixed, stash, install, preserved, snaps, service, wired, flags, todo, before>>

(* Mutation of restoreSnapshot: the copy does not go into subdirectories. *)
restoreSnapshotShallow == [snaps[Len(snaps)] EXCEPT !.marker = FALSE, !.items.tasks = "scaffold"]

restoreSnapshot == [snaps[Len(snaps)] EXCEPT !.marker = FALSE]

(* ... the snapshot copied back and the marker removed; setup exits with 1.     *)
SnapshotRestored ==
    /\ pc = "restoreSnapshot" /\ Goto("setupEnd")
    /\ data' = restoreSnapshot
    /\ flags' = [flags EXCEPT !.ok = FALSE]
    /\ UNCHANGED <<setup, legacy, mixed, stash, install, preserved, snaps, service, wired, todo, before, faults>>

(* The wizard refuses an existing org chart. *)
runWizard ==
    /\ pc = "wizard"
    /\ IF data.items.org # "none"
         THEN Goto("setupEnd") /\ flags' = [flags EXCEPT !.ok = FALSE] /\ UNCHANGED data
         ELSE Goto("scaffold") /\ data' = [data EXCEPT !.items = Scaffolded(@)] /\ UNCHANGED flags
    /\ UNCHANGED <<setup, legacy, mixed, stash, install, preserved, snaps, service, wired, todo, before, faults>>

ensureScaffold ==
    /\ pc = "scaffold" /\ Goto("setupEnd")
    /\ data' = [data EXCEPT !.items = Scaffolded(@)]
    /\ wired' \in {wired, TRUE}      \* wireOpenClawPlugin: module PluginWiring
    /\ UNCHANGED <<setup, legacy, mixed, stash, install, preserved, snaps, service, flags, todo, before, faults>>

(* The machine or the process dies; the trap does not run. *)
Crash ==
    /\ pc \notin {"idle", "done"} /\ faults.crash < setup.crash
    /\ faults' = [faults EXCEPT !.crash = @ + 1]
    /\ Goto("idle") /\ todo' = {}
    /\ UNCHANGED <<setup, disk, flags, before>>

Next ==
    \/ Start \/ StartSetup
    \/ download_tarball \/ run_clean_flow_preinstall
    \/ preserve_data_dir \/ wipe_code_in_install_dir \/ extract_and_install \/ cleanup
    \/ restore_preserved_data \/ write_version_file \/ Done
    \/ migrateLegacyData \/ createSnapshot \/ (\E it \in Items : MoveItem(it)) \/ runMigrations
    \/ MigrationsDone \/ MigrationFails \/ SnapshotRestored \/ runWizard \/ ensureScaffold \/ Crash

Spec == Init /\ [][Next]_vars

(* -------------------------------- Properties --------------------------------- *)

Items_In(ss) == {ss[k].items : k \in DOMAIN ss}
Places ==
    {legacy.items, mixed, stash, data.items} \cup Items_In(snaps)
    \cup UNION {{preserved[k].data.items} \cup Items_In(preserved[k].snaps) : k \in DOMAIN preserved}

(* The last copy is exposed when a run fails after another was interrupted, and  *)
(* when a mixed installation is wiped or its migration undone.                  *)
Exposed ==
    \/ setup.scene = "modern" /\ faults.fail > 0 /\ faults.crash > 0
    \/ setup.scene = "mixed" /\ (setup.via = "install" \/ faults.fail > 0)

(* Otherwise no installation, upgrade or migration, interrupted or failing as   *)
(* often as it may, destroys the last copy of what the user had: the tasks and  *)
(* the org chart are still in the legacy directory, the install directory, the  *)
(* data directory, a backup or a snapshot (install.sh, setup.ts, migrations 005 *)
(* and 006).                                                                    *)
UserDataKept ==
    setup.scene # "fresh" /\ ~Exposed => \A it \in Items : \E p \in Places : p[it] = "user"

(* An upgrade that ends well has every migration recorded, no marker left and   *)
(* the user's tasks in the data directory, whether or not an earlier attempt    *)
(* was interrupted, unless that left a backup behind; `aof setup` by hand does  *)
(* not look at the legacy directory (runSetup, runMigrations).                  *)
UpgradeComplete ==
    pc = "setupEnd" /\ flags.upgrade /\ flags.ok /\ preserved = <<>> =>
      /\ setup.scene = "fresh" \/ Exposed \/ (setup.scene = "legacy" /\ setup.via = "setup")
           \/ data.items.tasks = "user"
      /\ ~data.marker /\ data.history = Range(migrations)

(* A migration that fails leaves the data directory as it was before the run    *)
(* (restoreSnapshot takes the snapshot of this run, and all of it).             *)
RestoredOnFailure ==
    pc = "setupEnd" /\ flags.upgrade /\ ~flags.ok =>
      data.items = before.items /\ data.files = before.files /\ data.history = before.history

(* A migration in the history has happened: after 006 nothing of the user's is  *)
(* left in the install directory, after 005 the legacy directory is marked,     *)
(* after 004 the scaffold is there, after 007 the service; the files of 001,    *)
(* 003 and 008 are rewritten (recordMigration).                                 *)
RecordedHappened ==
    /\ data.history \cap {"001", "003", "008"} \subseteq data.files
    /\ "006" \in data.history => mixed = Nothing
    /\ "005" \in data.history /\ legacy.items # Nothing => legacy.done
    /\ "004" \in data.history => \A it \in Items : data.items[it] # "none"
    /\ "007" \in data.history => service
=============================================================================
