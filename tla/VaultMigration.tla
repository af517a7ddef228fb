--------------------------- MODULE VaultMigration ---------------------------
(* `aof migrate-to-projects` and `aof rollback-migration`: the legacy          *)
(* directories move from the vault root into tasks.backup-<time>, and are      *)
(* copied from there into Projects/_inbox.                                     *)
EXTENDS Naturals, Sequences

CONSTANTS
    LEGACY_DIRS,   \* in the order of the code; "tasks" is one of them
    Setups         \* records: cards, recreate, faults, runs (see MCHost)

VARIABLES
    setup,
    root, inbox,   \* of each legacy directory: none, empty, orig, done, part, broken, new, mixed
    inboxExists,
    backups,       \* tasks.backup-<time>, oldest first
    aside,         \* the inboxes rollbacks have renamed
    job,           \* the command that runs: its step and the directories left for it
    budget         \* commands and faults left

vars == <<setup, root, inbox, inboxExists, backups, aside, job, budget>>

Dirs == {LEGACY_DIRS[k] : k \in DOMAIN LEGACY_DIRS}
(* The directory that comes first in the order of the code. *)
First(dirs) ==
    LET at == {k \in DOMAIN LEGACY_DIRS : LEGACY_DIRS[k] \in dirs}
    IN  LEGACY_DIRS[CHOOSE k \in at : \A l \in at : k <= l]
None == [d \in Dirs |-> "none"]
Idle == [cmd |-> "none", at |-> "idle", dirs |-> {}]

(* A vault of the old layout. *)
Init ==
    /\ setup \in Setups
    /\ root = [d \in Dirs |-> "orig"] /\ inbox = None /\ inboxExists = FALSE
    /\ backups = <<>> /\ aside = {}
    /\ job = Idle /\ budget = [runs |-> setup.runs, faults |-> setup.faults, clean |-> TRUE]

Spend == budget.runs > 0 /\ budget' = [budget EXCEPT !.runs = @ - 1]
Goto(at, dirs) == job' = [job EXCEPT !.at = at, !.dirs = dirs]

checkLegacyDirsExist == {d \in Dirs : root[d] # "none"}

(* -------------------------------- migrate ---------------------------------- *)

(* Nothing to move: already migrated, or a fresh vault that gets its inbox.    *)
AlreadyMigrated ==
    /\ job = Idle /\ Spend /\ checkLegacyDirsExist = {}
    /\ job' = [cmd |-> "migrate", at |-> "done", dirs |-> {}]
    /\ inboxExists' = TRUE
    /\ inbox' = IF inboxExists THEN inbox ELSE [d \in Dirs |-> "empty"]
    /\ UNCHANGED <<setup, root, backups, aside>>

(* Mutation of migrateToProjects: one backup directory, emptied first. *)
migrateToProjectsOneBackup ==
    /\ job = Idle /\ Spend /\ checkLegacyDirsExist # {}
    /\ job' = [cmd |-> "migrate", at |-> "move", dirs |-> checkLegacyDirsExist]
    /\ backups' = <<None>>
    /\ UNCHANGED <<setup, root, inbox, inboxExists, aside>>

migrateToProjects ==
    /\ job = Idle /\ Spend /\ checkLegacyDirsExist # {}
    /\ job' = [cmd |-> "migrate", at |-> "move", dirs |-> checkLegacyDirsExist]
    /\ backups' = Append(backups, None)
    /\ UNCHANGED <<setup, root, inbox, inboxExists, aside>>

(* rename is atomic *)
MoveToBackup ==
    /\ job.at = "move" /\ job.dirs # {}
    /\ LET d == First(job.dirs)
       IN  /\ backups' = [backups EXCEPT ![Len(backups)][d] = root[d]]
           /\ root' = [root EXCEPT ![d] = "none"]
           /\ Goto("move", job.dirs \ {d})
    /\ UNCHANGED <<setup, inbox, inboxExists, aside, budget>>

Moved == {d \in Dirs : backups[Len(backups)][d] # "none"}

bootstrapProject ==
    /\ job.at = "move" /\ job.dirs = {}
    /\ inboxExists' = TRUE
    /\ inbox' = [d \in Dirs |-> IF inbox[d] = "none" THEN "empty" ELSE inbox[d]]
    /\ Goto("copy", Moved)
    /\ UNCHANGED <<setup, root, backups, aside, budget>>

copyDirectory ==
    /\ job.at = "copy" /\ job.dirs # {}
    /\ LET d == First(job.dirs)
           from == backups[Len(backups)][d]
       IN  /\ inbox' = [inbox EXCEPT ![d] = IF from = "orig" \/ @ = "empty" THEN from ELSE "mixed"]
           /\ Goto(IF d = "tasks" THEN "cards" ELSE "copy", job.dirs \ {d})
    /\ UNCHANGED <<setup, root, inboxExists, backups, aside, budget>>

(* The project is written into every card.  A card whose text follows the      *)
(* closing fence without a blank line loses the fence; one without             *)
(* frontmatter throws.                                                         *)
updateTaskFrontmatter(content) ==
    IF content # "orig" THEN content ELSE IF setup.cards = "tight" THEN "broken" ELSE "done"

updateTaskCardFrontmatter ==
    /\ job.at = "cards"
    /\ IF setup.cards = "bare" /\ inbox["tasks"] = "orig"
         THEN job' = Idle /\ budget' = [budget EXCEPT !.clean = FALSE] /\ UNCHANGED inbox
         ELSE /\ inbox' = [inbox EXCEPT !["tasks"] = updateTaskFrontmatter(inbox["tasks"])]
              /\ Goto("copy", job.dirs) /\ UNCHANGED budget
    /\ UNCHANGED <<setup, root, inboxExists, backups, aside>>

MigrateDone ==
    /\ job.at = "copy" /\ job.dirs = {} /\ Goto("done", {})
    /\ UNCHANGED <<setup, root, inbox, inboxExists, backups, aside, budget>>

(* -------------------------------- rollback --------------------------------- *)

findLatestBackup == Len(backups)

rollbackMigration ==
    /\ job = Idle /\ Spend /\ backups # <<>>
    /\ aside' = IF inboxExists THEN aside \cup {inbox} ELSE aside
    /\ inbox' = None /\ inboxExists' = FALSE
    /\ job' = [cmd |-> "rollback", at |-> "back",
               dirs |-> {d \in Dirs : backups[findLatestBackup][d] # "none"}]
    /\ UNCHANGED <<setup, root, backups>>

(* Back by rename, in the order of readdir; it fails on a directory that is     *)
(* there again.                                                                 *)
MoveBack ==
    /\ job.at = "back"
    /\ \E d \in job.dirs :
       LET b == findLatestBackup
       IN  IF root[d] \in {"none", "empty"}
             THEN /\ root' = [root EXCEPT ![d] = backups[b][d]]
                  /\ backups' = [backups EXCEPT ![b][d] = "none"]
                  /\ Goto("back", job.dirs \ {d})
             ELSE job' = Idle /\ UNCHANGED <<root, backups>>
    /\ UNCHANGED <<setup, inbox, inboxExists, aside, budget>>

RollbackDone ==
    /\ job.at = "back" /\ job.dirs = {} /\ Goto("done", {})
    /\ UNCHANGED <<setup, root, inbox, inboxExists, backups, aside, budget>>

Return ==
    /\ job.at = "done" /\ job' = Idle
    /\ UNCHANGED <<setup, root, inbox, inboxExists, backups, aside, budget>>

(* ------------------------- Crashes, and the daemon ------------------------- *)

Crash ==
    /\ job # Idle /\ budget.faults > 0
    /\ budget' = [budget EXCEPT !.faults = @ - 1, !.clean = FALSE]
    /\ job' = Idle
    /\ inbox' = IF job.at = "copy" /\ job.dirs # {} THEN [inbox EXCEPT ![First(job.dirs)] = "part"]
                ELSE IF job.at = "cards" THEN [inbox EXCEPT !["tasks"] = "part"] ELSE inbox
    /\ UNCHANGED <<setup, root, inboxExists, backups, aside>>

(* A daemon of the vault root makes the directories it writes to again. *)
Recreate ==
    /\ job = Idle /\ setup.recreate
    /\ \E d \in Dirs \ {"tasks"} :
         /\ root[d] = "none" /\ root' = [root EXCEPT ![d] = "new"]
    /\ UNCHANGED <<setup, inbox, inboxExists, backups, aside, job, budget>>

Next ==
    \/ AlreadyMigrated \/ migrateToProjects \/ MoveToBackup \/ bootstrapProject \/ copyDirectory
    \/ updateTaskCardFrontmatter \/ MigrateDone
    \/ rollbackMigration \/ MoveBack \/ RollbackDone \/ Return \/ Crash \/ Recreate

Spec == Init /\ [][Next]_vars

(* -------------------------------- Properties -------------------------------- *)

(* The legacy content of every directory is, complete, in the vault root or in *)
(* a backup, whatever the order of migrations, rollbacks and crashes: nothing  *)
(* but renames touches it (projects/migration.ts).                             *)
LegacyKept == \A d \in Dirs : root[d] = "orig" \/ \E b \in DOMAIN backups : backups[b][d] = "orig"

(* While nothing has been interrupted, a migration that reports success has    *)
(* brought every directory into the inbox, and a rollback that reports success *)
(* has put every directory back (migrateToProjects, rollbackMigration).        *)
MigrationWhole ==
    budget.clean /\ job.at = "done" /\ ~setup.recreate =>
      /\ job.cmd = "migrate" /\ setup.cards # "tight" => inbox["tasks"] = "done"
      /\ job.cmd = "migrate" => \A d \in Dirs \ {"tasks"} : inbox[d] = "orig"
      /\ job.cmd = "rollback" => \A d \in Dirs : root[d] = "orig"
=============================================================================
