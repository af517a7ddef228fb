------------------------------- MODULE MCHost --------------------------------
(* The processes around the scheduler and the programs that change an            *)
(* installation, side by side: a behaviour runs one of them (part) in one of its *)
(* setups.                                                                       *)
EXTENDS Naturals, Sequences

CONSTANTS DaemonSetups, LoopSetups, WatchdogSetups, SessionSetups, UpdateSetups,
          InstallSetups, WiringSetups, VaultSetups, ArchiveSetups, MaxPid, Projects, MaxQueue, MaxTime,
          Tasks, MaxPolls, Sources, MaxArchives, LEGACY_DIRS

ASSUME UpdateSetupsType ==
    UpdateSetups \subseteq [daemon : BOOLEAN, copy : Nat, step : Nat, crash : Nat,
                             deps : BOOLEAN, undo : BOOLEAN]
ASSUME InstallSetupsType ==
    InstallSetups \subseteq [scene : {"fresh", "modern", "mixed", "legacy"}, via : {"install", "setup"},
                              clean : BOOLEAN, fail : Nat, crash : Nat, runs : Nat]
ASSUME WiringSetupsType ==
    WiringSetups \subseteq [shape : {"object", "array"}, slot : {"none", "other", "aof"},
                             mode : {"auto", "force", "never"}, auto : BOOLEAN, answer : BOOLEAN,
                             cli : BOOLEAN, disable : BOOLEAN, init : BOOLEAN, runs : Nat, faults : Nat]

ASSUME VaultSetupsType ==
    VaultSetups \subseteq [cards : {"plain", "tight", "bare"}, recreate : BOOLEAN, faults : Nat, runs : Nat]
ASSUME LegacyDirsType ==
    LEGACY_DIRS \in Seq(STRING) /\ \E k \in DOMAIN LEGACY_DIRS : LEGACY_DIRS[k] = "tasks"
ASSUME ArchiveSetupsType ==
    /\ MaxArchives \in Nat
    /\ ArchiveSetups \subseteq [jobs : Nat, runs : Nat, edits : Nat, faults : Nat, empties : Nat]

VARIABLES
    part, setup, proc, pidFile, socket, manager, cli, budget, dir, work, creator, up,
    replayed, stores, queue, poll, late, now, healthy, restarts, loop, answer, every,
    alerts, session, caller, poller, outcomes, reports, root, backups, temp, pc, cmd, i,
    faults, legacy, mixed, stash, data, install, preserved, snaps, service, wired, flags,
    todo, before, config, claimed, clean, inbox, inboxExists, aside, job,
    source, trash, payload, manifests, index, jobs, out, wrote
archiveVars == <<source, trash, payload, manifests, index, jobs, out, wrote>>
vars == <<part, setup, proc, pidFile, socket, manager, cli, budget, dir, work, creator, up,
          replayed, stores, queue, poll, late, now, healthy, restarts, loop, answer, every,
          alerts, session, caller, poller, outcomes, reports, root, backups, temp, pc, cmd,
          i, faults, legacy, mixed, stash, data, install, preserved, snaps, service, wired,
          flags, todo, before, config, claimed, clean, inbox, inboxExists, aside, job, archiveVars>>

(* Either manager, one crash at most, three commands; daemons started by hand,  *)
(* three after one another with a crash and two stops, and two at once.         *)
MCDaemon ==
    [manager : {"launchd", "systemd"}, force : BOOLEAN, foreground : {0}, overlap : {FALSE},
     crashes : {0, 1}, commands : {3}]
    \cup [manager : {"none"}, force : BOOLEAN, foreground : {3}, overlap : {FALSE},
          crashes : {1}, commands : {2}]
    \cup [manager : {"none"}, force : {FALSE}, foreground : {2}, overlap : {TRUE},
          crashes : {0}, commands : {0}]
(* One start and one restart; a project made while the service runs, edited     *)
(* once or twice; at most one poll that hangs.                                  *)
MCLoop ==
    [entry : {"foreground"}, timeouts : {0, 1}, restarts : {2}, edits : {1}, tasks : {1}, creates : {1}]
    \cup [entry : {"service"}, timeouts : {0}, restarts : {2}, edits : {0}, tasks : {1}, creates : {1}]
    \cup [entry : {"foreground"}, timeouts : {0}, restarts : {1}, edits : {2}, tasks : {1}, creates : {1}]
(* Budgets of one and two restarts, windows that three changes of health fill.  *)
MCWatchdog == [max : {1, 2}, window : {1, 2}, flaps : {3}, throws : {0, 1}]
MCSessions == {[losses |-> n] : n \in 0..2}

(* One fault of one kind; with and without a dependency update and a rollback;  *)
(* and an update while the daemon runs, whose step may fail too.                *)
MCUpdate ==
    {[daemon |-> FALSE, copy |-> f[1], step |-> f[2], crash |-> f[3], deps |-> d, undo |-> u] :
        f \in {<<1, 0, 0>>, <<0, 1, 0>>, <<0, 0, 1>>}, d \in BOOLEAN, u \in BOOLEAN}
    \cup {[daemon |-> TRUE, copy |-> 0, step |-> 1, crash |-> 0, deps |-> FALSE, undo |-> FALSE]}

(* install.sh over nothing, the current and the oldest layout; `aof setup` over *)
(* the current and the mixed one; three runs, one failure or one crash, and a   *)
(* failure and a crash over the oldest layout.                                  *)
Inst(scene, via, wipe, fail, crash) ==
    [scene |-> scene, via |-> via, clean |-> wipe, fail |-> fail, crash |-> crash, runs |-> 3]
MCInstaller ==
    {Inst(sc, "install", cl, f, 1 - f) : sc \in {"fresh", "modern", "legacy"}, cl \in BOOLEAN, f \in {0, 1}}
    \cup {Inst("mixed", "setup", FALSE, f, 1 - f) : f \in {0, 1}}
    \cup {Inst("modern", "setup", FALSE, f, 1 - f) : f \in {0, 1}}
    \cup {Inst("legacy", "install", FALSE, 1, 1)}

(* Every mode and answer for setup; aof init; the array-shaped configuration;   *)
(* and a rollback that fails itself.                                            *)
MCWiring ==
    [shape : {"object"}, slot : {"none", "other", "aof"}, mode : {"auto", "force"}, auto : BOOLEAN,
     answer : BOOLEAN, cli : BOOLEAN, disable : BOOLEAN, init : {FALSE}, runs : {3}, faults : {1}]
    \cup [shape : {"object"}, slot : {"none", "other"}, mode : {"never"}, auto : BOOLEAN,
          answer : {FALSE}, cli : BOOLEAN, disable : BOOLEAN, init : {FALSE}, runs : {3}, faults : {1}]
    \cup [shape : {"object"}, slot : {"none", "other", "aof"}, mode : {"auto"}, auto : BOOLEAN,
          answer : BOOLEAN, cli : {TRUE}, disable : {FALSE}, init : {TRUE}, runs : {3}, faults : {1}]
    \cup [shape : {"array"}, slot : {"none", "other"}, mode : {"auto"}, auto : {TRUE},
          answer : {FALSE}, cli : {TRUE}, disable : {FALSE}, init : {FALSE}, runs : {3}, faults : {1}]
    \cup [shape : {"object"}, slot : {"none", "other"}, mode : {"auto"}, auto : {TRUE},
          answer : {TRUE}, cli : {TRUE}, disable : {FALSE}, init : {FALSE}, runs : {2}, faults : {2}]

MCLegacyDirs == <<"tasks", "state">>

(* Cards with and without a blank line after the fence, and without one.        *)
MCVault == [cards : {"plain", "tight", "bare"}, recreate : BOOLEAN, faults : {0, 1}, runs : {4}]

(* One command at a time, with a failure and an emptied Trash or an edit; and    *)
(* two at once.                                                                  *)
MCArchive ==
    {[jobs |-> 1, runs |-> 3, edits |-> e, faults |-> 1, empties |-> 1 - e] : e \in {0, 1}}
    \cup {[jobs |-> 2, runs |-> 3, edits |-> 0, faults |-> 0, empties |-> 0]}

D == INSTANCE DaemonLifecycle WITH Setups <- DaemonSetups
L == INSTANCE ServiceLoop WITH Setups <- LoopSetups
W == INSTANCE Watchdog WITH Setups <- WatchdogSetups
S == INSTANCE StandaloneSessions WITH Setups <- SessionSetups
U == INSTANCE SelfUpdate WITH Setups <- UpdateSetups
I == INSTANCE Installer WITH Setups <- InstallSetups
P == INSTANCE PluginWiring WITH Setups <- WiringSetups
V == INSTANCE VaultMigration WITH Setups <- VaultSetups
X == INSTANCE ArtifactArchive WITH Setups <- ArchiveSetups

(* One part runs; the variables of the others are not used. *)
ArchiveOff ==
    /\ source = "off" /\ trash = "off" /\ payload = "off" /\ manifests = "off"
    /\ index = "off" /\ jobs = "off" /\ out = "off" /\ wrote = "off"
DInit ==
    /\ part = "daemon" /\ D!Init /\ ArchiveOff
    /\ dir = "off" /\ work = "off" /\ creator = "off" /\ up = "off" /\ replayed = "off"
    /\ stores = "off" /\ queue = "off" /\ poll = "off" /\ late = "off" /\ now = "off"
    /\ healthy = "off" /\ restarts = "off" /\ loop = "off" /\ answer = "off"
    /\ every = "off" /\ alerts = "off" /\ session = "off" /\ caller = "off"
    /\ poller = "off" /\ outcomes = "off" /\ reports = "off" /\ root = "off"
    /\ backups = "off" /\ temp = "off" /\ pc = "off" /\ cmd = "off" /\ i = "off"
    /\ faults = "off" /\ legacy = "off" /\ mixed = "off" /\ stash = "off" /\ data = "off"
    /\ install = "off" /\ preserved = "off" /\ snaps = "off" /\ service = "off"
    /\ wired = "off" /\ flags = "off" /\ todo = "off" /\ before = "off" /\ config = "off"
    /\ claimed = "off" /\ clean = "off" /\ inbox = "off" /\ inboxExists = "off"
    /\ aside = "off" /\ job = "off"
DStep(A) ==
    /\ part = "daemon" /\ A
    /\ UNCHANGED <<part, archiveVars, dir, work, creator, up, replayed, stores, queue, poll, late, now,
                     healthy, restarts, loop, answer, every, alerts, session, caller,
                     poller, outcomes, reports, root, backups, temp, pc, cmd, i, faults,
                     legacy, mixed, stash, data, install, preserved, snaps, service, wired,
                     flags, todo, before, config, claimed, clean, inbox, inboxExists, aside,
                     job>>
DNext == DStep(D!Next)
LInit ==
    /\ part = "loop" /\ L!Init /\ ArchiveOff
    /\ proc = "off" /\ pidFile = "off" /\ socket = "off" /\ manager = "off" /\ cli = "off"
    /\ now = "off" /\ healthy = "off" /\ restarts = "off" /\ loop = "off" /\ answer = "off"
    /\ every = "off" /\ alerts = "off" /\ session = "off" /\ caller = "off"
    /\ poller = "off" /\ outcomes = "off" /\ reports = "off" /\ root = "off"
    /\ backups = "off" /\ temp = "off" /\ pc = "off" /\ cmd = "off" /\ i = "off"
    /\ faults = "off" /\ legacy = "off" /\ mixed = "off" /\ stash = "off" /\ data = "off"
    /\ install = "off" /\ preserved = "off" /\ snaps = "off" /\ service = "off"
    /\ wired = "off" /\ flags = "off" /\ todo = "off" /\ before = "off" /\ config = "off"
    /\ claimed = "off" /\ clean = "off" /\ inbox = "off" /\ inboxExists = "off"
    /\ aside = "off" /\ job = "off"
LStep(A) ==
    /\ part = "loop" /\ A
    /\ UNCHANGED <<part, archiveVars, proc, pidFile, socket, manager, cli, now, healthy, restarts,
                     loop, answer, every, alerts, session, caller, poller, outcomes,
                     reports, root, backups, temp, pc, cmd, i, faults, legacy, mixed, stash,
                     data, install, preserved, snaps, service, wired, flags, todo, before,
                     config, claimed, clean, inbox, inboxExists, aside, job>>
LNext == LStep(L!Next)
WInit ==
    /\ part = "watchdog" /\ W!Init /\ ArchiveOff
    /\ proc = "off" /\ pidFile = "off" /\ socket = "off" /\ manager = "off" /\ cli = "off"
    /\ dir = "off" /\ work = "off" /\ creator = "off" /\ up = "off" /\ replayed = "off"
    /\ stores = "off" /\ queue = "off" /\ poll = "off" /\ late = "off" /\ session = "off"
    /\ caller = "off" /\ poller = "off" /\ outcomes = "off" /\ reports = "off"
    /\ root = "off" /\ backups = "off" /\ temp = "off" /\ pc = "off" /\ cmd = "off"
    /\ i = "off" /\ faults = "off" /\ legacy = "off" /\ mixed = "off" /\ stash = "off"
    /\ data = "off" /\ install = "off" /\ preserved = "off" /\ snaps = "off"
    /\ service = "off" /\ wired = "off" /\ flags = "off" /\ todo = "off" /\ before = "off"
    /\ config = "off" /\ claimed = "off" /\ clean = "off" /\ inbox = "off"
    /\ inboxExists = "off" /\ aside = "off" /\ job = "off"
WStep(A) ==
    /\ part = "watchdog" /\ A
    /\ UNCHANGED <<part, archiveVars, proc, pidFile, socket, manager, cli, dir, work, creator, up,
                     replayed, stores, queue, poll, late, session, caller, poller, outcomes,
                     reports, root, backups, temp, pc, cmd, i, faults, legacy, mixed, stash,
                     data, install, preserved, snaps, service, wired, flags, todo, before,
                     config, claimed, clean, inbox, inboxExists, aside, job>>
WNext == WStep(W!Next)
SInit ==
    /\ part = "sessions" /\ S!Init /\ ArchiveOff
    /\ proc = "off" /\ pidFile = "off" /\ socket = "off" /\ manager = "off" /\ cli = "off"
    /\ dir = "off" /\ work = "off" /\ creator = "off" /\ up = "off" /\ replayed = "off"
    /\ stores = "off" /\ queue = "off" /\ poll = "off" /\ late = "off" /\ now = "off"
    /\ healthy = "off" /\ restarts = "off" /\ loop = "off" /\ answer = "off"
    /\ every = "off" /\ alerts = "off" /\ root = "off" /\ backups = "off" /\ temp = "off"
    /\ pc = "off" /\ cmd = "off" /\ i = "off" /\ faults = "off" /\ legacy = "off"
    /\ mixed = "off" /\ stash = "off" /\ data = "off" /\ install = "off"
    /\ preserved = "off" /\ snaps = "off" /\ service = "off" /\ wired = "off"
    /\ flags = "off" /\ todo = "off" /\ before = "off" /\ config = "off" /\ claimed = "off"
    /\ clean = "off" /\ inbox = "off" /\ inboxExists = "off" /\ aside = "off" /\ job = "off"
SStep(A) ==
    /\ part = "sessions" /\ A
    /\ UNCHANGED <<part, archiveVars, proc, pidFile, socket, manager, cli, dir, work, creator, up,
                     replayed, stores, queue, poll, late, now, healthy, restarts, loop,
                     answer, every, alerts, root, backups, temp, pc, cmd, i, faults, legacy,
                     mixed, stash, data, install, preserved, snaps, service, wired, flags,
                     todo, before, config, claimed, clean, inbox, inboxExists, aside, job>>
SNext == SStep(S!Next)
UInit ==
    /\ part = "update" /\ U!Init /\ ArchiveOff
    /\ proc = "off" /\ pidFile = "off" /\ socket = "off" /\ manager = "off" /\ cli = "off"
    /\ budget = "off" /\ dir = "off" /\ work = "off" /\ creator = "off" /\ up = "off"
    /\ replayed = "off" /\ stores = "off" /\ queue = "off" /\ poll = "off" /\ late = "off"
    /\ now = "off" /\ healthy = "off" /\ restarts = "off" /\ loop = "off" /\ answer = "off"
    /\ every = "off" /\ alerts = "off" /\ session = "off" /\ caller = "off"
    /\ poller = "off" /\ outcomes = "off" /\ reports = "off" /\ legacy = "off"
    /\ mixed = "off" /\ stash = "off" /\ data = "off" /\ install = "off"
    /\ preserved = "off" /\ snaps = "off" /\ service = "off" /\ wired = "off"
    /\ flags = "off" /\ todo = "off" /\ before = "off" /\ config = "off" /\ claimed = "off"
    /\ clean = "off" /\ inbox = "off" /\ inboxExists = "off" /\ aside = "off" /\ job = "off"
UNext ==
    /\ part = "update" /\ U!Next
    /\ UNCHANGED <<part, archiveVars, proc, pidFile, socket, manager, cli, budget, dir, work, creator,
                     up, replayed, stores, queue, poll, late, now, healthy, restarts, loop,
                     answer, every, alerts, session, caller, poller, outcomes, reports,
                     legacy, mixed, stash, data, install, preserved, snaps, service, wired,
                     flags, todo, before, config, claimed, clean, inbox, inboxExists, aside,
                     job>>
IInit ==
    /\ part = "install" /\ I!Init /\ ArchiveOff
    /\ proc = "off" /\ pidFile = "off" /\ socket = "off" /\ manager = "off" /\ cli = "off"
    /\ budget = "off" /\ dir = "off" /\ work = "off" /\ creator = "off" /\ up = "off"
    /\ replayed = "off" /\ stores = "off" /\ queue = "off" /\ poll = "off" /\ late = "off"
    /\ now = "off" /\ healthy = "off" /\ restarts = "off" /\ loop = "off" /\ answer = "off"
    /\ every = "off" /\ alerts = "off" /\ session = "off" /\ caller = "off"
    /\ poller = "off" /\ outcomes = "off" /\ reports = "off" /\ root = "off"
    /\ backups = "off" /\ temp = "off" /\ cmd = "off" /\ i = "off" /\ config = "off"
    /\ claimed = "off" /\ clean = "off" /\ inbox = "off" /\ inboxExists = "off"
    /\ aside = "off" /\ job = "off"
INext ==
    /\ part = "install" /\ I!Next
    /\ UNCHANGED <<part, archiveVars, proc, pidFile, socket, manager, cli, budget, dir, work, creator,
                     up, replayed, stores, queue, poll, late, now, healthy, restarts, loop,
                     answer, every, alerts, session, caller, poller, outcomes, reports,
                     root, backups, temp, cmd, i, config, claimed, clean, inbox,
                     inboxExists, aside, job>>
PInit ==
    /\ part = "wiring" /\ P!Init /\ ArchiveOff
    /\ proc = "off" /\ pidFile = "off" /\ socket = "off" /\ manager = "off" /\ cli = "off"
    /\ dir = "off" /\ work = "off" /\ creator = "off" /\ up = "off" /\ replayed = "off"
    /\ stores = "off" /\ queue = "off" /\ poll = "off" /\ late = "off" /\ now = "off"
    /\ healthy = "off" /\ restarts = "off" /\ loop = "off" /\ answer = "off"
    /\ every = "off" /\ alerts = "off" /\ session = "off" /\ caller = "off"
    /\ poller = "off" /\ outcomes = "off" /\ reports = "off" /\ root = "off"
    /\ backups = "off" /\ temp = "off" /\ i = "off" /\ faults = "off" /\ legacy = "off"
    /\ mixed = "off" /\ stash = "off" /\ data = "off" /\ install = "off"
    /\ preserved = "off" /\ snaps = "off" /\ service = "off" /\ wired = "off"
    /\ flags = "off" /\ todo = "off" /\ before = "off" /\ inbox = "off"
    /\ inboxExists = "off" /\ aside = "off" /\ job = "off"
PNext ==
    /\ part = "wiring" /\ P!Next
    /\ UNCHANGED <<part, archiveVars, proc, pidFile, socket, manager, cli, dir, work, creator, up,
                     replayed, stores, queue, poll, late, now, healthy, restarts, loop,
                     answer, every, alerts, session, caller, poller, outcomes, reports,
                     root, backups, temp, i, faults, legacy, mixed, stash, data, install,
                     preserved, snaps, service, wired, flags, todo, before, inbox,
                     inboxExists, aside, job>>
VInit ==
    /\ part = "vault" /\ V!Init /\ ArchiveOff
    /\ proc = "off" /\ pidFile = "off" /\ socket = "off" /\ manager = "off" /\ cli = "off"
    /\ dir = "off" /\ work = "off" /\ creator = "off" /\ up = "off" /\ replayed = "off"
    /\ stores = "off" /\ queue = "off" /\ poll = "off" /\ late = "off" /\ now = "off"
    /\ healthy = "off" /\ restarts = "off" /\ loop = "off" /\ answer = "off"
    /\ every = "off" /\ alerts = "off" /\ session = "off" /\ caller = "off"
    /\ poller = "off" /\ outcomes = "off" /\ reports = "off" /\ temp = "off" /\ pc = "off"
    /\ cmd = "off" /\ i = "off" /\ faults = "off" /\ legacy = "off" /\ mixed = "off"
    /\ stash = "off" /\ data = "off" /\ install = "off" /\ preserved = "off"
    /\ snaps = "off" /\ service = "off" /\ wired = "off" /\ flags = "off" /\ todo = "off"
    /\ before = "off" /\ config = "off" /\ claimed = "off" /\ clean = "off"
VNext ==
    /\ part = "vault" /\ V!Next
    /\ UNCHANGED <<part, archiveVars, proc, pidFile, socket, manager, cli, dir, work, creator, up,
                     replayed, stores, queue, poll, late, now, healthy, restarts, loop,
                     answer, every, alerts, session, caller, poller, outcomes, reports,
                     temp, pc, cmd, i, faults, legacy, mixed, stash, data, install,
                     preserved, snaps, service, wired, flags, todo, before, config, claimed,
                     clean>>
XInit ==
    /\ part = "archive" /\ X!Init
    /\ proc = "off" /\ pidFile = "off" /\ socket = "off" /\ manager = "off"
    /\ cli = "off" /\ dir = "off" /\ work = "off" /\ creator = "off" /\ up = "off"
    /\ replayed = "off" /\ stores = "off" /\ queue = "off" /\ poll = "off"
    /\ late = "off" /\ now = "off" /\ healthy = "off" /\ restarts = "off"
    /\ loop = "off" /\ answer = "off" /\ every = "off" /\ alerts = "off"
    /\ session = "off" /\ caller = "off" /\ poller = "off" /\ outcomes = "off"
    /\ reports = "off" /\ root = "off" /\ backups = "off" /\ temp = "off" /\ pc = "off"
    /\ cmd = "off" /\ i = "off" /\ faults = "off" /\ legacy = "off" /\ mixed = "off"
    /\ stash = "off" /\ data = "off" /\ install = "off" /\ preserved = "off"
    /\ snaps = "off" /\ service = "off" /\ wired = "off" /\ flags = "off"
    /\ todo = "off" /\ before = "off" /\ config = "off" /\ claimed = "off"
    /\ clean = "off" /\ inbox = "off" /\ inboxExists = "off" /\ aside = "off"
    /\ job = "off"
XNext ==
    /\ part = "archive" /\ X!Next
    /\ UNCHANGED <<part, proc, pidFile, socket, manager, cli, dir, work, creator,
                     up, replayed, stores, queue, poll, late, now, healthy,
                     restarts, loop, answer, every, alerts, session, caller, poller,
                     outcomes, reports, root, backups, temp, pc, cmd, i, faults,
                     legacy, mixed, stash, data, install, preserved, snaps, service,
                     wired, flags, todo, before, config, claimed, clean, inbox,
                     inboxExists, aside, job>>

Init == DInit \/ LInit \/ WInit \/ SInit \/ UInit \/ IInit \/ PInit \/ VInit \/ XInit
Next == DNext \/ LNext \/ WNext \/ SNext \/ UNext \/ INext \/ PNext \/ VNext \/ XNext

(* The fairness of each component, of the part that runs. *)
Fairness ==
    /\ \A p \in 1..MaxPid : /\ WF_vars(DStep(D!Process(p))) /\ WF_vars(DStep(D!Restart(p)))
                            /\ WF_vars(DStep(D!Cmd(p)))
    /\ WF_vars(DStep(D!Unloaded))
    /\ WF_vars(LStep(L!BootReplay)) /\ WF_vars(LStep(L!runPoll)) /\ WF_vars(LStep(L!pollAllProjects))
    /\ WF_vars(LStep(L!Drained)) /\ WF_vars(LStep(L!triggerPoll))
    /\ WF_vars(WStep(W!Loop))
    /\ \A t \in Tasks : WF_vars(SStep(S!Polls(t)))

Spec == Init /\ [][Next]_vars /\ Fairness

(* There is one daemon at most, pid file and socket lead to it, and an installed *)
(* service that nobody stopped comes back after a crash (daemon.ts,              *)
(* service-file.ts, commands/daemon.ts).                                         *)
DaemonKept ==
    /\ [](part = "daemon" => D!OneDaemon)
    /\ (part = "daemon" /\ D!Wanted) ~> (part = "daemon" /\ D!Back)
(* Tasks of every project there is are seen, polls overlap only after a timeout, *)
(* and what was triggered before a stop is carried out (aof-service.ts).         *)
ServiceKept ==
    /\ [](part = "loop" => L!PollsSerialized)
    /\ [][part = "loop" => L!DrainsFrom("foreground")]_vars
    /\ \A p \in Projects : (part = "loop" /\ L!Waits(p)) ~> (part = "loop" /\ ~L!Waits(p))
(* No window holds more restarts than allowed, an alert means that it is full,   *)
(* and a daemon that stays unhealthy is reported (restart-tracker.ts).           *)
WatchdogKept ==
    /\ [](part = "watchdog" => W!RestartsInWindow)
    /\ [][part = "watchdog" => W!AlertStep]_vars
    /\ []<>(part = "watchdog" => W!Settled)
(* The scheduler hears of every started run within the deadline, once, and the   *)
(* truth (standalone-adapter.ts).                                                *)
SessionsReported ==
    /\ [](part = "sessions" => S!ReportedOnce /\ S!ReportTrue)
    /\ \A t \in Tasks : (part = "sessions" /\ S!Started(t)) ~> (part = "sessions" /\ reports[t] > 0)
(* Self-update: the user's data is always complete somewhere, and the reported   *)
(* outcome is the one on the disk (updater.ts).                                  *)
UpdateKept == part = "update" => U!DataKept /\ U!OutcomeTrue
(* Installer: nothing of the user's is destroyed, but where the last copy is     *)
(* exposed; success means everything is in place and recorded, failure means     *)
(* nothing has changed (install.sh, setup.ts, the migrations).                   *)
InstallKept ==
    part = "install" => I!UserDataKept /\ I!UpgradeComplete /\ I!RestoredOnFailure /\ I!RecordedHappened
(* Wiring: another memory plugin is taken over with consent only, the slot never *)
(* names an unregistered plugin, and setup repairs what an earlier one left      *)
(* (setup.ts, openclaw-cli.ts).                                                  *)
WiringKept == part = "wiring" => P!OtherUntouched /\ P!SlotKnown /\ P!SetupRepairs
(* What is moved is kept: the legacy vault is always whole in one place and      *)
(* success means that everything arrived (projects/migration.ts); an archived    *)
(* directory is in its place, in the Trash or in an archive that restores it     *)
(* (artifacts/archive-service.ts).                                               *)
MovedKept ==
    /\ part = "vault" => V!LegacyKept /\ V!MigrationWhole
    /\ part = "archive" => X!ContentKept /\ X!ArchiveWhole
=============================================================================
