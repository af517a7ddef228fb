-------------------------- MODULE DaemonLifecycle ---------------------------
(* Daemon processes, the pid file and socket they share, the service manager   *)
(* that restarts them, and `aof daemon install | uninstall | start | stop`.    *)
EXTENDS Naturals, FiniteSets

CONSTANTS
    MaxPid,   \* pids in circulation: the bound on processes alive or referred to
    Setups    \* records: manager, force, foreground, overlap, crashes, commands (see MCHost)

VARIABLES
    setup,
    proc,      \* of each pid: how far its process is; its exit code
    pidFile,   \* daemon.pid: a pid, or 0
    socket,    \* daemon.sock: the pid that bound it, or 0
    manager,   \* launchd or systemd: is the service loaded, being unloaded; its child
    cli,       \* the command under way: its step, and the pid it read
    budget     \* crashes, commands and foreground starts left

vars == <<setup, proc, pidFile, socket, manager, cli, budget>>

Pids == 1..MaxPid
Alive(p) == p # 0 /\ proc[p].at # "dead"
(* Answers GET /healthz with 200: a draining daemon says it is shutting down.   *)
Serving(p) == p # 0 /\ proc[p].at \in {"listening", "checked", "locked", "polling"}
Starting == {"start", "cleared", "listening", "checked"}
NoneStarts == \A q \in Pids : proc[q].at \notin Starting
Launchd == setup.manager = "launchd"

Init ==
    /\ setup \in Setups
    /\ proc = [p \in Pids |-> [at |-> "dead", code |-> 0]]
    /\ pidFile = 0 /\ socket = 0
    /\ manager = [loaded |-> FALSE, unloading |-> FALSE, child |-> 0]
    /\ cli = [at |-> "idle", pid |-> 0, ok |-> FALSE]
    /\ budget = [crashes |-> setup.crashes, commands |-> setup.commands, foreground |-> setup.foreground]

At(p, where) == [proc EXCEPT ![p].at = where]
Dead(p, exitCode) == [proc EXCEPT ![p].at = "dead", ![p].code = exitCode]

(* A process starts under a pid that no file, manager or command refers to.     *)
Free ==
    {p \in Pids : ~Alive(p) /\ p \notin {pidFile, socket, manager.child}
                  /\ (cli.at = "idle" \/ p # cli.pid)}
Fork(p) == p \in Free /\ (\A q \in Free : p <= q) /\ proc' = At(p, "start")

(* ------------------------------ startAofDaemon ------------------------------ *)

(* Mutation of CheckLock: the process behind the pid is not looked for. *)
CheckLockAny(p) ==
    /\ proc[p].at = "start"
    /\ IF pidFile # 0 THEN proc' = Dead(p, 1) /\ UNCHANGED pidFile
       ELSE proc' = At(p, "cleared") /\ pidFile' = 0
    /\ UNCHANGED <<setup, socket, manager, cli, budget>>

(* A pid file whose process runs: refused.  A stale one is removed. *)
CheckLock(p) ==
    /\ proc[p].at = "start"
    /\ IF Alive(pidFile) THEN proc' = Dead(p, 1) /\ UNCHANGED pidFile
       ELSE proc' = At(p, "cleared") /\ pidFile' = 0
    /\ UNCHANGED <<setup, socket, manager, cli, budget>>

(* Whatever socket file is there is removed, and the path bound anew. *)
createHealthServer(p) ==
    /\ proc[p].at = "cleared" /\ proc' = At(p, "listening") /\ socket' = p
    /\ UNCHANGED <<setup, pidFile, manager, cli, budget>>

(* The request goes to whoever bound the path last.  On failure the server is   *)
(* closed, which removes the path, and the start is given up.                   *)
selfCheck(p) ==
    /\ proc[p].at = "listening"
    /\ IF Serving(socket) THEN proc' = At(p, "checked") /\ UNCHANGED socket
       ELSE proc' = Dead(p, 1) /\ socket' = 0
    /\ UNCHANGED <<setup, pidFile, manager, cli, budget>>

WritePidFile(p) ==
    /\ proc[p].at = "checked" /\ proc' = At(p, "locked") /\ pidFile' = p
    /\ UNCHANGED <<setup, socket, manager, cli, budget>>

(* AOFService.start: projects, orphans, the first poll; then the handlers for   *)
(* signals and exit are in place.                                               *)
start(p) ==
    /\ proc[p].at = "locked" /\ proc' = At(p, "polling")
    /\ UNCHANGED <<setup, pidFile, socket, manager, cli, budget>>

(* Without a handler SIGTERM ends the process and leaves its files. *)
Terminated(p) ==
    IF proc[p].at \in {"polling", "draining"} THEN At(p, "draining")
    ELSE IF Alive(p) THEN Dead(p, 1) ELSE proc

(* After AOFService.stop, at most DRAIN_TIMEOUT_MS later: both files are        *)
(* removed, whoever wrote them.                                                 *)
drainAndExit(p) ==
    /\ proc[p].at = "draining" /\ proc' = Dead(p, 0)
    /\ pidFile' = 0 /\ socket' = 0
    /\ UNCHANGED <<setup, manager, cli, budget>>

Crash(p) ==
    /\ budget.crashes > 0 /\ budget' = [budget EXCEPT !.crashes = @ - 1]
    /\ Alive(p) /\ proc' = Dead(p, 1)
    /\ UNCHANGED <<setup, pidFile, socket, manager, cli>>

(* `aof daemon start --foreground`, by hand; two at once only where setup says. *)
daemonStartForeground(p) ==
    /\ budget.foreground > 0 /\ budget' = [budget EXCEPT !.foreground = @ - 1]
    /\ setup.overlap \/ (cli.at = "idle" /\ NoneStarts)
    /\ Fork(p)
    /\ UNCHANGED <<setup, pidFile, socket, manager, cli>>

(* --------------------------- The service manager ---------------------------- *)

ChildGone == ~Alive(manager.child)
Idle == cli.at = "idle"

(* KeepAlive restarts always, Restart=on-failure after a failure.  systemd      *)
(* waits RestartSec, longer than `aof daemon stop` takes to clean up.           *)
Restart(p) ==
    /\ manager.loaded /\ ~manager.unloading /\ manager.child # 0 /\ ChildGone
    /\ IF Launchd THEN TRUE ELSE proc[manager.child].code # 0 /\ cli.at \notin {"wait", "cleanup"}
    /\ Fork(p) /\ manager' = [manager EXCEPT !.child = p]
    /\ UNCHANGED <<setup, pidFile, socket, cli, budget>>

(* bootout is asynchronous: the service is unloaded when its process has ended. *)
Unloaded ==
    /\ manager.unloading /\ ChildGone
    /\ manager' = [loaded |-> FALSE, unloading |-> FALSE, child |-> 0]
    /\ UNCHANGED <<setup, proc, pidFile, socket, cli, budget>>

(* -------------------------------- Commands ---------------------------------- *)

Command(step, pid) ==
    /\ Idle /\ budget.commands > 0 /\ budget' = [budget EXCEPT !.commands = @ - 1]
    /\ cli' = [at |-> step, pid |-> pid, ok |-> FALSE]
Cli(from, to) == cli.at = from /\ cli' = [cli EXCEPT !.at = to]
Quiet == UNCHANGED <<setup, pidFile, socket, budget>>

(* The service file is written; launchd unloads the old one, ... *)
installService ==
    /\ setup.manager # "none" /\ Command(IF Launchd THEN "settle" ELSE "enable", 0)
    /\ IF Launchd /\ manager.loaded
         THEN /\ manager' = [manager EXCEPT !.unloading = TRUE]
              /\ proc' = IF ChildGone THEN proc ELSE Terminated(manager.child)
         ELSE UNCHANGED <<manager, proc>>
    /\ UNCHANGED <<setup, pidFile, socket>>

(* ... waits for that, and loads and starts the new one. *)
launchctlInstallIdempotent(p) ==
    /\ cli.at = "settle" /\ ~manager.loaded
    /\ Fork(p) /\ manager' = [loaded |-> TRUE, unloading |-> FALSE, child |-> p]
    /\ cli' = [at |-> "idle", pid |-> 0, ok |-> TRUE] /\ Quiet
(* Not unloaded after five seconds: kickstart on a service that is going away. *)
SettleTimeout ==
    /\ cli.at = "settle" /\ manager.unloading
    /\ cli' = [at |-> "idle", pid |-> 0, ok |-> FALSE]
    /\ UNCHANGED <<proc, manager>> /\ Quiet

(* systemctl enable --now: started unless it runs. *)
systemctlEnable(p) ==
    /\ cli.at = "enable" /\ cli' = [at |-> "idle", pid |-> 0, ok |-> TRUE]
    /\ IF manager.loaded /\ ~ChildGone THEN UNCHANGED <<proc, manager>>
       ELSE Fork(p) /\ manager' = [loaded |-> TRUE, unloading |-> FALSE, child |-> p]
    /\ Quiet

(* The manager stops its child: systemctl waits for the end, launchctl does not. *)
StopChild ==
    /\ manager' = IF manager.loaded THEN [manager EXCEPT !.unloading = TRUE] ELSE manager
    /\ proc' = IF ChildGone THEN proc ELSE Terminated(manager.child)

uninstallService ==
    /\ setup.manager # "none" /\ Command("remove", 0) /\ StopChild
    /\ UNCHANGED <<setup, pidFile, socket>>
RemoveFiles ==
    /\ Cli("remove", "idle") /\ (Launchd \/ ~manager.loaded)
    /\ pidFile' = 0 /\ socket' = 0
    /\ UNCHANGED <<setup, proc, manager, budget>>

(* stop: no pid file, or a stale one (removed), ends it. *)
daemonStop ==
    /\ setup.overlap \/ setup.manager # "none" \/ NoneStarts
    /\ IF Alive(pidFile) THEN Command(IF setup.force THEN "signal" ELSE "supervisor", pidFile) /\ UNCHANGED pidFile
       ELSE /\ Idle /\ budget.commands > 0 /\ budget' = [budget EXCEPT !.commands = @ - 1]
            /\ pidFile' = 0 /\ UNCHANGED cli
    /\ UNCHANGED <<setup, proc, socket, manager>>
stopViaSupervisor ==
    /\ Cli("supervisor", "signal") /\ StopChild /\ Quiet
(* SIGTERM, unless the pid is gone; then the wait for its end. *)
Sigterm ==
    /\ Cli("signal", "wait")
    /\ proc' = IF Alive(cli.pid) THEN Terminated(cli.pid) ELSE proc
    /\ UNCHANGED manager /\ Quiet
Drained ==
    /\ ~Alive(cli.pid) /\ Cli("wait", "cleanup") /\ UNCHANGED <<proc, manager>> /\ Quiet
Sigkill ==
    /\ Alive(cli.pid) /\ Cli("wait", "cleanup")
    /\ proc' = Dead(cli.pid, 1) /\ UNCHANGED manager /\ Quiet
(* Whatever pid and socket files are there. *)
cleanupStalePidFile ==
    /\ Cli("cleanup", "idle") /\ pidFile' = 0 /\ socket' = 0
    /\ UNCHANGED <<setup, proc, manager, budget>>

Process(p) ==
    CheckLock(p) \/ createHealthServer(p) \/ selfCheck(p) \/ WritePidFile(p) \/ start(p) \/ drainAndExit(p)
Cmd(p) ==
    \/ launchctlInstallIdempotent(p) \/ SettleTimeout \/ systemctlEnable(p) \/ RemoveFiles
    \/ stopViaSupervisor \/ Sigterm \/ Drained \/ Sigkill \/ cleanupStalePidFile

Next ==
    \/ \E p \in Pids : Process(p) \/ Crash(p) \/ daemonStartForeground(p) \/ Restart(p) \/ Cmd(p)
    \/ Unloaded \/ installService \/ uninstallService \/ daemonStop

(* Processes and the service manager run; a command that was started goes on.   *)
Fairness ==
    /\ \A p \in Pids : WF_vars(Process(p)) /\ WF_vars(Restart(p)) /\ WF_vars(Cmd(p))
    /\ WF_vars(Unloaded)

Spec == Init /\ [][Next]_vars /\ Fairness

(* -------------------------------- Properties --------------------------------- *)

Polling == {p \in Pids : proc[p].at = "polling"}
(* What the code leaves to the user: no two commands at once, and not stopping a *)
(* managed daemon behind the back of its manager, which restarts it while the   *)
(* command removes the files.                                                   *)
Careful == ~setup.overlap /\ (setup.manager = "none" \/ ~setup.force)

(* At most one daemon polls the store, and it is the one the pid file and the   *)
(* socket lead to, so that status, stop and the plugin reach it - through       *)
(* crashes, restarts by the manager, a second start, upgrades and uninstalls    *)
(* that overlap with a drain (daemon.ts, service-file.ts, commands/daemon.ts).  *)
OneDaemon ==
    Careful => /\ Cardinality(Polling) <= 1
               /\ \A p \in Polling : pidFile = p /\ socket = p

Wanted == setup.foreground = 0 /\ manager.loaded /\ ~manager.unloading /\ cli.ok /\ budget.commands = 0
Back == Polling # {}

(* A service that is installed and not stopped comes back after every crash,    *)
(* stale pid file or not (KeepAlive, Restart=on-failure, the stale-lock branch of *)
(* startAofDaemon).                                                             *)
Returns == Wanted ~> Back
=============================================================================
