----------------------------- MODULE ServiceLoop -----------------------------
(* AOFService in a vault with projects: which project directories it polls, the *)
(* queue that serialises its polls, their timeout, and start and stop.          *)
EXTENDS Naturals, Sequences, SequencesExt

CONSTANTS
    Projects,   \* project ids, "_inbox" among them
    MaxQueue,   \* polls waiting at most: the bound on triggers
    Setups      \* records: entry, timeouts, restarts, edits, tasks, creates (see MCHost)

VARIABLES
    setup,
    dir,         \* Projects/<id>: none, bare (no project.yaml), valid, broken, archived
    work,        \* tasks ready in the project that no poll has seen
    creator,     \* createProject under way: its project, or "none"
    up,          \* the daemon: down, starting (its first poll), running, draining
    replayed,    \* its recovery pass has run
    stores,      \* projectStores: ids in the order of the Map
    queue,       \* polls chained on pollQueue and not begun
    poll,        \* the poll at the head: idle, or the ids it has still to visit
    late,        \* timed-out polls that go on, likewise
    budget

vars == <<setup, dir, work, creator, up, replayed, stores, queue, poll, late, budget>>

Idle == <<>>
Init ==
    /\ setup \in Setups
    /\ dir = [p \in Projects |-> "none"] /\ work = [p \in Projects |-> 0]
    /\ creator = "none" /\ up = "down" /\ replayed = FALSE /\ stores = <<>> /\ queue = 0
    /\ poll = Idle /\ late = {}
    /\ budget = [k \in {"timeouts", "restarts", "edits", "tasks", "creates"} |-> setup[k]]

Spend(kind) == budget[kind] > 0 /\ budget' = [budget EXCEPT ![kind] = @ - 1]

(* ------------------------------- Directories -------------------------------- *)

(* createProject: a directory that exists is refused, whatever is in it. *)
createProject(p) ==
    /\ creator = "none" /\ dir[p] = "none" /\ p # "_inbox" /\ Spend("creates")
    /\ creator' = p /\ dir' = [dir EXCEPT ![p] = "bare"]
    /\ UNCHANGED <<setup, work, up, replayed, stores, queue, poll, late>>
writeProjectManifest ==
    /\ creator # "none" /\ creator' = "none"
    /\ dir' = [dir EXCEPT ![creator] = "valid"]
    /\ UNCHANGED <<setup, work, up, replayed, stores, queue, poll, late, budget>>
(* The command that creates the project is interrupted. *)
CreatorDies ==
    /\ creator # "none" /\ creator' = "none"
    /\ UNCHANGED <<setup, dir, work, up, replayed, stores, queue, poll, late, budget>>

(* No project.yaml: scaffold and manifest are made.  One that does not parse    *)
(* counts as one.                                                               *)
ensureProjectBootstrapped(p) == IF dir[p] \in {"none", "bare"} THEN "valid" ELSE dir[p]

(* A tool or command opens the project's store and creates a task in it. *)
createProjectStore(p) ==
    /\ Spend("tasks") /\ work' = [work EXCEPT ![p] = 1]
    /\ dir' = [dir EXCEPT ![p] = ensureProjectBootstrapped(p)]
    /\ UNCHANGED <<setup, creator, up, replayed, stores, queue, poll, late>>

(* The owner edits project.yaml, or removes the project. *)
Edit(p, becomes) ==
    /\ dir[p] \in {"valid", "broken", "archived"} /\ becomes # dir[p]
    /\ Spend("edits") /\ dir' = [dir EXCEPT ![p] = becomes]
    /\ work' = IF becomes = "none" THEN [work EXCEPT ![p] = 0] ELSE work
    /\ UNCHANGED <<setup, creator, up, replayed, stores, queue, poll, late>>

(* ------------------------------- Discovery ---------------------------------- *)

(* A missing _inbox is reported as if it were there; archived ones are not.     *)
Found == {p \in Projects : dir[p] \in {"bare", "valid", "broken"}} \cup
         (IF dir["_inbox"] = "none" THEN {"_inbox"} ELSE {})
discoverProjects == {p \in Found : dir[p] = "valid" \/ (p = "_inbox" /\ dir[p] = "none")}

(* store.init makes the directories of the store; not project.yaml. *)
WithInit(ps) == [p \in Projects |-> IF p \in ps /\ dir[p] = "none" THEN "bare" ELSE dir[p]]

(* Mutation of rediscoverProjects: the registry is what it was at boot. *)
rediscoverProjectsFrozen == UNCHANGED <<stores, dir>>
(* New ones are appended; those that are gone, archived or removed, leave.  One *)
(* whose manifest went bad stays.                                               *)
rediscoverProjects ==
    LET added == discoverProjects \ Range(stores)
        keep(p) == p \in Found
    IN  /\ stores' = SelectSeq(stores, keep) \o SetToSeq(added)
        /\ dir' = WithInit(added)

(* --------------------------------- Service ---------------------------------- *)

(* start: the projects, then the first poll is triggered. *)
initializeProjects ==
    /\ up = "down" /\ Spend("restarts") /\ up' = "starting"
    /\ stores' = SetToSeq(discoverProjects) /\ dir' = WithInit(discoverProjects)
    /\ queue' = 1 /\ replayed' = FALSE
    /\ UNCHANGED <<setup, work, creator, poll, late>>

Runs == up \in {"starting", "running"}
(* start awaits the first poll; then the handlers for signals are installed.    *)
Begun == up' = IF up = "starting" THEN "running" ELSE up

(* The recovery pass of the daemon's start opens every project it finds. *)
BootReplay ==
    /\ Runs /\ ~replayed /\ replayed' = TRUE
    /\ dir' = [p \in Projects |-> IF p \in Found THEN ensureProjectBootstrapped(p) ELSE dir[p]]
    /\ UNCHANGED <<setup, work, creator, up, stores, queue, poll, late, budget>>

(* The timer, a session's end, a message. *)
triggerPoll ==
    /\ Runs /\ queue < MaxQueue /\ queue' = queue + 1
    /\ UNCHANGED <<setup, dir, work, creator, up, replayed, stores, poll, late, budget>>

(* The root store and every project store are visited in turn. *)
runPoll ==
    /\ queue > 0 /\ poll = Idle /\ queue' = queue - 1
    /\ rediscoverProjects /\ poll' = <<"root">> \o stores'
    /\ UNCHANGED <<setup, work, creator, up, replayed, late, budget>>

(* The poll of one store: it may fail, the next one is polled all the same.     *)
Seen(p) == IF p \in Projects /\ dir[p] # "none" THEN [work EXCEPT ![p] = 0] ELSE work
(* The iteration over the Map skips entries that were deleted meanwhile.        *)
Rest(visits) == SelectSeq(Tail(visits), LAMBDA p : p \in Range(stores))
pollAllProjects ==
    /\ poll # Idle /\ work' = Seen(Head(poll)) /\ poll' = Rest(poll)
    /\ IF Rest(poll) = Idle THEN Begun ELSE UNCHANGED up
    /\ UNCHANGED <<setup, dir, creator, replayed, stores, queue, late, budget>>
LatePoll(v) ==
    /\ v \in late /\ work' = Seen(Head(v))
    /\ late' = (late \ {v}) \cup (IF Rest(v) = <<>> THEN {} ELSE {Rest(v)})
    /\ UNCHANGED <<setup, dir, creator, up, replayed, stores, queue, poll, budget>>
(* The next poll may begin; the work of this one is not stopped. *)
PollTimeout ==
    /\ poll # Idle /\ Spend("timeouts") /\ late' = late \cup {poll} /\ poll' = Idle /\ Begun
    /\ UNCHANGED <<setup, dir, work, creator, replayed, stores, queue>>

stop ==
    /\ up = "running" /\ budget["restarts"] > 0 /\ up' = "draining"
    /\ UNCHANGED <<setup, dir, work, creator, replayed, stores, queue, poll, late, budget>>
Gone ==
    /\ up' = "down" /\ replayed' = FALSE /\ stores' = <<>> /\ queue' = 0 /\ poll' = Idle /\ late' = {}
    /\ UNCHANGED <<setup, dir, work, creator, budget>>
(* A signal before that ends the process. *)
Killed == up = "starting" /\ budget["restarts"] > 0 /\ Gone
(* pollQueue has settled: the process exits. *)
Drained == up = "draining" /\ poll = Idle /\ queue = 0 /\ Gone
(* aof-daemon, the program of the service, has a handler next to drainAndExit:  *)
(* once the health server has closed, no connection being open, its own stop    *)
(* returns at once, for the service no longer runs, and the process exits.      *)
shutdown == up = "draining" /\ setup.entry = "service" /\ Gone
DrainTimeout == up = "draining" /\ poll # Idle /\ budget["timeouts"] > 0 /\ Gone

Service ==
    \/ BootReplay \/ runPoll \/ pollAllProjects \/ Drained \/ \E v \in late : LatePoll(v)
Next ==
    \/ \E p \in Projects : createProject(p) \/ createProjectStore(p)
                           \/ \E b \in {"none", "valid", "broken", "archived"} : Edit(p, b)
    \/ writeProjectManifest \/ CreatorDies
    \/ initializeProjects \/ triggerPoll \/ Service \/ PollTimeout \/ stop \/ Killed \/ shutdown \/ DrainTimeout

(* The event loop runs what is due, and the timer goes on firing.               *)
Fairness ==
    /\ WF_vars(BootReplay) /\ WF_vars(runPoll) /\ WF_vars(pollAllProjects)
    /\ WF_vars(Drained) /\ WF_vars(triggerPoll)

Spec == Init /\ [][Next]_vars /\ Fairness

(* -------------------------------- Properties --------------------------------- *)

Waits(p) == work[p] = 1 /\ dir[p] \in {"bare", "valid"} /\ Runs
(* A task in any project is seen by a poll while the daemon runs and the        *)
(* project is there: one created after the boot, one left half-made by an       *)
(* interrupted command, the _inbox whose directory only the service made, and   *)
(* one broken and repaired (rediscoverProjects, ensureProjectBootstrapped).     *)
TaskSeen == \A p \in Projects : Waits(p) ~> ~Waits(p)

(* Two polls are never in the middle of their work unless one of them was given *)
(* up at its timeout (pollQueue).                                               *)
PollsSerialized == late # {} => budget.timeouts < setup.timeouts

DrainsFrom(entry) ==
    (setup.entry = entry /\ up = "draining" /\ up' = "down")
      => ((queue = 0 /\ poll = Idle) \/ budget.timeouts > 0)
(* Every poll that was triggered before a stop is carried out before a daemon   *)
(* in the foreground exits, unless the drain times out (stop awaits pollQueue). *)
StopDrains == [][DrainsFrom("foreground")]_vars

(* What docs/dev/architecture.md says of every daemon, "drains in-flight polls  *)
(* with a 10-second timeout", of the one the service manager runs.              *)
ServiceDrains == [][DrainsFrom("service")]_vars
=============================================================================
