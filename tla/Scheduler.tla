----------------------------- MODULE Scheduler -----------------------------
(* The dispatch loop: polls that plan from a snapshot and then execute      *)
(* their plan one action at a time, the agent sessions the plan starts, and *)
(* everything that moves a task in between: the sessions' tool calls and    *)
(* completion reports, the results the plugin posts back, lease renewal,    *)
(* the clock, the user's commands, and a crash of the daemon followed by a  *)
(* restart.                                                                 *)
(*                                                                          *)
(* Store operations are atomic here (TaskFiles opens them up) and so is a   *)
(* handler, but for the assign action, which holds the task's protocol lock *)
(* from the lease to the end of the spawn.                                  *)
EXTENDS DispatchPlan

CONSTANT Pollers    \* poll bodies running at once: two when one has timed out

(* Of the setup: metadata.reviewRequired # false, the statuses the tasks    *)
(* start in, and the bounds on the spawn attempts, the user's commands, the *)
(* session-end events that find something to do, and the daemon's crashes.  *)
ReviewRequired == setup.reviewRequired
MaxAttempts == setup.bounds.attempts
MaxInterventions == setup.bounds.interventions
MaxSessionEnds == setup.bounds.sessionEnds
MaxCrashes == setup.bounds.crashes

ASSUME BoundsAssumption ==
    \A e \in Setups :
        /\ e.reviewRequired \in BOOLEAN
        /\ e.initial \in [Tasks -> SUBSET (InitialStatuses \cup {"cancelled"})]
        /\ e.bounds \in [{"attempts", "interventions", "sessionEnds", "crashes"} -> Nat]

VARIABLES
    task,       \* the task files with their run artifacts (see DispatchPlan)
    polls,      \* per running poll: snapDone, the tasks done in its snapshot;
                \*   plan, the actions left; held, the task it is spawning
    owner,      \* owner[s]: the task session s was started for
    alive,      \* the sessions whose agent is still running (plugin side)
    pending,    \* PluginBridgeAdapter.pending: sessions awaiting their result
    renewing,   \* leaseRenewalTimers: the tasks with a renewal timer
    count       \* what the bounds bound: attempts, interventions, sessionEnds, crashes

dynamic == <<task, polls, owner, alive, pending, renewing, count>>

vars == <<setup, dynamic>>

Outcomes == {"done", "blocked", "needs_review"}

Classes == {"none", "transient", "permanent", "model_silent_failure"}

Record == [status  : Statuses,
           lease   : {"none", "live", "expired"},
           hb      : {"none", "fresh", "stale"},
           retry   : Nat,
           fails   : Nat,
           reason  : {"none", "spawn_failed", "user"},
           class   : Classes,
           backoff : BOOLEAN,
           session : Nat,
           result  : {"none"} \cup Outcomes]

ActionTypes == {"expire_lease", "stale_heartbeat", "promote", "assign", "block",
                "requeue", "deadletter"}

Idle == [snapDone |-> {}, plan |-> {}, held |-> {}]

Created(s) == [status |-> s, lease |-> "none", hb |-> "none", retry |-> 0, fails |-> 0,
               reason |-> "none", class |-> "none", backoff |-> FALSE, session |-> 0,
               result |-> "none"]

Init ==
    /\ setup \in Setups
    /\ task \in [Tasks -> {Created(s) : s \in Statuses}]
    /\ \A t \in Tasks : task[t].status \in setup.initial[t]
    /\ polls = [p \in Pollers |-> Idle]
    /\ owner = <<>>
    /\ alive = {} /\ pending = {} /\ renewing = {}
    /\ count = [attempts |-> 0, interventions |-> 0, sessionEnds |-> 0, crashes |-> 0]

-----------------------------------------------------------------------------
(* store.transition() on a task record: a no-op when the task is there      *)
(* already, an exception without effect when the table forbids the move.    *)
transition(r, to) ==
    IF isValidTransition(r.status, to)
    THEN [r EXCEPT !.status = to, !.lease = IF to \in LeaseClearing THEN "none" ELSE @]
    ELSE r

(* applyCompletionOutcome(): each target of resolveCompletionTransitions()  *)
(* in turn, the ones the table forbids skipped.                             *)
ApplyOutcome(r, outcome) ==
    IF r.status = "done" THEN r
    ELSE CASE outcome = "blocked"                 -> transition(r, "blocked")
           [] outcome = "done" /\ ~ReviewRequired -> transition(transition(r, "review"), "done")
           [] OTHER                               -> transition(r, "review")

(* cascadeOnCompletion(): the dependents of t that wait for nothing else    *)
(* become ready.                                                            *)
cascadeOnCompletion(f, t) ==
    [u \in Tasks |-> IF /\ t \in Deps[u]
                        /\ f[u].status \in {"backlog", "blocked"}
                        /\ DepsDone(f, u)
                     THEN transition(f[u], "ready")
                     ELSE f[u]]

(* The task files after t takes the outcome of a run. *)
Completed(f, t, outcome) ==
    LET g == [f EXCEPT ![t] = ApplyOutcome(@, outcome)]
    IN IF outcome = "done" THEN cascadeOnCompletion(g, t) ELSE g

(* handleRunComplete()'s enforcement on a task that its run left in         *)
(* progress: record the error class if there is one, count the failure, and *)
(* deadletter or block the task.                                            *)
Enforced(r, class) ==
    LET charged == [r EXCEPT !.class = IF class = "none" THEN @ ELSE class, !.fails = @ + 1]
    IN transition(charged, IF shouldTransitionToDeadletter(charged) THEN "deadletter" ELSE "blocked")

handleRunComplete(r, class) == IF r.status = "in-progress" THEN Enforced(r, class) ELSE r

-----------------------------------------------------------------------------
(* The protocol lock of t: only the assign action keeps it over several     *)
(* steps.                                                                   *)
LockFree(t) == \A p \in Pollers : t \notin polls[p].held

(* One more of the steps that a bound limits. *)
Tick(what, bound) ==
    /\ count[what] < bound
    /\ count' = [count EXCEPT ![what] = @ + 1]

(* poll(): snapshot, clean up the renewal timers, plan. *)
Poll(p) ==
    /\ polls[p] = Idle
    /\ polls' = [polls EXCEPT ![p] =
                    IF Plan(task) = {} THEN Idle
                    ELSE [snapDone |-> With(task, "done"), plan |-> Plan(task), held |-> {}]]
    /\ renewing' = {t \in renewing : task[t].status = "in-progress" /\ task[t].lease = "live"}
    /\ UNCHANGED <<task, owner, alive, pending, count>>

(* The next action of poll p is of this type and about t. *)
NextIs(p, type, t) ==
    /\ polls[p].held = {}
    /\ \E a \in First(polls[p].plan) : a.type = type /\ a.task = t

(* The poll after its first action, back to Idle after the last one. *)
Advance(p) ==
    LET left == polls[p].plan \ First(polls[p].plan)
    IN polls' = [polls EXCEPT ![p] =
                    IF left = {} THEN Idle
                    ELSE [snapDone |-> polls[p].snapDone, plan |-> left, held |-> {}]]

(* Mutation of LeaseExpired: a task in progress loses its lease and stays. *)
LeaseExpiredOnly(r, t, snapDone) == [r EXCEPT !.lease = "none"]

(* handleExpireLease() on the record it reads. *)
LeaseExpired(r, t, snapDone) ==
    LET freed == [r EXCEPT !.lease = "none"]
        ready == transition(freed, "ready")
    IN CASE r.status # "blocked" -> ready
         [] r.status = "blocked" /\ r.reason = "spawn_failed" ->
                CASE RetryVerdict(r) = "deadletter" -> transition(freed, "deadletter")
                  [] RetryVerdict(r) = "allow"      -> ready
                  [] OTHER                          -> freed
         [] OTHER -> IF Deps[t] \subseteq snapDone THEN ready ELSE freed

handleExpireLease(p, t) ==
    /\ NextIs(p, "expire_lease", t)
    /\ LockFree(t)
    /\ task' = [task EXCEPT ![t] = LeaseExpired(@, t, polls[p].snapDone)]
    /\ Advance(p)
    /\ UNCHANGED <<owner, alive, pending, renewing, count>>

(* handleStaleHeartbeat(): a task still in progress under the same lease    *)
(* has its session force-completed, which runs handleRunComplete() when the *)
(* adapter still waits for the session; then the task is reclaimed, or      *)
(* takes the outcome of its run_result.json.                                *)
handleStaleHeartbeat(p, t) ==
    LET r == task[t]
        acts == r.status = "in-progress" /\ r.lease # "none"
        forced == acts /\ r.session \in pending
        after == IF forced THEN handleRunComplete(r, "none") ELSE r
    IN /\ NextIs(p, "stale_heartbeat", t)
       /\ task' = IF ~acts THEN task
                  ELSE IF r.result = "none"
                       THEN [task EXCEPT ![t] = transition(after, "ready")]
                       ELSE Completed([task EXCEPT ![t] = after], t, r.result)
       /\ pending' = IF forced THEN pending \ {r.session} ELSE pending
       /\ renewing' = IF forced THEN renewing \ {t} ELSE renewing
       /\ Advance(p)
       /\ UNCHANGED <<owner, alive, count>>

(* promote, block, requeue and deadletter end in one transition each, made  *)
(* whatever became of the task since the snapshot.                          *)
Target == [promote |-> "ready", block |-> "blocked", requeue |-> "ready", deadletter |-> "deadletter"]

handleMove(p, t) ==
    /\ \E type \in DOMAIN Target :
          /\ NextIs(p, type, t)
          /\ task' = [task EXCEPT ![t] = transition(@, Target[type])]
    /\ Advance(p)
    /\ UNCHANGED <<owner, alive, pending, renewing, count>>

(* executeAssignAction() up to acquireLease(): the task must still be ready *)
(* and unleased, else the action is dropped.                                *)
AssignSkip(p, t) ==
    /\ NextIs(p, "assign", t)
    /\ LockFree(t)
    /\ task[t].status # "ready" \/ task[t].lease = "live"
    /\ Advance(p)
    /\ UNCHANGED <<task, owner, alive, pending, renewing, count>>

AssignLease(p, t) ==
    /\ NextIs(p, "assign", t)
    /\ LockFree(t)
    /\ task[t].status = "ready" /\ task[t].lease # "live"
    /\ task' = [task EXCEPT ![t].status = "in-progress", ![t].lease = "live", ![t].hb = "fresh"]
    /\ polls' = [polls EXCEPT ![p].held = {t}]
    /\ UNCHANGED <<owner, alive, pending, renewing, count>>

(* spawnSession() succeeds: the session is queued for the plugin, its id    *)
(* saved on the task, and the lease renewed from now on.                    *)
SpawnSucceeds(p, t) ==
    /\ t \in polls[p].held
    /\ Tick("attempts", MaxAttempts)
    /\ owner' = Append(owner, t)
    /\ alive' = alive \cup {Len(owner')}
    /\ pending' = pending \cup {Len(owner')}
    /\ renewing' = renewing \cup {t}
    /\ task' = [task EXCEPT ![t].session = Len(owner')]
    /\ Advance(p)

(* no-plugin-attached: the lease is released and the task held in ready. *)
SpawnHeld(p, t) ==
    /\ t \in polls[p].held
    /\ task' = [task EXCEPT ![t] = IF @.lease = "none" THEN @ ELSE transition(@, "ready")]
    /\ Advance(p)
    /\ UNCHANGED <<owner, alive, pending, renewing, count>>

(* Any other spawn error: counted on the task, which is deadlettered or     *)
(* blocked for a retry.                                                     *)
SpawnFailed(r, class) ==
    LET noted == [r EXCEPT !.retry = @ + 1, !.reason = "spawn_failed", !.class = class, !.backoff = TRUE]
    IN transition(noted, IF class = "permanent" THEN "deadletter" ELSE "blocked")

SpawnFails(p, t) ==
    /\ t \in polls[p].held
    /\ Tick("attempts", MaxAttempts)
    /\ \E class \in {"transient", "permanent"} : task' = [task EXCEPT ![t] = SpawnFailed(@, class)]
    /\ Advance(p)
    /\ UNCHANGED <<owner, alive, pending, renewing>>

(* An exception after the lease was taken: logged, and the task is left in  *)
(* progress under a lease that nobody renews.                               *)
SpawnThrows(p, t) ==
    /\ t \in polls[p].held
    /\ Tick("attempts", MaxAttempts)
    /\ Advance(p)
    /\ UNCHANGED <<task, owner, alive, pending, renewing>>

-----------------------------------------------------------------------------
(* aof_task_complete: whatever the status, the task is walked to done; from *)
(* backlog and from the terminal statuses the first move throws.            *)
TaskComplete(r) ==
    IF r.status \in {"in-progress", "review", "ready", "blocked"}
    THEN [r EXCEPT !.status = "done", !.lease = "none"] ELSE r

(* aof_task_block *)
TaskBlock(r) ==
    IF r.status \in {"backlog", "ready", "in-progress", "review"}
    THEN transition([r EXCEPT !.reason = "user"], "blocked") ELSE r

(* The agent of session s calls a task tool, or sends a completion report   *)
(* that the router applies under the task's protocol lock.                  *)
AgentTool(s) ==
    /\ s \in alive
    /\ \/ task' = [task EXCEPT ![owner[s]] = TaskComplete(@)]
       \/ task' = [task EXCEPT ![owner[s]] = TaskBlock(@)]
    /\ UNCHANGED <<polls, owner, alive, pending, renewing, count>>

handleCompletionReport(s) ==
    /\ s \in alive
    /\ LockFree(owner[s])
    /\ \E outcome \in Outcomes :
          task' = Completed([task EXCEPT ![owner[s]].result = outcome], owner[s], outcome)
    /\ UNCHANGED <<polls, owner, alive, pending, renewing, count>>

(* Mutation of deliverResult: a result is taken whether or not the adapter  *)
(* still waits for the session.                                             *)
deliverResultAlways(s) ==
    /\ s \in alive
    /\ alive' = alive \ {s}
    /\ pending' = pending \ {s}
    /\ renewing' = renewing \ {owner[s]}
    /\ \E class \in Classes : task' = [task EXCEPT ![owner[s]] = handleRunComplete(@, class)]
    /\ UNCHANGED <<polls, owner, count>>

(* The agent ends and the plugin posts its result: deliverResult() runs     *)
(* handleRunComplete(), unless the adapter no longer waits for the session. *)
deliverResult(s) ==
    /\ s \in alive
    /\ alive' = alive \ {s}
    /\ pending' = pending \ {s}
    /\ IF s \in pending
       THEN /\ renewing' = renewing \ {owner[s]}
            /\ \E class \in Classes : task' = [task EXCEPT ![owner[s]] = handleRunComplete(@, class)]
       ELSE UNCHANGED <<renewing, task>>
    /\ UNCHANGED <<polls, owner, count>>

(* The agent dies, or its plugin does, and no result is ever posted. *)
SessionLost(s) ==
    /\ s \in alive
    /\ alive' = alive \ {s}
    /\ UNCHANGED <<task, polls, owner, pending, renewing, count>>

(* The session-end event of any session (and before-compaction, which is    *)
(* handled alike): every task in progress with a run_result.json takes its  *)
(* outcome, one task after the other.                                       *)
handleSessionEnd(t) ==
    /\ task[t].status = "in-progress" /\ task[t].result # "none"
    /\ Tick("sessionEnds", MaxSessionEnds)
    /\ task' = Completed(task, t, task[t].result)
    /\ UNCHANGED <<polls, owner, alive, pending, renewing>>

-----------------------------------------------------------------------------
(* The renewal timer fires: renewLease() extends whatever lease the task    *)
(* has; without one, or with its renewals used up, it fails and the timer   *)
(* is stopped.                                                              *)
Renew(t) ==
    /\ t \in renewing
    /\ task[t].lease # "none"
    /\ task' = [task EXCEPT ![t].lease = "live"]
    /\ UNCHANGED <<polls, owner, alive, pending, renewing, count>>

RenewFails(t) ==
    /\ t \in renewing
    /\ renewing' = renewing \ {t}
    /\ UNCHANGED <<task, polls, owner, alive, pending, count>>

(* Time passes, as far as a task in this status shows it: heartbeats are    *)
(* looked at in progress, the backoff in blocked, a lease's end in both.    *)
LeaseLapses(t) ==
    /\ task[t].status \in {"in-progress", "blocked"}
    /\ task[t].lease = "live"
    /\ task' = [task EXCEPT ![t].lease = "expired"]
    /\ UNCHANGED <<polls, owner, alive, pending, renewing, count>>

HeartbeatLapses(t) ==
    /\ task[t].status = "in-progress"
    /\ task[t].hb = "fresh"
    /\ task' = [task EXCEPT ![t].hb = "stale"]
    /\ UNCHANGED <<polls, owner, alive, pending, renewing, count>>

BackoffElapses(t) ==
    /\ task[t].status = "blocked"
    /\ task[t].backoff
    /\ task' = [task EXCEPT ![t].backoff = FALSE]
    /\ UNCHANGED <<polls, owner, alive, pending, renewing, count>>

-----------------------------------------------------------------------------
(* The user's commands: cancel, unblock, resurrect, and the task tools. *)
Cancel(r) == IF r.status \in Closed THEN r ELSE [r EXCEPT !.status = "cancelled", !.lease = "none"]

Unblock(r) ==
    IF r.status = "blocked" THEN transition([r EXCEPT !.reason = "none", !.retry = 0], "ready") ELSE r

Resurrect(r) ==
    IF r.status = "deadletter"
    THEN transition([r EXCEPT !.fails = 0, !.retry = 0, !.class = "none"], "ready") ELSE r

UserCommand(t) ==
    /\ Tick("interventions", MaxInterventions)
    /\ \E new \in {Cancel(task[t]), Unblock(task[t]), Resurrect(task[t]),
                   TaskComplete(task[t]), TaskBlock(task[t])} :
          task' = [task EXCEPT ![t] = new]
    /\ UNCHANGED <<polls, owner, alive, pending, renewing>>

(* The daemon dies and is started again: polls, timers and the adapter's    *)
(* table are gone, the agents go on, and reconcileOrphans() moves every     *)
(* task in progress back to ready before the first poll.                    *)
CrashAndRestart ==
    /\ Tick("crashes", MaxCrashes)
    /\ polls' = [p \in Pollers |-> Idle]
    /\ pending' = {}
    /\ renewing' = {}
    /\ task' = [t \in Tasks |-> IF task[t].status = "in-progress" THEN transition(task[t], "ready")
                                ELSE task[t]]
    /\ UNCHANGED <<owner, alive>>

-----------------------------------------------------------------------------
Execute(p, t) ==
    \/ handleExpireLease(p, t) \/ handleStaleHeartbeat(p, t) \/ handleMove(p, t)
    \/ AssignSkip(p, t) \/ AssignLease(p, t)
    \/ SpawnSucceeds(p, t) \/ SpawnHeld(p, t) \/ SpawnFails(p, t) \/ SpawnThrows(p, t)

Session(s) == AgentTool(s) \/ handleCompletionReport(s) \/ deliverResult(s) \/ SessionLost(s)

Clock(t) == LeaseLapses(t) \/ HeartbeatLapses(t) \/ BackoffElapses(t)

Next ==
    /\ \/ \E p \in Pollers : Poll(p) \/ \E t \in Tasks : Execute(p, t)
       \/ \E s \in DOMAIN owner : Session(s)
       \/ \E t \in Tasks : handleSessionEnd(t) \/ Renew(t) \/ RenewFails(t) \/ Clock(t) \/ UserCommand(t)
       \/ CrashAndRestart
    /\ UNCHANGED setup

Spec == Init /\ [][Next]_vars

(* The sessions that the bounds leave room for. *)
SessionIds == UNION {1..e.bounds.attempts : e \in Setups}

(* The service triggers a poll on every interval and a poll's loop runs to  *)
(* its end; clocks advance; a timer gives up after LEASE_RENEWAL_MAX (20)   *)
(* renewals; every agent run ends or is lost.                               *)
Fairness ==
    /\ \A p \in Pollers : WF_dynamic(Poll(p)) /\ WF_dynamic(\E t \in Tasks : Execute(p, t))
    /\ \A t \in Tasks : /\ WF_dynamic(LeaseLapses(t) /\ t \notin renewing) /\ WF_dynamic(RenewFails(t))
                        /\ WF_dynamic(HeartbeatLapses(t)) /\ WF_dynamic(BackoffElapses(t))
    /\ \A s \in SessionIds : WF_dynamic(s \in DOMAIN owner /\ (deliverResult(s) \/ SessionLost(s)))

FairSpec == Spec /\ Fairness

-----------------------------------------------------------------------------
TypeOK ==
    /\ setup \in Setups
    /\ task \in [Tasks -> Record]
    /\ polls \in [Pollers -> [snapDone : SUBSET Tasks,
                              plan : SUBSET [stage : 1..7, type : ActionTypes, task : Tasks],
                              held : SUBSET Tasks]]
    /\ owner \in Seq(Tasks)
    /\ alive \subseteq DOMAIN owner /\ pending \subseteq DOMAIN owner
    /\ renewing \subseteq Tasks
    /\ count \in [DOMAIN setup.bounds -> Nat]
    /\ \A what \in DOMAIN count : count[what] <= setup.bounds[what]

(* No more tasks are in progress than maxConcurrentDispatches allows,       *)
(* although a poll counts them in its snapshot and dispatches later.        *)
ConcurrencyLimit == Cardinality(With(task, "in-progress")) <= MaxConcurrent

(* No team has more tasks in progress than its dispatch.maxConcurrent.      *)
TeamLimit ==
    \A t \in Tasks : Team[t] # "none" =>
        Cardinality({u \in With(task, "in-progress") : Team[u] = Team[t]}) <= TeamMax

(* A session is only ever started for a task whose dependencies and         *)
(* subtasks are all done, whichever way the task became ready.              *)
GateRespected ==
    \A s \in DOMAIN owner : DepsDone(task, owner[s]) /\ SubtasksDone(task, owner[s])

(* Blocked by a failed spawn, its retries used up. *)
Exhausted(r) == r.status = "blocked" /\ r.reason = "spawn_failed" /\ r.retry >= MaxRetries

(* A task whose spawn failed maxDispatchRetries times is not made ready     *)
(* again, whatever a poll had decided about it before and however lease     *)
(* expiry, results, crashes and the user's commands come in between, until  *)
(* its counter is reset or a dependency of it is reported done once more    *)
(* (shouldAllowSpawnFailedRequeue; a task being spawned is not concerned).  *)
RetriesRespected ==
    [][\A t \in Tasks :
          Exhausted(task[t]) /\ LockFree(t) /\ task'[t].status = "ready" =>
              task'[t].retry = 0 \/ \E d \in Deps[t] : task'[d].result = "done"]_vars

(* A session is charged to its task's failure budget at most once, even     *)
(* when a stale heartbeat force-completes it and its result arrives later.  *)
ChargedOnce ==
    \A t \in Tasks :
        task[t].fails <= Cardinality({s \in DOMAIN owner : owner[s] = t /\ s \notin pending})

(* Only one task per resource is in progress at a time, when a poll starts  *)
(* at most one task (two planned together are not compared).                *)
ResourceExclusive ==
    MaxPerPoll <= 1 =>
        \A t, u \in With(task, "in-progress") :
            Resource[t] = Resource[u] => t = u \/ Resource[t] = "none"

(* A task in progress whose agent is gone without a trace is taken out of   *)
(* progress again.                                                          *)
OrphansReclaimed ==
    \A t \in Tasks :
        (task[t].status = "in-progress" /\ \A s \in alive : owner[s] # t)
            ~> task[t].status # "in-progress"

(* A task blocked by a failed spawn is eventually retried, deadlettered or  *)
(* taken over by someone.                                                   *)
SpawnFailuresRetried ==
    \A t \in Tasks :
        (task[t].status = "blocked" /\ task[t].reason = "spawn_failed") ~> task[t].status # "blocked"

(* Capacity: whatever a poll starts from its snapshot, the global limit, the *)
(* limits of the teams and the exclusive resources hold (throttle.ts,        *)
(* task-dispatcher.ts).                                                      *)
LimitsKept == TypeOK /\ ConcurrencyLimit /\ TeamLimit /\ ResourceExclusive

(* No task is forgotten: a dead agent's leaves in-progress, one whose spawn  *)
(* failed leaves blocked (recovery, lease expiry and their handlers).        *)
NoTaskStuck == OrphansReclaimed /\ SpawnFailuresRetried
=============================================================================
