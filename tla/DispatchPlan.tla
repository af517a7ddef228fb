---------------------------- MODULE DispatchPlan ----------------------------
(* What one scheduler poll decides from its snapshot of the task files: the *)
(* actions that poll() hands to executeActions(), as a set, and the order   *)
(* they come in (no task is in the list twice with the same action).  Every *)
(* operator takes the snapshot `snap', a function from tasks to records     *)
(*   status    the task's status                                            *)
(*   lease     "none", "live" or "expired" (lease.expiresAt against now)    *)
(*   hb        its run_heartbeat.json: "none", "fresh" or "stale"           *)
(*   retry     metadata.retryCount, the spawns that failed                  *)
(*   fails     metadata.dispatchFailures, the runs that did not complete    *)
(*   reason    metadata.blockReason: "none", "spawn_failed" or "user"       *)
(*   class     metadata.errorClass: "none", "transient" (rate_limited       *)
(*             included), "permanent" or "model_silent_failure"             *)
(*   backoff   the retry backoff after lastBlockedAt has not elapsed        *)
(*   session   metadata.sessionId, 0 when it was never dispatched           *)
(*   result    the outcome in its run_result.json, "none" without one       *)
(* The dependency graph is fixed and acyclic here, every task has a routing *)
(* target and no dispatch interval is configured.                           *)
EXTENDS TaskStatus, Integers, FiniteSets, Sequences

CONSTANTS
    Tasks,
    Listing,         \* the order in which store.list() returns the tasks
    Setups           \* the task graphs and configurations considered

VARIABLE setup       \* the one of this behaviour, chosen at the start

Deps == setup.deps                    \* frontmatter.dependsOn
Parent == setup.parent                \* frontmatter.parentId, the task itself when it has none
Resource == setup.resource            \* frontmatter.resource, "none" without one
Team == setup.team                    \* routing.team, "none" without one
TeamMax == setup.teamMax              \* team.dispatch.maxConcurrent, for every team
MaxConcurrent == setup.maxConcurrent  \* maxConcurrentDispatches
MaxPerPoll == setup.maxPerPoll        \* maxDispatchesPerPoll
MaxRetries == setup.maxRetries        \* maxDispatchRetries

ASSUME SetupsAssumption ==
    \A e \in Setups :
        /\ e.deps \in [Tasks -> SUBSET Tasks]
        /\ e.parent \in [Tasks -> Tasks]
        /\ {e.maxConcurrent, e.maxPerPoll, e.maxRetries, e.teamMax} \subseteq Nat

ASSUME ListingAssumption ==
    /\ IsFiniteSet(Tasks)
    /\ Listing \in Seq(Tasks)
    /\ {Listing[i] : i \in DOMAIN Listing} = Tasks
    /\ \A i, j \in DOMAIN Listing : Listing[i] = Listing[j] => i = j

-----------------------------------------------------------------------------
With(snap, s) == {t \in Tasks : snap[t].status = s}

Children(t) == {c \in Tasks : Parent[c] = t /\ c # t}

(* All dependencies of t are done, a missing one counting as not done. *)
DepsDone(snap, t) == \A d \in Deps[t] : snap[d].status = "done"

SubtasksDone(snap, t) == \A c \in Children(t) : snap[c].status = "done"

(* MAX_DISPATCH_FAILURES, the runs without completion a task is allowed. *)
MAX_DISPATCH_FAILURES == 3

shouldTransitionToDeadletter(r) ==
    \/ r.class \in {"permanent", "model_silent_failure"}
    \/ r.fails >= MAX_DISPATCH_FAILURES

(* Mutation of RetryVerdict: one retry too many. *)
RetryVerdictOffByOne(r) ==
    IF r.class = "permanent" \/ r.retry > MaxRetries THEN "deadletter"
    ELSE IF r.backoff THEN "wait" ELSE "allow"

(* shouldAllowSpawnFailedRequeue: deadletter, allow, or wait for the backoff. *)
RetryVerdict(r) ==
    IF r.class = "permanent" \/ r.retry >= MaxRetries THEN "deadletter"
    ELSE IF r.backoff THEN "wait" ELSE "allow"

-----------------------------------------------------------------------------
(* poll() collects its actions in stages, and each stage goes through the   *)
(* listing; the scan for expired leases is two stages, tasks in progress    *)
(* before blocked ones.                                                     *)
Stages == [expireRunning |-> 1, expireBlocked |-> 2, stale |-> 3, promote |-> 4,
           assign |-> 5, block |-> 6, recover |-> 7]

Action(stage, type, t) == [stage |-> Stages[stage], type |-> type, task |-> t]

Before(t, u) == \E i, j \in DOMAIN Listing : i < j /\ Listing[i] = t /\ Listing[j] = u

(* The order of execution. *)
Precedes(a, b) == a.stage < b.stage \/ (a.stage = b.stage /\ Before(a.task, b.task))

First(plan) == {a \in plan : \A b \in plan \ {a} : Precedes(a, b)}

checkExpiredLeases(snap) ==
    LET Expired(s) == {t \in With(snap, s) : snap[t].lease = "expired"}
    IN {Action("expireRunning", "expire_lease", t) : t \in Expired("in-progress")}
         \cup {Action("expireBlocked", "expire_lease", t) : t \in Expired("blocked")}

checkStaleHeartbeats(snap) ==
    {Action("stale", "stale_heartbeat", t) :
        t \in {u \in With(snap, "in-progress") : snap[u].hb = "stale"}}

checkPromotionEligibility(snap, t) ==
    /\ DepsDone(snap, t)
    /\ SubtasksDone(snap, t)
    /\ snap[t].lease # "live"

checkBacklogPromotion(snap) ==
    {Action("promote", "promote", t) :
        t \in {u \in With(snap, "backlog") : checkPromotionEligibility(snap, u)}}

(* The resources held by the tasks in progress at the snapshot. *)
OccupiedResources(snap) ==
    {Resource[t] : t \in {u \in With(snap, "in-progress") : Resource[u] # "none"}}

(* Mutation of Eligible: the dependency gate is forgotten. *)
EligibleWithoutGate(snap, t) ==
    /\ snap[t].status = "ready"
    /\ SubtasksDone(snap, t)
    /\ snap[t].lease # "live"
    /\ Resource[t] \notin OccupiedResources(snap)

(* The ready tasks that buildDispatchActions() does not skip before the     *)
(* throttle: no incomplete subtask, all dependencies done, no active lease, *)
(* resource free.                                                           *)
Eligible(snap, t) ==
    /\ snap[t].status = "ready"
    /\ SubtasksDone(snap, t)
    /\ DepsDone(snap, t)
    /\ snap[t].lease # "live"
    /\ Resource[t] \notin OccupiedResources(snap)

(* Mutation of TeamHasRoom: planned dispatches do not reserve a team slot. *)
TeamHasRoomUnreserved(snap, t) ==
    Team[t] # "none" =>
        Cardinality({u \in With(snap, "in-progress") : Team[u] = Team[t]}) < TeamMax

(* checkThrottle's team limit: the team's tasks in progress and the ones    *)
(* already planned in this poll leave a slot for t.                         *)
TeamHasRoom(snap, t) ==
    Team[t] # "none" =>
        Cardinality({u \in Tasks : /\ Team[u] = Team[t]
                                   /\ \/ snap[u].status = "in-progress"
                                      \/ Eligible(snap, u) /\ Before(u, t)}) < TeamMax

(* How many dispatches checkThrottle's global limits leave for this poll:   *)
(* maxConcurrentDispatches minus the tasks in progress, at most             *)
(* maxDispatchesPerPoll.                                                    *)
Slots(snap) ==
    LET free == MaxConcurrent - Cardinality(With(snap, "in-progress"))
    IN CASE free < 0          -> 0
         [] free > MaxPerPoll -> MaxPerPoll
         [] OTHER             -> free

(* The loop over the ready tasks admits a task when its team and the global *)
(* limits still have room; a refused task takes no slot, so the admitted    *)
(* ones are the first Slots of those whose team has room.                   *)
Willing(snap) == {t \in Tasks : Eligible(snap, t) /\ TeamHasRoom(snap, t)}

Admitted(snap) ==
    {t \in Willing(snap) : Cardinality({u \in Willing(snap) : Before(u, t)}) < Slots(snap)}

assignActions(snap) == {Action("assign", "assign", t) : t \in Admitted(snap)}

(* Parents with incomplete subtasks are blocked, whatever their status but  *)
(* blocked and done.                                                        *)
blockActions(snap) ==
    {Action("block", "block", t) :
        t \in {u \in Tasks : ~SubtasksDone(snap, u) /\ snap[u].status \notin {"blocked", "done"}}}

buildDispatchActions(snap) == assignActions(snap) \cup blockActions(snap)

(* checkBlockedTaskRecovery, per blocked task: the retry verdict after a    *)
(* failed spawn, otherwise requeue once its dependencies and subtasks are   *)
(* done; a task with neither is left alone.                                 *)
RecoveryOf(snap, t) ==
    LET r == snap[t]
    IN IF r.status # "blocked" THEN "none"
       ELSE IF r.reason = "spawn_failed" THEN RetryVerdict(r)
       ELSE IF Deps[t] \cup Children(t) # {} /\ DepsDone(snap, t) /\ SubtasksDone(snap, t) THEN "allow"
       ELSE "none"

(* One action per blocked task at most. *)
checkBlockedTaskRecovery(snap) ==
    LET Recovered(verdict) == {t \in Tasks : RecoveryOf(snap, t) = verdict}
    IN {Action("recover", "requeue", t) : t \in Recovered("allow")}
         \cup {Action("recover", "deadletter", t) : t \in Recovered("deadletter")}

(* poll(): the actions of one poll. *)
Plan(snap) ==
    checkExpiredLeases(snap) \cup checkStaleHeartbeats(snap) \cup checkBacklogPromotion(snap)
        \cup buildDispatchActions(snap) \cup checkBlockedTaskRecovery(snap)
=============================================================================
