-------------------------- MODULE SchedulerProofs --------------------------
(* The dispatch loop for any tasks, task graphs, configurations and bounds. *)
(*                                                                          *)
(* A session is only started for a task whose dependencies and subtasks are *)
(* done, and no session is charged twice to its task, whatever the number   *)
(* of poll bodies that run at once.  The argument: done is a status without *)
(* a way out, so what held of a task when its dispatch was planned holds    *)
(* when it is made (PlansGated); and a task's session id is that of a       *)
(* session started for it (SessionsInStep), so the entry of the adapter's   *)
(* table that a forced completion removes is the task's own.                *)
(*                                                                          *)
(* The limits on what is in progress hold while one poll body runs at a     *)
(* time.  A dispatch is made long after it was counted, so the limits are   *)
(* kept by the tasks in progress together with those that the plan is still *)
(* to dispatch (Load): only a poll adds to them.  And a verdict on a        *)
(* blocked task, reached when the poll planned, still stands when it is     *)
(* carried out, since no other poll spawns the task in between              *)
(* (VerdictsStand).                                                         *)
EXTENDS Scheduler, FiniteSetTheorems, TLAPS

OnePoller == \A p, q \in Pollers : p = q

Gated(t) == DepsDone(task, t) /\ SubtasksDone(task, t)

(* Whatever a poll is still to dispatch, or is spawning, may be started. *)
PlansGated ==
    \A p \in Pollers :
        /\ \A a \in polls[p].plan : a.type = "assign" => Gated(a.task)
        /\ \A t \in polls[p].held : Gated(t)

SessionsInStep ==
    \A t \in Tasks :
        /\ task[t].session <= Len(owner)
        /\ task[t].session \in pending => owner[task[t].session] = t

(* The tasks in progress, and the ones that a plan is still to dispatch. *)
Planned == {t \in Tasks : \E p \in Pollers : \E a \in polls[p].plan : a.type = "assign" /\ a.task = t}

Load == With(task, "in-progress") \cup Planned

OfTeam(S, t) == {u \in S : Team[u] = Team[t]}

LoadWithinLimits ==
    /\ Cardinality(Load) <= MaxConcurrent
    /\ \A t \in Tasks : Team[t] # "none" => Cardinality(OfTeam(Load, t)) <= TeamMax
    /\ MaxPerPoll <= 1 =>
           \A t, u \in Load : Resource[t] = Resource[u] => t = u \/ Resource[t] = "none"

(* Its spawn failed, and its retries are used up. *)
Failed(r) == r.reason = "spawn_failed" /\ r.retry >= MaxRetries

VerdictsStand ==
    /\ \A t \in Tasks : task[t].status = "backlog" => task[t].reason # "spawn_failed"
    /\ \A p \in Pollers :
           /\ \A t \in polls[p].held :
                  /\ task[t].status # "backlog"
                  /\ \E a \in polls[p].plan : a.type = "assign" /\ a.task = t
           /\ \A a \in polls[p].plan :
                  a.type \in {"promote", "requeue"} =>
                      /\ ~Failed(task[a.task])
                      /\ \A b \in polls[p].plan : b.type = "assign" => b.task # a.task

IInv ==
    /\ TypeOK
    /\ PlansGated /\ GateRespected
    /\ SessionsInStep /\ ChargedOnce
    /\ OnePoller => LoadWithinLimits /\ VerdictsStand

-----------------------------------------------------------------------------
(* What the handlers do to a task record. *)

(* A record that may replace r in any step: a done task stays done, the     *)
(* task is not put in progress or back in the backlog, its session stays,   *)
(* it is not charged, and no spawn of it failed.                            *)
Calm(r, q) ==
    /\ q \in Record
    /\ r.status = "done" => q.status = "done"
    /\ q.status = "in-progress" => r.status = "in-progress"
    /\ q.status = "backlog" => r.status = "backlog"
    /\ q.session = r.session
    /\ q.fails <= r.fails
    /\ q.reason = "spawn_failed" => r.reason = "spawn_failed"
    /\ q.retry <= r.retry

(* A task without retries left is not made ready, but with a fresh counter. *)
Rests(r, q) == Exhausted(r) /\ q.status = "ready" => q.retry = 0

LEMMA CalmRefl == \A r \in Record : Calm(r, r)
  BY DEF Calm, Record

LEMMA CalmTrans ==
  \A r, q, s : r \in Record /\ Calm(r, q) /\ Calm(q, s) => Calm(r, s)
  BY DEF Calm, Record

(* transition() obeys the table, in which done has no successor. *)
LEMMA TransitionCalm ==
  ASSUME NEW r \in Record, NEW to \in {"ready", "blocked", "review", "done", "deadletter"}
  PROVE  Calm(r, transition(r, to))
  <1>1. CASE isValidTransition(r.status, to)
    <2>1. transition(r, to) = [r EXCEPT !.status = to, !.lease = IF to \in LeaseClearing THEN "none" ELSE @]
      BY <1>1 DEF transition
    <2>2. r.status # "done"
      BY <1>1 DEF isValidTransition, VALID_TRANSITIONS, Statuses
    <2>3. transition(r, to) \in Record
      BY <2>1 DEF Record, Statuses
    <2>. QED  BY <2>1, <2>2, <2>3 DEF Calm, Record
  <1>2. CASE ~isValidTransition(r.status, to)
    BY <1>2, CalmRefl DEF transition
  <1>. QED  BY <1>1, <1>2

LEMMA TransitionRests ==
  ASSUME NEW r \in Record, NEW to, to # "ready"
  PROVE  Rests(r, transition(r, to))
  BY DEF transition, Record, Rests, Exhausted

LEMMA TransitionResult ==
  ASSUME NEW r \in Record, NEW to
  PROVE  transition(r, to).result = r.result
  BY DEF transition, Record

LEMMA ApplyOutcomeRests ==
  ASSUME NEW r \in Record, NEW outcome \in Outcomes
  PROVE  /\ r.status = "blocked" => ApplyOutcome(r, outcome).status # "ready"
         /\ ApplyOutcome(r, outcome).result = r.result
  <1>1. transition(r, "review") \in Record
    BY TransitionCalm DEF Calm
  <1>2. ASSUME r.status = "blocked" PROVE ApplyOutcome(r, outcome).status # "ready"
    <2>1. transition(r, "review").status # "ready" /\ transition(r, "blocked").status # "ready"
      BY <1>2 DEF transition, Record
    <2>2. transition(transition(r, "review"), "done").status # "ready"
      BY <1>1, <2>1 DEF transition, Record
    <2>. QED  BY <1>2, <2>1, <2>2 DEF ApplyOutcome
  <1>3. ApplyOutcome(r, outcome).result = r.result
    BY <1>1, TransitionResult DEF ApplyOutcome
  <1>. QED  BY <1>2, <1>3

LEMMA ApplyOutcomeCalm ==
  ASSUME NEW r \in Record, NEW outcome \in Outcomes
  PROVE  Calm(r, ApplyOutcome(r, outcome))
  <1>1. \A to \in {"review", "blocked"} : Calm(r, transition(r, to))
    BY TransitionCalm
  <1>2. transition(r, "review") \in Record
    BY <1>1 DEF Calm
  <1>3. Calm(r, transition(transition(r, "review"), "done"))
    BY <1>1, <1>2, TransitionCalm, CalmTrans
  <1>. QED  BY <1>1, <1>3, CalmRefl DEF ApplyOutcome

LEMMA LeaseExpiredCalm ==
  ASSUME NEW r \in Record, NEW t \in Tasks, NEW snapDone
  PROVE  Calm(r, LeaseExpired(r, t, snapDone))
  <1> DEFINE freed == [r EXCEPT !.lease = "none"]
  <1>1. freed \in Record /\ Calm(r, freed)
    BY DEF Record, Calm
  <1>2. Calm(r, transition(freed, "ready")) /\ Calm(r, transition(freed, "deadletter"))
    <2>1. Calm(freed, transition(freed, "ready")) /\ Calm(freed, transition(freed, "deadletter"))
      BY <1>1, TransitionCalm
    <2>. QED  BY <2>1, <1>1, CalmTrans
  <1> HIDE DEF freed
  <1>3. LeaseExpired(r, t, snapDone) \in {freed, transition(freed, "ready"), transition(freed, "deadletter")}
    BY DEF LeaseExpired, freed
  <1>. QED  BY <1>1, <1>2, <1>3

(* handleExpireLease() asks for the verdict once more. *)
LEMMA LeaseExpiredRests ==
  ASSUME NEW r \in Record, NEW t \in Tasks, NEW snapDone, MaxRetries \in Nat
  PROVE  Rests(r, LeaseExpired(r, t, snapDone))
  <1> SUFFICES ASSUME Exhausted(r) PROVE LeaseExpired(r, t, snapDone).status # "ready"
    BY DEF Rests
  <1> DEFINE freed == [r EXCEPT !.lease = "none"]
  <1>1. freed \in Record /\ freed.status = "blocked"
    BY DEF Record, Exhausted
  <1>2. RetryVerdict(r) = "deadletter"
    BY DEF RetryVerdict, Exhausted
  <1>3. LeaseExpired(r, t, snapDone) = transition(freed, "deadletter")
    BY <1>2 DEF LeaseExpired, Exhausted
  <1> HIDE DEF freed
  <1>. QED  BY <1>1, <1>3 DEF transition, Record

LEMMA CommandsRest ==
  ASSUME NEW r \in Record
  PROVE  \A q \in {TaskComplete(r), TaskBlock(r), Cancel(r), Unblock(r), Resurrect(r)} : Rests(r, q)
  <1> SUFFICES ASSUME Exhausted(r)
               PROVE  /\ \A q \in {TaskComplete(r), TaskBlock(r), Cancel(r), Resurrect(r)} :
                             q.status # "ready"
                      /\ Unblock(r).retry = 0
    BY DEF Rests
  <1>1. r.status = "blocked"
    BY DEF Exhausted
  <1>2. TaskBlock(r) = r /\ Resurrect(r) = r
    BY <1>1 DEF TaskBlock, Resurrect
  <1>3. TaskComplete(r).status # "ready" /\ Cancel(r).status # "ready"
    BY <1>1 DEF TaskComplete, Cancel, Record
  <1>4. Unblock(r).retry = 0
    BY <1>1 DEF Unblock, transition, Record
  <1>. QED  BY <1>1, <1>2, <1>3, <1>4

(* A failed spawn is Calm but for the failure that it counts. *)
LEMMA SpawnFailedCounts ==
  ASSUME NEW r \in Record, NEW class \in {"transient", "permanent"}
  PROVE  LET q == SpawnFailed(r, class)
         IN /\ q \in Record
            /\ r.status = "done" => q.status = "done"
            /\ q.status \in {"in-progress", "backlog"} => q.status = r.status
            /\ q.session = r.session
            /\ q.fails <= r.fails
  <1> DEFINE noted == [r EXCEPT !.retry = @ + 1, !.reason = "spawn_failed", !.class = class, !.backoff = TRUE]
  <1>1. noted \in Record
    <2>1. \A n \in Nat : [r EXCEPT !.retry = n, !.reason = "spawn_failed", !.class = class,
                                   !.backoff = TRUE] \in Record
      BY DEF Record, Classes
    <2>2. r.retry + 1 \in Nat
      BY DEF Record
    <2>. QED  BY <2>1, <2>2
  <1>2. noted.status = r.status /\ noted.session = r.session /\ noted.fails = r.fails
    BY DEF Record
  <1> HIDE DEF noted
  <1>3. Calm(noted, transition(noted, "deadletter")) /\ Calm(noted, transition(noted, "blocked"))
    BY <1>1, TransitionCalm
  <1>4. SpawnFailed(r, class) \in {transition(noted, "deadletter"), transition(noted, "blocked")}
    BY DEF SpawnFailed, noted
  <1>. QED  BY <1>2, <1>3, <1>4 DEF Calm

LEMMA CommandsCalm ==
  ASSUME NEW r \in Record
  PROVE  \A q \in {TaskComplete(r), TaskBlock(r), Cancel(r), Unblock(r), Resurrect(r)} : Calm(r, q)
  <1>1. Calm(r, TaskComplete(r)) /\ Calm(r, Cancel(r))
    <2> DEFINE x(s) == [r EXCEPT !.status = s, !.lease = "none"]
    <2>1. \A s \in {"done", "cancelled"} : x(s) \in Record
      BY DEF Record, Statuses
    <2>2. \A s \in {"done", "cancelled"} :
              /\ x(s).status = s /\ x(s).session = r.session /\ x(s).fails = r.fails
              /\ x(s).reason = r.reason /\ x(s).retry = r.retry
      BY DEF Record
    <2> HIDE DEF x
    <2>3. TaskComplete(r) \in {r, x("done")}
      BY DEF TaskComplete, x
    <2>4. \/ Cancel(r) = r
          \/ r.status # "done" /\ Cancel(r) = x("cancelled")
      BY DEF Cancel, Closed, x
    <2>5. Calm(r, x("done")) /\ (r.status # "done" => Calm(r, x("cancelled")))
      BY <2>1, <2>2 DEF Calm, Record
    <2>. QED  BY <2>3, <2>4, <2>5, CalmRefl
  <1>2. Calm(r, TaskBlock(r))
    <2> DEFINE x == [r EXCEPT !.reason = "user"]
    <2>1. x \in Record
      BY DEF Record
    <2>2. /\ x.status = r.status /\ x.session = r.session /\ x.fails <= r.fails
          /\ x.reason \in {r.reason, "user", "none"} /\ x.retry <= r.retry
      BY DEF Record
    <2>3. Calm(r, x)
      BY <2>1, <2>2 DEF Calm, Record
    <2> HIDE DEF x
    <2>4. Calm(r, transition(x, "blocked"))
      BY <2>1, <2>3, TransitionCalm, CalmTrans
    <2>. QED  BY <2>4, CalmRefl DEF TaskBlock, x
  <1>3. Calm(r, Unblock(r))
    <2> DEFINE x == [r EXCEPT !.reason = "none", !.retry = 0]
    <2>1. x \in Record
      BY DEF Record
    <2>2. /\ x.status = r.status /\ x.session = r.session /\ x.fails <= r.fails
          /\ x.reason \in {r.reason, "user", "none"} /\ x.retry <= r.retry
      BY DEF Record
    <2>3. Calm(r, x)
      BY <2>1, <2>2 DEF Calm, Record
    <2> HIDE DEF x
    <2>4. Calm(r, transition(x, "ready"))
      BY <2>1, <2>3, TransitionCalm, CalmTrans
    <2>. QED  BY <2>4, CalmRefl DEF Unblock, x
  <1>4. Calm(r, Resurrect(r))
    <2> DEFINE x == [r EXCEPT !.fails = 0, !.retry = 0, !.class = "none"]
    <2>1. x \in Record
      BY DEF Record, Classes
    <2>2. /\ x.status = r.status /\ x.session = r.session /\ x.fails <= r.fails
          /\ x.reason \in {r.reason, "user", "none"} /\ x.retry <= r.retry
      BY DEF Record
    <2>3. Calm(r, x)
      BY <2>1, <2>2 DEF Calm, Record
    <2> HIDE DEF x
    <2>4. Calm(r, transition(x, "ready"))
      BY <2>1, <2>3, TransitionCalm, CalmTrans
    <2>. QED  BY <2>4, CalmRefl DEF Resurrect, x
  <1>. QED  BY <1>1, <1>2, <1>3, <1>4

(* The end of a run is the one thing that is charged to a task, once. *)
LEMMA RunCompleteCharges ==
  ASSUME NEW r \in Record, NEW class \in Classes
  PROVE  LET q == handleRunComplete(r, class)
         IN /\ q \in Record
            /\ r.status = "done" => q.status = "done"
            /\ q.status = "in-progress" => r.status = "in-progress"
            /\ q.session = r.session
            /\ q.fails <= r.fails + 1
            /\ q.status = "backlog" => r.status = "backlog"
            /\ q.reason = "spawn_failed" => r.reason = "spawn_failed"
            /\ q.retry <= r.retry
            /\ Rests(r, q)
            /\ q.result = r.result
  <1> DEFINE charged == [r EXCEPT !.class = IF class = "none" THEN @ ELSE class, !.fails = @ + 1]
  <1>1. charged \in Record
    <2>1. \A c \in Classes, n \in Nat : [r EXCEPT !.class = c, !.fails = n] \in Record
      BY DEF Record, Classes
    <2>2. (IF class = "none" THEN r.class ELSE class) \in Classes /\ r.fails + 1 \in Nat
      BY DEF Record
    <2>. QED  BY <2>1, <2>2
  <1>4. /\ charged.status = r.status /\ charged.session = r.session /\ charged.fails = r.fails + 1
        /\ charged.reason = r.reason /\ charged.retry = r.retry /\ charged.result = r.result
    BY DEF Record
  <1> HIDE DEF charged
  <1>2. Calm(charged, transition(charged, "deadletter")) /\ Calm(charged, transition(charged, "blocked"))
    BY <1>1, TransitionCalm
  <1>3. Enforced(r, class) \in {transition(charged, "deadletter"), transition(charged, "blocked")}
    BY DEF Enforced, charged
  <1>5. CASE r.status = "in-progress"
    <2>1. handleRunComplete(r, class) \in {transition(charged, "deadletter"), transition(charged, "blocked")}
      BY <1>3, <1>5 DEF handleRunComplete
    <2>2. \A to \in {"deadletter", "blocked"} : transition(charged, to).result = charged.result
      BY <1>1, TransitionResult
    <2>. QED  BY <2>1, <2>2, <1>1, <1>2, <1>4, <1>5 DEF Calm, Record, Rests, Exhausted
  <1>6. CASE r.status # "in-progress"
    BY <1>6 DEF handleRunComplete, Record, Rests, Exhausted
  <1>. QED  BY <1>5, <1>6

-----------------------------------------------------------------------------
(* What a step does to the state. *)

PollRecord == [snapDone : SUBSET Tasks,
               plan : SUBSET [stage : 1..7, type : ActionTypes, task : Tasks],
               held : SUBSET Tasks]

Counted ==
    /\ count \in [DOMAIN setup.bounds -> Nat]
    /\ \A what \in DOMAIN count : count[what] <= setup.bounds[what]

AllCalm == task' \in [Tasks -> Record] /\ \A t \in Tasks : Calm(task[t], task'[t])

(* No poll plans anything new, and one starts to spawn only a planned task. *)
PollsAdvance ==
    /\ polls' \in [Pollers -> PollRecord]
    /\ \A p \in Pollers :
           /\ polls'[p].plan \subseteq polls[p].plan
           /\ \A t \in polls'[p].held :
                  /\ polls'[p].plan = polls[p].plan
                  /\ \/ t \in polls[p].held
                     \/ /\ \E a \in polls[p].plan : a.type = "assign" /\ a.task = t
                        /\ task'[t].status = "in-progress"

(* Done tasks stay done, only a planned task is put in progress, and none   *)
(* into the backlog.                                                        *)
StatusesAdvance ==
    \A t \in Tasks :
        /\ task[t].status = "done" => task'[t].status = "done"
        /\ task'[t].status = "in-progress" => task[t].status = "in-progress" \/ t \in Planned
        /\ task'[t].status = "backlog" => task[t].status = "backlog"

(* Only the failed spawn of a task that a poll holds counts as one. *)
FailuresAdvance ==
    \A t \in Tasks : LockFree(t) =>
        /\ task'[t].reason = "spawn_failed" => task[t].reason = "spawn_failed"
        /\ Failed(task'[t]) => Failed(task[t])

(* The property: see RetriesRespected. *)
RetriesRest ==
    \A t \in Tasks :
        Exhausted(task[t]) /\ LockFree(t) /\ task'[t].status = "ready" =>
            task'[t].retry = 0 \/ \E d \in Deps[t] : task'[d].result = "done"

(* A session is started for a task that a poll is spawning. *)
SessionStarts(t) ==
    /\ \E p \in Pollers : t \in polls[p].held
    /\ owner' = Append(owner, t)
    /\ pending' = pending \cup {Len(owner')}
    /\ task' = [task EXCEPT ![t].session = Len(owner')]

(* Session s ends, and is charged to its task. *)
SessionCharged(s) ==
    /\ s \in pending
    /\ owner' = owner
    /\ pending' = pending \ {s}
    /\ \A t \in Tasks : /\ task'[t].session = task[t].session
                        /\ task'[t].fails <= task[t].fails + (IF t = owner[s] THEN 1 ELSE 0)

NothingCharged ==
    /\ owner' = owner
    /\ pending' \subseteq pending
    /\ \A t \in Tasks : /\ task'[t].session = task[t].session
                        /\ task'[t].fails <= task[t].fails

(* Every step but the planning of a poll is of this shape. *)
StepShape ==
    /\ TypeOK'
    /\ PollsAdvance
    /\ StatusesAdvance
    /\ FailuresAdvance
    /\ OnePoller => RetriesRest
    /\ \/ \E t \in Tasks : SessionStarts(t)
       \/ \E s \in pending : SessionCharged(s)
       \/ NothingCharged

LEMMA TypeParts ==
  /\ TypeOK <=> /\ setup \in Setups /\ task \in [Tasks -> Record]
                /\ polls \in [Pollers -> PollRecord]
                /\ owner \in Seq(Tasks) /\ alive \subseteq DOMAIN owner /\ pending \subseteq DOMAIN owner
                /\ renewing \subseteq Tasks /\ Counted
  /\ TypeOK' <=> /\ setup' \in Setups /\ task' \in [Tasks -> Record]
                 /\ polls' \in [Pollers -> PollRecord]
                 /\ owner' \in Seq(Tasks) /\ alive' \subseteq DOMAIN owner' /\ pending' \subseteq DOMAIN owner'
                 /\ renewing' \subseteq Tasks /\ Counted'
  BY DEF TypeOK, PollRecord, Counted

LEMMA OneCalm ==
  ASSUME task \in [Tasks -> Record], NEW t \in Tasks, NEW q,
         Calm(task[t], q), task' = [task EXCEPT ![t] = q]
  PROVE  AllCalm
  <1>1. q \in Record
    BY DEF Calm
  <1>2. task' \in [Tasks -> Record]
    BY <1>1
  <1>3. ASSUME NEW u \in Tasks PROVE Calm(task[u], task'[u])
    <2>1. CASE u = t  BY <2>1
    <2>2. CASE u # t
      <3>1. task'[u] = task[u] /\ task[u] \in Record
        BY <2>2
      <3>. QED  BY <3>1, CalmRefl
    <2>. QED  BY <2>1, <2>2
  <1>. QED  BY <1>2, <1>3 DEF AllCalm

LEMMA CompletedCalm ==
  ASSUME NEW f \in [Tasks -> Record], NEW t \in Tasks, NEW outcome \in Outcomes
  PROVE  /\ Completed(f, t, outcome) \in [Tasks -> Record]
         /\ \A u \in Tasks : Calm(f[u], Completed(f, t, outcome)[u])
  <1> DEFINE g == [f EXCEPT ![t] = ApplyOutcome(@, outcome)]
  <1>1. Calm(f[t], ApplyOutcome(f[t], outcome))
    BY ApplyOutcomeCalm
  <1>2. ApplyOutcome(f[t], outcome) \in Record
    BY <1>1 DEF Calm
  <1>3. g \in [Tasks -> Record]
    BY <1>2
  <1>4. \A u \in Tasks : g[u] = f[u] \/ (u = t /\ g[u] = ApplyOutcome(f[t], outcome))
    BY <1>3
  <1>5. \A u \in Tasks : Calm(f[u], g[u])
    BY <1>1, <1>4, CalmRefl
  <1> HIDE DEF g
  <1> DEFINE c == cascadeOnCompletion(g, t)
  <1>6. ASSUME NEW u \in Tasks PROVE c[u] \in {g[u], transition(g[u], "ready")}
    BY DEF cascadeOnCompletion
  <1>7. ASSUME NEW u \in Tasks PROVE Calm(g[u], c[u])
    BY <1>3, <1>6, CalmRefl, TransitionCalm
  <1>8. \A u \in Tasks : Calm(f[u], c[u])
    BY <1>5, <1>7, CalmTrans
  <1>9. c \in [Tasks -> Record]
    <2>1. \A u \in Tasks : c[u] \in Record
      BY <1>7 DEF Calm
    <2>2. c = [u \in Tasks |-> c[u]]
      BY DEF cascadeOnCompletion
    <2> HIDE DEF c
    <2>. QED  BY <2>1, <2>2
  <1>10. Completed(f, t, outcome) \in {g, c}
    BY DEF Completed, g
  <1>. QED  BY <1>3, <1>5, <1>8, <1>9, <1>10

LEMMA CompletedRests ==
  ASSUME NEW f \in [Tasks -> Record], NEW t \in Tasks, NEW outcome \in Outcomes,
         NEW u \in Tasks, Exhausted(f[u]), Completed(f, t, outcome)[u].status = "ready"
  PROVE  /\ outcome = "done" /\ t \in Deps[u]
         /\ Completed(f, t, outcome)[t].result = f[t].result
  <1> DEFINE g == [f EXCEPT ![t] = ApplyOutcome(@, outcome)]
  <1>1. ApplyOutcome(f[t], outcome) \in Record
    BY ApplyOutcomeCalm DEF Calm
  <1>2. ApplyOutcome(f[t], outcome).result = f[t].result
    BY ApplyOutcomeRests
  <1>3. g \in [Tasks -> Record] /\ g[t].result = f[t].result
    BY <1>1, <1>2
  <1>4. g[u].status # "ready"
    <2>1. CASE u = t
      <3>1. f[t].status = "blocked"
        BY <2>1 DEF Exhausted
      <3>2. ApplyOutcome(f[t], outcome).status # "ready"
        BY <3>1, ApplyOutcomeRests
      <3>. QED  BY <2>1, <3>2
    <2>2. CASE u # t
      BY <2>2 DEF Exhausted
    <2>. QED  BY <2>1, <2>2
  <1> HIDE DEF g
  <1>5. outcome = "done" /\ Completed(f, t, outcome) = cascadeOnCompletion(g, t)
    BY <1>4 DEF Completed, g
  <1>6. t \in Deps[u]
    BY <1>4, <1>5 DEF cascadeOnCompletion
  <1>7. cascadeOnCompletion(g, t)[t] \in {g[t], transition(g[t], "ready")}
    BY DEF cascadeOnCompletion
  <1>8. cascadeOnCompletion(g, t)[t].result = f[t].result
    BY <1>3, <1>7, TransitionResult
  <1>. QED  BY <1>5, <1>6, <1>8

LEMMA PollsStay ==
  ASSUME polls \in [Pollers -> PollRecord], polls' = polls
  PROVE  PollsAdvance
  BY DEF PollsAdvance

LEMMA AdvanceAdvances ==
  ASSUME polls \in [Pollers -> PollRecord], NEW p \in Pollers, Advance(p)
  PROVE  PollsAdvance
  <1> DEFINE left == polls[p].plan \ First(polls[p].plan)
             new == IF left = {} THEN Idle ELSE [snapDone |-> polls[p].snapDone, plan |-> left, held |-> {}]
  <1>1. polls' = [polls EXCEPT ![p] = new]
    BY DEF Advance
  <1>2. new.plan \subseteq polls[p].plan /\ new.held = {}
    BY DEF Idle
  <1>3. new \in PollRecord
    <2>1. left \in SUBSET [stage : 1..7, type : ActionTypes, task : Tasks] /\ polls[p].snapDone \in SUBSET Tasks
      BY DEF PollRecord
    <2> HIDE DEF left
    <2>. QED  BY <2>1 DEF PollRecord, Idle
  <1> HIDE DEF new
  <1>4. polls' \in [Pollers -> PollRecord]
    BY <1>1, <1>3
  <1>5. ASSUME NEW q \in Pollers PROVE (q = p /\ polls'[q] = new) \/ polls'[q] = polls[q]
    BY <1>1
  <1>. QED  BY <1>2, <1>4, <1>5 DEF PollsAdvance

LEMMA TickCounts ==
  ASSUME Counted, setup' = setup, NEW what \in DOMAIN count, NEW bound, bound = setup.bounds[what],
         \A w \in DOMAIN count : setup.bounds[w] \in Nat, Tick(what, bound)
  PROVE  Counted'
  <1>1. count[what] + 1 \in Nat /\ count[what] + 1 <= setup.bounds[what]
    BY DEF Tick, Counted
  <1>2. count' = [count EXCEPT ![what] = count[what] + 1]
    BY DEF Tick
  <1>3. count' \in [DOMAIN setup.bounds -> Nat]
    BY <1>1, <1>2 DEF Counted
  <1>4. ASSUME NEW w \in DOMAIN count' PROVE count'[w] <= setup.bounds[w]
    BY <1>1, <1>2, <1>3 DEF Counted
  <1>. QED  BY <1>3, <1>4 DEF Counted

LEMMA RetriesTyped ==
  ASSUME TypeOK
  PROVE  MaxRetries \in Nat /\ \A t \in Tasks : Deps[t] \subseteq Tasks
  BY TypeParts, SetupsAssumption DEF MaxRetries, Deps

LEMMA CalmFailures ==
  ASSUME TypeOK, AllCalm
  PROVE  FailuresAdvance
  <1>1. \A t \in Tasks : task[t].retry \in Nat /\ task'[t].retry \in Nat
    BY TypeParts DEF AllCalm, Record
  <1>. QED  BY <1>1, RetriesTyped DEF AllCalm, Calm, FailuresAdvance, Failed

(* The shape of a step that does no more to the task files than Calm says. *)
LEMMA CalmStep ==
  ASSUME TypeOK, setup' = setup, AllCalm, OnePoller => RetriesRest, PollsAdvance, Counted',
         owner' = owner, alive' \subseteq alive, pending' \subseteq pending, renewing' \subseteq Tasks
  PROVE  StepShape
  <1>1. TypeOK'
    BY TypeParts DEF AllCalm, PollsAdvance
  <1>2. StatusesAdvance
    BY DEF AllCalm, Calm, StatusesAdvance
  <1>3. NothingCharged
    BY DEF AllCalm, Calm, NothingCharged
  <1>. QED  BY <1>1, <1>2, <1>3, CalmFailures DEF StepShape

LEMMA CountsStay ==
  ASSUME Counted, setup' = setup, count' = count
  PROVE  Counted'
  BY DEF Counted

LEMMA CountsTick ==
  ASSUME TypeOK, setup' = setup,
         \/ Tick("attempts", MaxAttempts) \/ Tick("interventions", MaxInterventions)
         \/ Tick("sessionEnds", MaxSessionEnds) \/ Tick("crashes", MaxCrashes)
  PROVE  Counted'
  <1>1. setup.bounds \in [{"attempts", "interventions", "sessionEnds", "crashes"} -> Nat] /\ Counted
    BY TypeParts, BoundsAssumption
  <1>2. DOMAIN count = {"attempts", "interventions", "sessionEnds", "crashes"}
    BY <1>1 DEF Counted
  <1>3. CASE Tick("attempts", MaxAttempts)
    BY <1>1, <1>2, <1>3, TickCounts DEF MaxAttempts
  <1>4. CASE Tick("interventions", MaxInterventions)
    BY <1>1, <1>2, <1>4, TickCounts DEF MaxInterventions
  <1>5. CASE Tick("sessionEnds", MaxSessionEnds)
    BY <1>1, <1>2, <1>5, TickCounts DEF MaxSessionEnds
  <1>6. CASE Tick("crashes", MaxCrashes)
    BY <1>1, <1>2, <1>6, TickCounts DEF MaxCrashes
  <1>. QED  BY <1>3, <1>4, <1>5, <1>6

(* A step that rewrites one task record, and leaves owner alone. *)
LEMMA OneTaskStep ==
  ASSUME TypeOK, setup' = setup, NEW t \in Tasks, NEW q, Calm(task[t], q),
         OnePoller => Rests(task[t], q) \/ ~LockFree(t),
         task' = [task EXCEPT ![t] = q], PollsAdvance, Counted',
         owner' = owner, alive' \subseteq alive, pending' \subseteq pending, renewing' \subseteq Tasks
  PROVE  StepShape
  <1>1. AllCalm
    BY TypeParts, OneCalm
  <1>2. task'[t] = q /\ \A u \in Tasks : u # t => task'[u] = task[u]
    BY TypeParts
  <1>3. OnePoller => RetriesRest
    BY <1>2 DEF Rests, Exhausted, RetriesRest
  <1>. QED  BY <1>1, <1>3, CalmStep

LEMMA NoTaskStep ==
  ASSUME TypeOK, setup' = setup, task' = task, PollsAdvance, Counted',
         owner' = owner, alive' \subseteq alive, pending' \subseteq pending, renewing' \subseteq Tasks
  PROVE  StepShape
  <1>1. AllCalm
    BY TypeParts, CalmRefl DEF AllCalm
  <1>2. RetriesRest
    BY DEF RetriesRest, Exhausted
  <1>. QED  BY <1>1, <1>2, CalmStep

LEMMA CompletedStep ==
  ASSUME TypeOK, setup' = setup, NEW t \in Tasks, NEW outcome \in Outcomes,
         NEW f \in [Tasks -> Record], \A u \in Tasks : Calm(task[u], f[u]),
         f[t].result = outcome, \A u \in Tasks : Exhausted(task[u]) => Exhausted(f[u]),
         task' = Completed(f, t, outcome), PollsAdvance, Counted',
         owner' = owner, alive' \subseteq alive, pending' \subseteq pending, renewing' \subseteq Tasks
  PROVE  StepShape
  <1>1. /\ Completed(f, t, outcome) \in [Tasks -> Record]
        /\ \A u \in Tasks : Calm(f[u], Completed(f, t, outcome)[u])
    BY CompletedCalm
  <1>2. \A u \in Tasks : Calm(task[u], task'[u])
    BY <1>1, CalmTrans, TypeParts
  <1>3. AllCalm
    BY <1>1, <1>2 DEF AllCalm
  <1>4. RetriesRest
    BY CompletedRests DEF RetriesRest
  <1>. QED  BY <1>3, <1>4, CalmStep

(* One lemma per action. *)
LEMMA ExpireStep ==
  ASSUME TypeOK, setup' = setup, NEW p \in Pollers, NEW t \in Tasks, handleExpireLease(p, t)
  PROVE  StepShape
  <1>1. Calm(task[t], LeaseExpired(task[t], t, polls[p].snapDone))
    BY TypeParts, LeaseExpiredCalm
  <1>4. Rests(task[t], LeaseExpired(task[t], t, polls[p].snapDone))
    BY TypeParts, RetriesTyped, LeaseExpiredRests
  <1>2. PollsAdvance /\ Counted'
    BY TypeParts, AdvanceAdvances, CountsStay DEF handleExpireLease
  <1>3. renewing' \subseteq Tasks
    BY TypeParts DEF handleExpireLease
  <1>. QED  BY <1>1, <1>2, <1>3, <1>4, OneTaskStep DEF handleExpireLease

LEMMA MoveStep ==
  ASSUME TypeOK, OnePoller => VerdictsStand, setup' = setup, NEW p \in Pollers, NEW t \in Tasks,
         handleMove(p, t)
  PROVE  StepShape
  <1>1. PICK type \in DOMAIN Target :
            NextIs(p, type, t) /\ task' = [task EXCEPT ![t] = transition(@, Target[type])]
    BY DEF handleMove
  <1>5. OnePoller => Rests(task[t], transition(task[t], Target[type]))
    <2>1. CASE type \in {"promote", "requeue"}
      <3>1. PICK a \in polls[p].plan : a.type = type /\ a.task = t
        BY <1>1 DEF NextIs, First
      <3>. QED  BY <2>1, <3>1 DEF VerdictsStand, Rests, Exhausted, Failed
    <2>2. CASE type \in {"block", "deadletter"}
      <3>1. Target[type] # "ready"
        BY <2>2 DEF Target
      <3>. QED  BY <3>1, TypeParts, TransitionRests
    <2>. QED  BY <2>1, <2>2 DEF Target
  <1>2. Target[type] \in {"ready", "blocked", "deadletter"}
    BY DEF Target
  <1>3. Calm(task[t], transition(task[t], Target[type]))
    BY <1>2, TypeParts, TransitionCalm
  <1>4. PollsAdvance /\ Counted' /\ renewing' \subseteq Tasks
    BY TypeParts, AdvanceAdvances, CountsStay DEF handleMove
  <1>. QED  BY <1>1, <1>3, <1>4, <1>5, OneTaskStep DEF handleMove

LEMMA SkipStep ==
  ASSUME TypeOK, setup' = setup, NEW p \in Pollers, NEW t \in Tasks,
         AssignSkip(p, t) \/ SpawnThrows(p, t)
  PROVE  StepShape
  <1>1. PollsAdvance /\ renewing' \subseteq Tasks
    BY TypeParts, AdvanceAdvances DEF AssignSkip, SpawnThrows
  <1>2. Counted'
    BY TypeParts, CountsStay, CountsTick DEF AssignSkip, SpawnThrows
  <1>. QED  BY <1>1, <1>2, NoTaskStep DEF AssignSkip, SpawnThrows

LEMMA SpawnHeldStep ==
  ASSUME TypeOK, setup' = setup, NEW p \in Pollers, NEW t \in Tasks, SpawnHeld(p, t)
  PROVE  StepShape
  <1> DEFINE q == IF task[t].lease = "none" THEN task[t] ELSE transition(task[t], "ready")
  <1>1. task' = [task EXCEPT ![t] = q]
    BY DEF SpawnHeld
  <1>2. Calm(task[t], q)
    BY TypeParts, CalmRefl, TransitionCalm
  <1>3. PollsAdvance /\ Counted' /\ renewing' \subseteq Tasks
    BY TypeParts, AdvanceAdvances, CountsStay DEF SpawnHeld
  <1>4. ~LockFree(t)
    BY DEF SpawnHeld, LockFree
  <1> HIDE DEF q
  <1>. QED  BY <1>1, <1>2, <1>3, <1>4, OneTaskStep DEF SpawnHeld

LEMMA SpawnFailsStep ==
  ASSUME TypeOK, setup' = setup, NEW p \in Pollers, NEW t \in Tasks, SpawnFails(p, t)
  PROVE  StepShape
  <1>1. PICK class \in {"transient", "permanent"} : task' = [task EXCEPT ![t] = SpawnFailed(@, class)]
    BY DEF SpawnFails
  <1> DEFINE q == SpawnFailed(task[t], class)
  <1>2. /\ q \in Record
        /\ task[t].status = "done" => q.status = "done"
        /\ q.status \in {"in-progress", "backlog"} => q.status = task[t].status
        /\ q.session = task[t].session
        /\ q.fails <= task[t].fails
    BY TypeParts, SpawnFailedCounts
  <1>3. PollsAdvance /\ Counted' /\ renewing' \subseteq Tasks
    BY TypeParts, AdvanceAdvances, CountsTick DEF SpawnFails
  <1>4. ~LockFree(t)
    BY DEF SpawnFails, LockFree
  <1> HIDE DEF q
  <1>5. task' = [task EXCEPT ![t] = q]
    BY <1>1 DEF q
  <1>6. task' \in [Tasks -> Record] /\ task'[t] = q /\ \A u \in Tasks : u # t => task'[u] = task[u]
    BY <1>2, <1>5, TypeParts
  <1>7. StatusesAdvance
    <2>1. ASSUME NEW u \in Tasks
          PROVE  /\ task[u].status = "done" => task'[u].status = "done"
                 /\ task'[u].status \in {"in-progress", "backlog"} => task'[u].status = task[u].status
      BY <1>2, <1>6
    <2>. QED  BY <2>1 DEF StatusesAdvance
  <1>8. NothingCharged
    <2>1. ASSUME NEW u \in Tasks
          PROVE  task'[u].session = task[u].session /\ task'[u].fails <= task[u].fails
      <3>1. task[u].fails \in Nat
        BY TypeParts DEF Record
      <3>. QED  BY <1>2, <1>6, <3>1
    <2>. QED  BY <2>1 DEF NothingCharged, SpawnFails
  <1>9. FailuresAdvance /\ RetriesRest
    BY <1>4, <1>6 DEF FailuresAdvance, RetriesRest, Exhausted
  <1>11. polls' \in [Pollers -> PollRecord]
    BY <1>3 DEF PollsAdvance
  <1>10. TypeOK'
    BY <1>3, <1>6, <1>11, TypeParts DEF SpawnFails
  <1>. QED  BY <1>3, <1>7, <1>8, <1>9, <1>10 DEF StepShape

LEMMA ToolStep ==
  ASSUME TypeOK, setup' = setup, NEW s \in DOMAIN owner, AgentTool(s)
  PROVE  StepShape
  <1>1. owner[s] \in Tasks
    BY TypeParts
  <1>2. PICK q \in {TaskComplete(task[owner[s]]), TaskBlock(task[owner[s]])} :
            task' = [task EXCEPT ![owner[s]] = q]
    BY DEF AgentTool
  <1>3. Calm(task[owner[s]], q) /\ Rests(task[owner[s]], q)
    BY <1>1, TypeParts, CommandsCalm, CommandsRest
  <1>4. PollsAdvance /\ Counted' /\ renewing' \subseteq Tasks
    BY TypeParts, PollsStay, CountsStay DEF AgentTool
  <1>. QED  BY <1>1, <1>2, <1>3, <1>4, OneTaskStep DEF AgentTool

LEMMA UserStep ==
  ASSUME TypeOK, setup' = setup, NEW t \in Tasks, UserCommand(t)
  PROVE  StepShape
  <1>1. PICK new \in {Cancel(task[t]), Unblock(task[t]), Resurrect(task[t]),
                      TaskComplete(task[t]), TaskBlock(task[t])} : task' = [task EXCEPT ![t] = new]
    BY DEF UserCommand
  <1>2. Calm(task[t], new) /\ Rests(task[t], new)
    BY TypeParts, CommandsCalm, CommandsRest
  <1>3. PollsAdvance /\ Counted' /\ renewing' \subseteq Tasks
    BY TypeParts, PollsStay, CountsTick DEF UserCommand
  <1>. QED  BY <1>1, <1>2, <1>3, OneTaskStep DEF UserCommand

LEMMA ReportStep ==
  ASSUME TypeOK, setup' = setup, NEW s \in DOMAIN owner, handleCompletionReport(s)
  PROVE  StepShape
  <1>1. owner[s] \in Tasks
    BY TypeParts
  <1>2. PICK outcome \in Outcomes :
            task' = Completed([task EXCEPT ![owner[s]].result = outcome], owner[s], outcome)
    BY DEF handleCompletionReport
  <1> DEFINE q == [task[owner[s]] EXCEPT !.result = outcome]
             f == [task EXCEPT ![owner[s]] = q]
  <1>3. task[owner[s]] \in Record
    BY <1>1, TypeParts
  <1>4. q \in Record
    BY <1>3 DEF Record, Outcomes
  <1>5. Calm(task[owner[s]], q)
    BY <1>3, <1>4 DEF Calm, Record
  <1>10. q.result = outcome /\ (Exhausted(task[owner[s]]) => Exhausted(q))
    BY <1>3 DEF Exhausted, Record
  <1>6. f \in [Tasks -> Record]
    BY <1>1, <1>4, TypeParts
  <1>7. ASSUME NEW u \in Tasks PROVE Calm(task[u], f[u]) /\ (Exhausted(task[u]) => Exhausted(f[u]))
    <2>1. task[u] \in Record /\ (f[u] = task[u] \/ (u = owner[s] /\ f[u] = q))
      BY TypeParts
    <2> HIDE DEF f, q
    <2>. QED  BY <2>1, <1>5, <1>10, CalmRefl
  <1>11. f[owner[s]].result = outcome
    BY <1>1, <1>10, TypeParts
  <1>8. task' = Completed(f, owner[s], outcome)
    BY <1>2
  <1> HIDE DEF f
  <1>9. PollsAdvance /\ Counted' /\ renewing' \subseteq Tasks
    BY TypeParts, PollsStay, CountsStay DEF handleCompletionReport
  <1>. QED  BY <1>1, <1>6, <1>7, <1>8, <1>9, <1>11, CompletedStep DEF handleCompletionReport

LEMMA SessionEndStep ==
  ASSUME TypeOK, setup' = setup, NEW t \in Tasks, handleSessionEnd(t)
  PROVE  StepShape
  <1>1. task \in [Tasks -> Record] /\ \A u \in Tasks : Calm(task[u], task[u])
    BY TypeParts, CalmRefl
  <1>2. task[t].result \in Outcomes
    BY <1>1 DEF handleSessionEnd, Record
  <1>3. PollsAdvance /\ Counted' /\ renewing' \subseteq Tasks
    BY TypeParts, PollsStay, CountsTick DEF handleSessionEnd
  <1>. QED  BY <1>1, <1>2, <1>3, CompletedStep DEF handleSessionEnd

LEMMA ClockStep ==
  ASSUME TypeOK, setup' = setup, NEW t \in Tasks, Renew(t) \/ Clock(t)
  PROVE  StepShape
  <1>1. task[t] \in Record
    BY TypeParts
  <1> DEFINE Changed == {[task[t] EXCEPT !.lease = "live"], [task[t] EXCEPT !.lease = "expired"],
                         [task[t] EXCEPT !.hb = "stale"], [task[t] EXCEPT !.backoff = FALSE]}
  <1>2. PICK q \in Changed : task' = [task EXCEPT ![t] = q]
    BY DEF Renew, Clock, LeaseLapses, HeartbeatLapses, BackoffElapses
  <1>3. q \in Record /\ q.status = task[t].status /\ q.session = task[t].session /\ q.fails = task[t].fails
    BY <1>1 DEF Record
  <1>7. q.reason = task[t].reason /\ q.retry = task[t].retry
    BY <1>1 DEF Record
  <1>4. Calm(task[t], q) /\ Rests(task[t], q)
    BY <1>1, <1>3, <1>7 DEF Calm, Record, Rests, Exhausted
  <1> HIDE DEF Changed
  <1>5. /\ polls' = polls /\ count' = count
        /\ owner' = owner /\ alive' = alive /\ pending' = pending /\ renewing' = renewing
    BY DEF Renew, Clock, LeaseLapses, HeartbeatLapses, BackoffElapses
  <1>6. PollsAdvance /\ Counted' /\ renewing' \subseteq Tasks
    BY <1>5, TypeParts, PollsStay, CountsStay
  <1>. QED  BY <1>2, <1>4, <1>5, <1>6, OneTaskStep

LEMMA TimerStep ==
  ASSUME TypeOK, setup' = setup, (\E t \in Tasks : RenewFails(t)) \/ (\E s \in DOMAIN owner : SessionLost(s))
  PROVE  StepShape
  <1>1. PollsAdvance /\ Counted'
    BY TypeParts, PollsStay, CountsStay DEF RenewFails, SessionLost
  <1>2. renewing' \subseteq Tasks
    BY TypeParts DEF RenewFails, SessionLost
  <1>. QED  BY <1>1, <1>2, NoTaskStep DEF RenewFails, SessionLost

LEMMA CrashStep ==
  ASSUME TypeOK, setup' = setup, CrashAndRestart
  PROVE  StepShape
  <1>1. \A t \in Tasks : Calm(task[t], transition(task[t], "ready")) /\ Calm(task[t], task[t])
    BY TypeParts, TransitionCalm, CalmRefl
  <1>2. \A t \in Tasks : task'[t] \in {task[t], transition(task[t], "ready")}
    BY DEF CrashAndRestart
  <1>3. \A t \in Tasks : Calm(task[t], task'[t])
    BY <1>1, <1>2
  <1>4. task' \in [Tasks -> Record]
    <2>1. \A t \in Tasks : task'[t] \in Record
      BY <1>3 DEF Calm
    <2>2. task' = [t \in Tasks |-> task'[t]]
      BY DEF CrashAndRestart
    <2>. QED  BY <2>1, <2>2
  <1>5. AllCalm
    BY <1>3, <1>4 DEF AllCalm
  <1>6. PollsAdvance
    <2>1. Idle \in PollRecord /\ Idle.plan = {} /\ Idle.held = {}
      BY DEF Idle, PollRecord
    <2>. QED  BY <2>1 DEF CrashAndRestart, PollsAdvance
  <1>7. Counted'
    BY CountsTick DEF CrashAndRestart
  <1>8. RetriesRest
    BY DEF CrashAndRestart, RetriesRest, Exhausted
  <1>. QED  BY <1>5, <1>6, <1>7, <1>8, CalmStep DEF CrashAndRestart

LEMMA AssignStep ==
  ASSUME TypeOK, setup' = setup, NEW p \in Pollers, NEW t \in Tasks, AssignLease(p, t)
  PROVE  StepShape
  <1>1. PICK a \in polls[p].plan : a.type = "assign" /\ a.task = t
    BY DEF AssignLease, NextIs, First
  <1>2. t \in Planned
    BY <1>1 DEF Planned
  <1>3. task[t] \in Record /\ task[t].status = "ready"
    BY TypeParts DEF AssignLease
  <1> DEFINE q == [task[t] EXCEPT !.status = "in-progress", !.lease = "live", !.hb = "fresh"]
  <1>4. task' = [task EXCEPT ![t] = q]
    BY TypeParts DEF AssignLease
  <1>5. q \in Record /\ q.session = task[t].session /\ q.fails = task[t].fails
    BY <1>3 DEF Record, Statuses
  <1>13. q.status = "in-progress" /\ q.reason = task[t].reason /\ q.retry = task[t].retry
    BY <1>3 DEF Record
  <1> HIDE DEF q
  <1>6. task' \in [Tasks -> Record]
    BY <1>4, <1>5, TypeParts
  <1>7. \A u \in Tasks : u # t => task'[u] = task[u]
    BY <1>4, TypeParts
  <1>8. task'[t] = q
    BY <1>4, TypeParts
  <1>9. StatusesAdvance
    BY <1>2, <1>3, <1>7, <1>8, <1>13, TypeParts DEF StatusesAdvance
  <1>14. FailuresAdvance /\ RetriesRest
    BY <1>3, <1>7, <1>8, <1>13 DEF FailuresAdvance, Failed, RetriesRest, Exhausted
  <1>10. NothingCharged
    <2>1. \A u \in Tasks : task[u].fails \in Nat
      BY TypeParts DEF Record
    <2>2. \A u \in Tasks : task'[u].session = task[u].session /\ task'[u].fails = task[u].fails
      BY <1>5, <1>7, <1>8
    <2>3. \A u \in Tasks : task'[u].fails <= task[u].fails
      BY <2>1, <2>2
    <2>. QED  BY <2>2, <2>3 DEF NothingCharged, AssignLease
  <1>11. PollsAdvance
    <2>1. polls' = [polls EXCEPT ![p] = [polls[p] EXCEPT !.held = {t}]]
      BY TypeParts DEF AssignLease
    <2>2. [polls[p] EXCEPT !.held = {t}] \in PollRecord
      BY TypeParts DEF PollRecord
    <2>3. polls' \in [Pollers -> PollRecord]
      BY <2>1, <2>2, TypeParts
    <2>4. \A u \in Pollers : u # p => polls'[u] = polls[u]
      BY <2>1, TypeParts
    <2>5. polls'[p].plan = polls[p].plan /\ polls'[p].held = {t}
      BY <2>1, TypeParts DEF PollRecord
    <2>. QED  BY <1>1, <1>8, <1>13, <2>3, <2>4, <2>5 DEF PollsAdvance
  <1>12. TypeOK'
    BY <1>6, <1>11, TypeParts, CountsStay DEF PollsAdvance, AssignLease
  <1>. QED  BY <1>9, <1>10, <1>11, <1>12, <1>14 DEF StepShape

LEMMA SpawnStep ==
  ASSUME TypeOK, setup' = setup, NEW p \in Pollers, NEW t \in Tasks, SpawnSucceeds(p, t)
  PROVE  StepShape
  <1>1. owner' = Append(owner, t) /\ owner \in Seq(Tasks)
    BY TypeParts DEF SpawnSucceeds
  <1>2. owner' \in Seq(Tasks) /\ Len(owner') = Len(owner) + 1 /\ Len(owner) \in Nat
    BY <1>1
  <1>3. DOMAIN owner = 1..Len(owner) /\ DOMAIN owner' = 1..Len(owner')
    BY <1>1, <1>2
  <1>4. Len(owner') \in DOMAIN owner' /\ DOMAIN owner \subseteq DOMAIN owner'
    BY <1>2, <1>3
  <1>5. SessionStarts(t)
    BY <1>1 DEF SessionStarts, SpawnSucceeds
  <1> DEFINE q == [task[t] EXCEPT !.session = Len(owner')]
  <1>6. task[t] \in Record
    BY TypeParts
  <1>7. q \in Record /\ q.status = task[t].status /\ q.reason = task[t].reason /\ q.retry = task[t].retry
    <2>1. Len(owner') \in Nat
      BY <1>2
    <2>. QED  BY <1>6, <2>1 DEF Record
  <1>8. task' = [task EXCEPT ![t] = q]
    BY TypeParts DEF SpawnSucceeds
  <1> HIDE DEF q
  <1>9. /\ task' \in [Tasks -> Record]
        /\ \A u \in Tasks : /\ task'[u].status = task[u].status
                            /\ task'[u].reason = task[u].reason /\ task'[u].retry = task[u].retry
    BY <1>7, <1>8, TypeParts
  <1>10. StatusesAdvance
    BY <1>9 DEF StatusesAdvance
  <1>14. FailuresAdvance /\ RetriesRest
    BY <1>9 DEF FailuresAdvance, Failed, RetriesRest, Exhausted
  <1>11. PollsAdvance
    BY TypeParts, AdvanceAdvances DEF SpawnSucceeds
  <1>12. Counted'
    BY CountsTick DEF SpawnSucceeds
  <1>13. TypeOK'
    BY <1>2, <1>4, <1>9, <1>11, <1>12, TypeParts DEF PollsAdvance, SpawnSucceeds
  <1>. QED  BY <1>5, <1>10, <1>11, <1>13, <1>14 DEF StepShape

(* The step that charges session s to its task: the record it leaves is     *)
(* that of handleRunComplete().                                             *)
LEMMA ChargeStep ==
  ASSUME TypeOK, setup' = setup, NEW s \in pending, NEW class \in Classes,
         NEW f, f = [task EXCEPT ![owner[s]] = handleRunComplete(@, class)],
         task' \in [Tasks -> Record], \A u \in Tasks : Calm(f[u], task'[u]), RetriesRest,
         PollsAdvance, Counted', owner' = owner, alive' \subseteq alive, pending' = pending \ {s},
         renewing' \subseteq Tasks
  PROVE  StepShape
  <1> DEFINE t == owner[s]
             q == handleRunComplete(task[t], class)
  <1>1. t \in Tasks /\ task[t] \in Record
    BY TypeParts
  <1>2. /\ q \in Record
        /\ task[t].status = "done" => q.status = "done"
        /\ q.status = "in-progress" => task[t].status = "in-progress"
        /\ q.session = task[t].session
        /\ q.fails <= task[t].fails + 1
        /\ q.status = "backlog" => task[t].status = "backlog"
        /\ q.reason = "spawn_failed" => task[t].reason = "spawn_failed"
        /\ q.retry <= task[t].retry
    BY <1>1, RunCompleteCharges
  <1>3. f[t] = q /\ \A u \in Tasks : u # t => f[u] = task[u]
    BY <1>1, TypeParts
  <1> HIDE DEF q
  <1>4. StatusesAdvance
    <2>1. ASSUME NEW u \in Tasks
          PROVE  /\ task[u].status = "done" => task'[u].status = "done"
                 /\ task'[u].status = "in-progress" => task[u].status = "in-progress"
                 /\ task'[u].status = "backlog" => task[u].status = "backlog"
      <3>1. CASE u = t  BY <3>1, <1>2, <1>3 DEF Calm
      <3>2. CASE u # t  BY <3>2, <1>3 DEF Calm
      <3>. QED  BY <3>1, <3>2
    <2>. QED  BY <2>1 DEF StatusesAdvance
  <1>5. SessionCharged(s)
    <2>1. ASSUME NEW u \in Tasks
          PROVE  /\ task'[u].session = task[u].session
                 /\ task'[u].fails <= task[u].fails + (IF u = owner[s] THEN 1 ELSE 0)
      <3>1. task[u].fails \in Nat /\ task'[u].fails \in Nat
        BY TypeParts DEF Record
      <3>2. CASE u = t
        <4>1. q.fails \in Nat
          BY <1>2 DEF Record
        <4>. QED  BY <4>1, <3>1, <3>2, <1>2, <1>3 DEF Calm
      <3>3. CASE u # t  BY <3>1, <3>3, <1>3 DEF Calm
      <3>. QED  BY <3>2, <3>3
    <2>. QED  BY <2>1 DEF SessionCharged
  <1>6. TypeOK'
    BY TypeParts DEF PollsAdvance
  <1>7. FailuresAdvance
    <2>1. ASSUME NEW u \in Tasks
          PROVE  /\ task'[u].reason = "spawn_failed" => task[u].reason = "spawn_failed"
                 /\ task'[u].retry <= task[u].retry
                 /\ task'[u].retry \in Nat /\ task[u].retry \in Nat
      <3>1. task[u].retry \in Nat /\ task'[u].retry \in Nat
        BY TypeParts DEF Record
      <3>2. CASE u = t
        <4>1. q.retry \in Nat
          BY <1>2 DEF Record
        <4>. QED  BY <4>1, <3>1, <3>2, <1>2, <1>3 DEF Calm
      <3>3. CASE u # t  BY <3>1, <3>3, <1>3 DEF Calm
      <3>. QED  BY <3>1, <3>2, <3>3
    <2>. QED  BY <2>1, RetriesTyped DEF FailuresAdvance, Failed
  <1>. QED  BY <1>4, <1>5, <1>6, <1>7 DEF StepShape

LEMMA ResultStep ==
  ASSUME TypeOK, setup' = setup, NEW s \in DOMAIN owner, deliverResult(s)
  PROVE  StepShape
  <1>1. PollsAdvance /\ Counted' /\ owner' = owner /\ alive' \subseteq alive /\ pending' = pending \ {s}
    BY TypeParts, PollsStay, CountsStay DEF deliverResult
  <1>2. owner[s] \in Tasks
    BY TypeParts
  <1>3. CASE s \in pending
    <2>1. PICK class \in Classes : task' = [task EXCEPT ![owner[s]] = handleRunComplete(@, class)]
      BY <1>3 DEF deliverResult
    <2>2. handleRunComplete(task[owner[s]], class) \in Record
      BY <1>2, TypeParts, RunCompleteCharges
    <2>3. task' \in [Tasks -> Record]
      BY <2>1, <2>2, TypeParts
    <2>4. \A u \in Tasks : Calm(task'[u], task'[u])
      BY <2>3, CalmRefl
    <2>5. renewing' \subseteq Tasks
      BY <1>3, TypeParts DEF deliverResult
    <2>6. RetriesRest
      <3>1. Rests(task[owner[s]], handleRunComplete(task[owner[s]], class))
        BY <1>2, TypeParts, RunCompleteCharges
      <3>2. /\ task'[owner[s]] = handleRunComplete(task[owner[s]], class)
            /\ \A u \in Tasks : u # owner[s] => task'[u] = task[u]
        BY <1>2, <2>1, TypeParts
      <3>. QED  BY <3>1, <3>2 DEF RetriesRest, Rests, Exhausted
    <2>. QED  BY <1>1, <1>3, <2>1, <2>3, <2>4, <2>5, <2>6, ChargeStep
  <1>4. CASE s \notin pending
    <2>1. task' = task /\ renewing' \subseteq Tasks /\ pending' \subseteq pending
      BY <1>4, TypeParts DEF deliverResult
    <2>. QED  BY <1>1, <2>1, NoTaskStep
  <1>. QED  BY <1>3, <1>4

LEMMA HeartbeatStep ==
  ASSUME TypeOK, SessionsInStep, setup' = setup, NEW p \in Pollers, NEW t \in Tasks,
         handleStaleHeartbeat(p, t)
  PROVE  StepShape
  <1> DEFINE r == task[t]
             acts == r.status = "in-progress" /\ r.lease # "none"
             forced == acts /\ r.session \in pending
             after == IF forced THEN handleRunComplete(r, "none") ELSE r
             f == [task EXCEPT ![t] = after]
  <1>1. /\ task' = IF ~acts THEN task
                   ELSE IF r.result = "none" THEN [task EXCEPT ![t] = transition(after, "ready")]
                        ELSE Completed(f, t, r.result)
        /\ pending' = IF forced THEN pending \ {r.session} ELSE pending
        /\ renewing' = IF forced THEN renewing \ {t} ELSE renewing
        /\ Advance(p)
        /\ UNCHANGED <<owner, alive, count>>
    BY DEF handleStaleHeartbeat
  <1>2. PollsAdvance /\ Counted' /\ owner' = owner /\ alive' \subseteq alive /\ renewing' \subseteq Tasks
    BY <1>1, TypeParts, AdvanceAdvances, CountsStay
  <1>3. r \in Record /\ "none" \in Classes
    BY TypeParts DEF Classes
  <1>4. after \in Record
    BY <1>3, RunCompleteCharges
  <1>5. f \in [Tasks -> Record]
    BY <1>4, TypeParts
  <1>6. acts => task' \in [Tasks -> Record] /\ \A u \in Tasks : Calm(f[u], task'[u])
    <2>1. CASE acts /\ r.result = "none"
      <3>1. Calm(after, transition(after, "ready"))
        BY <1>4, TransitionCalm
      <3>2. task' = [f EXCEPT ![t] = transition(after, "ready")]
        BY <1>1, <2>1, <1>5
      <3>3. transition(after, "ready") \in Record
        BY <3>1 DEF Calm
      <3> HIDE DEF after
      <3>4. task' \in [Tasks -> Record]
        BY <1>5, <3>2, <3>3
      <3>5. f[t] = after
        BY TypeParts
      <3> HIDE DEF f
      <3>6. \A u \in Tasks : task'[u] = f[u] \/ (u = t /\ task'[u] = transition(after, "ready"))
        BY <1>5, <3>2
      <3>. QED  BY <1>5, <3>1, <3>4, <3>5, <3>6, CalmRefl
    <2>2. CASE acts /\ r.result # "none"
      <3>1. r.result \in Outcomes
        BY <1>3, <2>2 DEF Record
      <3>2. task' = Completed(f, t, r.result)
        BY <1>1, <2>2
      <3>. QED  BY <1>5, <3>1, <3>2, CompletedCalm
    <2>. QED  BY <2>1, <2>2
  <1>10. acts => RetriesRest
    <2> SUFFICES ASSUME acts, NEW u \in Tasks, Exhausted(task[u]), task'[u].status = "ready"
                 PROVE  \E d \in Deps[u] : task'[d].result = "done"
      BY DEF RetriesRest
    <2>1. u # t
      BY DEF Exhausted
    <2>2. f[u] = task[u]
      BY <2>1
    <2>3. CASE r.result = "none"
      <3>1. task'[u] = task[u]
        BY <1>1, <2>1, <2>3
      <3>. QED  BY <3>1 DEF Exhausted
    <2>4. CASE r.result # "none"
      <3>1. r.result \in Outcomes
        BY <1>3, <2>4 DEF Record
      <3>2. task' = Completed(f, t, r.result)
        BY <1>1, <2>4
      <3>3. f[t].result = r.result
        BY <1>3, RunCompleteCharges, TypeParts
      <3> HIDE DEF f
      <3>. QED  BY <1>5, <2>2, <3>1, <3>2, <3>3, CompletedRests
    <2>. QED  BY <2>3, <2>4
  <1>7. CASE forced
    <2>1. r.session \in pending /\ owner[r.session] = t
      BY <1>7 DEF SessionsInStep
    <2>2. f = [task EXCEPT ![owner[r.session]] = handleRunComplete(@, "none")]
      BY <1>7, <2>1, TypeParts
    <2>3. pending' = pending \ {r.session}
      BY <1>1, <1>7
    <2> HIDE DEF f, after
    <2>. QED  BY <1>2, <1>3, <1>6, <1>7, <1>10, <2>1, <2>2, <2>3, ChargeStep
  <1>8. CASE acts /\ ~forced
    <2>1. f = task
      BY <1>8, TypeParts
    <2>2. pending' \subseteq pending /\ AllCalm
      BY <1>1, <1>6, <1>8, <2>1 DEF AllCalm
    <2>. QED  BY <1>2, <1>8, <1>10, <2>2, CalmStep
  <1>9. CASE ~acts
    <2>1. task' = task /\ pending' \subseteq pending
      BY <1>1, <1>9
    <2>. QED  BY <1>2, <2>1, NoTaskStep
  <1>. QED  BY <1>7, <1>8, <1>9

(* The steps of Next, the planning of a poll set apart. *)
LEMMA EveryStep ==
  ASSUME TypeOK, SessionsInStep, OnePoller => VerdictsStand, [Next]_vars
  PROVE  setup' = setup /\ (StepShape \/ \E p \in Pollers : Poll(p))
  <1>1. CASE UNCHANGED vars
    <2>1. setup' = setup /\ task' = task /\ polls' = polls /\ owner' = owner /\ alive' = alive
            /\ pending' = pending /\ renewing' = renewing /\ count' = count
      BY <1>1 DEF vars, dynamic
    <2>2. PollsAdvance /\ Counted' /\ renewing' \subseteq Tasks
      BY <2>1, TypeParts, PollsStay, CountsStay
    <2>. QED  BY <2>1, <2>2, NoTaskStep
  <1>2. CASE Next
    <2> setup' = setup
      BY <1>2 DEF Next
    <2>1. ASSUME NEW p \in Pollers, NEW t \in Tasks, Execute(p, t) PROVE StepShape
      BY <2>1, ExpireStep, HeartbeatStep, MoveStep, SkipStep, AssignStep, SpawnStep, SpawnHeldStep,
         SpawnFailsStep DEF Execute
    <2>2. ASSUME NEW s \in DOMAIN owner, Session(s) PROVE StepShape
      BY <2>2, ToolStep, ReportStep, ResultStep, TimerStep DEF Session
    <2>3. ASSUME NEW t \in Tasks,
                 handleSessionEnd(t) \/ Renew(t) \/ RenewFails(t) \/ Clock(t) \/ UserCommand(t)
          PROVE  StepShape
      BY <2>3, SessionEndStep, ClockStep, TimerStep, UserStep
    <2>. QED  BY <1>2, <2>1, <2>2, <2>3, CrashStep DEF Next
  <1>. QED  BY <1>1, <1>2

-----------------------------------------------------------------------------
(* What such a step keeps. *)

LEMMA GateKept ==
  ASSUME TypeOK, setup' = setup, StatusesAdvance, NEW t \in Tasks, Gated(t)
  PROVE  Gated(t)'
  <1>1. Deps[t] \subseteq Tasks /\ Deps' = Deps /\ Children(t)' = Children(t) /\ Children(t) \subseteq Tasks
    BY TypeParts, SetupsAssumption DEF Deps, Children, Parent
  <1>. QED  BY <1>1 DEF Gated, DepsDone, SubtasksDone, StatusesAdvance

LEMMA GatesKept ==
  ASSUME TypeOK, PlansGated, GateRespected, setup' = setup, StepShape
  PROVE  PlansGated' /\ GateRespected'
  <1>1. \A t \in Tasks : Gated(t) => Gated(t)'
    BY GateKept DEF StepShape
  <1>2. ASSUME NEW p \in Pollers PROVE polls[p].plan \subseteq [stage : 1..7, type : ActionTypes, task : Tasks]
                                       /\ polls[p].held \subseteq Tasks
    BY TypeParts DEF PollRecord
  <1>3. PlansGated'
    <2>1. ASSUME NEW p \in Pollers, NEW a \in polls'[p].plan, a.type = "assign" PROVE Gated(a.task)'
      <3>1. a \in polls[p].plan
        BY DEF StepShape, PollsAdvance
      <3>2. a.task \in Tasks /\ Gated(a.task)
        BY <1>2, <2>1, <3>1 DEF PlansGated
      <3>. QED  BY <1>1, <3>2
    <2>2. ASSUME NEW p \in Pollers, NEW t \in polls'[p].held PROVE Gated(t)'
      <3>1. t \in Tasks /\ Gated(t)
        BY <1>2 DEF StepShape, PollsAdvance, PlansGated
      <3>. QED  BY <1>1, <3>1
    <2>. QED  BY <2>1, <2>2 DEF PlansGated, Gated
  <1>4. ASSUME NEW s \in DOMAIN owner' PROVE \E t \in Tasks : owner'[s] = t /\ Gated(t)'
    <2>1. ASSUME NEW u \in DOMAIN owner PROVE owner[u] \in Tasks /\ Gated(owner[u])
      BY TypeParts DEF GateRespected, Gated
    <2>2. CASE owner' = owner
      BY <1>1, <2>1, <2>2
    <2>3. CASE \E t \in Tasks : SessionStarts(t)
      <3>1. PICK t \in Tasks : SessionStarts(t)
        BY <2>3
      <3>2. Gated(t)
        BY <3>1 DEF SessionStarts, PlansGated
      <3>3. owner' = Append(owner, t) /\ owner \in Seq(Tasks)
        BY <3>1, TypeParts DEF SessionStarts
      <3>4. CASE s \in DOMAIN owner
        <4>1. owner'[s] = owner[s]
          BY <3>3, <3>4
        <4>. QED  BY <1>1, <2>1, <3>4, <4>1
      <3>5. CASE s \notin DOMAIN owner
        <4>1. owner'[s] = t
          BY <3>3, <3>5
        <4>. QED  BY <1>1, <3>2, <4>1
      <3>. QED  BY <3>4, <3>5
    <2>. QED  BY <2>2, <2>3 DEF StepShape, SessionCharged, NothingCharged
  <1>5. GateRespected'
    BY <1>4 DEF GateRespected, Gated
  <1>. QED  BY <1>3, <1>5

(* The sessions of t that are over for the adapter. *)
Over(t) == {s \in DOMAIN owner : owner[s] = t /\ s \notin pending}

LEMMA OverFinite ==
  ASSUME owner \in Seq(Tasks), NEW t
  PROVE  IsFiniteSet(Over(t)) /\ Cardinality(Over(t)) \in Nat
  <1>1. IsFiniteSet(1..Len(owner)) /\ DOMAIN owner = 1..Len(owner)
    BY FS_Interval
  <1>2. Over(t) \in SUBSET (1..Len(owner))
    BY <1>1 DEF Over
  <1>. QED  BY <1>1, <1>2, FS_Subset, FS_CardinalityType

LEMMA OverFinitePrime ==
  ASSUME owner' \in Seq(Tasks), NEW t
  PROVE  IsFiniteSet(Over(t)') /\ Cardinality(Over(t)') \in Nat
  <1>1. IsFiniteSet(1..Len(owner')) /\ DOMAIN owner' = 1..Len(owner')
    BY FS_Interval
  <1>2. Over(t)' \in SUBSET (1..Len(owner'))
    BY <1>1 DEF Over
  <1>. QED  BY <1>1, <1>2, FS_Subset, FS_CardinalityType

LEMMA AccountsKept ==
  ASSUME TypeOK, SessionsInStep, ChargedOnce, StepShape
  PROVE  SessionsInStep' /\ ChargedOnce'
  <1>1. TypeOK' /\ owner \in Seq(Tasks) /\ owner' \in Seq(Tasks)
    BY TypeParts DEF StepShape
  <1>2. \A t \in Tasks : /\ task[t].session \in Nat /\ task'[t].session \in Nat
                         /\ task[t].fails \in Nat /\ task'[t].fails \in Nat
    BY <1>1, TypeParts DEF Record
  <1>3. \A t \in Tasks : task[t].fails <= Cardinality(Over(t))
    BY DEF ChargedOnce, Over
  <1>4. (\A t \in Tasks : task'[t].fails <= Cardinality(Over(t)')) => ChargedOnce'
    BY DEF ChargedOnce, Over
  <1>5. \A t \in Tasks : Over(t) \subseteq Over(t)' => Cardinality(Over(t)) <= Cardinality(Over(t)')
    BY <1>1, OverFinitePrime, FS_Subset
  <1>6. \A t \in Tasks : Cardinality(Over(t)) \in Nat /\ Cardinality(Over(t)') \in Nat
    BY <1>1, OverFinite, OverFinitePrime
  <1>7. CASE NothingCharged
    <2>1. SessionsInStep'
      BY <1>7 DEF NothingCharged, SessionsInStep
    <2>2. ASSUME NEW t \in Tasks PROVE task'[t].fails <= Cardinality(Over(t)')
      <3>1. Over(t) \subseteq Over(t)'
        BY <1>7 DEF NothingCharged, Over
      <3>2. task'[t].fails <= task[t].fails
        BY <1>7 DEF NothingCharged
      <3>. QED  BY <1>2, <1>3, <1>5, <1>6, <3>1, <3>2
    <2>. QED  BY <1>4, <2>1, <2>2
  <1>8. CASE \E s \in pending : SessionCharged(s)
    <2>1. PICK s \in pending : SessionCharged(s)
      BY <1>8
    <2>2. SessionsInStep'
      BY <2>1 DEF SessionCharged, SessionsInStep
    <2>3. ASSUME NEW t \in Tasks PROVE task'[t].fails <= Cardinality(Over(t)')
      <3>1. Over(t) \subseteq Over(t)'
        BY <2>1 DEF SessionCharged, Over
      <3>2. CASE t = owner[s]
        <4>1. s \in DOMAIN owner /\ s \in pending /\ s \notin pending' /\ owner' = owner
          BY <2>1, TypeParts DEF SessionCharged
        <4>2. s \notin Over(t) /\ s \in Over(t)'
          BY <3>2, <4>1 DEF Over
        <4>3. Cardinality(Over(t)) < Cardinality(Over(t)')
          <5>1. IsFiniteSet(Over(t)') /\ Over(t) \in SUBSET Over(t)' /\ Over(t) # Over(t)'
            BY <1>1, <3>1, <4>2, OverFinitePrime
          <5>2. Cardinality(Over(t)) # Cardinality(Over(t)')
            BY <5>1, FS_Subset
          <5>. QED  BY <1>5, <1>6, <3>1, <5>2
        <4>4. task'[t].fails <= task[t].fails + 1
          BY <2>1, <3>2 DEF SessionCharged
        <4>. QED  BY <1>2, <1>3, <1>6, <4>3, <4>4
      <3>3. CASE t # owner[s]
        <4>1. task'[t].fails <= task[t].fails
          BY <1>2, <2>1, <3>3 DEF SessionCharged
        <4>. QED  BY <1>2, <1>3, <1>5, <1>6, <3>1, <4>1
      <3>. QED  BY <3>2, <3>3
    <2>. QED  BY <1>4, <2>2, <2>3
  <1>9. CASE \E t \in Tasks : SessionStarts(t)
    <2>1. PICK t \in Tasks : SessionStarts(t)
      BY <1>9
    <2>2. /\ owner' = Append(owner, t) /\ Len(owner) \in Nat /\ Len(owner') = Len(owner) + 1
          /\ DOMAIN owner = 1..Len(owner) /\ DOMAIN owner' = 1..Len(owner')
          /\ owner'[Len(owner')] = t /\ \A s \in DOMAIN owner : owner'[s] = owner[s]
          /\ pending' = pending \cup {Len(owner')}
      BY <1>1, <2>1 DEF SessionStarts
    <2>3. task' = [task EXCEPT ![t] = [task[t] EXCEPT !.session = Len(owner')]]
      BY <2>1, TypeParts DEF SessionStarts
    <2>4. \A u \in Tasks : u # t => task'[u] = task[u]
      BY <2>3, TypeParts
    <2>5. task'[t].session = Len(owner') /\ task'[t].fails = task[t].fails
      BY <2>3, TypeParts DEF Record
    <2>6. \A u \in Tasks : Over(u) \subseteq Over(u)'
      BY <2>2 DEF Over
    <2>7. ASSUME NEW u \in Tasks PROVE task'[u].fails <= Cardinality(Over(u)')
      <3>1. task'[u].fails = task[u].fails
        BY <2>4, <2>5
      <3>. QED  BY <1>2, <1>3, <1>5, <1>6, <2>6, <3>1
    <2>8. SessionsInStep'
      <3>1. ASSUME NEW u \in Tasks
            PROVE  /\ task'[u].session <= Len(owner')
                   /\ task'[u].session \in pending' => owner'[task'[u].session] = u
        <4>1. CASE u = t
          BY <2>2, <2>5, <4>1
        <4>2. CASE u # t
          <5>1. task'[u].session = task[u].session /\ task[u].session <= Len(owner) /\ task[u].session \in Nat
            BY <1>2, <2>4, <4>2 DEF SessionsInStep
          <5>2. task[u].session # Len(owner')
            BY <2>2, <5>1
          <5>3. task[u].session \in pending => task[u].session \in DOMAIN owner /\ owner[task[u].session] = u
            BY TypeParts DEF SessionsInStep
          <5>. QED  BY <2>2, <5>1, <5>2, <5>3
        <4>. QED  BY <4>1, <4>2
      <3>. QED  BY <3>1 DEF SessionsInStep
    <2>. QED  BY <1>4, <2>7, <2>8
  <1>. QED  BY <1>7, <1>8, <1>9 DEF StepShape

-----------------------------------------------------------------------------
(* What a poll plans. *)

LEMMA PlanTyped == Plan(task) \subseteq [stage : 1..7, type : ActionTypes, task : Tasks]
  <1> DEFINE Typed == [stage : 1..7, type : ActionTypes, task : Tasks]
  <1>1. ASSUME NEW t \in Tasks, NEW type \in ActionTypes, NEW stage \in DOMAIN Stages
        PROVE  Action(stage, type, t) \in Typed
    BY DEF Action, Stages
  <1>2. checkExpiredLeases(task) \subseteq Typed /\ checkStaleHeartbeats(task) \subseteq Typed
    BY <1>1 DEF checkExpiredLeases, checkStaleHeartbeats, With, ActionTypes, Stages
  <1>3. checkBacklogPromotion(task) \subseteq Typed /\ checkBlockedTaskRecovery(task) \subseteq Typed
    BY <1>1 DEF checkBacklogPromotion, checkBlockedTaskRecovery, With, ActionTypes, Stages
  <1>4. buildDispatchActions(task) \subseteq Typed
    <2>1. Admitted(task) \subseteq Tasks
      BY DEF Admitted, Willing
    <2>2. assignActions(task) \subseteq Typed
      BY <1>1, <2>1 DEF assignActions, ActionTypes, Stages
    <2>3. blockActions(task) \subseteq Typed
      BY <1>1 DEF blockActions, ActionTypes, Stages
    <2>. QED  BY <2>2, <2>3 DEF buildDispatchActions
  <1>. QED  BY <1>2, <1>3, <1>4 DEF Plan

(* The tasks it is to dispatch are those that the throttle admits. *)
LEMMA PlanAssigns ==
  /\ \A a \in Plan(task) : a.type = "assign" => a.task \in Admitted(task)
  /\ Admitted(task) \subseteq Willing(task)
  /\ \A t \in Willing(task) : t \in Tasks /\ Eligible(task, t) /\ TeamHasRoom(task, t)
  <1>1. \A a \in assignActions(task) : a.task \in Admitted(task)
    BY DEF assignActions, Action
  <1>2. \A a \in Plan(task) : a.type = "assign" => a \in assignActions(task)
    BY DEF Plan, checkExpiredLeases, checkStaleHeartbeats, checkBacklogPromotion, buildDispatchActions,
           blockActions, checkBlockedTaskRecovery, Action
  <1>. QED  BY <1>1, <1>2 DEF Admitted, Willing

LEMMA PollPlans ==
  ASSUME TypeOK, setup' = setup, NEW p \in Pollers, Poll(p)
  PROVE  /\ TypeOK'
         /\ polls'[p].held = {}
         /\ polls'[p].plan \subseteq Plan(task)
         /\ \A q \in Pollers : q # p => polls'[q] = polls[q]
         /\ UNCHANGED <<task, owner, alive, pending, count>>
  <1> DEFINE new == IF Plan(task) = {} THEN Idle
                    ELSE [snapDone |-> With(task, "done"), plan |-> Plan(task), held |-> {}]
  <1>1. polls' = [polls EXCEPT ![p] = new]
    BY DEF Poll
  <1>2. new \in PollRecord /\ new.held = {} /\ new.plan \subseteq Plan(task)
    <2>1. With(task, "done") \in SUBSET Tasks /\ Plan(task) \in SUBSET [stage : 1..7, type : ActionTypes, task : Tasks]
      BY PlanTyped DEF With
    <2>2. Idle \in PollRecord /\ Idle.held = {} /\ Idle.plan = {}
      BY DEF Idle, PollRecord
    <2> DEFINE x == [snapDone |-> With(task, "done"), plan |-> Plan(task), held |-> {}]
    <2>3. x \in PollRecord /\ x.held = {} /\ x.plan = Plan(task)
      BY <2>1 DEF PollRecord
    <2>. QED  BY <2>2, <2>3
  <1> HIDE DEF new
  <1>3. polls' \in [Pollers -> PollRecord]
    BY <1>1, <1>2, TypeParts
  <1>4. renewing' \subseteq Tasks /\ UNCHANGED <<task, owner, alive, pending, count>>
    BY TypeParts DEF Poll
  <1>5. TypeOK'
    BY <1>3, <1>4, TypeParts, CountsStay
  <1>6. polls'[p] = new
    BY <1>1, TypeParts
  <1>7. \A q \in Pollers : q # p => polls'[q] = polls[q]
    BY <1>1, TypeParts
  <1>. QED  BY <1>2, <1>4, <1>5, <1>6, <1>7

LEMMA PollGates ==
  ASSUME TypeOK, PlansGated, GateRespected, SessionsInStep, ChargedOnce, setup' = setup,
         NEW p \in Pollers, Poll(p)
  PROVE  PlansGated' /\ GateRespected' /\ SessionsInStep' /\ ChargedOnce'
  <1>1. UNCHANGED <<setup, task, owner, pending>>
    BY PollPlans
  <1>2. \A t \in Tasks : Gated(t) => Gated(t)'
    BY <1>1 DEF Gated, DepsDone, SubtasksDone, Children, Deps, Parent
  <1>3. GateRespected' /\ SessionsInStep' /\ ChargedOnce'
    BY <1>1 DEF GateRespected, DepsDone, SubtasksDone, Children, Deps, Parent, SessionsInStep, ChargedOnce
  <1>4. ASSUME NEW q \in Pollers
        PROVE  /\ polls[q].plan \subseteq [stage : 1..7, type : ActionTypes, task : Tasks]
               /\ polls[q].held \subseteq Tasks
    BY TypeParts DEF PollRecord
  <1>5. ASSUME NEW q \in Pollers
        PROVE  /\ \A a \in polls'[q].plan : a.type = "assign" => Gated(a.task)'
               /\ \A t \in polls'[q].held : Gated(t)'
    <2>1. CASE q = p
      <3>1. \A a \in polls'[q].plan : a.type = "assign" => a.task \in Tasks /\ Gated(a.task)
        BY <2>1, PollPlans, PlanAssigns DEF Eligible, Gated
      <3>. QED  BY <1>2, <2>1, <3>1, PollPlans
    <2>2. CASE q # p
      <3>1. polls'[q] = polls[q]
        BY <2>2, PollPlans
      <3>2. \A a \in polls[q].plan : a.type = "assign" => a.task \in Tasks /\ Gated(a.task)
        BY <1>4 DEF PlansGated
      <3>. QED  BY <1>2, <1>4, <3>1, <3>2 DEF PlansGated
    <2>. QED  BY <2>1, <2>2
  <1>6. PlansGated'
    BY <1>5 DEF PlansGated, Gated
  <1>. QED  BY <1>3, <1>6

-----------------------------------------------------------------------------
(* The listing is a total order, so the tasks that are admitted because few *)
(* enough precede them are few.                                             *)

LEMMA BeforeOrders ==
  \A t, u \in Tasks :
      /\ Before(t, u) => t # u
      /\ t # u => Before(t, u) \/ Before(u, t)
  <1>1. ASSUME NEW t \in Tasks PROVE \E i \in DOMAIN Listing : Listing[i] = t
    BY ListingAssumption
  <1>2. \A i \in DOMAIN Listing : i \in Int
    BY ListingAssumption
  <1>3. ASSUME NEW t \in Tasks, NEW u \in Tasks, Before(t, u) PROVE t # u
    BY <1>2, <1>3, ListingAssumption DEF Before
  <1>4. ASSUME NEW t \in Tasks, NEW u \in Tasks, t # u PROVE Before(t, u) \/ Before(u, t)
    <2>1. PICK i \in DOMAIN Listing, j \in DOMAIN Listing : Listing[i] = t /\ Listing[j] = u
      BY <1>1
    <2>2. i < j \/ j < i
      BY <1>2, <1>4, <2>1
    <2>. QED  BY <2>1, <2>2 DEF Before
  <1>. QED  BY <1>3, <1>4

LEMMA BeforeTransitive ==
  ASSUME NEW t, NEW u, NEW v, Before(t, u), Before(u, v)
  PROVE  Before(t, v)
  <1>1. PICK i \in DOMAIN Listing, j \in DOMAIN Listing : i < j /\ Listing[i] = t /\ Listing[j] = u
    BY DEF Before
  <1>2. PICK k \in DOMAIN Listing, l \in DOMAIN Listing : k < l /\ Listing[k] = u /\ Listing[l] = v
    BY DEF Before
  <1>3. j = k /\ i \in Int /\ j \in Int /\ l \in Int
    BY <1>1, <1>2, ListingAssumption
  <1>4. i < l
    BY <1>1, <1>2, <1>3
  <1>. QED  BY <1>1, <1>2, <1>4 DEF Before

(* Each task of A is charged with a set of tasks, a later one with more     *)
(* than an earlier one: with sizes from lo up to hi, there are hi - lo.     *)
LEMMA RankBound ==
  ASSUME NEW A \in SUBSET Tasks, NEW Rank \in [A -> SUBSET Tasks], NEW lo \in Nat, NEW hi \in Nat,
         \A t \in A : lo <= Cardinality(Rank[t]) /\ Cardinality(Rank[t]) < hi,
         \A t, u \in A : Before(t, u) => Rank[t] \subseteq Rank[u] /\ t \in Rank[u] /\ t \notin Rank[t]
  PROVE  Cardinality(A) \in Nat /\ Cardinality(A) <= IF lo <= hi THEN hi - lo ELSE 0
  <1>1. IsFiniteSet(Tasks)
    BY ListingAssumption
  <1>2. \A t \in A : IsFiniteSet(Rank[t]) /\ Cardinality(Rank[t]) \in Nat
    BY <1>1, FS_Subset, FS_CardinalityType
  <1> DEFINE f == [t \in A |-> Cardinality(Rank[t])]
             T == lo..(hi - 1)
  <1>3. f \in [A -> T]
    BY <1>2
  <1>4. ASSUME NEW t \in A, NEW u \in A, Before(t, u) PROVE f[t] # f[u]
    <2>1. Rank[t] \in SUBSET Rank[u] /\ Rank[t] # Rank[u]
      BY <1>4
    <2>. QED  BY <1>2, <2>1, FS_Subset
  <1>5. ASSUME NEW t \in A, NEW u \in A, f[t] = f[u] PROVE t = u
    BY <1>4, <1>5, BeforeOrders
  <1>6. f \in Injection(A, T)
    <2> HIDE DEF f, T
    <2>. QED  BY <1>3, <1>5 DEF Injection, IsInjective
  <1>7. IsFiniteSet(T) /\ Cardinality(T) = IF lo > hi - 1 THEN 0 ELSE hi - 1 - lo + 1
    BY FS_Interval
  <1>8. Cardinality(A) <= Cardinality(T)
    BY <1>6, <1>7, FS_Injection
  <1>9. Cardinality(A) \in Nat
    BY <1>1, FS_Subset, FS_CardinalityType
  <1>. QED  BY <1>7, <1>8, <1>9

LEMMA LimitsTyped ==
  ASSUME TypeOK
  PROVE  MaxConcurrent \in Nat /\ MaxPerPoll \in Nat /\ TeamMax \in Nat
  BY TypeParts, SetupsAssumption DEF MaxConcurrent, MaxPerPoll, TeamMax

LEMMA FiniteTasks ==
  \A S \in SUBSET Tasks : IsFiniteSet(S) /\ Cardinality(S) \in Nat
  BY ListingAssumption, FS_Subset, FS_CardinalityType

LEMMA SlotsBound ==
  ASSUME TypeOK
  PROVE  /\ Slots(task) \in Nat
         /\ Slots(task) <= MaxPerPoll
         /\ Cardinality(With(task, "in-progress")) <= MaxConcurrent
               => Cardinality(With(task, "in-progress")) + Slots(task) <= MaxConcurrent
  <1>1. Cardinality(With(task, "in-progress")) \in Nat
    BY FiniteTasks DEF With
  <1>. QED  BY <1>1, LimitsTyped DEF Slots

(* checkThrottle's global limits. *)
LEMMA AdmittedBound ==
  ASSUME TypeOK
  PROVE  Cardinality(Admitted(task)) \in Nat /\ Cardinality(Admitted(task)) <= Slots(task)
  <1> DEFINE A == Admitted(task)
             Rank == [t \in A |-> {u \in Willing(task) : Before(u, t)}]
  <1>1. A \in SUBSET Tasks /\ A \subseteq Willing(task) /\ Willing(task) \subseteq Tasks
    BY DEF Admitted, Willing
  <1>2. Rank \in [A -> SUBSET Tasks]
    BY <1>1
  <1>3. \A t \in A : 0 <= Cardinality(Rank[t]) /\ Cardinality(Rank[t]) < Slots(task)
    <2>1. \A t \in A : Cardinality(Rank[t]) \in Nat
      BY <1>2, FiniteTasks
    <2>2. \A t \in A : Cardinality(Rank[t]) < Slots(task)
      BY DEF Admitted
    <2> HIDE DEF Rank, A
    <2>. QED  BY <2>1, <2>2
  <1>4. ASSUME NEW t \in A, NEW u \in A, Before(t, u)
        PROVE  Rank[t] \subseteq Rank[u] /\ t \in Rank[u] /\ t \notin Rank[t]
    BY <1>1, <1>4, BeforeTransitive, BeforeOrders
  <1> HIDE DEF Rank
  <1>5. Cardinality(A) \in Nat /\ Cardinality(A) <= IF 0 <= Slots(task) THEN Slots(task) - 0 ELSE 0
    BY <1>1, <1>2, <1>3, <1>4, SlotsBound, RankBound
  <1>. QED  BY <1>5, SlotsBound

(* checkThrottle's limit for the team of t. *)
LEMMA TeamBound ==
  ASSUME TypeOK, NEW t \in Tasks, Team[t] # "none"
  PROVE  LET running == Cardinality(OfTeam(With(task, "in-progress"), t))
             admitted == Cardinality(OfTeam(Admitted(task), t))
         IN /\ running \in Nat /\ admitted \in Nat
            /\ running <= TeamMax => running + admitted <= TeamMax
  <1> DEFINE W == OfTeam(With(task, "in-progress"), t)
             A == OfTeam(Admitted(task), t)
             Rank == [v \in A |-> {u \in Tasks : /\ Team[u] = Team[v]
                                                 /\ \/ task[u].status = "in-progress"
                                                    \/ Eligible(task, u) /\ Before(u, v)}]
  <1>1. W \in SUBSET Tasks /\ A \in SUBSET Tasks
    BY DEF OfTeam, With, Admitted, Willing
  <1>2. \A v \in A : v \in Tasks /\ Team[v] = Team[t] /\ Eligible(task, v) /\ TeamHasRoom(task, v)
    BY PlanAssigns DEF OfTeam
  <1>3. Rank \in [A -> SUBSET Tasks]
    OBVIOUS
  <1>4. Cardinality(W) \in Nat
    BY <1>1, FiniteTasks
  <1>5. \A v \in A : Cardinality(W) <= Cardinality(Rank[v]) /\ Cardinality(Rank[v]) < TeamMax
    <2>1. ASSUME NEW v \in A PROVE W \in SUBSET Rank[v]
      BY <1>2 DEF OfTeam, With
    <2>2. \A v \in A : IsFiniteSet(Rank[v])
      BY <1>3, FiniteTasks
    <2>3. \A v \in A : Cardinality(Rank[v]) < TeamMax
      BY <1>2 DEF TeamHasRoom
    <2> HIDE DEF Rank, W, A
    <2>. QED  BY <2>1, <2>2, <2>3, FS_Subset
  <1>6. ASSUME NEW v \in A, NEW u \in A, Before(v, u)
        PROVE  Rank[v] \subseteq Rank[u] /\ v \in Rank[u] /\ v \notin Rank[v]
    <2>1. Rank[v] \subseteq Rank[u]
      BY <1>2, <1>6, BeforeTransitive
    <2>2. v \in Rank[u]
      BY <1>2, <1>6
    <2>3. v \notin Rank[v]
      BY <1>2, BeforeOrders DEF Eligible
    <2>. QED  BY <2>1, <2>2, <2>3
  <1> HIDE DEF Rank, W, A
  <1>7. /\ Cardinality(A) \in Nat
        /\ Cardinality(A) <= IF Cardinality(W) <= TeamMax THEN TeamMax - Cardinality(W) ELSE 0
    BY <1>1, <1>3, <1>4, <1>5, <1>6, LimitsTyped, RankBound
  <1>. QED  BY <1>4, <1>7, LimitsTyped DEF W, A

-----------------------------------------------------------------------------
(* The load only grows when a poll plans, and then within the limits. *)

LEMMA LoadFinite ==
  \A S \in SUBSET Load : IsFiniteSet(S) /\ Cardinality(S) \in Nat
  BY FiniteTasks DEF Load, Planned, With

LEMMA LoadStep ==
  ASSUME TypeOK, setup' = setup, StepShape, LoadWithinLimits
  PROVE  LoadWithinLimits'
  <1>1. Planned' \subseteq Planned
    BY DEF StepShape, PollsAdvance, Planned
  <1>2. Load' \in SUBSET Load
    BY <1>1 DEF StepShape, StatusesAdvance, Load, With
  <1>3. Load' \subseteq Tasks /\ Load \subseteq Tasks
    BY DEF Load, Planned, With
  <1>4. Cardinality(Load') <= MaxConcurrent
    <2>1. Cardinality(Load') <= Cardinality(Load)
      BY <1>2, LoadFinite, FS_Subset
    <2>2. Cardinality(Load') \in Nat /\ Cardinality(Load) \in Nat
      BY <1>2, LoadFinite
    <2>. QED  BY <2>1, <2>2, LimitsTyped DEF LoadWithinLimits
  <1>5. ASSUME NEW t \in Tasks, Team[t] # "none" PROVE Cardinality(OfTeam(Load', t)) <= TeamMax
    <2>1. OfTeam(Load', t) \in SUBSET OfTeam(Load, t) /\ OfTeam(Load, t) \in SUBSET Load
      BY <1>2 DEF OfTeam
    <2>2. Cardinality(OfTeam(Load', t)) <= Cardinality(OfTeam(Load, t))
      BY <2>1, LoadFinite, FS_Subset
    <2>3. Cardinality(OfTeam(Load', t)) \in Nat /\ Cardinality(OfTeam(Load, t)) \in Nat
      BY <2>1, LoadFinite
    <2>4. Cardinality(OfTeam(Load, t)) <= TeamMax
      BY <1>5 DEF LoadWithinLimits
    <2>. QED  BY <2>2, <2>3, <2>4, LimitsTyped
  <1>6. ASSUME MaxPerPoll <= 1, NEW t \in Load', NEW u \in Load', Resource[t] = Resource[u]
        PROVE  t = u \/ Resource[t] = "none"
    BY <1>2, <1>6 DEF LoadWithinLimits
  <1>7. /\ MaxConcurrent' = MaxConcurrent /\ TeamMax' = TeamMax /\ MaxPerPoll' = MaxPerPoll
        /\ Team' = Team /\ Resource' = Resource
    BY DEF MaxConcurrent, TeamMax, MaxPerPoll, Team, Resource
  <1>8. \A t \in Tasks : OfTeam(Load, t)' = OfTeam(Load', t)
    BY <1>7 DEF OfTeam
  <1>. QED  BY <1>4, <1>5, <1>6, <1>7, <1>8 DEF LoadWithinLimits

LEMMA UnionBound ==
  ASSUME NEW S \in SUBSET Tasks, NEW T \in SUBSET Tasks, NEW U \in SUBSET (S \cup T)
  PROVE  Cardinality(U) <= Cardinality(S) + Cardinality(T)
  <1>1. IsFiniteSet(S) /\ IsFiniteSet(T) /\ S \cup T \in SUBSET Tasks /\ U \in SUBSET Tasks /\ S \cap T \in SUBSET Tasks
    BY FiniteTasks
  <1>2. Cardinality(S \cup T) = Cardinality(S) + Cardinality(T) - Cardinality(S \cap T)
    BY <1>1, FS_Union
  <1>3. Cardinality(U) <= Cardinality(S \cup T)
    BY <1>1, FiniteTasks, FS_Subset
  <1>. QED  BY <1>1, <1>2, <1>3, FiniteTasks

LEMMA PollLoad ==
  ASSUME TypeOK, setup' = setup, OnePoller, NEW p \in Pollers, Poll(p), LoadWithinLimits
  PROVE  LoadWithinLimits'
  <1> DEFINE W == With(task, "in-progress")
             A == Admitted(task)
  <1>1. Planned' \subseteq A
    BY PollPlans, PlanAssigns DEF OnePoller, Planned
  <1>2. W' = W
    BY PollPlans DEF With
  <1>3. Load' \in SUBSET (W \cup A)
    BY <1>1, <1>2 DEF Load
  <1>4. W \in SUBSET Tasks /\ A \in SUBSET Tasks /\ W \in SUBSET Load /\ Load' \in SUBSET Tasks
    BY DEF With, Load, Planned, Admitted, Willing
  <1> HIDE DEF W, A
  <1>5. Cardinality(Load') <= MaxConcurrent
    <2>1. Cardinality(W) <= MaxConcurrent
      <3>1. Cardinality(W) <= Cardinality(Load)
        BY <1>4, LoadFinite, FS_Subset
      <3>. QED  BY <1>4, <3>1, LoadFinite, LimitsTyped DEF LoadWithinLimits
    <2>2. Cardinality(W) + Cardinality(A) <= MaxConcurrent
      BY <2>1, <1>4, FiniteTasks, AdmittedBound, SlotsBound, LimitsTyped DEF W, A
    <2>3. Cardinality(Load') <= Cardinality(W) + Cardinality(A)
      BY <1>3, <1>4, UnionBound
    <2>. QED  BY <2>2, <2>3, <1>4, FiniteTasks, LimitsTyped
  <1>6. ASSUME NEW t \in Tasks, Team[t] # "none" PROVE Cardinality(OfTeam(Load', t)) <= TeamMax
    <2>1. OfTeam(Load', t) \in SUBSET (OfTeam(W, t) \cup OfTeam(A, t))
      BY <1>3 DEF OfTeam
    <2>2. /\ OfTeam(W, t) \in SUBSET OfTeam(Load, t) /\ OfTeam(Load, t) \in SUBSET Load
          /\ OfTeam(W, t) \in SUBSET Tasks /\ OfTeam(A, t) \in SUBSET Tasks /\ OfTeam(Load', t) \in SUBSET Tasks
      BY <1>4 DEF OfTeam
    <2>3. Cardinality(OfTeam(W, t)) <= TeamMax
      <3>1. Cardinality(OfTeam(W, t)) <= Cardinality(OfTeam(Load, t))
        BY <2>2, LoadFinite, FS_Subset
      <3>2. Cardinality(OfTeam(Load, t)) <= TeamMax
        BY <1>6 DEF LoadWithinLimits
      <3>. QED  BY <2>2, <3>1, <3>2, LoadFinite, FiniteTasks, LimitsTyped
    <2>4. Cardinality(OfTeam(W, t)) + Cardinality(OfTeam(A, t)) <= TeamMax
      BY <1>6, <2>3, TeamBound DEF W, A
    <2>5. Cardinality(OfTeam(Load', t)) <= Cardinality(OfTeam(W, t)) + Cardinality(OfTeam(A, t))
      BY <2>1, <2>2, UnionBound
    <2>. QED  BY <2>2, <2>4, <2>5, FiniteTasks, LimitsTyped
  <1>7. ASSUME MaxPerPoll <= 1, NEW t \in Load', NEW u \in Load', Resource[t] = Resource[u]
        PROVE  t = u \/ Resource[t] = "none"
    <2>1. ASSUME NEW x \in A, NEW y \in A PROVE x = y
      <3>1. ASSUME NEW v \in A, NEW w \in A, Before(v, w) PROVE FALSE
        <4> DEFINE earlier == {z \in Willing(task) : Before(z, w)}
        <4>1. earlier \in SUBSET Tasks /\ v \in earlier
          BY <3>1, PlanAssigns DEF A
        <4>2. Cardinality(earlier) < Slots(task)
          BY DEF A, Admitted
        <4>3. Cardinality(earlier) \in Nat /\ IsFiniteSet(earlier)
          BY <4>1, FiniteTasks
        <4>4. Cardinality(earlier) = 0
          BY <1>7, <4>2, <4>3, SlotsBound, LimitsTyped
        <4> HIDE DEF earlier
        <4>. QED  BY <4>1, <4>3, <4>4, FS_EmptySet
      <3>. QED  BY <3>1, <1>4, BeforeOrders
    <2>2. ASSUME NEW x \in A, NEW y \in W, Resource[x] = Resource[y] PROVE Resource[x] = "none"
      <3>1. Resource[x] \notin OccupiedResources(task)
        BY PlanAssigns DEF A, Eligible
      <3>. QED  BY <2>2, <3>1 DEF OccupiedResources, W
    <2>3. ASSUME NEW x \in W, NEW y \in W, Resource[x] = Resource[y] PROVE x = y \/ Resource[x] = "none"
      BY <1>4, <1>7, <2>3 DEF LoadWithinLimits
    <2>4. t \in W \cup A /\ u \in W \cup A
      BY <1>3
    <2>. QED  BY <1>7, <2>1, <2>2, <2>3, <2>4
  <1>8. /\ MaxConcurrent' = MaxConcurrent /\ TeamMax' = TeamMax /\ MaxPerPoll' = MaxPerPoll
        /\ Team' = Team /\ Resource' = Resource
    BY DEF MaxConcurrent, TeamMax, MaxPerPoll, Team, Resource
  <1>9. \A t \in Tasks : OfTeam(Load, t)' = OfTeam(Load', t)
    BY <1>8 DEF OfTeam
  <1>. QED  BY <1>5, <1>6, <1>7, <1>8, <1>9 DEF LoadWithinLimits

-----------------------------------------------------------------------------
(* A verdict stands: what a plan moves to ready has retries left, and is    *)
(* not spawned before the plan gets to it.                                  *)

LEMMA VerdictsKept ==
  ASSUME TypeOK, setup' = setup, OnePoller, StepShape, VerdictsStand
  PROVE  VerdictsStand'
  <1>1. \A t \in Tasks : Failed(task[t])' <=> Failed(task'[t])
    BY DEF Failed, MaxRetries
  <1>2. ASSUME NEW t \in Tasks, task'[t].status = "backlog" PROVE task'[t].reason # "spawn_failed"
    <2>1. task[t].status = "backlog"
      BY <1>2 DEF StepShape, StatusesAdvance
    <2>2. LockFree(t)
      BY <2>1 DEF VerdictsStand, LockFree
    <2>. QED  BY <2>1, <2>2 DEF StepShape, FailuresAdvance, VerdictsStand
  <1>3. ASSUME NEW p \in Pollers, NEW t \in polls'[p].held
        PROVE  /\ task'[t].status # "backlog"
               /\ \E a \in polls'[p].plan : a.type = "assign" /\ a.task = t
    <2>1. polls'[p].plan = polls[p].plan
      BY DEF StepShape, PollsAdvance
    <2>2. CASE t \in polls[p].held
      <3>1. t \in Tasks
        BY <2>2, TypeParts DEF PollRecord
      <3>. QED  BY <2>1, <2>2, <3>1 DEF StepShape, StatusesAdvance, VerdictsStand
    <2>3. CASE t \notin polls[p].held
      BY <2>1, <2>3 DEF StepShape, PollsAdvance
    <2>. QED  BY <2>2, <2>3
  <1>4. ASSUME NEW p \in Pollers, NEW a \in polls'[p].plan, a.type \in {"promote", "requeue"}
        PROVE  /\ ~Failed(task'[a.task]) /\ a.task \in Tasks
               /\ \A b \in polls'[p].plan : b.type = "assign" => b.task # a.task
    <2>1. polls'[p].plan \subseteq polls[p].plan
      BY DEF StepShape, PollsAdvance
    <2>2. a.task \in Tasks
      BY <2>1, TypeParts DEF PollRecord
    <2>3. ~Failed(task[a.task]) /\ \A b \in polls[p].plan : b.type = "assign" => b.task # a.task
      BY <1>4, <2>1 DEF VerdictsStand
    <2>4. LockFree(a.task)
      BY <2>3 DEF VerdictsStand, LockFree, OnePoller
    <2>. QED  BY <2>1, <2>2, <2>3, <2>4 DEF StepShape, FailuresAdvance
  <1>. QED  BY <1>1, <1>2, <1>3, <1>4 DEF VerdictsStand

LEMMA PlanVerdicts ==
  ASSUME TypeOK, NEW a \in Plan(task)
  PROVE  /\ a.type = "promote" => task[a.task].status = "backlog"
         /\ a.type = "requeue" => task[a.task].status = "blocked" /\ ~Failed(task[a.task])
         /\ a.type = "assign" => task[a.task].status = "ready"
  <1>1. a.type = "promote" => a \in checkBacklogPromotion(task)
    BY DEF Plan, checkExpiredLeases, checkStaleHeartbeats, assignActions, buildDispatchActions,
           blockActions, checkBlockedTaskRecovery, Action
  <1>2. a.type = "requeue" => a \in checkBlockedTaskRecovery(task)
    BY DEF Plan, checkExpiredLeases, checkStaleHeartbeats, checkBacklogPromotion, assignActions,
           buildDispatchActions, blockActions, Action
  <1>3. a.type = "promote" => task[a.task].status = "backlog"
    BY <1>1 DEF checkBacklogPromotion, With, Action
  <1>4. ASSUME a.type = "requeue" PROVE task[a.task].status = "blocked" /\ ~Failed(task[a.task])
    <2>1. a.task \in Tasks /\ RecoveryOf(task, a.task) = "allow"
      BY <1>2, <1>4 DEF checkBlockedTaskRecovery, Action
    <2>2. task[a.task].status = "blocked"
      BY <2>1 DEF RecoveryOf
    <2>3. task[a.task].reason = "spawn_failed" => ~(task[a.task].retry >= MaxRetries)
      BY <2>1, <2>2 DEF RecoveryOf, RetryVerdict
    <2>. QED  BY <2>2, <2>3 DEF Failed
  <1>5. a.type = "assign" => task[a.task].status = "ready"
    BY PlanAssigns DEF Eligible
  <1>. QED  BY <1>3, <1>4, <1>5

LEMMA PollVerdicts ==
  ASSUME TypeOK, setup' = setup, OnePoller, NEW p \in Pollers, Poll(p), VerdictsStand
  PROVE  VerdictsStand'
  <1>1. /\ task' = task /\ polls'[p].held = {} /\ polls'[p].plan \subseteq Plan(task)
        /\ \A q \in Pollers : q = p
    BY PollPlans DEF OnePoller
  <1>2. \A t \in Tasks : Failed(task[t])' <=> Failed(task[t])
    BY <1>1 DEF Failed, MaxRetries
  <1>3. \A a \in Plan(task) : a.task \in Tasks
    BY PlanTyped
  <1>4. ASSUME NEW a \in polls'[p].plan, a.type \in {"promote", "requeue"}
        PROVE  /\ ~Failed(task[a.task]) /\ a.task \in Tasks
               /\ \A b \in polls'[p].plan : b.type = "assign" => b.task # a.task
    <2>1. a \in Plan(task) /\ task[a.task].status \in {"backlog", "blocked"}
      BY <1>1, <1>4, PlanVerdicts
    <2>2. ~Failed(task[a.task])
      BY <1>3, <1>4, <2>1, PlanVerdicts DEF VerdictsStand, Failed
    <2>3. \A b \in polls'[p].plan : b.type = "assign" => task[b.task].status = "ready"
      BY <1>1, PlanVerdicts
    <2>. QED  BY <1>3, <2>1, <2>2, <2>3
  <1>. QED  BY <1>1, <1>2, <1>4 DEF VerdictsStand

-----------------------------------------------------------------------------
LEMMA Initially == Init => IInv
  <1> SUFFICES ASSUME Init PROVE IInv
    OBVIOUS
  <1>1. \A s \in Statuses : Created(s) \in Record
    BY DEF Created, Record, Classes
  <1>2. task \in [Tasks -> Record]
    BY <1>1 DEF Init
  <1>3. \A t \in Tasks : /\ task[t].session = 0 /\ task[t].fails = 0
                         /\ task[t].status # "in-progress"
    <2>1. \A t \in Tasks : \E s \in Statuses : task[t] = Created(s)
      BY DEF Init
    <2>2. \A t \in Tasks : task[t].status \in InitialStatuses \cup {"cancelled"}
      BY BoundsAssumption DEF Init
    <2>3. \A s \in Statuses : Created(s).session = 0 /\ Created(s).fails = 0
      BY DEF Created
    <2>4. \A t \in Tasks : task[t].session = 0 /\ task[t].fails = 0
      BY <2>1, <2>3
    <2>5. "in-progress" \notin InitialStatuses \cup {"cancelled"}
      BY DEF InitialStatuses
    <2>. QED  BY <2>2, <2>4, <2>5
  <1>4. polls \in [Pollers -> PollRecord] /\ \A p \in Pollers : polls[p].plan = {} /\ polls[p].held = {}
    BY DEF Init, Idle, PollRecord
  <1>5. setup \in Setups /\ setup.bounds \in [{"attempts", "interventions", "sessionEnds", "crashes"} -> Nat]
    BY BoundsAssumption DEF Init
  <1>6. Counted
    BY <1>5 DEF Init, Counted
  <1>7. owner = <<>> /\ Len(owner) = 0 /\ DOMAIN owner = {} /\ alive = {} /\ pending = {} /\ renewing = {}
    BY DEF Init
  <1>8. TypeOK
    BY <1>2, <1>4, <1>5, <1>6, <1>7, TypeParts
  <1>9. PlansGated /\ GateRespected
    BY <1>4, <1>7 DEF PlansGated, GateRespected
  <1>10. SessionsInStep
    BY <1>3, <1>7 DEF SessionsInStep
  <1>11. ChargedOnce
    <2>1. \A t \in Tasks : Cardinality(Over(t)) \in Nat
      BY <1>8, TypeParts, OverFinite
    <2>. QED  BY <1>3, <2>1 DEF ChargedOnce, Over
  <1>12. LoadWithinLimits
    <2>1. Load = {}
      BY <1>3, <1>4 DEF Load, Planned, With
    <2>2. \A t \in Tasks : OfTeam(Load, t) = {}
      BY <2>1 DEF OfTeam
    <2>. QED  BY <1>8, <2>1, <2>2, FS_EmptySet, LimitsTyped DEF LoadWithinLimits
  <1>13. VerdictsStand
    <2>1. \A s \in Statuses : Created(s).reason = "none"
      BY DEF Created
    <2>2. \A t \in Tasks : task[t].reason = "none"
      BY <2>1 DEF Init
    <2>. QED  BY <1>4, <2>2 DEF VerdictsStand
  <1>. QED  BY <1>8, <1>9, <1>10, <1>11, <1>12, <1>13 DEF IInv

LEMMA Inductive == IInv /\ [Next]_vars => IInv'
  <1> SUFFICES ASSUME IInv, [Next]_vars PROVE IInv'
    OBVIOUS
  <1>1. /\ TypeOK /\ PlansGated /\ GateRespected /\ SessionsInStep /\ ChargedOnce
        /\ OnePoller => LoadWithinLimits /\ VerdictsStand
    BY DEF IInv
  <1>2. setup' = setup /\ (StepShape \/ \E p \in Pollers : Poll(p))
    BY <1>1, EveryStep
  <1>3. CASE StepShape
    <2>1. TypeOK' /\ PlansGated' /\ GateRespected' /\ SessionsInStep' /\ ChargedOnce'
      BY <1>1, <1>2, <1>3, GatesKept, AccountsKept DEF StepShape
    <2>2. OnePoller => LoadWithinLimits' /\ VerdictsStand'
      BY <1>1, <1>2, <1>3, LoadStep, VerdictsKept
    <2>. QED  BY <2>1, <2>2 DEF IInv, OnePoller
  <1>4. CASE \E p \in Pollers : Poll(p)
    <2>1. PICK p \in Pollers : Poll(p)
      BY <1>4
    <2>2. TypeOK' /\ PlansGated' /\ GateRespected' /\ SessionsInStep' /\ ChargedOnce'
      BY <1>1, <1>2, <2>1, PollPlans, PollGates
    <2>3. OnePoller => LoadWithinLimits' /\ VerdictsStand'
      BY <1>1, <1>2, <2>1, PollLoad, PollVerdicts
    <2>. QED  BY <2>2, <2>3 DEF IInv, OnePoller
  <1>. QED  BY <1>2, <1>3, <1>4

(* The inductive invariant, and with it the types, is kept by every step.   *)
THEOREM Invariance == Spec => []IInv
  BY Initially, Inductive, PTL DEF Spec

(* Dependency and subtask gating: no session is ever started for a task     *)
(* that waits for another one (buildDispatchActions, executeAssignAction).  *)
THEOREM DispatchGated == Spec => []GateRespected
  <1>1. IInv => GateRespected
    BY DEF IInv
  <1>. QED  BY <1>1, Invariance, PTL

(* The failure budget: a session is charged to its task once at most,       *)
(* whichever of deliverResult and the stale heartbeat comes first.          *)
THEOREM NeverChargedTwice == Spec => []ChargedOnce
  <1>1. IInv => ChargedOnce
    BY DEF IInv
  <1>. QED  BY <1>1, Invariance, PTL

(* The limits of throttle.ts and the exclusive resources hold while one     *)
(* poll body runs at a time.                                                *)
THEOREM LimitsNeverExceeded ==
  ASSUME OnePoller
  PROVE  Spec => []LimitsKept
  <1>1. IInv => LimitsKept
    <2> SUFFICES ASSUME IInv PROVE LimitsKept
      OBVIOUS
    <2> DEFINE W == With(task, "in-progress")
    <2>1. LoadWithinLimits /\ TypeOK /\ W \in SUBSET Load
      BY DEF IInv, Load
    <2>2. ConcurrencyLimit
      <3>1. Cardinality(W) <= Cardinality(Load)
        BY <2>1, LoadFinite, FS_Subset
      <3>. QED  BY <2>1, <3>1, LoadFinite, LimitsTyped DEF LoadWithinLimits, ConcurrencyLimit
    <2>3. TeamLimit
      <3>1. ASSUME NEW t \in Tasks, Team[t] # "none" PROVE Cardinality(OfTeam(W, t)) <= TeamMax
        <4>1. OfTeam(W, t) \in SUBSET OfTeam(Load, t) /\ OfTeam(Load, t) \in SUBSET Load
          BY <2>1 DEF OfTeam
        <4>2. Cardinality(OfTeam(W, t)) <= Cardinality(OfTeam(Load, t))
          BY <4>1, LoadFinite, FS_Subset
        <4>3. Cardinality(OfTeam(Load, t)) <= TeamMax
          BY <2>1, <3>1 DEF LoadWithinLimits
        <4>4. OfTeam(W, t) \in SUBSET Load
          BY <4>1
        <4>. QED  BY <2>1, <4>1, <4>2, <4>3, <4>4, LoadFinite, LimitsTyped
      <3>. QED  BY <3>1 DEF TeamLimit, OfTeam
    <2>4. ResourceExclusive
      BY <2>1 DEF LoadWithinLimits, ResourceExclusive
    <2>. QED  BY <2>1, <2>2, <2>3, <2>4 DEF LimitsKept
  <1>. QED  BY <1>1, Invariance, PTL

(* The retry budget of failed spawns: with one poll body at a time, nothing *)
(* but a reset of its counter, or a dependency reported done again, makes a *)
(* task ready whose retries are used up.                                    *)
THEOREM RetriesNeverOverdrawn ==
  ASSUME OnePoller
  PROVE  Spec => RetriesRespected
  <1>1. ASSUME IInv, [Next]_vars
        PROVE  [\A t \in Tasks :
                   Exhausted(task[t]) /\ LockFree(t) /\ task'[t].status = "ready" =>
                       task'[t].retry = 0 \/ \E d \in Deps[t] : task'[d].result = "done"]_vars
    <2>1. StepShape \/ \E p \in Pollers : Poll(p)
      BY <1>1, EveryStep DEF IInv
    <2>2. CASE StepShape
      BY <2>2 DEF StepShape, RetriesRest
    <2>3. CASE \E p \in Pollers : Poll(p)
      BY <2>3 DEF Poll, Exhausted
    <2>. QED  BY <2>1, <2>2, <2>3
  <1>. QED  BY <1>1, Invariance, PTL DEF Spec, RetriesRespected

=============================================================================
