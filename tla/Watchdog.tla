------------------------------- MODULE Watchdog -------------------------------
(* The watchdog plugin: it asks the daemon for its health, restarts it within a *)
(* budget per window of time, and alerts and ends when the budget is spent.     *)
EXTENDS Integers, Sequences, FiniteSets, SequencesExt

CONSTANTS
    MaxTime,   \* the clock's bound
    Setups     \* records: max and window (the configuration), flaps, throws

VARIABLES
    setup,
    now,
    healthy,    \* what the health endpoint answers
    restarts,   \* the tracker's records: times, oldest first
    loop,       \* waiting for the timer, answered, alerting, ended
    answer,     \* the result of the last check
    every,      \* all restarts there were (history)
    alerts,     \* alerts sent
    budget      \* changes of health, and callbacks that throw, left

vars == <<setup, now, healthy, restarts, loop, answer, every, alerts, budget>>

Init ==
    /\ setup \in Setups /\ now = 0 /\ healthy = TRUE /\ restarts = <<>> /\ loop = "timer"
    /\ answer = TRUE /\ every = <<>> /\ alerts = 0
    /\ budget = [flaps |-> setup.flaps, throws |-> setup.throws]

(* Records older than the window leave. *)
pruneOldRestarts(s) == SelectSeq(s, LAMBDA t : t >= now - setup.window)

(* Mutation of canRestart: one less. *)
canRestartOneLess == Len(pruneOldRestarts(restarts)) + 1 < setup.max
canRestart == Len(pruneOldRestarts(restarts)) < setup.max

checkHealth ==
    /\ loop = "timer" /\ answer' = healthy /\ loop' = "answered"
    /\ UNCHANGED <<setup, now, healthy, restarts, every, alerts, budget>>

(* Healthy: the timer is set again. *)
Schedule ==
    /\ loop = "answered" /\ answer /\ loop' = "timer"
    /\ UNCHANGED <<setup, now, healthy, restarts, answer, every, alerts, budget>>

(* recordRestart, then the callback: one that throws ends the loop, for the     *)
(* timer is set after it.                                                       *)
restartDaemon(throws) ==
    /\ loop = "answered" /\ ~answer /\ canRestart
    /\ restarts' = pruneOldRestarts(Append(restarts, now)) /\ every' = Append(every, now)
    /\ throws => budget.throws > 0
    /\ budget' = [budget EXCEPT !.throws = IF throws THEN @ - 1 ELSE @]
    /\ loop' = IF throws THEN "ended" ELSE "timer"
    /\ UNCHANGED <<setup, now, healthy, answer, alerts>>

alertOpsTeam ==
    /\ loop = "answered" /\ ~answer /\ ~canRestart
    /\ alerts' = alerts + 1 /\ loop' = "ended" /\ restarts' = pruneOldRestarts(restarts)
    /\ UNCHANGED <<setup, now, healthy, answer, every, budget>>

(* Between two checks time passes; the daemon's health may change at any time.  *)
Tick ==
    /\ now < MaxTime /\ now' = now + 1
    /\ UNCHANGED <<setup, healthy, restarts, loop, answer, every, alerts, budget>>
Flap ==
    /\ budget.flaps > 0 /\ budget' = [budget EXCEPT !.flaps = @ - 1] /\ healthy' = ~healthy
    /\ UNCHANGED <<setup, now, restarts, loop, answer, every, alerts>>

Loop == checkHealth \/ Schedule \/ restartDaemon(FALSE) \/ alertOpsTeam
Next == (loop # "ended" /\ (Loop \/ restartDaemon(TRUE) \/ Tick \/ Flap))
(* The timer fires. *)
Fairness == WF_vars(Loop)
Spec == Init /\ [][Next]_vars /\ Fairness

(* In every window of the configured length there are at most max restarts:     *)
(* pruning must not forget one that still counts (restart-tracker.ts).          *)
RestartsInWindow ==
    \A i \in DOMAIN every :
        Cardinality({j \in DOMAIN every : every[j] >= every[i] - setup.window /\ j <= i}) <= setup.max

Settled == healthy \/ alerts = 1 \/ budget.throws < setup.throws \/ now < MaxTime
(* A daemon that stays unhealthy is reported, once the restarts of a window are *)
(* used up; a throwing callback is the only other end (watchdogLoop).           *)
Reported == []<>Settled

AlertStep == alerts' > alerts => Cardinality({j \in DOMAIN every : every[j] >= now - setup.window}) >= setup.max
(* Nobody is woken while a restart is still allowed: an alert is sent only when *)
(* the window that ends now holds max restarts (handleUnhealthy).               *)
AlertJustified == [][AlertStep]_vars
=============================================================================
