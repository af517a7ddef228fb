------------------------- MODULE StandaloneSessions --------------------------
(* The standalone adapter: a session is created at the gateway over HTTP, and   *)
(* its end is found by polling, until a deadline.                               *)
EXTENDS Naturals

CONSTANTS
    Tasks,
    MaxPolls,   \* polls within thirty minutes: the deadline
    Setups      \* records: losses (requests or answers that fail)

VARIABLES
    setup,
    session,    \* the gateway's session of a task: none, running, completed, dead
    caller,     \* what spawnSession returned: none, waiting, failed, started
    poller,     \* polls done of pollForCompletion's loop, or Off when it is not running
    outcomes,   \* the last report given to onRunComplete, by task
    reports,    \* how many there were
    budget

vars == <<setup, session, caller, poller, outcomes, reports, budget>>
Off == MaxPolls + 1

Init ==
    /\ setup \in Setups
    /\ session = [t \in Tasks |-> "none"] /\ caller = [t \in Tasks |-> "none"]
    /\ poller = [t \in Tasks |-> Off] /\ outcomes = [t \in Tasks |-> "none"]
    /\ reports = [t \in Tasks |-> 0] /\ budget = setup.losses

Lose == budget > 0 /\ budget' = budget - 1

(* POST /v1/sessions: refused or never arrived; accepted; accepted, and the     *)
(* answer lost or late, so that the spawn counts as failed.                     *)
Refused(t) ==
    /\ caller[t] = "none" /\ Lose /\ caller' = [caller EXCEPT ![t] = "failed"]
    /\ UNCHANGED <<setup, session, poller, outcomes, reports>>
spawnSession(t) ==
    /\ caller[t] = "none" /\ session' = [session EXCEPT ![t] = "running"]
    /\ caller' = [caller EXCEPT ![t] = "started"] /\ poller' = [poller EXCEPT ![t] = 0]
    /\ UNCHANGED <<setup, outcomes, reports, budget>>
AnswerLost(t) ==
    /\ caller[t] = "none" /\ Lose /\ session' = [session EXCEPT ![t] = "running"]
    /\ caller' = [caller EXCEPT ![t] = "failed"]
    /\ UNCHANGED <<setup, poller, outcomes, reports>>

(* The gateway: a session completes or dies. *)
Ends(t) ==
    /\ session[t] = "running" /\ \E s \in {"completed", "dead"} : session' = [session EXCEPT ![t] = s]
    /\ UNCHANGED <<setup, caller, poller, outcomes, reports, budget>>
(* forceCompleteSession: fire and forget. *)
forceCompleteSession(t) ==
    /\ session[t] = "running" /\ caller[t] = "started" /\ session' = [session EXCEPT ![t] = "completed"]
    /\ UNCHANGED <<setup, caller, poller, outcomes, reports, budget>>

Report(t, outcome) ==
    /\ poller' = [poller EXCEPT ![t] = Off] /\ outcomes' = [outcomes EXCEPT ![t] = outcome]
    /\ reports' = [reports EXCEPT ![t] = @ + 1]

getSessionStatus(t) == [alive |-> session[t] = "running", completed |-> session[t] = "completed"]

pollForCompletion(t) ==
    LET status == getSessionStatus(t)
    IN  /\ poller[t] < MaxPolls
        /\ IF ~status.alive \/ status.completed
             THEN Report(t, IF status.completed THEN "success" ELSE "failure")
             ELSE poller' = [poller EXCEPT ![t] = @ + 1] /\ UNCHANGED <<outcomes, reports>>
        /\ UNCHANGED <<setup, session, caller, budget>>
(* Any failing request reads as a session that is not alive. *)
StatusLost(t) ==
    /\ poller[t] < MaxPolls /\ Lose /\ Report(t, "failure")
    /\ UNCHANGED <<setup, session, caller>>
(* Mutation of PollDeadline: the loop ends without a word. *)
PollDeadlineSilent(t) ==
    /\ poller[t] = MaxPolls /\ poller' = [poller EXCEPT ![t] = Off]
    /\ UNCHANGED <<setup, session, caller, outcomes, reports, budget>>
PollDeadline(t) ==
    /\ poller[t] = MaxPolls /\ Report(t, "timeout")
    /\ UNCHANGED <<setup, session, caller, budget>>

Polls(t) == pollForCompletion(t) \/ PollDeadline(t)
Next ==
    \E t \in Tasks : \/ Refused(t) \/ spawnSession(t) \/ AnswerLost(t) \/ Ends(t)
                     \/ forceCompleteSession(t) \/ StatusLost(t) \/ Polls(t)
Fairness == \A t \in Tasks : WF_vars(Polls(t))
Spec == Init /\ [][Next]_vars /\ Fairness

(* The scheduler hears of the end of a run once, never twice, and never of one  *)
(* it was told did not start (pollForCompletion).                               *)
ReportedOnce == \A t \in Tasks : reports[t] <= 1 /\ (caller[t] # "started" => reports[t] = 0)

(* Success is only reported of a session that completed; a session that is      *)
(* reported to have failed has ended, unless a request was lost.                *)
ReportTrue ==
    \A t \in Tasks : /\ outcomes[t] = "success" => session[t] = "completed"
                     /\ outcomes[t] = "failure" => (session[t] # "running" \/ budget < setup.losses)

Started(t) == caller[t] = "started"
(* Whatever the gateway does, the scheduler is told within the deadline. *)
Told == \A t \in Tasks : Started(t) ~> (reports[t] > 0)
=============================================================================
