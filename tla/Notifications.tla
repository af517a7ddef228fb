---------------------------- MODULE Notifications ----------------------------
(* Events and who hears of them: the event log and its callbacks, the policy    *)
(* engine with its rules and its suppression of duplicates, the reload of the   *)
(* rules, and the SLA check of every poll.                                      *)
EXTENDS Integers, Sequences, FiniteSets

CONSTANTS
    Tasks,
    Window, SlaWindow,   \* dedupeWindowMs: the default, and that of sla.violation
    Limit,               \* getSLALimit, in ticks
    MaxTime,             \* the clock's bound
    Setups               \* records: see MCOversight

VARIABLES
    setup, now,
    updatedAt,  \* of the tasks in progress, or -1
    dedupe,     \* DeduplicationStore: last send by task and event type, or -1
    rules,      \* the engine's rules: default or custom
    file,       \* the rules file: its rules, default (missing or unusable) or custom;
                \* watched: fs.watch has a watcher on it; unseen: an edit found none
    reloads,    \* reloads that have read the file: the contents they read
    due,        \* the debounce timer is running
    sending,    \* notifications handed to the adapter
    sent,       \* those delivered
    quiet,      \* events that were suppressed
    polled,     \* a poll took place at this time
    budget

vars == <<setup, now, updatedAt, dedupe, rules, file, reloads, due, sending, sent, quiet, polled, budget>>

EventTypes == {"transitioned", "deadletter", "sla"}

Init ==
    /\ setup \in Setups /\ now = 0 /\ updatedAt = [t \in Tasks |-> -1]
    /\ dedupe = [t \in Tasks |-> [e \in EventTypes |-> -1]]
    /\ rules = "default" /\ file = [rules |-> "default", watched |-> ~setup.missing, unseen |-> FALSE]
    /\ reloads = {} /\ due = FALSE
    /\ sending = {} /\ sent = {} /\ quiet = {} /\ polled = FALSE
    /\ budget = [events |-> setup.events, touches |-> setup.touches, edits |-> setup.edits, failures |-> setup.failures]

Spend(kind) == budget[kind] > 0 /\ budget' = [budget EXCEPT ![kind] = @ - 1]

(* --------------------------------- The engine ------------------------------- *)

(* The first rule that matches: its window (0: always sent) and whether it      *)
(* suppresses.  The specific transitions come before the general one.  The      *)
(* custom file has rules for transitions and dead letters only, none marked.    *)
findMatchingRule(e) ==
    CASE e.type = "transitioned" ->
             [match |-> TRUE, never |-> FALSE,
              window |-> IF e.to = "review" /\ rules = "default" THEN 0 ELSE Window]
      [] e.type = "deadletter" -> [match |-> TRUE, window |-> Window, never |-> rules = "default"]
      [] OTHER -> [match |-> rules = "default", window |-> SlaWindow, never |-> FALSE]

(* ALWAYS_CRITICAL_EVENTS are not suppressed whatever the rule says. *)
neverSuppress(e, rule) == rule.never \/ e.type = "deadletter"

Recent(t, type, window) == dedupe[t][type] # -1 /\ now - dedupe[t][type] < window
(* The time is recorded when the sending is decided, not when it is done. *)
shouldSend(e, window) ==
    LET yes == window = 0 \/ ~Recent(e.task, e.type, window)
    IN  [yes |-> yes,
         dedupe |-> IF window # 0 /\ yes THEN [dedupe EXCEPT ![e.task][e.type] = now] ELSE dedupe]

(* What happens to an event up to the call of the adapter. *)
handleEvent(es) ==
    LET After(e, st) ==
            LET rule == findMatchingRule(e)
                ask == shouldSend(e, rule.window)
                m == [task |-> e.task, type |-> e.type, to |-> e.to, at |-> now, window |-> rule.window]
            IN  IF ~rule.match THEN st
                ELSE IF neverSuppress(e, rule) THEN [st EXCEPT !.sending = @ \cup {m}]
                ELSE IF ask.yes
                THEN [st EXCEPT !.sending = @ \cup {m},
                                !.dedupe[e.task][e.type] = ask.dedupe[e.task][e.type]]
                ELSE [st EXCEPT !.quiet = @ \cup {m},
                                !.dedupe[e.task][e.type] = ask.dedupe[e.task][e.type]]
        start == [sending |-> sending, quiet |-> quiet, dedupe |-> dedupe]
        ts == {e.task : e \in es}
        Of(t) == After(CHOOSE e \in es : e.task = t, start)
    IN  /\ sending' = UNION ({sending} \cup {Of(t).sending : t \in ts})
        /\ quiet' = UNION ({quiet} \cup {Of(t).quiet : t \in ts})
        /\ dedupe' = [t \in Tasks |-> IF t \in ts THEN Of(t).dedupe[t] ELSE dedupe[t]]

(* EventLogger.log of a transition: appended, then given to the engine. *)
logTransition(t, to) ==
    /\ Spend("events") /\ handleEvent({[task |-> t, type |-> "transitioned", to |-> to]})
    /\ updatedAt' = [updatedAt EXCEPT ![t] = IF to = "in-progress" THEN now ELSE -1]
    /\ UNCHANGED <<setup, now, rules, file, reloads, due, sent, polled>>
DeadLetter(t) ==
    /\ Spend("events") /\ handleEvent({[task |-> t, type |-> "deadletter", to |-> "deadletter"]})
    /\ updatedAt' = [updatedAt EXCEPT ![t] = -1]
    /\ UNCHANGED <<setup, now, rules, file, reloads, due, sent, polled>>

(* The lease is renewed, or the card edited: its time starts anew.  No rule is  *)
(* about these events.                                                          *)
renewLease(t) ==
    /\ updatedAt[t] # -1 /\ Spend("touches") /\ updatedAt' = [updatedAt EXCEPT ![t] = now]
    /\ UNCHANGED <<setup, now, dedupe, rules, file, reloads, due, sending, sent, quiet, polled>>

(* The adapter delivers, or fails: the failure is counted and that is all. *)
Deliver(m) ==
    /\ m \in sending /\ sending' = sending \ {m} /\ sent' = sent \cup {m}
    /\ UNCHANGED <<setup, now, updatedAt, dedupe, rules, file, reloads, due, quiet, polled, budget>>
AdapterFails(m) ==
    /\ m \in sending /\ Spend("failures") /\ sending' = sending \ {m}
    /\ UNCHANGED <<setup, now, updatedAt, dedupe, rules, file, reloads, due, sent, quiet, polled>>

(* --------------------------------- SLA check -------------------------------- *)

checkViolations == {t \in Tasks : updatedAt[t] # -1 /\ now - updatedAt[t] > Limit}
(* The checker, and with it its history of alerts, is made anew in every poll,  *)
(* so shouldAlert never finds a recent one.                                     *)
handleSlaViolation ==
    /\ ~polled /\ polled' = TRUE
    /\ handleEvent({[task |-> t, type |-> "sla", to |-> "sla"] : t \in checkViolations})
    /\ UNCHANGED <<setup, now, updatedAt, rules, file, reloads, due, sent, budget>>

(* The next poll is due; what the adapter has, it sends within that time. *)
Tick ==
    /\ polled /\ now < MaxTime /\ sending = {} /\ now' = now + 1 /\ polled' = FALSE
    /\ UNCHANGED <<setup, updatedAt, dedupe, rules, file, reloads, due, sending, sent, quiet, budget>>

(* ----------------------------------- Rules ---------------------------------- *)

(* The file is edited and a watcher (re)starts the timer.  fs.watch throws for  *)
(* a file that is not there, and nobody tries again; it follows the file, not   *)
(* the name, so a save that replaces the file may be the last one it sees.      *)
scheduleReload ==
    /\ Spend("edits") /\ due' = (due \/ file.watched)
    /\ \E c \in {"default", "custom"} \ {file.rules}, replaced \in {FALSE, setup.replaced} :
         file' = [rules |-> c, watched |-> file.watched /\ ~replaced, unseen |-> file.unseen \/ ~file.watched]
    /\ UNCHANGED <<setup, now, updatedAt, dedupe, rules, reloads, sending, sent, quiet, polled>>
(* A file that is missing, unreadable or without one usable rule: the defaults. *)
loadNotificationRules ==
    /\ due /\ due' = FALSE /\ (setup.slow \/ reloads = {}) /\ reloads' = reloads \cup {file.rules}
    /\ UNCHANGED <<setup, now, updatedAt, dedupe, rules, file, sending, sent, quiet, polled, budget>>
updateRules(c) ==
    /\ c \in reloads /\ reloads' = reloads \ {c} /\ rules' = c
    /\ UNCHANGED <<setup, now, updatedAt, dedupe, file, due, sending, sent, quiet, polled, budget>>

Reload == loadNotificationRules \/ \E c \in reloads : updateRules(c)
Next ==
    \/ \E t \in Tasks : DeadLetter(t) \/ \E to \in setup.tos : logTransition(t, to)
    \/ \E t \in Tasks : renewLease(t)
    \/ \E m \in sending : Deliver(m) \/ AdapterFails(m)
    \/ handleSlaViolation \/ Tick \/ scheduleReload \/ Reload
(* Timers fire. *)
Fairness == WF_vars(Reload)
Spec == Init /\ [][Next]_vars /\ Fairness

(* -------------------------------- Properties --------------------------------- *)

Given == sending \cup sent

(* An event is only kept quiet when the same task's last event of that type was *)
(* given to the adapter within the window, and heard if the adapter did not     *)
(* fail (DeduplicationStore).                                                   *)
QuietJustified ==
    setup.failures = 0 =>
        \A q \in quiet : \E m \in Given : /\ m.task = q.task /\ m.type = q.type /\ m.at <= q.at
                                          /\ q.at - m.at < q.window

(* Dead letters are always given to the adapter, whatever the rules file says   *)
(* and however many there were just before (ALWAYS_CRITICAL_EVENTS).            *)
CriticalGiven == \A q \in quiet : q.type # "deadletter"

(* A task that a poll finds in progress and not written for longer than its     *)
(* limit was reported within the window, however often it was polled and        *)
(* suppressed in between and whether or not it was renewed or left in-progress  *)
(* meanwhile (checkViolations, sla.violation's window).                         *)
SlaRepeated ==
    (setup.edits = 0 /\ setup.failures = 0 /\ polled) =>
        \A t \in Tasks : (updatedAt[t] # -1 /\ now - updatedAt[t] > Limit) =>
            \E m \in Given : m.task = t /\ m.type = "sla" /\ now - m.at < SlaWindow

SlaStep ==
    \A m \in sending' \ sending : m.type = "sla" => updatedAt[m.task] # -1 /\ now - updatedAt[m.task] > Limit
(* Nobody is reported whose card was written within the limit: a task that left *)
(* and came back, or whose lease was renewed, starts anew (checkViolations).    *)
SlaJustified == [][SlaStep]_vars

Current == setup.slow \/ file.unseen \/ rules = file.rules
(* When the edits are over the engine has the rules of the file, also after an  *)
(* edit that made it unusable (NotificationRulesWatcher), unless two reloads    *)
(* overlap and finish in the wrong order, or an edit had no watcher.            *)
RulesCurrent == <>[]Current
=============================================================================
