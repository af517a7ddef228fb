--------------------------- MODULE Subscriptions ---------------------------
(* Who is told about a task, and how often.  The subscriptions of one task    *)
(* are one JSON file; every change reads the whole file and writes it back,   *)
(* with no lock.  Five parties do that: the callback delivery after a run,    *)
(* the retry scan of the scheduler's poll, the chat notifier on transition    *)
(* events, its replay when the daemon boots, and users.                       *)
(*                                                                            *)
(* Finding the task's directory and reading the file there is one step.  A    *)
(* write that comes after the task (and with it the directory) has moved      *)
(* fails.  Event timestamps are positions in the log.                         *)
EXTENDS TaskStatus, Naturals, Sequences

CONSTANTS SubIds,
          Absent,     \* no subscription with this id
          Chats,      \* handlers of transition events that may overlap
          Setups      \* records: see Case at the end

TERMINAL_STATUSES == {"done", "cancelled", "deadletter"}
TRIGGER_STATUSES == {"blocked", "review"} \cup TERMINAL_STATUSES
MAX_DELIVERY_ATTEMPTS == 3
MAX_CALLBACK_DEPTH == 3

Procs == {"callback", "poll", "replay", "user"} \cup Chats

Subscription == [gran : {"completion", "all"}, kind : {"agent-callback", "openclaw-chat"},
                 status : {"active", "delivered", "failed", "cancelled"}, attempts : Nat,
                 recent : BOOLEAN, cursor : Nat, notified : SUBSET TRIGGER_STATUSES]

create(gran, kind) ==
    [gran |-> gran, kind |-> kind, status |-> "active", attempts |-> 0, recent |-> FALSE,
     cursor |-> 0, notified |-> {}]

ASSUME IdsAssumption ==
    /\ SubIds \subseteq Nat /\ Absent \notin Subscription
    /\ Chats \cap {"callback", "poll", "replay", "user"} = {}

ASSUME SetupsType ==
    \A c \in Setups : c.path \in Seq(Statuses) /\ c.overlap \in BOOLEAN /\ c.crashes \in Nat

(* A behaviour starts with subscriptions to which nothing was delivered yet. *)
Fresh == {create(g, k) : g \in {"completion", "all"}, k \in {"agent-callback", "openclaw-chat"}}
ASSUME SubscriptionsFresh == \A c \in Setups : c.subs \in [SubIds -> Fresh \cup {Absent}]

VARIABLES
    setup,
    status,     \* of the task
    log,        \* task.transitioned events: the statuses entered
    file,       \* subscriptions.json
    procs,      \* the parties at work
    attached,   \* the chat notifier listens to events
    booting,    \* "no", "scan" (replay to come) or "replay"
    spawned,    \* per subscription, callbacks an agent was spawned for
    failed,     \* per subscription, spawns that failed
    told,       \* per subscription and status, messages that were acknowledged
    tried,      \* per subscription, statuses a message was attempted for
    covered,    \* per subscription, log positions told to an "all" subscriber
    used        \* failures and crashes so far

vars == <<setup, status, log, file, procs, attached, booting, spawned, failed, told, tried, covered, used>>
ghosts == <<spawned, failed, told, tried, covered>>

(* queue: subscriptions still to serve, with their ids, as they were listed;  *)
(* sub, id: the one at work;                                                  *)
(* todo: changes still to make; snap, at: the file as read and where;         *)
(* seen: the status a chat message is about; phase: deliverAllCallbacksSafely *)
(* has deliverAllGranularityCallbacks still to come.                          *)
Idle == [pc |-> "idle", phase |-> "last", queue |-> {}, id |-> 0, sub |-> Absent, todo |-> <<>>,
         snap |-> Absent, at |-> "none", seen |-> "none"]
Started(queue, phase, seen) ==
    [Idle EXCEPT !.pc = "next", !.queue = queue, !.phase = phase, !.seen = seen]

Quiet == setup.overlap \/ \A p \in Procs : procs[p].pc = "idle"

Init ==
    /\ setup \in Setups
    /\ status = "in-progress" /\ log = <<>>
    /\ file = setup.subs
    /\ procs = [p \in Procs |-> Idle]
    /\ attached = TRUE /\ booting = "no"
    /\ spawned = [s \in SubIds |-> 0] /\ failed = [s \in SubIds |-> 0]
    /\ told = [s \in SubIds |-> [st \in TRIGGER_STATUSES |-> 0]] /\ tried = [s \in SubIds |-> {}]
    /\ covered = [s \in SubIds |-> {}]
    /\ used = [fails |-> 0, crashes |-> 0]

(* ---------------------------- The file's changes --------------------------- *)

resolveDeliveryKind(r) == r.kind

Active(f) == {s \in SubIds : f[s] # Absent /\ f[s].status = "active"}

(* Subscriptions as they are in the file at the time of the listing. *)
Listed(ids) == {<<s, file[s]>> : s \in ids}

(* The changes a party can have to make to its subscription. *)
Change(r, c) ==
    CASE c.op = "create" -> c.sub
      [] c.op = "cancel" -> [r EXCEPT !.status = "cancelled"]
      [] c.op = "delivered" -> [r EXCEPT !.status = "delivered"]
      [] c.op = "cursor" -> [r EXCEPT !.cursor = c.cursor]
      [] c.op = "closed" -> [r EXCEPT !.status = "delivered", !.cursor = c.cursor]
      [] c.op = "failure" -> [r EXCEPT !.attempts = c.attempts, !.recent = TRUE]
      [] c.op = "failed" -> [r EXCEPT !.attempts = c.attempts, !.recent = TRUE, !.status = "failed"]
      [] c.op \in {"appendAttempt", "failedAttempt"} -> [r EXCEPT !.attempts = @ + 1, !.recent = TRUE]
      [] c.op = "markStatusNotified" -> [r EXCEPT !.notified = @ \cup {c.status}]

(* Computed from the subscription as it was listed, not as it is now. *)
handleDeliveryFailure(r) ==
    [op |-> IF r.attempts + 1 >= MAX_DELIVERY_ATTEMPTS THEN "failed" ELSE "failure",
     attempts |-> r.attempts + 1]

Proceed(p, todo) == [procs[p] EXCEPT !.todo = todo, !.pc = IF todo = <<>> THEN "next" ELSE "read"]

(* Reads the file for the next change. *)
ReadFile(p) ==
    /\ procs[p].pc = "read"
    /\ procs' = [procs EXCEPT ![p].pc = "write", ![p].snap = file, ![p].at = status]
    /\ UNCHANGED <<setup, status, log, file, attached, booting, ghosts, used>>

(* What an error in a party's change leads to: a callback counts as failed,  *)
(* a chat message is noted as a failed attempt, other errors are swallowed.  *)
AfterError(p) ==
    LET c == Head(procs[p].todo) IN
    CASE c.op = "delivered" /\ p \in {"callback", "poll"} -> <<handleDeliveryFailure(procs[p].sub)>>
      [] p \in Chats \cup {"replay"} /\ c.op # "failedAttempt" -> <<[op |-> "failedAttempt"]>>
      [] OTHER -> <<>>

(* Writes back all that was read.  A subscription that is not in the file    *)
(* (a concurrent write dropped it) is an error, except to the audit notes.   *)
WriteFile(p) ==
    /\ procs[p].pc = "write"
    /\ LET c == Head(procs[p].todo)
           found == c.op = "create" \/ procs[p].snap[procs[p].id] # Absent
           note == c.op \in {"appendAttempt", "failedAttempt", "markStatusNotified"}
       IN  IF found /\ procs[p].at = status
           THEN /\ file' = [procs[p].snap EXCEPT ![procs[p].id] = Change(@, c)]
                /\ procs' = [procs EXCEPT ![p] = Proceed(p, Tail(procs[p].todo))]
           ELSE /\ procs' = [procs EXCEPT ![p] =
                       Proceed(p, IF ~found /\ note THEN Tail(procs[p].todo) ELSE AfterError(p))]
                /\ UNCHANGED file
    /\ UNCHANGED <<setup, status, log, attached, booting, ghosts, used>>

(* The subscriptions to all transitions. *)
allSubs == Listed({s \in Active(file) :
    file[s].gran = "all" /\ resolveDeliveryKind(file[s]) = "agent-callback"})

(* The next subscription of the list, in the order of the file (they are     *)
(* appended, and ids are in order), the second list, or the end.             *)
NextSub(p) ==
    /\ procs[p].pc = "next"
    /\ \/ \E e \in procs[p].queue :
             /\ \A other \in procs[p].queue : e[1] <= other[1]
             /\ procs' = [procs EXCEPT ![p].pc = "deliver", ![p].id = e[1], ![p].sub = e[2],
                                       ![p].queue = @ \ {e}]
       \/ /\ procs[p].queue = {}
          /\ procs' = [procs EXCEPT ![p] = IF procs[p].phase = "first"
                                           THEN Started(allSubs, "last", "none") ELSE Idle]
    /\ UNCHANGED <<setup, status, log, file, attached, booting, ghosts, used>>

Begin(p, phase, queue) ==
    /\ Quiet /\ procs[p].pc = "idle"
    /\ procs' = [procs EXCEPT ![p] = Started(queue, phase, "none")]
    /\ UNCHANGED <<setup, status, log, file, attached, booting, ghosts, used>>

(* -------------------------------- The task --------------------------------- *)

(* handleEvent: the active chat subscriptions not yet told of this status. *)
handleEvent(to) ==
    Listed({s \in Active(file) : resolveDeliveryKind(file[s]) = "openclaw-chat" /\ to \notin file[s].notified})

(* A transition: the event is logged and its listener called.  With          *)
(* setup.window FALSE none happens between the replay's scan and its end.    *)
Transition(c) ==
    /\ Len(log) < Len(setup.path) /\ isValidTransition(status, setup.path[Len(log) + 1])
    /\ setup.overlap \/ \A p \in Procs : procs[p].pc = "idle"
    /\ procs[c].pc = "idle" /\ (booting = "replay" => setup.window)
    /\ LET to == setup.path[Len(log) + 1] IN
       /\ status' = to /\ log' = Append(log, to)
       /\ procs' = IF attached /\ to \in TRIGGER_STATUSES
                   THEN [procs EXCEPT ![c] = Started(handleEvent(to), "last", to)]
                   ELSE procs
    /\ UNCHANGED <<setup, file, attached, booting, ghosts, used>>

(* ---------------------------- Agent callbacks ------------------------------ *)

(* deliverCallbacks, then deliverAllGranularityCallbacks: after a run.  Both  *)
(* stop at the depth limit.                                                   *)
completionSubs ==
    IF status \in TERMINAL_STATUSES
    THEN Listed({s \in Active(file) :
             file[s].gran = "completion" /\ resolveDeliveryKind(file[s]) = "agent-callback"})
    ELSE {}

deliverAllCallbacksSafely ==
    /\ setup.depth < MAX_CALLBACK_DEPTH /\ completionSubs \cup allSubs # {}
    /\ Begin("callback", "first", completionSubs)

(* Mutation of retryCandidates: only what was never tried. *)
retryCandidatesNew == Listed({s \in Active(file) :
    file[s].attempts = 0 /\ ~file[s].recent /\ resolveDeliveryKind(file[s]) = "agent-callback"})

(* Fewer than three attempts, and none in the last 30 s. *)
retryCandidates == Listed({s \in Active(file) :
    file[s].attempts < MAX_DELIVERY_ATTEMPTS /\ ~file[s].recent /\ resolveDeliveryKind(file[s]) = "agent-callback"})

(* The poll's scan of finished tasks, whatever their depth. *)
retryPendingDeliveries ==
    /\ status \in TERMINAL_STATUSES /\ retryCandidates # {}
    /\ Begin("poll", "last", retryCandidates)

(* Half a minute passes. *)
CoolDown(s) ==
    /\ file[s] # Absent /\ file[s].recent
    /\ Quiet /\ \A p \in Procs : procs[p].pc # "write"
    /\ file' = [file EXCEPT ![s].recent = FALSE]
    /\ UNCHANGED <<setup, status, log, procs, attached, booting, ghosts, used>>

Failing(ok) ==
    IF ok THEN UNCHANGED used
    ELSE used.fails < setup.fails /\ used' = [used EXCEPT !.fails = @ + 1]

deliverSingleCallback(r, ok) ==
    IF ok THEN <<[op |-> "delivered"]>> ELSE <<handleDeliveryFailure(r)>>

(* The transitions after the cursor; the cursor moves only with a success.   *)
(* After a run the subscription stays active and failures are not counted;   *)
(* in the retry scan it is closed.                                           *)
deliverAllGranularity(p, r, ok) ==
    CASE ok -> <<[op |-> IF p = "poll" THEN "closed" ELSE "cursor", cursor |-> Len(log)]>>
      [] ~ok /\ p = "poll" -> <<handleDeliveryFailure(r)>>
      [] OTHER -> <<>>

Serve(p, ok) ==
    /\ procs[p].pc = "deliver" /\ p \in {"callback", "poll"}
    /\ LET r == procs[p].sub
           s == procs[p].id
       IN  IF r.gran = "completion"
           THEN /\ Failing(ok)
                /\ procs' = [procs EXCEPT ![p] = Proceed(p, deliverSingleCallback(r, ok))]
                /\ spawned' = IF ok THEN [spawned EXCEPT ![s] = @ + 1] ELSE spawned
                /\ failed' = IF ok THEN failed ELSE [failed EXCEPT ![s] = @ + 1]
                /\ UNCHANGED covered
           ELSE IF r.cursor = Len(log)
           THEN /\ ok /\ procs' = [procs EXCEPT ![p].pc = "next"]
                /\ UNCHANGED <<spawned, failed, covered, used>>
           ELSE /\ Failing(ok)
                /\ procs' = [procs EXCEPT ![p] = Proceed(p, deliverAllGranularity(p, r, ok))]
                /\ covered' = IF ok THEN [covered EXCEPT ![s] = @ \cup (r.cursor + 1 .. Len(log))] ELSE covered
                /\ spawned' = IF ok THEN [spawned EXCEPT ![s] = @ + 1] ELSE spawned
                /\ failed' = IF ok THEN failed ELSE [failed EXCEPT ![s] = @ + 1]
    /\ UNCHANGED <<setup, status, log, file, attached, booting, told, tried>>

(* ------------------------------ Chat messages ------------------------------ *)

(* The changes after an acknowledged message. *)
Noted(to) ==
    IF to \in TERMINAL_STATUSES
    THEN <<[op |-> "appendAttempt"], [op |-> "markStatusNotified", status |-> to], [op |-> "delivered"]>>
    ELSE <<[op |-> "appendAttempt"], [op |-> "markStatusNotified", status |-> to]>>

(* deliverOne: send and wait for the acknowledgement; a failure is only      *)
(* noted, and the message may have gone out all the same.                    *)
deliverOne(p, ok) ==
    /\ procs[p].pc = "deliver" /\ p \in Chats \cup {"replay"}
    /\ LET s == procs[p].id
           to == procs[p].seen
       IN  /\ Failing(ok)
           /\ tried' = [tried EXCEPT ![s] = @ \cup {to}]
           /\ told' = IF ok THEN [told EXCEPT ![s][to] = @ + 1] ELSE told
           /\ procs' = [procs EXCEPT ![p] = Proceed(p, IF ok THEN Noted(to) ELSE <<[op |-> "failedAttempt"]>>)]
    /\ UNCHANGED <<setup, status, log, file, attached, booting, spawned, failed, covered>>

(* Mutation of replayList: looks only at tasks that are done. *)
replayListDone == IF status = "done" THEN handleEvent(status) ELSE {}

replayList == IF status \in TERMINAL_STATUSES THEN handleEvent(status) ELSE {}

(* When the daemon boots: one look at the finished tasks ... *)
replayUnnotifiedTerminals ==
    /\ booting = "scan" /\ Quiet
    /\ procs' = [procs EXCEPT !["replay"] = Started(replayList, "last", status)]
    /\ booting' = "replay"
    /\ UNCHANGED <<setup, status, log, file, attached, ghosts, used>>

(* ... and only then the listener. *)
Attach ==
    /\ booting = "replay" /\ procs["replay"].pc = "idle"
    /\ booting' = "no" /\ attached' = TRUE
    /\ UNCHANGED <<setup, status, log, file, procs, ghosts, used>>

(* ---------------------------------- Users ---------------------------------- *)

UserChange(s, c) ==
    /\ Quiet /\ procs["user"].pc = "idle"
    /\ procs' = [procs EXCEPT !["user"] = [Idle EXCEPT !.pc = "read", !.id = s, !.todo = <<c>>]]
    /\ UNCHANGED <<setup, status, log, file, attached, booting, ghosts, used>>

(* An active subscription of the same kind is returned instead of a new one. *)
aofTaskSubscribe(s) ==
    /\ file[s] = Absent /\ s \in setup.later /\ \A r \in SubIds : r < s => file[r] # Absent
    /\ \A r \in Active(file) : ~(file[r].gran = "completion" /\ file[r].kind = "agent-callback")
    /\ UserChange(s, [op |-> "create", sub |-> create("completion", "agent-callback")])

aofTaskUnsubscribe(s) ==
    /\ file[s] # Absent /\ s \in setup.cancel /\ file[s].status # "cancelled"
    /\ UserChange(s, [op |-> "cancel"])

Crash ==
    /\ used.crashes < setup.crashes
    /\ used' = [used EXCEPT !.crashes = @ + 1]
    /\ procs' = [p \in Procs |-> Idle]
    /\ attached' = FALSE /\ booting' = "scan"
    /\ UNCHANGED <<setup, status, log, file, ghosts>>

Work(p) ==
    \/ ReadFile(p) \/ WriteFile(p) \/ NextSub(p)
    \/ \E ok \in BOOLEAN : Serve(p, ok) \/ deliverOne(p, ok)

Next ==
    \/ \E p \in Procs : Work(p)
    \/ \E c \in Chats : Transition(c)
    \/ deliverAllCallbacksSafely
    \/ retryPendingDeliveries
    \/ \E s \in SubIds : CoolDown(s) \/ aofTaskSubscribe(s) \/ aofTaskUnsubscribe(s)
    \/ replayUnnotifiedTerminals \/ Attach \/ Crash

(* Handlers run to their end, the poll scans for ever, time passes. *)
Fairness ==
    /\ \A p \in Procs : WF_vars(Work(p))
    /\ SF_vars(retryPendingDeliveries)
    /\ \A s \in SubIds : SF_vars(CoolDown(s))

Spec == Init /\ [][Next]_vars /\ Fairness

(* ------------------------------- Properties -------------------------------- *)

(* The file keeps its shape, and the cursor never points past the log. *)
TypeOK ==
    /\ file \in [SubIds -> Subscription \cup {Absent}]
    /\ \A s \in SubIds : file[s] # Absent => file[s].cursor <= Len(log)
    /\ status \in Statuses /\ booting \in {"no", "scan", "replay"}

Alone == ~setup.overlap

(* A subscriber to the completion is called once, plus once for every crash  *)
(* between a spawn and its note in the file.                                 *)
CalledOnce ==
    Alone => \A s \in SubIds :
        file[s] # Absent /\ file[s].gran = "completion" => spawned[s] <= 1 + used.crashes

(* One message per status, plus one for every crash. *)
ToldOnce ==
    Alone => \A s \in SubIds : \A st \in TRIGGER_STATUSES :
        told[s][st] <= 1 + used.crashes

(* A callback is given up after three failed attempts, not before and not    *)
(* after, counted across the delivery after the run and all retry scans.     *)
GivesUpAfterThree ==
    Alone => \A s \in SubIds : file[s] # Absent /\ file[s].gran = "completion" =>
        /\ failed[s] <= MAX_DELIVERY_ATTEMPTS + used.crashes
        /\ file[s].status = "failed" => failed[s] >= MAX_DELIVERY_ATTEMPTS

(* Every transition up to the cursor of an "all" subscriber has been told:   *)
(* failures and crashes delay transitions and do not skip any.               *)
NoGap == \A s \in SubIds : file[s] # Absent => 1 .. file[s].cursor \subseteq covered[s]

(* Once listening, and with all handlers done, the notifier has tried to     *)
(* tell every active chat subscriber of a task that has finished, crashes    *)
(* between transition and message included.                                  *)
ReplayComplete ==
    attached /\ (\A p \in Procs : procs[p].pc = "idle") /\ status \in TERMINAL_STATUSES =>
        \A s \in Active(file) : file[s].kind = "openclaw-chat" => status \in tried[s]

CancelStep ==
    Alone => \A s \in SubIds :
        file[s] # Absent /\ file[s].status = "cancelled" => file'[s].status = "cancelled"
(* A cancelled subscription stays cancelled. *)
CancelSticks == [][CancelStep]_vars

(* A subscriber to the completion of a finished task is not left waiting:    *)
(* it is called, given up, or cancels.                                       *)
Waiting(s) == /\ status \in TERMINAL_STATUSES /\ file[s] # Absent /\ file[s].status = "active"
              /\ file[s].gran = "completion" /\ file[s].kind = "agent-callback"
CompletionHeard == \A s \in SubIds : Waiting(s) ~> ~Waiting(s)

(* Subscribers hear of every status they asked for, as often as crashes      *)
(* force and no more, and are given up after three failures                  *)
(* (callback-delivery.ts, openclaw-chat-delivery.ts).                        *)
HeardInOrder ==
    TypeOK /\ CalledOnce /\ ToldOnce /\ GivesUpAfterThree /\ NoGap /\ ReplayComplete

(* A subscription ends one way and stays ended: called, given up, or         *)
(* cancelled (retryPendingDeliveries, SubscriptionStore.cancel).             *)
SubscriptionsEnd == CancelSticks /\ CompletionHeard

(* ---------------------------- Instances for TLC ---------------------------- *)

Only(s, r) == [t \in SubIds |-> IF t = s THEN r ELSE Absent]
Two(r, q) == [t \in SubIds |-> IF t = 1 THEN r ELSE q]
Callback == create("completion", "agent-callback")
Every == create("all", "agent-callback")
Chat == create("completion", "openclaw-chat")

Case(subs, path, fails, crashes) ==
    [subs |-> subs, path |-> path, overlap |-> FALSE, fails |-> fails, crashes |-> crashes,
     depth |-> 0, later |-> {2}, cancel |-> {1}, window |-> FALSE]

(* Parties overlap: the reads and writes of the file interleave. *)
Busy(c) == [c EXCEPT !.overlap = TRUE, !.later = {}, !.cancel = {}]

Cases ==
    {Case(Only(1, Callback), <<"review", "done">>, 4, 1),
     Case(Only(1, Chat), <<"blocked", "ready", "blocked", "deadletter">>, 1, 1),
     Case(Two(Every, Chat), <<"review", "done">>, 1, 1),
     Busy(Case(Only(1, Chat), <<"review", "done">>, 1, 0)),
     Busy(Case(Two(Every, Callback), <<"deadletter">>, 1, 0))}
=============================================================================
