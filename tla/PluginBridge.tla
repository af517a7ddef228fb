---------------------------- MODULE PluginBridge ----------------------------
(* The long-poll bridge between the daemon and the plugin in the gateway.    *)
(* The daemon queues requests (agent runs, or chat messages to send); poller *)
(* loops of the plugin wait for them over HTTP, work on them, and post the   *)
(* result, which settles what the daemon awaits.  The two channels are the   *)
(* same protocol: setup.kind says which one an instance runs.  In spawn      *)
(* instances the daemon may be in standalone mode, where runs go to the      *)
(* gateway's HTTP API while no plugin is attached.                           *)
EXTENDS Naturals, Sequences, FiniteSets, SequencesExt

CONSTANTS Ids, Loops,
          Setups   \* records [kind, mode, faults, reloads, key, agentBeats, defaultBeats]

(* What a loop receives is an id, or none of them. *)
ASSUME IdsAreNoAnswers == {"none", "204", "error"} \cap Ids = {}

VARIABLES
    setup,
    pending,    \* the queue: ids in the order of insertion
    claimed,    \* ids taken from it
    awaited,    \* ids whose callback (spawn) or promise (chat) is outstanding
    conn,       \* per loop, its request at the daemon: none, open, sent
    inbox,      \* per loop, the answer on its way: "none", "204", "error" or an id
    loop,       \* per loop: off, poll, await, sleep
    started,    \* the poller's module-level flag
    work,       \* per id, the plugin's work: none, running, post, failed, postFail, done
    session,    \* per id, its session at the gateway: none, alive, completed, dead
    outcome,    \* per id, what the daemon was told: none, held, or how it ended
    settles,    \* per id, how often it was told
    handed,     \* per id, how often it was given to a loop
    finished,   \* ids whose run succeeded, or whose message was sent
    waking,     \* inFlightEmbeddedWakes: session keys
    wakeRuns,   \* per key, wake turns that run
    faults,     \* failures so far
    reloads     \* reloads of the plugin's services so far

vars == <<setup, pending, claimed, awaited, conn, inbox, loop, started, work, session, outcome,
          settles, handed, finished, waking, wakeRuns, faults, reloads>>

(* A session key names an agent (or no agent) and a kind of session; scheduled *)
(* and sub-agent sessions do not last, so their main session is woken instead. *)
EPHEMERAL_SESSION_SEGMENTS == {"cron", "subagent"}
redirectEphemeralSessionKey(k) ==
    IF k.segment \in EPHEMERAL_SESSION_SEGMENTS THEN [k EXCEPT !.segment = "main"] ELSE k

Keys == {redirectEphemeralSessionKey(k) : k \in UNION {{s.key[i] : i \in Ids} : s \in Setups}}

Spawning == setup.kind = "spawn"
Fail == faults < setup.faults /\ faults' = faults + 1

daemonQueue == <<pending, claimed, awaited>>
told == <<outcome, settles>>
wake == <<waking, wakeRuns>>

Init ==
    /\ setup \in Setups
    /\ pending = <<>> /\ claimed = {} /\ awaited = {}
    /\ conn = [l \in Loops |-> "none"] /\ inbox = [l \in Loops |-> "none"]
    /\ loop = [l \in Loops |-> "off"] /\ started = FALSE
    /\ work = [i \in Ids |-> "none"] /\ session = [i \in Ids |-> "none"]
    /\ outcome = [i \in Ids |-> "none"] /\ settles = [i \in Ids |-> 0]
    /\ handed = [i \in Ids |-> 0] /\ finished = {}
    /\ waking = {} /\ wakeRuns = [k \in Keys |-> 0]
    /\ faults = 0 /\ reloads = 0

Settle(i, how) ==
    /\ outcome' = [outcome EXCEPT ![i] = how]
    /\ settles' = [settles EXCEPT ![i] = @ + 1]

(* ------------------------- The queue in the daemon ------------------------ *)

Open == {l \in Loops : conn[l] = "open"}

(* A listener of a waiting request claims what was just queued and answers.  *)
onEnqueue(l, i) ==
    /\ claimed' = claimed \cup {i}
    /\ conn' = [conn EXCEPT ![l] = "sent"]
    /\ inbox' = [inbox EXCEPT ![l] = i]
    /\ handed' = [handed EXCEPT ![i] = @ + 1]
    /\ UNCHANGED pending

(* enqueue emits synchronously: the first waiting request takes it. *)
enqueue(i) ==
    /\ awaited' = awaited \cup {i}
    /\ IF Open # {} THEN \E l \in Open : onEnqueue(l, i)
       ELSE /\ pending' = Append(pending, i)
            /\ UNCHANGED <<claimed, conn, inbox, handed>>

claim(l) ==
    /\ claimed' = claimed \cup {Head(pending)} /\ pending' = Tail(pending)
    /\ conn' = [conn EXCEPT ![l] = "sent"]
    /\ inbox' = [inbox EXCEPT ![l] = Head(pending)]
    /\ handed' = [handed EXCEPT ![Head(pending)] = @ + 1]

(* Mutation of waitOrClaim: only listens, without looking at the queue. *)
waitOnly(l) ==
    conn' = [conn EXCEPT ![l] = "open"] /\ UNCHANGED <<pending, claimed, inbox, handed>>

(* The fast path and the registration of the listener are one tick. *)
waitOrClaim(l) ==
    IF pending # <<>> THEN claim(l)
    ELSE conn' = [conn EXCEPT ![l] = "open"] /\ UNCHANGED <<pending, claimed, inbox, handed>>

(* The long-poll routes: a loop's next request reaches the daemon. *)
Request(l) ==
    /\ loop[l] = "poll" /\ started /\ conn[l] = "none"
    /\ loop' = [loop EXCEPT ![l] = "await"]
    /\ waitOrClaim(l)
    /\ UNCHANGED <<setup, reloads, awaited, started, work, session, told, finished, wake, faults>>

handleSpawnWait(l) == Spawning /\ Request(l)
handleDeliveryWait(l) == ~Spawning /\ Request(l)

(* Nothing came for 25 s: 204. *)
Keepalive(l) ==
    /\ conn[l] = "open"
    /\ conn' = [conn EXCEPT ![l] = "sent"] /\ inbox' = [inbox EXCEPT ![l] = "204"]
    /\ UNCHANGED <<setup, reloads, daemonQueue, loop, started, work, session, told, handed, finished, wake, faults>>

(* The response is complete and the handle of its request is released. *)
Closed(l) ==
    /\ conn[l] = "sent"
    /\ conn' = [conn EXCEPT ![l] = "none"]
    /\ UNCHANGED <<setup, reloads, daemonQueue, inbox, loop, started, work, session, told, handed, finished, wake, faults>>

(* PluginRegistry: between two requests of the only loop no plugin is        *)
(* attached.                                                                 *)
hasActivePlugin == \E l \in Loops : conn[l] # "none"

(* ------------------------- What the daemon asks for ----------------------- *)

New(i) == outcome[i] = "none" /\ i \notin awaited /\ handed[i] = 0 /\ session[i] = "none"

(* PluginBridgeAdapter.spawnSession *)
bridgeSpawn(i) == enqueue(i) /\ UNCHANGED <<session, outcome>>

(* StandaloneAdapter.spawnSession: the gateway takes the run, or refuses. *)
standaloneSpawn(i) ==
    /\ \/ session' = [session EXCEPT ![i] = "alive"] /\ awaited' = awaited \cup {i} /\ UNCHANGED outcome
       \/ outcome' = [outcome EXCEPT ![i] = "refused"] /\ UNCHANGED <<session, awaited>>
    /\ UNCHANGED <<pending, claimed, conn, inbox, handed>>

(* SelectingAdapter.spawnSession: without a plugin and not standalone, the   *)
(* task is held.                                                             *)
spawnSession(i) ==
    /\ Spawning /\ New(i)
    /\ CASE hasActivePlugin -> bridgeSpawn(i)
         [] ~hasActivePlugin /\ setup.mode = "standalone" -> standaloneSpawn(i)
         [] OTHER -> /\ outcome' = [outcome EXCEPT ![i] = "held"]
                     /\ UNCHANGED <<daemonQueue, conn, inbox, handed, session>>
    /\ UNCHANGED <<setup, reloads, loop, started, work, settles, finished, wake, faults>>

(* A held task is asked for again at a later poll. *)
Retry(i) ==
    /\ outcome[i] \in {"held", "refused"}
    /\ outcome' = [outcome EXCEPT ![i] = "none"]
    /\ UNCHANGED <<setup, reloads, daemonQueue, conn, inbox, loop, started, work, session, settles, handed, finished, wake, faults>>

enqueueAndAwait(i) ==
    /\ ~Spawning /\ New(i) /\ enqueue(i)
    /\ UNCHANGED <<setup, reloads, loop, started, work, session, told, finished, wake, faults>>

(* The queue is a map: delete takes an entry out wherever it stands. *)
dequeue(i) ==
    \/ i \notin Range(pending) /\ UNCHANGED pending
    \/ \E k \in DOMAIN pending : pending[k] = i /\ pending' = RemoveAt(pending, k)

(* 60 s without a result: the promise is rejected and the request forgotten. *)
chatTimeout(i) ==
    /\ ~Spawning /\ i \in awaited
    /\ awaited' = awaited \ {i} /\ claimed' = claimed \ {i}
    /\ dequeue(i)
    /\ Settle(i, "timeout")
    /\ UNCHANGED <<setup, reloads, conn, inbox, loop, started, work, session, handed, finished, wake, faults>>

(* Only the chat queue forgets the claim of what is settled. *)
claimsAfter(i) == IF Spawning THEN claimed ELSE claimed \ {i}

(* deliverResult of both channels: without an entry the result is ignored. *)
deliverResult(i, how) ==
    IF i \in awaited
    THEN awaited' = awaited \ {i} /\ claimed' = claimsAfter(i) /\ Settle(i, how)
    ELSE UNCHANGED <<awaited, claimed, told>>

(* The bridge forgets the run and reports it aborted: its agent runs on. *)
bridgeForce(i) ==
    /\ session[i] = "none"
    /\ awaited' = awaited \ {i} /\ Settle(i, "aborted")
    /\ UNCHANGED session

standaloneForce(i) ==
    /\ session[i] = "alive"
    /\ session' = [session EXCEPT ![i] = "dead"]
    /\ UNCHANGED <<awaited, told>>

(* SelectingAdapter.forceCompleteSession asks whichever adapter is active    *)
(* now, and none when the plugin is between two requests.                    *)
forceCompleteSession(i) ==
    /\ Spawning /\ i \in awaited
    /\ IF hasActivePlugin THEN bridgeForce(i)
       ELSE setup.mode = "standalone" /\ standaloneForce(i)
    /\ UNCHANGED <<setup, reloads, pending, claimed, conn, inbox, loop, started, work, handed, finished, wake, faults>>

(* ------------------------------ The plugin ------------------------------- *)

startPollerOnce(l) ==
    /\ ~started /\ loop[l] = "off"
    /\ started' = TRUE /\ loop' = [loop EXCEPT ![l] = "poll"]
    /\ UNCHANGED <<setup, reloads, daemonQueue, conn, inbox, work, session, told, handed, finished, wake, faults>>

(* A config reload stops the poller's service and starts it again; the old   *)
(* loop notices only when its request has been answered.                     *)
stopPoller ==
    /\ reloads < setup.reloads /\ started
    /\ started' = FALSE /\ reloads' = reloads + 1
    /\ UNCHANGED <<setup, daemonQueue, conn, inbox, loop, work, session, told, handed, finished, wake, faults>>

LoopEnds(l) ==
    /\ loop[l] = "poll" /\ ~started
    /\ loop' = [loop EXCEPT ![l] = "off"]
    /\ UNCHANGED <<setup, reloads, daemonQueue, conn, inbox, started, work, session, told, handed, finished, wake, faults>>

Returns(l, to) == loop' = [loop EXCEPT ![l] = to] /\ inbox' = [inbox EXCEPT ![l] = "none"]

(* runLoop after its await: 204 polls again at once, an error backs off. *)
NoRequest(l) ==
    /\ loop[l] = "await" /\ inbox[l] \in {"204", "error"}
    /\ Returns(l, IF inbox[l] = "204" THEN "poll" ELSE "sleep")
    /\ UNCHANGED <<setup, reloads, daemonQueue, conn, started, work, session, told, handed, finished, wake, faults>>

BackoffOver(l) ==
    /\ loop[l] = "sleep" /\ conn[l] = "none"
    /\ loop' = [loop EXCEPT ![l] = "poll"]
    /\ UNCHANGED <<setup, reloads, daemonQueue, conn, inbox, started, work, session, told, handed, finished, wake, faults>>

Begins(l, i) ==
    /\ loop[l] = "await" /\ inbox[l] = i
    /\ Returns(l, "poll")
    /\ work' = [work EXCEPT ![i] = "running"]

(* The spawn poller starts the run and goes on polling. *)
ReceiveSpawn(l, i) ==
    /\ Spawning /\ Begins(l, i)
    /\ UNCHANGED <<setup, reloads, daemonQueue, conn, started, session, told, handed, finished, wake, faults>>

mayWake(k) == k \notin waking

(* wakeViaEmbeddedRun up to the turn's start: one turn per session.  A       *)
(* runtime that cannot run agents frees the slot at once; a workspace that   *)
(* cannot be prepared throws outside the try, and the slot stays taken.      *)
wakeViaEmbeddedRun(k) ==
    IF mayWake(k)
    THEN \/ /\ waking' = waking \cup {k} /\ wakeRuns' = [wakeRuns EXCEPT ![k] = @ + 1]
            /\ UNCHANGED faults
         \/ UNCHANGED <<wake, faults>>
         \/ Fail /\ waking' = waking \cup {k} /\ UNCHANGED wakeRuns
    ELSE UNCHANGED <<wake, faults>>

(* An agent's own heartbeat setting, or the one of the defaults. *)
agentHasHeartbeat(agent) == agent \in setup.agentBeats \/ setup.defaultBeats

(* A session without an agent cannot be woken; a heartbeat keeps no state    *)
(* here.                                                                     *)
injectSessionWakeUp(captured) ==
    LET k == redirectEphemeralSessionKey(captured)
    IN  IF k.agent = "" \/ agentHasHeartbeat(k.agent)
        THEN UNCHANGED <<wake, faults>> ELSE wakeViaEmbeddedRun(k)

(* dispatchAndAck: first the wake-up, then the message. *)
ReceiveChat(l, i) ==
    /\ ~Spawning /\ Begins(l, i)
    /\ injectSessionWakeUp(setup.key[i])
    /\ UNCHANGED <<setup, reloads, daemonQueue, conn, started, session, told, handed, finished>>

(* Mutation of wakeFinally: an error leaves the slot taken. *)
wakeFinallyForgets(k) == waking' \in {waking, waking \ {k}}

wakeFinally(k) == waking' = waking \ {k}

(* The turn ends, in success or error: runEmbeddedPiAgent has a timeout. *)
WakeEnds(k) ==
    /\ wakeRuns[k] > 0
    /\ wakeRuns' = [wakeRuns EXCEPT ![k] = @ - 1] /\ wakeFinally(k)
    /\ UNCHANGED <<setup, reloads, daemonQueue, conn, inbox, loop, started, work, session, told, handed, finished, faults>>

Comes(i, to, ok) ==
    /\ work' = [work EXCEPT ![i] = to]
    /\ finished' = IF ok THEN finished \cup {i} ELSE finished
    /\ UNCHANGED <<setup, reloads, daemonQueue, conn, inbox, loop, started, session, told, handed, wake, faults>>

(* No config, or a runtime that cannot run agents. *)
prepareEmbeddedRun(i) == Comes(i, "postFail", FALSE)

(* The setup throws or takes longer than 30 s. *)
withSetupTimeout(i) == Comes(i, "postFail", FALSE)

(* The agent's run: success, an error or an abort it reports, or the timeout *)
(* that is raced against it, after which the agent may still finish.         *)
executeEmbeddedRun(i) ==
    \/ Comes(i, "post", TRUE)
    \/ \E late \in BOOLEAN : Comes(i, "postFail", late)

(* runAgentFromSpawnRequest always comes to a result. *)
runAgentFromSpawnRequest(i) ==
    /\ Spawning /\ work[i] = "running"
    /\ prepareEmbeddedRun(i) \/ withSetupTimeout(i) \/ executeEmbeddedRun(i)

afterSend(ok) == IF ok THEN "post" ELSE "postFail"

sendChatDelivery(i, ok) ==
    /\ ~Spawning /\ work[i] = "running"
    /\ Comes(i, afterSend(ok), ok)

(* The result routes.  The daemon may have taken the result although the     *)
(* poster sees an error (its 10 s are over): the spawn poller only logs it,  *)
(* the chat poller then posts a failure.                                     *)
Post(i, heard) ==
    /\ work[i] \in {"post", "postFail"}
    /\ deliverResult(i, IF work[i] = "post" THEN "ok" ELSE "failed")
    /\ work' = [work EXCEPT ![i] = IF ~heard /\ ~Spawning /\ work[i] = "post" THEN "postFail" ELSE "done"]
    /\ IF heard THEN UNCHANGED faults ELSE Fail
    /\ UNCHANGED <<setup, reloads, pending, conn, inbox, loop, started, session, handed, finished, wake>>

handleSpawnResult(i, heard) == Spawning /\ Post(i, heard)
handleDeliveryResult(i, heard) == ~Spawning /\ Post(i, heard)

(* The post never reaches the daemon. *)
PostLost(i) ==
    /\ work[i] \in {"post", "postFail"} /\ Fail
    /\ work' = [work EXCEPT ![i] = IF ~Spawning /\ work[i] = "post" THEN "postFail" ELSE "done"]
    /\ UNCHANGED <<setup, reloads, daemonQueue, conn, inbox, loop, started, session, told, handed, finished, wake>>

(* ---------------------- Runs at the gateway's HTTP API -------------------- *)

SessionEnds(i, ok) ==
    /\ session[i] = "alive"
    /\ session' = [session EXCEPT ![i] = IF ok THEN "completed" ELSE "dead"]
    /\ finished' = IF ok THEN finished \cup {i} ELSE finished
    /\ UNCHANGED <<setup, reloads, daemonQueue, conn, inbox, loop, started, work, told, handed, wake, faults>>

(* A status request that fails counts as a dead session. *)
reportsEnd(i, heard) == IF heard /\ session[i] = "completed" THEN "ok" ELSE "failed"

(* pollForCompletion: reports once and stops. *)
pollForCompletion(i, heard) ==
    /\ i \in awaited /\ session[i] # "none"
    /\ heard => session[i] # "alive"
    /\ awaited' = awaited \ {i} /\ Settle(i, reportsEnd(i, heard))
    /\ IF heard THEN UNCHANGED faults ELSE Fail
    /\ UNCHANGED <<setup, reloads, pending, claimed, conn, inbox, loop, started, work, session, handed, finished, wake>>

(* ... or gives up after 30 minutes. *)
PollGivesUp(i) ==
    /\ i \in awaited /\ session[i] = "alive"
    /\ awaited' = awaited \ {i} /\ Settle(i, "aborted")
    /\ UNCHANGED <<setup, reloads, pending, claimed, conn, inbox, loop, started, work, session, handed, finished, wake, faults>>

(* -------------------------------- Failures -------------------------------- *)

(* A connection breaks, before or after the daemon answered on it: what was  *)
(* claimed for it is not queued again.                                       *)
ConnectionLost(l) ==
    /\ loop[l] = "await" /\ inbox[l] # "error" /\ Fail
    /\ conn' = [conn EXCEPT ![l] = "none"] /\ inbox' = [inbox EXCEPT ![l] = "error"]
    /\ UNCHANGED <<setup, reloads, daemonQueue, loop, started, work, session, told, handed, finished, wake>>

(* The daemon restarts: queue, claims, callbacks and connections are gone. *)
DaemonRestart ==
    /\ Fail
    /\ pending' = <<>> /\ claimed' = {} /\ awaited' = {}
    /\ conn' = [l \in Loops |-> "none"]
    /\ inbox' = [l \in Loops |-> IF conn[l] = "open" THEN "error" ELSE inbox[l]]
    /\ outcome' = [i \in Ids |-> IF i \in awaited THEN "lost" ELSE outcome[i]]
    /\ UNCHANGED <<setup, reloads, loop, started, work, session, settles, handed, finished, wake>>

(* The gateway restarts, and with it the plugin and its agents. *)
PluginRestart ==
    /\ Fail
    /\ conn' = [l \in Loops |-> "none"] /\ inbox' = [l \in Loops |-> "none"]
    /\ loop' = [l \in Loops |-> "off"] /\ started' = FALSE
    /\ work' = [i \in Ids |-> IF work[i] = "none" THEN "none" ELSE "done"]
    /\ session' = [i \in Ids |-> IF session[i] = "alive" THEN "dead" ELSE session[i]]
    /\ waking' = {} /\ wakeRuns' = [k \in Keys |-> 0]
    /\ UNCHANGED <<setup, reloads, daemonQueue, told, handed, finished>>

LoopStep(l) ==
    \/ handleSpawnWait(l) \/ handleDeliveryWait(l) \/ Closed(l)
    \/ LoopEnds(l) \/ NoRequest(l) \/ BackoffOver(l)
    \/ \E i \in Ids : ReceiveSpawn(l, i) \/ ReceiveChat(l, i)

Worked(i) ==
    \/ runAgentFromSpawnRequest(i)
    \/ \E ok \in BOOLEAN : sendChatDelivery(i, ok)
    \/ handleSpawnResult(i, TRUE) \/ handleDeliveryResult(i, TRUE)

Watched(i) == pollForCompletion(i, TRUE) \/ PollGivesUp(i)

Next ==
    \/ \E l \in Loops : LoopStep(l) \/ Keepalive(l) \/ startPollerOnce(l) \/ ConnectionLost(l)
    \/ \E i \in Ids :
         \/ spawnSession(i) \/ enqueueAndAwait(i) \/ Retry(i) \/ forceCompleteSession(i)
         \/ chatTimeout(i) \/ Worked(i) \/ Watched(i)
         \/ handleSpawnResult(i, FALSE) \/ handleDeliveryResult(i, FALSE) \/ PostLost(i)
         \/ \E ok \in BOOLEAN : SessionEnds(i, ok)
         \/ pollForCompletion(i, FALSE)
    \/ \E k \in Keys : WakeEnds(k)
    \/ stopPoller \/ DaemonRestart \/ PluginRestart

(* Event loops and timers run on: loops advance, agent runs end (they have   *)
(* timeouts), results are posted, and the services are started again.        *)
Fairness ==
    /\ \A l \in Loops : WF_vars(LoopStep(l)) /\ WF_vars(startPollerOnce(l))
    /\ \A i \in Ids : WF_vars(Worked(i)) /\ WF_vars(Watched(i)) /\ WF_vars(chatTimeout(i))
    /\ \A k \in Keys : WF_vars(WakeEnds(k))

Spec == Init /\ [][Next]_vars /\ Fairness

(* ------------------------------- Properties ------------------------------- *)

Outcomes == {"none", "held", "refused", "ok", "failed", "aborted", "timeout", "lost"}

(* The shape of the state; a queued request is queued once. *)
TypeOK ==
    /\ pending \in Seq(Ids) /\ \A a, b \in DOMAIN pending : a # b => pending[a] # pending[b]
    /\ claimed \subseteq Ids /\ awaited \subseteq Ids /\ finished \subseteq Ids
    /\ conn \in [Loops -> {"none", "open", "sent"}]
    /\ inbox \in [Loops -> {"none", "204", "error"} \cup Ids]
    /\ loop \in [Loops -> {"off", "poll", "await", "sleep"}]
    /\ work \in [Ids -> {"none", "running", "post", "postFail", "done"}]
    /\ session \in [Ids -> {"none", "alive", "completed", "dead"}]
    /\ outcome \in [Ids -> Outcomes]

(* The daemon's callback runs, or its promise settles, at most once: late    *)
(* and repeated results, forced completions and timeouts do not add up.      *)
AnsweredOnce == \A i \in Ids : settles[i] <= 1

(* No request is worked on twice, however many long-polls wait for it. *)
HandedOnce == \A i \in Ids : handed[i] <= 1

(* No request lies in the queue while a long-poll waits for one. *)
NoLostWakeup == pending # <<>> => Open = {}

(* The daemon hears of a success only when there was one: an acknowledged    *)
(* message went out, a run reported as a success succeeded.                  *)
SuccessIsReal == \A i \in Ids : outcome[i] = "ok" => i \in finished

(* The chat queue forgets the claims of requests nobody awaits. *)
ClaimsReleased == ~Spawning => claimed \subseteq awaited

(* One wake turn per session at a time. *)
OneWake == \A k \in Keys : wakeRuns[k] <= 1

(* Whatever fails, a chat delivery is settled (the 60 s timer), and so is a  *)
(* run at the gateway (30 minutes).                                          *)
AwaitsEnd ==
    \A i \in Ids : (~Spawning \/ session[i] # "none") /\ i \in awaited ~> i \notin awaited

(* Without failures every run given to the plugin is answered. *)
RunsAnswered == \A i \in Ids : setup.faults = 0 /\ Spawning /\ i \in awaited ~> i \notin awaited

(* A session can be woken again: unless the workspace failed, its slot is    *)
(* freed when the turn ends.                                                 *)
WakeSlotFreed == \A k \in Keys : setup.faults = 0 /\ k \in waking ~> k \notin waking

(* Exactly one plugin works on a request and one answer counts, the truth:   *)
(* through repeated and late posts, timeouts, reconnects and restarts        *)
(* (spawn-wait.ts, chat-delivery-queue.ts, plugin-bridge-adapter.ts).        *)
OneTrueAnswer ==
    TypeOK /\ AnsweredOnce /\ HandedOnce /\ NoLostWakeup /\ SuccessIsReal /\ ClaimsReleased /\ OneWake

(* Nobody waits for ever: deliveries settle, runs are answered, sessions can *)
(* be woken again (the timers of queue and watcher, the finally of a wake).  *)
NobodyWaitsForEver == AwaitsEnd /\ RunsAnswered /\ WakeSlotFreed
=============================================================================
