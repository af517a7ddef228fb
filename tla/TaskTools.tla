------------------------------ MODULE TaskTools -------------------------------
(* The tools that agents and operators call on a task: through the daemon,      *)
(* where every store operation is checked against the org chart first, and      *)
(* through the MCP server, where none is.  A tool is a row of store operations; *)
(* each of them is one step here (TaskFiles looks into them), and other calls   *)
(* run between them.                                                            *)
EXTENDS Naturals, Sequences, TaskStatus

CONSTANTS
    Admins,    \* "main" and the humans
    Agents,    \* the agents of the org chart ...
    LeadOf,    \* ... and the one who leads each team
    Setups     \* records: from, overlap, calls, tools, actors (see MCOversight)

VARIABLES
    setup,
    card,      \* the task: status, body (a set of entries), routing, holder of the lease
    callers,   \* calls under way, overlap at most
    made,      \* tasks made by aof_dispatch: call, status, routed, subscribed
    told,      \* what the finished calls answered: call, tool, via, ok
    owed,      \* entries that calls reported as written and nobody has replaced
    started

vars == <<setup, card, callers, made, told, owed, started>>

Teams == DOMAIN LeadOf
Free == [at |-> "idle"]

(* A task routed to an agent, to a team, or leased without either. *)
Init ==
    /\ setup \in Setups
    /\ card \in {[status |-> s, body |-> {}, agent |-> r[1], team |-> r[2],
                  lease |-> IF s = "in-progress" THEN r[3] ELSE "none"] :
                    s \in setup.from, r \in {<<"w1", "none", "w1">>, <<"none", "T", "w2">>,
                                             <<"none", "none", "w1">>}}
    /\ callers = [k \in 1..setup.overlap |-> Free]
    /\ made = {} /\ told = {} /\ owed = {} /\ started = 0

(* -------------------------------- Permissions -------------------------------- *)

determineRole(a) ==
    IF a \in Admins THEN "admin"
    ELSE IF a \notin Agents THEN "unknown"
    ELSE IF \E t \in Teams : LeadOf[t] = a THEN "orchestrator" ELSE "worker"

taskAssignee == IF card.agent # "none" THEN card.agent ELSE card.lease

(* On the task as it is; reading is allowed to everybody. *)
checkPermission(operation, a) ==
    \/ determineRole(a) = "admin"
    \/ /\ determineRole(a) = "worker" /\ taskAssignee = a
       /\ operation \in {"close", "update", "updateBody"}
    \/ /\ determineRole(a) = "orchestrator"
       /\ \/ operation = "create"
          \/ card.team # "none" /\ LeadOf[card.team] = a
          \/ operation # "create" /\ card.team = "none" /\ taskAssignee # "none"

(* buildDaemonResolveStore *)
Unchecked(c) == c.via = "mcp" \/ c.actor = "unknown"

(* ------------------------------ Store operations ----------------------------- *)

Move(to) == [kind |-> "transition", to |-> to]
Body(text) == [kind |-> "updateBody", text |-> text]

OperationOf(op) ==
    IF op.kind # "transition" THEN op.kind ELSE IF op.to = "done" THEN "close" ELSE "transition"

Valid(op) ==
    CASE op.kind = "transition" -> op.to = card.status \/ isValidTransition(card.status, op.to)
      [] op.kind = "cancel"     -> card.status \notin Closed
      [] op.kind = "block"      -> card.status \notin {"blocked", "done", "cancelled", "deadletter"}
      [] op.kind = "unblock"    -> card.status = "blocked"
      [] op.kind = "update"     -> card.status # "done"
      [] op.kind = "updateBody" -> TRUE

Moved(to) ==
    [card EXCEPT !.status = to,
                 !.lease = IF to # card.status /\ to \in LeaseClearing \cup {"cancelled"}
                             THEN "none" ELSE @]

Applied(op) ==
    CASE op.kind = "transition" -> Moved(op.to)
      [] op.kind = "cancel"     -> Moved("cancelled")
      [] op.kind = "block"      -> Moved("blocked")
      [] op.kind = "unblock"    -> Moved("ready")
      [] op.kind = "update"     -> [card EXCEPT !.agent = op.agent]
      [] op.kind = "updateBody" -> [card EXCEPT !.body = op.text]

(* ----------------------------------- Calls ----------------------------------- *)

(* "mcp" and "unknown" stand for calls without an actor, "ghost" for one the    *)
(* chart does not know.                                                         *)
Actors(via) == IF via = "mcp" THEN {"mcp"} ELSE setup.actors

Inputs(via) ==
    {[tool |-> t] : t \in {"cancel", "block", "unblock"}}
    \cup {[tool |-> "edit", agent |-> "w2"]}
    \cup {[tool |-> "complete", body |-> b] : b \in IF via = "mcp" THEN {TRUE} ELSE BOOLEAN}
    \cup {[tool |-> "update", body |-> b, status |-> to] :
             b \in BOOLEAN, to \in {"none", "ready", "done"}}
    \cup {[tool |-> "dispatch", routed |-> r, fault |-> f] : r \in BOOLEAN, f \in
            {"none", "subscriber"} \cup (IF via = "mcp" THEN {"spawn"} ELSE {"dependsOn", "delivery"})}

Call(k) ==
    /\ callers[k] = Free /\ started < setup.calls /\ started' = started + 1
    /\ \E via \in {"ipc", "mcp"} : \E x \in Inputs(via), a \in Actors(via) :
         /\ x.tool \in setup.tools
         /\ callers' = [callers EXCEPT ![k] =
              [at |-> CASE x.tool = "dispatch" -> "dispatch"
                        [] via = "mcp" /\ x.tool \in {"update", "complete"} -> "mcpRead"
                        [] OTHER -> "read",
               n |-> started + 1, via |-> via, actor |-> a, in |-> x,
               seen |-> "none", todo |-> <<>>, text |-> {}]]
    /\ UNCHANGED <<setup, card, made, told, owed>>

Answer(k, ok) ==
    /\ callers' = [callers EXCEPT ![k] = Free]
    /\ told' = told \cup {[n |-> callers[k].n, tool |-> callers[k].in.tool,
                           via |-> callers[k].via, ok |-> ok]}

Entry(c, kind) == <<c.n, kind>>
(* What a call that succeeds has written into the body. *)
Entries(c) ==
    {Entry(c, kind) : kind \in
        CASE c.in.tool = "complete" -> (IF c.in.body THEN {"summary"} ELSE {})
                                       \cup (IF c.via = "mcp" THEN {"section"} ELSE {})
          [] c.in.tool = "update"   -> IF c.in.body \/ c.via = "mcp" THEN {"section"} ELSE {}
          [] OTHER                  -> {}}
Replaces(c) == c.in.tool = "update" /\ c.in.body

(* The MCP handlers of update and complete read the body and add a work log     *)
(* entry or the outputs to what they have read, or to the body given; the       *)
(* outputs are written before the tool proper begins, the work log by it.       *)
McpRead(k) ==
    /\ callers[k].at = "mcpRead"
    /\ LET c == callers[k]
       IN  callers' = [callers EXCEPT ![k].at = IF c.in.tool = "complete" THEN "outputs" ELSE "read",
                          ![k].text = (IF Replaces(c) THEN {} ELSE card.body) \cup {Entry(c, "section")}]
    /\ UNCHANGED <<setup, card, made, told, owed, started>>
McpOutputs(k) ==
    /\ callers[k].at = "outputs"
    /\ card' = [card EXCEPT !.body = callers[k].text]
    /\ callers' = [callers EXCEPT ![k].at = "read"]
    /\ UNCHANGED <<setup, made, told, owed, started>>

(* What a tool will do with the task it has read. *)
Plan(c) ==
    CASE c.in.tool = "edit"     -> <<[kind |-> "update", agent |-> c.in.agent]>>
      [] c.in.tool = "complete" ->
           IF c.in.body THEN <<Body(card.body \cup {Entry(c, "summary")})>> ELSE <<>>
      [] c.in.tool = "update"   ->
           (IF c.via = "mcp" THEN <<Body(c.text)>>
            ELSE IF c.in.body THEN <<Body({Entry(c, "section")})>> ELSE <<>>)
           \o (IF c.in.status = "none" THEN <<>> ELSE <<Move(c.in.status)>>)
      [] OTHER                  -> <<[kind |-> c.in.tool]>>

Read(k) ==
    /\ callers[k].at = "read"
    /\ IF callers[k].in.tool = "complete" /\ card.status = "done"
         THEN Answer(k, FALSE)
         ELSE /\ callers' = [callers EXCEPT ![k].at = "op", ![k].seen = card.status,
                                            ![k].todo = Plan(callers[k])]
              /\ UNCHANGED told
    /\ UNCHANGED <<setup, card, made, owed, started>>

(* aofTaskComplete walks on from the status it saw last. *)
Walk(seen) ==
    CASE seen = "blocked"     -> "ready"
      [] seen = "in-progress" -> "review"
      [] seen = "review"      -> "done"
      [] OTHER                -> "in-progress"

Walks(c) == c.todo = <<>> /\ c.in.tool = "complete" /\ c.seen # "done"
NextOp(c) == IF c.todo # <<>> THEN Head(c.todo) ELSE Move(Walk(c.seen))
(* A status the task already had is not asked for. *)
Over(c) == IF c.todo = <<>> THEN ~Walks(c) ELSE Head(c.todo) = Move(c.seen)

Return(k) ==
    /\ callers[k].at = "op" /\ Over(callers[k])
    /\ Answer(k, TRUE) /\ owed' = owed \cup Entries(callers[k])
    /\ UNCHANGED <<setup, card, made, started>>

(* The permission is checked on a task that is read for it, ... *)
Check(k) ==
    /\ callers[k].at = "op" /\ ~Over(callers[k])
    /\ LET c == callers[k]
       IN  IF Unchecked(c) \/ checkPermission(OperationOf(NextOp(c)), c.actor)
             THEN callers' = [callers EXCEPT ![k].at = "act"] /\ UNCHANGED told
             ELSE Answer(k, FALSE)
    /\ UNCHANGED <<setup, card, made, owed, started>>
(* ... and the operation is done on the task as it is by then. *)
Act(k) ==
    /\ callers[k].at = "act"
    /\ LET c == callers[k]
           op == NextOp(c)
       IN  IF Valid(op)
             THEN /\ card' = Applied(op)
                  /\ callers' = [callers EXCEPT ![k].at = "op", ![k].seen = card'.status,
                                                ![k].todo = IF @ = <<>> THEN <<>> ELSE Tail(@)]
                  /\ owed' = IF op.kind = "updateBody" /\ Replaces(c) THEN {} ELSE owed
                  /\ UNCHANGED told
             ELSE Answer(k, FALSE) /\ UNCHANGED <<card, owed>>
    /\ UNCHANGED <<setup, made, started>>

(* --------------------------------- Dispatch ---------------------------------- *)

(* The daemon refuses a task without a routing target (given, or the owner of   *)
(* the project), with an unknown dependency or with a delivery without a kind.  *)
Refused(c) == c.via = "ipc" /\ (~c.in.routed \/ c.in.fault \in {"dependsOn", "delivery"})

aofDispatch(k) ==
    /\ callers[k].at = "dispatch"
    /\ LET c == callers[k]
       IN  IF Refused(c) \/ ~(Unchecked(c) \/ checkPermission("create", c.actor))
             THEN Answer(k, FALSE) /\ UNCHANGED made
             ELSE /\ made' = made \cup {[n |-> c.n, routed |-> c.in.routed,
                                         status |-> IF c.via = "mcp" THEN "backlog" ELSE "ready"]}
                  /\ callers' = [callers EXCEPT ![k].at =
                                    IF c.via = "mcp" THEN "promote" ELSE "subscribe"]
                  /\ UNCHANGED told
    /\ UNCHANGED <<setup, card, owed, started>>

(* The MCP handler moves what it has made to ready, looks the subscriber up and *)
(* starts the agent itself.                                                     *)
MadeTo(c, status) == {IF m.n = c.n THEN [m EXCEPT !.status = status] ELSE m : m \in made}
Promote(k) ==
    /\ callers[k].at = "promote"
    /\ made' = MadeTo(callers[k], "ready")
    /\ callers' = [callers EXCEPT ![k].at = "subscribe"]
    /\ UNCHANGED <<setup, card, told, owed, started>>
Subscribe(k) ==
    /\ callers[k].at = "subscribe"
    /\ LET c == callers[k]
       IN  IF c.via = "ipc" THEN Answer(k, TRUE) /\ UNCHANGED made
           ELSE IF c.in.fault = "subscriber" \/ ~c.in.routed THEN Answer(k, FALSE) /\ UNCHANGED made
           ELSE /\ made' = MadeTo(c, "in-progress")
                /\ Answer(k, c.in.fault # "spawn")
    /\ UNCHANGED <<setup, card, owed, started>>

(* The scheduler gives the task to an agent. *)
Lease ==
    /\ card.status = "ready"
    /\ card' = [card EXCEPT !.status = "in-progress",
                            !.lease = IF card.agent = "none" THEN "w2" ELSE card.agent]
    /\ UNCHANGED <<setup, callers, made, told, owed, started>>

Next ==
    \/ \E k \in DOMAIN callers :
         \/ Call(k) \/ McpRead(k) \/ McpOutputs(k) \/ Read(k) \/ Check(k) \/ Act(k) \/ Return(k)
         \/ aofDispatch(k) \/ Promote(k) \/ Subscribe(k)
    \/ Lease

Spec == Init /\ [][Next]_vars

(* --------------------------------- Properties -------------------------------- *)

(* Whatever runs between its steps, a completion that reports success has       *)
(* closed the task (aofTaskComplete).                                           *)
CompletedIsDone == \A r \in told : r.tool = "complete" /\ r.ok => card.status = "done"

(* When calls do not overlap, what a call reports as written is in the body     *)
(* until somebody replaces it, the outputs and the summary of one completion    *)
(* and the entry of an update that also moves the task included                 *)
(* (handleAofTaskUpdate, handleAofTaskComplete).                                *)
EntriesKept == setup.overlap = 1 => owed \subseteq card.body

(* The daemon leaves no task behind when it refuses to dispatch, and makes none *)
(* that no agent, team or role could ever take (aofDispatch).                   *)
DispatchWhole ==
    \A m \in made, r \in told : m.n = r.n /\ r.via = "ipc" => r.ok /\ m.routed

(* With the org chart, a worker closes what is in review, re-routes or writes   *)
(* the task it has and nothing else, a lead changes no task of another team,    *)
(* and an agent the chart does not know changes nothing; calls that overlap do  *)
(* not lend each other their rights (PermissionAwareTaskStore).                 *)
ActorStep ==
    \A k \in DOMAIN callers :
        LET c == callers[k]
        IN  c # Free /\ c.at = "act" /\ callers'[k] # c /\ card' # card
              /\ c.via = "ipc" /\ c.actor # "unknown" =>
              /\ c.actor \in Admins \cup Agents
              /\ c.actor \in {"w1", "w2"} =>
                   /\ card'.status # card.status => card.status = "review" /\ card'.status = "done"
                   /\ setup.overlap = 1 => c.actor \in {card.agent, card.lease}
              /\ c.actor \in {"lead", "other"} /\ card.team # "none" => LeadOf[card.team] = c.actor
=============================================================================
