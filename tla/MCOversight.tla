----------------------------- MODULE MCOversight -----------------------------
(* Messages, views, reviews, notifications and memory around the tasks, side by *)
(* side: a behaviour runs one of the components (part) in one of its setups.            *)
EXTENDS Naturals, Sequences, FiniteSets

CONSTANTS MurmurSetups, NotifySetups, BatcherSetups, TierSetups, CurationSetups,
          IndexSetups, MessageSetups, WatchSetups, ViewSetups, RouteSetups, ToolSetups, Admins, Agents, LeadOf, Dependents, Places, Sessions,
          ViewGroups, StatusesUsed, Passes, MaxReviews, Tasks, Window, SlaWindow, Limit,
          MaxTime, CurationTime, StormMessages, Critical, Threshold, Events, MaxFile, WarmLimit,
          HotLimit, MaxTasks, MaxCount, Paths, Contents, None

ASSUME TierTypes ==
    /\ IsFiniteSet(Events) /\ MaxFile \in Nat \ {0} /\ WarmLimit \in Nat /\ HotLimit \in Nat
    /\ TierSetups \subseteq [writers : Nat, aggregators : Nat, promoters : Nat, runs : Nat, promotions : Nat]
ASSUME RouteTypes ==
    RouteSetups \subseteq [messages : Nat, dispatches : Nat, ends : Nat, compactions : Nat,
                           names : (SUBSET {"key", "id"}) \ {{}}, maxRoutes : Nat, maxCalls : Nat]
ASSUME CurationTypes ==
    CurationSetups \subseteq [thresholds : Seq([max : Nat, interval : Nat]), generators : Nat,
                              requeues : Nat, crashes : Nat]
(* What a hook notes of a session, and what a dispatch is given. *)
Recipients == [key : Sessions \cup {None}, id : (Sessions \X Nat) \cup {None},
               target : (Sessions \X Nat) \cup {None}]
ASSUME NoneIsNothing ==
    /\ None \notin Recipients
    /\ None \notin [from : Recipients, target : (Sessions \X Nat) \cup {None}]
    /\ None \notin [status : StatusesUsed, group : ViewGroups \cup {None}]

VARIABLES
    part, setup, file, aged, tasks, queue, eval, hooks, since, budget, now, updatedAt, dedupe,
    rules, reloads, due, sending, sent, quiet, polled, fresh, pending, timer, flushes,
    heard, storms, lost, stopped, files, counted, appends, warm, agg, hot, promo, count,
    gen, disk, chunks, lastId, fts, hnsw, saved, thread, calls, up, used, task, dir, proc,
    moves, place, events, pc, known, pendingPaths, reports, timer2, sends, subscribed,
    behind, broken, groups, pass, exact, routes, byToolCallId, dispatches, life, talked,
    card, callers, made, told, owed, started
routeVars == <<routes, byToolCallId, dispatches, life, talked>>
toolVars == <<card, callers, made, told, owed, started>>
vars == <<part, setup, file, aged, tasks, queue, eval, hooks, since, budget, now, updatedAt,
          dedupe, rules, reloads, due, sending, sent, quiet, polled, fresh, pending, timer,
          flushes, heard, storms, lost, stopped, files, counted, appends, warm, agg, hot,
          promo, count, gen, disk, chunks, lastId, fts, hnsw, saved, thread, calls, up,
          used, task, dir, proc, moves, place, events, pc, known, pendingPaths, reports,
          timer2, sends, subscribed, behind, broken, groups, pass, exact, routeVars, toolVars>>

(* Batches with slow reviews; a batch of one with and without a crash; the      *)
(* other triggers, with reviews that end in every way.                          *)
MCMurmur ==
    [trigger : {"completionBatch"}, threshold : {1, 2}, work : {3}, failures : {0}, race : {FALSE},
     slow : {TRUE}, crashes : {0}, busy : {1}, ends : {1}]
    \cup [trigger : {"completionBatch"}, threshold : {1}, work : {2}, failures : {0}, race : {FALSE},
          slow : {FALSE}, crashes : {0, 1}, busy : {0}, ends : {1}]
    \cup [trigger : {"completionBatch"}, threshold : {2}, work : {3}, failures : {0}, race : {TRUE},
          slow : {TRUE}, crashes : {0}, busy : {0}, ends : {0}]
    \cup [trigger : {"queueEmpty", "failureBatch"}, threshold : {1}, work : {1}, failures : {1},
          race : {FALSE}, slow : {FALSE}, crashes : {0}, busy : {1}, ends : {2}]
    \cup [trigger : {"interval"}, threshold : {1}, work : {1}, failures : {0}, race : {FALSE},
          slow : {FALSE}, crashes : {0}, busy : {0}, ends : {1}]
(* Three events under one set of rules; two with an edit, a failing adapter or a *)
(* renewal; reloads that overlap; saves that replace the file, or the first one  *)
(* that makes it.                                                                *)
Tos == {"in-progress", "blocked", "review"}
NotifyCase(n, tos, edits) ==
    [events |-> n, tos |-> tos, edits |-> edits, failures |-> 0, slow |-> FALSE, touches |-> 0,
     missing |-> FALSE, replaced |-> FALSE]
MCNotify ==
    {NotifyCase(3, {"in-progress", "blocked"}, 0), NotifyCase(2, Tos, 1),
     NotifyCase(1, Tos, 2), [NotifyCase(1, Tos, 2) EXCEPT !.slow = TRUE],
     [NotifyCase(2, Tos, 0) EXCEPT !.failures = 1],
     [NotifyCase(2, {"in-progress", "blocked"}, 0) EXCEPT !.touches = 1],
     [NotifyCase(1, {"review"}, 2) EXCEPT !.replaced = TRUE], [NotifyCase(1, {"review"}, 2) EXCEPT !.missing = TRUE]}
MCBatcher == [failures : {0, 1}]
(* One and two writers; two aggregations and two promotions, in turn or at once. *)
MCTiers ==
    [writers : {1, 2}, aggregators : {1}, promoters : {1}, runs : {2}, promotions : {2}]
    \cup [writers : {1}, aggregators : {2}, promoters : {2}, runs : {2}, promotions : {2}]
(* Two brackets with intervals of two and one; a disabled pool.                 *)
Brackets == <<[max |-> 0, interval |-> 2], [max |-> 1, interval |-> 1]>>
MCCuration ==
    [thresholds : {Brackets}, generators : {1}, requeues : {0}, crashes : {1}]
    \cup [thresholds : {Brackets}, generators : {1}, requeues : {1}, crashes : {0}]
    \cup [thresholds : {<<>>}, generators : {1}, requeues : {0}, crashes : {0}]
(* Overlapping calls, of two with failing embeddings; contents that come back  *)
(* after a failure or a crash, with `aof memory rebuild`; the same for contents *)
(* that are all new; a project's index, which has no scan.                      *)
Case(overlap, writes, fails, crashes) ==
    [overlap |-> overlap, writes |-> writes, fails |-> fails, crashes |-> crashes,
     fresh |-> FALSE, deletes |-> TRUE, rebuild |-> FALSE, project |-> FALSE]
MCIndex ==
    {[Case(TRUE, 3, 0, 0) EXCEPT !.deletes = FALSE], Case(TRUE, 2, 1, 0),
     [Case(FALSE, 3, 1, 1) EXCEPT !.rebuild = TRUE], [Case(FALSE, 2, 2, 0) EXCEPT !.fresh = TRUE],
     [Case(FALSE, 2, 1, 1) EXCEPT !.fresh = TRUE, !.rebuild = TRUE], [Case(TRUE, 2, 1, 1) EXCEPT !.project = TRUE]}

(* Three messages of one type, two of another, the last one critical.           *)
TypeOf == [m \in StormMessages |-> IF m <= 3 THEN "a" ELSE "b"]
RuleOf == [e \in Events |-> IF e = 2 THEN "b" ELSE "a"]
(* The first content has two chunks, the others one.                            *)
ChunkCount(v) == IF v = 1 THEN 2 ELSE 1

(* Two handoffs with their answers, of a waiting and of a running task; updates *)
(* and a handoff between the scheduler's moves and during them; a cascade among *)
(* handoffs, and one among notes.                                               *)
Rec(status, agent, lease) ==
    [status |-> status, agent |-> agent, lease |-> lease, depth |-> 0, log |-> {}]
Message(type, t, from) ==
    [type |-> type, task |-> t, from |-> from, status |-> None, note |-> FALSE, parent |-> None, to |-> None]
Update(t, s, n) == [Message("status.update", t, "a") EXCEPT !.status = s, !.note = n]
Offer(t, from, to, parent) == [Message("handoff.request", t, from) EXCEPT !.parent = parent, !.to = to]
Offers == <<Offer(1, "a", "b", 2), Offer(1, "a", "c", 2), Message("handoff.rejected", 1, "b"),
            Message("handoff.accepted", 1, "c")>>
Notes == <<Update(1, "review", TRUE), Offer(1, "a", "b", 2), Update(1, None, TRUE)>>
Blocks == <<Update(1, "blocked", FALSE), Offer(1, "a", "b", 2), Offer(2, "b", "a", 1), Update(2, "blocked", FALSE)>>
NotesBlock == <<Update(1, "blocked", FALSE), Update(1, None, TRUE), Update(2, None, TRUE), Update(2, None, TRUE)>>
MCDependents == [t \in {1, 2} |-> IF t = 1 THEN {2} ELSE {}]
MessageCase(msgs, status, lease, n, race, cascade) ==
    [msgs |-> msgs, start |-> <<Rec(status, "a", lease), Rec("ready", "b", None)>>, moves |-> n,
     race |-> race, cascade |-> cascade]
MCMessages ==
    {MessageCase(Offers, "ready", None, 1, FALSE, FALSE), MessageCase(Offers, "in-progress", "a", 1, FALSE, FALSE),
     MessageCase(Notes, "in-progress", "a", 2, TRUE, FALSE),
     MessageCase(Notes, "in-progress", "a", 2, FALSE, FALSE), MessageCase(Blocks, "ready", None, 0, FALSE, TRUE),
     MessageCase(NotesBlock, "ready", None, 1, FALSE, TRUE)}
(* Two moves in quick succession; a move before the watch; a send that throws.  *)
MCWatch ==
    [moves : {2}, edits : {0}, toggles : {2}, gap : {FALSE}, fails : {0}]
    \cup [moves : {1}, edits : {1}, toggles : {1}, gap : {TRUE}, fails : {0}]
    \cup [moves : {1}, edits : {0}, toggles : {2}, gap : {FALSE}, fails : {1}]
(* Passes that overlap over one task; one pass over two; subtask pointers.      *)
MCViews ==
    [kind : {"kanban", "mailbox"}, parents : {<<None, None>>}, tasks : {{1}}, changes : {2}, passes : {3}]
    \cup [kind : {"kanban", "mailbox"}, parents : {<<None, None>>}, tasks : {{1, 2}}, changes : {2}, passes : {1}]
    \cup [kind : {"delegation"}, parents : {<<None, 1>>}, tasks : {{1, 2}}, changes : {2}, passes : {2}]
(* A chat that speaks again in its next life; compactions, little room; calls of  *)
(* two chats at once.                                                            *)
RouteCase(m, d, e, k, names, r, c) ==
    [messages |-> m, dispatches |-> d, ends |-> e, compactions |-> k, names |-> names,
     maxRoutes |-> r, maxCalls |-> c]
MCRoutes ==
    {RouteCase(2, 1, 1, 0, {"key", "id"}, 2, 1), RouteCase(2, 1, 0, 1, {"key"}, 1, 1),
     RouteCase(1, 1, 1, 0, {"id"}, 1, 1), RouteCase(1, 2, 0, 1, {"key", "id"}, 1, 2)}

(* One call by everybody from every open status; two calls in turn; two that    *)
(* overlap; dispatches.                                                         *)
ToolCase(from, overlap, n, tools, actors) ==
    [from |-> from, overlap |-> overlap, calls |-> n, tools |-> tools, actors |-> actors]
MCTools ==
    {ToolCase({"backlog", "ready", "in-progress", "blocked", "review"}, 1, 1,
              {"cancel", "block", "unblock", "edit", "complete", "update"},
              Admins \cup Agents \cup {"ghost", "unknown"}),
     ToolCase({"in-progress", "review"}, 1, 2, {"complete", "update"}, {"w1", "unknown"}),
     ToolCase({"in-progress", "review"}, 2, 2, {"complete", "edit", "cancel"}, {"w1", "lead"}),
     ToolCase({"ready"}, 1, 2, {"dispatch"}, {"lead", "w1", "ghost"})}
MCLeadOf == [t \in {"T", "U"} |-> IF t = "T" THEN "lead" ELSE "other"]

M == INSTANCE Murmur WITH Setups <- MurmurSetups
N == INSTANCE Notifications WITH Setups <- NotifySetups
B == INSTANCE StormBatcher WITH Setups <- BatcherSetups, Messages <- StormMessages
T == INSTANCE MemoryTiers WITH Setups <- TierSetups
C == INSTANCE Curation WITH Setups <- CurationSetups, MaxTime <- CurationTime
I == INSTANCE MemoryIndex WITH Setups <- IndexSetups, chunkMarkdown <- ChunkCount
P == INSTANCE ProtocolMessages WITH Setups <- MessageSetups, Tasks <- {1, 2}
ASSUME MessageTypes ==
    /\ None \notin STRING /\ Dependents \in [{1, 2} -> SUBSET {1, 2}]
    /\ MessageSetups \subseteq
         [msgs : Seq([type : {"status.update", "handoff.request", "handoff.accepted", "handoff.rejected"},
                      task : {1, 2}, from : {None} \cup STRING, status : {None} \cup P!Statuses,
                      note : BOOLEAN, parent : {None, 1, 2}, to : {None} \cup STRING]),
          start : [{1, 2} -> [status : P!Statuses, lease : {None} \cup STRING,
                              agent : {None} \cup STRING, depth : Nat, log : {{}}]],
          moves : Nat, race : BOOLEAN, cascade : BOOLEAN]
W == INSTANCE TaskWatch WITH Setups <- WatchSetups, Start <- "ready"
V == INSTANCE ViewSync WITH Setups <- ViewSetups, Groups <- ViewGroups, Tasks <- {1, 2}
R == INSTANCE SessionRoutes WITH Setups <- RouteSetups, Talkers <- Sessions
K == INSTANCE TaskTools WITH Setups <- ToolSetups

ToolsOff == card = "off" /\ callers = "off" /\ made = "off" /\ told = "off" /\ owed = "off" /\ started = "off"
RoutesOff ==
    routes = "off" /\ byToolCallId = "off" /\ dispatches = "off" /\ life = "off" /\ talked = "off"
(* One part runs; the variables of the others are not used. *)
MInit ==
    /\ part = "murmur" /\ M!Init /\ RoutesOff /\ ToolsOff
    /\ now = "off" /\ updatedAt = "off" /\ dedupe = "off" /\ rules = "off" /\ reloads = "off"
    /\ due = "off" /\ sending = "off" /\ sent = "off" /\ quiet = "off" /\ polled = "off"
    /\ fresh = "off" /\ pending = "off" /\ timer = "off" /\ flushes = "off" /\ heard = "off"
    /\ storms = "off" /\ lost = "off" /\ stopped = "off" /\ files = "off" /\ counted = "off"
    /\ appends = "off" /\ warm = "off" /\ agg = "off" /\ hot = "off" /\ promo = "off"
    /\ count = "off" /\ gen = "off" /\ disk = "off" /\ chunks = "off" /\ lastId = "off"
    /\ fts = "off" /\ hnsw = "off" /\ saved = "off" /\ thread = "off" /\ calls = "off"
    /\ up = "off" /\ used = "off" /\ task = "off" /\ dir = "off" /\ proc = "off"
    /\ moves = "off" /\ place = "off" /\ events = "off" /\ pc = "off" /\ known = "off"
    /\ pendingPaths = "off" /\ reports = "off" /\ timer2 = "off" /\ sends = "off"
    /\ subscribed = "off" /\ behind = "off" /\ broken = "off" /\ groups = "off"
    /\ pass = "off" /\ exact = "off"
MStep(A) ==
    /\ part = "murmur" /\ A
    /\ UNCHANGED <<part, routeVars, toolVars, now, updatedAt, dedupe, rules, reloads, due, sending, sent, quiet,
                     polled, fresh, pending, timer, flushes, heard, storms, lost, stopped,
                     files, counted, appends, warm, agg, hot, promo, count, gen, disk,
                     chunks, lastId, fts, hnsw, saved, thread, calls, up, used, task, dir,
                     proc, moves, place, events, pc, known, pendingPaths, reports, timer2,
                     sends, subscribed, behind, broken, groups, pass, exact>>
MNext == MStep(M!Next)
NInit ==
    /\ part = "notify" /\ N!Init /\ RoutesOff /\ ToolsOff
    /\ aged = "off" /\ tasks = "off" /\ queue = "off" /\ eval = "off" /\ hooks = "off"
    /\ since = "off" /\ fresh = "off" /\ pending = "off" /\ timer = "off" /\ flushes = "off"
    /\ heard = "off" /\ storms = "off" /\ lost = "off" /\ stopped = "off" /\ files = "off"
    /\ counted = "off" /\ appends = "off" /\ warm = "off" /\ agg = "off" /\ hot = "off"
    /\ promo = "off" /\ count = "off" /\ gen = "off" /\ disk = "off" /\ chunks = "off"
    /\ lastId = "off" /\ fts = "off" /\ hnsw = "off" /\ saved = "off" /\ thread = "off"
    /\ calls = "off" /\ up = "off" /\ used = "off" /\ task = "off" /\ dir = "off"
    /\ proc = "off" /\ moves = "off" /\ place = "off" /\ events = "off" /\ pc = "off"
    /\ known = "off" /\ pendingPaths = "off" /\ reports = "off" /\ timer2 = "off"
    /\ sends = "off" /\ subscribed = "off" /\ behind = "off" /\ broken = "off"
    /\ groups = "off" /\ pass = "off" /\ exact = "off"
NStep(A) ==
    /\ part = "notify" /\ A
    /\ UNCHANGED <<part, routeVars, toolVars, aged, tasks, queue, eval, hooks, since, fresh, pending, timer,
                     flushes, heard, storms, lost, stopped, files, counted, appends, warm,
                     agg, hot, promo, count, gen, disk, chunks, lastId, fts, hnsw, saved,
                     thread, calls, up, used, task, dir, proc, moves, place, events, pc,
                     known, pendingPaths, reports, timer2, sends, subscribed, behind,
                     broken, groups, pass, exact>>
NNext == NStep(N!Next)
BInit ==
    /\ part = "batcher" /\ B!Init /\ RoutesOff /\ ToolsOff
    /\ file = "off" /\ aged = "off" /\ tasks = "off" /\ queue = "off" /\ eval = "off"
    /\ hooks = "off" /\ since = "off" /\ budget = "off" /\ now = "off" /\ updatedAt = "off"
    /\ dedupe = "off" /\ rules = "off" /\ reloads = "off" /\ due = "off" /\ sending = "off"
    /\ sent = "off" /\ quiet = "off" /\ polled = "off" /\ files = "off" /\ counted = "off"
    /\ appends = "off" /\ warm = "off" /\ agg = "off" /\ hot = "off" /\ promo = "off"
    /\ count = "off" /\ gen = "off" /\ disk = "off" /\ chunks = "off" /\ lastId = "off"
    /\ fts = "off" /\ hnsw = "off" /\ saved = "off" /\ thread = "off" /\ calls = "off"
    /\ up = "off" /\ used = "off" /\ task = "off" /\ dir = "off" /\ proc = "off"
    /\ moves = "off" /\ place = "off" /\ events = "off" /\ pc = "off" /\ known = "off"
    /\ pendingPaths = "off" /\ reports = "off" /\ timer2 = "off" /\ sends = "off"
    /\ subscribed = "off" /\ behind = "off" /\ broken = "off" /\ groups = "off"
    /\ pass = "off" /\ exact = "off"
BNext ==
    /\ part = "batcher" /\ B!Next
    /\ UNCHANGED <<part, routeVars, toolVars, file, aged, tasks, queue, eval, hooks, since, budget, now, updatedAt,
                     dedupe, rules, reloads, due, sending, sent, quiet, polled, files,
                     counted, appends, warm, agg, hot, promo, count, gen, disk, chunks,
                     lastId, fts, hnsw, saved, thread, calls, up, used, task, dir, proc,
                     moves, place, events, pc, known, pendingPaths, reports, timer2, sends,
                     subscribed, behind, broken, groups, pass, exact>>
TInit ==
    /\ part = "tiers" /\ T!Init /\ RoutesOff /\ ToolsOff
    /\ file = "off" /\ aged = "off" /\ tasks = "off" /\ queue = "off" /\ eval = "off"
    /\ hooks = "off" /\ since = "off" /\ now = "off" /\ updatedAt = "off" /\ dedupe = "off"
    /\ rules = "off" /\ reloads = "off" /\ due = "off" /\ sending = "off" /\ sent = "off"
    /\ quiet = "off" /\ polled = "off" /\ fresh = "off" /\ pending = "off" /\ timer = "off"
    /\ flushes = "off" /\ heard = "off" /\ storms = "off" /\ lost = "off" /\ stopped = "off"
    /\ count = "off" /\ gen = "off" /\ disk = "off" /\ chunks = "off" /\ lastId = "off"
    /\ fts = "off" /\ hnsw = "off" /\ saved = "off" /\ thread = "off" /\ calls = "off"
    /\ up = "off" /\ used = "off" /\ task = "off" /\ dir = "off" /\ proc = "off"
    /\ moves = "off" /\ place = "off" /\ events = "off" /\ pc = "off" /\ known = "off"
    /\ pendingPaths = "off" /\ reports = "off" /\ timer2 = "off" /\ sends = "off"
    /\ subscribed = "off" /\ behind = "off" /\ broken = "off" /\ groups = "off"
    /\ pass = "off" /\ exact = "off"
TNext ==
    /\ part = "tiers" /\ T!Next
    /\ UNCHANGED <<part, routeVars, toolVars, file, aged, tasks, queue, eval, hooks, since, now, updatedAt, dedupe,
                     rules, reloads, due, sending, sent, quiet, polled, fresh, pending,
                     timer, flushes, heard, storms, lost, stopped, count, gen, disk, chunks,
                     lastId, fts, hnsw, saved, thread, calls, up, used, task, dir, proc,
                     moves, place, events, pc, known, pendingPaths, reports, timer2, sends,
                     subscribed, behind, broken, groups, pass, exact>>
CInit ==
    /\ part = "curation" /\ C!Init /\ RoutesOff /\ ToolsOff
    /\ file = "off" /\ aged = "off" /\ queue = "off" /\ eval = "off" /\ hooks = "off"
    /\ since = "off" /\ updatedAt = "off" /\ dedupe = "off" /\ rules = "off" /\ reloads = "off"
    /\ due = "off" /\ sending = "off" /\ sent = "off" /\ quiet = "off" /\ polled = "off"
    /\ fresh = "off" /\ pending = "off" /\ timer = "off" /\ flushes = "off" /\ heard = "off"
    /\ storms = "off" /\ lost = "off" /\ stopped = "off" /\ files = "off" /\ counted = "off"
    /\ appends = "off" /\ warm = "off" /\ agg = "off" /\ hot = "off" /\ promo = "off"
    /\ disk = "off" /\ chunks = "off" /\ lastId = "off" /\ fts = "off" /\ hnsw = "off"
    /\ saved = "off" /\ thread = "off" /\ calls = "off" /\ up = "off" /\ used = "off"
    /\ task = "off" /\ dir = "off" /\ proc = "off" /\ moves = "off" /\ place = "off"
    /\ events = "off" /\ pc = "off" /\ known = "off" /\ pendingPaths = "off"
    /\ reports = "off" /\ timer2 = "off" /\ sends = "off" /\ subscribed = "off"
    /\ behind = "off" /\ broken = "off" /\ groups = "off" /\ pass = "off" /\ exact = "off"
CNext ==
    /\ part = "curation" /\ C!Next
    /\ UNCHANGED <<part, routeVars, toolVars, file, aged, queue, eval, hooks, since, updatedAt, dedupe, rules,
                     reloads, due, sending, sent, quiet, polled, fresh, pending, timer,
                     flushes, heard, storms, lost, stopped, files, counted, appends, warm,
                     agg, hot, promo, disk, chunks, lastId, fts, hnsw, saved, thread, calls,
                     up, used, task, dir, proc, moves, place, events, pc, known,
                     pendingPaths, reports, timer2, sends, subscribed, behind, broken,
                     groups, pass, exact>>
IInit ==
    /\ part = "index" /\ I!Init /\ RoutesOff /\ ToolsOff
    /\ file = "off" /\ aged = "off" /\ tasks = "off" /\ queue = "off" /\ eval = "off"
    /\ hooks = "off" /\ since = "off" /\ budget = "off" /\ now = "off" /\ updatedAt = "off"
    /\ dedupe = "off" /\ rules = "off" /\ reloads = "off" /\ due = "off" /\ sending = "off"
    /\ sent = "off" /\ quiet = "off" /\ polled = "off" /\ fresh = "off" /\ pending = "off"
    /\ timer = "off" /\ flushes = "off" /\ heard = "off" /\ storms = "off" /\ lost = "off"
    /\ stopped = "off" /\ counted = "off" /\ appends = "off" /\ warm = "off" /\ agg = "off"
    /\ hot = "off" /\ promo = "off" /\ count = "off" /\ gen = "off" /\ task = "off"
    /\ dir = "off" /\ proc = "off" /\ moves = "off" /\ place = "off" /\ events = "off"
    /\ pc = "off" /\ known = "off" /\ pendingPaths = "off" /\ reports = "off"
    /\ timer2 = "off" /\ sends = "off" /\ subscribed = "off" /\ behind = "off"
    /\ broken = "off" /\ groups = "off" /\ pass = "off" /\ exact = "off"
IStep(A) ==
    /\ part = "index" /\ A
    /\ UNCHANGED <<part, routeVars, toolVars, file, aged, tasks, queue, eval, hooks, since, budget, now, updatedAt,
                     dedupe, rules, reloads, due, sending, sent, quiet, polled, fresh,
                     pending, timer, flushes, heard, storms, lost, stopped, counted,
                     appends, warm, agg, hot, promo, count, gen, task, dir, proc, moves,
                     place, events, pc, known, pendingPaths, reports, timer2, sends,
                     subscribed, behind, broken, groups, pass, exact>>
INext == IStep(I!Next)
PInit ==
    /\ part = "messages" /\ P!Init /\ RoutesOff /\ ToolsOff
    /\ file = "off" /\ aged = "off" /\ tasks = "off" /\ eval = "off" /\ hooks = "off"
    /\ since = "off" /\ budget = "off" /\ now = "off" /\ updatedAt = "off" /\ dedupe = "off"
    /\ rules = "off" /\ reloads = "off" /\ due = "off" /\ sending = "off" /\ sent = "off"
    /\ quiet = "off" /\ polled = "off" /\ fresh = "off" /\ pending = "off" /\ timer = "off"
    /\ flushes = "off" /\ heard = "off" /\ storms = "off" /\ lost = "off" /\ stopped = "off"
    /\ files = "off" /\ counted = "off" /\ appends = "off" /\ warm = "off" /\ agg = "off"
    /\ hot = "off" /\ promo = "off" /\ count = "off" /\ gen = "off" /\ disk = "off"
    /\ chunks = "off" /\ lastId = "off" /\ fts = "off" /\ hnsw = "off" /\ saved = "off"
    /\ thread = "off" /\ calls = "off" /\ up = "off" /\ used = "off" /\ place = "off"
    /\ events = "off" /\ pc = "off" /\ known = "off" /\ pendingPaths = "off"
    /\ reports = "off" /\ timer2 = "off" /\ sends = "off" /\ subscribed = "off"
    /\ behind = "off" /\ broken = "off" /\ groups = "off" /\ pass = "off" /\ exact = "off"
PNext ==
    /\ part = "messages" /\ P!Next
    /\ UNCHANGED <<part, routeVars, toolVars, file, aged, tasks, eval, hooks, since, budget, now, updatedAt,
                     dedupe, rules, reloads, due, sending, sent, quiet, polled, fresh,
                     pending, timer, flushes, heard, storms, lost, stopped, files, counted,
                     appends, warm, agg, hot, promo, count, gen, disk, chunks, lastId, fts,
                     hnsw, saved, thread, calls, up, used, place, events, pc, known,
                     pendingPaths, reports, timer2, sends, subscribed, behind, broken,
                     groups, pass, exact>>
WInit ==
    /\ part = "watch" /\ W!Init /\ RoutesOff /\ ToolsOff
    /\ file = "off" /\ aged = "off" /\ tasks = "off" /\ queue = "off" /\ eval = "off"
    /\ hooks = "off" /\ since = "off" /\ now = "off" /\ updatedAt = "off" /\ dedupe = "off"
    /\ rules = "off" /\ reloads = "off" /\ due = "off" /\ sending = "off" /\ sent = "off"
    /\ quiet = "off" /\ polled = "off" /\ fresh = "off" /\ heard = "off" /\ storms = "off"
    /\ lost = "off" /\ stopped = "off" /\ files = "off" /\ counted = "off"
    /\ appends = "off" /\ warm = "off" /\ agg = "off" /\ hot = "off" /\ promo = "off"
    /\ count = "off" /\ gen = "off" /\ disk = "off" /\ chunks = "off" /\ lastId = "off"
    /\ fts = "off" /\ hnsw = "off" /\ saved = "off" /\ thread = "off" /\ calls = "off"
    /\ up = "off" /\ used = "off" /\ task = "off" /\ dir = "off" /\ proc = "off"
    /\ moves = "off" /\ groups = "off" /\ pass = "off" /\ exact = "off"
WNext ==
    /\ part = "watch" /\ W!Next
    /\ UNCHANGED <<part, routeVars, toolVars, file, aged, tasks, queue, eval, hooks, since, now, updatedAt, dedupe,
                     rules, reloads, due, sending, sent, quiet, polled, fresh, heard,
                     storms, lost, stopped, files, counted, appends, warm, agg, hot, promo,
                     count, gen, disk, chunks, lastId, fts, hnsw, saved, thread, calls, up,
                     used, task, dir, proc, moves, groups, pass, exact>>
VInit ==
    /\ part = "views" /\ V!Init /\ RoutesOff /\ ToolsOff
    /\ file = "off" /\ aged = "off" /\ tasks = "off" /\ queue = "off" /\ eval = "off"
    /\ hooks = "off" /\ since = "off" /\ now = "off" /\ updatedAt = "off" /\ dedupe = "off"
    /\ rules = "off" /\ reloads = "off" /\ due = "off" /\ sending = "off" /\ sent = "off"
    /\ quiet = "off" /\ polled = "off" /\ fresh = "off" /\ pending = "off" /\ timer = "off"
    /\ flushes = "off" /\ heard = "off" /\ storms = "off" /\ lost = "off" /\ stopped = "off"
    /\ counted = "off" /\ appends = "off" /\ warm = "off" /\ agg = "off" /\ hot = "off"
    /\ promo = "off" /\ count = "off" /\ gen = "off" /\ disk = "off" /\ chunks = "off"
    /\ lastId = "off" /\ fts = "off" /\ hnsw = "off" /\ saved = "off" /\ thread = "off"
    /\ calls = "off" /\ up = "off" /\ used = "off" /\ dir = "off" /\ proc = "off"
    /\ moves = "off" /\ place = "off" /\ events = "off" /\ pc = "off" /\ known = "off"
    /\ pendingPaths = "off" /\ reports = "off" /\ timer2 = "off" /\ sends = "off"
    /\ subscribed = "off" /\ behind = "off" /\ broken = "off"
VNext ==
    /\ part = "views" /\ V!Next
    /\ UNCHANGED <<part, routeVars, toolVars, file, aged, tasks, queue, eval, hooks, since, now, updatedAt, dedupe,
                     rules, reloads, due, sending, sent, quiet, polled, fresh, pending,
                     timer, flushes, heard, storms, lost, stopped, counted, appends, warm,
                     agg, hot, promo, count, gen, disk, chunks, lastId, fts, hnsw, saved,
                     thread, calls, up, used, dir, proc, moves, place, events, pc, known,
                     pendingPaths, reports, timer2, sends, subscribed, behind, broken>>
RInit ==
    /\ part = "routes" /\ R!Init /\ ToolsOff
    /\ file = "off" /\ aged = "off" /\ tasks = "off" /\ queue = "off" /\ eval = "off"
    /\ hooks = "off" /\ since = "off" /\ now = "off" /\ updatedAt = "off" /\ dedupe = "off"
    /\ rules = "off" /\ reloads = "off" /\ due = "off" /\ sending = "off"
    /\ sent = "off" /\ quiet = "off" /\ polled = "off" /\ fresh = "off"
    /\ pending = "off" /\ timer = "off" /\ flushes = "off" /\ heard = "off"
    /\ storms = "off" /\ lost = "off" /\ stopped = "off" /\ files = "off"
    /\ counted = "off" /\ appends = "off" /\ warm = "off" /\ agg = "off" /\ hot = "off"
    /\ promo = "off" /\ count = "off" /\ gen = "off" /\ disk = "off" /\ chunks = "off"
    /\ lastId = "off" /\ fts = "off" /\ hnsw = "off" /\ saved = "off" /\ thread = "off"
    /\ calls = "off" /\ up = "off" /\ used = "off" /\ task = "off" /\ dir = "off"
    /\ proc = "off" /\ moves = "off" /\ place = "off" /\ events = "off" /\ pc = "off"
    /\ known = "off" /\ pendingPaths = "off" /\ reports = "off" /\ timer2 = "off"
    /\ sends = "off" /\ subscribed = "off" /\ behind = "off" /\ broken = "off"
    /\ groups = "off" /\ pass = "off" /\ exact = "off"
RNext ==
    /\ part = "routes" /\ R!Next
    /\ UNCHANGED <<part, toolVars, file, aged, tasks, queue, eval, hooks, since, now, updatedAt, dedupe, rules,
                     reloads, due, sending, sent, quiet, polled, fresh, pending,
                     timer, flushes, heard, storms, lost, stopped, files, counted,
                     appends, warm, agg, hot, promo, count, gen, disk, chunks,
                     lastId, fts, hnsw, saved, thread, calls, up, used, task, dir,
                     proc, moves, place, events, pc, known, pendingPaths, reports,
                     timer2, sends, subscribed, behind, broken, groups, pass, exact>>
KInit ==
    /\ part = "tools" /\ K!Init /\ RoutesOff /\ budget = "off"
    /\ file = "off" /\ aged = "off" /\ tasks = "off" /\ queue = "off" /\ eval = "off"
    /\ hooks = "off" /\ since = "off" /\ now = "off" /\ updatedAt = "off" /\ dedupe = "off"
    /\ rules = "off" /\ reloads = "off" /\ due = "off" /\ sending = "off"
    /\ sent = "off" /\ quiet = "off" /\ polled = "off" /\ fresh = "off"
    /\ pending = "off" /\ timer = "off" /\ flushes = "off" /\ heard = "off"
    /\ storms = "off" /\ lost = "off" /\ stopped = "off" /\ files = "off"
    /\ counted = "off" /\ appends = "off" /\ warm = "off" /\ agg = "off" /\ hot = "off"
    /\ promo = "off" /\ count = "off" /\ gen = "off" /\ disk = "off" /\ chunks = "off"
    /\ lastId = "off" /\ fts = "off" /\ hnsw = "off" /\ saved = "off" /\ thread = "off"
    /\ calls = "off" /\ up = "off" /\ used = "off" /\ task = "off" /\ dir = "off"
    /\ proc = "off" /\ moves = "off" /\ place = "off" /\ events = "off" /\ pc = "off"
    /\ known = "off" /\ pendingPaths = "off" /\ reports = "off" /\ timer2 = "off"
    /\ sends = "off" /\ subscribed = "off" /\ behind = "off" /\ broken = "off"
    /\ groups = "off" /\ pass = "off" /\ exact = "off"
KNext ==
    /\ part = "tools" /\ K!Next
    /\ UNCHANGED <<part, routeVars, budget, file, aged, tasks, queue, eval, hooks, since, now, updatedAt, dedupe, rules,
                     reloads, due, sending, sent, quiet, polled, fresh, pending,
                     timer, flushes, heard, storms, lost, stopped, files, counted,
                     appends, warm, agg, hot, promo, count, gen, disk, chunks,
                     lastId, fts, hnsw, saved, thread, calls, up, used, task, dir,
                     proc, moves, place, events, pc, known, pendingPaths, reports,
                     timer2, sends, subscribed, behind, broken, groups, pass, exact>>

Init == MInit \/ NInit \/ BInit \/ TInit \/ CInit \/ IInit \/ PInit \/ WInit \/ VInit
        \/ RInit \/ KInit
Next == MNext \/ NNext \/ BNext \/ TNext \/ CNext \/ INext \/ PNext \/ WNext \/ VNext
        \/ RNext \/ KNext

(* The fairness of each component, of the part that runs. *)
Fairness ==
    /\ WF_vars(MStep(M!Evaluation)) /\ WF_vars(MStep(M!Age))
    /\ \A h \in {1, 2} : WF_vars(MStep(M!HookStep(h)))
    /\ WF_vars(NStep(N!Reload))
    /\ WF_vars(IStep(I!registerMemoryModule \/ I!getProjectMemoryStore)) /\ WF_vars(IStep(I!Statement))
    /\ SF_vars(IStep(I!Timer)) /\ WF_vars(IStep(I!runOnce \/ I!NextFile \/ I!Compare))
    /\ \A c \in {"store", "update", "delete", "sync"} : WF_vars(IStep(I!Work(c)))
    /\ WF_vars(IStep(I!UnlinkFile \/ I!Purge))

Spec == Init /\ [][Next]_vars /\ Fairness

(* A team has at most one open review, its counters tell what happened since the *)
(* last one began, and a complete batch is reviewed (murmur-integration.ts,      *)
(* state-manager.ts, cleanup.ts).                                                *)
ReviewsKept ==
    /\ [](part = "murmur" => M!OneReview /\ M!CountsKept)
    /\ (part = "murmur" /\ M!BatchDue) ~> (part = "murmur" /\ ~M!BatchDue)
(* No message is forgotten by the storm batcher, or sent twice (batcher.ts).     *)
NoneForgotten == part = "batcher" => B!NoneForgotten
(* The tiers keep their limits, and an aggregation shows every event that was    *)
(* there when it began (cold-tier.ts, warm-aggregation.ts, hot-promotion.ts).    *)
TiersKept == part = "tiers" => T!FileBounded /\ T!WarmComplete /\ T!HotBounded
(* A pool has at most one open curation task, and they are an interval apart     *)
(* (curation-generator.ts).                                                      *)
CurationPaced ==
    /\ [](part = "curation" => C!OneOpen)
    /\ [][part = "curation" => C!IntervalStep]_vars
(* The index of a file has one content, the two indexes and the record agree     *)
(* until a crash, a restart repairs them, and a content that stays on disk is    *)
(* found in the end (memory/tools/, memory/store/, sync-service.ts).             *)
IndexFaithful ==
    /\ [](part = "index" => I!TypeOK /\ I!OneContent /\ I!IndexesAgree /\ I!RecordTrue)
    /\ [][part = "index" => I!BootStep]_vars
    /\ \A p \in Paths, v \in Contents : []<>(part = "index" => I!UpToDate(p, v))
(* Messages of a task take turns: none is forgotten, no note is lost, and card,  *)
(* handoff file, companion directory and holder agree (protocol/router.ts).  And *)
(* what a tool answers is true, and no call changes more than its actor may      *)
(* (permissions/, tools/, mcp/tools.ts).                                         *)
MessagesAgree ==
    /\ [](part = "messages" => P!WorkLogKept /\ P!HandoffAgrees /\ P!OneCompanion /\ P!MessageHandled)
    /\ [](part = "tools" => K!CompletedIsDone /\ K!EntriesKept /\ K!DispatchWhole)
    /\ [][part = "messages" => P!AckStep]_vars
    /\ [][part = "tools" => K!ActorStep]_vars
(* A session subscribed to a task hears of every change of it, and the answer to  *)
(* a dispatch goes to the session that made it (ViewWatcher, SubscriptionManager, *)
(* OpenClawToolInvocationContextStore).                                          *)
ClientsTold ==
    /\ part = "watch" => W!TaskTold
    /\ part = "routes" => R!RouteTrue
(* A pass that ran alone leaves exactly the view of the tasks.                   *)
ViewExact == part = "views" => V!ViewExact
=============================================================================
