------------------------------ MODULE TaskWatch ------------------------------
(* Resource subscriptions of MCP clients: a watcher of the task directories      *)
(* collects changed paths, looks at them when it has been quiet for a while and  *)
(* reports what happened; the subscription manager turns every report into       *)
(* resource names, collects those somebody subscribed to, and after a quiet time *)
(* of its own tells each session.                                                *)
EXTENDS Naturals, FiniteSets

CONSTANTS
    Places,     \* the statuses the watched task can be in: one path each
    Start,      \* the first of them
    Sessions,
    Setups      \* records: moves and edits of the task, toggles of subscriptions,
                \* gap (the task moves between the first scan and the watch), fails
                \* (sends that throw)

VARIABLES
    setup,
    place,      \* where the task file is
    events,     \* paths with an event of the file system not yet delivered
    pc,         \* of start(): new, scanned, watching
    known,      \* fileStates: the paths the watcher takes to exist
    pendingPaths, timer,
    flushes,    \* flushes of the watcher under way: the paths they have left
    reports,    \* reports whose resource names are being looked up: paths
    pending, timer2,
    sends,      \* flushes of the manager under way: the sessions they have left
    subscribed, \* sessions subscribed to the task
    behind,     \* those that were not told of the last change
    broken,     \* those that lost a message to a send that threw
    budget

vars == <<setup, place, events, pc, known, pendingPaths, timer, flushes, reports, pending,
          timer2, sends, subscribed, behind, broken, budget>>
watcherVars == <<pc, known, pendingPaths, timer, flushes>>
managerVars == <<reports, pending, timer2, sends>>

Init ==
    /\ setup \in Setups /\ place = Start /\ events = {} /\ pc = "new" /\ known = {}
    /\ pendingPaths = {} /\ timer = FALSE /\ flushes = {} /\ reports = {} /\ pending = FALSE
    /\ timer2 = FALSE /\ sends = {} /\ subscribed = {} /\ behind = {} /\ broken = {}
    /\ budget = [moves |-> setup.moves, edits |-> setup.edits, toggles |-> setup.toggles,
                 fails |-> setup.fails]

Spend(k) == budget[k] > 0 /\ budget' = [budget EXCEPT ![k] = @ - 1]
Happened(paths) ==
    /\ events' = IF pc = "watching" THEN events \cup paths ELSE events
    /\ behind' = subscribed

(* The store writes the file of the task anew, or moves it.                      *)
Edit ==
    /\ Spend("edits") /\ Happened({place})
    /\ UNCHANGED <<setup, place, watcherVars, managerVars, subscribed, broken>>
Move(p) ==
    /\ p # place /\ (pc = "scanned" => setup.gap) /\ Spend("moves")
    /\ place' = p /\ Happened({place, p})
    /\ UNCHANGED <<setup, watcherVars, managerVars, subscribed, broken>>

(* start: the files that are there, then the watch.                              *)
initializeFileStates ==
    /\ pc = "new" /\ pc' = "scanned" /\ known' = {place}
    /\ UNCHANGED <<setup, place, events, pendingPaths, timer, flushes, managerVars, subscribed,
                   behind, broken, budget>>
watch ==
    /\ pc = "scanned" /\ pc' = "watching"
    /\ UNCHANGED <<setup, place, events, known, pendingPaths, timer, flushes, managerVars,
                   subscribed, behind, broken, budget>>

(* An event of the file system: the path waits for the debounce timer.           *)
Deliver(p) ==
    /\ p \in events /\ events' = events \ {p}
    /\ pendingPaths' = pendingPaths \cup {p} /\ timer' = TRUE
    /\ UNCHANGED <<setup, place, pc, known, flushes, managerVars, subscribed, behind, broken, budget>>

TakePaths == flushes' = flushes \cup {pendingPaths} /\ pendingPaths' = {}
flushPendingEvents ==
    /\ timer /\ timer' = FALSE /\ TakePaths
    /\ UNCHANGED <<setup, place, events, pc, known, managerVars, subscribed, behind, broken, budget>>

(* Mutation of Report: a path that is known and there is nothing new. *)
ReportNew(p) == IF (p = place) # (p \in known) THEN reports' = reports \cup {p} ELSE UNCHANGED reports
(* processPath: what became of the path since it was last looked at. A path that *)
(* was not known and is not there was created and removed in between.            *)
Report(p) == IF p = place \/ p \in known THEN reports' = reports \cup {p} ELSE UNCHANGED reports
processPath(f, p) ==
    /\ f \in flushes /\ p \in f
    /\ flushes' = (flushes \ {f}) \cup ({f \ {p}} \ {{}})
    /\ known' = IF p = place THEN known \cup {p} ELSE known \ {p}
    /\ Report(p)
    /\ UNCHANGED <<setup, place, events, pc, pendingPaths, timer, pending, timer2, sends,
                   subscribed, behind, broken, budget>>

(* handleWatchEvent: the name of the task is among those of every path of it; it *)
(* is dropped when nobody subscribed to it.                                      *)
handleWatchEvent(p) ==
    /\ p \in reports /\ reports' = reports \ {p}
    /\ pending' = (pending \/ subscribed # {}) /\ timer2' = (timer2 \/ pending')
    /\ UNCHANGED <<setup, place, events, watcherVars, sends, subscribed, behind, broken, budget>>

flushPending ==
    /\ timer2 /\ timer2' = FALSE /\ pending' = FALSE /\ sends' = sends \cup ({subscribed} \ {{}})
    /\ UNCHANGED <<setup, place, events, watcherVars, reports, subscribed, behind, broken, budget>>

(* The loop over the sessions. A send that throws ends it for those after it.    *)
sendNotification(f, s) ==
    /\ f \in sends /\ s \in f
    /\ \/ /\ sends' = (sends \ {f}) \cup ({f \ {s}} \ {{}})
          /\ behind' = behind \ {s} /\ UNCHANGED <<broken, budget>>
       \/ /\ Spend("fails") /\ sends' = sends \ {f} /\ broken' = broken \cup f
          /\ UNCHANGED behind
    /\ UNCHANGED <<setup, place, events, watcherVars, reports, pending, timer2, subscribed>>

(* subscribe tells the session at once.                                          *)
subscribe(s) ==
    /\ pc = "watching" /\ Spend("toggles")
    /\ subscribed' = subscribed \cup {s} /\ behind' = behind \ {s}
    /\ UNCHANGED <<setup, place, events, watcherVars, managerVars, broken>>
unsubscribe(s) ==
    /\ s \in subscribed /\ Spend("toggles")
    /\ subscribed' = subscribed \ {s} /\ behind' = behind \ {s}
    /\ sends' = {f \ {s} : f \in sends} \ {{}}
    /\ UNCHANGED <<setup, place, events, watcherVars, reports, pending, timer2, broken>>

Watcher == initializeFileStates \/ watch \/ (\E p \in Places : Deliver(p)) \/ flushPendingEvents
           \/ \E f \in flushes : \E p \in f : processPath(f, p)
Manager == (\E p \in reports : handleWatchEvent(p)) \/ flushPending
           \/ \E f \in sends : \E s \in f : sendNotification(f, s)
Next ==
    \/ Edit \/ (\E p \in Places : Move(p)) \/ Watcher \/ Manager
    \/ \E s \in Sessions : subscribe(s) \/ unsubscribe(s)

(* A session that is subscribed to a task hears of every change of it, however   *)
(* fast the changes follow each other and wherever the debouncing puts them      *)
(* together (ViewWatcher, SubscriptionManager): when the watcher and the manager *)
(* have nothing left to do, everybody was told. A session that lost a message to *)
(* a throwing send is excepted.                                                  *)
AtRest ==
    /\ pc = "watching" /\ events = {} /\ ~timer /\ flushes = {} /\ reports = {}
    /\ ~timer2 /\ sends = {}
TaskTold == AtRest => behind \subseteq broken
==============================================================================
