------------------------------- MODULE ViewSync -------------------------------
(* The views of the tasks on disk: a kanban board by lane and status, mailboxes  *)
(* by agent, and the pointers from a task to its subtasks. A pass lists the      *)
(* tasks, then writes and prunes one directory after the other, while tasks      *)
(* change and other passes run.                                                  *)
EXTENDS Naturals, FiniteSets, TaskStatus

CONSTANTS
    Tasks,
    Groups,     \* lanes of the board, or agents with a mailbox
    StatusesUsed,
    Passes,
    None,
    Setups      \* records: kind (kanban, mailbox or delegation), parents, tasks (that
                \* change), changes, passes

VARIABLES
    setup,
    task,       \* by task: None, or status and group: its lane, or the agent of its lease,
                \* routing or metadata, None when there is none
    files,      \* pointer files: directory, task and what the pointer says of it
    groups,     \* the lane and agent directories there are
    pass,       \* passes: pc, the list they work from, the directories they have left
    exact,      \* the passes that began alone, and since whose list nothing changed
    budget

vars == <<setup, task, files, groups, pass, exact, budget>>

KANBAN_COLUMNS == {"backlog", "ready", "in-progress", "blocked", "review", "done"}
MAILBOX_FOLDERS == {"inbox", "processing", "outbox"}
STATUS_TO_MAILBOX(s) ==
    CASE s = "ready" -> "inbox" [] s \in {"in-progress", "blocked"} -> "processing"
      [] s = "review" -> "outbox" [] OTHER -> None

Init ==
    /\ setup \in Setups
    /\ task = [t \in Tasks |-> None] /\ files = {} /\ groups = {}
    /\ pass = [p \in Passes |-> [pc |-> "idle", list |-> None, left |-> {}]]
    /\ exact = {} /\ budget = [changes |-> setup.changes, passes |-> setup.passes]

Listed(list) == {t \in Tasks : list[t] # None}
(* resolveSwimlane always finds one, resolveAssignedAgent may find nobody.       *)
Records == [status : StatusesUsed,
            group : CASE setup.kind = "kanban" -> Groups [] setup.kind = "mailbox" -> Groups \cup {None}
                      [] OTHER -> {None}]
Folder(rec) == IF setup.kind = "kanban" THEN rec.status ELSE STATUS_TO_MAILBOX(rec.status)
Folders == IF setup.kind = "kanban" THEN KANBAN_COLUMNS ELSE MAILBOX_FOLDERS
Children(list) == {t \in Listed(list) : setup.parents[t] \in Listed(list)}
Pointer(dir, t, list) == [dir |-> dir, task |-> t, says |-> list[t]]
(* The pointers a pass writes for the tasks it listed: in a mailbox only those   *)
(* somebody is assigned to; a subtask has one below its parent and one back.     *)
Pointers(list) ==
    IF setup.kind = "delegation"
      THEN {Pointer(<<setup.parents[t], "subtasks">>, t, list) : t \in Children(list)}
           \cup {Pointer(<<t, "handoff">>, t, list) : t \in Children(list)}
      ELSE {Pointer(<<list[t].group, Folder(list[t])>>, t, list) :
              t \in {u \in Listed(list) : list[u].group # None /\ Folder(list[u]) \in Folders}}

(* A task appears, or goes to another status, lane or agent.                     *)
Change(t, rec) ==
    /\ budget.changes > 0 /\ budget' = [budget EXCEPT !.changes = @ - 1]
    /\ rec # task[t] /\ task' = [task EXCEPT ![t] = rec] /\ exact' = {}
    /\ UNCHANGED <<setup, files, groups, pass>>

(* store.list().                                                                 *)
Begin(p) ==
    /\ pass[p].pc = "idle" /\ budget.passes > 0 /\ budget' = [budget EXCEPT !.passes = @ - 1]
    /\ pass' = [pass EXCEPT ![p] = [pc |-> "listed", list |-> task, left |-> {}]]
    /\ exact' = IF \A q \in Passes \ {p} : pass[q].pc = "idle" THEN {p} ELSE {}
    /\ UNCHANGED <<setup, task, files, groups>>

(* Mutation of ToProcess: only the groups of the tasks. *)
ToProcessDesired(list) == {list[t].group : t \in Listed(list)} \ {None}
(* The groups of the tasks, and those that have a directory already.             *)
ToProcess(list) == groups \cup ({list[t].group : t \in Listed(list)} \ {None})
Directories(p) ==
    /\ pass[p].pc = "listed"
    /\ pass' = [pass EXCEPT ![p].pc = "sync",
                  ![p].left = IF setup.kind = "delegation" THEN {ptr.dir : ptr \in Pointers(pass[p].list)}
                              ELSE ToProcess(pass[p].list) \X Folders]
    /\ UNCHANGED <<setup, task, files, groups, exact, budget>>

(* One directory, in the order of the Maps: the pointers that belong there are   *)
(* written, then the others are removed; of two passes in the same directory one *)
(* comes first.                                                                  *)
Synced(d, mine) == {f \in files : f.dir # d} \cup mine
SyncDirectory(p) ==
    LET d == CHOOSE x \in pass[p].left : TRUE IN
    /\ pass[p].pc = "sync" /\ pass[p].left # {}
    /\ files' = Synced(d, {ptr \in Pointers(pass[p].list) : ptr.dir = d})
    /\ groups' = IF setup.kind = "delegation" THEN groups ELSE groups \cup {d[1]}
    /\ pass' = [pass EXCEPT ![p].left = @ \ {d}]
    /\ UNCHANGED <<setup, task, exact, budget>>
Done(p) ==
    /\ pass[p].pc = "sync" /\ pass[p].left = {}
    /\ pass' = [pass EXCEPT ![p] = [pc |-> "idle", list |-> None, left |-> {}]]
    /\ UNCHANGED <<setup, task, files, groups, exact, budget>>

Next ==
    \/ \E t \in setup.tasks, rec \in Records : Change(t, rec)
    \/ \E p \in Passes : Begin(p) \/ Directories(p) \/ SyncDirectory(p) \/ Done(p)

(* A pass that ran alone leaves the view of the tasks it listed, whatever passes *)
(* that overlapped, and tasks that went elsewhere, had left behind               *)
(* (syncKanbanView, syncMailboxView, syncDelegationArtifacts).                   *)
ViewExact == \A p \in exact : pass[p].pc = "idle" => files = Pointers(task)
===============================================================================
