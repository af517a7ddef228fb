---------------------------- MODULE MemoryIndex ----------------------------
(* The memory index of the plugin: Markdown files on disk, their chunks in    *)
(* SQLite (chunks and vec_chunks, one transaction), the full-text table, the  *)
(* record of what was indexed (files), and a vector index kept in memory and  *)
(* saved to a file after every change.                                        *)
(*                                                                            *)
(* The tools and the index scan are calls on one JavaScript thread: a call    *)
(* runs alone between two awaits (a segment) and calls interleave at awaits.  *)
(* A crash can hit between any two durable writes of a segment.  A content is *)
(* a number, its hash is the number; a search is what Search contains.        *)
EXTENDS Naturals, Sequences, FiniteSets, SequencesExt

CONSTANTS Paths, Contents, None,
          chunkMarkdown(_),   \* how many chunks a content has
          Setups              \* records: see MCOversight

Calls == {"store", "update", "delete", "sync"}

VARIABLES
    setup,
    disk,       \* the files: Paths -> Contents or None
    chunks,     \* rows of chunks and vec_chunks: [id, path, index, content]
    lastId,     \* AUTOINCREMENT
    fts,        \* rows of fts_chunks
    files,      \* the table files: Paths -> hash or None
    hnsw,       \* the vector index in memory: labels alive, number marked deleted
    saved,      \* its file: the same, if it is there and readable
    thread,     \* the segment that runs: whose, and the statements left
    calls,      \* what each call waits for
    up,         \* the plugin runs
    used        \* faults and user actions so far

vars == <<setup, disk, chunks, lastId, fts, files, hnsw, saved, thread, calls, up, used>>
store == <<chunks, lastId, fts, files, hnsw, saved>>

Idle == [pc |-> "idle", path |-> None, content |-> None, queue |-> <<>>]
Free == thread.ops = <<>>
Ids == {c.id : c \in chunks}
Empty == [live |-> {}, dead |-> 0]
Unreadable == [live |-> {}, dead |-> 0, ok |-> FALSE]   \* no file, or a torn one
File(h) == [live |-> h.live, dead |-> h.dead, ok |-> TRUE]

Init ==
    /\ setup \in Setups
    /\ disk = [p \in Paths |-> None]
    /\ chunks = {} /\ lastId = 0 /\ fts = {} /\ files = [p \in Paths |-> None]
    /\ hnsw = Empty /\ saved = Unreadable
    /\ thread = [call |-> None, ops |-> <<>>]
    /\ calls = [c \in Calls |-> Idle]
    /\ up = FALSE
    /\ used = [writes |-> 0, fails |-> 0, crashes |-> 0]

(* ----------------------------- The vector index ---------------------------- *)

(* The library counts the elements marked deleted too. *)
count(h) == Cardinality(h.live) + h.dead

(* An element not present is silently ignored. *)
remove(h, ids) == [live |-> h.live \ ids, dead |-> h.dead + Cardinality(h.live \cap ids)]

add(h, id) == [h EXCEPT !.live = @ \cup {id}]
rebuildHnswFromDb == [live |-> Ids, dead |-> 0]

needsRebuild == ~saved.ok \/ count(saved) # Cardinality(chunks)

(* registerMemoryModule: load, check parity, rebuild and save if needed; then *)
(* the service's first scan.                                                  *)
registerMemoryModule ==
    /\ ~setup.project /\ ~up /\ up' = TRUE
    /\ hnsw' = IF needsRebuild THEN rebuildHnswFromDb ELSE [live |-> saved.live, dead |-> saved.dead]
    /\ saved' = IF needsRebuild THEN File(rebuildHnswFromDb) ELSE saved
    /\ calls' = [calls EXCEPT !["sync"].pc = "scan"]
    /\ UNCHANGED <<setup, disk, chunks, lastId, fts, files, thread, used>>

(* A project's store is opened by the first call that names it; an empty      *)
(* index is not saved, and nothing scans the project's files.                 *)
getProjectMemoryStore ==
    /\ setup.project /\ ~up /\ up' = TRUE
    /\ hnsw' = IF needsRebuild THEN rebuildHnswFromDb ELSE [live |-> saved.live, dead |-> saved.dead]
    /\ saved' = IF needsRebuild /\ count(hnsw') > 0 THEN File(hnsw') ELSE saved
    /\ UNCHANGED <<setup, disk, chunks, lastId, fts, files, thread, calls, used>>

(* ------------------------ Statements of a segment --------------------------- *)

(* A statement is a record; the head of thread.ops is executed next.          *)
(* deleteChunksByFile: the ids first, then the rows, then the index.          *)
deleteChunksByFile(p) == <<[op |-> "rows", path |-> p], [op |-> "ftsRows", path |-> p]>>

removedIds(p) == {c.id : c \in {d \in chunks : d.path = p}}

insertSegment(p, v) ==
    [i \in 1 .. chunkMarkdown(v) |-> [op |-> "insert", path |-> p, index |-> i - 1, content |-> v]]
    \o <<[op |-> "record", path |-> p, content |-> v]>>

Done(c) == [calls EXCEPT ![c] =
    IF c = "sync" THEN [calls[c] EXCEPT !.pc = "next"] ELSE Idle]

uniqueViolated(o) == \E c \in chunks : c.path = o.path /\ c.index = o.index

Continue(ops) == thread' = [thread EXCEPT !.ops = ops]

(* One durable statement.  insertChunk is three: the rows, the index with its *)
(* file, the full-text row.                                                   *)
Statement ==
    /\ up /\ ~Free
    /\ LET o == Head(thread.ops)
           rest == Tail(thread.ops)
       IN
       \/ /\ o.op = "rows"
          /\ Continue(<<[op |-> "unindex", ids |-> removedIds(o.path)]>> \o rest)
          /\ chunks' = {c \in chunks : c.path # o.path}
          /\ UNCHANGED <<lastId, fts, files, hnsw, saved, calls>>
       \/ /\ o.op = "unindex"
          /\ hnsw' = remove(hnsw, o.ids) /\ saved' = File(hnsw') /\ Continue(rest)
          /\ UNCHANGED <<chunks, lastId, fts, files, calls>>
       \/ /\ o.op = "ftsRows"
          /\ fts' = {c \in fts : c.path # o.path} /\ Continue(rest)
          /\ UNCHANGED <<chunks, lastId, files, hnsw, saved, calls>>
       \/ /\ o.op = "insert" /\ uniqueViolated(o)
          /\ Continue(<<>>) /\ calls' = Done(thread.call)
          /\ UNCHANGED store
       \/ /\ o.op = "insert" /\ ~uniqueViolated(o)
          /\ LET row == [id |-> lastId + 1, path |-> o.path, index |-> o.index, content |-> o.content]
             IN  /\ chunks' = chunks \cup {row}
                 /\ Continue(<<[op |-> "index", row |-> row]>> \o rest)
          /\ lastId' = lastId + 1
          /\ UNCHANGED <<fts, files, hnsw, saved, calls>>
       \/ /\ o.op = "index"
          /\ hnsw' = add(hnsw, o.row.id) /\ saved' = File(hnsw')
          /\ Continue(<<[op |-> "ftsRow", row |-> o.row]>> \o rest)
          /\ UNCHANGED <<chunks, lastId, fts, files, calls>>
       \/ /\ o.op = "ftsRow"
          /\ fts' = fts \cup {o.row} /\ Continue(rest)
          /\ UNCHANGED <<chunks, lastId, files, hnsw, saved, calls>>
       \/ /\ o.op = "record"
          /\ files' = [files EXCEPT ![o.path] = o.content] /\ Continue(rest)
          /\ calls' = IF rest = <<>> THEN Done(thread.call) ELSE calls
          /\ UNCHANGED <<chunks, lastId, fts, hnsw, saved>>
       \/ /\ o.op = "forget"
          /\ files' = [files EXCEPT ![o.path] = None] /\ Continue(rest)
          /\ calls' = Done(thread.call)
          /\ UNCHANGED <<chunks, lastId, fts, hnsw, saved>>
    /\ UNCHANGED <<setup, disk, up, used>>

(* --------------------------------- Calls ------------------------------------ *)

Begin(c, pc, p, v) ==
    /\ up /\ Free /\ calls[c].pc = "idle"
    /\ setup.overlap \/ \A d \in Calls : calls[d].pc = "idle"
    /\ calls' = [calls EXCEPT ![c] = [Idle EXCEPT !.pc = pc, !.path = p, !.content = v]]

(* A user's write of new content, or of one that was there before.            *)
Fresh(v) == v > used.writes
Write(v) ==
    /\ used.writes < setup.writes /\ (setup.fresh => Fresh(v))
    /\ used' = [used EXCEPT !.writes = IF Fresh(v) THEN v ELSE @ + 1]

memory_store(p, v) ==
    /\ Write(v) /\ Begin("store", "write", p, v)
    /\ UNCHANGED <<setup, disk, store, thread, up>>

(* Mutation of hasFileChanged: only a file never indexed counts. *)
hasFileChangedNew(p, v) == files[p] = None /\ v \in Contents

hasFileChanged(p, v) == files[p] # v

(* Not found, or no changes: nothing happens. *)
memory_update(p, v) ==
    /\ Write(v) /\ disk[p] # None /\ hasFileChanged(p, v)
    /\ Begin("update", "write", p, v)
    /\ UNCHANGED <<setup, disk, store, thread, up>>

memory_delete(p) ==
    /\ setup.deletes /\ used.writes < setup.writes /\ used' = [used EXCEPT !.writes = @ + 1]
    /\ Begin("delete", "unlink", p, None)
    /\ UNCHANGED <<setup, disk, store, thread, up>>

(* The file is written, later its index. *)
WriteFile(c) ==
    /\ up /\ Free /\ calls[c].pc = "write"
    /\ disk' = [disk EXCEPT ![calls[c].path] = calls[c].content]
    /\ calls' = [calls EXCEPT ![c].pc = "index"]
    /\ UNCHANGED <<setup, store, thread, up, used>>

UnlinkFile ==
    /\ up /\ Free /\ calls["delete"].pc = "unlink"
    /\ disk' = [disk EXCEPT ![calls["delete"].path] = None]
    /\ calls' = [calls EXCEPT !["delete"].pc = "purge"]
    /\ UNCHANGED <<setup, store, thread, up, used>>

Purge ==
    /\ up /\ Free /\ calls["delete"].pc = "purge"
    /\ thread' = [call |-> "delete", ops |-> deleteChunksByFile(calls["delete"].path)
                    \o <<[op |-> "forget", path |-> calls["delete"].path]>>]
    /\ calls' = [calls EXCEPT !["delete"].pc = "purging"]
    /\ UNCHANGED <<setup, disk, store, up, used>>

(* indexMemoryChunks: the old chunks go, then the embeddings are fetched ...  *)
indexMemoryChunks(c) ==
    /\ up /\ Free /\ calls[c].pc = "index"
    /\ thread' = [call |-> c, ops |-> deleteChunksByFile(calls[c].path)]
    /\ calls' = [calls EXCEPT ![c].pc = "embed"]
    /\ UNCHANGED <<setup, disk, store, up, used>>

(* ... and the new ones are inserted when they come, ...                      *)
Embedded(c) ==
    /\ up /\ Free /\ calls[c].pc = "embed"
    /\ thread' = [call |-> c, ops |-> insertSegment(calls[c].path, calls[c].content)]
    /\ calls' = [calls EXCEPT ![c].pc = "inserting"]
    /\ UNCHANGED <<setup, disk, store, up, used>>

(* ... or the provider fails. *)
EmbedFails(c) ==
    /\ up /\ Free /\ calls[c].pc = "embed" /\ used.fails < setup.fails
    /\ used' = [used EXCEPT !.fails = @ + 1]
    /\ calls' = Done(c)
    /\ UNCHANGED <<setup, disk, store, thread, up>>

(* ------------------------------- The scan ----------------------------------- *)

collectMarkdownFiles == SetToSortSeq({p \in Paths : disk[p] # None}, LAMBDA a, b : a < b)

(* The timer fires; a first scan follows the start. *)
Timer ==
    /\ ~setup.project /\ up /\ Free /\ calls["sync"].pc = "idle"
    /\ setup.overlap \/ \A d \in Calls : calls[d].pc = "idle"
    /\ calls' = [calls EXCEPT !["sync"].pc = "scan"]
    /\ UNCHANGED <<setup, disk, store, thread, up, used>>

runOnce ==
    /\ up /\ Free /\ calls["sync"].pc = "scan"
    /\ calls' = [calls EXCEPT !["sync"].pc = "next", !["sync"].queue = collectMarkdownFiles]
    /\ UNCHANGED <<setup, disk, store, thread, up, used>>

(* The next file is read, or the scan is over (and the timer set again). *)
NextFile ==
    /\ up /\ Free /\ calls["sync"].pc = "next"
    /\ LET q == calls["sync"].queue
       IN  calls' = [calls EXCEPT !["sync"] =
             IF q = <<>> THEN Idle
             ELSE [pc |-> IF disk[Head(q)] = None THEN "next" ELSE "compare",
                   path |-> Head(q), content |-> disk[Head(q)], queue |-> Tail(q)]]
    /\ UNCHANGED <<setup, disk, store, thread, up, used>>

(* Unchanged since it was indexed, or blank: skipped. *)
Compare ==
    /\ up /\ Free /\ calls["sync"].pc = "compare"
    /\ LET r == calls["sync"]
           go == hasFileChanged(r.path, r.content) /\ chunkMarkdown(r.content) > 0
       IN  /\ calls' = [calls EXCEPT !["sync"].pc = IF go THEN "embed" ELSE "next"]
           /\ thread' = IF go THEN [call |-> "sync", ops |-> deleteChunksByFile(r.path)] ELSE thread
    /\ UNCHANGED <<setup, disk, store, up, used>>

(* ------------------------------- The process -------------------------------- *)

(* The file of the index is half written when the crash hits its write. *)
Crash ==
    /\ up /\ used.crashes < setup.crashes
    /\ used' = [used EXCEPT !.crashes = @ + 1]
    /\ up' = FALSE /\ hnsw' = Empty
    /\ \/ saved' = saved
       \/ ~Free /\ Head(thread.ops).op \in {"unindex", "index"} /\ saved' = Unreadable
    /\ thread' = [call |-> None, ops |-> <<>>] /\ calls' = [c \in Calls |-> Idle]
    /\ UNCHANGED <<setup, disk, chunks, lastId, fts, files>>

saveAllProjectMemory == IF count(hnsw) > 0 THEN File(hnsw) ELSE saved

(* The service is stopped: the index is saved. *)
Stop ==
    /\ up /\ Free /\ used.crashes < setup.crashes
    /\ used' = [used EXCEPT !.crashes = @ + 1]
    /\ up' = FALSE /\ hnsw' = Empty
    /\ saved' = IF setup.project THEN saveAllProjectMemory ELSE File(hnsw)
    /\ calls' = [c \in Calls |-> Idle]
    /\ UNCHANGED <<setup, disk, chunks, lastId, fts, files, thread>>

(* aof memory rebuild, from another process. *)
MemoryRebuild ==
    /\ setup.rebuild /\ saved # File(rebuildHnswFromDb)
    /\ saved' = File(rebuildHnswFromDb)
    /\ UNCHANGED <<setup, disk, chunks, lastId, fts, files, hnsw, thread, calls, up, used>>

Scan == Timer \/ runOnce \/ NextFile \/ Compare
Work(c) == Embedded(c) \/ (c \in {"store", "update"} /\ (WriteFile(c) \/ indexMemoryChunks(c)))

Next ==
    \/ registerMemoryModule \/ getProjectMemoryStore \/ Statement \/ Scan \/ UnlinkFile \/ Purge
    \/ \E c \in Calls : Work(c) \/ EmbedFails(c)
    \/ \E p \in Paths, v \in Contents : memory_store(p, v) \/ memory_update(p, v)
    \/ \E p \in Paths : memory_delete(p)
    \/ Crash \/ Stop \/ MemoryRebuild

(* The thread runs, the provider answers, the scan's timer fires, and the     *)
(* gateway starts the plugin again.                                           *)
Fairness ==
    /\ WF_vars(registerMemoryModule \/ getProjectMemoryStore) /\ WF_vars(Statement)
    /\ SF_vars(Timer) /\ WF_vars(runOnce \/ NextFile \/ Compare)
    /\ \A c \in Calls : WF_vars(Work(c))
    /\ WF_vars(UnlinkFile \/ Purge)

Spec == Init /\ [][Next]_vars /\ Fairness

(* ------------------------------- Properties --------------------------------- *)

Rows(p) == {c \in chunks : c.path = p}
Contained(p) == {c.content : c \in Rows(p)}
Indexed(p, v) == Cardinality(Rows(p)) = chunkMarkdown(v) /\ Contained(p) \subseteq {v}

(* What a search can return: vectors by their row, full-text rows as they are. *)
searchWithHnsw == {c \in chunks : c.id \in hnsw.live}
search == searchWithHnsw \cup fts

TypeOK ==
    /\ disk \in [Paths -> Contents \cup {None}] /\ files \in [Paths -> Contents \cup {None}]
    /\ \A c \in chunks : c.id \in 1 .. lastId /\ c.path \in Paths
    /\ hnsw.live \subseteq 1 .. lastId /\ hnsw.dead \in 0 .. lastId
    /\ ~Free => thread.call \in Calls

(* The chunks of a file are a prefix of one content's chunks: overlapping     *)
(* calls and crashes never mix two contents, number a chunk twice or leave a  *)
(* hole.                                                                      *)
OneContent ==
    \A p \in Paths : /\ Cardinality(Contained(p)) <= 1
                     /\ {c.index : c \in Rows(p)} = 0 .. Cardinality(Rows(p)) - 1

(* Between segments, and until the first crash, the vector index and the      *)
(* full-text table hold exactly the chunks there are, and a search sees them. *)
IndexesAgree ==
    up /\ Free /\ used.crashes = 0 => hnsw.live = Ids /\ fts = chunks /\ search = chunks

(* Until the first crash a file that has chunks has all of them, and its      *)
(* record names the content they are of.                                      *)
RecordTrue ==
    up /\ Free /\ used.crashes = 0 =>
        \A p \in Paths : Rows(p) # {} => files[p] # None /\ Indexed(p, files[p])

BootStep == (~up /\ up' /\ (saved.ok => saved.dead = 0)) => hnsw'.live = Ids
(* An index file without deleted elements that fell behind the tables (by the *)
(* statement a crash cut off) is noticed and rebuilt at the next start.       *)
BootParity == [][BootStep]_vars

(* Where contents come back and something failed, the record may name this     *)
(* content although a re-indexing of another one removed its chunks and ended  *)
(* there: the scan then sees no change.                                        *)
RecordedOnly(p, v) == ~setup.fresh /\ used.fails + used.crashes > 0 /\ files[p] = v

UpToDate(p, v) == setup.project \/ disk[p] # v \/ Indexed(p, v) \/ RecordedOnly(p, v)
(* What the file says is what is found: a content that stays is not left      *)
(* out of the index, or replaced there by another, for ever (where a scan     *)
(* runs), but for the contents RecordedOnly names.                            *)
EventuallyIndexed == \A p \in Paths, v \in Contents : []<>UpToDate(p, v)
=============================================================================
