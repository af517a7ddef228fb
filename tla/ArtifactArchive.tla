--------------------------- MODULE ArtifactArchive ---------------------------
(* `aof artifacts archive` and `restore`: a directory is packed into cold       *)
(* storage, described by a manifest and a row of the index, and moved to the    *)
(* Trash when the user asks for it; an archive is unpacked again after its hash *)
(* has been compared with the row.                                              *)
EXTENDS Naturals, FiniteSets, Functions

CONSTANTS
    Sources,     \* directories with one name in one project, archived in one second:
    MaxArchives, \* their ids differ in the suffix only, 1..MaxArchives
    Setups       \* records: jobs, runs, edits, faults, empties (see MCHost)

VARIABLES
    setup,
    source,      \* the content of each directory: <<directory, version>>, or None
    trash,       \* the content under each of the names nextTrashTarget tries
    payload,     \* the tarball of each id: the content packed, partial, or mixed
    manifests,   \* the manifests: id, hash, pruned
    index,       \* the rows: id, source, hash, pruned
    jobs,        \* the commands under way
    out,         \* restores into a new directory: hash of the row, content unpacked
    wrote,       \* contents the user has not replaced
    budget       \* commands, edits, faults and emptied Trashes left

vars == <<setup, source, trash, payload, manifests, index, jobs, out, wrote, budget>>

Ids == 1..MaxArchives
None == <<>>
Idle == [at |-> "idle", src |-> "", id |-> 0, prune |-> FALSE, sha |-> None, target |-> 0]

Init ==
    /\ setup \in Setups
    /\ source = [s \in Sources |-> <<s, 1>>] /\ wrote = Range(source)
    /\ trash = [n \in Ids |-> None] /\ payload = [n \in Ids |-> None]
    /\ manifests = {} /\ index = {} /\ out = {}
    /\ jobs = [j \in 1..setup.jobs |-> Idle]
    /\ budget = [runs |-> setup.runs, edits |-> setup.edits, faults |-> setup.faults,
                 empties |-> setup.empties]

Spend(kind) == budget[kind] > 0 /\ budget' = [budget EXCEPT ![kind] = @ - 1]
At(j, at) == jobs[j].at = at
Goto(j, at) == jobs' = [jobs EXCEPT ![j].at = at]
Leave(j) == jobs' = [jobs EXCEPT ![j] = Idle]    \* returned, or thrown
has(id) == \E row \in index : row.id = id
Row(id) == CHOOSE row \in index : row.id = id
Least(free) == CHOOSE n \in free : \A k \in free : n <= k

(* ---------------------------------- archive --------------------------------- *)

archive(j) ==
    /\ At(j, "idle") /\ Spend("runs")
    /\ \E s \in Sources, prune \in BOOLEAN :
         /\ source[s] # None
         /\ jobs' = [jobs EXCEPT ![j] = [Idle EXCEPT !.at = "reserve", !.src = s, !.prune = prune]]
    /\ UNCHANGED <<setup, source, trash, payload, manifests, index, out, wrote>>

(* Nothing is written: the id is free until somebody's tarball has its name.   *)
FreeIds == {id \in Ids : ~has(id) /\ payload[id] = None /\ \A m \in manifests : m.id # id}
reserveArchiveId(j) ==
    /\ At(j, "reserve") /\ FreeIds # {}      \* MaxArchives bounds the archives
    /\ jobs' = [jobs EXCEPT ![j].at = "tar", ![j].id = Least(FreeIds)]
    /\ UNCHANGED <<setup, source, trash, payload, manifests, index, out, wrote, budget>>

(* tar truncates the file, ... *)
TarOpens(j) ==
    /\ At(j, "tar")
    /\ payload' = [payload EXCEPT ![jobs[j].id] = <<"part", j>>]
    /\ IF source[jobs[j].src] = None THEN Leave(j) ELSE Goto(j, "pack")
    /\ UNCHANGED <<setup, source, trash, manifests, index, out, wrote, budget>>
(* ... and two of them on one file may leave a mixture.                         *)
createTarGz(j) ==
    /\ At(j, "pack")
    /\ LET id == jobs[j].id
           shared == \/ payload[id] # <<"part", j>>
                     \/ \E k \in DOMAIN jobs \ {j} : At(k, "pack") /\ jobs[k].id = id
           packed == source[jobs[j].src]
       IN  IF packed = None THEN Leave(j) /\ UNCHANGED payload
           ELSE /\ \E c \in {packed} \cup (IF shared THEN {<<"mixed", j>>} ELSE {}) :
                     payload' = [payload EXCEPT ![id] = c]
                /\ Goto(j, "hash")
    /\ UNCHANGED <<setup, source, trash, manifests, index, out, wrote, budget>>

sha256File(j) ==
    /\ At(j, "hash")
    /\ jobs' = [jobs EXCEPT ![j].at = "manifest", ![j].sha = payload[jobs[j].id]]
    /\ UNCHANGED <<setup, source, trash, payload, manifests, index, out, wrote, budget>>

Written(j, pruned) ==
    {m \in manifests : m.id # jobs[j].id} \cup {[id |-> jobs[j].id, sha |-> jobs[j].sha, pruned |-> pruned]}

writeManifest(j) ==
    /\ \/ At(j, "manifest") /\ manifests' = Written(j, FALSE) /\ Goto(j, "insert")
       \/ At(j, "remanifest") /\ manifests' = Written(j, TRUE) /\ Goto(j, "mark")
    /\ UNCHANGED <<setup, source, trash, payload, index, out, wrote, budget>>

(* The id is the primary key. *)
insert(j) ==
    /\ At(j, "insert")
    /\ IF has(jobs[j].id)
         THEN Leave(j) /\ UNCHANGED index
         ELSE /\ index' = index \cup {[id |-> jobs[j].id, src |-> jobs[j].src, sha |-> jobs[j].sha,
                                       pruned |-> FALSE]}
              /\ IF jobs[j].prune THEN Goto(j, "target") ELSE Leave(j)
    /\ UNCHANGED <<setup, source, trash, payload, manifests, out, wrote, budget>>

FreeNames == {n \in Ids : trash[n] = None}
nextTrashTarget(j) ==
    /\ At(j, "target") /\ FreeNames # {}     \* and what the Trash holds
    /\ jobs' = [jobs EXCEPT ![j].at = "rename", ![j].target = Least(FreeNames)]
    /\ UNCHANGED <<setup, source, trash, payload, manifests, index, out, wrote, budget>>

(* rename does not replace a directory that has got a content in the meantime.  *)
moveSourceToTrash(j) ==
    /\ At(j, "rename")
    /\ LET s == jobs[j].src
           n == jobs[j].target
       IN  IF source[s] # None /\ trash[n] = None
             THEN /\ trash' = [trash EXCEPT ![n] = source[s]] /\ source' = [source EXCEPT ![s] = None]
                  /\ Goto(j, "remanifest")
             ELSE Leave(j) /\ UNCHANGED <<source, trash>>
    /\ UNCHANGED <<setup, payload, manifests, index, out, wrote, budget>>

markPruned(j) ==
    /\ At(j, "mark")
    /\ index' = {IF row.id = jobs[j].id THEN [row EXCEPT !.pruned = TRUE] ELSE row : row \in index}
    /\ Leave(j)
    /\ UNCHANGED <<setup, source, trash, payload, manifests, out, wrote, budget>>

(* ---------------------------------- restore --------------------------------- *)

(* Of an archive whose hash is that of its row. *)
restore(j) ==
    /\ At(j, "idle") /\ Spend("runs")
    /\ \E row \in index, at \in {"back", "aside"} :
         /\ payload[row.id] = row.sha
         /\ jobs' = [jobs EXCEPT ![j] = [Idle EXCEPT !.at = at, !.id = row.id, !.sha = row.sha]]
    /\ UNCHANGED <<setup, source, trash, payload, manifests, index, out, wrote>>

(* tar unpacks over what is there; a mixture is no archive. *)
extractTarGz(j) ==
    /\ jobs[j].at \in {"back", "aside"} /\ Leave(j)
    /\ LET c == payload[jobs[j].id]
           s == Row(jobs[j].id).src
       IN  CASE c[1] \notin Sources -> UNCHANGED <<source, wrote, out>>
             [] c[1] \in Sources /\ At(j, "aside") ->
                  out' = out \cup {<<jobs[j].sha, c>>} /\ UNCHANGED <<source, wrote>>
             [] OTHER -> /\ source' = [source EXCEPT ![s] = c]
                         /\ wrote' = (wrote \ {source[s]}) \cup {c} /\ UNCHANGED out
    /\ UNCHANGED <<setup, trash, payload, manifests, index, budget>>

(* -------------------------------- Surroundings ------------------------------- *)

(* The process dies, or tar, a write or the rename fails: a manifest may be     *)
(* torn, a directory unpacked in part over what was there.                      *)
Fault(j) ==
    /\ ~At(j, "idle") /\ Spend("faults") /\ Leave(j)
    /\ \/ UNCHANGED <<manifests, source, wrote>>
       \/ /\ jobs[j].at \in {"manifest", "remanifest"} /\ UNCHANGED <<source, wrote>>
          /\ manifests' = {m \in manifests : m.id # jobs[j].id}
                          \cup {[id |-> jobs[j].id, sha |-> <<"part", j>>, pruned |-> FALSE]}
       \/ /\ At(j, "back") /\ UNCHANGED manifests
          /\ LET s == Row(jobs[j].id).src
             IN  source' = [source EXCEPT ![s] = <<s, 0>>] /\ wrote' = wrote \ {source[s]}
    /\ UNCHANGED <<setup, trash, payload, index, out>>

(* An agent writes into its directory, or makes it again. *)
Edit(s) ==
    /\ Spend("edits")
    /\ LET c == <<s, 2 + setup.edits - budget.edits>>
       IN  source' = [source EXCEPT ![s] = c] /\ wrote' = (wrote \ {source[s]}) \cup {c}
    /\ UNCHANGED <<setup, trash, payload, manifests, index, jobs, out>>

EmptyTrash ==
    /\ Spend("empties") /\ trash' = [n \in Ids |-> None]
    /\ UNCHANGED <<setup, source, payload, manifests, index, jobs, out, wrote>>

Next ==
    \/ \E j \in DOMAIN jobs :
         \/ archive(j) \/ reserveArchiveId(j) \/ TarOpens(j) \/ createTarGz(j) \/ sha256File(j)
         \/ writeManifest(j) \/ insert(j) \/ nextTrashTarget(j) \/ moveSourceToTrash(j) \/ markPruned(j)
         \/ restore(j) \/ extractTarGz(j) \/ Fault(j)
    \/ \E s \in Sources : Edit(s)
    \/ EmptyTrash

Spec == Init /\ [][Next]_vars

(* --------------------------------- Properties -------------------------------- *)

(* What the user has not replaced is in its directory, in the Trash, or in an   *)
(* archive that can be restored, whatever fails and although commands overlap.  *)
(* An emptied Trash too is made good by the archive, where one command ran at a *)
(* time and nobody wrote between packing and moving (archive, prune).           *)
ContentKept ==
    setup.empties = 0 \/ (setup.jobs = 1 /\ setup.edits = 0) =>
    \A c \in wrote :
        \/ c \in Range(source) \cup Range(trash)
        \/ \E row \in index : row.sha = c /\ payload[row.id] = c

(* With one command at a time, every row leads to the tarball it was written    *)
(* for, a restore unpacks just that, and unless something failed the manifest   *)
(* says what the row says once the command is over (archive, restore).          *)
ArchiveWhole ==
    setup.jobs = 1 =>
      /\ \A row \in index : payload[row.id] = row.sha /\ row.sha[1] = row.src
      /\ \A o \in out : o[1] = o[2]
      /\ budget.faults = setup.faults /\ jobs[1] = Idle =>
           manifests = {[id |-> row.id, sha |-> row.sha, pruned |-> row.pruned] : row \in index}
=============================================================================
