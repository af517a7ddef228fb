----------------------------- MODULE HostProofs -----------------------------
(* Proofs about the programs of MCHost that change an installation, for every   *)
(* setup of theirs: the updater never loses the user's data and reports the     *)
(* outcome that is on the disk; the wiring takes another plugin's memory with   *)
(* consent only and leaves a configuration OpenClaw can load; the migration of  *)
(* the vault and the archives keep what they move; the installer and setup keep *)
(* what the user had and record what they have done.  Each of them has an       *)
(* inductive invariant over the step of the command that runs; which part runs  *)
(* is fixed by the initial state, so the others do not interfere.               *)
EXTENDS MCHost, SequenceTheorems, WellFoundedInduction, TLAPS

(* A behaviour stays with its part, and its steps are steps of that part. *)
LEMMA OnePart ==
    ASSUME [Next]_vars
    PROVE  /\ part' = part
           /\ part = "update" => [U!Next]_(U!vars)
           /\ part = "install" => [I!Next]_(I!vars)
           /\ part = "wiring" => [P!Next]_(P!vars)
           /\ part = "vault" => [V!Next]_(V!vars)
           /\ part = "archive" => [X!Next]_(X!vars)
  <1>1. CASE UNCHANGED vars
    BY <1>1 DEF vars, archiveVars, U!vars, I!vars, I!disk, P!vars, V!vars, X!vars
  <1>2. CASE Next
    BY <1>2 DEF Next, DNext, DStep, LNext, LStep, WNext, WStep, SNext, SStep, UNext, INext, PNext, VNext, XNext
  <1> QED
    BY <1>1, <1>2

-----------------------------------------------------------------------------
(* The updater. *)

Contents == {"none", "old", "new", "part", "bare"}
Steps == {"idle", "backup", "download", "preserve", "remove", "copy", "restore", "version",
          "updated", "npm", "rollback", "forget", "rolledback", "failed"}

UTypeOK ==
    /\ setup \in UpdateSetups
    /\ root \in [U!Items -> Contents] /\ temp \in [U!Items -> Contents]
    /\ backups \in Seq([U!Items -> Contents])
    /\ pc \in Steps /\ cmd \in {"none", "update", "deps", "rollback"} /\ i \in 1..3
    /\ faults \in [copy : Nat, step : Nat, crash : Nat] /\ faults.copy <= setup.copy
    /\ pc \notin {"idle", "rolledback", "failed"} => Len(backups) > 0

(* Which command is at which step. *)
UCommand ==
    /\ pc = "backup" => cmd \in {"update", "deps"}
    /\ pc = "npm" => cmd = "deps"
    /\ pc \in {"download", "preserve", "remove", "copy", "restore", "version"} => cmd = "update"
    /\ pc \in {"rollback", "forget", "rolledback", "failed"} => setup.copy = 0

(* One of the first m backups holds the data. *)
HeldIn(q, m) == \E b \in 1..m : q[b].data = "old"
Held == HeldIn(backups, Len(backups))

(* Where the data is at each step. *)
UWhere ==
    /\ pc \in {"idle", "failed", "rolledback"} \/ (pc = "backup" /\ i = 1) => root.data = "old" \/ Held
    /\ (pc = "backup" /\ i > 1) \/ pc \in {"download", "npm", "version", "updated"}
       \/ (pc = "preserve" /\ i = 1) \/ (pc = "restore" /\ i > 1)
         => Held \/ (faults.copy > 0 /\ root.data = "old")
    /\ (pc = "preserve" /\ i > 1) \/ pc \in {"remove", "copy"} \/ (pc = "restore" /\ i = 1)
         => Held \/ (faults.copy > 0 /\ temp.data = "old")
    /\ pc = "rollback" /\ i = 1 => Held
    /\ (pc = "rollback" /\ i > 1) \/ pc = "forget" => root.data = "old" \/ HeldIn(backups, Len(backups) - 1)

(* The backup being made. *)
UBackup ==
    /\ pc = "backup" => U!Backup.meta = "none" /\ (i = 1 => U!Backup.data = "none")
    /\ cmd = "update" /\ pc \in {"backup", "download", "preserve"} => root.meta = "old"
    /\ cmd = "update" /\ pc \in {"backup", "download", "preserve", "remove", "copy", "restore", "version"}
         => root.meta # "new" /\ temp.meta # "new"
    /\ setup.copy = 0 /\ pc \in {"download", "preserve", "remove", "copy", "restore", "version"}
         => U!Backup.meta = "old"

(* The new version is installed, or backed up, only on top of a backup of  *)
(* the old one.                                                            *)
OnTopOfOld(q, m) == \E a \in 1..m : q[a].meta = "old" /\ HeldIn(q, a)
Layered(q) == \A b \in 1..Len(q) : q[b].meta = "new" => OnTopOfOld(q, b - 1)
UStack ==
    setup.copy = 0 =>
      /\ root.meta = "new" => OnTopOfOld(backups, Len(backups))
      /\ Layered(backups)

Mild == ~setup.daemon /\ (setup.copy = 0 \/ (setup.copy = 1 /\ setup.step = 0 /\ setup.crash = 0 /\ ~setup.undo))
UInv == UTypeOK /\ (Mild => UCommand /\ UWhere /\ UBackup /\ UStack)

(* No copy throws and no process dies. *)
Known == {"old", "new"}
Complete(c) == c.data = "old" /\ c.deps \in Known /\ c.meta \in Known
UClean ==
    /\ \A b \in 1..Len(backups) : pc # "backup" \/ b < Len(backups) => Complete(backups[b])
    /\ pc \in {"idle", "backup", "download", "preserve", "npm", "version", "updated", "failed", "rolledback"}
         => Complete(root)
    /\ pc = "backup" => /\ i > 1 => U!Backup.data = "old"
                        /\ i > 2 => U!Backup.deps \in Known
    /\ pc = "preserve" => /\ i > 1 => temp.data = "old"
                          /\ i > 2 => temp.deps \in Known
    /\ pc \in {"remove", "copy", "restore"} => Complete(temp)
    /\ pc = "restore" /\ i > 1 => root.data = "old"
    /\ pc = "restore" /\ i > 2 => root.deps \in Known
    /\ (pc = "rollback" /\ i > 1) \/ pc = "forget" => root.data = "old"
    /\ (pc = "rollback" /\ i > 2) \/ pc = "forget" => root.deps \in Known
    /\ pc = "forget" => root.meta \in Known
    /\ pc \in {"restore", "version", "updated"} /\ cmd = "update" => root.code = "new"
    /\ pc = "updated" /\ cmd = "update" => root.meta = "new"
CleanInv == setup.copy = 0 /\ ~setup.daemon /\ faults.crash = 0 => UClean

Copies == [U!Items -> Contents]

LEMMA ItemOf ==
    ASSUME i \in 1..3
    PROVE  /\ U!Item \in U!Items
           /\ i = 1 => U!Item = "data"
           /\ i = 2 => U!Item = "deps"
           /\ i = 3 => U!Item = "meta"
  BY DEF U!Item, U!preservePaths, U!Items

(* One item of the last backup is written. *)
LEMMA LastWritten ==
    ASSUME NEW q \in Seq(Copies), Len(q) > 0, NEW p \in U!Items, NEW c \in Contents,
           NEW r, r = [q EXCEPT ![Len(q)][p] = c]
    PROVE  /\ r \in Seq(Copies) /\ Len(r) = Len(q)
           /\ \A b \in 1..Len(q) : b < Len(q) => r[b] = q[b]
           /\ q[Len(q)] \in Copies
           /\ r[Len(q)] = [q[Len(q)] EXCEPT ![p] = c]
  <1>1. Len(q) \in 1..Len(q)
    OBVIOUS
  <1>2. q[Len(q)] \in Copies /\ [q[Len(q)] EXCEPT ![p] = c] \in Copies
    BY <1>1, ElementOfSeq DEF Copies
  <1>3. r = [q EXCEPT ![Len(q)] = [q[Len(q)] EXCEPT ![p] = c]]
    OBVIOUS
  <1>4. /\ r \in Seq(Copies) /\ Len(r) = Len(q)
        /\ \A b \in 1..Len(q) : r[b] = IF b = Len(q) THEN [q[Len(q)] EXCEPT ![p] = c] ELSE q[b]
    BY <1>1, <1>2, <1>3, ExceptSeq
  <1> QED
    BY <1>1, <1>2, <1>4

(* The last backup is forgotten. *)
LEMMA LastRemoved ==
    ASSUME NEW q \in Seq(Copies), Len(q) > 0,
           NEW r, r = SubSeq(q, 1, Len(q) - 1)
    PROVE  /\ r \in Seq(Copies) /\ Len(r) = Len(q) - 1
           /\ \A b \in 1..Len(r) : r[b] = q[b]
  <1>1. Len(q) \in Nat /\ Len(q) - 1 \in Int /\ 1 \in Int
    OBVIOUS
  <1>2. \A b \in 1..Len(q) - 1 : q[b] \in Copies
    BY ElementOfSeq
  <1>3. /\ r \in Seq(Copies)
        /\ Len(r) = IF 1 <= Len(q) - 1 THEN Len(q) - 1 - 1 + 1 ELSE 0
        /\ \A b \in 1 .. Len(q) - 1 - 1 + 1 : r[b] = q[1 + b - 1]
    BY <1>1, <1>2, SubSeqProperties
  <1>4. Len(r) = Len(q) - 1
    <2> DEFINE m == Len(q)
    <2>1. m \in Nat /\ m > 0 /\ Len(r) = IF 1 <= m - 1 THEN m - 1 - 1 + 1 ELSE 0
      BY <1>1, <1>3
    <2> HIDE DEF m
    <2>2. Len(r) = m - 1
      BY <2>1
    <2> QED
      BY <2>2 DEF m
  <1>5. ASSUME NEW b \in 1..Len(r) PROVE r[b] = q[b]
    <2>1. b \in 1 .. Len(q) - 1 - 1 + 1 /\ 1 + b - 1 = b
      BY <1>1, <1>4
    <2> QED
      BY <2>1, <1>3
  <1> QED
    BY <1>3, <1>4, <1>5

(* The updater's steps keep the types. *)
LEMMA UpdateType ==
    ASSUME UTypeOK, [U!Next]_(U!vars)
    PROVE  UTypeOK'
  <1>0. /\ Copies = [U!Items -> Contents]
        /\ setup \in [daemon : BOOLEAN, copy : Nat, step : Nat, crash : Nat, deps : BOOLEAN, undo : BOOLEAN]
        /\ U!Nothing \in Copies
        /\ \A x \in Copies, p \in U!Items, c \in Contents : [x EXCEPT ![p] = c] \in Copies
        /\ \A x \in Copies, p \in U!Items : x[p] \in Contents
        /\ {"code", "data", "deps", "meta"} = U!Items
        /\ {"none", "old", "new", "part", "bare"} = Contents
    BY UpdateSetupsType DEF Copies, U!Nothing, U!Items, Contents, UTypeOK
  <1>f. ASSUME NEW kind \in {"copy", "step", "crash"}, U!Fault(kind)
        PROVE  faults' \in [copy : Nat, step : Nat, crash : Nat] /\ (setup' = setup => faults'.copy <= setup'.copy)
    BY <1>f, <1>0 DEF U!Fault, UTypeOK
  <1>c. U!CopyOk \/ U!CopyThrows => faults' \in [copy : Nat, step : Nat, crash : Nat] /\ (setup' = setup => faults'.copy <= setup'.copy)
    BY <1>f, <1>0 DEF U!CopyOk, U!CopyThrows, UTypeOK
  <1>g. ASSUME NEW p, NEW q, U!Goto(p) \/ U!NextPath(p, q) PROVE i' \in 1..3 /\ pc' \in {p, q}
    BY <1>g DEF U!Goto, U!NextPath, U!preservePaths, UTypeOK
  <1>h. U!Item \in U!Items
    BY ItemOf DEF UTypeOK
  <1>l. ASSUME Len(backups) > 0
        PROVE  /\ backups[Len(backups)] \in Copies
               /\ \A c \in Contents : \A r :
                    r = [backups EXCEPT ![Len(backups)][U!Item] = c] => r \in Seq(Copies) /\ Len(r) = Len(backups)
    <2>1. Len(backups) \in 1..Len(backups) /\ backups \in Seq(Copies)
      BY <1>l, <1>0 DEF UTypeOK
    <2>2. ASSUME NEW c \in Contents, NEW r, r = [backups EXCEPT ![Len(backups)][U!Item] = c]
          PROVE  r \in Seq(Copies) /\ Len(r) = Len(backups)
      BY <2>1, <2>2, <1>l, <1>h, LastWritten
    <2> QED
      BY <2>1, <2>2, ElementOfSeq
  <1> USE DEF UTypeOK, Steps
  <1>1. CASE UNCHANGED U!vars
    BY <1>1 DEF U!vars
  <1>2. CASE U!setChannel
    BY <1>2, <1>0 DEF U!setChannel, U!WithChannel
  <1>a. ASSUME backups' = Append(backups, U!Nothing) PROVE backups' \in Seq(Copies) /\ Len(backups') > 0
    BY <1>a, <1>0, AppendProperties
  <1>3. CASE U!checkForUpdates
    <2>1. root' \in Copies
      BY <1>3, <1>0 DEF U!checkForUpdates, U!WithChannel
    <2>2. CASE U!updateAvailable
      <3>1. /\ pc' = "backup" /\ i' = 1 /\ cmd' = "update" /\ backups' = Append(backups, U!Nothing)
            /\ temp' = U!Nothing /\ UNCHANGED <<setup, faults>>
        BY <2>2, <1>3 DEF U!checkForUpdates, U!getVersionManifest, U!Goto
      <3> QED
        BY <3>1, <2>1, <1>0, <1>a
    <2>3. CASE ~U!updateAvailable
      BY <2>1, <2>3, <1>3, <1>0 DEF U!checkForUpdates, U!getVersionManifest, U!Runs
    <2> QED
      BY <2>2, <2>3
  <1>4. CASE U!update
    BY <1>4, <1>0, <1>a DEF U!update, U!Goto
  <1>5. CASE U!createBackup
    <2>1. PICK c \in Contents : U!ToBackup(c)
      BY <1>5, <1>0, <1>h DEF U!createBackup
    <2>2. backups' \in Seq(Copies) /\ Len(backups') > 0
      BY <1>5, <2>1, <1>l DEF U!createBackup, U!ToBackup
    <2>3. i' \in 1..3 /\ pc' \in {"backup", "npm", "download"}
      BY <1>5, <1>g DEF U!createBackup
    <2> QED
      BY <2>2, <2>3, <1>5, <1>c, <1>0 DEF U!createBackup
  <1>6. CASE U!downloadFile
    BY <1>6 DEF U!downloadFile, U!Goto
  <1>7. CASE U!Preserve
    <2>1. i' \in 1..3 /\ pc' \in {"preserve", "remove"}
      BY <1>7, <1>g DEF U!Preserve
    <2>2. temp' \in Copies
      BY <1>7, <1>0, <1>h DEF U!Preserve
    <2> QED
      BY <1>7, <2>1, <2>2, <1>0, <1>c DEF U!Preserve
  <1>8. CASE U!RemoveOld
    <2>1. root' \in Copies
      BY <1>8, <1>0 DEF U!RemoveOld, U!Nothing
    <2> QED
      BY <1>8, <2>1, <1>0 DEF U!RemoveOld, U!Goto
  <1>9. CASE U!CopyNew
    BY <1>9, <1>0 DEF U!CopyNew, U!Goto
  <1>10. CASE U!RestorePreserved
    <2>1. i' \in 1..3 /\ pc' \in {"restore", "version"}
      BY <1>10, <1>g DEF U!RestorePreserved
    <2>2. root' \in Copies
      BY <1>10, <1>0, <1>h DEF U!RestorePreserved
    <2> QED
      BY <1>10, <2>1, <2>2, <1>0 DEF U!RestorePreserved
  <1>11. CASE U!updateVersionConfig
    BY <1>11, <1>0 DEF U!updateVersionConfig, U!Goto
  <1>12. CASE U!UpdateDone
    BY <1>12, <1>0 DEF U!UpdateDone, U!Goto
  <1>13. CASE U!npmInstall
    BY <1>13, <1>0, <1>f DEF U!npmInstall, U!Goto
  <1>14. CASE U!StepThrows
    <2>1. root' \in Copies
      BY <1>14, <1>0, <1>h DEF U!StepThrows
    <2> QED
      BY <1>14, <2>1, <1>0, <1>f, SMTT(30) DEF U!StepThrows, U!Goto
  <1>15. CASE U!Rollback
    BY <1>15, <1>0, EmptySeq DEF U!Rollback, U!Goto
  <1>16. CASE U!rollbackUpdate
    <2>1. i' \in 1..3 /\ pc' \in {"rollback", "forget"}
      BY <1>16, <1>g DEF U!rollbackUpdate
    <2>2. root' \in Copies
      <3>1. backups[Len(backups)] \in Copies
        BY <1>16, <1>l DEF U!rollbackUpdate
      <3> QED
        BY <3>1, <1>16, <1>0, <1>h DEF U!rollbackUpdate, U!Backup
    <2> QED
      BY <1>16, <2>1, <2>2, <1>0, <1>c DEF U!rollbackUpdate
  <1>17. CASE U!ForgetBackup
    <2>1. backups' \in Seq(Copies)
      BY <1>17, LastRemoved, <1>0 DEF U!ForgetBackup
    <2>2. root' \in Copies
      BY <1>17, <1>0, <1>l DEF U!ForgetBackup, U!Backup
    <2>3. pc' \in {"rolledback", "failed"} /\ i' = 1
      BY <1>17 DEF U!ForgetBackup, U!Goto
    <2> QED
      BY <1>17, <2>1, <2>2, <2>3, <1>0, SMTT(30) DEF U!ForgetBackup
  <1>18. CASE U!RollbackDone
    BY <1>18, <1>0 DEF U!RollbackDone, U!Goto
  <1>19. CASE U!Crash
    <2>1. root' \in Copies
      BY <1>19, <1>0, <1>h DEF U!Crash
    <2>2. backups' \in Seq(Copies)
      BY <1>19, <1>0, <1>l DEF U!Crash
    <2>3. faults' \in [copy : Nat, step : Nat, crash : Nat] /\ faults'.copy <= setup'.copy
      BY <1>19, <1>f DEF U!Crash
    <2>4. pc' = "idle" /\ i' = 1 /\ cmd' = "none" /\ temp' = U!Nothing /\ UNCHANGED setup
      BY <1>19 DEF U!Crash, U!Goto
    <2> QED
      BY <2>1, <2>2, <2>3, <2>4, <1>0
  <1> QED
    BY <1>1, <1>2, <1>3, <1>4, <1>5, <1>6, <1>7, <1>8, <1>9, <1>10, <1>11, <1>12, <1>13, <1>14,
       <1>15, <1>16, <1>17, <1>18, <1>19 DEF U!Next

(* What holds of the first m backups holds of any list that begins with them. *)
LEMMA SameBelow ==
    ASSUME NEW q, NEW r, NEW m \in Nat, NEW n \in Nat, m <= n,
           \A b \in 1..m : r[b] = q[b]
    PROVE  /\ HeldIn(q, m) => HeldIn(r, n)
           /\ OnTopOfOld(q, m) => OnTopOfOld(r, n)
           /\ \A b \in 1..m : OnTopOfOld(q, b - 1) => OnTopOfOld(r, b - 1)
  <1>1. ASSUME NEW x \in 0..m, NEW y \in Nat, x <= y PROVE HeldIn(q, x) => HeldIn(r, y)
    BY <1>1 DEF HeldIn
  <1>2. ASSUME NEW x \in 0..m, NEW y \in Nat, x <= y, OnTopOfOld(q, x) PROVE OnTopOfOld(r, y)
    <2>1. PICK a \in 1..x : q[a].meta = "old" /\ HeldIn(q, a)
      BY <1>2 DEF OnTopOfOld
    <2>2. a \in 1..m /\ a \in 0..m /\ a \in Nat /\ a \in 1..y
      BY <1>2
    <2>3. r[a].meta = "old" /\ HeldIn(r, a)
      BY <2>1, <2>2, <1>1
    <2> QED
      BY <2>2, <2>3 DEF OnTopOfOld
  <1>3. HeldIn(q, m) => HeldIn(r, n)
    BY <1>1
  <1>4. OnTopOfOld(q, m) => OnTopOfOld(r, n)
    BY <1>2
  <1>5. ASSUME NEW b \in 1..m PROVE OnTopOfOld(q, b - 1) => OnTopOfOld(r, b - 1)
    <2>1. b - 1 \in 0..m /\ b - 1 \in Nat
      OBVIOUS
    <2> QED
      BY <2>1, <1>2
  <1> QED
    BY <1>3, <1>4, <1>5

LEMMA Appended ==
    ASSUME NEW q \in Seq(Copies), NEW r, r = Append(q, U!Nothing)
    PROVE  /\ Len(r) = Len(q) + 1 /\ r[Len(r)] = U!Nothing /\ \A b \in 1..Len(q) : r[b] = q[b]
           /\ HeldIn(q, Len(q)) => HeldIn(r, Len(r))
           /\ OnTopOfOld(q, Len(q)) => OnTopOfOld(r, Len(r))
           /\ Layered(q) => Layered(r)
  <1>1. U!Nothing \in Copies /\ U!Nothing.meta = "none"
    BY DEF Copies, U!Nothing, U!Items, Contents
  <1>2. /\ Len(r) = Len(q) + 1 /\ r[Len(r)] = U!Nothing /\ Len(q) \in Nat
        /\ \A b \in 1..Len(q) : r[b] = q[b]
    BY <1>1, AppendProperties
  <1>m. Len(q) \in Nat /\ Len(r) \in Nat /\ Len(q) <= Len(r)
    BY <1>2
  <1>s. /\ HeldIn(q, Len(q)) => HeldIn(r, Len(r))
        /\ OnTopOfOld(q, Len(q)) => OnTopOfOld(r, Len(r))
        /\ \A b \in 1..Len(q) : OnTopOfOld(q, b - 1) => OnTopOfOld(r, b - 1)
    BY <1>2, <1>m, SameBelow
  <1>3. Layered(q) => Layered(r)
    <2>1. ASSUME NEW b \in 1..Len(r), r[b].meta = "new" PROVE b \in 1..Len(q) /\ q[b].meta = "new"
      BY <1>1, <1>2, <2>1
    <2> QED
      BY <2>1, <1>s DEF Layered
  <1> QED
    BY <1>2, <1>3, <1>s

LEMMA Written ==
    ASSUME NEW q, NEW r, NEW m \in Nat, m > 0, Len(q) = m, Len(r) = m,
           \A b \in 1..m : b < m => r[b] = q[b],
           q[m].meta = "none", q[m].data = "old" => r[m].data = "old"
    PROVE  /\ HeldIn(q, m) \/ r[m].data = "old" => HeldIn(r, m)
           /\ OnTopOfOld(q, m) => OnTopOfOld(r, m)
           /\ Layered(q) /\ (r[m].meta = "new" => OnTopOfOld(q, m)) => Layered(r)
  <1>1. PICK k \in Nat : k = m - 1
    OBVIOUS
  <1>2. /\ k <= m /\ k <= k /\ m \in 1..m /\ \A b \in 1..k : r[b] = q[b]
        /\ \A b \in 1..m : b = m \/ b \in 1..k
    BY <1>1
  <1>3. HeldIn(q, m) \/ r[m].data = "old" => HeldIn(r, m)
    BY <1>2 DEF HeldIn
  <1>4. OnTopOfOld(q, m) => OnTopOfOld(q, k)
    <2>1. ASSUME NEW a \in 1..m, q[a].meta = "old" PROVE a \in 1..k
      BY <2>1, <1>2
    <2> QED
      BY <2>1 DEF OnTopOfOld
  <1>5. /\ OnTopOfOld(q, k) => OnTopOfOld(r, m) /\ OnTopOfOld(r, k)
        /\ \A b \in 1..k : OnTopOfOld(q, b - 1) => OnTopOfOld(r, b - 1)
    BY <1>2, SameBelow
  <1>6. ASSUME Layered(q), r[m].meta = "new" => OnTopOfOld(q, m), NEW b \in 1..m, r[b].meta = "new"
        PROVE  OnTopOfOld(r, b - 1)
    <2>1. CASE b = m
      BY <2>1, <1>1, <1>4, <1>5, <1>6
    <2>2. CASE b \in 1..k
      <3>1. q[b].meta = "new" /\ b \in 1..Len(q)
        BY <2>2, <1>2, <1>6
      <3> QED
        BY <3>1, <2>2, <1>5, <1>6 DEF Layered
    <2> QED
      BY <2>1, <2>2, <1>2
  <1>7. Layered(q) /\ (r[m].meta = "new" => OnTopOfOld(q, m)) => Layered(r)
    BY <1>6 DEF Layered
  <1> QED
    BY <1>3, <1>4, <1>5, <1>7

LEMMA Forgotten ==
    ASSUME NEW q \in Seq(Copies), Len(q) > 0, NEW r, r = SubSeq(q, 1, Len(q) - 1)
    PROVE  /\ HeldIn(q, Len(q) - 1) => HeldIn(r, Len(r))
           /\ OnTopOfOld(q, Len(q) - 1) => OnTopOfOld(r, Len(r))
           /\ Layered(q) => Layered(r)
  <1>0. Len(q) \in Nat
    OBVIOUS
  <1>1. Len(r) = Len(q) - 1 /\ \A b \in 1..Len(r) : r[b] = q[b]
    BY LastRemoved
  <1>2. Len(r) \in Nat /\ Len(r) <= Len(r)
    BY <1>0, <1>1
  <1>s. /\ HeldIn(q, Len(r)) => HeldIn(r, Len(r))
        /\ OnTopOfOld(q, Len(r)) => OnTopOfOld(r, Len(r))
        /\ \A b \in 1..Len(r) : OnTopOfOld(q, b - 1) => OnTopOfOld(r, b - 1)
    BY <1>1, <1>2, SameBelow, ZenonT(60)
  <1>3. Layered(q) => Layered(r)
    <2>1. ASSUME NEW b \in 1..Len(r) PROVE b \in 1..Len(q) /\ r[b] = q[b]
      BY <1>0, <1>1
    <2> QED
      BY <2>1, <1>s DEF Layered
  <1> QED
    BY <1>1, <1>3, <1>s

UKept == UCommand /\ UWhere /\ UBackup /\ UStack

(* Every step keeps a copy of the data, unless a copy fails beside other faults. *)
LEMMA UpdateKeptStep ==
    ASSUME UTypeOK, UTypeOK', Mild, UKept, [U!Next]_(U!vars)
    PROVE  UKept'
  <1>0. /\ backups \in Seq(Copies) /\ Len(backups) \in Nat /\ root \in Copies /\ temp \in Copies
        /\ backups' \in Seq(Copies) /\ root' \in Copies /\ temp' \in Copies
        /\ i \in 1..3 /\ pc \in Steps
        /\ faults \in [copy : Nat, step : Nat, crash : Nat] /\ faults.copy <= setup.copy
        /\ setup \in [daemon : BOOLEAN, copy : Nat, step : Nat, crash : Nat, deps : BOOLEAN, undo : BOOLEAN]
        /\ pc \notin {"idle", "rolledback", "failed"} => Len(backups) > 0
        /\ U!Nothing \in Copies /\ U!Nothing.data = "none" /\ U!Nothing.meta = "none"
    BY UpdateSetupsType DEF UTypeOK, Copies, U!Nothing, U!Items, Contents
  <1>i. /\ U!Item \in U!Items
        /\ U!Item = "data" <=> i = 1
        /\ U!Item = "meta" <=> i = 3
        /\ \A x \in Copies : x[U!Item] \in Contents
        /\ \A x \in Copies : \A c : [x EXCEPT ![U!Item] = c].data = IF i = 1 THEN c ELSE x.data
        /\ \A x \in Copies : \A c : [x EXCEPT ![U!Item] = c].meta = IF i = 3 THEN c ELSE x.meta
    BY <1>0, ItemOf DEF Copies, U!Items
  <1>r. \A x \in Copies : \A c : /\ [x EXCEPT !.meta = c].data = x.data /\ [x EXCEPT !.meta = c].meta = c
                                 /\ [x EXCEPT !.code = c].data = x.data /\ [x EXCEPT !.code = c].meta = x.meta
                                 /\ [x EXCEPT !.deps = c].data = x.data /\ [x EXCEPT !.deps = c].meta = x.meta
    BY DEF Copies, U!Items
  <1>n. ASSUME NEW p, NEW q, U!NextPath(p, q)
        PROVE  (i < 3 => pc' = p /\ i' = i + 1) /\ (i = 3 => pc' = q /\ i' = 1)
    BY <1>n, <1>0 DEF U!NextPath, U!Goto, U!preservePaths
  <1>c. U!CopyOk => UNCHANGED faults
    BY DEF U!CopyOk
  <1>t. U!CopyThrows => setup.copy = 1 /\ faults.copy = 0 /\ faults'.copy = 1
    BY <1>0 DEF U!CopyThrows, U!Fault, Mild
  <1>f. U!Fault("step") \/ U!Fault("crash") => setup.copy = 0 /\ faults.copy = 0 /\ faults'.copy = 0
    BY <1>0 DEF U!Fault, Mild
  <1>a. ASSUME backups' = Append(backups, U!Nothing)
        PROVE  /\ Len(backups') = Len(backups) + 1 /\ backups'[Len(backups')] = U!Nothing
               /\ HeldIn(backups, Len(backups)) => HeldIn(backups', Len(backups'))
               /\ OnTopOfOld(backups, Len(backups)) => OnTopOfOld(backups', Len(backups'))
               /\ Layered(backups) => Layered(backups')
    BY <1>0, <1>a, Appended
  <1>w. ASSUME Len(backups) > 0, NEW c \in Contents, backups' = [backups EXCEPT ![Len(backups)][U!Item] = c],
               backups[Len(backups)].meta = "none", i = 1 => backups[Len(backups)].data = "none"
        PROVE  /\ Len(backups') = Len(backups)
               /\ backups'[Len(backups')].meta = IF i = 3 THEN c ELSE "none"
               /\ HeldIn(backups, Len(backups)) => HeldIn(backups', Len(backups'))
               /\ i = 1 /\ c = "old" => HeldIn(backups', Len(backups'))
               /\ OnTopOfOld(backups, Len(backups)) => OnTopOfOld(backups', Len(backups'))
               /\ Layered(backups) /\ (i = 3 /\ c = "new" => OnTopOfOld(backups, Len(backups))) => Layered(backups')
    <2>0. backups \in Seq(Copies) /\ U!Item \in U!Items
      BY <1>0, <1>i
    <2>1. /\ Len(backups') = Len(backups) /\ backups[Len(backups)] \in Copies
          /\ backups'[Len(backups)] = [backups[Len(backups)] EXCEPT ![U!Item] = c]
      BY <2>0, <1>w, LastWritten
    <2>2. PICK m \in Nat : m = Len(backups) /\ m > 0
      BY <2>0, <1>w
    <2>3. /\ Len(backups) = m /\ Len(backups') = m /\ \A b \in 1..m : b < m => backups'[b] = backups[b]
      BY <2>0, <2>2, <1>w, LastWritten
    <2>4. /\ backups'[m].data = IF i = 1 THEN c ELSE backups[m].data
          /\ backups'[m].meta = IF i = 3 THEN c ELSE backups[m].meta
      BY <2>0, <2>1, <2>2, <1>i DEF Copies, U!Items
    <2>5. /\ HeldIn(backups, m) \/ backups'[m].data = "old" => HeldIn(backups', m)
          /\ OnTopOfOld(backups, m) => OnTopOfOld(backups', m)
          /\ Layered(backups) /\ (backups'[m].meta = "new" => OnTopOfOld(backups, m)) => Layered(backups')
      <3>1. backups[m].meta = "none" /\ (backups[m].data = "old" => backups'[m].data = "old")
        BY <2>2, <2>4, <1>w
      <3> QED
        BY <2>2, <2>3, <3>1, Written
    <2> QED
      BY <2>2, <2>3, <2>4, <2>5, <1>w
  <1> USE DEF UKept, UCommand, UWhere, UBackup, UStack, Held, U!Backup, Steps
  <1>1. CASE UNCHANGED U!vars
    BY <1>1 DEF U!vars
  <1>2. CASE U!setChannel
    BY <1>2, <1>0, <1>r DEF U!setChannel, U!WithChannel, U!Runs
  <1>3. CASE U!checkForUpdates
    <2>1. CASE U!updateAvailable
      <3>1. /\ pc' = "backup" /\ i' = 1 /\ cmd' = "update" /\ backups' = Append(backups, U!Nothing)
            /\ temp' = U!Nothing /\ UNCHANGED <<setup, faults>> /\ pc = "idle" /\ root.meta = "old"
            /\ root'.data = root.data /\ root'.meta = "old"
        BY <2>1, <1>3, <1>0, <1>r DEF U!checkForUpdates, U!getVersionManifest, U!Goto, U!Runs, U!updateAvailable, U!WithChannel
      <3> QED
        BY <3>1, <1>0, <1>a
    <2>2. CASE ~U!updateAvailable
      <3>1. /\ pc' = "idle" /\ pc = "idle" /\ UNCHANGED <<i, cmd, backups, setup, faults>>
            /\ temp' = U!Nothing /\ root'.data = root.data /\ (root'.meta = "new" => root.meta = "new")
        BY <2>2, <1>3, <1>0, <1>r DEF U!checkForUpdates, U!getVersionManifest, U!Goto, U!Runs, U!WithChannel
      <3> QED
        BY <3>1, <1>0
    <2> QED
      BY <2>1, <2>2
  <1>4. CASE U!update
    <2>1. /\ pc' = "backup" /\ i' = 1 /\ cmd' = "deps" /\ backups' = Append(backups, U!Nothing)
          /\ temp' = U!Nothing /\ UNCHANGED <<root, setup, faults>> /\ pc = "idle"
      BY <1>4 DEF U!update, U!Goto, U!Runs
    <2> QED
      BY <2>1, <1>0, <1>a
  <1>5. CASE U!createBackup
    <2>1. PICK c \in Contents :
            /\ backups' = [backups EXCEPT ![Len(backups)][U!Item] = c]
            /\ \/ UNCHANGED faults /\ c = root[U!Item]
               \/ setup.copy = 1 /\ faults.copy = 0 /\ faults'.copy = 1 /\ root[U!Item] # "none"
      BY <1>5, <1>0, <1>i, <1>c, <1>t DEF U!createBackup, U!ToBackup, Contents
    <2>2. /\ pc = "backup" /\ UNCHANGED <<setup, root, temp, cmd>> /\ cmd \in {"update", "deps"}
          /\ i < 3 => pc' = "backup" /\ i' = i + 1
          /\ i = 3 => pc' = (IF cmd = "deps" THEN "npm" ELSE "download") /\ i' = 1
      BY <1>5, <1>n DEF U!createBackup
    <2>3. /\ Len(backups') = Len(backups) /\ Len(backups) > 0
          /\ backups'[Len(backups')].meta = IF i = 3 THEN c ELSE "none"
          /\ HeldIn(backups, Len(backups)) => HeldIn(backups', Len(backups'))
          /\ i = 1 /\ c = "old" => HeldIn(backups', Len(backups'))
          /\ OnTopOfOld(backups, Len(backups)) => OnTopOfOld(backups', Len(backups'))
          /\ Layered(backups) /\ (i = 3 /\ c = "new" => OnTopOfOld(backups, Len(backups))) => Layered(backups')
      BY <2>1, <2>2, <1>0, <1>w
    <2>4. i = 1 => root[U!Item] = root.data
      BY <1>i
    <2>5. i = 3 => root[U!Item] = root.meta
      BY <1>i
    <2> QED
      BY <2>1, <2>2, <2>3, <2>4, <2>5, <1>0
  <1>6. CASE U!downloadFile
    BY <1>6 DEF U!downloadFile, U!Goto
  <1>7. CASE U!Preserve
    <2>1. /\ pc = "preserve" /\ UNCHANGED <<setup, root, backups, cmd>>
          /\ i < 3 => pc' = "preserve" /\ i' = i + 1
          /\ i = 3 => pc' = "remove" /\ i' = 1
      BY <1>7, <1>n DEF U!Preserve
    <2>2. \/ UNCHANGED faults /\ temp'.data = (IF i = 1 THEN root.data ELSE temp.data)
             /\ temp'.meta = (IF i = 3 THEN root.meta ELSE temp.meta)
          \/ setup.copy = 1 /\ faults.copy = 0 /\ faults'.copy = 1 /\ UNCHANGED temp
      BY <1>7, <1>0, <1>i, <1>c, <1>t DEF U!Preserve, Copies, U!Items
    <2> QED
      BY <2>1, <2>2, <1>0
  <1>8. CASE U!RemoveOld
    BY <1>8, <1>0 DEF U!RemoveOld, U!Goto, U!Items, Copies
  <1>9. CASE U!CopyNew
    BY <1>9, <1>0, <1>r DEF U!CopyNew, U!Goto
  <1>10. CASE U!RestorePreserved
    <2>1. /\ pc = "restore" /\ UNCHANGED <<setup, backups, temp, cmd, faults>>
          /\ i < 3 => pc' = "restore" /\ i' = i + 1
          /\ i = 3 => pc' = "version" /\ i' = 1
      BY <1>10, <1>n DEF U!RestorePreserved
    <2>2. /\ root'.data = IF i = 1 /\ temp.data # "none" THEN temp.data ELSE root.data
          /\ root'.meta = IF i = 3 /\ temp.meta # "none" THEN temp.meta ELSE root.meta
      BY <1>10, <1>0, <1>i DEF U!RestorePreserved, Copies, U!Items
    <2> QED
      BY <2>1, <2>2, <1>0
  <1>11. CASE U!updateVersionConfig
    BY <1>11, <1>0, <1>r DEF U!updateVersionConfig, U!Goto, OnTopOfOld
  <1>12. CASE U!UpdateDone
    BY <1>12, <1>0 DEF U!UpdateDone, U!Goto
  <1>13. CASE U!npmInstall
    <2>1. /\ pc = "npm" /\ i' = 1 /\ UNCHANGED <<setup, backups, temp, cmd>>
          /\ root'.data = root.data /\ root'.meta = root.meta
          /\ \/ pc' = "updated" /\ UNCHANGED faults
             \/ pc' = "rollback" /\ setup.copy = 0 /\ faults.copy = 0
      BY <1>13, <1>0, <1>f DEF U!npmInstall, U!Goto, Copies, U!Items
    <2> QED
      BY <2>1, <1>0
  <1>14. CASE U!StepThrows
    BY <1>14, <1>0, <1>i, <1>r, <1>f DEF U!StepThrows, U!Goto
  <1>15. CASE U!Rollback
    BY <1>15, <1>0 DEF U!Rollback, U!Goto, U!Runs, OnTopOfOld, HeldIn, Mild
  <1>16. CASE U!rollbackUpdate
    <2>1. /\ pc = "rollback" /\ UNCHANGED <<setup, backups, temp, cmd>> /\ setup.copy = 0 /\ Len(backups) > 0
          /\ i < 3 => pc' = "rollback" /\ i' = i + 1
          /\ i = 3 => pc' = "forget" /\ i' = 1
      BY <1>16, <1>n, <1>0 DEF U!rollbackUpdate
    <2>2. backups[Len(backups)] \in Copies
      BY <1>0, <2>1, ElementOfSeq
    <2>3. /\ UNCHANGED faults
          /\ root'.data = IF i = 1 /\ U!Backup.data # "none" THEN U!Backup.data ELSE root.data
          /\ root'.meta = IF i = 3 /\ U!Backup.meta # "none" THEN U!Backup.meta ELSE root.meta
      <3>1. ~U!CopyThrows
        BY <2>1, <1>t
      <3>2. UNCHANGED faults /\ root' = IF U!Backup[U!Item] # "none" THEN [root EXCEPT ![U!Item] = U!Backup[U!Item]] ELSE root
        BY <3>1, <1>16, <1>c DEF U!rollbackUpdate
      <3> QED
        BY <3>2, <1>0, <1>i DEF Copies, U!Items
    <2>4. i = 1 => U!Backup.data = "old" \/ HeldIn(backups, Len(backups) - 1)
      BY <2>1, <1>0 DEF HeldIn
    <2>5. i = 3 /\ U!Backup.meta = "new" => OnTopOfOld(backups, Len(backups))
      <3>1. U!Backup.meta = "new" => OnTopOfOld(backups, Len(backups) - 1)
        BY <2>1, <1>0 DEF Layered
      <3> QED
        BY <3>1, <2>1, <1>0 DEF OnTopOfOld
    <2> HIDE DEF U!Backup
    <2>6. UStack'
      BY <2>1, <2>3, <2>5, <1>0
    <2>7. UCommand'
      BY <2>1, <2>3, <1>0
    <2>8. UBackup'
      BY <2>1, <2>3, <1>0
    <2>9. UWhere'
      BY <2>1, <2>3, <2>4, <1>0
    <2> QED
      BY <2>6, <2>7, <2>8, <2>9
  <1>17. CASE U!ForgetBackup
    <2>1. /\ pc = "forget" /\ setup.copy = 0 /\ Len(backups) > 0 /\ pc' \in {"rolledback", "failed"}
          /\ UNCHANGED <<setup, temp, cmd, faults>> /\ root'.data = root.data
          /\ root'.meta = IF U!Backup.meta \in {"old", "new"} THEN U!Backup.meta ELSE root.meta
      BY <1>17, <1>0, <1>r DEF U!ForgetBackup, U!Goto
    <2>2. /\ HeldIn(backups, Len(backups) - 1) => HeldIn(backups', Len(backups'))
          /\ OnTopOfOld(backups, Len(backups) - 1) => OnTopOfOld(backups', Len(backups'))
          /\ Layered(backups) => Layered(backups')
      BY <1>17, <1>0, <2>1, Forgotten DEF U!ForgetBackup
    <2>3. root'.meta = "new" => OnTopOfOld(backups, Len(backups) - 1)
      <3>1. CASE U!Backup.meta = "new"
        BY <3>1, <2>1, <1>0 DEF Layered
      <3>2. CASE U!Backup.meta # "new" /\ U!Backup.meta # "old"
        BY <3>2, <2>1, <1>0 DEF OnTopOfOld
      <3> QED
        BY <3>1, <3>2, <2>1
    <2> QED
      BY <2>1, <2>2, <2>3, <1>0
  <1>18. CASE U!RollbackDone
    BY <1>18, <1>0 DEF U!RollbackDone, U!Goto
  <1>19. CASE U!Crash
    <2>1. /\ pc # "idle" /\ pc' = "idle" /\ cmd' = "none" /\ UNCHANGED setup /\ setup.copy = 0 /\ faults.copy = 0
      BY <1>19, <1>f DEF U!Crash, U!Goto
    <2>2. root'.data = "old" \/ HeldIn(backups, Len(backups))
      BY <1>19, <2>1, <1>0, <1>i, <1>r DEF U!Crash, HeldIn
    <2>3. root'.meta = "new" => OnTopOfOld(backups, Len(backups))
      BY <1>19, <2>1, <1>0, <1>i, <1>r DEF U!Crash
    <2>4. /\ HeldIn(backups, Len(backups)) => HeldIn(backups', Len(backups'))
          /\ OnTopOfOld(backups, Len(backups)) => OnTopOfOld(backups', Len(backups'))
          /\ Layered(backups')
      <3>1. CASE pc = "backup" /\ root[U!Item] # "none"
        <4>1. backups' = [backups EXCEPT ![Len(backups)][U!Item] = "part"] /\ "part" \in Contents
          BY <3>1, <1>19 DEF U!Crash, Contents
        <4> QED
          BY <4>1, <3>1, <2>1, <1>0, <1>w
      <3>2. CASE ~(pc = "backup" /\ root[U!Item] # "none")
        BY <3>2, <1>19, <2>1 DEF U!Crash
      <3> QED
        BY <3>1, <3>2
    <2> QED
      BY <2>1, <2>2, <2>3, <2>4, <1>0
  <1> QED
    BY <1>1, <1>2, <1>3, <1>4, <1>5, <1>6, <1>7, <1>8, <1>9, <1>10, <1>11, <1>12, <1>13, <1>14,
       <1>15, <1>16, <1>17, <1>18, <1>19 DEF U!Next

(* Without a copy that throws and without a crash every command keeps its copies complete. *)
LEMMA UpdateCleanStep ==
    ASSUME UTypeOK, UTypeOK', Mild, UCommand, setup.copy = 0, faults.crash = 0, faults'.crash = 0,
           UClean, [U!Next]_(U!vars)
    PROVE  UClean'
  <1>0. /\ backups \in Seq(Copies) /\ Len(backups) \in Nat /\ root \in Copies /\ temp \in Copies
        /\ backups' \in Seq(Copies) /\ root' \in Copies /\ temp' \in Copies
        /\ i \in 1..3 /\ pc \in Steps
        /\ pc \notin {"idle", "rolledback", "failed"} => Len(backups) > 0
        /\ Len(backups) > 0 => backups[Len(backups)] \in Copies
    BY ElementOfSeq DEF UTypeOK, Copies
  <1>i. /\ U!Item \in U!Items
        /\ U!Item = "data" <=> i = 1
        /\ U!Item = "deps" <=> i = 2
        /\ U!Item = "meta" <=> i = 3
    BY <1>0, ItemOf
  <1>n. ASSUME NEW p, NEW q, U!NextPath(p, q)
        PROVE  (i < 3 => pc' = p /\ i' = i + 1) /\ (i = 3 => pc' = q /\ i' = 1)
    BY <1>n, <1>0 DEF U!NextPath, U!Goto, U!preservePaths
  <1>t. ~U!CopyThrows
    BY <1>0 DEF U!CopyThrows, U!Fault, Mild, UTypeOK
  <1>b. ASSUME \A b \in 1..Len(backups) : Complete(backups[b]), Len(backups) > 0
        PROVE  Complete(U!Backup)
    BY <1>b, <1>0 DEF U!Backup
  <1> USE DEF UCommand, UClean, Steps
  <1>1. CASE UNCHANGED U!vars
    BY <1>1 DEF U!vars, U!Backup
  <1>2. CASE U!setChannel
    BY <1>2, <1>0 DEF U!setChannel, U!Runs, Complete, Known
  <1>a. ASSUME pc = "idle", pc' = "backup", i' = 1, backups' = Append(backups, U!Nothing), Complete(root')
        PROVE  UClean'
    <2>1. /\ Len(backups') = Len(backups) + 1
          /\ \A b \in 1..Len(backups) : backups'[b] = backups[b]
      BY <1>a, <1>0, Appended
    <2> QED
      BY <2>1, <1>a, <1>0
  <1>3. CASE U!checkForUpdates
    <2>1. Complete(root')
      BY <1>3, <1>0 DEF U!checkForUpdates, U!WithChannel, U!Runs, Complete, Known, Copies, U!Items
    <2>2. CASE U!updateAvailable
      BY <2>1, <2>2, <1>3, <1>a DEF U!checkForUpdates, U!Goto, U!Runs
    <2>3. CASE ~U!updateAvailable
      BY <2>1, <2>3, <1>3, <1>0 DEF U!checkForUpdates, U!Runs
    <2> QED
      BY <2>2, <2>3
  <1>4. CASE U!update
    BY <1>4, <1>a DEF U!update, U!Goto, U!Runs
  <1>5. CASE U!createBackup
    <2>1. /\ pc = "backup" /\ UNCHANGED <<setup, root, temp, cmd>> /\ cmd \in {"update", "deps"}
          /\ i < 3 => pc' = "backup" /\ i' = i + 1
          /\ i = 3 => pc' \in {"npm", "download"} /\ i' = 1
          /\ backups' = [backups EXCEPT ![Len(backups)][U!Item] = root[U!Item]]
      BY <1>5, <1>n, <1>t DEF U!createBackup, U!ToBackup
    <2>2. root[U!Item] \in Contents
      BY <1>0, <1>i DEF Copies
    <2>3. PICK m \in Nat : m = Len(backups) /\ m > 0
      BY <2>1, <1>0
    <2>4. /\ Len(backups') = m /\ \A b \in 1..m : b < m => backups'[b] = backups[b]
          /\ backups'[m] = [backups[m] EXCEPT ![U!Item] = root[U!Item]] /\ backups[m] \in Copies
      BY <2>1, <2>2, <2>3, <1>0, <1>i, LastWritten
    <2>5. /\ i = 1 => backups'[m].data = "old"
          /\ i > 1 => backups'[m].data = backups[m].data
          /\ i = 2 => backups'[m].deps \in Known
          /\ i > 2 => backups'[m].deps = backups[m].deps
          /\ i = 3 => backups'[m].meta \in Known
      BY <2>1, <2>4, <1>0, <1>i DEF Copies, U!Items, Complete
    <2>6. i = 3 => Complete(backups'[m])
      BY <2>1, <2>3, <2>5 DEF Complete, U!Backup
    <2>7. \A b \in 1..m : b < m \/ pc' # "backup" => Complete(backups'[b])
      BY <2>1, <2>3, <2>4, <2>6, <1>0
    <2>8. pc' = "backup" => /\ i' > 1 => backups'[m].data = "old"
                            /\ i' > 2 => backups'[m].deps \in Known
      BY <2>1, <2>3, <2>5, <1>0 DEF U!Backup
    <2> QED
      BY <2>1, <2>3, <2>4, <2>7, <2>8, <1>0 DEF U!Backup
  <1>6. CASE U!downloadFile
    BY <1>6 DEF U!downloadFile, U!Goto
  <1>7. CASE U!Preserve
    <2>1. /\ pc = "preserve" /\ UNCHANGED <<setup, root, backups, cmd>>
          /\ i < 3 => pc' = "preserve" /\ i' = i + 1
          /\ i = 3 => pc' = "remove" /\ i' = 1
          /\ temp' = [temp EXCEPT ![U!Item] = root[U!Item]]
      BY <1>7, <1>n, <1>t DEF U!Preserve
    <2>2. /\ i = 1 => temp'.data = root.data
          /\ i > 1 => temp'.data = temp.data
          /\ i = 2 => temp'.deps = root.deps
          /\ i > 2 => temp'.deps = temp.deps
          /\ i = 3 => temp'.meta = root.meta
      BY <2>1, <1>0, <1>i DEF Copies, U!Items
    <2> QED
      BY <2>1, <2>2, <1>0 DEF Complete
  <1>8. CASE U!RemoveOld
    BY <1>8, <1>0 DEF U!RemoveOld, U!Goto
  <1>9. CASE U!CopyNew
    BY <1>9, <1>0 DEF U!CopyNew, U!Goto, Copies, U!Items
  <1>10. CASE U!RestorePreserved
    <2>1. /\ pc = "restore" /\ UNCHANGED <<setup, backups, temp, cmd, faults>> /\ cmd = "update"
          /\ i < 3 => pc' = "restore" /\ i' = i + 1
          /\ i = 3 => pc' = "version" /\ i' = 1
      BY <1>10, <1>n DEF U!RestorePreserved
    <2>2. temp[U!Item] # "none" /\ root' = [root EXCEPT ![U!Item] = temp[U!Item]]
      BY <1>10, <2>1, <1>0, <1>i DEF U!RestorePreserved, Complete, Known, U!Items, Copies
    <2>3. /\ i = 1 => root'.data = temp.data
          /\ i > 1 => root'.data = root.data
          /\ i = 2 => root'.deps = temp.deps
          /\ i > 2 => root'.deps = root.deps
          /\ i = 3 => root'.meta = temp.meta
          /\ root'.code = root.code
      BY <2>2, <1>0, <1>i DEF Copies, U!Items
    <2> QED
      BY <2>1, <2>3, <1>0 DEF Complete
  <1>11. CASE U!updateVersionConfig
    BY <1>11, <1>0 DEF U!updateVersionConfig, U!Goto, Complete, Known, Copies, U!Items
  <1>12. CASE U!UpdateDone
    BY <1>12, <1>0 DEF U!UpdateDone, U!Goto
  <1>13. CASE U!npmInstall
    BY <1>13, <1>0 DEF U!npmInstall, U!Goto, Complete, Known, Copies, U!Items
  <1>14. CASE U!StepThrows
    BY <1>14, <1>0 DEF U!StepThrows, U!Goto
  <1>15. CASE U!Rollback
    BY <1>15, <1>0 DEF U!Rollback, U!Goto, U!Runs
  <1>16. CASE U!rollbackUpdate
    <2>1. /\ pc = "rollback" /\ UNCHANGED <<setup, backups, temp, cmd>> /\ Len(backups) > 0
          /\ i < 3 => pc' = "rollback" /\ i' = i + 1
          /\ i = 3 => pc' = "forget" /\ i' = 1
          /\ root' = IF U!Backup[U!Item] # "none" THEN [root EXCEPT ![U!Item] = U!Backup[U!Item]] ELSE root
      BY <1>16, <1>n, <1>t, <1>0 DEF U!rollbackUpdate
    <2>2. Complete(U!Backup) /\ U!Backup \in Copies
      BY <2>1, <1>b, <1>0 DEF U!Backup
    <2>3. root' = [root EXCEPT ![U!Item] = U!Backup[U!Item]]
      BY <2>1, <2>2, <1>i, <1>0 DEF Complete, Known
    <2>4. /\ i = 1 => root'.data = "old"
          /\ i > 1 => root'.data = root.data
          /\ i = 2 => root'.deps \in Known
          /\ i > 2 => root'.deps = root.deps
          /\ i = 3 => root'.meta \in Known
      BY <2>2, <2>3, <1>0, <1>i DEF Copies, U!Items, Complete
    <2> QED
      BY <2>1, <2>4, <1>0
  <1>17. CASE U!ForgetBackup
    <2>1. /\ pc = "forget" /\ Len(backups) > 0 /\ pc' \in {"rolledback", "failed"}
          /\ backups' = SubSeq(backups, 1, Len(backups) - 1)
          /\ root'.data = root.data /\ root'.deps = root.deps
          /\ root'.meta = IF U!Backup.meta \in {"old", "new"} THEN U!Backup.meta ELSE root.meta
      BY <1>17, <1>0 DEF U!ForgetBackup, U!Goto, Copies, U!Items
    <2>2. Len(backups') = Len(backups) - 1 /\ \A b \in 1..Len(backups') : backups'[b] = backups[b]
      <3>1. backups \in Seq(Copies) /\ Len(backups) > 0 /\ backups' = SubSeq(backups, 1, Len(backups) - 1)
        BY <2>1, <1>0
      <3> QED
        BY <3>1, LastRemoved
    <2>3. \A b \in 1..Len(backups') : Complete(backups'[b])
      BY <2>1, <2>2, <1>0
    <2> QED
      BY <2>1, <2>3 DEF Complete, Known
  <1>18. CASE U!RollbackDone
    BY <1>18, <1>0 DEF U!RollbackDone, U!Goto
  <1>19. CASE U!Crash
    BY <1>19, <1>0 DEF U!Crash, U!Fault, UTypeOK
  <1> QED
    BY <1>1, <1>2, <1>3, <1>4, <1>5, <1>6, <1>7, <1>8, <1>9, <1>10, <1>11, <1>12, <1>13, <1>14,
       <1>15, <1>16, <1>17, <1>18, <1>19 DEF U!Next

UpdateInv == UInv /\ CleanInv

LEMMA UpdateStep ==
    ASSUME UpdateInv, [U!Next]_(U!vars)
    PROVE  UpdateInv'
  <1>1. UTypeOK /\ UTypeOK'
    BY UpdateType DEF UpdateInv, UInv
  <1>2. setup' = setup
    BY DEF U!Next, U!vars, U!setChannel, U!checkForUpdates, U!update, U!createBackup, U!downloadFile,
           U!Preserve, U!RemoveOld, U!CopyNew, U!RestorePreserved, U!updateVersionConfig, U!UpdateDone,
           U!npmInstall, U!StepThrows, U!Rollback, U!rollbackUpdate, U!ForgetBackup, U!RollbackDone, U!Crash
  <1>3. faults'.crash = 0 => faults.crash = 0
    BY <1>1 DEF UTypeOK, U!Next, U!vars, U!setChannel, U!checkForUpdates, U!update, U!createBackup, U!downloadFile,
           U!Preserve, U!RemoveOld, U!CopyNew, U!RestorePreserved, U!updateVersionConfig, U!UpdateDone,
           U!npmInstall, U!StepThrows, U!Rollback, U!rollbackUpdate, U!ForgetBackup, U!RollbackDone, U!Crash,
           U!Fault, U!CopyOk, U!CopyThrows, U!getVersionManifest
  <1>4. UInv'
    BY <1>1, <1>2, UpdateKeptStep DEF UpdateInv, UInv, Mild, UKept
  <1>5. CleanInv'
    BY <1>1, <1>2, <1>3, UpdateCleanStep DEF UpdateInv, UInv, CleanInv, Mild, UKept
  <1> QED
    BY <1>4, <1>5 DEF UpdateInv

LEMMA UpdateInit == U!Init => UpdateInv
  <1> SUFFICES ASSUME U!Init PROVE UpdateInv
    OBVIOUS
  <1>1. UTypeOK
    BY EmptySeq, UpdateSetupsType DEF U!Init, UTypeOK, U!Items, Contents, Steps, U!Nothing
  <1>2. Len(backups) = 0
    BY DEF U!Init
  <1>3. Mild => UKept
    BY <1>2 DEF U!Init, UKept, UCommand, UWhere, UBackup, UStack, Layered, U!Items
  <1>4. CleanInv
    BY <1>2 DEF U!Init, CleanInv, UClean, Complete, Known, U!Items
  <1> QED
    BY <1>1, <1>3, <1>4 DEF UpdateInv, UInv, UKept

LEMMA UpdateSafe == UpdateInv => U!DataKept /\ U!OutcomeTrue
  <1> SUFFICES ASSUME UpdateInv PROVE U!DataKept /\ U!OutcomeTrue
    OBVIOUS
  <1>0. /\ setup \in [daemon : BOOLEAN, copy : Nat, step : Nat, crash : Nat, deps : BOOLEAN, undo : BOOLEAN]
        /\ DOMAIN backups = 1..Len(backups) /\ Len(backups) \in Nat /\ pc \in Steps /\ i \in 1..3
        /\ root \in Copies
    BY UpdateSetupsType DEF UpdateInv, UInv, UTypeOK, Copies
  <1>1. U!DataKept
    <2>1. Mild => root.data = "old" \/ temp.data = "old" \/ Held
      <3>1. HeldIn(backups, Len(backups) - 1) => Held
        BY <1>0 DEF HeldIn, Held
      <3> QED
        BY <1>0, <3>1 DEF UpdateInv, UInv, UWhere, Steps
    <2>2. Mild \/ setup.daemon \/ setup.copy > 1 \/ (setup.copy = 1 /\ (setup.step > 0 \/ setup.crash > 0 \/ setup.undo))
      BY <1>0 DEF Mild
    <2> QED
      BY <2>1, <2>2, <1>0 DEF U!DataKept, Held, HeldIn
  <1>2. U!OutcomeTrue
    BY <1>0 DEF UpdateInv, UInv, CleanInv, UClean, Mild, UCommand, U!OutcomeTrue, Complete, Known, Copies, U!Items
  <1> QED
    BY <1>1, <1>2

(* Whatever fails or is interrupted while `aof update`, its dependency update  *)
(* and its rollback run, in any order and number, the data is in the root, in   *)
(* the preserved copy or in a backup, and "updated", "rolled back" and "failed" *)
(* say what is installed (updater.ts).                                          *)
THEOREM UpdatesKeepData == Spec => []UpdateKept
  <1> DEFINE Inv == part = "update" => UpdateInv
  <1>1. Init => Inv
    BY UpdateInit DEF Init, DInit, LInit, WInit, SInit, UInit, IInit, PInit, VInit, XInit
  <1>2. Inv /\ [Next]_vars => Inv'
    BY OnePart, UpdateStep
  <1>3. Inv => UpdateKept
    BY UpdateSafe DEF UpdateKept
  <1> QED
    BY <1>1, <1>2, <1>3, PTL DEF Spec

-----------------------------------------------------------------------------
(* The wiring into OpenClaw's configuration. *)

(* The steps of a command: wireOpenClawPlugin and runPluginStep, then the     *)
(* memory slot, then the rest.                                                *)
Claiming == {"displace", "slot", "module"}
Undoing == {"unsetEntry", "unsetSlot"}
WSteps == {"idle", "load", "entry", "allow", "memory", "dataDir", "health", "tools", "end", "initMemory",
           "moduleOff", "giveSlot", "enableOther", "writeIntegrated", "writeEjected"}
          \cup Claiming \cup Undoing

WConfig == [shape : {"object", "array"}, entry : BOOLEAN, module : BOOLEAN, dataDir : BOOLEAN,
            allow : BOOLEAN, load : BOOLEAN, tools : BOOLEAN, slot : {"none", "other", "aof"},
            other : BOOLEAN]
WSetup == [shape : {"object", "array"}, slot : {"none", "other", "aof"}, mode : {"auto", "force", "never"},
           auto : BOOLEAN, answer : BOOLEAN, cli : BOOLEAN, disable : BOOLEAN, init : BOOLEAN,
           runs : Nat, faults : Nat]
WTypeOK ==
    /\ setup \in WiringSetups
    /\ config \in WConfig
    /\ cmd \in {"none", "setup", "init", "disable", "integrate", "eject"} /\ pc \in WSteps
    /\ claimed \in BOOLEAN /\ clean \in BOOLEAN
    /\ budget \in [runs : Nat, faults : Nat] /\ budget.faults <= setup.faults

(* Which command is at which step. *)
WCommand ==
    /\ pc \in {"load", "memory", "dataDir", "health"} \cup Undoing => cmd = "setup"
    /\ pc \in {"entry", "allow", "tools"} \cup Claiming => cmd \in {"setup", "init"}
    /\ pc = "initMemory" => cmd = "init"
    /\ pc \in {"moduleOff", "giveSlot", "enableOther"} => cmd = "disable"
    /\ pc \in {"writeIntegrated", "writeEjected"} => setup.shape = "array" /\ cmd \in {"integrate", "eject"}
    /\ cmd = "init" => setup.init

(* The other plugin's memory: as long as the user does not agree, nobody gets  *)
(* to the steps that touch it.                                                 *)
Spared == setup.slot = "other" /\ ~setup.answer /\ setup.mode # "force"
WSpared ==
    Spared => /\ config.slot = "other" /\ config.other /\ ~config.module /\ ~claimed
              /\ pc \notin Claiming \cup {"moduleOff", "giveSlot", "enableOther", "unsetSlot"}

(* With --no-claim-memory AOF never gets the slot. *)
WNever ==
    P!LeavesOther /\ setup.mode = "never" => config.slot # "aof" /\ pc \notin Claiming

(* A failed wiring gives back what it has taken. *)
WSlot ==
    ~setup.init /\ setup.shape = "object" /\ P!LeavesOther /\ setup.faults <= 1 =>
      /\ config.slot = "aof" => config.entry \/ pc = "unsetSlot"
      /\ pc \in {"allow", "memory", "dataDir", "health"} \cup Claiming => config.entry
      /\ pc \in Undoing => budget.faults = 0
      /\ pc \in {"dataDir", "health"} /\ budget.faults > 0 /\ config.slot = "aof" => claimed
      /\ pc = "unsetEntry" /\ config.slot = "aof" => claimed

(* What a setup has done up to each step. *)
WRepairs ==
    P!LeavesOther /\ cmd = "setup" /\ clean =>
      /\ pc \notin Undoing /\ pc \notin {"moduleOff", "giveSlot", "enableOther"}
      /\ pc \notin {"idle", "load"} => config.load
      /\ pc \notin {"idle", "load", "entry"} => config.entry
      /\ pc \notin {"idle", "load", "entry", "allow"} => config.allow
      /\ pc = "module" => config.slot = "aof"
      /\ pc \in {"dataDir", "health", "tools", "end"} =>
           /\ config.slot = "aof" => config.module
           /\ setup.mode = "force" => config.slot = "aof"
      /\ pc \in {"health", "tools", "end"} => config.dataDir
      /\ pc = "end" => config.tools

WInv == WTypeOK /\ WCommand /\ WSpared /\ WNever /\ WSlot /\ WRepairs

(* A configuration with some keys written is a configuration. *)
LEMMA Configured ==
    ASSUME NEW c \in WConfig, NEW b \in BOOLEAN, NEW s \in {"none", "other", "aof"}
    PROVE  /\ [c EXCEPT !.load = b] \in WConfig
           /\ [c EXCEPT !.allow = b] \in WConfig
           /\ [c EXCEPT !.tools = b] \in WConfig
           /\ [c EXCEPT !.dataDir = b] \in WConfig
           /\ [c EXCEPT !.module = b] \in WConfig
           /\ [c EXCEPT !.other = b] \in WConfig
           /\ [c EXCEPT !.slot = s] \in WConfig
           /\ [c EXCEPT !.entry = b, !.module = FALSE, !.dataDir = FALSE] \in WConfig
           /\ [c EXCEPT !.entry = FALSE, !.dataDir = FALSE, !.module = FALSE] \in WConfig
           /\ [c EXCEPT !.entry = TRUE, !.dataDir = c.dataDir \/ ~c.entry] \in WConfig
  BY ZenonT(60) DEF WConfig

(* The types of the wiring, and its setup. *)
LEMMA WiringType ==
    ASSUME WTypeOK, [P!Next]_(P!vars)
    PROVE  WTypeOK' /\ setup' = setup
  <1>0. setup \in WSetup /\ config \in WConfig /\ config.dataDir \in BOOLEAN /\ config.entry \in BOOLEAN
    BY WiringSetupsType DEF WTypeOK, WSetup, WConfig
  <1>n. /\ budget.faults > 0 => LET b == [budget EXCEPT !.faults = @ - 1]
                                IN  b \in [runs : Nat, faults : Nat] /\ b.faults <= setup.faults
        /\ budget.runs > 0 => LET b == [budget EXCEPT !.runs = @ - 1]
                              IN  b \in [runs : Nat, faults : Nat] /\ b.faults <= setup.faults
    BY <1>0 DEF WTypeOK, WSetup
  <1>s. ASSUME NEW here, NEW c \in WConfig, NEW next \in WSteps, P!Set(here, c, next), claimed' \in BOOLEAN
        PROVE  WTypeOK' /\ setup' = setup
    BY <1>s DEF P!Set, WTypeOK
  <1>f. ASSUME NEW here, NEW next \in WSteps, P!SetFails(here, next)
        PROVE  WTypeOK' /\ setup' = setup
    BY <1>f, <1>n DEF P!SetFails, WTypeOK
  <1>b. ASSUME NEW c \in {"setup", "init", "disable", "integrate", "eject"}, NEW first \in WSteps, P!Begin(c, first)
        PROVE  WTypeOK' /\ setup' = setup
    BY <1>b, <1>n DEF P!Begin, WTypeOK
  <1>1. CASE UNCHANGED P!vars
    BY <1>1 DEF P!vars, WTypeOK
  <1>2. CASE P!wireOpenClawPlugin
    BY <1>2, <1>0, <1>b DEF P!wireOpenClawPlugin, WSteps, Claiming, Undoing
  <1>3. CASE P!LoadPaths
    BY <1>3, <1>0, <1>s, <1>f, Configured DEF P!LoadPaths, WSteps, Claiming, Undoing, WTypeOK
  <1>4. CASE P!registerAofPlugin
    BY <1>4, <1>0, <1>s, <1>f, Configured DEF P!registerAofPlugin, WSteps, Claiming, Undoing, WTypeOK
  <1>5. CASE P!addAofToAllowList
    BY <1>5, <1>0, <1>s, <1>f, Configured DEF P!addAofToAllowList, WSteps, Claiming, Undoing, WTypeOK
  <1>6. CASE P!MemoryStep
    BY <1>6, <1>0 DEF P!MemoryStep, WTypeOK, WSteps, Claiming, Undoing
  <1>7. CASE P!configureAofAsMemoryPlugin
    BY <1>7, <1>0, <1>s, <1>f, Configured DEF P!configureAofAsMemoryPlugin, WSteps, Claiming, Undoing, WTypeOK, P!AfterMemory
  <1>8. CASE P!SetDataDir
    BY <1>8, <1>0, <1>s, <1>f, Configured DEF P!SetDataDir, WSteps, Claiming, Undoing, WTypeOK
  <1>9. CASE P!HealthCheck
    BY <1>9, <1>0, <1>s, <1>f, Configured DEF P!HealthCheck, WSteps, Claiming, Undoing, WTypeOK
  <1>10. CASE P!RollBack
    BY <1>10, <1>0, <1>s, <1>f, Configured DEF P!RollBack, WSteps, Claiming, Undoing, WTypeOK
  <1>11. CASE P!ToolsAllowed
    BY <1>11, <1>0, <1>s, <1>f, Configured DEF P!ToolsAllowed, WSteps, Claiming, Undoing, WTypeOK
  <1>12. CASE P!End
    BY <1>12, <1>0 DEF P!End, WTypeOK, WSteps, Claiming, Undoing
  <1>13. CASE P!wireOpenClawPluginDirect
    <2> DEFINE c == [config EXCEPT !.entry = TRUE, !.allow = TRUE, !.load = TRUE, !.dataDir = TRUE, !.tools = TRUE]
    <2>1. c \in WConfig /\ P!Claimed(c) \in WConfig
      BY <1>0 DEF WConfig, P!Claimed
    <2>2. config' \in {c, P!Claimed(c)}
      BY <1>13 DEF P!wireOpenClawPluginDirect
    <2>3. config' \in WConfig
      BY <2>1, <2>2
    <2> QED
      BY <1>13, <2>3 DEF P!wireOpenClawPluginDirect, WTypeOK, WSteps
  <1>14. CASE P!runPluginStep
    BY <1>14, <1>0, <1>b DEF P!runPluginStep, WSteps, Claiming, Undoing
  <1>15. CASE P!runMemoryStep
    BY <1>15, <1>0 DEF P!runMemoryStep, WTypeOK, WSteps, Claiming, Undoing
  <1>16. CASE P!disableAofAsMemoryPlugin
    BY <1>16, <1>0, <1>b DEF P!disableAofAsMemoryPlugin, WSteps, Claiming, Undoing
  <1>17. CASE P!DisableSteps
    BY <1>17, <1>0, <1>s, <1>f, Configured DEF P!DisableSteps, WSteps, Claiming, Undoing, WTypeOK
  <1>18. CASE P!integrateWithOpenClaw
    BY <1>18, <1>0, <1>b DEF P!integrateWithOpenClaw, WSteps, Claiming, Undoing
  <1>19. CASE P!ejectFromOpenClaw
    BY <1>19, <1>0, <1>b DEF P!ejectFromOpenClaw, WSteps, Claiming, Undoing
  <1>20. CASE P!WriteFile
    BY <1>20, <1>0, <1>s, <1>f, Configured DEF P!WriteFile, WSteps, Claiming, Undoing, WTypeOK
  <1>21. CASE P!unwire_openclaw_config
    <2>1. config' \in WConfig
      BY <1>21, <1>0 DEF P!unwire_openclaw_config, WConfig
    <2> QED
      BY <1>21, <2>1 DEF P!unwire_openclaw_config, WTypeOK
  <1>22. CASE P!Crash
    BY <1>22, <1>0, <1>n DEF P!Crash, WTypeOK, WSteps, Claiming, Undoing
  <1> QED
    BY <1>1, <1>2, <1>3, <1>4, <1>5, <1>6, <1>7, <1>8, <1>9, <1>10, <1>11, <1>12, <1>13, <1>14, <1>15, <1>16, <1>17, <1>18, <1>19, <1>20, <1>21, <1>22 DEF P!Next

(* Every step of a command keeps the invariant of the wiring. *)
LEMMA WiringStep ==
    ASSUME WInv, [P!Next]_(P!vars)
    PROVE  WInv'
  <1>0. /\ WTypeOK /\ WTypeOK' /\ setup' = setup /\ setup \in WSetup /\ config \in WConfig /\ config' \in WConfig
        /\ setup.faults \in Nat /\ budget.faults \in Nat /\ budget.faults <= setup.faults
    BY WiringType, WiringSetupsType DEF WInv, WTypeOK, WSetup
  <1>s. ASSUME NEW here, NEW next, P!SetFails(here, next)
        PROVE  /\ pc = here /\ pc' = next /\ ~clean' /\ UNCHANGED <<setup, config, cmd, claimed>>
               /\ budget.faults > 0 /\ budget'.faults = budget.faults - 1
    BY <1>s, <1>0 DEF P!SetFails, WTypeOK
  <1>b. ASSUME NEW c, NEW first, P!Begin(c, first)
        PROVE  /\ pc = "idle" /\ pc' = first /\ cmd' = c /\ ~claimed' /\ clean' /\ UNCHANGED <<setup, config>>
               /\ budget'.faults = budget.faults
    BY <1>b, <1>0 DEF P!Begin, WTypeOK
  <1> DEFINE Kept == WCommand /\ WSpared /\ WNever /\ WSlot /\ WRepairs
  <1>k. Kept
    BY DEF WInv
  <1> USE DEF WTypeOK, WCommand, WSpared, Spared, WNever, WSlot, WRepairs, P!LeavesOther, Claiming, Undoing,
              WConfig, WSetup
  <1>1. ASSUME UNCHANGED P!vars PROVE Kept'
    BY <1>1, <1>k DEF P!vars
  <1>2. ASSUME P!wireOpenClawPlugin PROVE Kept'
    BY <1>2, <1>0, <1>k, <1>b DEF P!wireOpenClawPlugin
  <1>3. ASSUME P!LoadPaths PROVE Kept'
    BY <1>3, <1>0, <1>k, <1>s DEF P!LoadPaths, P!Set
  <1>4. ASSUME P!registerAofPlugin PROVE Kept'
    <2> DEFINE new == [config EXCEPT !.entry = TRUE, !.module = FALSE, !.dataDir = FALSE]
    <2>1. CASE P!Set("entry", new, "allow") /\ UNCHANGED claimed
      <3>1. /\ config'.entry /\ ~config'.module /\ config'.slot = config.slot /\ config'.other = config.other
            /\ config'.load = config.load
            /\ pc = "entry" /\ pc' = "allow" /\ UNCHANGED <<setup, cmd, clean, budget, claimed>>
        BY <2>1, <1>0 DEF P!Set
      <3> QED
        BY <3>1, <1>0, <1>k
    <2>2. CASE P!SetFails("entry", IF cmd = "init" THEN "tools" ELSE "end")
      BY <2>2, <1>0, <1>k, <1>s
    <2> QED
      BY <1>4, <2>1, <2>2 DEF P!registerAofPlugin
  <1>5. ASSUME P!addAofToAllowList PROVE Kept'
    BY <1>5, <1>0, <1>k, <1>s DEF P!addAofToAllowList, P!Set
  <1>6. ASSUME P!MemoryStep PROVE Kept'
    BY <1>6, <1>0, <1>k DEF P!MemoryStep, P!decideMemoryClaim
  <1>7. ASSUME P!configureAofAsMemoryPlugin PROVE Kept'
    BY <1>7, <1>0, <1>k, <1>s DEF P!configureAofAsMemoryPlugin, P!Set, P!AfterMemory
  <1>8. ASSUME P!SetDataDir PROVE Kept'
    BY <1>8, <1>0, <1>k, <1>s DEF P!SetDataDir, P!Set
  <1>9. ASSUME P!HealthCheck PROVE Kept'
    BY <1>9, <1>0, <1>k, <1>s DEF P!HealthCheck, P!Set
  <1>10. ASSUME P!RollBack PROVE Kept'
    <2>1. CASE \E here \in {"unsetEntry", "unsetSlot"} : P!SetFails(here, "tools")
      BY <2>1, <1>0, <1>k, <1>s
    <2>2. CASE UNCHANGED claimed /\ P!Set("unsetEntry", [config EXCEPT !.entry = FALSE, !.module = FALSE, !.dataDir = FALSE],
                                          IF claimed THEN "unsetSlot" ELSE "tools")
      <3>1. /\ config'.slot = config.slot /\ config'.other = config.other /\ ~config'.module
            /\ pc = "unsetEntry" /\ pc' = IF claimed THEN "unsetSlot" ELSE "tools"
            /\ UNCHANGED <<setup, cmd, clean, budget, claimed>>
        BY <2>2, <1>0 DEF P!Set
      <3> QED
        BY <3>1, <1>0, <1>k
    <2>3. CASE UNCHANGED claimed /\ P!Set("unsetSlot", [config EXCEPT !.slot = "none"], "tools")
      BY <2>3, <1>0, <1>k DEF P!Set
    <2> QED
      BY <1>10, <2>1, <2>2, <2>3 DEF P!RollBack
  <1>11. ASSUME P!ToolsAllowed PROVE Kept'
    BY <1>11, <1>0, <1>k, <1>s DEF P!ToolsAllowed, P!Set
  <1>12. ASSUME P!End PROVE Kept'
    BY <1>12, <1>0, <1>k DEF P!End
  <1>13. ASSUME P!wireOpenClawPluginDirect PROVE Kept'
    BY <1>13, <1>0, <1>k DEF P!wireOpenClawPluginDirect, P!decideMemoryClaim, P!Claimed
  <1>14. ASSUME P!runPluginStep PROVE Kept'
    BY <1>14, <1>0, <1>k, <1>b DEF P!runPluginStep
  <1>15. ASSUME P!runMemoryStep PROVE Kept'
    BY <1>15, <1>0, <1>k DEF P!runMemoryStep
  <1>16. ASSUME P!disableAofAsMemoryPlugin PROVE Kept'
    BY <1>16, <1>0, <1>k, <1>b DEF P!disableAofAsMemoryPlugin
  <1>17. ASSUME P!DisableSteps PROVE Kept'
    BY <1>17, <1>0, <1>k, <1>s DEF P!DisableSteps, P!Set
  <1>18. ASSUME P!integrateWithOpenClaw PROVE Kept'
    BY <1>18, <1>0, <1>k, <1>b DEF P!integrateWithOpenClaw
  <1>19. ASSUME P!ejectFromOpenClaw PROVE Kept'
    BY <1>19, <1>0, <1>k, <1>b DEF P!ejectFromOpenClaw
  <1>20. ASSUME P!WriteFile PROVE Kept'
    <2>1. /\ config'.slot = config.slot /\ config'.other = config.other /\ (config'.module => config.module)
          /\ pc \in {"writeIntegrated", "writeEjected"} /\ pc' = "end"
          /\ UNCHANGED <<setup, cmd, claimed>>
      BY <1>20, <1>0, <1>s, ZenonT(60) DEF P!WriteFile, P!Set
    <2> QED
      BY <2>1, <1>0, <1>k
  <1>21. ASSUME P!unwire_openclaw_config PROVE Kept'
    BY <1>21, <1>0, <1>k DEF P!unwire_openclaw_config
  <1>22. ASSUME P!Crash PROVE Kept'
    BY <1>22, <1>0, <1>k DEF P!Crash
  <1>i. Kept'
    BY <1>1, <1>2, <1>3, <1>4, <1>5, <1>6, <1>7, <1>8, <1>9, <1>10, <1>11, <1>12, <1>13, <1>14, <1>15, <1>16, <1>17, <1>18, <1>19, <1>20, <1>21, <1>22 DEF P!Next
  <1> QED
    BY <1>0, <1>i DEF WInv

LEMMA WiringInit == P!Init => WInv
  <1> SUFFICES ASSUME P!Init PROVE WInv
    OBVIOUS
  <1>1. setup \in WSetup
    BY WiringSetupsType DEF P!Init, WSetup
  <1>2. WTypeOK
    <2>1. config \in WConfig
      BY <1>1 DEF P!Init, WSetup, WConfig
    <2>2. budget \in [runs : Nat, faults : Nat] /\ budget.faults <= setup.faults
      BY <1>1 DEF P!Init, WSetup
    <2> QED
      BY <2>1, <2>2 DEF P!Init, WTypeOK, WSteps
  <1>3. WCommand /\ WSpared /\ WNever /\ WSlot /\ WRepairs
    BY <1>1 DEF P!Init, WSetup, WCommand, WSpared, Spared, WNever, WSlot, WRepairs, P!LeavesOther, Claiming, Undoing
  <1> QED
    BY <1>2, <1>3 DEF WInv

LEMMA WiringHolds == WInv => P!OtherUntouched /\ P!SlotKnown /\ P!SetupRepairs
  BY DEF WInv, WTypeOK, WSpared, Spared, WSlot, WRepairs, P!OtherUntouched, P!SlotKnown, P!SetupRepairs,
         Claiming, Undoing

(* However setup, init, disable, integrate, eject and uninstall follow one      *)
(* another, fail or are interrupted: another memory plugin is displaced with    *)
(* consent only, the slot names a registered plugin, and a setup in which       *)
(* nothing fails repairs what an earlier one left (setup.ts, openclaw-cli.ts).  *)
THEOREM WiringSafe == Spec => []WiringKept
  <1> DEFINE Inv == part = "wiring" => WInv
  <1>1. Init => Inv
    BY WiringInit DEF Init, DInit, LInit, WInit, SInit, UInit, IInit, PInit, VInit, XInit
  <1>2. Inv /\ [Next]_vars => Inv'
    BY OnePart, WiringStep
  <1>3. Inv => WiringKept
    BY WiringHolds DEF WiringKept
  <1> QED
    BY <1>1, <1>2, <1>3, PTL DEF Spec

-----------------------------------------------------------------------------
(* The migration of the vault. *)

VSetup == [cards : {"plain", "tight", "bare"}, recreate : BOOLEAN, faults : Nat, runs : Nat]
Found == {"none", "empty", "orig", "done", "part", "broken", "new", "mixed"}
Vaults == [V!Dirs -> Found]
VSteps == {"idle", "move", "copy", "cards", "back", "done"}

VTypeOK ==
    /\ setup \in VaultSetups
    /\ root \in Vaults /\ inbox \in Vaults /\ inboxExists \in BOOLEAN /\ backups \in Seq(Vaults)
    /\ job \in [cmd : {"none", "migrate", "rollback"}, at : VSteps, dirs : SUBSET V!Dirs]
    /\ job.at = "idle" => job = V!Idle
    /\ job.at \in {"move", "copy", "cards", "back"} => Len(backups) > 0
    /\ budget \in [runs : Nat, faults : Nat, clean : BOOLEAN]

(* What is yet to be moved is not in the backup of this migration. *)
VMoves ==
    /\ job.at = "move" => \A d \in job.dirs : backups[Len(backups)][d] = "none"
    /\ job.at \in {"move", "copy", "cards"} => job.cmd = "migrate"
    /\ job.at = "back" => job.cmd = "rollback"

(* The vault of the old layout, and a migrated one. *)
Latest(d) == IF Len(backups) = 0 THEN "none" ELSE backups[Len(backups)][d]
Legacy == \A d \in V!Dirs : root[d] = "orig" /\ Latest(d) = "none" /\ inbox[d] = "none"
Migrated ==
    /\ inboxExists
    /\ \A d \in V!Dirs : root[d] = "none" /\ Latest(d) = "orig" /\ (d # "tasks" => inbox[d] = "orig")
    /\ setup.cards # "tight" => inbox["tasks"] = "done"

(* From the one to the other, as long as nothing is interrupted. *)
VPhase ==
    budget.clean /\ ~setup.recreate =>
      /\ job.at = "idle" => Legacy \/ Migrated
      /\ job.at = "done" => IF job.cmd = "migrate" THEN Migrated ELSE Legacy
      /\ job.at = "move" => \A d \in V!Dirs :
           /\ IF d \in job.dirs THEN root[d] = "orig" ELSE root[d] = "none" /\ Latest(d) = "orig"
           /\ inbox[d] = "none"
      /\ job.at \in {"copy", "cards"} =>
           /\ inboxExists
           /\ \A d \in V!Dirs :
                /\ root[d] = "none" /\ Latest(d) = "orig"
                /\ IF d \in job.dirs THEN inbox[d] = "empty" ELSE d # "tasks" => inbox[d] = "orig"
           /\ job.at = "cards" => "tasks" \notin job.dirs /\ inbox["tasks"] = "orig"
           /\ job.at = "copy" /\ setup.cards # "tight" /\ "tasks" \notin job.dirs => inbox["tasks"] = "done"
      /\ job.at = "back" => \A d \in V!Dirs :
           /\ IF d \in job.dirs THEN root[d] = "none" /\ Latest(d) = "orig" ELSE root[d] = "orig" /\ Latest(d) = "none"
           /\ inbox[d] = "none"

VInv == VTypeOK /\ VMoves /\ V!LegacyKept /\ VPhase

(* A set of numbers has a least one. *)
LEMMA Least ==
    ASSUME NEW T, T \subseteq Nat, T # {}
    PROVE  \E m \in T : \A n \in T : m <= n
  <1> DEFINE R == {p \in Nat \X Nat : p[1] < p[2]}
  <1>1. IsWellFoundedOn(R, Nat)
    BY NatLessThanWellFounded DEF OpToRel
  <1>2. \A x, y \in Nat : y < x => <<y, x>> \in R
    OBVIOUS
  <1> HIDE DEF R
  <1>3. PICK x \in T : \A y \in T : ~(<<y, x>> \in R)
    BY <1>1, WFMin
  <1>4. \A y \in T : ~(y < x) /\ y \in Nat /\ x \in Nat
    BY <1>2, <1>3
  <1>5. \A y \in T : x <= y
    BY <1>4
  <1> QED
    BY <1>5

(* The first of some directories is one of them. *)
LEMMA FirstOf ==
    ASSUME NEW dirs \in SUBSET V!Dirs, dirs # {}
    PROVE  V!First(dirs) \in dirs
  <1> DEFINE at == {k \in DOMAIN LEGACY_DIRS : LEGACY_DIRS[k] \in dirs}
  <1>1. at \subseteq Nat /\ at # {}
    BY LegacyDirsType DEF V!Dirs
  <1>2. \E k \in at : \A l \in at : k <= l
    BY <1>1, Least
  <1> QED
    BY <1>2 DEF V!First

(* "tasks" is one of the legacy directories. *)
LEMMA TasksInDirs == "tasks" \in V!Dirs
  BY LegacyDirsType DEF V!Dirs

(* One directory of the last backup is written. *)
Put(r, q, p, c) ==
    /\ r \in Seq(Vaults) /\ Len(r) = Len(q)
    /\ \A b \in 1..Len(q) : \A d \in V!Dirs : r[b][d] = IF b = Len(q) /\ d = p THEN c ELSE q[b][d]

(* One directory of the last backup is written. *)
LEMMA BackupWritten ==
    ASSUME NEW q \in Seq(Vaults), Len(q) > 0, NEW p \in V!Dirs, NEW c \in Found
    PROVE  Put([q EXCEPT ![Len(q)][p] = c], q, p, c)
  <1> DEFINE r == [q EXCEPT ![Len(q)] = [q[Len(q)] EXCEPT ![p] = c]]
  <1>1. Len(q) \in 1..Len(q)
    OBVIOUS
  <1>2. q[Len(q)] \in Vaults /\ [q[Len(q)] EXCEPT ![p] = c] \in Vaults
    BY <1>1, ElementOfSeq DEF Vaults
  <1>3. /\ r \in Seq(Vaults) /\ Len(r) = Len(q)
        /\ \A b \in 1..Len(q) : r[b] = IF b = Len(q) THEN [q[Len(q)] EXCEPT ![p] = c] ELSE q[b]
    BY <1>1, <1>2, ExceptSeq
  <1> HIDE DEF r
  <1>4. Put(r, q, p, c)
    BY <1>1, <1>2, <1>3 DEF Put, Vaults
  <1> QED
    BY <1>4 DEF r

(* The migration's steps keep the types. *)
LEMMA VaultType ==
    ASSUME VTypeOK, [V!Next]_(V!vars)
    PROVE  VTypeOK'
  <1>0. /\ setup \in VSetup /\ root \in Vaults /\ inbox \in Vaults /\ backups \in Seq(Vaults) /\ Len(backups) \in Nat
        /\ V!None \in Vaults /\ V!Idle \in [cmd : {"none", "migrate", "rollback"}, at : VSteps, dirs : SUBSET V!Dirs]
        /\ "tasks" \in V!Dirs
        /\ \A x \in Vaults, d \in V!Dirs : x[d] \in Found
        /\ \A x \in Vaults, d \in V!Dirs, c \in Found : [x EXCEPT ![d] = c] \in Vaults
        /\ {"none", "empty", "orig", "done", "part", "broken", "new", "mixed"} = Found
    BY VaultSetupsType, TasksInDirs DEF VTypeOK, VSetup, Vaults, Found, V!None, V!Idle, VSteps
  <1>f. ASSUME NEW dirs \in SUBSET V!Dirs, dirs # {} PROVE V!First(dirs) \in V!Dirs
    BY <1>f, FirstOf
  <1>g. ASSUME NEW at \in VSteps, at # "idle", NEW dirs \in SUBSET V!Dirs, V!Goto(at, dirs)
        PROVE  job' \in [cmd : {"none", "migrate", "rollback"}, at : VSteps, dirs : SUBSET V!Dirs] /\ job'.at = at
    BY <1>g DEF V!Goto, VTypeOK
  <1>s. V!Spend => budget' \in [runs : Nat, faults : Nat, clean : BOOLEAN]
    BY DEF V!Spend, VTypeOK
  <1>b. ASSUME Len(backups) > 0
        PROVE  /\ backups[Len(backups)] \in Vaults
               /\ \A d \in V!Dirs, c \in Found : Put([backups EXCEPT ![Len(backups)][d] = c], backups, d, c)
    <2>1. Len(backups) \in 1..Len(backups)
      BY <1>b, <1>0
    <2> QED
      BY <2>1, <1>b, <1>0, BackupWritten, ElementOfSeq
  <1>1. CASE UNCHANGED V!vars
    BY <1>1 DEF V!vars, VTypeOK, V!Idle
  <1>2. CASE V!AlreadyMigrated
    <2>1. inbox' \in Vaults
      BY <1>2, <1>0 DEF V!AlreadyMigrated, Vaults, Found
    <2>2. job' \in [cmd : {"none", "migrate", "rollback"}, at : VSteps, dirs : SUBSET V!Dirs] /\ job'.at = "done"
      BY <1>2 DEF V!AlreadyMigrated, VSteps
    <2> QED
      BY <1>2, <2>1, <2>2, <1>s DEF V!AlreadyMigrated, VTypeOK
  <1>3. CASE V!migrateToProjects
    <2>1. backups' \in Seq(Vaults) /\ Len(backups') > 0
      BY <1>3, <1>0, AppendProperties DEF V!migrateToProjects
    <2>2. job' \in [cmd : {"none", "migrate", "rollback"}, at : VSteps, dirs : SUBSET V!Dirs] /\ job'.at = "move"
      BY <1>3 DEF V!migrateToProjects, V!checkLegacyDirsExist, VSteps
    <2> QED
      BY <1>3, <2>1, <2>2, <1>s DEF V!migrateToProjects, VTypeOK
  <1>4. CASE V!MoveToBackup
    <2> DEFINE d == V!First(job.dirs)
    <2>1. d \in V!Dirs /\ root[d] \in Found
      BY <1>4, <1>f, <1>0 DEF V!MoveToBackup, VTypeOK
    <2>2. backups' \in Seq(Vaults) /\ Len(backups') > 0
      BY <1>4, <2>1, <1>b, <1>0 DEF V!MoveToBackup, VTypeOK, Put
    <2>3. root' \in Vaults
      BY <1>4, <2>1, <1>0 DEF V!MoveToBackup, Found
    <2>4. job' \in [cmd : {"none", "migrate", "rollback"}, at : VSteps, dirs : SUBSET V!Dirs] /\ job'.at = "move"
      BY <1>4, <1>g DEF V!MoveToBackup, VTypeOK, VSteps
    <2> QED
      BY <1>4, <2>2, <2>3, <2>4 DEF V!MoveToBackup, VTypeOK
  <1>5. CASE V!bootstrapProject
    <2>1. inbox' \in Vaults
      BY <1>5, <1>0 DEF V!bootstrapProject, Vaults, Found
    <2>2. job' \in [cmd : {"none", "migrate", "rollback"}, at : VSteps, dirs : SUBSET V!Dirs] /\ job'.at = "copy"
      BY <1>5, <1>g DEF V!bootstrapProject, V!Moved, VSteps
    <2> QED
      BY <1>5, <2>1, <2>2 DEF V!bootstrapProject, VTypeOK
  <1>6. CASE V!copyDirectory
    <2> DEFINE d == V!First(job.dirs)
    <2>1. d \in V!Dirs /\ backups[Len(backups)][d] \in Found
      BY <1>6, <1>f, <1>b, <1>0 DEF V!copyDirectory, VTypeOK
    <2>2. inbox' \in Vaults
      BY <1>6, <2>1, <1>0 DEF V!copyDirectory, Found
    <2>3. job' \in [cmd : {"none", "migrate", "rollback"}, at : VSteps, dirs : SUBSET V!Dirs]
          /\ job'.at \in {"cards", "copy"}
      BY <1>6, <1>g DEF V!copyDirectory, VTypeOK, VSteps
    <2> QED
      BY <1>6, <2>2, <2>3 DEF V!copyDirectory, VTypeOK
  <1>7. CASE V!updateTaskCardFrontmatter
    <2>1. inbox' \in Vaults
      <3>1. V!updateTaskFrontmatter(inbox["tasks"]) \in Found
        BY <1>0 DEF V!updateTaskFrontmatter, Found
      <3>2. inbox' \in {inbox, [inbox EXCEPT !["tasks"] = V!updateTaskFrontmatter(inbox["tasks"])]}
        BY <1>7 DEF V!updateTaskCardFrontmatter
      <3> QED
        BY <3>1, <3>2, <1>0
    <2>2. budget' \in [runs : Nat, faults : Nat, clean : BOOLEAN]
      BY <1>7 DEF V!updateTaskCardFrontmatter, VTypeOK
    <2>3. \/ job' = V!Idle
          \/ job' \in [cmd : {"none", "migrate", "rollback"}, at : VSteps, dirs : SUBSET V!Dirs] /\ job'.at = "copy"
      BY <1>7, <1>g DEF V!updateTaskCardFrontmatter, VTypeOK, VSteps
    <2>4. V!Idle.at = "idle"
      BY DEF V!Idle
    <2> QED
      BY <1>7, <1>0, <2>1, <2>2, <2>3, <2>4 DEF V!updateTaskCardFrontmatter, VTypeOK
  <1>8. CASE V!MigrateDone \/ V!RollbackDone
    <2>1. job' \in [cmd : {"none", "migrate", "rollback"}, at : VSteps, dirs : SUBSET V!Dirs] /\ job'.at = "done"
      BY <1>8, <1>g DEF V!MigrateDone, V!RollbackDone, VSteps
    <2> QED
      BY <1>8, <2>1 DEF V!MigrateDone, V!RollbackDone, VTypeOK
  <1>9. CASE V!rollbackMigration
    <2>1. job' \in [cmd : {"none", "migrate", "rollback"}, at : VSteps, dirs : SUBSET V!Dirs] /\ job'.at = "back"
      BY <1>9 DEF V!rollbackMigration, VSteps
    <2>2. Len(backups) > 0
      BY <1>9, <1>0, EmptySeq DEF V!rollbackMigration
    <2> QED
      BY <1>9, <2>1, <2>2, <1>0, <1>s DEF V!rollbackMigration, VTypeOK
  <1>10. CASE V!MoveBack
    <2>1. PICK d \in job.dirs :
            IF root[d] \in {"none", "empty"}
              THEN /\ root' = [root EXCEPT ![d] = backups[Len(backups)][d]]
                   /\ backups' = [backups EXCEPT ![Len(backups)][d] = "none"]
                   /\ V!Goto("back", job.dirs \ {d})
              ELSE job' = V!Idle /\ UNCHANGED <<root, backups>>
      BY <1>10 DEF V!MoveBack, V!findLatestBackup
    <2>2. d \in V!Dirs /\ Len(backups) > 0 /\ backups[Len(backups)][d] \in Found /\ "none" \in Found
      BY <1>10, <1>b, <1>0 DEF V!MoveBack, VTypeOK
    <2>3. root' \in Vaults /\ backups' \in Seq(Vaults) /\ Len(backups') > 0
      BY <2>1, <2>2, <1>b, <1>0 DEF Put
    <2>4. \/ job' = V!Idle
          \/ job' \in [cmd : {"none", "migrate", "rollback"}, at : VSteps, dirs : SUBSET V!Dirs] /\ job'.at = "back"
      BY <2>1, <1>g DEF VTypeOK, VSteps
    <2>5. V!Idle.at = "idle"
      BY DEF V!Idle
    <2> QED
      BY <1>10, <1>0, <2>3, <2>4, <2>5 DEF V!MoveBack, VTypeOK
  <1>11. CASE V!Return
    BY <1>11, <1>0 DEF V!Return, VTypeOK, V!Idle
  <1>12. CASE V!Crash
    <2>1. job.dirs # {} => V!First(job.dirs) \in V!Dirs
      BY <1>f DEF VTypeOK
    <2>2. inbox' \in Vaults
      BY <1>12, <2>1, <1>0 DEF V!Crash, Found
    <2>3. budget' \in [runs : Nat, faults : Nat, clean : BOOLEAN]
      <3>1. budget.faults \in Nat /\ budget.faults > 0 /\ budget \in [runs : Nat, faults : Nat, clean : BOOLEAN]
            /\ budget' = [budget EXCEPT !.faults = @ - 1, !.clean = FALSE]
        BY <1>12 DEF V!Crash, VTypeOK
      <3>2. budget.faults - 1 \in Nat
        BY <3>1
      <3> QED
        BY <3>1, <3>2
    <2> QED
      BY <1>12, <1>0, <2>2, <2>3 DEF V!Crash, VTypeOK, V!Idle
  <1>13. CASE V!Recreate
    <2>1. root' \in Vaults
      <3>1. PICK d \in V!Dirs : root' = [root EXCEPT ![d] = "new"]
        BY <1>13 DEF V!Recreate
      <3> QED
        BY <3>1, <1>0
    <2> QED
      BY <1>13, <2>1 DEF V!Recreate, VTypeOK
  <1> QED
    BY <1>1, <1>2, <1>3, <1>4, <1>5, <1>6, <1>7, <1>8, <1>9, <1>10, <1>11, <1>12, <1>13 DEF V!Next

(* Every step of a command keeps the legacy content and leads from one layout *)
(* to the other.                                                               *)
LEMMA VaultStep ==
    ASSUME VInv, [V!Next]_(V!vars)
    PROVE  VInv'
  <1>0. /\ VTypeOK /\ VTypeOK' /\ setup' = setup /\ setup \in VSetup
        /\ "tasks" \in V!Dirs /\ Len(backups) \in Nat /\ DOMAIN backups = 1..Len(backups)
        /\ Len(backups') \in Nat /\ DOMAIN backups' = 1..Len(backups')
    <2>1. VTypeOK /\ VTypeOK' /\ "tasks" \in V!Dirs
      BY VaultType, TasksInDirs DEF VInv
    <2>2. setup' = setup
      BY DEF V!Next, V!vars, V!AlreadyMigrated, V!migrateToProjects, V!MoveToBackup, V!bootstrapProject, V!copyDirectory,
             V!updateTaskCardFrontmatter, V!MigrateDone, V!rollbackMigration, V!MoveBack, V!RollbackDone, V!Return,
             V!Crash, V!Recreate
    <2> QED
      BY <2>1, <2>2, VaultSetupsType DEF VTypeOK, VSetup
  <1> DEFINE Kept == VMoves /\ V!LegacyKept /\ VPhase
  <1>k. Kept
    BY DEF VInv
  (* A backup is written at one place. *)
  <1>w. ASSUME Len(backups) > 0, NEW p \in V!Dirs, NEW c \in Found, Put(backups', backups, p, c)
        PROVE  /\ DOMAIN backups' = DOMAIN backups /\ Len(backups') = Len(backups) /\ Len(backups) \in DOMAIN backups
               /\ backups'[Len(backups)][p] = c
               /\ \A b \in DOMAIN backups : \A d \in V!Dirs : b # Len(backups) \/ d # p => backups'[b][d] = backups[b][d]
               /\ \A d \in V!Dirs : Latest(d)' = IF d = p THEN c ELSE Latest(d)
               /\ \A d \in V!Dirs : Latest(d) = backups[Len(backups)][d]
    <2>1. Len(backups) \in 1..Len(backups)
      BY <1>w, <1>0
    <2>2. /\ Len(backups') = Len(backups)
          /\ \A b \in 1..Len(backups) : \A d \in V!Dirs :
               backups'[b][d] = IF b = Len(backups) /\ d = p THEN c ELSE backups[b][d]
      BY <1>w DEF Put
    <2>3. \A d \in V!Dirs : Latest(d)' = backups'[Len(backups)][d] /\ Latest(d) = backups[Len(backups)][d]
      BY <2>2, <1>w DEF Latest
    <2> QED
      BY <2>1, <2>2, <2>3, <1>0, ZenonT(60)
  (* Nothing but the inbox and the job changes. *)
  <1>u. ASSUME UNCHANGED <<root, backups>> PROVE V!LegacyKept' /\ \A d \in V!Dirs : Latest(d)' = Latest(d)
    BY <1>u, <1>k DEF V!LegacyKept, Latest
  <1>1. ASSUME UNCHANGED V!vars PROVE Kept'
    BY <1>1, <1>k, <1>u DEF V!vars, VMoves, VPhase, Legacy, Migrated
  <1>g. ASSUME NEW at, NEW dirs, V!Goto(at, dirs) PROVE job'.at = at /\ job'.dirs = dirs /\ job'.cmd = job.cmd
    BY <1>g, <1>0 DEF V!Goto, VTypeOK
  <1>s. V!Spend => budget'.clean = budget.clean
    BY <1>0 DEF V!Spend, VTypeOK
  <1>i. V!Idle.at = "idle" /\ (job = V!Idle => job.at = "idle")
    BY DEF V!Idle
  <1>2. ASSUME V!AlreadyMigrated PROVE Kept'
    <2>1. /\ job.at = "idle" /\ job'.at = "done" /\ job'.cmd = "migrate" /\ \A d \in V!Dirs : root[d] = "none"
          /\ inboxExists' /\ (inboxExists => inbox' = inbox) /\ UNCHANGED <<root, backups>>
          /\ budget'.clean = budget.clean
      BY <1>2, <1>i, <1>s DEF V!AlreadyMigrated, V!checkLegacyDirsExist
    <2> QED
      BY <2>1, <1>u, <1>k, <1>0 DEF VMoves, VPhase, Legacy, Migrated
  <1>3. ASSUME V!migrateToProjects PROVE Kept'
    <2>1. /\ job.at = "idle" /\ job'.at = "move" /\ job'.cmd = "migrate" /\ job'.dirs = {d \in V!Dirs : root[d] # "none"} /\ V!Dirs # {}
          /\ \E d \in V!Dirs : root[d] # "none"
          /\ backups' = Append(backups, V!None) /\ UNCHANGED <<root, inbox, inboxExists>>
          /\ budget'.clean = budget.clean
      BY <1>3, <1>i, <1>s DEF V!migrateToProjects, V!checkLegacyDirsExist
    <2>2. /\ Len(backups') = Len(backups) + 1 /\ backups'[Len(backups')] = V!None
          /\ \A b \in 1..Len(backups) : backups'[b] = backups[b]
      <3>1. backups \in Seq(Vaults) /\ V!None \in Vaults
        BY <1>0 DEF VTypeOK, V!None, Vaults, Found
      <3> QED
        BY <2>1, <3>1, AppendProperties
    <2>3. \A d \in V!Dirs : Latest(d)' = "none" /\ backups'[Len(backups')][d] = "none"
      BY <2>2, <1>0 DEF Latest, V!None
    <2>4. V!LegacyKept'
      <3> SUFFICES ASSUME NEW d \in V!Dirs
                   PROVE  root'[d] = "orig" \/ \E b \in DOMAIN backups' : backups'[b][d] = "orig"
        BY DEF V!LegacyKept
      <3>1. CASE root[d] = "orig"
        BY <3>1, <2>1
      <3>2. CASE root[d] # "orig"
        <4>1. PICK b \in DOMAIN backups : backups[b][d] = "orig"
          BY <3>2, <1>k DEF V!LegacyKept
        <4>2. b \in 1..Len(backups')
          BY <1>0, <2>2
        <4> QED
          BY <4>1, <4>2, <2>2, <1>0
      <3> QED
        BY <3>1, <3>2
    <2>5. VMoves'
      BY <2>1, <2>3 DEF VMoves
    <2>6. VPhase'
      BY <2>1, <2>3, <1>k, <1>0 DEF VPhase, Legacy, Migrated
    <2> QED
      BY <2>4, <2>5, <2>6
  <1>4. ASSUME V!MoveToBackup PROVE Kept'
    <2> DEFINE d == V!First(job.dirs)
    <2>1. /\ job.at = "move" /\ Len(backups) > 0 /\ d \in job.dirs /\ d \in V!Dirs /\ root[d] \in Found
      BY <1>4, <1>0, FirstOf DEF V!MoveToBackup, VTypeOK, Vaults
    <2>2. /\ Put(backups', backups, d, root[d])
          /\ root' = [root EXCEPT ![d] = "none"]
          /\ job'.at = "move" /\ job'.cmd = job.cmd /\ job'.dirs = job.dirs \ {d} /\ UNCHANGED <<inbox, inboxExists, budget>>
      BY <1>4, <1>g, <1>0, <2>1, BackupWritten DEF V!MoveToBackup, VTypeOK
    <2> HIDE DEF d
    <2>3. backups[Len(backups)][d] = "none"
      BY <2>1, <1>k DEF VMoves
    <2>4. V!LegacyKept'
      <3> SUFFICES ASSUME NEW e \in V!Dirs
                   PROVE  root'[e] = "orig" \/ \E b \in DOMAIN backups' : backups'[b][e] = "orig"
        BY DEF V!LegacyKept
      <3>1. root[e] = "orig" \/ \E b \in DOMAIN backups : backups[b][e] = "orig"
        BY <1>k DEF V!LegacyKept
      <3>2. Len(backups) \in DOMAIN backups /\ DOMAIN backups' = DOMAIN backups
        BY <2>1, <2>2, <1>w
      <3>3. CASE e # d
        BY <3>1, <3>2, <3>3, <2>1, <2>2, <1>w, <1>0 DEF VTypeOK, Vaults
      <3>4. CASE e = d
        <4>1. CASE root[d] = "orig"
          <5>1. backups'[Len(backups)][d] = "orig"
            BY <4>1, <2>1, <2>2, <1>w
          <5> QED
            BY <5>1, <3>2, <3>4
        <4>2. CASE root[d] # "orig"
          <5>1. PICK b \in DOMAIN backups : backups[b][d] = "orig"
            BY <4>2, <3>1, <3>4
          <5>2. b # Len(backups)
            BY <5>1, <2>3
          <5>3. backups'[b][d] = "orig"
            BY <5>1, <5>2, <2>1, <2>2, <1>w
          <5> QED
            BY <5>1, <5>3, <3>2, <3>4
        <4> QED
          BY <4>1, <4>2
      <3> QED
        BY <3>3, <3>4
    <2>5. VMoves'
      <3>1. ASSUME NEW e \in job'.dirs PROVE backups'[Len(backups')][e] = "none"
        <4>1. e \in job.dirs /\ e # d /\ e \in V!Dirs
          BY <3>1, <2>2, <1>0 DEF VTypeOK
        <4>2. backups[Len(backups)][e] = "none"
          BY <4>1, <2>1, <1>k DEF VMoves
        <4> QED
          BY <4>1, <4>2, <2>1, <2>2, <1>w
      <3> QED
        BY <3>1, <2>1, <2>2, <1>k DEF VMoves
    <2>6. VPhase'
      <3> SUFFICES ASSUME budget.clean, ~setup.recreate, NEW e \in V!Dirs
                   PROVE  /\ IF e \in job'.dirs THEN root'[e] = "orig" ELSE root'[e] = "none" /\ Latest(e)' = "orig"
                          /\ inbox'[e] = "none"
        BY <2>2, <1>0 DEF VPhase
      <3>1. /\ IF e \in job.dirs THEN root[e] = "orig" ELSE root[e] = "none" /\ Latest(e) = "orig"
            /\ inbox[e] = "none" /\ root[d] = "orig"
        BY <2>1, <1>k DEF VPhase
      <3>2. /\ root'[e] = IF e = d THEN "none" ELSE root[e]
            /\ Latest(e)' = IF e = d THEN root[d] ELSE Latest(e)
        <4>1. root'[e] = IF e = d THEN "none" ELSE root[e]
          BY <2>1, <2>2, <1>0 DEF VTypeOK, Vaults
        <4>2. Latest(e)' = IF e = d THEN root[d] ELSE Latest(e)
          BY <2>1, <2>2, <1>w
        <4> QED
          BY <4>1, <4>2
      <3> QED
        BY <3>1, <3>2, <2>2
    <2> QED
      BY <2>4, <2>5, <2>6
  <1>5. ASSUME V!bootstrapProject PROVE Kept'
    <2>1. /\ job.at = "move" /\ job.dirs = {} /\ inboxExists' /\ UNCHANGED <<root, backups, budget>>
          /\ job'.at = "copy" /\ job'.cmd = job.cmd /\ job'.dirs = {d \in V!Dirs : backups[Len(backups)][d] # "none"}
          /\ \A d \in V!Dirs : inbox'[d] = IF inbox[d] = "none" THEN "empty" ELSE inbox[d]
          /\ Len(backups) > 0
      BY <1>5, <1>g, <1>0 DEF V!bootstrapProject, V!Moved, VTypeOK
    <2> QED
      BY <2>1, <1>u, <1>k, <1>0 DEF VMoves, VPhase, Latest
  <1>6. ASSUME V!copyDirectory PROVE Kept'
    <2> DEFINE d == V!First(job.dirs)
    <2>1. /\ job.at = "copy" /\ Len(backups) > 0 /\ d \in job.dirs /\ d \in V!Dirs
      BY <1>6, <1>0, FirstOf DEF V!copyDirectory, VTypeOK
    <2>2. /\ job'.at = IF d = "tasks" THEN "cards" ELSE "copy"
          /\ job'.cmd = job.cmd /\ job'.dirs = job.dirs \ {d} /\ UNCHANGED <<root, inboxExists, backups, budget>>
          /\ inbox' = [inbox EXCEPT ![d] = IF backups[Len(backups)][d] = "orig" \/ inbox[d] = "empty"
                                              THEN backups[Len(backups)][d] ELSE "mixed"]
      BY <1>6, <1>g DEF V!copyDirectory
    <2> HIDE DEF d
    <2>3. Latest(d) = backups[Len(backups)][d]
      BY <2>1 DEF Latest
    <2> QED
      BY <2>1, <2>2, <2>3, <1>u, <1>k, <1>0 DEF VMoves, VPhase, VTypeOK, Vaults
  <1>7. ASSUME V!updateTaskCardFrontmatter PROVE Kept'
    <2>1. /\ job.at = "cards" /\ UNCHANGED <<root, inboxExists, backups>>
      BY <1>7 DEF V!updateTaskCardFrontmatter
    <2>2. CASE ~budget'.clean
      BY <2>1, <2>2, <1>7, <1>i, <1>u, <1>g, <1>k DEF V!updateTaskCardFrontmatter, VMoves, VPhase
    <2>3. CASE budget'.clean
      <3>1. /\ inbox' = [inbox EXCEPT !["tasks"] = V!updateTaskFrontmatter(inbox["tasks"])]
            /\ job'.at = "copy" /\ job'.cmd = job.cmd /\ job'.dirs = job.dirs /\ UNCHANGED budget
        BY <1>7, <2>3, <1>g, <1>0 DEF V!updateTaskCardFrontmatter, VTypeOK
      <3>2. inbox["tasks"] = "orig" /\ setup.cards # "tight" => inbox'["tasks"] = "done"
        BY <3>1, <1>0 DEF V!updateTaskFrontmatter, VTypeOK, Vaults
      <3>3. \A d \in V!Dirs : d # "tasks" => inbox'[d] = inbox[d]
        BY <3>1, <1>0 DEF VTypeOK, Vaults
      <3> QED
        BY <2>1, <3>1, <3>2, <3>3, <1>u, <1>k, <1>0 DEF VMoves, VPhase
    <2> QED
      BY <2>2, <2>3
  <1>8. ASSUME V!MigrateDone \/ V!RollbackDone PROVE Kept'
    <2>1. /\ job.dirs = {} /\ job'.at = "done" /\ job'.cmd = job.cmd
          /\ UNCHANGED <<root, inbox, inboxExists, backups, budget>>
          /\ job.at \in {"copy", "back"}
      BY <1>8, <1>g DEF V!MigrateDone, V!RollbackDone
    <2> QED
      BY <2>1, <1>u, <1>k, <1>0 DEF VMoves, VPhase, Legacy, Migrated
  <1>9. ASSUME V!rollbackMigration PROVE Kept'
    <2>1. /\ job.at = "idle" /\ job'.at = "back" /\ job'.cmd = "rollback" /\ budget'.clean = budget.clean
          /\ job'.dirs = {d \in V!Dirs : backups[Len(backups)][d] # "none"}
          /\ \A d \in V!Dirs : inbox'[d] = "none"
          /\ UNCHANGED <<root, backups>> /\ Len(backups) > 0
      BY <1>9, <1>i, <1>s, <1>0, EmptySeq DEF V!rollbackMigration, V!findLatestBackup, V!None, VTypeOK
    <2> QED
      BY <2>1, <1>u, <1>k, <1>0 DEF VMoves, VPhase, Legacy, Migrated, Latest
  <1>10. ASSUME V!MoveBack PROVE Kept'
    <2>1. PICK d \in job.dirs :
            IF root[d] \in {"none", "empty"}
              THEN /\ root' = [root EXCEPT ![d] = backups[Len(backups)][d]]
                   /\ backups' = [backups EXCEPT ![Len(backups)][d] = "none"]
                   /\ V!Goto("back", job.dirs \ {d})
              ELSE job' = V!Idle /\ UNCHANGED <<root, backups>>
      BY <1>10 DEF V!MoveBack, V!findLatestBackup
    <2>2. d \in V!Dirs /\ job.at = "back" /\ Len(backups) > 0 /\ UNCHANGED <<inbox, inboxExists, budget>> /\ "none" \in Found
      BY <1>10, <1>0 DEF V!MoveBack, VTypeOK, Found
    <2>3. CASE root[d] \notin {"none", "empty"}
      BY <2>1, <2>2, <2>3, <1>i, <1>u, <1>k, <1>0 DEF VMoves, VPhase
    <2>4. CASE root[d] \in {"none", "empty"}
      <3>1. /\ root' = [root EXCEPT ![d] = backups[Len(backups)][d]]
            /\ Put(backups', backups, d, "none")
            /\ job'.at = "back" /\ job'.dirs = job.dirs \ {d} /\ job'.cmd = job.cmd
        <4>1. /\ root' = [root EXCEPT ![d] = backups[Len(backups)][d]]
              /\ backups' = [backups EXCEPT ![Len(backups)][d] = "none"]
              /\ V!Goto("back", job.dirs \ {d})
          BY <2>1, <2>4
        <4>2. Put([backups EXCEPT ![Len(backups)][d] = "none"], backups, d, "none")
          BY <2>2, <1>0, BackupWritten DEF VTypeOK
        <4> QED
          BY <4>1, <4>2, <1>g
      <3>2. V!LegacyKept'
        <4> SUFFICES ASSUME NEW e \in V!Dirs
                     PROVE  root'[e] = "orig" \/ \E b \in DOMAIN backups' : backups'[b][e] = "orig"
          BY DEF V!LegacyKept
        <4>1. root[e] = "orig" \/ \E b \in DOMAIN backups : backups[b][e] = "orig"
          BY <1>k DEF V!LegacyKept
        <4>2. DOMAIN backups' = DOMAIN backups
          BY <2>2, <3>1, <1>0, <1>w
        <4> QED
          BY <4>1, <4>2, <2>2, <2>4, <3>1, <1>w, <1>0 DEF VTypeOK, Vaults
      <3>3. VMoves'
        BY <3>1, <2>2, <1>k DEF VMoves
      <3>4. VPhase'
        <4> SUFFICES ASSUME budget.clean, ~setup.recreate, NEW e \in V!Dirs
                     PROVE  /\ IF e \in job'.dirs THEN root'[e] = "none" /\ Latest(e)' = "orig"
                               ELSE root'[e] = "orig" /\ Latest(e)' = "none"
                            /\ inbox'[e] = "none"
          BY <2>2, <3>1, <1>0 DEF VPhase
        <4>1. /\ IF e \in job.dirs THEN root[e] = "none" /\ Latest(e) = "orig"
                 ELSE root[e] = "orig" /\ Latest(e) = "none"
              /\ inbox[e] = "none" /\ Latest(d) = "orig"
          BY <2>2, <1>k DEF VPhase
        <4>2. /\ root'[e] = IF e = d THEN Latest(d) ELSE root[e]
              /\ Latest(e)' = IF e = d THEN "none" ELSE Latest(e)
          <5>1. root'[e] = IF e = d THEN backups[Len(backups)][d] ELSE root[e]
            BY <2>2, <3>1, <1>0 DEF VTypeOK, Vaults
          <5>2. /\ Latest(e)' = IF e = d THEN "none" ELSE Latest(e)
                /\ Latest(d) = backups[Len(backups)][d]
            BY <2>2, <3>1, <1>w
          <5> QED
            BY <5>1, <5>2
        <4> QED
          BY <4>1, <4>2, <3>1, <2>2
      <3> QED
        BY <3>2, <3>3, <3>4
    <2> QED
      BY <2>3, <2>4
  <1>11. ASSUME V!Return PROVE Kept'
    <2>1. /\ job.at = "done" /\ job'.at = "idle"
          /\ UNCHANGED <<root, inbox, inboxExists, backups, budget>>
      BY <1>11, <1>i DEF V!Return
    <2> QED
      BY <2>1, <1>u, <1>k, <1>0 DEF VMoves, VPhase, Legacy, Migrated
  <1>12. ASSUME V!Crash PROVE Kept'
    <2>1. job'.at = "idle" /\ ~budget'.clean /\ UNCHANGED <<root, backups>>
      BY <1>12, <1>i, <1>0 DEF V!Crash, VTypeOK
    <2> QED
      BY <2>1, <1>u DEF VMoves, VPhase
  <1>13. ASSUME V!Recreate PROVE Kept'
    <2>1. PICK d \in V!Dirs : root[d] = "none" /\ root' = [root EXCEPT ![d] = "new"]
      BY <1>13 DEF V!Recreate
    <2>2. /\ setup.recreate /\ job.at = "idle" /\ UNCHANGED <<job, backups, budget>>
      BY <1>13, <1>i DEF V!Recreate
    <2>3. V!LegacyKept'
      BY <2>1, <2>2, <1>k, <1>0 DEF V!LegacyKept, VTypeOK, Vaults
    <2> QED
      BY <2>2, <2>3, <1>0 DEF VMoves, VPhase
  <1>n. Kept'
    BY <1>1, <1>2, <1>3, <1>4, <1>5, <1>6, <1>7, <1>8, <1>9, <1>10, <1>11, <1>12, <1>13 DEF V!Next
  <1> QED
    BY <1>0, <1>n DEF VInv

(* The invariant of the migration holds at the start. *)
LEMMA VaultInit == V!Init => VInv
  <1> SUFFICES ASSUME V!Init PROVE VInv
    OBVIOUS
  <1>1. setup \in VSetup
    BY VaultSetupsType DEF V!Init, VSetup
  <1>2. VTypeOK
    BY <1>1, EmptySeq DEF V!Init, VTypeOK, VSetup, Vaults, Found, V!None, V!Idle, VSteps
  <1>3. Legacy
    BY EmptySeq DEF V!Init, Legacy, Latest, V!None
  <1>4. VMoves /\ V!LegacyKept /\ VPhase
    BY <1>3 DEF V!Init, VMoves, V!LegacyKept, VPhase, V!Idle
  <1> QED
    BY <1>2, <1>4 DEF VInv

(* It implies what the run checks. *)
LEMMA VaultWhole == VInv => V!LegacyKept /\ V!MigrationWhole
  BY TasksInDirs DEF VInv, VTypeOK, VPhase, Legacy, Migrated, V!MigrationWhole

-----------------------------------------------------------------------------
(* The archives. *)

ASetup == [jobs : Nat, runs : Nat, edits : Nat, faults : Nat, empties : Nat]
Packed == Sources \X Nat                       \* what a directory holds
Torn == {"part", "mixed"} \X Nat               \* what a tarball may be instead
ASteps == {"idle", "reserve", "tar", "pack", "hash", "manifest", "insert", "target", "rename", "remanifest", "mark",
           "back", "aside"}
Making == {"tar", "pack", "hash", "manifest", "insert"}
Pruning == {"target", "rename", "remanifest", "mark"}
Restoring == {"back", "aside"}

AJobs == [at : ASteps, src : Sources \cup {""}, id : Nat, prune : BOOLEAN,
          sha : Packed \cup Torn \cup {X!None}, target : Nat]
AJobOK(j) ==
    /\ j.at \in {"reserve"} \cup Making \cup Pruning => j.src \in Sources
    /\ j.at \in Making \cup Pruning \cup Restoring => j.id \in X!Ids
    /\ j.at \in (Making \ {"tar"}) \cup Restoring => payload[j.id] # X!None
    /\ j.at \in {"manifest", "insert"} \cup Pruning \cup Restoring => j.sha # X!None
    /\ j.at = "rename" => j.target \in X!Ids
    /\ j.at \in Restoring => X!has(j.id)

ABudget ==
    /\ budget \in [runs : Nat, edits : Nat, faults : Nat, empties : Nat]
    /\ budget.edits <= setup.edits /\ budget.empties <= setup.empties /\ budget.faults <= setup.faults
AData ==
    /\ setup \in ArchiveSetups
    /\ source \in [Sources -> Packed \cup {X!None}] /\ trash \in [X!Ids -> Packed \cup {X!None}]
    /\ payload \in [X!Ids -> Packed \cup Torn \cup {X!None}]
    /\ manifests \subseteq [id : X!Ids, sha : Packed \cup Torn, pruned : BOOLEAN]
    /\ index \subseteq [id : X!Ids, src : Sources, sha : Packed \cup Torn, pruned : BOOLEAN]
    /\ \A row \in index : payload[row.id] # X!None
    /\ wrote \subseteq Packed
    /\ ABudget
ATypeOK ==
    /\ AData
    /\ jobs \in [1..setup.jobs -> AJobs]
    /\ \A k \in 1..setup.jobs : AJobOK(jobs[k])

(* As long as the Trash is not emptied nothing has to be looked for in an archive. *)
AHeld == setup.empties = 0 => wrote \subseteq X!Range(source) \cup X!Range(trash)

(* One command at a time: every row is as it was written, ... *)
AOwn ==
    /\ \A s \in Sources : source[s] # X!None => source[s][1] = s
    /\ \A row \in index : payload[row.id] = row.sha /\ row.sha \in Packed /\ row.sha[1] = row.src
    /\ \A r1, r2 \in index : r1.id = r2.id => r1 = r2
    /\ \A o \in out : o[1] = o[2]
(* ... and the id of the command is its own. *)
ASolo(j) ==
    /\ j.at \in Making => ~X!has(j.id)
    /\ j.at = "pack" => payload[j.id] = <<"part", 1>>
    /\ j.at = "hash" => payload[j.id] \in Packed /\ payload[j.id][1] = j.src
    /\ j.at \in {"manifest", "insert"} => payload[j.id] = j.sha /\ j.sha \in Packed /\ j.sha[1] = j.src
    /\ j.at \in Pruning => \E row \in index : row.id = j.id /\ row.sha = j.sha /\ row.src = j.src
    /\ j.at \in Restoring => \E row \in index : row.id = j.id /\ row.sha = j.sha

(* And nobody writes: what it has packed is what it moves. *)
AKept == \A c \in wrote : c \in X!Range(source) \/ \E row \in index : row.sha = c
AUnwritten(j) ==
    /\ j.at = "hash" /\ source[j.src] # X!None => payload[j.id] = source[j.src]
    /\ j.at \in {"manifest", "insert", "target", "rename"} /\ source[j.src] # X!None => j.sha = source[j.src]

(* The manifests as the rows have them, without that of one id. *)
Listed(id) == {[id |-> row.id, sha |-> row.sha, pruned |-> row.pruned] : row \in {r \in index : r.id # id}}
AManifests(j) ==
    CASE j.at = "insert" -> manifests = Listed(0) \cup {[id |-> j.id, sha |-> j.sha, pruned |-> FALSE]}
      [] j.at = "mark"   -> manifests = Listed(j.id) \cup {[id |-> j.id, sha |-> j.sha, pruned |-> TRUE]}
      [] OTHER           -> manifests = Listed(0)

AOne ==
    setup.jobs = 1 =>
      /\ AOwn /\ ASolo(jobs[1])
      /\ setup.edits = 0 => AKept /\ AUnwritten(jobs[1])
      /\ budget.faults = setup.faults => AManifests(jobs[1])

AInv == ATypeOK /\ AHeld /\ AOne

-----------------------------------------------------------------------------
(* What a directory or a tarball holds. *)
LEMMA ArchiveData ==
    /\ X!None \notin Packed /\ X!None \notin Torn
    /\ \A n \in Nat : <<"part", n>> \in Torn /\ <<"mixed", n>> \in Torn
    /\ \A s \in Sources, n \in Nat : <<s, n>> \in Packed /\ <<s, n>>[1] = s
    /\ \A c \in Packed \cup Torn : c[1] \in Sources => c \in Packed
  <1>1. \A c \in Packed \cup Torn : Len(c) = 2
    BY DEF Packed, Torn
  <1>2. Len(X!None) = 0
    BY DEF X!None
  <1>3. \A c \in Packed \cup Torn : c[1] \in Sources => c \in Packed
    BY DEF Packed, Torn
  <1> QED
    BY <1>1, <1>2, <1>3 DEF Packed, Torn

(* The id or name taken is a free one. *)
LEMMA LeastOf ==
    ASSUME NEW T \in SUBSET Nat, T # {}
    PROVE  X!Least(T) \in T
  <1>1. \E m \in T : \A n \in T : m <= n
    BY Least
  <1> QED
    BY <1>1 DEF X!Least

(* The row of an id that has one. *)
LEMMA RowOf ==
    ASSUME NEW id, X!has(id)
    PROVE  X!Row(id) \in index /\ X!Row(id).id = id
  BY DEF X!has, X!Row

(* No id is given back, and no tarball's name. *)
Grows == /\ \A id \in X!Ids : payload[id] # X!None => payload'[id] # X!None
         /\ \A id : X!has(id) => X!has(id)'

(* One job changes. *)
LEMMA OneJob ==
    ASSUME ATypeOK, setup' = setup, Grows, NEW j \in 1..setup.jobs, NEW x \in AJobs,
           jobs' = [jobs EXCEPT ![j] = x], AJobOK(x)'
    PROVE  /\ jobs' \in [1..setup'.jobs -> AJobs]
           /\ \A k \in 1..setup'.jobs : AJobOK(jobs[k])'
  <1>1. jobs' \in [1..setup'.jobs -> AJobs] /\ \A k \in 1..setup.jobs : jobs'[k] = IF k = j THEN x ELSE jobs[k]
    BY DEF ATypeOK
  <1>2. ASSUME NEW k \in 1..setup.jobs, k # j PROVE AJobOK(jobs[k])'
    <2>1. jobs'[k] = jobs[k] /\ AJobOK(jobs[k]) /\ jobs[k].id = jobs'[k].id
      BY <1>1, <1>2 DEF ATypeOK
    <2>2. ASSUME NEW y, AJobOK(y) PROVE AJobOK(y)'
      BY <2>2 DEF AJobOK, Grows, Making
    <2> QED
      BY <2>1, <2>2 DEF AJobOK
  <1>3. AJobOK(jobs[j])'
    BY <1>1 DEF AJobOK
  <1> QED
    BY <1>1, <1>2, <1>3

(* One of a budget is spent, the others stay. *)
LEMMA Spent ==
    ASSUME AData, setup' = setup, NEW kind \in {"runs", "edits", "faults", "empties"}, X!Spend(kind)
    PROVE  ABudget' /\ budget[kind] > 0 /\ budget'[kind] < budget[kind]
                    /\ \A k \in {"runs", "edits", "faults", "empties"} \ {kind} : budget'[k] = budget[k]
  <1>1. /\ setup.edits \in Nat /\ setup.faults \in Nat /\ setup.empties \in Nat
        /\ budget \in [runs : Nat, edits : Nat, faults : Nat, empties : Nat]
    BY ArchiveSetupsType DEF AData, ABudget
  <1>2. \A k \in {"runs", "edits", "faults", "empties"} : budget[k] \in Nat
    BY <1>1
  <1>3. /\ budget[kind] > 0
        /\ \A k \in {"runs", "edits", "faults", "empties"} :
               budget'[k] = IF k = kind THEN budget[kind] - 1 ELSE budget[k]
    BY <1>1 DEF X!Spend
  <1>4. budget' \in [runs : Nat, edits : Nat, faults : Nat, empties : Nat]
    BY <1>1, <1>2, <1>3 DEF X!Spend
  <1>5. /\ budget'.edits <= setup.edits /\ budget'.empties <= setup.empties /\ budget'.faults <= setup.faults
    BY <1>1, <1>2, <1>3 DEF AData, ABudget
  <1> QED
    BY <1>2, <1>3, <1>4, <1>5 DEF ABudget

(* No command. *)
LEMMA IdleJob == X!Idle \in AJobs /\ AJobOK(X!Idle)'
  BY DEF X!Idle, AJobs, ASteps, AJobOK, Making, Pruning, Restoring

(* A job goes on, or is over. *)
LEMMA GoesOn ==
    ASSUME ATypeOK, NEW j \in DOMAIN jobs
    PROVE  /\ X!Leave(j) => jobs' = [jobs EXCEPT ![j] = X!Idle]
           /\ \A at \in ASteps : X!Goto(j, at) =>
                \E x \in AJobs : /\ jobs' = [jobs EXCEPT ![j] = x]
                                 /\ x = [jobs[j] EXCEPT !.at = at]
  <1>1. jobs[j] \in AJobs
    BY DEF ATypeOK
  <1>2. ASSUME NEW at \in ASteps, X!Goto(j, at)
        PROVE  \E x \in AJobs : jobs' = [jobs EXCEPT ![j] = x] /\ x = [jobs[j] EXCEPT !.at = at]
    <2>1. [jobs[j] EXCEPT !.at = at] \in AJobs
      BY <1>1 DEF AJobs
    <2>2. jobs' = [jobs EXCEPT ![j] = [jobs[j] EXCEPT !.at = at]]
      BY <1>2 DEF X!Goto
    <2> QED
      BY <2>1, <2>2
  <1> QED
    BY <1>2 DEF X!Leave

(* One step of one command. *)
LEMMA JobStep ==
    ASSUME ATypeOK, setup' = setup, Grows, AData', NEW j \in DOMAIN jobs, NEW x \in AJobs,
           jobs' = [jobs EXCEPT ![j] = x], AJobOK(x)'
    PROVE  ATypeOK'
  <1>1. j \in 1..setup.jobs
    BY DEF ATypeOK
  <1>2. /\ jobs' \in [1..setup'.jobs -> AJobs]
        /\ \A k \in 1..setup'.jobs : AJobOK(jobs[k])'
    BY <1>1, OneJob
  <1> QED
    BY <1>2 DEF ATypeOK

(* The steps of the archive commands keep the types. *)
LEMMA ArchiveType == ATypeOK /\ X!Next => ATypeOK'
  <1> SUFFICES ASSUME ATypeOK, X!Next PROVE ATypeOK'
    OBVIOUS
  <1>0. AData /\ AJobOK(X!Idle)' /\ X!Idle \in AJobs
    BY IdleJob DEF ATypeOK
  <1>k. ASSUME payload' = payload, index' = index PROVE Grows
    BY <1>k DEF Grows, X!has
  <1>j. ASSUME NEW j \in DOMAIN jobs PROVE jobs[j] \in AJobs /\ AJobOK(jobs[j]) /\ j \in Nat
    BY ArchiveSetupsType DEF ATypeOK, AData
  <1>b. ASSUME setup' = setup, budget' = budget PROVE ABudget'
    BY <1>0, <1>b DEF AData, ABudget
  <1>1. ASSUME NEW j \in DOMAIN jobs, X!archive(j) PROVE ATypeOK'
    <2>1. ABudget' /\ UNCHANGED <<setup, source, trash, payload, manifests, index, wrote>>
      BY <1>0, <1>1, Spent DEF X!archive
    <2>2. PICK s \in Sources, prune \in BOOLEAN :
            jobs' = [jobs EXCEPT ![j] = [X!Idle EXCEPT !.at = "reserve", !.src = s, !.prune = prune]]
      BY <1>1 DEF X!archive
    <2>3. PICK x : x = [X!Idle EXCEPT !.at = "reserve", !.src = s, !.prune = prune]
      OBVIOUS
    <2>4. x \in AJobs /\ AJobOK(x)'
      BY <2>3 DEF X!Idle, AJobs, ASteps, AJobOK, Making, Pruning, Restoring
    <2>5. AData'
      BY <1>0, <2>1 DEF AData
    <2> QED
      BY <1>k, <2>1, <2>2, <2>3, <2>4, <2>5, JobStep
  <1>2. ASSUME NEW j \in DOMAIN jobs, X!reserveArchiveId(j) PROVE ATypeOK'
    <2>1. UNCHANGED <<setup, source, trash, payload, manifests, index, wrote, budget>>
      BY <1>2 DEF X!reserveArchiveId
    <2>2. AData'
      BY <1>0, <1>b, <2>1 DEF AData
    <2>i. X!FreeIds \subseteq X!Ids /\ X!FreeIds \subseteq Nat /\ X!FreeIds # {}
      <3>1. X!FreeIds # {}
        BY <1>2 DEF X!reserveArchiveId
      <3>2. X!FreeIds \subseteq X!Ids
        BY DEF X!FreeIds
      <3> QED
        BY <3>1, <3>2, ArchiveSetupsType DEF X!Ids
    <2>3. X!Least(X!FreeIds) \in X!FreeIds
      BY <2>i, LeastOf
    <2>4. PICK x : x = [jobs[j] EXCEPT !.at = "tar", !.id = X!Least(X!FreeIds)]
      OBVIOUS
    <2>5. jobs' = [jobs EXCEPT ![j] = x] /\ jobs[j].at = "reserve"
      BY <1>2, <2>4 DEF X!reserveArchiveId, X!At
    <2>6. x \in AJobs /\ AJobOK(x)'
      BY <1>j, <2>i, <2>3, <2>4, <2>5 DEF AJobs, ASteps, AJobOK, Making, Pruning, Restoring
    <2> QED
      BY <1>k, <2>1, <2>2, <2>5, <2>6, JobStep
  <1>3. ASSUME NEW j \in DOMAIN jobs, X!TarOpens(j) PROVE ATypeOK'
    <2>1. /\ payload' = [payload EXCEPT ![jobs[j].id] = <<"part", j>>] /\ jobs[j].at = "tar"
          /\ UNCHANGED <<setup, source, trash, manifests, index, out, wrote, budget>>
      BY <1>3 DEF X!TarOpens, X!At
    <2>2. jobs[j].id \in X!Ids /\ <<"part", j>> \in Torn /\ <<"part", j>> # X!None
      BY <1>j, <2>1, ArchiveData DEF AJobOK, Making
    <2>3. \A id \in X!Ids : payload'[id] = IF id = jobs[j].id THEN <<"part", j>> ELSE payload[id]
      BY <1>0, <2>1 DEF AData
    <2>4. Grows
      BY <2>1, <2>2, <2>3 DEF Grows, X!has
    <2>5. AData'
      BY <1>0, <1>b, <2>1, <2>2, <2>3 DEF AData
    <2>6. CASE X!Leave(j)
      BY <1>0, <2>1, <2>4, <2>5, <2>6, GoesOn, JobStep
    <2>7. CASE X!Goto(j, "pack")
      <3>1. PICK x \in AJobs : jobs' = [jobs EXCEPT ![j] = x] /\ x = [jobs[j] EXCEPT !.at = "pack"]
        BY <2>7, GoesOn DEF ASteps
      <3>2. AJobOK(x)'
        BY <1>j, <2>1, <2>2, <2>3, <3>1 DEF AJobs, AJobOK, Making, Pruning, Restoring
      <3> QED
        BY <2>1, <2>4, <2>5, <3>1, <3>2, JobStep
    <2> QED
      BY <1>3, <2>6, <2>7 DEF X!TarOpens
  <1>4. ASSUME NEW j \in DOMAIN jobs, X!createTarGz(j) PROVE ATypeOK'
    <2>1. jobs[j].at = "pack" /\ UNCHANGED <<setup, source, trash, manifests, index, out, wrote, budget>>
      BY <1>4 DEF X!createTarGz, X!At
    <2>2. CASE X!Leave(j) /\ payload' = payload
      <3>1. AData'
        BY <1>0, <1>b, <2>1, <2>2 DEF AData
      <3> QED
        BY <1>0, <1>k, <2>1, <2>2, <3>1, GoesOn, JobStep
    <2>3. CASE X!Goto(j, "hash") /\ source[jobs[j].src] # X!None
               /\ \E c \in {source[jobs[j].src]} \cup {<<"mixed", j>>} : payload' = [payload EXCEPT ![jobs[j].id] = c]
      <3>1. PICK c \in {source[jobs[j].src]} \cup {<<"mixed", j>>} : payload' = [payload EXCEPT ![jobs[j].id] = c]
        BY <2>3
      <3>i. jobs[j].id \in X!Ids /\ jobs[j].src \in Sources
        BY <1>j, <2>1 DEF AJobOK, Making
      <3>2. c \in Packed \cup Torn /\ c # X!None
        <4>1. source[jobs[j].src] \in Packed
          BY <1>0, <2>3, <3>i DEF AData
        <4>2. <<"mixed", j>> \in Torn
          BY <1>j, ArchiveData
        <4> QED
          BY <4>1, <4>2, ArchiveData
      <3>3. \A id \in X!Ids : payload'[id] = IF id = jobs[j].id THEN c ELSE payload[id]
        BY <1>0, <3>1 DEF AData
      <3>4. Grows
        BY <2>1, <3>i, <3>2, <3>3 DEF Grows, X!has
      <3>5. AData'
        BY <1>0, <1>b, <2>1, <3>i, <3>1, <3>2, <3>3 DEF AData
      <3>6. PICK x \in AJobs : jobs' = [jobs EXCEPT ![j] = x] /\ x = [jobs[j] EXCEPT !.at = "hash"]
        BY <2>3, GoesOn DEF ASteps
      <3>7. AJobOK(x)'
        BY <1>j, <2>1, <3>i, <3>2, <3>3, <3>6 DEF AJobs, AJobOK, Making, Pruning, Restoring
      <3> QED
        BY <2>1, <3>4, <3>5, <3>6, <3>7, JobStep
    <2> QED
      BY <1>4, <2>2, <2>3 DEF X!createTarGz
  <1>5. ASSUME NEW j \in DOMAIN jobs, X!sha256File(j) PROVE ATypeOK'
    <2>1. /\ UNCHANGED <<setup, source, trash, payload, manifests, index, wrote, budget>>
          /\ jobs[j].at = "hash"
          /\ jobs' = [jobs EXCEPT ![j] = [jobs[j] EXCEPT !.at = "manifest", !.sha = payload[jobs[j].id]]]
      BY <1>5 DEF X!sha256File, X!At
    <2>2. AData'
      BY <1>0, <1>b, <2>1 DEF AData
    <2>3. jobs[j].id \in X!Ids /\ payload[jobs[j].id] \in Packed \cup Torn
      BY <1>0, <1>j, <2>1 DEF AJobOK, Making, AData
    <2>4. PICK x : x = [jobs[j] EXCEPT !.at = "manifest", !.sha = payload[jobs[j].id]]
      OBVIOUS
    <2>5. x \in AJobs /\ AJobOK(x)'
      <3>1. x \in AJobs
        BY <1>j, <2>3, <2>4, ZenonT(60) DEF AJobs, ASteps
      <3>2. x.at = "manifest" /\ x.id = jobs[j].id /\ x.sha # X!None
        BY <1>j, <2>3, <2>4, ArchiveData, ZenonT(60) DEF AJobs
      <3>3. x.src = jobs[j].src /\ jobs[j].src \in Sources /\ payload[jobs[j].id] # X!None
        BY <1>j, <2>1, <2>4 DEF AJobs, AJobOK, Making
      <3> QED
        BY <2>1, <2>3, <3>1, <3>2, <3>3 DEF AJobOK, Making, Pruning, Restoring
    <2> QED
      BY <1>k, <2>1, <2>2, <2>4, <2>5, JobStep
  <1>6. ASSUME NEW j \in DOMAIN jobs, X!writeManifest(j) PROVE ATypeOK'
    <2>1. UNCHANGED <<setup, source, trash, payload, index, wrote, budget>>
      BY <1>6 DEF X!writeManifest
    <2>2. PICK pruned \in BOOLEAN, at \in {"insert", "mark"} :
            /\ jobs[j].at = IF at = "mark" THEN "remanifest" ELSE "manifest"
            /\ manifests' = X!Written(j, pruned) /\ X!Goto(j, at)
      BY <1>6 DEF X!writeManifest, X!At
    <2>3. jobs[j].id \in X!Ids /\ jobs[j].sha \in Packed \cup Torn
      BY <1>j, <2>2 DEF AJobOK, AJobs, Making, Pruning
    <2>4. AData'
      <3>1. [id |-> jobs[j].id, sha |-> jobs[j].sha, pruned |-> pruned]
              \in [id : X!Ids, sha : Packed \cup Torn, pruned : BOOLEAN]
        BY <2>3
      <3> QED
        BY <1>0, <1>b, <2>1, <2>2, <3>1 DEF AData, X!Written
    <2>5. PICK x \in AJobs : jobs' = [jobs EXCEPT ![j] = x] /\ x = [jobs[j] EXCEPT !.at = at]
      BY <2>2, GoesOn DEF ASteps
    <2>6. /\ x.at = at /\ x.src = jobs[j].src /\ x.id = jobs[j].id /\ x.sha = jobs[j].sha
          /\ jobs[j].src \in Sources /\ jobs[j].sha # X!None
          /\ at = "insert" => payload[jobs[j].id] # X!None
      BY <1>j, <2>2, <2>5 DEF AJobs, AJobOK, Making, Pruning
    <2>7. AJobOK(x)'
      BY <2>1, <2>3, <2>6 DEF AJobOK, Making, Pruning, Restoring
    <2> QED
      BY <1>k, <2>1, <2>4, <2>5, <2>7, JobStep
  <1>7. ASSUME NEW j \in DOMAIN jobs, X!insert(j) PROVE ATypeOK'
    <2>1. jobs[j].at = "insert" /\ UNCHANGED <<setup, source, trash, payload, manifests, wrote, budget>>
      BY <1>7 DEF X!insert, X!At
    <2>2. /\ jobs[j].id \in X!Ids /\ jobs[j].src \in Sources /\ jobs[j].sha \in Packed \cup Torn
          /\ jobs[j].sha # X!None /\ jobs[j].at \in Making
      BY <1>j, <2>1 DEF AJobOK, AJobs, Making
    <2>3. CASE X!Leave(j) /\ index' = index
      <3>1. AData'
        BY <1>0, <1>b, <2>1, <2>3 DEF AData
      <3> QED
        BY <1>0, <1>k, <2>1, <2>3, <3>1, GoesOn, JobStep
    <2>4. CASE /\ ~X!has(jobs[j].id)
               /\ index' = index \cup {[id |-> jobs[j].id, src |-> jobs[j].src, sha |-> jobs[j].sha, pruned |-> FALSE]}
               /\ X!Goto(j, "target") \/ X!Leave(j)
      <3>1. Grows
        BY <2>1, <2>4 DEF Grows, X!has
      <3>2. payload[jobs[j].id] # X!None
        BY <1>j, <2>1 DEF AJobOK, Making
      <3>i. [id |-> jobs[j].id, src |-> jobs[j].src, sha |-> jobs[j].sha, pruned |-> FALSE]
              \in [id : X!Ids, src : Sources, sha : Packed \cup Torn, pruned : BOOLEAN]
        BY <2>2
      <3>3. AData'
        <4>1. [id |-> jobs[j].id, src |-> jobs[j].src, sha |-> jobs[j].sha, pruned |-> FALSE].id = jobs[j].id
          OBVIOUS
        <4>2. \A row \in index' : payload'[row.id] # X!None
          BY <1>0, <2>1, <2>4, <3>2, <4>1 DEF AData
        <4> QED
          BY <1>0, <1>b, <2>1, <2>4, <3>i, <4>2 DEF AData
      <3>4. CASE X!Leave(j)
        BY <1>0, <2>1, <3>1, <3>3, <3>4, GoesOn, JobStep
      <3>5. CASE X!Goto(j, "target")
        <4>1. PICK x \in AJobs : jobs' = [jobs EXCEPT ![j] = x] /\ x = [jobs[j] EXCEPT !.at = "target"]
          BY <3>5, GoesOn DEF ASteps
        <4>2. AJobOK(x)'
          BY <1>j, <2>1, <2>2, <4>1 DEF AJobs, AJobOK, Making, Pruning, Restoring
        <4> QED
          BY <2>1, <3>1, <3>3, <4>1, <4>2, JobStep
      <3> QED
        BY <2>4, <3>4, <3>5
    <2> QED
      BY <1>7, <2>3, <2>4 DEF X!insert
  <1>8. ASSUME NEW j \in DOMAIN jobs, X!nextTrashTarget(j) PROVE ATypeOK'
    <2>1. UNCHANGED <<setup, source, trash, payload, manifests, index, wrote, budget>>
      BY <1>8 DEF X!nextTrashTarget
    <2>2. AData'
      BY <1>0, <1>b, <2>1 DEF AData
    <2>3. X!FreeNames \subseteq X!Ids /\ X!FreeNames \subseteq Nat
      BY ArchiveSetupsType DEF X!FreeNames, X!Ids
    <2>4. X!FreeNames # {}
      BY <1>8 DEF X!nextTrashTarget
    <2>5. X!Least(X!FreeNames) \in X!FreeNames
      BY <2>3, <2>4, LeastOf
    <2>6. PICK x : x = [jobs[j] EXCEPT !.at = "rename", !.target = X!Least(X!FreeNames)]
      OBVIOUS
    <2>7. jobs' = [jobs EXCEPT ![j] = x] /\ jobs[j].at = "target"
      BY <1>8, <2>6 DEF X!nextTrashTarget, X!At
    <2>8. x \in AJobs /\ AJobOK(x)'
      BY <1>j, <2>3, <2>5, <2>6, <2>7 DEF AJobs, ASteps, AJobOK, Making, Pruning, Restoring
    <2> QED
      BY <1>k, <2>1, <2>2, <2>7, <2>8, JobStep
  <1>9. ASSUME NEW j \in DOMAIN jobs, X!moveSourceToTrash(j) PROVE ATypeOK'
    <2>1. jobs[j].at = "rename" /\ UNCHANGED <<setup, payload, manifests, index, wrote, budget>>
      BY <1>9 DEF X!moveSourceToTrash, X!At
    <2>2. jobs[j].src \in Sources /\ jobs[j].target \in X!Ids
      BY <1>j, <2>1 DEF AJobOK, Pruning
    <2>3. CASE X!Leave(j) /\ UNCHANGED <<source, trash>>
      <3>1. AData'
        BY <1>0, <1>b, <2>1, <2>3 DEF AData
      <3> QED
        BY <1>0, <1>k, <2>1, <2>3, <3>1, GoesOn, JobStep
    <2>4. CASE /\ X!Goto(j, "remanifest")
               /\ trash' = [trash EXCEPT ![jobs[j].target] = source[jobs[j].src]]
               /\ source' = [source EXCEPT ![jobs[j].src] = X!None]
      <3>1. AData'
        BY <1>0, <1>b, <2>1, <2>2, <2>4 DEF AData
      <3>2. PICK x \in AJobs : jobs' = [jobs EXCEPT ![j] = x] /\ x = [jobs[j] EXCEPT !.at = "remanifest"]
        BY <2>4, GoesOn DEF ASteps
      <3>3. AJobOK(x)'
        BY <1>j, <2>1, <2>2, <3>2 DEF AJobs, AJobOK, Making, Pruning, Restoring
      <3> QED
        BY <1>k, <2>1, <3>1, <3>2, <3>3, JobStep
    <2> QED
      BY <1>9, <2>3, <2>4 DEF X!moveSourceToTrash
  <1>10. ASSUME NEW j \in DOMAIN jobs, X!markPruned(j) PROVE ATypeOK'
    <2>1. /\ UNCHANGED <<setup, source, trash, payload, manifests, wrote, budget>> /\ X!Leave(j)
          /\ index' = {IF row.id = jobs[j].id THEN [row EXCEPT !.pruned = TRUE] ELSE row : row \in index}
      BY <1>10 DEF X!markPruned
    <2>2. \A row \in index : [row EXCEPT !.pruned = TRUE] \in [id : X!Ids, src : Sources, sha : Packed \cup Torn, pruned : BOOLEAN]
      BY <1>0 DEF AData
    <2>3. \A row \in index : [row EXCEPT !.pruned = TRUE].id = row.id
      BY <1>0 DEF AData
    <2>4. Grows
      BY <2>1, <2>3 DEF Grows, X!has
    <2>5. AData'
      BY <1>0, <1>b, <2>1, <2>2, <2>3 DEF AData
    <2> QED
      BY <1>0, <2>1, <2>4, <2>5, GoesOn, JobStep
  <1>11. ASSUME NEW j \in DOMAIN jobs, X!restore(j) PROVE ATypeOK'
    <2>1. ABudget' /\ UNCHANGED <<setup, source, trash, payload, manifests, index, wrote>>
      BY <1>0, <1>11, Spent DEF X!restore
    <2>2. AData'
      BY <1>0, <2>1 DEF AData
    <2>3. PICK row \in index, at \in {"back", "aside"} :
            /\ payload[row.id] = row.sha
            /\ jobs' = [jobs EXCEPT ![j] = [X!Idle EXCEPT !.at = at, !.id = row.id, !.sha = row.sha]]
      BY <1>11 DEF X!restore
    <2>4. /\ row \in [id : X!Ids, src : Sources, sha : Packed \cup Torn, pruned : BOOLEAN]
          /\ payload[row.id] # X!None /\ X!has(row.id)
      BY <1>0 DEF AData, X!has
    <2>5. PICK x : x = [X!Idle EXCEPT !.at = at, !.id = row.id, !.sha = row.sha]
      OBVIOUS
    <2>6. x \in AJobs
      <3>1. row.id \in Nat /\ row.sha \in Packed \cup Torn
        BY <2>4, ArchiveSetupsType DEF X!Ids
      <3> QED
        BY <2>5, <3>1 DEF X!Idle, AJobs, ASteps
    <2>7. x.id = row.id /\ x.at = at /\ x.sha = row.sha
      BY <2>5 DEF X!Idle
    <2>8. AJobOK(x)'
      BY <2>1, <2>3, <2>4, <2>7 DEF AJobOK, Making, Pruning, Restoring, X!has
    <2> QED
      BY <1>k, <2>1, <2>2, <2>3, <2>5, <2>6, <2>8, JobStep
  <1>12. ASSUME NEW j \in DOMAIN jobs, X!extractTarGz(j) PROVE ATypeOK'
    <2>1. /\ jobs[j].at \in Restoring /\ X!Leave(j)
          /\ UNCHANGED <<setup, trash, payload, manifests, index, budget>>
      BY <1>12 DEF X!extractTarGz, Restoring
    <2>2. jobs[j].id \in X!Ids /\ payload[jobs[j].id] # X!None /\ X!has(jobs[j].id)
      BY <1>j, <2>1 DEF AJobOK
    <2>3. payload[jobs[j].id] \in Packed \cup Torn /\ X!Row(jobs[j].id).src \in Sources
      BY <1>0, <2>2, RowOf DEF AData
    <2>4. CASE UNCHANGED <<source, wrote>>
      <3>1. AData'
        BY <1>0, <1>b, <2>1, <2>4 DEF AData
      <3> QED
        BY <1>0, <1>k, <2>1, <3>1, GoesOn, JobStep
    <2>5. CASE /\ payload[jobs[j].id][1] \in Sources
               /\ source' = [source EXCEPT ![X!Row(jobs[j].id).src] = payload[jobs[j].id]]
               /\ wrote' = (wrote \ {source[X!Row(jobs[j].id).src]}) \cup {payload[jobs[j].id]}
      <3>1. payload[jobs[j].id] \in Packed
        BY <2>3, <2>5, ArchiveData
      <3>2. AData'
        BY <1>0, <1>b, <2>1, <2>3, <2>5, <3>1 DEF AData
      <3> QED
        BY <1>0, <1>k, <2>1, <3>2, GoesOn, JobStep
    <2> QED
      BY <1>12, <2>4, <2>5 DEF X!extractTarGz
  <1>13. ASSUME NEW j \in DOMAIN jobs, X!Fault(j) PROVE ATypeOK'
    <2>1. ABudget' /\ UNCHANGED <<setup, trash, payload, index>> /\ X!Leave(j)
      BY <1>0, <1>13, Spent DEF X!Fault
    <2>2. CASE UNCHANGED <<manifests, source, wrote>>
      <3>1. AData'
        BY <1>0, <2>1, <2>2 DEF AData
      <3> QED
        BY <1>0, <1>k, <2>1, <3>1, GoesOn, JobStep
    <2>3. CASE /\ jobs[j].at \in {"manifest", "remanifest"} /\ UNCHANGED <<source, wrote>>
               /\ manifests' = {m \in manifests : m.id # jobs[j].id}
                               \cup {[id |-> jobs[j].id, sha |-> <<"part", j>>, pruned |-> FALSE]}
      <3>1. jobs[j].id \in X!Ids /\ <<"part", j>> \in Torn
        BY <1>j, <2>3, ArchiveData DEF AJobOK, Making, Pruning
      <3>2. AData'
        <4>1. [id |-> jobs[j].id, sha |-> <<"part", j>>, pruned |-> FALSE]
                \in [id : X!Ids, sha : Packed \cup Torn, pruned : BOOLEAN]
          BY <3>1
        <4> QED
          BY <1>0, <2>1, <2>3, <4>1 DEF AData
      <3> QED
        BY <1>0, <1>k, <2>1, <3>2, GoesOn, JobStep
    <2>4. CASE /\ X!At(j, "back") /\ UNCHANGED manifests
               /\ source' = [source EXCEPT ![X!Row(jobs[j].id).src] = <<X!Row(jobs[j].id).src, 0>>]
               /\ wrote' = wrote \ {source[X!Row(jobs[j].id).src]}
      <3>1. X!Row(jobs[j].id).src \in Sources
        BY <1>0, <1>j, <2>4, RowOf DEF AJobOK, Restoring, AData, X!At
      <3>2. <<X!Row(jobs[j].id).src, 0>> \in Packed
        BY <3>1, ArchiveData
      <3>3. AData'
        BY <1>0, <2>1, <2>4, <3>1, <3>2 DEF AData
      <3> QED
        BY <1>0, <1>k, <2>1, <3>3, GoesOn, JobStep
    <2> QED
      BY <1>13, <2>2, <2>3, <2>4 DEF X!Fault
  <1>14. ASSUME NEW s \in Sources, X!Edit(s) PROVE ATypeOK'
    <2>1. ABudget' /\ UNCHANGED <<setup, trash, payload, manifests, index, jobs>>
      BY <1>0, <1>14, Spent DEF X!Edit
    <2>2. <<s, 2 + setup.edits - budget.edits>> \in Packed
      <3>1. setup.edits \in Nat /\ budget.edits \in Nat /\ budget.edits <= setup.edits
        BY <1>0, ArchiveSetupsType DEF AData, ABudget
      <3> QED
        BY <3>1, ArchiveData
    <2>3. AData'
      BY <1>0, <1>14, <2>1, <2>2 DEF X!Edit, AData
    <2> QED
      BY <2>1, <2>3 DEF ATypeOK, AJobOK, X!has
  <1>15. ASSUME X!EmptyTrash PROVE ATypeOK'
    <2>1. /\ ABudget' /\ UNCHANGED <<setup, source, payload, manifests, index, jobs, wrote>>
          /\ trash' = [n \in X!Ids |-> X!None]
      BY <1>0, <1>15, Spent DEF X!EmptyTrash
    <2>2. AData'
      BY <1>0, <2>1 DEF AData
    <2> QED
      BY <2>1, <2>2 DEF ATypeOK, AJobOK, X!has
  <1> QED
    BY <1>1, <1>2, <1>3, <1>4, <1>5, <1>6, <1>7, <1>8, <1>9, <1>10, <1>11, <1>12, <1>13, <1>14, <1>15 DEF X!Next

(* One directory gets another content; the user has not replaced the rest. *)
LEMMA Overwritten ==
    ASSUME AData, NEW s \in Sources, NEW c, source' = [source EXCEPT ![s] = c],
           wrote' \subseteq (wrote \ {source[s]}) \cup {c}
    PROVE  \A w \in wrote' : w \in X!Range(source)' \/ (w \in wrote /\ w \notin X!Range(source))
  <1> SUFFICES ASSUME NEW w \in wrote'
               PROVE  w \in X!Range(source)' \/ (w \in wrote /\ w \notin X!Range(source))
    OBVIOUS
  <1>1. \A t \in Sources : source'[t] = IF t = s THEN c ELSE source[t]
    BY DEF AData
  <1>2. DOMAIN source = Sources /\ DOMAIN source' = Sources
    BY DEF AData
  <1>3. CASE w = c
    BY <1>1, <1>2, <1>3 DEF X!Range
  <1>4. CASE w # c
    <2>1. w \in wrote /\ w # source[s]
      BY <1>4
    <2>2. ASSUME w \in X!Range(source) PROVE w \in X!Range(source)'
      <3>1. PICK t \in Sources : source[t] = w
        BY <1>2, <2>2 DEF X!Range
      <3> QED
        BY <1>1, <1>2, <2>1, <3>1 DEF X!Range
    <2> QED
      BY <2>1, <2>2
  <1> QED
    BY <1>3, <1>4

(* No step but emptying the Trash takes a content from directories and Trash. *)
LEMMA AHeldStep == ATypeOK /\ AHeld /\ X!Next => AHeld'
  <1> SUFFICES ASSUME ATypeOK, AHeld, X!Next PROVE AHeld'
    OBVIOUS
  <1>0. AData
    BY DEF ATypeOK
  <1>u. ASSUME UNCHANGED <<setup, source, trash, wrote>> PROVE AHeld'
    BY <1>u DEF AHeld
  <1>w. ASSUME NEW s \in Sources, NEW c, UNCHANGED <<setup, trash>>, source' = [source EXCEPT ![s] = c],
               wrote' \subseteq (wrote \ {source[s]}) \cup {c}
        PROVE  AHeld'
    <2>1. \A w \in wrote' : w \in X!Range(source)' \/ (w \in wrote /\ w \notin X!Range(source))
      BY <1>0, <1>w, Overwritten
    <2>2. X!Range(trash)' = X!Range(trash)
      BY <1>w
    <2> QED
      BY <1>w, <2>1, <2>2 DEF AHeld
  <1>1. ASSUME NEW j \in DOMAIN jobs, X!moveSourceToTrash(j) PROVE AHeld'
    <2>1. jobs[j].at = "rename" /\ UNCHANGED <<setup, wrote>>
      BY <1>1 DEF X!moveSourceToTrash, X!At
    <2>2. jobs[j].src \in Sources /\ jobs[j].target \in X!Ids
      BY <2>1 DEF ATypeOK, AJobOK, Pruning
    <2>3. CASE UNCHANGED <<source, trash>>
      BY <1>u, <2>1, <2>3
    <2>4. CASE /\ trash[jobs[j].target] = X!None
               /\ trash' = [trash EXCEPT ![jobs[j].target] = source[jobs[j].src]]
               /\ source' = [source EXCEPT ![jobs[j].src] = X!None]
      <3> SUFFICES ASSUME setup.empties = 0, NEW w \in wrote
                   PROVE  w \in X!Range(source)' \cup X!Range(trash)'
        BY <2>1 DEF AHeld
      <3>1. w # X!None /\ w \in X!Range(source) \cup X!Range(trash)
        BY <1>0, ArchiveData DEF AData, AHeld
      <3>2. /\ \A t \in Sources : source'[t] = IF t = jobs[j].src THEN X!None ELSE source[t]
            /\ \A n \in X!Ids : trash'[n] = IF n = jobs[j].target THEN source[jobs[j].src] ELSE trash[n]
            /\ DOMAIN source = Sources /\ DOMAIN source' = Sources /\ DOMAIN trash = X!Ids /\ DOMAIN trash' = X!Ids
        BY <1>0, <2>4 DEF AData
      <3>3. CASE w \in X!Range(source)
        <4>1. PICK t \in Sources : source[t] = w
          BY <3>2, <3>3 DEF X!Range
        <4> QED
          BY <2>2, <3>2, <4>1 DEF X!Range
      <3>4. CASE w \in X!Range(trash)
        <4>1. PICK n \in X!Ids : trash[n] = w
          BY <3>2, <3>4 DEF X!Range
        <4> QED
          BY <2>4, <3>1, <3>2, <4>1 DEF X!Range
      <3> QED
        BY <3>1, <3>3, <3>4
    <2> QED
      BY <1>1, <2>3, <2>4 DEF X!moveSourceToTrash
  <1>2. ASSUME NEW j \in DOMAIN jobs, X!extractTarGz(j) PROVE AHeld'
    <2>1. UNCHANGED <<setup, trash>> /\ jobs[j].at \in Restoring
      BY <1>2 DEF X!extractTarGz, Restoring
    <2>2. X!Row(jobs[j].id).src \in Sources
      BY <1>0, <2>1, RowOf DEF ATypeOK, AJobOK, AData
    <2>3. \/ UNCHANGED <<source, wrote>>
          \/ /\ source' = [source EXCEPT ![X!Row(jobs[j].id).src] = payload[jobs[j].id]]
             /\ wrote' = (wrote \ {source[X!Row(jobs[j].id).src]}) \cup {payload[jobs[j].id]}
      BY <1>2 DEF X!extractTarGz
    <2> QED
      BY <1>u, <1>w, <2>1, <2>2, <2>3
  <1>3. ASSUME NEW j \in DOMAIN jobs, X!Fault(j) PROVE AHeld'
    <2>1. UNCHANGED <<setup, trash>>
      BY <1>3 DEF X!Fault
    <2>2. \/ UNCHANGED <<source, wrote>>
          \/ /\ jobs[j].at = "back"
             /\ source' = [source EXCEPT ![X!Row(jobs[j].id).src] = <<X!Row(jobs[j].id).src, 0>>]
             /\ wrote' = wrote \ {source[X!Row(jobs[j].id).src]}
      BY <1>3 DEF X!Fault, X!At
    <2>3. jobs[j].at = "back" => X!Row(jobs[j].id).src \in Sources
      BY <1>0, RowOf DEF ATypeOK, AJobOK, AData, Restoring
    <2> QED
      BY <1>u, <1>w, <2>1, <2>2, <2>3
  <1>4. ASSUME NEW s \in Sources, X!Edit(s) PROVE AHeld'
    BY <1>w, <1>4 DEF X!Edit
  <1>5. ASSUME X!EmptyTrash PROVE AHeld'
    <2>1. setup' = setup /\ budget["empties"] > 0
      BY <1>5 DEF X!EmptyTrash, X!Spend
    <2>2. setup.empties # 0
      BY <1>0, <2>1, ArchiveSetupsType DEF AData, ABudget
    <2> QED
      BY <2>1, <2>2 DEF AHeld
  <1>6. ASSUME NEW j \in DOMAIN jobs,
               \/ X!archive(j) \/ X!reserveArchiveId(j) \/ X!TarOpens(j) \/ X!createTarGz(j) \/ X!sha256File(j)
               \/ X!writeManifest(j) \/ X!insert(j) \/ X!nextTrashTarget(j) \/ X!markPruned(j) \/ X!restore(j)
        PROVE  AHeld'
    BY <1>u, <1>6 DEF X!archive, X!reserveArchiveId, X!TarOpens, X!createTarGz, X!sha256File, X!writeManifest,
                      X!insert, X!nextTrashTarget, X!markPruned, X!restore
  <1> QED
    BY <1>1, <1>2, <1>3, <1>4, <1>5, <1>6 DEF X!Next

(* The only command goes on, or is over. *)
LEMMA AloneGoesOn ==
    ASSUME ATypeOK, setup.jobs = 1
    PROVE  /\ DOMAIN jobs = {1} /\ jobs[1] \in AJobs /\ AJobOK(jobs[1])
           /\ X!Leave(1) => /\ jobs'[1].at = "idle" /\ ASolo(jobs[1])' /\ AUnwritten(jobs[1])'
                            /\ (manifests' = Listed(0)' => AManifests(jobs[1])')
           /\ \A at : X!Goto(1, at) => /\ jobs'[1].at = at /\ jobs'[1].src = jobs[1].src
                                       /\ jobs'[1].id = jobs[1].id /\ jobs'[1].sha = jobs[1].sha
  <1>1. DOMAIN jobs = {1} /\ jobs[1] \in AJobs /\ AJobOK(jobs[1])
    BY DEF ATypeOK
  <1>2. ASSUME X!Leave(1)
        PROVE  /\ jobs'[1].at = "idle" /\ ASolo(jobs[1])' /\ AUnwritten(jobs[1])'
               /\ (manifests' = Listed(0)' => AManifests(jobs[1])')
    <2>1. jobs'[1].at = "idle"
      BY <1>1, <1>2 DEF X!Leave, X!Idle
    <2> QED
      BY <2>1 DEF ASolo, AUnwritten, AManifests, Making, Pruning, Restoring
  <1>3. ASSUME NEW at, X!Goto(1, at)
        PROVE  /\ jobs'[1].at = at /\ jobs'[1].src = jobs[1].src
               /\ jobs'[1].id = jobs[1].id /\ jobs'[1].sha = jobs[1].sha
    <2>1. jobs'[1] = [jobs[1] EXCEPT !.at = at]
      BY <1>1, <1>3 DEF X!Goto
    <2> QED
      BY <1>1, <2>1 DEF AJobs
  <1> QED
    BY <1>1, <1>2, <1>3

(* A command that runs alone keeps rows, tarballs and manifests in step. *)
LEMMA AOneStep == ATypeOK /\ AOne /\ X!Next => AOne'
  <1> SUFFICES ASSUME ATypeOK, AOne, X!Next, setup.jobs = 1 PROVE AOne'
    BY DEF X!Next, AOne, X!archive, X!reserveArchiveId, X!TarOpens, X!createTarGz, X!sha256File, X!writeManifest,
           X!insert, X!nextTrashTarget, X!moveSourceToTrash, X!markPruned, X!restore, X!extractTarGz, X!Fault,
           X!Edit, X!EmptyTrash
  <1>0. /\ AData /\ DOMAIN jobs = {1} /\ jobs[1] \in AJobs /\ AJobOK(jobs[1])
        /\ AOwn /\ ASolo(jobs[1])
        /\ setup.edits = 0 => AKept /\ AUnwritten(jobs[1])
        /\ budget.faults = setup.faults => AManifests(jobs[1])
    BY AloneGoesOn DEF ATypeOK, AOne
  <1>p. ASSUME setup' = setup, AOwn', ASolo(jobs[1])', setup.edits = 0 => AKept' /\ AUnwritten(jobs[1])',
               budget'.faults = setup.faults => AManifests(jobs[1])'
        PROVE  AOne'
    BY <1>p DEF AOne
  <1>d. ASSUME UNCHANGED <<source, payload, index, out, wrote>> PROVE AOwn' /\ (setup.edits = 0 => AKept')
    BY <1>0, <1>d DEF AOwn, AKept
  <1>l. ASSUME index' = index PROVE \A id : Listed(id)' = Listed(id)
    BY <1>l DEF Listed
  <1>i. \A row \in index : row.id \in X!Ids /\ row.id # 0
    BY <1>0, ArchiveSetupsType DEF AData, X!Ids
  <1>1. ASSUME X!archive(1) PROVE AOne'
    <2>1. /\ jobs[1].at = "idle" /\ UNCHANGED <<setup, source, payload, manifests, index, out, wrote>>
          /\ budget'.faults = budget.faults
      BY <1>0, <1>1, Spent DEF X!archive, X!At
    <2>2. jobs'[1].at = "reserve"
      BY <1>0, <1>1 DEF X!archive, X!Idle
    <2>3. ASolo(jobs[1])' /\ AUnwritten(jobs[1])'
      BY <2>2 DEF ASolo, AUnwritten, Making, Pruning, Restoring
    <2>4. AManifests(jobs[1]) => AManifests(jobs[1])'
      BY <1>l, <2>1, <2>2 DEF AManifests
    <2> QED
      BY <1>0, <1>d, <1>p, <2>1, <2>3, <2>4
  <1>2. ASSUME X!reserveArchiveId(1) PROVE AOne'
    <2>1. /\ jobs[1].at = "reserve" /\ UNCHANGED <<setup, source, payload, manifests, index, out, wrote, budget>>
      BY <1>2 DEF X!reserveArchiveId, X!At
    <2>2. X!FreeIds # {} /\ X!FreeIds \subseteq Nat
      BY <1>2, ArchiveSetupsType DEF X!reserveArchiveId, X!FreeIds, X!Ids
    <2>3. X!Least(X!FreeIds) \in X!FreeIds
      BY <2>2, LeastOf
    <2>4. jobs'[1].at = "tar" /\ ~X!has(jobs'[1].id)
      BY <1>0, <1>2, <2>3 DEF X!reserveArchiveId, X!FreeIds, AJobs
    <2>5. ASolo(jobs[1])' /\ AUnwritten(jobs[1])'
      BY <2>1, <2>4 DEF ASolo, AUnwritten, Pruning, Restoring, X!has
    <2>6. AManifests(jobs[1]) => AManifests(jobs[1])'
      BY <1>l, <2>1, <2>4 DEF AManifests
    <2> QED
      BY <1>0, <1>d, <1>p, <2>1, <2>5, <2>6
  <1>3. ASSUME X!TarOpens(1) PROVE AOne'
    <2>1. /\ payload' = [payload EXCEPT ![jobs[1].id] = <<"part", 1>>] /\ jobs[1].at = "tar"
          /\ UNCHANGED <<setup, source, trash, manifests, index, out, wrote, budget>>
      BY <1>3 DEF X!TarOpens, X!At
    <2>2. jobs[1].id \in X!Ids /\ ~X!has(jobs[1].id)
      BY <1>0, <2>1 DEF AJobOK, ASolo, Making
    <2>3. \A id \in X!Ids : payload'[id] = IF id = jobs[1].id THEN <<"part", 1>> ELSE payload[id]
      BY <1>0, <2>1 DEF AData
    <2>4. AOwn' /\ (setup.edits = 0 => AKept')
      BY <1>0, <1>i, <2>1, <2>2, <2>3 DEF AOwn, AKept, X!has
    <2>5. CASE X!Leave(1)
      <3>1. AManifests(jobs[1]) => AManifests(jobs[1])'
        BY <1>l, <2>1, <2>5, AloneGoesOn DEF AManifests
      <3> QED
        BY <1>0, <1>p, <2>1, <2>4, <2>5, <3>1, AloneGoesOn
    <2>6. CASE X!Goto(1, "pack")
      <3>1. jobs'[1].at = "pack" /\ jobs'[1].id = jobs[1].id
        BY <2>6, AloneGoesOn
      <3>2. ASolo(jobs[1])' /\ AUnwritten(jobs[1])'
        BY <2>1, <2>2, <2>3, <3>1 DEF ASolo, AUnwritten, Pruning, Restoring, X!has
      <3>3. AManifests(jobs[1]) => AManifests(jobs[1])'
        BY <1>l, <2>1, <3>1 DEF AManifests
      <3> QED
        BY <1>0, <1>p, <2>1, <2>4, <3>2, <3>3
    <2> QED
      BY <1>3, <2>5, <2>6 DEF X!TarOpens
  <1>4. ASSUME X!createTarGz(1) PROVE AOne'
    <2>1. jobs[1].at = "pack" /\ UNCHANGED <<setup, source, trash, manifests, index, out, wrote, budget>>
      BY <1>4 DEF X!createTarGz, X!At
    <2>2. /\ jobs[1].id \in X!Ids /\ jobs[1].src \in Sources /\ ~X!has(jobs[1].id)
          /\ payload[jobs[1].id] = <<"part", 1>>
      BY <1>0, <2>1 DEF AJobOK, ASolo, Making
    <2>3. CASE X!Leave(1) /\ payload' = payload
      <3>1. AManifests(jobs[1]) => AManifests(jobs[1])'
        BY <1>l, <2>1, <2>3, AloneGoesOn DEF AManifests
      <3> QED
        BY <1>0, <1>d, <1>p, <2>1, <2>3, <3>1, AloneGoesOn
    <2>4. CASE /\ source[jobs[1].src] # X!None /\ X!Goto(1, "hash")
               /\ payload' = [payload EXCEPT ![jobs[1].id] = source[jobs[1].src]]
      <3>1. source[jobs[1].src] \in Packed /\ source[jobs[1].src][1] = jobs[1].src
        BY <1>0, <2>2, <2>4 DEF AData, AOwn
      <3>2. \A id \in X!Ids : payload'[id] = IF id = jobs[1].id THEN source[jobs[1].src] ELSE payload[id]
        BY <1>0, <2>4 DEF AData
      <3>3. AOwn' /\ (setup.edits = 0 => AKept')
        BY <1>0, <1>i, <2>1, <2>2, <3>2 DEF AOwn, AKept, X!has
      <3>4. jobs'[1].at = "hash" /\ jobs'[1].id = jobs[1].id /\ jobs'[1].src = jobs[1].src
        BY <2>4, AloneGoesOn
      <3>5. ASolo(jobs[1])'
        BY <2>1, <2>2, <3>1, <3>2, <3>4 DEF ASolo, Pruning, Restoring, X!has
      <3>6. AUnwritten(jobs[1])'
        BY <2>1, <2>2, <3>2, <3>4 DEF AUnwritten
      <3>7. AManifests(jobs[1]) => AManifests(jobs[1])'
        BY <1>l, <2>1, <3>4 DEF AManifests
      <3> QED
        BY <1>0, <1>p, <2>1, <3>3, <3>5, <3>6, <3>7
    <2> QED
      <3>1. DOMAIN jobs \ {1} = {}
        BY <1>0
      <3> QED
        BY <1>4, <2>2, <2>3, <2>4, <3>1 DEF X!createTarGz
  <1>5. ASSUME X!sha256File(1) PROVE AOne'
    <2>1. /\ jobs[1].at = "hash" /\ UNCHANGED <<setup, source, payload, manifests, index, out, wrote, budget>>
          /\ jobs' = [jobs EXCEPT ![1] = [jobs[1] EXCEPT !.at = "manifest", !.sha = payload[jobs[1].id]]]
      BY <1>5 DEF X!sha256File, X!At
    <2>2. /\ jobs'[1].at = "manifest" /\ jobs'[1].id = jobs[1].id /\ jobs'[1].src = jobs[1].src
          /\ jobs'[1].sha = payload[jobs[1].id]
      <3>1. jobs'[1] = [jobs[1] EXCEPT !.at = "manifest", !.sha = payload[jobs[1].id]]
        BY <1>0, <2>1
      <3> QED
        BY <1>0, <3>1 DEF AJobs
    <2>3. ASolo(jobs[1])'
      BY <1>0, <2>1, <2>2 DEF ASolo, Making, Pruning, Restoring, X!has
    <2>4. AUnwritten(jobs[1]) => AUnwritten(jobs[1])'
      BY <2>1, <2>2 DEF AUnwritten
    <2>5. AManifests(jobs[1]) => AManifests(jobs[1])'
      BY <1>l, <2>1, <2>2 DEF AManifests
    <2> QED
      BY <1>0, <1>d, <1>p, <2>1, <2>3, <2>4, <2>5
  <1>6. ASSUME X!writeManifest(1) PROVE AOne'
    <2>1. UNCHANGED <<setup, source, payload, index, out, wrote, budget>>
      BY <1>6 DEF X!writeManifest
    <2>2. CASE jobs[1].at = "manifest" /\ manifests' = X!Written(1, FALSE) /\ X!Goto(1, "insert")
      <3>1. /\ jobs'[1].at = "insert" /\ jobs'[1].id = jobs[1].id /\ jobs'[1].src = jobs[1].src
            /\ jobs'[1].sha = jobs[1].sha
        BY <2>2, AloneGoesOn
      <3>2. ASolo(jobs[1])'
        BY <1>0, <2>1, <2>2, <3>1 DEF ASolo, Making, Pruning, Restoring, X!has
      <3>3. AUnwritten(jobs[1]) => AUnwritten(jobs[1])'
        BY <2>1, <2>2, <3>1 DEF AUnwritten
      <3>4. ASSUME AManifests(jobs[1]) PROVE AManifests(jobs[1])'
        <4>1. manifests = Listed(0) /\ ~X!has(jobs[1].id)
          BY <1>0, <2>2, <3>4 DEF AManifests, ASolo, Making
        <4>2. \A m \in manifests : m.id # jobs[1].id
          BY <4>1 DEF Listed, X!has
        <4>3. manifests' = Listed(0)' \cup {[id |-> jobs[1].id, sha |-> jobs[1].sha, pruned |-> FALSE]}
          BY <1>l, <2>1, <2>2, <4>1, <4>2 DEF X!Written
        <4> QED
          BY <3>1, <4>3 DEF AManifests
      <3> QED
        BY <1>0, <1>d, <1>p, <2>1, <3>2, <3>3, <3>4
    <2>3. CASE jobs[1].at = "remanifest" /\ manifests' = X!Written(1, TRUE) /\ X!Goto(1, "mark")
      <3>1. /\ jobs'[1].at = "mark" /\ jobs'[1].id = jobs[1].id /\ jobs'[1].src = jobs[1].src
            /\ jobs'[1].sha = jobs[1].sha
        BY <2>3, AloneGoesOn
      <3>2. ASolo(jobs[1])'
        BY <1>0, <2>1, <2>3, <3>1 DEF ASolo, Making, Pruning, Restoring
      <3>3. AUnwritten(jobs[1])'
        BY <3>1 DEF AUnwritten
      <3>4. ASSUME AManifests(jobs[1]) PROVE AManifests(jobs[1])'
        <4>1. manifests = Listed(0)
          BY <2>3, <3>4 DEF AManifests
        <4>2. {m \in manifests : m.id # jobs[1].id} = Listed(jobs[1].id)
          BY <1>i, <4>1 DEF Listed
        <4>3. manifests' = Listed(jobs[1].id)' \cup {[id |-> jobs[1].id, sha |-> jobs[1].sha, pruned |-> TRUE]}
          BY <1>l, <2>1, <2>3, <3>1, <4>2 DEF X!Written
        <4> QED
          BY <3>1, <4>3 DEF AManifests
      <3> QED
        BY <1>0, <1>d, <1>p, <2>1, <3>2, <3>3, <3>4
    <2> QED
      BY <1>6, <2>2, <2>3 DEF X!writeManifest, X!At
  <1>7. ASSUME X!insert(1) PROVE AOne'
    <2>1. jobs[1].at = "insert" /\ UNCHANGED <<setup, source, trash, payload, manifests, out, wrote, budget>>
      BY <1>7 DEF X!insert, X!At
    <2>2. /\ jobs[1].id \in X!Ids /\ ~X!has(jobs[1].id)
          /\ payload[jobs[1].id] = jobs[1].sha /\ jobs[1].sha \in Packed /\ jobs[1].sha[1] = jobs[1].src
      BY <1>0, <2>1 DEF AJobOK, ASolo, Making
    <2>3. PICK new : new = [id |-> jobs[1].id, src |-> jobs[1].src, sha |-> jobs[1].sha, pruned |-> FALSE]
      OBVIOUS
    <2>4. index' = index \cup {new} /\ (X!Goto(1, "target") \/ X!Leave(1))
      BY <1>7, <2>2, <2>3 DEF X!insert
    <2>5. /\ new.id = jobs[1].id /\ new.src = jobs[1].src /\ new.sha = jobs[1].sha /\ new.pruned = FALSE
          /\ \A row \in index : row.id # new.id
      BY <2>2, <2>3 DEF X!has
    <2>6. AOwn'
      BY <1>0, <2>1, <2>2, <2>4, <2>5 DEF AOwn
    <2>7. setup.edits = 0 => AKept'
      BY <1>0, <2>1, <2>4 DEF AKept
    <2>8. AManifests(jobs[1]) => manifests' = Listed(0)'
      <3>1. jobs[1].id # 0
        BY <2>2, ArchiveSetupsType DEF X!Ids
      <3>2. Listed(0)' = Listed(0) \cup {[id |-> jobs[1].id, sha |-> jobs[1].sha, pruned |-> FALSE]}
        BY <2>4, <2>5, <3>1 DEF Listed
      <3> QED
        BY <2>1, <3>2 DEF AManifests
    <2>9. CASE X!Leave(1)
      BY <1>0, <1>p, <2>1, <2>6, <2>7, <2>8, <2>9, AloneGoesOn
    <2>10. CASE X!Goto(1, "target")
      <3>1. /\ jobs'[1].at = "target" /\ jobs'[1].id = jobs[1].id /\ jobs'[1].src = jobs[1].src
            /\ jobs'[1].sha = jobs[1].sha
        BY <2>10, AloneGoesOn
      <3>2. ASolo(jobs[1])'
        BY <2>4, <2>5, <3>1 DEF ASolo, Making, Restoring
      <3>3. AUnwritten(jobs[1]) => AUnwritten(jobs[1])'
        BY <2>1, <3>1 DEF AUnwritten
      <3>4. AManifests(jobs[1]) => AManifests(jobs[1])'
        BY <2>8, <3>1 DEF AManifests
      <3> QED
        BY <1>0, <1>p, <2>1, <2>6, <2>7, <3>2, <3>3, <3>4
    <2> QED
      BY <2>4, <2>9, <2>10
  <1>8. ASSUME X!nextTrashTarget(1) PROVE AOne'
    <2>1. /\ jobs[1].at = "target" /\ UNCHANGED <<setup, source, payload, manifests, index, out, wrote, budget>>
          /\ jobs' = [jobs EXCEPT ![1] = [jobs[1] EXCEPT !.at = "rename", !.target = X!Least(X!FreeNames)]]
      BY <1>8 DEF X!nextTrashTarget, X!At
    <2>2. /\ jobs'[1].at = "rename" /\ jobs'[1].id = jobs[1].id /\ jobs'[1].src = jobs[1].src
          /\ jobs'[1].sha = jobs[1].sha
      <3>1. jobs'[1] = [jobs[1] EXCEPT !.at = "rename", !.target = X!Least(X!FreeNames)]
        BY <1>0, <2>1
      <3> QED
        BY <1>0, <3>1 DEF AJobs
    <2>3. ASolo(jobs[1])'
      BY <1>0, <2>1, <2>2 DEF ASolo, Making, Pruning, Restoring
    <2>4. AUnwritten(jobs[1]) => AUnwritten(jobs[1])'
      BY <2>1, <2>2 DEF AUnwritten
    <2>5. AManifests(jobs[1]) => AManifests(jobs[1])'
      BY <1>l, <2>1, <2>2 DEF AManifests
    <2> QED
      BY <1>0, <1>d, <1>p, <2>1, <2>3, <2>4, <2>5
  <1>9. ASSUME X!moveSourceToTrash(1) PROVE AOne'
    <2>1. jobs[1].at = "rename" /\ UNCHANGED <<setup, payload, manifests, index, out, wrote, budget>>
      BY <1>9 DEF X!moveSourceToTrash, X!At
    <2>2. /\ jobs[1].src \in Sources
          /\ \E row \in index : row.id = jobs[1].id /\ row.sha = jobs[1].sha /\ row.src = jobs[1].src
      BY <1>0, <2>1 DEF AJobOK, ASolo, Pruning
    <2>3. CASE X!Leave(1) /\ UNCHANGED <<source, trash>>
      <3>1. AManifests(jobs[1]) => AManifests(jobs[1])'
        BY <1>l, <2>1, <2>3, AloneGoesOn DEF AManifests
      <3> QED
        BY <1>0, <1>d, <1>p, <2>1, <2>3, <3>1, AloneGoesOn
    <2>4. CASE /\ source[jobs[1].src] # X!None /\ X!Goto(1, "remanifest")
               /\ source' = [source EXCEPT ![jobs[1].src] = X!None]
      <3>1. /\ jobs'[1].at = "remanifest" /\ jobs'[1].id = jobs[1].id /\ jobs'[1].src = jobs[1].src
            /\ jobs'[1].sha = jobs[1].sha
        BY <2>4, AloneGoesOn
      <3>2. /\ \A s \in Sources : source'[s] = IF s = jobs[1].src THEN X!None ELSE source[s]
            /\ DOMAIN source = Sources /\ DOMAIN source' = Sources
        BY <1>0, <2>4 DEF AData
      <3>3. AOwn'
        BY <1>0, <2>1, <3>2 DEF AOwn
      <3>4. ASolo(jobs[1])'
        BY <2>1, <2>2, <3>1 DEF ASolo, Making, Restoring
      <3>5. AUnwritten(jobs[1])'
        BY <3>1 DEF AUnwritten
      <3>6. ASSUME setup.edits = 0 PROVE AKept'
        <4> SUFFICES ASSUME NEW c \in wrote
                     PROVE  c \in X!Range(source)' \/ \E row \in index : row.sha = c
          BY <2>1 DEF AKept
        <4>1. c \in X!Range(source) \/ \E row \in index : row.sha = c
          BY <1>0, <3>6 DEF AKept
        <4>2. ASSUME c \in X!Range(source) PROVE c \in X!Range(source)' \/ \E row \in index : row.sha = c
          <5>1. PICK s \in Sources : source[s] = c
            BY <3>2, <4>2 DEF X!Range
          <5>2. CASE s = jobs[1].src
            BY <1>0, <2>1, <2>2, <2>4, <3>6, <5>1, <5>2 DEF AUnwritten
          <5>3. CASE s # jobs[1].src
            BY <3>2, <5>1, <5>3 DEF X!Range
          <5> QED
            BY <5>2, <5>3
        <4> QED
          BY <4>1, <4>2
      <3>7. AManifests(jobs[1]) => AManifests(jobs[1])'
        BY <1>l, <2>1, <3>1 DEF AManifests
      <3> QED
        BY <1>0, <1>p, <2>1, <3>3, <3>4, <3>5, <3>6, <3>7
    <2> QED
      BY <1>9, <2>3, <2>4 DEF X!moveSourceToTrash
  <1>10. ASSUME X!markPruned(1) PROVE AOne'
    <2>m. PICK marked : marked = [row \in index |-> IF row.id = jobs[1].id THEN [row EXCEPT !.pruned = TRUE] ELSE row]
      OBVIOUS
    <2>1. /\ jobs[1].at = "mark" /\ UNCHANGED <<setup, source, payload, manifests, out, wrote, budget>> /\ X!Leave(1)
          /\ index' = {marked[row] : row \in index}
      BY <1>10, <2>m DEF X!markPruned, X!At
    <2>2. \A row \in index : /\ marked[row].id = row.id /\ marked[row].src = row.src /\ marked[row].sha = row.sha
                             /\ row.id = jobs[1].id => marked[row].pruned = TRUE
                             /\ row.id # jobs[1].id => marked[row].pruned = row.pruned
      BY <1>0, <2>m DEF AData
    <2>3. AOwn'
      BY <1>0, <2>1, <2>2 DEF AOwn
    <2>4. setup.edits = 0 => AKept'
      BY <1>0, <2>1, <2>2 DEF AKept
    <2>5. PICK row \in index : row.id = jobs[1].id /\ row.sha = jobs[1].sha
      BY <1>0, <2>1 DEF ASolo, Pruning
    <2>6. \A r \in index : r.id = jobs[1].id => r.sha = jobs[1].sha
      BY <1>0, <2>5 DEF AOwn
    <2>7. Listed(0)' = Listed(jobs[1].id) \cup {[id |-> jobs[1].id, sha |-> jobs[1].sha, pruned |-> TRUE]}
      <3>1. \A r \in index : [id |-> marked[r].id, sha |-> marked[r].sha, pruned |-> marked[r].pruned]
                = IF r.id = jobs[1].id THEN [id |-> jobs[1].id, sha |-> jobs[1].sha, pruned |-> TRUE]
                  ELSE [id |-> r.id, sha |-> r.sha, pruned |-> r.pruned]
        BY <2>2, <2>6, ZenonT(60)
      <3>2. Listed(0)' = {[id |-> marked[r].id, sha |-> marked[r].sha, pruned |-> marked[r].pruned] : r \in index}
        <4>1. {r \in index' : r.id # 0} = index'
          BY <1>i, <2>1, <2>2
        <4>2. Listed(0)' = {[id |-> r.id, sha |-> r.sha, pruned |-> r.pruned] : r \in index'}
          BY <4>1 DEF Listed
        <4> QED
          BY <2>1, <4>2
      <3>4. ASSUME NEW e \in Listed(0)'
            PROVE  e \in Listed(jobs[1].id) \cup {[id |-> jobs[1].id, sha |-> jobs[1].sha, pruned |-> TRUE]}
        <4>1. PICK r \in index : e = [id |-> marked[r].id, sha |-> marked[r].sha, pruned |-> marked[r].pruned]
          BY <3>2
        <4>2. CASE r.id = jobs[1].id
          BY <3>1, <4>1, <4>2
        <4>3. CASE r.id # jobs[1].id
          BY <3>1, <4>1, <4>3 DEF Listed
        <4> QED
          BY <4>2, <4>3
      <3>5. ASSUME NEW e \in Listed(jobs[1].id) PROVE e \in Listed(0)'
        <4>1. PICK r \in index : r.id # jobs[1].id /\ e = [id |-> r.id, sha |-> r.sha, pruned |-> r.pruned]
          BY DEF Listed
        <4>2. e = [id |-> marked[r].id, sha |-> marked[r].sha, pruned |-> marked[r].pruned]
          BY <3>1, <4>1
        <4> QED
          BY <3>2, <4>2
      <3>6. [id |-> jobs[1].id, sha |-> jobs[1].sha, pruned |-> TRUE] \in Listed(0)'
        <4>1. [id |-> jobs[1].id, sha |-> jobs[1].sha, pruned |-> TRUE]
                = [id |-> marked[row].id, sha |-> marked[row].sha, pruned |-> marked[row].pruned]
          BY <2>5, <3>1
        <4> QED
          BY <3>2, <4>1
      <3> QED
        BY <3>4, <3>5, <3>6
    <2>8. AManifests(jobs[1]) => AManifests(jobs[1])'
      BY <2>1, <2>7, AloneGoesOn DEF AManifests
    <2> QED
      BY <1>0, <1>p, <2>1, <2>3, <2>4, <2>8, AloneGoesOn
  <1>11. ASSUME X!restore(1) PROVE AOne'
    <2>1. /\ jobs[1].at = "idle" /\ UNCHANGED <<setup, source, payload, manifests, index, out, wrote>>
          /\ budget'.faults = budget.faults
      BY <1>0, <1>11, Spent DEF X!restore, X!At
    <2>2. PICK row \in index, at \in {"back", "aside"} :
            jobs' = [jobs EXCEPT ![1] = [X!Idle EXCEPT !.at = at, !.id = row.id, !.sha = row.sha]]
      BY <1>11 DEF X!restore
    <2>3. jobs'[1].at = at /\ jobs'[1].id = row.id /\ jobs'[1].sha = row.sha
      BY <1>0, <2>2 DEF X!Idle
    <2>4. ASolo(jobs[1])' /\ AUnwritten(jobs[1])'
      BY <2>1, <2>3 DEF ASolo, AUnwritten, Making, Pruning, Restoring
    <2>5. AManifests(jobs[1]) => AManifests(jobs[1])'
      BY <1>l, <2>1, <2>3 DEF AManifests
    <2> QED
      BY <1>0, <1>d, <1>p, <2>1, <2>4, <2>5
  <1>12. ASSUME X!extractTarGz(1) PROVE AOne'
    <2>1. /\ jobs[1].at \in Restoring /\ X!Leave(1)
          /\ UNCHANGED <<setup, trash, payload, manifests, index, budget>>
      BY <1>12 DEF X!extractTarGz, Restoring
    <2>2. PICK row \in index : row.id = jobs[1].id /\ row.sha = jobs[1].sha
      BY <1>0, <2>1 DEF ASolo
    <2>3. X!Row(jobs[1].id) = row
      BY <1>0, <2>2, RowOf DEF AOwn, X!has
    <2>4. /\ payload[jobs[1].id] = jobs[1].sha /\ jobs[1].sha \in Packed /\ jobs[1].sha[1] = row.src
          /\ row.src \in Sources
      BY <1>0, <2>2 DEF AOwn, AData
    <2>5. \/ /\ out' = out \cup {<<jobs[1].sha, jobs[1].sha>>} /\ UNCHANGED <<source, wrote>>
          \/ /\ source' = [source EXCEPT ![row.src] = jobs[1].sha] /\ out' = out
             /\ wrote' = (wrote \ {source[row.src]}) \cup {jobs[1].sha}
      BY <1>12, <2>3, <2>4 DEF X!extractTarGz
    <2>6. AOwn'
      <3>1. \A s \in Sources : source'[s] = source[s] \/ (s = row.src /\ source'[s] = jobs[1].sha)
        BY <1>0, <2>4, <2>5 DEF AData
      <3>2. \A s \in Sources : source'[s] # X!None => source'[s][1] = s
        BY <1>0, <2>4, <3>1 DEF AOwn
      <3>3. \A o \in out' : o[1] = o[2]
        BY <1>0, <2>5 DEF AOwn
      <3> QED
        BY <1>0, <2>1, <3>2, <3>3 DEF AOwn
    <2>7. ASSUME setup.edits = 0 PROVE AKept'
      <3>1. CASE UNCHANGED <<source, wrote>>
        BY <1>0, <2>1, <2>7, <3>1 DEF AKept
      <3>2. CASE /\ source' = [source EXCEPT ![row.src] = jobs[1].sha]
                 /\ wrote' = (wrote \ {source[row.src]}) \cup {jobs[1].sha}
        <4>1. \A w \in wrote' : w \in X!Range(source)' \/ (w \in wrote /\ w \notin X!Range(source))
          BY <1>0, <2>4, <3>2, Overwritten
        <4> QED
          BY <1>0, <2>1, <2>7, <4>1 DEF AKept
      <3> QED
        BY <2>5, <3>1, <3>2
    <2>8. AManifests(jobs[1]) => AManifests(jobs[1])'
      BY <1>l, <2>1, AloneGoesOn DEF AManifests, Restoring
    <2> QED
      BY <1>0, <1>p, <2>1, <2>6, <2>7, <2>8, AloneGoesOn
  <1>13. ASSUME X!Fault(1) PROVE AOne'
    <2>1. UNCHANGED <<setup, trash, payload, index, out>> /\ X!Leave(1)
      BY <1>13 DEF X!Fault
    <2>2. budget'.faults # setup.faults
      <3>1. ABudget' /\ budget'.faults < budget.faults
        BY <1>0, <1>13, <2>1, Spent DEF X!Fault
      <3> QED
        BY <1>0, <3>1, ArchiveSetupsType DEF AData, ABudget
    <2>3. CASE UNCHANGED <<source, wrote>>
      BY <1>0, <1>d, <1>p, <2>1, <2>2, <2>3, AloneGoesOn
    <2>4. CASE /\ jobs[1].at = "back"
               /\ source' = [source EXCEPT ![X!Row(jobs[1].id).src] = <<X!Row(jobs[1].id).src, 0>>]
               /\ wrote' = wrote \ {source[X!Row(jobs[1].id).src]}
      <3>1. X!Row(jobs[1].id).src \in Sources
        BY <1>0, <2>4, RowOf DEF AJobOK, AData, Restoring
      <3>2. \A s \in Sources : source'[s] = IF s = X!Row(jobs[1].id).src THEN <<s, 0>> ELSE source[s]
        BY <1>0, <2>4 DEF AData
      <3>3. \A s \in Sources : <<s, 0>>[1] = s
        OBVIOUS
      <3>4. AOwn'
        BY <1>0, <2>1, <3>2, <3>3 DEF AOwn
      <3>5. ASSUME setup.edits = 0 PROVE AKept'
        <4>1. \A w \in wrote' : w \in X!Range(source)' \/ (w \in wrote /\ w \notin X!Range(source))
          BY <1>0, <2>4, <3>1, Overwritten
        <4> QED
          BY <1>0, <2>1, <3>5, <4>1 DEF AKept
      <3> QED
        BY <1>p, <2>1, <2>2, <3>4, <3>5, AloneGoesOn
    <2> QED
      BY <1>13, <2>3, <2>4 DEF X!Fault, X!At
  <1>14. ASSUME NEW s \in Sources, X!Edit(s) PROVE AOne'
    <2>1. UNCHANGED <<setup, payload, manifests, index, jobs, out>> /\ budget'.faults = budget.faults
      BY <1>0, <1>14, Spent DEF X!Edit
    <2>2. setup.edits # 0
      BY <1>0, <1>14, ArchiveSetupsType DEF X!Edit, X!Spend, AData, ABudget
    <2>3. AOwn'
      <3>1. \A t \in Sources : t # s => source'[t] = source[t]
        BY <1>0, <1>14 DEF X!Edit, AData
      <3>2. source'[s][1] = s
        BY <1>0, <1>14 DEF X!Edit, AData
      <3> QED
        BY <1>0, <2>1, <3>1, <3>2 DEF AOwn
    <2>4. ASolo(jobs[1])'
      BY <1>0, <2>1 DEF ASolo, X!has
    <2>5. AManifests(jobs[1]) => AManifests(jobs[1])'
      BY <1>l, <2>1 DEF AManifests
    <2> QED
      BY <1>0, <1>p, <2>1, <2>2, <2>3, <2>4, <2>5
  <1>15. ASSUME X!EmptyTrash PROVE AOne'
    <2>1. UNCHANGED <<setup, source, payload, manifests, index, jobs, out, wrote>> /\ budget'.faults = budget.faults
      BY <1>0, <1>15, Spent DEF X!EmptyTrash
    <2>2. ASolo(jobs[1])' /\ (AUnwritten(jobs[1]) => AUnwritten(jobs[1])')
      BY <1>0, <2>1 DEF ASolo, AUnwritten, X!has
    <2>3. AManifests(jobs[1]) => AManifests(jobs[1])'
      BY <1>l, <2>1 DEF AManifests
    <2> QED
      BY <1>0, <1>d, <1>p, <2>1, <2>2, <2>3
  <1> QED
    BY <1>0, <1>1, <1>2, <1>3, <1>4, <1>5, <1>6, <1>7, <1>8, <1>9, <1>10, <1>11, <1>12, <1>13, <1>14, <1>15 DEF X!Next

(* Every step keeps the invariant of the archives; ... *)
LEMMA ArchiveStep == AInv /\ X!Next => AInv'
  BY ArchiveType, AHeldStep, AOneStep DEF AInv

(* ... it holds at the start, ... *)
LEMMA IdleAt == X!Idle.at = "idle"
  BY DEF X!Idle

LEMMA ArchiveInit == X!Init => AInv
  <1> SUFFICES ASSUME X!Init PROVE AInv
    OBVIOUS
  <1>1. setup \in ArchiveSetups
    BY DEF X!Init
  <1>2. ATypeOK
    <2>1. \A s \in Sources : <<s, 1>> \in Packed
      BY ArchiveData
    <2>2. source \in [Sources -> Packed \cup {X!None}] /\ wrote \subseteq Packed
      BY <2>1 DEF X!Init, X!Range
    <2>3. ABudget
      BY <1>1, ArchiveSetupsType DEF X!Init, ABudget
    <2>4. AData
      BY <1>1, <2>2, <2>3 DEF X!Init, AData
    <2>5. X!Idle \in AJobs
      BY IdleJob
    <2>6. AJobOK(X!Idle)
      BY DEF X!Idle, AJobOK, Making, Pruning, Restoring
    <2> QED
      BY <2>4, <2>5, <2>6 DEF X!Init, ATypeOK
  <1>3. AHeld
    BY DEF X!Init, AHeld
  <1>4. ASSUME setup.jobs = 1 PROVE jobs[1].at = "idle"
    BY <1>4, IdleAt DEF X!Init
  <1>5. AOwn /\ AKept
    BY DEF X!Init, AOwn, AKept
  <1>6. Listed(0) = {} /\ manifests = {}
    BY DEF X!Init, Listed
  <1>7. AOne
    BY <1>4, <1>5, <1>6 DEF AOne, ASolo, AUnwritten, AManifests, Making, Pruning, Restoring
  <1> QED
    BY <1>2, <1>3, <1>7 DEF AInv

(* ... and implies what the run checks. *)
LEMMA ArchiveKept == AInv => X!ContentKept /\ X!ArchiveWhole
  <1> SUFFICES ASSUME AInv PROVE X!ContentKept /\ X!ArchiveWhole
    OBVIOUS
  <1>1. X!ContentKept
    <2>1. CASE setup.empties = 0
      BY <2>1 DEF AInv, AHeld, X!ContentKept
    <2>2. CASE setup.jobs = 1 /\ setup.edits = 0
      BY <2>2 DEF AInv, AOne, AOwn, AKept, X!ContentKept
    <2> QED
      BY <2>1, <2>2 DEF X!ContentKept
  <1>2. ASSUME setup.jobs = 1, budget.faults = setup.faults, jobs[1] = X!Idle
        PROVE  manifests = {[id |-> row.id, sha |-> row.sha, pruned |-> row.pruned] : row \in index}
    <2>1. \A row \in index : row.id # 0
      BY ArchiveSetupsType DEF AInv, ATypeOK, AData, X!Ids
    <2>2. {r \in index : r.id # 0} = index
      BY <2>1
    <2>3. manifests = Listed(0)
      <3>1. jobs[1].at = "idle"
        BY <1>2, IdleAt
      <3>2. AManifests(jobs[1])
        BY <1>2 DEF AInv, AOne
      <3> QED
        BY <3>1, <3>2 DEF AManifests
    <2> QED
      BY <2>2, <2>3 DEF Listed
  <1>3. X!ArchiveWhole
    BY <1>2 DEF AInv, AOne, AOwn, X!ArchiveWhole
  <1> QED
    BY <1>1, <1>3

(* A step of something else changes nothing of it. *)
LEMMA ArchiveStutters == AInv /\ UNCHANGED X!vars => AInv'
  <1> SUFFICES ASSUME AInv, UNCHANGED X!vars PROVE AInv'
    OBVIOUS
  <1>1. UNCHANGED <<setup, source, trash, payload, manifests, index, jobs, out, wrote, budget>>
    BY DEF X!vars
  <1>2. ATypeOK'
    BY <1>1 DEF AInv, ATypeOK, AData, ABudget, AJobOK, X!has
  <1>3. AHeld'
    BY <1>1 DEF AInv, AHeld
  <1>4. AOne'
    BY <1>1 DEF AInv, AOne, AOwn, ASolo, AKept, AUnwritten, AManifests, Listed, X!has
  <1> QED
    BY <1>2, <1>3, <1>4 DEF AInv

(* However migrations of the vault, rollbacks and crashes follow one another,    *)
(* every legacy directory is complete in its place or in a backup, and a command *)
(* that reports success undisturbed has moved all of them; however archives and  *)
(* restores overlap and fail, a content the user has not replaced is in its      *)
(* directory or in the Trash, or, where the Trash was emptied behind a single    *)
(* command, in an archive; rows, tarballs and manifests agree as long as one     *)
(* command runs at a time (projects/migration.ts, artifacts/archive-service.ts). *)
THEOREM MovesKeepContent == Spec => []MovedKept
  <1> DEFINE Inv == (part = "vault" => VInv) /\ (part = "archive" => AInv)
  <1>1. Init => Inv
    BY VaultInit, ArchiveInit DEF Init, DInit, LInit, WInit, SInit, UInit, IInit, PInit, VInit, XInit
  <1>2. Inv /\ [Next]_vars => Inv'
    <2> SUFFICES ASSUME Inv, [Next]_vars PROVE Inv'
      OBVIOUS
    <2>1. part = "vault" => VInv'
      BY OnePart, VaultStep
    <2>2. part = "archive" => AInv'
      <3>1. ASSUME part = "archive", X!Next PROVE AInv'
        BY <3>1, ArchiveStep
      <3>2. ASSUME part = "archive", UNCHANGED X!vars PROVE AInv'
        BY <3>2, ArchiveStutters
      <3> QED
        BY <3>1, <3>2, OnePart
    <2> QED
      BY <2>1, <2>2, OnePart
  <1>3. Inv => MovedKept
    BY VaultWhole, ArchiveKept DEF MovedKept
  <1> QED
    BY <1>1, <1>2, <1>3, PTL DEF Spec

-----------------------------------------------------------------------------
(* The installer. *)

IContents == {"none", "scaffold", "user"}
IItems == [I!Items -> IContents]
AllMigrations == {"001", "003", "004", "005", "006", "007", "008"}
IData == [items : IItems, files : SUBSET AllMigrations, history : SUBSET AllMigrations, marker : BOOLEAN]
ISetup == [scene : {"fresh", "modern", "mixed", "legacy"}, via : {"install", "setup"}, clean : BOOLEAN,
           fail : Nat, crash : Nat, runs : Nat]
IScript == {"download", "clean", "preserve", "wipe", "extract", "restore", "done"}      \* install.sh
ISteps == {"setup", "snapshot", "migrate", "record", "restoreSnapshot", "wizard", "scaffold", "setupEnd"}
IAll == {"idle"} \cup IScript \cup ISteps

ITypeOK ==
    /\ setup \in InstallSetups
    /\ legacy \in [items : IItems, done : BOOLEAN] /\ mixed \in IItems /\ stash \in IItems
    /\ data \in IData /\ before \in IData
    /\ install \in [code : {"none", "ok"}, version : BOOLEAN, moved : BOOLEAN]
    /\ snaps \in Seq(IData) /\ preserved \in Seq([data : IData, snaps : Seq(IData)])
    /\ service \in BOOLEAN /\ wired \in BOOLEAN
    /\ pc \in IAll
    /\ flags \in [upgrade : BOOLEAN, legacy : BOOLEAN, fresh : BOOLEAN, kept : BOOLEAN, ok : BOOLEAN]
    /\ todo \subseteq AllMigrations /\ faults \in [fail : Nat, crash : Nat, runs : Nat]

(* Which run is at which step. *)
IRun ==
    /\ pc \in IScript => setup.via = "install"
    /\ pc = "clean" => setup.clean
    /\ pc \notin {"idle", "done", "setupEnd"} => flags.ok
    /\ pc \in {"snapshot", "migrate", "record", "restoreSnapshot"} => flags.upgrade
    /\ pc = "record" => todo # {}
    /\ pc = "wizard" => ~flags.upgrade
    /\ pc \in {"preserve", "wipe", "restore"} => ~flags.fresh
    /\ pc \in {"wipe", "extract", "restore"} /\ flags.kept => preserved # <<>>
    /\ pc \in {"wipe", "restore"} \/ (pc = "extract" /\ ~flags.fresh) => data = I!Empty
    /\ pc \in {"download", "extract"} => ~flags.fresh \/ ~flags.kept
    /\ pc = "restoreSnapshot" => faults.fail > 0
    /\ pc \notin {"idle"} /\ setup.via = "install" /\ setup.clean => ~flags.upgrade /\ ~flags.fresh

(* What is recorded has happened, in the data directory and in every copy of it. *)
Happened(d) ==
    /\ d.history \cap {"001", "003", "008"} \subseteq d.files
    /\ "006" \in d.history => \A it \in I!Items : mixed[it] = "none"
    /\ "005" \in d.history => (\A it \in I!Items : legacy.items[it] = "none") \/ legacy.done
    /\ "004" \in d.history => \A it \in I!Items : d.items[it] # "none"
    /\ "007" \in d.history => service
HappenedIn(q) == \A k \in DOMAIN q : Happened(q[k])
HappenedAside(q) == \A k \in DOMAIN q : Happened(q[k].data) /\ HappenedIn(q[k].snaps)
Cleared == install.moved => \A it \in I!Items : mixed[it] = "none"
IHappened ==
    /\ Happened(data) /\ HappenedIn(snaps) /\ HappenedAside(preserved) /\ Cleared
    /\ pc = "record" => Happened([data EXCEPT !.history = @ \cup {I!Current}])

(* A run carries out every migration that is not recorded, ... *)
IRecorded ==
    /\ pc \in {"migrate", "record"} => AllMigrations \subseteq data.history \cup todo
    /\ pc = "scaffold" /\ flags.upgrade => AllMigrations \subseteq data.history /\ ~data.marker
    /\ pc = "setupEnd" /\ flags.upgrade /\ flags.ok => AllMigrations \subseteq data.history /\ ~data.marker
(* ... or puts back what its snapshot has. *)
ISnapshot ==
    /\ pc \in {"migrate", "record", "restoreSnapshot"} => snaps # <<>> /\ snaps[Len(snaps)] = before
    /\ pc = "setupEnd" /\ flags.upgrade /\ ~flags.ok =>
         data.items = before.items /\ data.files = before.files /\ data.history = before.history

Users(items) == \A it \in I!Items : items[it] = "user"
Stashed == \E k \in DOMAIN preserved : Users(preserved[k].data.items)
IScene ==
    /\ setup.scene = "legacy" => Users(legacy.items)
    /\ setup.scene # "legacy" => \A it \in I!Items : legacy.items[it] = "none"
    /\ \A it \in I!Items : mixed[it] = "none" \/ (setup.scene = "mixed" /\ mixed[it] = "user")

(* The data of an installation of today is in the data directory or aside. *)
IModern ==
    /\ Stashed \/ Users(IF pc = "restoreSnapshot" THEN before.items ELSE data.items)
    /\ pc \in {"migrate", "record"} /\ Users(data.items) => Users(before.items)
    /\ faults.crash = 0 =>
         /\ pc \in {"download", "extract"} /\ flags.fresh => Stashed
         /\ pc \in {"idle", "download", "clean", "preserve", "done"} /\ setup.via = "install" /\ Users(data.items)
              => install.version

(* Data mixed with code is moved item by item. *)
IMixed ==
    /\ \A it \in I!Items : mixed[it] = "user" \/ stash[it] = "user" \/ data.items[it] = "user"
    /\ mixed.tasks = "user" \/ data.items.tasks = "user"

(* The legacy directory is copied from as long as there is no version file. *)
Come == data.items.tasks = "user" \/ preserved # <<>>
ILegacy ==
    /\ pc # "idle" => flags.upgrade /\ ~flags.fresh
    /\ pc \in {"idle", "done"} => (install.version => Come)
    /\ pc \in {"download", "preserve"} => (install.version => Come) /\ (flags.legacy \/ Come)
    /\ pc \in {"wipe", "extract", "restore"} =>
         flags.legacy \/ (flags.kept /\ preserved[Len(preserved)].data.items.tasks = "user")
           \/ Len(preserved) > IF flags.kept THEN 1 ELSE 0
    /\ pc = "wipe" => (install.version => preserved # <<>>)
    /\ pc \in {"extract", "restore"} \cup ISteps => ~install.version
    /\ pc = "setup" => flags.legacy \/ Come
    /\ pc \in {"snapshot", "migrate", "record", "scaffold", "setupEnd"} => Come
    /\ pc \in {"migrate", "record", "restoreSnapshot"} => before.items.tasks = "user" \/ preserved # <<>>
    /\ pc # "wizard" /\ pc # "clean"

IUser ==
    /\ setup.scene = "modern" /\ ~I!Exposed => IModern
    /\ setup.scene = "mixed" /\ ~I!Exposed => IMixed
    /\ setup.scene = "legacy" /\ setup.via = "install" /\ ~setup.clean => ILegacy

IInv == ITypeOK /\ IRun /\ IHappened /\ IRecorded /\ ISnapshot /\ IScene /\ IUser

(* A set of the migrations has a first one. *)
LEMMA MigrationNames ==
    /\ I!Range(I!migrations) = AllMigrations
    /\ \A k \in DOMAIN I!migrations : I!migrations[k] \in AllMigrations
  BY DEF I!migrations, I!Range, AllMigrations

LEMMA CurrentIn ==
    ASSUME todo \subseteq AllMigrations, todo # {}
    PROVE  I!Current \in todo
  <1> DEFINE left == {k \in DOMAIN I!migrations : I!migrations[k] \in todo}
  <1>1. \A m \in AllMigrations : \E k \in DOMAIN I!migrations : I!migrations[k] = m
    <2>1. \A m \in I!Range(I!migrations) : \E k \in DOMAIN I!migrations : I!migrations[k] = m
      BY DEF I!Range
    <2> QED
      BY <2>1, MigrationNames
  <1>2. DOMAIN I!migrations \subseteq Nat
    BY DEF I!migrations
  <1>3. left \subseteq Nat /\ left # {}
    BY <1>1, <1>2
  <1>4. \E k \in left : \A l \in left : k <= l
    BY <1>3, Least
  <1> QED
    BY <1>4 DEF I!Current

(* A data directory with something written is a data directory. *)
LEMMA DataWritten ==
    ASSUME NEW d \in IData, NEW items \in IItems, NEW it \in I!Items, NEW c \in IContents,
           NEW done \in SUBSET AllMigrations, NEW b \in BOOLEAN
    PROVE  /\ [d EXCEPT !.items = items] \in IData
           /\ [d EXCEPT !.items[it] = c] \in IData
           /\ [d EXCEPT !.files = @ \cup done] \in IData
           /\ [d EXCEPT !.history = @ \cup done] \in IData
           /\ [d EXCEPT !.marker = b] \in IData
  <1>1. [d.items EXCEPT ![it] = c] \in IItems /\ d.files \cup done \subseteq AllMigrations
        /\ d.history \cup done \subseteq AllMigrations
    BY DEF IData, IItems
  <1> QED
    BY <1>1 DEF IData

(* The last two snapshots stay, the new one among them. *)
LEMMA Pruned ==
    ASSUME NEW S0, NEW s \in Seq(S0), NEW x \in S0
    PROVE  LET r == I!pruneSnapshots(Append(s, x))
           IN  /\ r \in Seq(S0) /\ r # <<>> /\ r[Len(r)] = x
               /\ \A k \in DOMAIN r : r[k] = x \/ \E l \in DOMAIN s : r[k] = s[l]
  <1> DEFINE q == Append(s, x)
             r == I!pruneSnapshots(q)
             Goal == /\ r \in Seq(S0) /\ r # <<>> /\ r[Len(r)] = x
                     /\ \A k \in DOMAIN r : r[k] = x \/ \E l \in DOMAIN s : r[k] = s[l]
  <1>1. /\ q \in Seq(S0) /\ Len(q) = Len(s) + 1 /\ q[Len(q)] = x
        /\ \A k \in 1..Len(q) : q[k] = x \/ \E l \in DOMAIN s : q[k] = s[l]
    BY AppendProperties
  <1> HIDE DEF q, r
  <1>2. ASSUME Len(q) <= 2 PROVE Goal
    <2>1. r = q
      BY <1>2 DEF I!pruneSnapshots, r
    <2> QED
      BY <1>1, <2>1
  <1>3. ASSUME ~(Len(q) <= 2) PROVE Goal
    <2>1. r = SubSeq(q, Len(q) - 1, Len(q))
      BY <1>3 DEF I!pruneSnapshots, r
    <2> DEFINE n == Len(q)
    <2>2. n \in Nat /\ n - 1 \in Int /\ n \in 1..n /\ n - 1 \in 1..n /\ \A k \in (n - 1)..n : q[k] \in S0
      BY <1>1, <1>3, ElementOfSeq
    <2>3. r \in Seq(S0) /\ Len(r) = 2 /\ \A k \in 1..2 : r[k] = q[n - 1 + k - 1]
      BY <2>1, <2>2, SubSeqProperties
    <2>4. DOMAIN r = 1..2 /\ r[1] = q[n - 1] /\ r[2] = q[n]
      BY <2>2, <2>3
    <2>5. \A k \in DOMAIN r : r[k] \in {q[n - 1], q[n]}
      BY <2>4
    <2>6. \A k \in {n - 1, n} : q[k] = x \/ \E l \in DOMAIN s : q[k] = s[l]
      BY <1>1, <2>2
    <2>7. r[Len(r)] = r[2] /\ r[2] = x
      BY <1>1, <2>3, <2>4
    <2>8. r # <<>>
      <3>1. Len(<<>>) = 0
        BY EmptySeq
      <3> QED
        BY <2>3, <3>1
    <2> QED
      BY <2>3, <2>5, <2>6, <2>7, <2>8
  <1>4. Goal
    BY <1>2, <1>3
  <1> QED
    BY <1>4 DEF q, r

(* What is left when the last backup is taken back. *)
LEMMA LastTaken ==
    ASSUME NEW S0, NEW s \in Seq(S0), s # <<>>, NEW r, r = SubSeq(s, 1, Len(s) - 1)
    PROVE  /\ r \in Seq(S0) /\ Len(r) = Len(s) - 1 /\ Len(s) \in DOMAIN s /\ s[Len(s)] \in S0
           /\ \A k \in 1..Len(r) : r[k] = s[k] /\ k \in DOMAIN s
  <1>1. Len(s) \in Nat /\ Len(s) >= 1 /\ DOMAIN s = 1..Len(s) /\ \A k \in 1..Len(s) : s[k] \in S0
    BY ElementOfSeq, EmptySeq
  <1>2. r \in Seq(S0) /\ Len(r) = Len(s) - 1 /\ \A k \in 1..Len(s) - 1 : r[k] = s[k]
    BY <1>1, SubSeqProperties
  <1> QED
    BY <1>1, <1>2

(* The states a run starts from. *)
LEMMA Blank ==
    /\ I!Nothing \in IItems /\ I!User \in IItems
    /\ I!Empty \in IData
    /\ \A it \in I!Items : I!Nothing[it] = "none" /\ I!User[it] = "user" /\ I!Empty.items[it] = "none"
    /\ I!Empty.history = {} /\ I!Empty.files = {} /\ ~I!Empty.marker
  <1>1. I!Nothing \in IItems /\ I!User \in IItems
    BY DEF I!Nothing, I!User, IItems, IContents, I!Items
  <1>2. \A it \in I!Items : I!Nothing[it] = "none" /\ I!User[it] = "user"
    BY DEF I!Nothing, I!User, I!Items
  <1> QED
    BY <1>1, <1>2 DEF I!Empty, IData

(* The types of the installer. *)
LEMMA InstallType ==
    ASSUME ITypeOK, [I!Next]_(I!vars), ISnapshot, IRun
    PROVE  ITypeOK' /\ setup' = setup
  <1>0. setup \in ISetup /\ I!Range(I!migrations) = AllMigrations
    BY InstallSetupsType, MigrationNames DEF ITypeOK, ISetup
  <1>p. \A p \in {"idle", "download", "clean", "preserve", "wipe", "extract", "restore", "done", "setup", "snapshot",
                  "migrate", "record", "restoreSnapshot", "wizard", "scaffold", "setupEnd"} : p \in IAll
    BY DEF IAll, IScript, ISteps
  <1> USE DEF ITypeOK
  <1>n. faults \in [fail : Nat, crash : Nat, runs : Nat]
    OBVIOUS
  <1>f. I!Fails => faults' \in [fail : Nat, crash : Nat, runs : Nat]
    <2> SUFFICES ASSUME I!Fails PROVE faults' \in [fail : Nat, crash : Nat, runs : Nat]
      OBVIOUS
    <2> HIDE DEF ITypeOK
    <2>1. faults' = [faults EXCEPT !.fail = @ + 1] /\ faults.fail + 1 \in Nat
      BY <1>n DEF I!Fails
    <2> QED
      BY <1>n, <2>1
  <1>r. ASSUME NEW m, NEW d \in IData, I!Rewrites(m, d), I!Stays
        PROVE  ITypeOK' /\ setup' = setup
    BY <1>r, <1>p DEF I!Rewrites, I!Stays, I!Goto
  <1>w. ASSUME NEW m \in AllMigrations
        PROVE  I!Rewritten(m) \in IData
    BY <1>w DEF I!Rewritten, IData
  <1>s. ASSUME NEW items \in IItems
        PROVE  I!Scaffolded(items) \in IItems
    BY DEF I!Scaffolded, IItems, IContents
  <1>d. data.items \in IItems /\ legacy.items \in IItems
    BY DEF IData
  <1>1. CASE UNCHANGED I!vars
    BY <1>1 DEF I!vars, I!disk
  <1>2. CASE I!Start
    BY <1>2, <1>p DEF I!Start, I!Goto, I!disk, I!detect_existing_install
  <1>3. CASE I!StartSetup
    BY <1>3, <1>p DEF I!StartSetup, I!Goto, I!disk
  <1>4. CASE I!download_tarball
    BY <1>4, <1>p, <1>f DEF I!download_tarball, I!Goto, I!disk
  <1>5. CASE I!run_clean_flow_preinstall
    <2>1. pc' \in {"idle", "preserve"} /\ wired' \in BOOLEAN
      BY <1>5 DEF I!run_clean_flow_preinstall, I!Goto
    <2>2. UNCHANGED <<setup, legacy, mixed, stash, data, before, install, snaps, preserved, service, flags, todo, faults>>
      BY <1>5 DEF I!run_clean_flow_preinstall
    <2>3. pc' \in IAll
      BY <1>p, <2>1
    <2> QED
      BY <2>1, <2>2, <2>3
  <1>6. CASE I!preserve_data_dir
    <2>1. [data |-> data, snaps |-> snaps] \in [data : IData, snaps : Seq(IData)] /\ <<>> \in Seq(IData)
      BY EmptySeq
    <2>2. preserved' \in Seq([data : IData, snaps : Seq(IData)])
      BY <1>6, <2>1, AppendProperties DEF I!preserve_data_dir
    <2> QED
      BY <1>6, <1>p, <2>1, <2>2, Blank DEF I!preserve_data_dir, I!Goto
  <1>7. CASE I!wipe_code_in_install_dir
    BY <1>7, <1>p, Blank DEF I!wipe_code_in_install_dir, I!Goto
  <1>8. CASE I!extract_and_install
    BY <1>8, <1>p DEF I!extract_and_install, I!Goto
  <1>9. CASE I!cleanup
    <2>1. CASE flags.fresh
      <3>1. <<>> \in Seq(IData)
        BY EmptySeq
      <3>2. /\ install' = [code |-> "none", version |-> FALSE, moved |-> FALSE]
            /\ mixed' = I!Nothing /\ stash' = I!Nothing /\ data' = I!Empty /\ snaps' = <<>>
        BY <1>9, <2>1 DEF I!cleanup
      <3> QED
        BY <1>9, <3>1, <3>2, <1>p, <1>f, Blank DEF I!cleanup, I!Goto
    <2>2. CASE ~flags.fresh
      BY <1>9, <2>2, <1>p, <1>f DEF I!cleanup, I!Goto
    <2> QED
      BY <2>1, <2>2
  <1>10. CASE I!restore_preserved_data
    <2>1. CASE flags.kept
      <3>1. preserved # <<>>
        BY <1>10, <2>1 DEF IRun, I!restore_preserved_data
      <3>2. /\ preserved[Len(preserved)] \in [data : IData, snaps : Seq(IData)]
            /\ SubSeq(preserved, 1, Len(preserved) - 1) \in Seq([data : IData, snaps : Seq(IData)])
        BY <3>1, LastTaken
      <3> QED
        BY <1>10, <1>p, <2>1, <3>2, ZenonT(60) DEF I!restore_preserved_data, I!Goto
    <2>2. CASE ~flags.kept
      BY <1>10, <1>p, <2>2 DEF I!restore_preserved_data, I!Goto
    <2> QED
      BY <2>1, <2>2
  <1>11. CASE I!write_version_file
    BY <1>11, <1>p DEF I!write_version_file, I!Goto
  <1>12. CASE I!Done
    BY <1>12, <1>p DEF I!Done, I!Goto, I!disk
  <1>13. CASE I!migrateLegacyData
    <2> DEFINE items == [it \in I!Items |-> IF legacy.items[it] # "none" THEN legacy.items[it] ELSE data.items[it]]
    <2>1. items \in IItems
      BY <1>d DEF IItems
    <2>2. data' \in IData
      BY <1>13, <2>1 DEF I!migrateLegacyData, IData
    <2> QED
      BY <1>13, <1>p, <2>2 DEF I!migrateLegacyData, I!Goto
  <1>14. CASE I!createSnapshot
    <2>1. snaps' \in Seq(IData)
      BY <1>14, Pruned DEF I!createSnapshot
    <2>2. data' \in IData /\ before' \in IData
      BY <1>14 DEF I!createSnapshot, IData
    <2>3. todo' \subseteq AllMigrations
      BY <1>0, <1>14 DEF I!createSnapshot
    <2> QED
      BY <1>p, <1>14, <2>1, <2>2, <2>3 DEF I!createSnapshot, I!Goto
  <1>15. ASSUME NEW it \in I!Items, I!MoveItem(it) PROVE ITypeOK' /\ setup' = setup
    <2>1. /\ mixed[it] \in IContents /\ [mixed EXCEPT ![it] = "none"] \in IItems
          /\ [stash EXCEPT ![it] = mixed[it]] \in IItems
      BY DEF IItems, IContents
    <2>2. [data EXCEPT !.items[it] = mixed[it]] \in IData
      BY <1>d, <2>1, DataWritten
    <2> QED
      BY <1>15, <2>1, <2>2, ZenonT(60) DEF I!MoveItem
  <1>16. CASE I!recordMigration
    <2>1. {I!Current} \subseteq AllMigrations
      BY <1>16, CurrentIn DEF IRun, I!recordMigration
    <2>2. data' \in IData
      BY <1>16, <2>1 DEF I!recordMigration, IData
    <2> QED
      BY <1>16, <1>p, <2>2 DEF I!recordMigration, I!Goto
  <1>17. CASE I!migration001
    BY <1>17, <1>r, <1>w DEF I!migration001, AllMigrations
  <1>18. CASE I!migration003
    BY <1>18, <1>r, <1>w DEF I!migration003, AllMigrations
  <1>19. CASE I!migration004
    <2>1. [data EXCEPT !.items = I!Scaffolded(@)] \in IData
      BY <1>d, <1>s DEF IData
    <2> QED
      BY <1>19, <2>1, <1>r DEF I!migration004
  <1>20. CASE I!migration005
    <2>1. I!Reconciled \in IItems
      BY <1>d DEF I!Reconciled, IItems
    <2>2. [data EXCEPT !.items = I!Reconciled] \in IData
      BY <2>1 DEF IData
    <2> QED
      BY <1>20, <1>p, <2>2, ZenonT(60) DEF I!migration005, I!Rewrites, I!Goto
  <1>21. CASE I!migration006
    BY <1>21, <1>p DEF I!migration006, I!Rewrites, I!Goto
  <1>22. CASE I!migration007
    BY <1>22, <1>p DEF I!migration007, I!Rewrites, I!Goto
  <1>23. CASE I!migration008
    BY <1>23, <1>r, <1>w DEF I!migration008, AllMigrations
  <1>24. CASE I!MigrationsDone
    <2>1. data' \in IData
      BY <1>24 DEF I!MigrationsDone, IData
    <2> QED
      BY <1>24, <1>p, <2>1 DEF I!MigrationsDone, I!Goto
  <1>25. CASE I!MigrationFails
    BY <1>25, <1>p, <1>f, Blank DEF I!MigrationFails, I!Goto
  <1>26. CASE I!SnapshotRestored
    <2>1. snaps # <<>>
      BY <1>26 DEF ISnapshot, I!SnapshotRestored
    <2>2. snaps[Len(snaps)] \in IData
      BY <2>1, LastTaken
    <2>3. data' \in IData
      BY <1>26, <2>2 DEF I!SnapshotRestored, I!restoreSnapshot, IData
    <2> QED
      BY <1>26, <1>p, <2>3 DEF I!SnapshotRestored, I!Goto
  <1>27. CASE I!runWizard
    <2>1. data' \in IData
      BY <1>27, <1>d, <1>s, ZenonT(60) DEF I!runWizard, IData
    <2> QED
      BY <1>27, <1>p, <2>1, ZenonT(60) DEF I!runWizard, I!Goto
  <1>28. CASE I!ensureScaffold
    <2>1. data' \in IData
      BY <1>28, <1>d, <1>s DEF I!ensureScaffold, IData
    <2> QED
      BY <1>28, <1>p, <2>1, ZenonT(60) DEF I!ensureScaffold, I!Goto
  <1>29. CASE I!Crash
    BY <1>29, <1>p DEF I!Crash, I!Goto, I!disk
  <1> QED
    BY <1>1, <1>2, <1>3, <1>4, <1>5, <1>6, <1>7, <1>8, <1>9, <1>10, <1>11, <1>12, <1>13, <1>14, <1>15, <1>16,
       <1>17, <1>18, <1>19, <1>20, <1>21, <1>22, <1>23, <1>24, <1>25, <1>26, <1>27, <1>28, <1>29
       DEF I!Next, I!runMigrations

(* The steps go forward: nothing comes back to the install directory, the      *)
(* legacy directory only gets its breadcrumb, the service stays installed.     *)
IForth ==
    /\ \A it \in I!Items : mixed'[it] \in {mixed[it], "none"}
    /\ legacy'.items = legacy.items /\ (legacy.done => legacy'.done)
    /\ service => service'
LEMMA Forth ==
    ASSUME ITypeOK, [I!Next]_(I!vars)
    PROVE  IForth
  <1>0. legacy \in [items : IItems, done : BOOLEAN] /\ mixed \in IItems /\ service \in BOOLEAN
    BY DEF ITypeOK
  <1>s. UNCHANGED <<mixed, legacy>> /\ (service => service') => IForth
    BY DEF IForth
  <1>1. CASE UNCHANGED I!vars
    BY <1>1, <1>s DEF I!vars, I!disk
  <1>2. CASE I!Start \/ I!StartSetup \/ I!download_tarball \/ I!Done \/ I!Crash
    BY <1>2, <1>s DEF I!Start, I!StartSetup, I!download_tarball, I!Done, I!Crash, I!disk
  <1>3. CASE \/ I!run_clean_flow_preinstall \/ I!preserve_data_dir \/ I!extract_and_install
             \/ I!restore_preserved_data \/ I!migrateLegacyData \/ I!createSnapshot
    BY <1>3, <1>s DEF I!run_clean_flow_preinstall, I!preserve_data_dir, I!extract_and_install,
       I!restore_preserved_data, I!migrateLegacyData, I!createSnapshot
  <1>4. CASE I!wipe_code_in_install_dir \/ I!cleanup
    BY <1>4, Blank DEF I!wipe_code_in_install_dir, I!cleanup, IForth
  <1>5. CASE I!write_version_file
    <2>1. service => service'
      BY <1>5, <1>0 DEF I!write_version_file
    <2> QED
      BY <1>5, <2>1, <1>s DEF I!write_version_file
  <1>6. ASSUME NEW it \in I!Items, I!MoveItem(it) PROVE IForth
    BY <1>6, <1>0 DEF I!MoveItem, IForth, IItems
  <1>7. CASE I!recordMigration \/ I!migration001 \/ I!migration003 \/ I!migration004 \/ I!migration008
    BY <1>7, <1>s DEF I!recordMigration, I!migration001, I!migration003, I!migration004, I!migration008,
       I!Rewrites, I!Stays
  <1>8. CASE I!migration005
    BY <1>8, <1>0 DEF I!migration005, I!Rewrites, IForth
  <1>9. CASE I!migration006 \/ I!migration007
    BY <1>9, <1>s DEF I!migration006, I!migration007, I!Rewrites
  <1>10. CASE I!MigrationsDone \/ I!MigrationFails \/ I!SnapshotRestored
    BY <1>10, <1>s DEF I!MigrationsDone, I!MigrationFails, I!SnapshotRestored
  <1>11. CASE I!runWizard
    BY <1>11, <1>s DEF I!runWizard
  <1>12. CASE I!ensureScaffold
    BY <1>12, <1>s DEF I!ensureScaffold
  <1> QED
    BY <1>1, <1>2, <1>3, <1>4, <1>5, <1>6, <1>7, <1>8, <1>9, <1>10, <1>11, <1>12 DEF I!Next, I!runMigrations

(* What has happened has happened for good. *)
LEMMA HappenedStays ==
    ASSUME IForth, NEW d, Happened(d)
    PROVE  Happened(d)'
  BY DEF IForth, Happened

(* Which run is at which step. *)
LEMMA IRunStep ==
    ASSUME ITypeOK, IRun, [I!Next]_(I!vars)
    PROVE  IRun'
  <1>0. /\ setup \in ISetup /\ faults \in [fail : Nat, crash : Nat, runs : Nat]
        /\ flags \in [upgrade : BOOLEAN, legacy : BOOLEAN, fresh : BOOLEAN, kept : BOOLEAN, ok : BOOLEAN]
    BY InstallSetupsType DEF ITypeOK, ISetup
  <1>f. I!Fails => faults'.fail > 0
    BY <1>0 DEF I!Fails
  <1> USE DEF IRun, IScript, ISteps, I!Goto, ISetup
  <1>1. CASE UNCHANGED I!vars
    BY <1>1 DEF I!vars, I!disk
  <1>2. CASE I!Start
    BY <1>2, <1>0 DEF I!Start, I!disk, I!detect_existing_install
  <1>3. CASE I!StartSetup
    BY <1>3, <1>0 DEF I!StartSetup, I!disk
  <1>4. CASE I!download_tarball
    BY <1>4, <1>0 DEF I!download_tarball, I!disk
  <1>5. CASE I!run_clean_flow_preinstall
    BY <1>5, <1>0 DEF I!run_clean_flow_preinstall
  <1>6. CASE I!preserve_data_dir
    <2>1. data # I!Empty => preserved' # <<>>
      BY <1>6, AppendProperties DEF I!preserve_data_dir, ITypeOK
    <2> QED
      BY <1>6, <1>0, <2>1 DEF I!preserve_data_dir
  <1>7. CASE I!wipe_code_in_install_dir
    BY <1>7, <1>0 DEF I!wipe_code_in_install_dir
  <1>8. CASE I!extract_and_install
    BY <1>8, <1>0 DEF I!extract_and_install
  <1>9. CASE I!cleanup
    BY <1>9, <1>0 DEF I!cleanup
  <1>10. CASE I!restore_preserved_data
    BY <1>10, <1>0 DEF I!restore_preserved_data
  <1>11. CASE I!write_version_file
    BY <1>11, <1>0 DEF I!write_version_file
  <1>12. CASE I!Done
    BY <1>12, <1>0 DEF I!Done, I!disk
  <1>13. CASE I!migrateLegacyData
    BY <1>13, <1>0 DEF I!migrateLegacyData
  <1>14. CASE I!createSnapshot
    BY <1>14, <1>0 DEF I!createSnapshot
  <1>15. ASSUME NEW it \in I!Items, I!MoveItem(it) PROVE IRun'
    BY <1>15, <1>0 DEF I!MoveItem
  <1>16. CASE I!recordMigration
    BY <1>16, <1>0 DEF I!recordMigration
  <1>17. ASSUME NEW m, NEW d, I!Rewrites(m, d) PROVE IRun'
    BY <1>17, <1>0 DEF I!Rewrites
  <1>18. CASE I!MigrationsDone
    BY <1>18, <1>0 DEF I!MigrationsDone
  <1>19. CASE I!MigrationFails
    BY <1>19, <1>0, <1>f DEF I!MigrationFails
  <1>20. CASE I!SnapshotRestored
    BY <1>20, <1>0 DEF I!SnapshotRestored
  <1>21. CASE I!runWizard
    BY <1>21, <1>0 DEF I!runWizard
  <1>22. CASE I!ensureScaffold
    BY <1>22, <1>0 DEF I!ensureScaffold
  <1>23. CASE I!Crash
    BY <1>23, <1>0 DEF I!Crash, I!disk
  <1> HIDE DEF IRun, IScript, ISteps, I!Goto, ISetup
  <1>24. I!runMigrations => IRun'
    BY <1>16, <1>17 DEF I!runMigrations, I!migration001, I!migration003, I!migration004, I!migration005,
       I!migration006, I!migration007, I!migration008
  <1> QED
    BY <1>1, <1>2, <1>3, <1>4, <1>5, <1>6, <1>7, <1>8, <1>9, <1>10, <1>11, <1>12, <1>13, <1>14, <1>15, <1>18, <1>19,
       <1>20, <1>21, <1>22, <1>23, <1>24 DEF I!Next

(* A migration runs: what is there stays there, what is missing comes from the  *)
(* legacy directory or is an empty scaffold, and it has happened then.          *)
IMigrates ==
    /\ pc = "migrate" /\ pc' = "record" /\ todo # {}
    /\ UNCHANGED <<setup, mixed, stash, preserved, snaps, flags, todo, before, faults>>
    /\ install'.version = install.version /\ (install'.moved => install.moved \/ \A it \in I!Items : mixed[it] = "none")
    /\ data'.history = data.history /\ data'.marker = data.marker /\ data.files \subseteq data'.files
    /\ \A it \in I!Items : IF data.items[it] = "none" THEN data'.items[it] \in {"none", "scaffold", legacy.items[it]}
                            ELSE data'.items[it] = data.items[it]
    /\ I!Current \in {"001", "003", "008"} => I!Current \in data'.files
    /\ I!Current = "004" => \A it \in I!Items : data'.items[it] # "none"
    /\ I!Current = "005" => (\A it \in I!Items : legacy.items[it] = "none") \/ legacy'.done
    /\ I!Current = "006" => install.moved \/ \A it \in I!Items : mixed[it] = "none"
    /\ I!Current = "007" => service'
LEMMA Migrating ==
    ASSUME ITypeOK, I!runMigrations
    PROVE  I!recordMigration \/ IMigrates
  <1>0. /\ data \in IData /\ data.items \in IItems /\ legacy \in [items : IItems, done : BOOLEAN] /\ mixed \in IItems
        /\ install \in [code : {"none", "ok"}, version : BOOLEAN, moved : BOOLEAN]
    BY DEF ITypeOK, IData
  <1>1. ASSUME NEW m, NEW d \in IData, I!Rewrites(m, d)
        PROVE  /\ pc = "migrate" /\ pc' = "record" /\ todo # {} /\ I!Current = m /\ data' = d
               /\ UNCHANGED <<setup, mixed, stash, preserved, snaps, flags, todo, before, faults>>
    BY <1>1 DEF I!Rewrites, I!Goto
  <1>2. CASE I!migration001 \/ I!migration003 \/ I!migration008
    <2>1. ASSUME NEW m \in {"001", "003", "008"}, I!Rewrites(m, I!Rewritten(m)), I!Stays PROVE IMigrates
      <3> DEFINE d == [data EXCEPT !.files = @ \cup {m}]
      <3>1. d \in IData /\ d = I!Rewritten(m)
        BY <2>1, <1>0 DEF I!Rewritten, IData, AllMigrations
      <3>2. /\ d.history = data.history /\ d.marker = data.marker /\ d.files = data.files \cup {m}
            /\ d.items = data.items
        BY <1>0 DEF IData
      <3> HIDE DEF d
      <3> QED
        BY <2>1, <3>1, <3>2, <1>1 DEF I!Stays, IMigrates
    <2> QED
      BY <1>2, <2>1 DEF I!migration001, I!migration003, I!migration008
  <1>3. CASE I!migration004
    <2> DEFINE d == [data EXCEPT !.items = I!Scaffolded(@)]
    <2>1. d \in IData /\ d.items = I!Scaffolded(data.items) /\ d.history = data.history /\ d.files = data.files
          /\ d.marker = data.marker
      <3>1. I!Scaffolded(data.items) \in IItems
        BY <1>0 DEF I!Scaffolded, IItems, IContents
      <3> QED
        BY <3>1, <1>0 DEF IData
    <2>2. \A it \in I!Items : d.items[it] = IF data.items[it] = "none" THEN "scaffold" ELSE data.items[it]
      BY <2>1 DEF I!Scaffolded
    <2>3. I!Rewrites("004", d) /\ I!Stays
      BY <1>3 DEF I!migration004
    <2> HIDE DEF d
    <2> QED
      BY <2>1, <2>2, <2>3, <1>1 DEF I!Stays, IMigrates
  <1>4. CASE I!migration005
    <2> DEFINE d == [data EXCEPT !.items = I!Reconciled]
    <2>1. d \in IData /\ d.items = I!Reconciled /\ d.history = data.history /\ d.files = data.files
          /\ d.marker = data.marker
      <3>1. I!Reconciled \in IItems
        BY <1>0 DEF I!Reconciled, IItems
      <3> QED
        BY <3>1, <1>0 DEF IData
    <2>2. \A it \in I!Items : IF data.items[it] = "none" THEN d.items[it] \in {"none", legacy.items[it]}
                              ELSE d.items[it] = data.items[it]
      BY <2>1 DEF I!Reconciled
    <2>3. I!Rewrites("005", d) /\ UNCHANGED install
      BY <1>4 DEF I!migration005
    <2>4. (\A it \in I!Items : legacy.items[it] = "none") \/ legacy'.done
      <3>1. CASE legacy.items = I!Nothing
        BY <3>1, Blank
      <3>2. CASE legacy.items # I!Nothing
        BY <3>2, <1>4, <1>0 DEF I!migration005
      <3> QED
        BY <3>1, <3>2
    <2> HIDE DEF d
    <2> QED
      BY <2>1, <2>2, <2>3, <2>4, <1>1 DEF IMigrates
  <1>5. CASE I!migration006
    <2>1. I!Rewrites("006", data)
      BY <1>5 DEF I!migration006
    <2>2. /\ install.moved \/ \A it \in I!Items : mixed[it] = "none"
          /\ install'.version = install.version
      BY <1>5, <1>0, Blank DEF I!migration006
    <2> QED
      BY <2>1, <2>2, <1>0, <1>1 DEF IMigrates
  <1>6. CASE I!migration007
    <2>1. I!Rewrites("007", data) /\ service' /\ UNCHANGED <<legacy, install>>
      BY <1>6 DEF I!migration007
    <2> QED
      BY <2>1, <1>0, <1>1 DEF IMigrates
  <1> QED
    BY <1>2, <1>3, <1>4, <1>5, <1>6 DEF I!runMigrations

(* The setup stays, and faults are counted. *)
LEMMA Counted ==
    ASSUME ITypeOK, [I!Next]_(I!vars)
    PROVE  /\ setup' = setup
           /\ faults.fail \in Nat /\ faults.crash \in Nat /\ faults'.fail \in Nat /\ faults'.crash \in Nat
           /\ faults'.fail >= faults.fail /\ faults'.crash >= faults.crash
  <1>0. faults \in [fail : Nat, crash : Nat, runs : Nat]
    BY DEF ITypeOK
  <1>1. /\ setup' = setup
        /\ \/ UNCHANGED faults \/ faults' = [faults EXCEPT !.runs = @ + 1]
           \/ faults' = [faults EXCEPT !.fail = @ + 1] \/ faults' = [faults EXCEPT !.crash = @ + 1]
    BY DEF I!Next, I!vars, I!disk, I!Start, I!StartSetup, I!download_tarball, I!run_clean_flow_preinstall,
       I!preserve_data_dir, I!wipe_code_in_install_dir, I!extract_and_install, I!cleanup, I!restore_preserved_data,
       I!write_version_file, I!Done, I!migrateLegacyData, I!createSnapshot, I!MoveItem, I!runMigrations,
       I!recordMigration, I!migration001, I!migration003, I!migration004, I!migration005, I!migration006,
       I!migration007, I!migration008, I!Rewrites, I!MigrationsDone, I!MigrationFails, I!SnapshotRestored,
       I!runWizard, I!ensureScaffold, I!Crash, I!Fails
  <1> QED
    BY <1>0, <1>1

(* What the legacy and the install directory hold. *)
LEMMA ISceneStep ==
    ASSUME ITypeOK, IScene, [I!Next]_(I!vars)
    PROVE  IScene'
  BY Forth, Counted DEF IForth, IScene, Users

(* A run carries out what is not recorded, or puts back what it found. *)
LEMMA IRecordedStep ==
    ASSUME ITypeOK, IRun, IRecorded, ISnapshot, [I!Next]_(I!vars)
    PROVE  IRecorded' /\ ISnapshot'
  <1>0. /\ setup \in ISetup /\ data \in IData /\ snaps \in Seq(IData) /\ todo \subseteq AllMigrations
        /\ flags \in [upgrade : BOOLEAN, legacy : BOOLEAN, fresh : BOOLEAN, kept : BOOLEAN, ok : BOOLEAN]
        /\ I!Range(I!migrations) = AllMigrations
    BY InstallSetupsType, MigrationNames DEF ITypeOK, ISetup
  <1>a. ASSUME pc' \notin {"migrate", "record", "restoreSnapshot", "scaffold", "setupEnd"}
        PROVE  IRecorded' /\ ISnapshot'
    BY <1>a DEF IRecorded, ISnapshot
  <1>1. CASE UNCHANGED I!vars
    BY <1>1 DEF I!vars, I!disk, IRecorded, ISnapshot
  <1>2. CASE \/ I!Start \/ I!StartSetup \/ I!download_tarball \/ I!run_clean_flow_preinstall \/ I!preserve_data_dir
             \/ I!wipe_code_in_install_dir \/ I!extract_and_install \/ I!cleanup
    BY <1>2, <1>a DEF I!Start, I!StartSetup, I!download_tarball, I!run_clean_flow_preinstall, I!preserve_data_dir,
       I!wipe_code_in_install_dir, I!extract_and_install, I!cleanup, I!Goto
  <1>3. CASE I!restore_preserved_data \/ I!write_version_file \/ I!Done \/ I!migrateLegacyData \/ I!Crash
    BY <1>3, <1>a DEF I!restore_preserved_data, I!write_version_file, I!Done, I!migrateLegacyData, I!Crash, I!Goto
  <1>4. CASE I!createSnapshot
    <2>1. /\ pc' = "migrate" /\ before' = data /\ data'.history = data.history
          /\ todo' = AllMigrations \ data.history
      BY <1>4, <1>0 DEF I!createSnapshot, I!Goto, IData
    <2>2. snaps' # <<>> /\ snaps'[Len(snaps')] = data
      <3>1. snaps' = I!pruneSnapshots(Append(snaps, data))
        BY <1>4 DEF I!createSnapshot
      <3>2. snaps \in Seq(IData) /\ data \in IData
        BY <1>0
      <3> QED
        BY <3>1, <3>2, Pruned, ZenonT(60)
    <2> QED
      BY <2>1, <2>2 DEF IRecorded, ISnapshot
  <1>5. ASSUME NEW it \in I!Items, I!MoveItem(it) PROVE IRecorded' /\ ISnapshot'
    <2>1. pc = "migrate" /\ UNCHANGED <<pc, todo, snaps, before>> /\ data'.history = data.history
      BY <1>5, <1>0 DEF I!MoveItem, IData
    <2> QED
      BY <2>1 DEF IRecorded, ISnapshot
  <1>6. CASE I!runMigrations
    <2>1. CASE I!recordMigration
      <3>1. /\ pc = "record" /\ pc' = "migrate" /\ UNCHANGED <<snaps, before>> /\ todo' = todo \ {I!Current}
            /\ data'.history = data.history \cup {I!Current}
        BY <2>1, <1>0 DEF I!recordMigration, I!Goto, IData
      <3> QED
        BY <3>1 DEF IRecorded, ISnapshot
    <2>2. CASE IMigrates
      BY <2>2 DEF IMigrates, IRecorded, ISnapshot
    <2> QED
      BY <1>6, <2>1, <2>2, Migrating
  <1>7. CASE I!MigrationsDone
    <2>1. pc = "migrate" /\ pc' = "scaffold" /\ todo = {} /\ data'.history = data.history /\ ~data'.marker
      BY <1>7, <1>0 DEF I!MigrationsDone, I!Goto, IData
    <2> QED
      BY <2>1 DEF IRecorded, ISnapshot
  <1>8. CASE I!MigrationFails
    <2>1. pc = "migrate" /\ pc' = "restoreSnapshot" /\ UNCHANGED <<snaps, before>>
      BY <1>8 DEF I!MigrationFails, I!Goto
    <2> QED
      BY <2>1 DEF IRecorded, ISnapshot
  <1>9. CASE I!SnapshotRestored
    <2>1. before \in IData
      BY DEF ITypeOK
    <2>2. data' = [before EXCEPT !.marker = FALSE] /\ UNCHANGED before /\ pc' = "setupEnd" /\ ~flags'.ok
      BY <1>9, <1>0 DEF I!SnapshotRestored, I!restoreSnapshot, I!Goto, ISnapshot
    <2>3. data'.items = before.items /\ data'.files = before.files /\ data'.history = before.history
      BY <2>1, <2>2 DEF IData
    <2> QED
      BY <2>2, <2>3 DEF IRecorded, ISnapshot
  <1>10. CASE I!runWizard
    <2>1. pc' \in {"setupEnd", "scaffold"} /\ ~flags'.upgrade
      BY <1>10, <1>0 DEF I!runWizard, I!Goto, IRun
    <2> QED
      BY <2>1 DEF IRecorded, ISnapshot
  <1>11. CASE I!ensureScaffold
    <2>1. pc = "scaffold" /\ pc' = "setupEnd" /\ UNCHANGED flags /\ data'.history = data.history /\ data'.marker = data.marker
      BY <1>11, <1>0 DEF I!ensureScaffold, I!Goto, IData
    <2>2. flags.ok
      BY <2>1 DEF IRun
    <2> QED
      BY <2>1, <2>2 DEF IRecorded, ISnapshot
  <1> QED
    BY <1>1, <1>2, <1>3, <1>4, <1>5, <1>6, <1>7, <1>8, <1>9, <1>10, <1>11 DEF I!Next

(* What is recorded has happened, here and in every copy. *)
LEMMA IHappenedStep ==
    ASSUME ITypeOK, IRun, ISnapshot, IHappened, [I!Next]_(I!vars)
    PROVE  IHappened'
  <1>0. /\ data \in IData /\ data.items \in IItems /\ snaps \in Seq(IData) /\ legacy.items \in IItems
        /\ preserved \in Seq([data : IData, snaps : Seq(IData)])
        /\ mixed \in IItems /\ install \in [code : {"none", "ok"}, version : BOOLEAN, moved : BOOLEAN]
    BY DEF ITypeOK, IData
  <1>1. IForth
    BY Forth
  <1>2. Happened(data) /\ HappenedIn(snaps) /\ HappenedAside(preserved)
    BY DEF IHappened
  <1>3. /\ UNCHANGED data => Happened(data)'
        /\ UNCHANGED snaps => HappenedIn(snaps)'
        /\ UNCHANGED preserved => HappenedAside(preserved)'
        /\ (install'.moved => install.moved \/ \A it \in I!Items : mixed[it] = "none") => Cleared'
    BY <1>1, <1>2, HappenedStays DEF HappenedIn, HappenedAside, IForth, IHappened, Cleared
  <1>4. ASSUME Happened(data)', HappenedIn(snaps)', HappenedAside(preserved)',
               install'.moved => install.moved \/ (\A it \in I!Items : mixed[it] = "none"), pc' # "record"
        PROVE  IHappened'
    BY <1>4, <1>3 DEF IHappened, Cleared
  <1>e. Happened(I!Empty)' /\ HappenedIn(<<>>)'
    BY Blank DEF Happened, HappenedIn
  <1>5. CASE UNCHANGED I!vars
    <2>1. UNCHANGED <<data, snaps, preserved, install, pc, todo>>
      BY <1>5 DEF I!vars, I!disk
    <2>2. I!Current' = I!Current
      BY <2>1 DEF I!Current
    <2>3. pc' = "record" => Happened([data EXCEPT !.history = @ \cup {I!Current}])'
      <3> DEFINE d == [data EXCEPT !.history = @ \cup {I!Current}]
      <3>1. d' = d /\ (pc = "record" => Happened(d))
        BY <2>1, <2>2 DEF IHappened
      <3> HIDE DEF d
      <3>2. pc = "record" => Happened(d)'
        BY <3>1, <1>1, HappenedStays DEF Happened
      <3> QED
        BY <2>1, <3>2 DEF d
    <2> QED
      BY <2>1, <2>3, <1>3 DEF IHappened, Cleared
  <1>6. CASE I!Start \/ I!StartSetup \/ I!download_tarball \/ I!Done \/ I!Crash
    <2>1. UNCHANGED <<data, snaps, preserved, install>> /\ pc' # "record"
      BY <1>6 DEF I!Start, I!StartSetup, I!download_tarball, I!Done, I!Crash, I!disk, I!Goto
    <2> QED
      BY <2>1, <1>3, <1>4
  <1>7. CASE I!run_clean_flow_preinstall \/ I!wipe_code_in_install_dir \/ I!extract_and_install \/ I!write_version_file
    <2>1. UNCHANGED <<data, snaps, preserved>> /\ pc' # "record"
      BY <1>7 DEF I!run_clean_flow_preinstall, I!wipe_code_in_install_dir, I!extract_and_install,
         I!write_version_file, I!Goto
    <2>2. install' \in {install, [install EXCEPT !.code = "ok"], [install EXCEPT !.version = TRUE],
                       [code |-> "none", version |-> FALSE, moved |-> FALSE]}
      BY <1>7 DEF I!run_clean_flow_preinstall, I!wipe_code_in_install_dir, I!extract_and_install, I!write_version_file
    <2>3. install'.moved => install.moved
      BY <2>2, <1>0
    <2> QED
      BY <2>1, <2>3, <1>3, <1>4
  <1>8. CASE I!preserve_data_dir
    <2>1. /\ data' = I!Empty /\ snaps' = <<>> /\ UNCHANGED install /\ pc' # "record"
          /\ preserved' = preserved \/ preserved' = Append(preserved, [data |-> data, snaps |-> snaps])
      BY <1>8 DEF I!preserve_data_dir, I!Goto
    <2>2. HappenedAside(preserved)'
      <3> DEFINE b == [data |-> data, snaps |-> snaps]
      <3>1. CASE preserved' = preserved
        BY <3>1, <1>3
      <3>2. CASE preserved' = Append(preserved, b)
        <4>1. \A k \in DOMAIN preserved' : preserved'[k] = b \/ \E l \in DOMAIN preserved : preserved'[k] = preserved[l]
          BY <3>2, <1>0, AppendProperties
        <4>2. Happened(b.data) /\ HappenedIn(b.snaps)
          BY <1>2
        <4> HIDE DEF b
        <4>3. \A k \in DOMAIN preserved' : Happened(preserved'[k].data) /\ HappenedIn(preserved'[k].snaps)
          BY <4>1, <4>2, <1>2 DEF HappenedAside
        <4> QED
          BY <4>3, <1>1, HappenedStays DEF HappenedAside, HappenedIn
      <3> QED
        BY <2>1, <3>1, <3>2
    <2> QED
      BY <2>1, <2>2, <1>e, <1>4 DEF HappenedIn
  <1>9. CASE I!cleanup
    BY <1>9, <1>0, <1>3, <1>4, <1>e DEF I!cleanup, I!Goto, HappenedIn
  <1>10. CASE I!restore_preserved_data
    <2>1. UNCHANGED install /\ pc' # "record" /\ (~flags.kept => UNCHANGED <<data, snaps, preserved>>)
      BY <1>10 DEF I!restore_preserved_data, I!Goto
    <2>2. CASE flags.kept
      <3> DEFINE last == preserved[Len(preserved)]
      <3>1. preserved # <<>>
        BY <1>10, <2>2 DEF IRun, I!restore_preserved_data
      <3>2. data' = last.data /\ snaps' = last.snaps /\ preserved' = SubSeq(preserved, 1, Len(preserved) - 1)
        BY <1>10, <2>2 DEF I!restore_preserved_data
      <3>3. /\ \A k \in DOMAIN preserved' : preserved'[k] = preserved[k] /\ k \in DOMAIN preserved
            /\ Len(preserved) \in DOMAIN preserved
        BY <3>1, <3>2, <1>0, LastTaken
      <3>4. Happened(last.data) /\ HappenedIn(last.snaps)
        BY <3>3, <1>2 DEF HappenedAside
      <3> HIDE DEF last
      <3>5. Happened(data)' /\ HappenedIn(snaps)'
        BY <3>2, <3>4, <1>1, HappenedStays DEF HappenedIn
      <3>6. HappenedAside(preserved)'
        BY <3>3, <1>1, <1>2, HappenedStays DEF HappenedAside, HappenedIn
      <3> QED
        BY <2>1, <3>5, <3>6, <1>4
    <2> QED
      BY <2>1, <2>2, <1>3, <1>4
  (* The data directory is written to, the copies are not. *)
  <1>w. ASSUME UNCHANGED <<snaps, preserved, install>>, Happened(data)', pc' # "record" PROVE IHappened'
    BY <1>w, <1>3, <1>4
  <1>i. ASSUME data'.history = data.history, data'.files = data.files,
               \A it \in I!Items : data.items[it] # "none" => data'.items[it] # "none"
        PROVE  Happened(data)'
    BY <1>i, <1>1, <1>2 DEF Happened, IForth
  <1>11. CASE I!migrateLegacyData
    <2>1. /\ data'.history = data.history /\ data'.files = data.files
          /\ \A it \in I!Items : data.items[it] # "none" => data'.items[it] # "none"
      BY <1>11, <1>0 DEF I!migrateLegacyData, IData
    <2> QED
      BY <1>11, <2>1, <1>i, <1>w DEF I!migrateLegacyData, I!Goto
  <1>12. CASE I!createSnapshot
    <2>1. /\ data'.history = data.history /\ data'.files = data.files /\ data'.items = data.items
          /\ UNCHANGED <<preserved, install>> /\ pc' # "record" /\ snaps' = I!pruneSnapshots(Append(snaps, data))
      BY <1>12, <1>0 DEF I!createSnapshot, IData, I!Goto
    <2>2. \A k \in DOMAIN snaps' : snaps'[k] = data \/ \E l \in DOMAIN snaps : snaps'[k] = snaps[l]
      BY <2>1, <1>0, Pruned
    <2>3. \A k \in DOMAIN snaps' : Happened(snaps'[k])
      BY <2>2, <1>2 DEF HappenedIn
    <2>4. HappenedIn(snaps)'
      BY <2>3, <1>1, HappenedStays DEF HappenedIn
    <2> QED
      BY <2>1, <2>4, <1>i, <1>3, <1>4
  <1>13. ASSUME NEW it \in I!Items, I!MoveItem(it) PROVE IHappened'
    <2>1. /\ data'.history = data.history /\ data'.files = data.files
          /\ \A j \in I!Items : data.items[j] # "none" => data'.items[j] # "none"
      BY <1>13, <1>0 DEF I!MoveItem, IData, IItems
    <2> QED
      BY <1>13, <2>1, <1>i, <1>w DEF I!MoveItem
  <1>14. CASE I!recordMigration
    <2>1. pc = "record" /\ pc' = "migrate" /\ data' = [data EXCEPT !.history = @ \cup {I!Current}]
          /\ UNCHANGED <<snaps, preserved, install>>
      BY <1>14 DEF I!recordMigration, I!Goto
    <2>2. Happened(data')
      BY <2>1 DEF IHappened
    <2>3. Happened(data)'
      BY <2>2, <1>1, HappenedStays
    <2> QED
      BY <2>1, <2>3, <1>w
  <1>15. CASE IMigrates
    <2>1. I!Current' = I!Current
      BY <1>15 DEF IMigrates, I!Current
    <2>2. /\ data'.history = data.history /\ data.files \subseteq data'.files
          /\ \A it \in I!Items : data.items[it] # "none" => data'.items[it] # "none"
      BY <1>15 DEF IMigrates
    <2>3. Happened(data)'
      BY <2>2, <1>1, <1>2 DEF Happened, IForth
    <2>4. Happened([data EXCEPT !.history = @ \cup {I!Current}])'
      <3> DEFINE d == [data EXCEPT !.history = @ \cup {I!Current}]
      <3>1. data' \in IData
        BY InstallType DEF ITypeOK
      <3>2. d'.files = data'.files /\ d'.items = data'.items /\ d'.history = data'.history \cup {I!Current}
        BY <2>1, <3>1 DEF IData
      <3> HIDE DEF d
      <3>3. Happened(d)'
        BY <1>15, <1>1, <1>2, <2>3, <3>2 DEF IMigrates, Happened, IForth, IHappened, Cleared
      <3> QED
        BY <3>3 DEF d
    <2> QED
      BY <1>15, <1>3, <2>3, <2>4 DEF IMigrates, IHappened, Cleared
  <1>16. CASE I!MigrationsDone
    <2>1. data'.history = data.history /\ data'.files = data.files /\ data'.items = data.items
      BY <1>16, <1>0 DEF I!MigrationsDone, IData
    <2> QED
      BY <1>16, <2>1, <1>i, <1>w DEF I!MigrationsDone, I!Goto
  <1>17. CASE I!MigrationFails
    BY <1>17, <1>e, <1>w DEF I!MigrationFails, I!Goto
  <1>18. CASE I!SnapshotRestored
    <2>1. snaps # <<>> /\ data' = [snaps[Len(snaps)] EXCEPT !.marker = FALSE]
      BY <1>18 DEF I!SnapshotRestored, I!restoreSnapshot, ISnapshot
    <2>2. Happened(snaps[Len(snaps)]) /\ snaps[Len(snaps)] \in IData
      BY <2>1, <1>0, <1>2, LastTaken DEF HappenedIn
    <2>3. Happened(data')
      BY <2>1, <2>2 DEF Happened, IData
    <2>4. Happened(data)'
      BY <2>3, <1>1, HappenedStays
    <2> QED
      BY <1>18, <2>4, <1>w DEF I!SnapshotRestored, I!Goto
  <1>s. \A it \in I!Items : data.items[it] # "none" => I!Scaffolded(data.items)[it] # "none"
    BY DEF I!Scaffolded
  <1>19. CASE I!runWizard
    <2>1. data' = data \/ data' = [data EXCEPT !.items = I!Scaffolded(@)]
      BY <1>19 DEF I!runWizard
    <2>2. /\ data'.history = data.history /\ data'.files = data.files
          /\ \A it \in I!Items : data.items[it] # "none" => data'.items[it] # "none"
      BY <2>1, <1>0, <1>s DEF IData
    <2> QED
      BY <1>19, <2>2, <1>i, <1>w DEF I!runWizard, I!Goto
  <1>20. CASE I!ensureScaffold
    <2>1. /\ data'.history = data.history /\ data'.files = data.files
          /\ \A it \in I!Items : data.items[it] # "none" => data'.items[it] # "none"
      BY <1>20, <1>0, <1>s DEF I!ensureScaffold, IData
    <2> QED
      BY <1>20, <2>1, <1>i, <1>w DEF I!ensureScaffold, I!Goto
  <1> QED
    BY <1>5, <1>6, <1>7, <1>8, <1>9, <1>10, <1>11, <1>12, <1>13, <1>14, <1>15, <1>16, <1>17, <1>18, <1>19, <1>20, Migrating
       DEF I!Next, I!runMigrations

(* An installation of today keeps its data. *)
LEMMA IModernStep ==
    ASSUME ITypeOK, IRun, ISnapshot, IScene, [I!Next]_(I!vars), setup.scene = "modern", ~I!Exposed => IModern
    PROVE  (~I!Exposed => IModern)'
  <1> SUFFICES ASSUME ~I!Exposed' PROVE IModern'
    OBVIOUS
  <1>0. /\ setup \in ISetup /\ data \in IData /\ data.items \in IItems /\ snaps \in Seq(IData) /\ before \in IData
        /\ install \in [code : {"none", "ok"}, version : BOOLEAN, moved : BOOLEAN]
        /\ flags \in [upgrade : BOOLEAN, legacy : BOOLEAN, fresh : BOOLEAN, kept : BOOLEAN, ok : BOOLEAN]
        /\ preserved \in Seq([data : IData, snaps : Seq(IData)])
    BY InstallSetupsType DEF ITypeOK, ISetup, IData
  <1>1. /\ setup' = setup
        /\ faults.fail \in Nat /\ faults.crash \in Nat /\ faults'.fail \in Nat /\ faults'.crash \in Nat
        /\ faults'.fail >= faults.fail /\ faults'.crash >= faults.crash
    BY Counted
  <1>2. IModern /\ (faults'.crash = 0 => faults.crash = 0) /\ (faults'.fail > 0 => faults'.crash = 0)
    BY <1>1 DEF I!Exposed
  <1>3. \A it \in I!Items : legacy.items[it] = "none" /\ mixed[it] = "none"
    BY DEF IScene
  <1>e. ~Users(I!Empty.items)
    BY Blank DEF Users, I!Items
  (* The user's items stay where they are. *)
  <1>k. ASSUME UNCHANGED <<preserved, before>>, Users(data.items) <=> Users(data'.items),
               pc' # "restoreSnapshot" /\ pc # "restoreSnapshot",
               pc' \in {"migrate", "record"} => pc \in {"migrate", "record"} \/ Users(before.items),
               pc' \notin {"idle", "download", "clean", "preserve", "done", "extract"}
        PROVE  IModern'
    BY <1>k, <1>2 DEF IModern, Stashed
  <1>4. CASE UNCHANGED I!vars
    BY <1>4, <1>2 DEF I!vars, I!disk, IModern, Stashed
  <1>5. CASE I!Start
    <2>1. /\ pc = "idle" /\ pc' = "download" /\ UNCHANGED <<setup, data, preserved, before, install>>
          /\ (flags'.fresh => ~install.version) /\ setup.via = "install"
      BY <1>5 DEF I!Start, I!disk, I!Goto, I!detect_existing_install
    <2> QED
      BY <2>1, <1>1, <1>2 DEF IModern, Stashed
  <1>6. CASE I!StartSetup
    BY <1>6, <1>2 DEF I!StartSetup, I!disk, I!Goto, IModern, Stashed
  <1>7. CASE I!download_tarball
    BY <1>7, <1>1, <1>2 DEF I!download_tarball, I!disk, I!Goto, IModern, Stashed
  <1>8. CASE I!run_clean_flow_preinstall
    BY <1>8, <1>1, <1>2 DEF I!run_clean_flow_preinstall, I!Goto, IModern, Stashed
  <1>9. CASE I!preserve_data_dir
    <2>1. /\ pc = "preserve" /\ pc' = "wipe" /\ data' = I!Empty /\ UNCHANGED flags.fresh
          /\ preserved' = IF data # I!Empty THEN Append(preserved, [data |-> data, snaps |-> snaps]) ELSE preserved
      BY <1>9, <1>0 DEF I!preserve_data_dir, I!Goto
    <2>2. Stashed => Stashed'
      <3>1. \A k \in DOMAIN preserved : k \in DOMAIN preserved' /\ preserved'[k] = preserved[k]
        BY <2>1, <1>0, AppendProperties
      <3> QED
        BY <3>1 DEF Stashed
    <2>3. Users(data.items) => Stashed'
      <3>1. ASSUME Users(data.items) PROVE Stashed'
        <4>1. data # I!Empty
          BY <3>1, <1>e
        <4>2. /\ Len(preserved') \in DOMAIN preserved'
              /\ preserved'[Len(preserved')] = [data |-> data, snaps |-> snaps]
          BY <4>1, <2>1, <1>0, AppendProperties
        <4> QED
          BY <3>1, <4>2 DEF Stashed, Users
      <3> QED
        BY <3>1
    <2> QED
      BY <2>1, <2>2, <2>3, <1>2 DEF IModern
  <1>10. CASE I!wipe_code_in_install_dir
    <2>1. pc = "wipe" /\ pc' = "extract" /\ UNCHANGED <<data, preserved, before, flags>> /\ ~flags.fresh
      BY <1>10 DEF I!wipe_code_in_install_dir, I!Goto, IRun
    <2> QED
      BY <2>1, <1>2 DEF IModern, Stashed
  <1>11. CASE I!extract_and_install
    <2>1. pc = "extract" /\ pc' \in {"setup", "restore"} /\ UNCHANGED <<data, preserved, before, flags>>
      BY <1>11 DEF I!extract_and_install, I!Goto
    <2> QED
      BY <2>1, <1>k
  <1>12. CASE I!cleanup
    <2>1. /\ pc \in {"preserve", "wipe", "extract"} /\ pc' = "idle" /\ UNCHANGED <<preserved, before, flags>>
          /\ faults'.fail > 0
          /\ IF flags.fresh THEN data' = I!Empty ELSE UNCHANGED <<data, install>>
      <3>1. faults' = [faults EXCEPT !.fail = @ + 1] /\ faults \in [fail : Nat, crash : Nat, runs : Nat]
        BY <1>12 DEF I!cleanup, I!Fails, ITypeOK
      <3> QED
        BY <1>12, <3>1 DEF I!cleanup, I!Goto
    <2>2. faults.crash = 0
      BY <2>1, <1>2
    <2>3. CASE flags.fresh
      <3>1. pc = "extract" /\ Stashed
        BY <2>1, <2>2, <2>3, <1>2 DEF IRun, IModern
      <3> QED
        BY <2>1, <2>3, <3>1, <1>e DEF IModern, Stashed
    <2>4. CASE ~flags.fresh
      <3>1. pc \in {"wipe", "extract"} => ~Users(data.items)
        BY <2>4, <1>e DEF IRun
      <3> QED
        BY <2>1, <2>2, <2>4, <3>1, <1>1, <1>2 DEF IModern, Stashed
    <2> QED
      BY <2>3, <2>4
  <1>13. CASE I!restore_preserved_data
    <2>1. pc = "restore" /\ pc' = "setup" /\ (~flags.kept => UNCHANGED <<data, preserved, before>>) /\ data = I!Empty
      BY <1>13 DEF I!restore_preserved_data, I!Goto, IRun
    <2>2. Stashed
      BY <2>1, <1>e, <1>2 DEF IModern
    <2>3. CASE flags.kept
      <3>1. preserved # <<>>
        BY <2>1, <2>3 DEF IRun
      <3>2. data' = preserved[Len(preserved)].data /\ preserved' = SubSeq(preserved, 1, Len(preserved) - 1)
        BY <1>13, <2>3 DEF I!restore_preserved_data
      <3> DEFINE B == [data : IData, snaps : Seq(IData)]
      <3>3. /\ Len(preserved') = Len(preserved) - 1 /\ Len(preserved) \in Nat
            /\ DOMAIN preserved = 1..Len(preserved) /\ DOMAIN preserved' = 1..Len(preserved')
            /\ \A k \in 1..Len(preserved') : preserved'[k] = preserved[k]
        <4>1. preserved \in Seq(B)
          BY <1>0
        <4> HIDE DEF B
        <4>2. /\ preserved' \in Seq(B) /\ Len(preserved') = Len(preserved) - 1
              /\ \A k \in 1..Len(preserved') : preserved'[k] = preserved[k]
          BY <3>1, <3>2, <4>1, LastTaken
        <4> QED
          BY <4>1, <4>2
      <3>4. PICK k \in 1..Len(preserved) : Users(preserved[k].data.items)
        BY <2>2, <3>3 DEF Stashed
      <3>5. k = Len(preserved) \/ (k \in DOMAIN preserved' /\ preserved'[k] = preserved[k])
        BY <3>3
      <3>6. Users(data'.items) \/ Stashed'
        BY <3>2, <3>4, <3>5 DEF Stashed
      <3> QED
        BY <2>1, <3>6 DEF IModern, Users
    <2>4. CASE ~flags.kept
      BY <2>1, <2>2, <2>4 DEF IModern, Stashed
    <2> QED
      BY <2>3, <2>4
  <1>14. CASE I!write_version_file
    <2>1. pc = "setupEnd" /\ pc' = "done" /\ UNCHANGED <<data, preserved, before>> /\ install'.version
      BY <1>14, <1>0 DEF I!write_version_file, I!Goto
    <2> QED
      BY <2>1, <1>2 DEF IModern, Stashed
  <1>15. CASE I!Done
    <2>1. pc' = "idle" /\ UNCHANGED <<setup, data, preserved, before, install>> /\ (pc = "done" \/ setup.via = "setup")
          /\ pc # "restoreSnapshot"
      BY <1>15 DEF I!Done, I!Goto, I!disk
    <2> QED
      BY <2>1, <1>0, <1>1, <1>2 DEF IModern, Stashed, ISetup
  <1>16. CASE I!migrateLegacyData
    <2>1. pc = "setup" /\ pc' \in {"snapshot", "wizard"} /\ UNCHANGED <<preserved, before>>
      BY <1>16 DEF I!migrateLegacyData, I!Goto
    <2>2. \A it \in I!Items : data'.items[it] = data.items[it]
      BY <1>16, <1>0, <1>3 DEF I!migrateLegacyData, IData
    <2> QED
      BY <2>1, <2>2, <1>k DEF Users
  <1>17. CASE I!createSnapshot
    <2>1. /\ pc = "snapshot" /\ pc' = "migrate" /\ UNCHANGED preserved /\ before' = data /\ data'.items = data.items
      BY <1>17, <1>0 DEF I!createSnapshot, I!Goto, IData
    <2> QED
      BY <2>1, <1>2 DEF IModern, Stashed, Users
  <1>18. ASSUME NEW it \in I!Items, I!MoveItem(it) PROVE IModern'
    BY <1>18, <1>3 DEF I!MoveItem
  <1>19. CASE I!recordMigration
    <2>1. pc = "record" /\ pc' = "migrate" /\ UNCHANGED <<preserved, before>> /\ data'.items = data.items
      BY <1>19, <1>0 DEF I!recordMigration, I!Goto, IData
    <2> QED
      BY <2>1, <1>k
  <1>20. CASE IMigrates
    <2>1. pc = "migrate" /\ pc' = "record" /\ UNCHANGED <<preserved, before>>
      BY <1>20 DEF IMigrates
    <2>2. Users(data.items) <=> Users(data'.items)
      BY <1>20, <1>3 DEF IMigrates, Users
    <2> QED
      BY <2>1, <2>2, <1>k
  <1>21. CASE I!MigrationsDone
    <2>1. pc = "migrate" /\ pc' = "scaffold" /\ UNCHANGED <<preserved, before>> /\ data'.items = data.items
      BY <1>21, <1>0 DEF I!MigrationsDone, I!Goto, IData
    <2> QED
      BY <2>1, <1>k
  <1>22. CASE I!MigrationFails
    <2>1. pc = "migrate" /\ pc' = "restoreSnapshot" /\ UNCHANGED <<preserved, before>>
      BY <1>22 DEF I!MigrationFails, I!Goto
    <2> QED
      BY <2>1, <1>2 DEF IModern, Stashed
  <1>23. CASE I!SnapshotRestored
    <2>1. pc = "restoreSnapshot" /\ pc' = "setupEnd" /\ UNCHANGED <<preserved, before>>
          /\ data' = [before EXCEPT !.marker = FALSE]
      BY <1>23 DEF I!SnapshotRestored, I!restoreSnapshot, I!Goto, ISnapshot
    <2>2. data'.items = before.items
      BY <2>1, <1>0 DEF IData
    <2> QED
      BY <2>1, <2>2, <1>2 DEF IModern, Stashed
  <1>24. CASE I!runWizard
    <2>1. /\ pc = "wizard" /\ pc' \in {"setupEnd", "scaffold"} /\ UNCHANGED <<preserved, before>>
          /\ \/ data' = data \/ data' = [data EXCEPT !.items = I!Scaffolded(@)]
      BY <1>24 DEF I!runWizard, I!Goto
    <2>2. \A it \in I!Items : data'.items[it] = "user" <=> data.items[it] = "user"
      BY <2>1, <1>0, SMTT(30) DEF IData, I!Scaffolded
    <2> QED
      BY <2>1, <2>2, <1>k DEF Users
  <1>25. CASE I!ensureScaffold
    <2>1. /\ pc = "scaffold" /\ pc' = "setupEnd" /\ UNCHANGED <<preserved, before>>
          /\ data' = [data EXCEPT !.items = I!Scaffolded(@)]
      BY <1>25 DEF I!ensureScaffold, I!Goto
    <2>2. \A it \in I!Items : data'.items[it] = "user" <=> data.items[it] = "user"
      BY <2>1, <1>0 DEF IData, I!Scaffolded
    <2> QED
      BY <2>1, <2>2, <1>k DEF Users
  <1>26. CASE I!Crash
    <2>1. /\ pc' = "idle" /\ UNCHANGED <<data, preserved, before>> /\ faults'.crash > 0
      <3>1. faults \in [fail : Nat, crash : Nat, runs : Nat]
        BY DEF ITypeOK
      <3> QED
        BY <1>26, <3>1 DEF I!Crash, I!Goto, I!disk
    <2>2. faults'.fail = faults.fail /\ pc # "restoreSnapshot"
      <3>1. faults'.fail = faults.fail
        BY <1>26 DEF I!Crash, ITypeOK
      <3> QED
        BY <2>1, <3>1, <1>1, <1>2, SMTT(30) DEF IRun
    <2> QED
      BY <2>1, <2>2, <1>2 DEF IModern, Stashed
  <1> QED
    BY <1>4, <1>5, <1>6, <1>7, <1>8, <1>9, <1>10, <1>11, <1>12, <1>13, <1>14, <1>15, <1>16, <1>17, <1>18, <1>19, <1>20,
       <1>21, <1>22, <1>23, <1>24, <1>25, <1>26, Migrating DEF I!Next, I!runMigrations

(* A mixed installation keeps its data while its migrations do not fail. *)
LEMMA IMixedStep ==
    ASSUME ITypeOK, IRun, IScene, [I!Next]_(I!vars), setup.scene = "mixed", ~I!Exposed => IMixed
    PROVE  (~I!Exposed => IMixed)'
  <1> SUFFICES ASSUME ~I!Exposed' PROVE IMixed'
    OBVIOUS
  <1>0. /\ data \in IData /\ data.items \in IItems /\ mixed \in IItems /\ stash \in IItems /\ setup \in ISetup
    BY InstallSetupsType DEF ITypeOK, ISetup, IData
  <1>1. /\ setup' = setup
        /\ faults.fail \in Nat /\ faults'.fail \in Nat /\ faults'.fail >= faults.fail
    BY Counted
  <1>2. IMixed /\ setup.via = "setup" /\ faults'.fail = 0 /\ faults.fail = 0 /\ pc \notin IScript
    BY <1>0, <1>1 DEF I!Exposed, IRun, ISetup
  <1>3. \A it \in I!Items : legacy.items[it] = "none" /\ mixed[it] \in {"none", "user"}
    BY DEF IScene
  <1>k. ASSUME UNCHANGED <<mixed, stash>>, \A it \in I!Items : data.items[it] = "user" => data'.items[it] = "user"
        PROVE  IMixed'
    BY <1>k, <1>2 DEF IMixed, I!Items
  <1>4. CASE UNCHANGED I!vars
    BY <1>4, <1>k DEF I!vars, I!disk
  <1>5. CASE I!Start \/ I!StartSetup \/ I!Done \/ I!Crash
    BY <1>5, <1>k DEF I!Start, I!StartSetup, I!Done, I!Crash, I!disk
  <1>6. CASE \/ I!download_tarball \/ I!run_clean_flow_preinstall \/ I!preserve_data_dir \/ I!wipe_code_in_install_dir
             \/ I!extract_and_install \/ I!cleanup \/ I!restore_preserved_data \/ I!write_version_file
    BY <1>6, <1>2 DEF I!download_tarball, I!run_clean_flow_preinstall, I!preserve_data_dir, I!wipe_code_in_install_dir,
       I!extract_and_install, I!cleanup, I!restore_preserved_data, I!write_version_file, IScript
  <1>7. CASE I!migrateLegacyData
    <2>1. \A it \in I!Items : data'.items[it] = data.items[it]
      BY <1>7, <1>0, <1>3 DEF I!migrateLegacyData, IData
    <2> QED
      BY <1>7, <2>1, <1>k DEF I!migrateLegacyData
  <1>8. CASE I!createSnapshot \/ I!recordMigration \/ I!MigrationsDone
    <2>1. data'.items = data.items /\ UNCHANGED <<mixed, stash>>
      BY <1>8, <1>0 DEF I!createSnapshot, I!recordMigration, I!MigrationsDone, IData
    <2> QED
      BY <2>1, <1>k
  <1>9. ASSUME NEW it \in I!Items, I!MoveItem(it) PROVE IMixed'
    <2>1. mixed[it] = "user" /\ mixed' = [mixed EXCEPT ![it] = "none"]
      BY <1>9, <1>3 DEF I!MoveItem
    <2>2. CASE data' = [data EXCEPT !.items[it] = mixed[it]] /\ UNCHANGED stash
      <3>1. \A j \in I!Items : data'.items[j] = IF j = it THEN "user" ELSE data.items[j]
        BY <2>1, <2>2, <1>0 DEF IData, IItems
      <3>2. \A j \in I!Items : mixed'[j] = IF j = it THEN "none" ELSE mixed[j]
        BY <2>1, <1>0 DEF IItems
      <3> QED
        BY <2>2, <3>1, <3>2, <1>2 DEF IMixed, I!Items
    <2>3. CASE stash' = [stash EXCEPT ![it] = mixed[it]] /\ UNCHANGED data /\ ~(data.items[it] = "none" \/ I!hasOnlyScaffold(it))
      <3>1. \A j \in I!Items : /\ stash'[j] = IF j = it THEN "user" ELSE stash[j]
                               /\ mixed'[j] = IF j = it THEN "none" ELSE mixed[j]
        BY <2>1, <2>3, <1>0 DEF IItems
      <3>2. it = "tasks" => data.items.tasks = "user"
        BY <2>3, <1>0 DEF I!hasOnlyScaffold, IItems, IContents, I!Items
      <3> QED
        BY <2>3, <3>1, <3>2, <1>2 DEF IMixed, I!Items
    <2> QED
      BY <1>9, <2>2, <2>3 DEF I!MoveItem
  <1>10. CASE IMigrates
    BY <1>10, <1>k DEF IMigrates
  <1>11. CASE I!MigrationFails \/ I!SnapshotRestored
    <2>1. I!Fails => faults'.fail > 0
      BY <1>1 DEF I!Fails, ITypeOK
    <2>2. ~I!MigrationFails
      BY <2>1, <1>2 DEF I!MigrationFails
    <2>3. ~I!SnapshotRestored
      BY <1>2 DEF I!SnapshotRestored, IRun
    <2> QED
      BY <1>11, <2>2, <2>3
  <1>12. CASE I!runWizard \/ I!ensureScaffold
    <2>1. /\ UNCHANGED <<mixed, stash>>
          /\ \/ data' = data \/ data' = [data EXCEPT !.items = I!Scaffolded(@)]
      BY <1>12 DEF I!runWizard, I!ensureScaffold
    <2>2. \A it \in I!Items : data.items[it] = "user" => data'.items[it] = "user"
      BY <2>1, <1>0 DEF IData, I!Scaffolded
    <2> QED
      BY <2>1, <2>2, <1>k
  <1> QED
    BY <1>4, <1>5, <1>6, <1>7, <1>8, <1>9, <1>10, <1>11, <1>12, Migrating DEF I!Next, I!runMigrations

(* What the legacy directory holds arrives. *)
LEMMA ILegacyStep ==
    ASSUME ITypeOK, IRun, ISnapshot, IScene, [I!Next]_(I!vars),
           setup.scene = "legacy", setup.via = "install", ~setup.clean, ILegacy
    PROVE  ILegacy'
  <1>0. /\ data \in IData /\ data.items \in IItems /\ snaps \in Seq(IData) /\ before \in IData /\ setup \in ISetup
        /\ legacy.items \in IItems /\ "tasks" \in I!Items
        /\ install \in [code : {"none", "ok"}, version : BOOLEAN, moved : BOOLEAN]
        /\ flags \in [upgrade : BOOLEAN, legacy : BOOLEAN, fresh : BOOLEAN, kept : BOOLEAN, ok : BOOLEAN]
        /\ preserved \in Seq([data : IData, snaps : Seq(IData)])
    BY InstallSetupsType DEF ITypeOK, ISetup, IData, I!Items
  <1>1. setup' = setup
    BY Counted
  <1>2. \A it \in I!Items : legacy.items[it] = "user" /\ mixed[it] = "none"
    BY DEF IScene, Users
  <1> USE DEF ILegacy, Come, ISteps
  (* A step of setup loses no tasks. *)
  <1>k. ASSUME pc \in {"snapshot", "migrate", "record", "scaffold"}, UNCHANGED <<preserved, flags>>,
               install'.version = install.version, data.items.tasks = "user" => data'.items.tasks = "user",
               pc' \in {"migrate", "record", "scaffold", "setupEnd"},
               pc' \in {"migrate", "record"} => before'.items.tasks = "user" \/ preserved' # <<>>
        PROVE  ILegacy'
    BY <1>k
  <1>3. CASE UNCHANGED I!vars
    BY <1>3 DEF I!vars, I!disk
  <1>4. CASE I!Start
    <2>1. legacy.items # I!Nothing
      BY <1>0, <1>2, Blank
    <2>2. /\ pc = "idle" /\ pc' = "download" /\ UNCHANGED <<data, preserved, install>>
          /\ flags'.upgrade /\ ~flags'.fresh /\ (flags'.legacy <=> ~install.version)
      BY <1>4, <1>0, <2>1 DEF I!Start, I!disk, I!Goto, I!detect_existing_install
    <2> QED
      BY <2>2
  <1>5. CASE I!StartSetup
    BY <1>5 DEF I!StartSetup
  <1>6. CASE I!download_tarball
    <2>1. pc = "download" /\ UNCHANGED <<data, preserved, install, flags>> /\ pc' \in {"preserve", "idle"}
      BY <1>6 DEF I!download_tarball, I!disk, I!Goto
    <2> QED
      BY <2>1
  <1>7. CASE I!run_clean_flow_preinstall
    BY <1>7 DEF I!run_clean_flow_preinstall
  <1>8. CASE I!preserve_data_dir
    <2>1. /\ pc = "preserve" /\ pc' = "wipe" /\ data' = I!Empty /\ UNCHANGED install
          /\ flags'.upgrade = flags.upgrade /\ flags'.fresh = flags.fresh /\ flags'.legacy = flags.legacy
          /\ flags'.kept = (data # I!Empty)
          /\ preserved' = IF data # I!Empty THEN Append(preserved, [data |-> data, snaps |-> snaps]) ELSE preserved
      BY <1>8, <1>0 DEF I!preserve_data_dir, I!Goto
    <2>2. CASE data = I!Empty
      <3>1. data.items.tasks # "user"
        BY <2>2, <1>0, Blank
      <3>2. preserved # <<>> => Len(preserved) > 0
        BY <1>0, EmptySeq
      <3> QED
        BY <2>1, <2>2, <3>1, <3>2
    <2>3. CASE data # I!Empty
      <3>1. /\ Len(preserved') = Len(preserved) + 1 /\ preserved' # <<>> /\ Len(preserved) \in Nat
            /\ preserved'[Len(preserved')].data = data
        <4> DEFINE B == [data : IData, snaps : Seq(IData)]
                   x == [data |-> data, snaps |-> snaps]
        <4>1. preserved \in Seq(B) /\ x \in B /\ x.data = data /\ preserved' = Append(preserved, x)
          BY <2>1, <2>3, <1>0
        <4> HIDE DEF B, x
        <4>2. /\ Len(preserved) \in Nat /\ Len(Append(preserved, x)) = Len(preserved) + 1
              /\ Append(preserved, x)[Len(preserved) + 1] = x /\ Append(preserved, x) # <<>>
          BY <4>1, AppendProperties, LenProperties
        <4> QED
          BY <4>1, <4>2
      <3>2. preserved # <<>> => Len(preserved) > 0
        BY <1>0, EmptySeq
      <3> QED
        BY <2>1, <2>3, <3>1, <3>2
    <2> QED
      BY <2>2, <2>3
  <1>9. CASE I!wipe_code_in_install_dir
    <2>1. pc = "wipe" /\ pc' = "extract" /\ UNCHANGED <<flags, preserved>> /\ ~install'.version
      BY <1>9 DEF I!wipe_code_in_install_dir, I!Goto
    <2> QED
      BY <2>1
  <1>10. CASE I!extract_and_install
    <2>1. pc = "extract" /\ pc' = "restore" /\ UNCHANGED <<flags, preserved>> /\ install'.version = install.version
      BY <1>10, <1>0 DEF I!extract_and_install, I!Goto
    <2> QED
      BY <2>1
  <1>11. CASE I!cleanup
    <2>1. /\ pc \in {"preserve", "wipe", "extract"} /\ pc' = "idle" /\ UNCHANGED <<preserved, flags>>
          /\ UNCHANGED <<install, data>>
      BY <1>11 DEF I!cleanup, I!Goto
    <2> QED
      BY <2>1
  <1>12. CASE I!restore_preserved_data
    <2>1. pc = "restore" /\ pc' = "setup" /\ UNCHANGED <<flags, install>>
      BY <1>12 DEF I!restore_preserved_data, I!Goto
    <2>2. CASE flags.kept
      <3>1. preserved # <<>>
        BY <2>1, <2>2 DEF IRun
      <3>2. data' = preserved[Len(preserved)].data /\ preserved' = SubSeq(preserved, 1, Len(preserved) - 1)
        BY <1>12, <2>2 DEF I!restore_preserved_data
      <3> DEFINE B == [data : IData, snaps : Seq(IData)]
      <3>3. preserved \in Seq(B)
        BY <1>0
      <3> HIDE DEF B
      <3>4. Len(preserved') = Len(preserved) - 1 /\ Len(preserved) \in Nat
        <4>1. Len(SubSeq(preserved, 1, Len(preserved) - 1)) = Len(preserved) - 1
          BY <3>1, <3>3, LastTaken
        <4> QED
          BY <3>2, <3>3, <4>1, LenProperties
      <3>5. Len(preserved) > 1 => preserved' # <<>>
        BY <3>4, EmptySeq
      <3> QED
        BY <2>1, <2>2, <3>2, <3>5
    <2>3. CASE ~flags.kept
      <3>1. UNCHANGED <<data, preserved>>
        BY <1>12, <2>3 DEF I!restore_preserved_data
      <3>2. Len(preserved) > 0 => preserved # <<>>
        BY EmptySeq
      <3> QED
        BY <2>1, <2>3, <3>1, <3>2
    <2> QED
      BY <2>2, <2>3
  <1>13. CASE I!write_version_file
    <2>1. pc = "setupEnd" /\ pc' = "done" /\ UNCHANGED <<flags, data, preserved>>
      BY <1>13 DEF I!write_version_file, I!Goto
    <2> QED
      BY <2>1
  <1>14. CASE I!Done
    <2>1. pc = "done" /\ pc' = "idle" /\ UNCHANGED <<data, preserved, install>>
      BY <1>14 DEF I!Done, I!Goto, I!disk
    <2> QED
      BY <2>1
  <1>15. CASE I!migrateLegacyData
    <2>1. pc = "setup" /\ pc' = "snapshot" /\ UNCHANGED <<flags, preserved, install>>
      BY <1>15 DEF I!migrateLegacyData, I!Goto
    <2>2. data'.items.tasks = IF flags.legacy THEN "user" ELSE data.items.tasks
      BY <1>15, <1>0, <1>2 DEF I!migrateLegacyData, IData
    <2> QED
      BY <2>1, <2>2
  <1>16. CASE I!createSnapshot
    <2>1. /\ pc = "snapshot" /\ pc' = "migrate" /\ UNCHANGED <<flags, preserved, install>> /\ before' = data
          /\ data'.items = data.items
      BY <1>16, <1>0 DEF I!createSnapshot, I!Goto, IData
    <2> QED
      BY <2>1, <1>k
  <1>17. ASSUME NEW it \in I!Items, I!MoveItem(it) PROVE ILegacy'
    BY <1>17, <1>2 DEF I!MoveItem
  <1>18. CASE I!recordMigration
    <2>1. pc = "record" /\ pc' = "migrate" /\ UNCHANGED <<flags, preserved, install, before>> /\ data'.items = data.items
      BY <1>18, <1>0 DEF I!recordMigration, I!Goto, IData
    <2> QED
      BY <2>1, <1>k
  <1>19. CASE IMigrates
    BY <1>19, <1>0, <1>k DEF IMigrates
  <1>20. CASE I!MigrationsDone
    <2>1. pc = "migrate" /\ pc' = "scaffold" /\ UNCHANGED <<flags, preserved, install>> /\ data'.items = data.items
      BY <1>20, <1>0 DEF I!MigrationsDone, I!Goto, IData
    <2> QED
      BY <2>1, <1>k
  <1>21. CASE I!MigrationFails
    <2>1. pc = "migrate" /\ pc' = "restoreSnapshot" /\ UNCHANGED <<flags, preserved, install, before>>
      BY <1>21 DEF I!MigrationFails, I!Goto
    <2> QED
      BY <2>1
  <1>22. CASE I!SnapshotRestored
    <2>1. pc = "restoreSnapshot" /\ pc' = "setupEnd" /\ UNCHANGED <<preserved, install>>
          /\ data' = [before EXCEPT !.marker = FALSE] /\ flags'.upgrade = flags.upgrade /\ flags'.fresh = flags.fresh
      BY <1>22, <1>0 DEF I!SnapshotRestored, I!restoreSnapshot, I!Goto, ISnapshot
    <2>2. data'.items = before.items
      BY <2>1, <1>0 DEF IData
    <2> QED
      BY <2>1, <2>2
  <1>23. CASE I!runWizard
    BY <1>23 DEF I!runWizard
  <1>24. CASE I!ensureScaffold
    <2>1. pc = "scaffold" /\ pc' = "setupEnd" /\ UNCHANGED <<flags, preserved, install>>
          /\ data' = [data EXCEPT !.items = I!Scaffolded(@)]
      BY <1>24 DEF I!ensureScaffold, I!Goto
    <2>2. data.items.tasks = "user" => data'.items.tasks = "user"
      BY <2>1, <1>0 DEF IData, I!Scaffolded
    <2> QED
      BY <2>1, <2>2, <1>k
  <1>25. CASE I!Crash
    <2>1. pc' = "idle" /\ UNCHANGED <<data, preserved, install>> /\ pc \notin {"idle", "done"}
      BY <1>25 DEF I!Crash, I!Goto, I!disk
    <2>2. pc \in IAll
      BY DEF ITypeOK
    <2> QED
      BY <2>1, <2>2 DEF IAll, IScript
  <1> QED
    BY <1>3, <1>4, <1>5, <1>6, <1>7, <1>8, <1>9, <1>10, <1>11, <1>12, <1>13, <1>14, <1>15, <1>16, <1>17, <1>18, <1>19,
       <1>20, <1>21, <1>22, <1>23, <1>24, <1>25, Migrating DEF I!Next, I!runMigrations

(* Every step of the installer and of setup keeps the invariant. *)
LEMMA InstallStep == IInv /\ [I!Next]_(I!vars) => IInv'
  <1> SUFFICES ASSUME IInv, [I!Next]_(I!vars) PROVE IInv'
    OBVIOUS
  <1>1. ITypeOK' /\ setup' = setup
    BY InstallType DEF IInv
  <1>2. IRun' /\ IHappened' /\ IRecorded' /\ ISnapshot' /\ IScene'
    BY IRunStep, IHappenedStep, IRecordedStep, ISceneStep DEF IInv
  <1>3. (setup.scene = "modern" /\ ~I!Exposed => IModern)'
    BY <1>1, IModernStep DEF IInv, IUser
  <1>4. (setup.scene = "mixed" /\ ~I!Exposed => IMixed)'
    BY <1>1, IMixedStep DEF IInv, IUser
  <1>5. (setup.scene = "legacy" /\ setup.via = "install" /\ ~setup.clean => ILegacy)'
    BY <1>1, ILegacyStep DEF IInv, IUser
  <1> QED
    BY <1>1, <1>2, <1>3, <1>4, <1>5 DEF IInv, IUser

LEMMA InstallInit == I!Init => IInv
  <1> SUFFICES ASSUME I!Init PROVE IInv
    OBVIOUS
  <1>0. setup \in ISetup /\ setup \in InstallSetups
    BY InstallSetupsType DEF I!Init, ISetup
  <1>1. /\ pc = "idle" /\ todo = {} /\ snaps = <<>> /\ preserved = <<>> /\ before = I!Empty
        /\ faults = [fail |-> 0, crash |-> 0, runs |-> 0] /\ service = FALSE /\ stash = I!Nothing
        /\ flags = [upgrade |-> FALSE, legacy |-> FALSE, fresh |-> FALSE, kept |-> FALSE, ok |-> TRUE]
        /\ wired \in BOOLEAN
    BY DEF I!Init
  <1>2. /\ mixed = (IF setup.scene = "mixed" THEN I!User ELSE I!Nothing) /\ mixed \in IItems
        /\ legacy \in [items : IItems, done : BOOLEAN]
        /\ legacy.items = (IF setup.scene = "legacy" THEN I!User ELSE I!Nothing)
    BY Blank DEF I!Init
  <1>3. /\ install \in [code : {"none", "ok"}, version : BOOLEAN, moved : BOOLEAN] /\ ~install.moved
        /\ install.version = (setup.scene \in {"modern", "mixed"})
    BY DEF I!Init
  <1>4. /\ data \in IData /\ data.items = (IF setup.scene = "modern" THEN I!User ELSE I!Nothing)
        /\ data.history \subseteq {"001", "003"} /\ data.history \subseteq data.files
    <2>1. CASE setup.scene = "modern"
      <3>1. data = [I!Empty EXCEPT !.items = I!User, !.files = {"001", "003"}, !.history = {"001", "003"}]
        BY <2>1 DEF I!Init
      <3> QED
        BY <2>1, <3>1, Blank DEF IData, AllMigrations
    <2>2. CASE setup.scene # "modern"
      <3>1. data = I!Empty
        BY <2>2 DEF I!Init
      <3> QED
        BY <2>2, <3>1, Blank DEF I!Empty
    <2> QED
      BY <2>1, <2>2
  <1>5. ITypeOK
    <2>1. "idle" \in IAll /\ <<>> \in Seq(IData) /\ <<>> \in Seq([data : IData, snaps : Seq(IData)])
      BY EmptySeq DEF IAll
    <2> QED
      BY <1>0, <1>1, <1>2, <1>3, <1>4, <2>1, Blank DEF ITypeOK
  <1>6. IRun
    BY <1>1 DEF IRun, IScript
  <1>7. IHappened
    <2>1. Happened(data)
      BY <1>4 DEF Happened
    <2> QED
      BY <2>1, <1>1, <1>3 DEF IHappened, HappenedIn, HappenedAside, Cleared
  <1>8. IRecorded /\ ISnapshot
    BY <1>1 DEF IRecorded, ISnapshot
  <1>9. IScene
    BY <1>2, Blank DEF IScene, Users
  <1>10. IUser
    <2>1. setup.scene = "modern" => IModern
      BY <1>1, <1>3, <1>4, Blank DEF IModern, Users
    <2>2. setup.scene = "mixed" => IMixed
      BY <1>2, Blank DEF IMixed, I!Items
    <2>3. setup.scene = "legacy" => ILegacy
      BY <1>1, <1>3 DEF ILegacy, ISteps
    <2> QED
      BY <2>1, <2>2, <2>3 DEF IUser
  <1> QED
    BY <1>5, <1>6, <1>7, <1>8, <1>9, <1>10 DEF IInv

LEMMA InstallHolds == IInv => I!UserDataKept /\ I!UpgradeComplete /\ I!RestoredOnFailure /\ I!RecordedHappened
  <1> SUFFICES ASSUME IInv PROVE I!UserDataKept /\ I!UpgradeComplete /\ I!RestoredOnFailure /\ I!RecordedHappened
    OBVIOUS
  <1>0. /\ setup \in ISetup /\ data \in IData /\ mixed \in IItems /\ legacy \in [items : IItems, done : BOOLEAN]
        /\ snaps \in Seq(IData) /\ preserved \in Seq([data : IData, snaps : Seq(IData)])
        /\ "tasks" \in I!Items
    BY InstallSetupsType DEF IInv, ITypeOK, ISetup, I!Items
  <1>1. mixed = I!Nothing <=> \A it \in I!Items : mixed[it] = "none"
    <2>1. I!Nothing \in IItems /\ \A it \in I!Items : I!Nothing[it] = "none"
      BY Blank
    <2> QED
      BY <2>1, <1>0 DEF IItems
  <1>2. I!RecordedHappened
    <2>1. Happened(data)
      BY DEF IInv, IHappened
    <2>2. (\A it \in I!Items : legacy.items[it] = "none") => legacy.items = I!Nothing
      <3>1. I!Nothing \in IItems /\ (\A it \in I!Items : I!Nothing[it] = "none") /\ legacy.items \in IItems
        BY Blank, <1>0
      <3> QED
        BY <3>1 DEF IItems
    <2> QED
      BY <1>1, <2>1, <2>2 DEF I!RecordedHappened, Happened
  <1>3. I!RestoredOnFailure
    BY DEF I!RestoredOnFailure, IInv, ISnapshot
  <1>4. I!UpgradeComplete
    <2> SUFFICES ASSUME pc = "setupEnd", flags.upgrade, flags.ok, preserved = <<>>
                 PROVE  /\ \/ setup.scene = "fresh" \/ I!Exposed \/ (setup.scene = "legacy" /\ setup.via = "setup")
                           \/ data.items.tasks = "user"
                        /\ ~data.marker /\ data.history = I!Range(I!migrations)
      BY DEF I!UpgradeComplete
    <2>1. ~data.marker /\ AllMigrations \subseteq data.history /\ data.history \subseteq AllMigrations
      BY <1>0 DEF IInv, IRecorded, IData
    <2>2. data.history = I!Range(I!migrations)
      BY <2>1, MigrationNames
    <2>3. setup.scene = "modern" /\ ~I!Exposed => data.items.tasks = "user"
      BY <1>0 DEF IInv, IUser, IModern, Stashed, Users
    <2>4. setup.scene = "mixed" /\ ~I!Exposed => data.items.tasks = "user"
      <3>1. "006" \in data.history
        BY <2>1 DEF AllMigrations
      <3>2. mixed.tasks = "none"
        BY <3>1, <1>0 DEF IInv, IHappened, Happened
      <3> QED
        BY <3>2 DEF IInv, IUser, IMixed
    <2>5. setup.scene = "legacy" /\ setup.via = "install" => data.items.tasks = "user"
      BY <1>0 DEF IInv, IUser, ILegacy, Come, IRun, ISteps
    <2> QED
      BY <1>0, <2>1, <2>2, <2>3, <2>4, <2>5 DEF ISetup
  <1>5. I!UserDataKept
    <2> SUFFICES ASSUME setup.scene # "fresh", ~I!Exposed, NEW it \in I!Items
                 PROVE  \E p \in I!Places : p[it] = "user"
      BY DEF I!UserDataKept
    <2>1. CASE setup.scene = "legacy"
      <3>1. legacy.items[it] = "user" /\ legacy.items \in I!Places
        BY <2>1 DEF IInv, IScene, Users, I!Places
      <3> QED
        BY <3>1
    <2>2. CASE setup.scene = "mixed"
      <3>1. mixed \in I!Places /\ stash \in I!Places /\ data.items \in I!Places
        BY DEF I!Places
      <3> QED
        BY <2>2, <3>1 DEF IInv, IUser, IMixed
    <2>3. CASE setup.scene = "modern"
      <3>1. CASE Stashed
        <4>1. PICK k \in DOMAIN preserved : Users(preserved[k].data.items)
          BY <3>1 DEF Stashed
        <4>2. preserved[k].data.items \in I!Places
          BY DEF I!Places
        <4> QED
          BY <4>1, <4>2 DEF Users
      <3>2. CASE pc = "restoreSnapshot" /\ Users(before.items)
        <4>1. snaps # <<>> /\ snaps[Len(snaps)] = before
          BY <3>2 DEF IInv, ISnapshot
        <4>2. Len(snaps) \in DOMAIN snaps
          BY <4>1, <1>0, LastTaken
        <4>3. before.items \in I!Places
          BY <4>1, <4>2 DEF I!Places, I!Items_In
        <4> QED
          BY <3>2, <4>3 DEF Users
      <3>3. CASE Users(data.items)
        BY <3>3 DEF Users, I!Places
      <3> QED
        BY <2>3, <3>1, <3>2, <3>3 DEF IInv, IUser, IModern
    <2> QED
      BY <1>0, <2>1, <2>2, <2>3 DEF ISetup
  <1> QED
    BY <1>2, <1>3, <1>4, <1>5

(* However often the installer and setup are run, fail and are interrupted: the *)
(* last copy of what the user had is not destroyed where the code does not      *)
(* expose it, an upgrade that ends well is a whole one, a migration that fails  *)
(* leaves the data directory as it was, and what is in the history has          *)
(* happened (install.sh, setup.ts, migrations).                                 *)
THEOREM InstallSafe == Spec => []InstallKept
  <1> DEFINE Inv == part = "install" => IInv
  <1>1. Init => Inv
    BY InstallInit DEF Init, DInit, LInit, WInit, SInit, UInit, IInit, PInit, VInit, XInit
  <1>2. Inv /\ [Next]_vars => Inv'
    BY OnePart, InstallStep
  <1>3. Inv => InstallKept
    BY InstallHolds DEF InstallKept
  <1> QED
    BY <1>1, <1>2, <1>3, PTL DEF Spec
=============================================================================
