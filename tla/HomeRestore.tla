---------------------------- MODULE HomeRestore -----------------------------
(***************************************************************************)
(* Restoring a backup into the home directory                              *)
(* (src/internal/appdata/restore.go).  The user confirms a backup while    *)
(* the program runs; the next start applies it path by path, keeping the   *)
(* replaced data in a rollback directory, and a transaction file lets the  *)
(* start after an interruption finish or undo it.  The program may be      *)
(* killed between any two steps and any file operation may fail.           *)
(*                                                                         *)
(* A path holds "old" data, "new" data of the backup, the layout file      *)
(* written by the program itself ("fresh"), a directory of which part was  *)
(* removed ("torn"), or does not exist ("none").                           *)
(***************************************************************************)
EXTENDS Naturals, FiniteSets

CONSTANTS N,            \* restoreManagedPaths are 1..N, in the order of the code
          Directories,  \* those that are directories; the others are files
          MaxFaults     \* bound on crashes and failures, for TLC

ASSUME PathAssumption == N \in Nat \ {0}

Layout == 1             \* data-layout.json, the first of restoreManagedPaths

\* RemoveAll removes a file at once; the layout file is one.
ASSUME DirectoriesAssumption == Directories \subseteq 2..N

ASSUME FaultAssumption == MaxFaults \in Nat

Paths == 1..N

Content == {"none", "old", "new", "fresh", "torn"}

VARIABLES
  home,      \* what each managed path of the home directory holds
  stage,     \* the stage directory, the extracted backup
  rollback,  \* the rollback directory, under its working or its final name
  work,      \* that directory: "none", "work" or, kept for the user, "snapshot"
  pending,   \* TRUE while pending.zip exists
  disk,      \* transaction.json
  mem,       \* the transaction of the running process
  pc,        \* where ApplyPendingRestore is; "off", "run" outside of it
  at,        \* the index of its loops
  recovering,\* TRUE inside recoverInterruptedRestore
  faults,    \* number of crashes and failures so far
  before,    \* history: the home directory when the program last ran
  backup     \* history: the contents of pending.zip

vars == <<home, stage, rollback, work, pending, disk, mem, pc, at, recovering,
          faults, before, backup>>

Nothing == [i \in Paths |-> "none"]

Transaction == [phase : {"none", "applying", "committed"},
                had : [Paths -> BOOLEAN], touched : [Paths -> BOOLEAN]]

NoTransaction == [phase |-> "none", had |-> [i \in Paths |-> FALSE],
                  touched |-> [i \in Paths |-> FALSE]]

Applying == {"mark", "move", "install", "layout", "commit"}
Finalizing == {"archive", "snapshot", "conclude", "report"}
Steps == {"off", "run", "recover", "prepare", "begin", "undo", "forget"}
           \cup Applying \cup Finalizing

TypeOK ==
  /\ home \in [Paths -> Content]
  /\ stage \in [Paths -> Content]
  /\ rollback \in [Paths -> Content]
  /\ work \in {"none", "work", "snapshot"}
  /\ pending \in BOOLEAN
  /\ disk \in Transaction
  /\ mem \in Transaction
  /\ pc \in Steps
  /\ at \in 0..(N + 1) /\ (pc \in {"mark", "move", "install"} => at \in Paths)
  /\ recovering \in BOOLEAN
  /\ faults \in 0..MaxFaults
  /\ before \in [Paths -> {"none", "old"}]
  /\ backup \in [Paths -> {"none", "new"}]

\* A home the program has run with: ensureDataLayout wrote the layout file.
UserHome == {h \in [Paths -> {"none", "old"}] : h[Layout] = "old"}

Init ==
  /\ home \in UserHome /\ before = home
  /\ stage = Nothing /\ rollback = Nothing /\ backup = Nothing
  /\ work = "none" /\ pending = FALSE
  /\ disk = NoTransaction /\ mem = NoTransaction
  /\ pc = "off" /\ at = 0 /\ recovering = FALSE /\ faults = 0

\* The directories of a restore, and what the process keeps of it.
files == <<stage, rollback, work, disk>>
process == <<mem, at, recovering>>
history == <<before, backup>>

\* ensureDataLayout writes a layout file where there is none.
EnsureDataLayout(h) == IF h[Layout] = "none" THEN [h EXCEPT ![Layout] = "fresh"] ELSE h

(***************************************************************************)
(* The user.                                                               *)
(***************************************************************************)

\* The stores write: from here on this is the data to be kept.
Use ==
  /\ pc = "run"
  /\ home' \in UserHome /\ before' = home'
  /\ UNCHANGED <<files, process, pending, pc, faults, backup>>

\* The confirmed archive is copied under a temporary name, then renamed: it is
\* there as a whole or not at all.
StageBackupRestore ==
  /\ pc = "run"
  /\ home' \in UserHome /\ before' = home'
  /\ backup' \in [Paths -> {"none", "new"}]
  /\ pending' = TRUE
  /\ UNCHANGED <<files, process, pc, faults>>

Quit ==
  /\ pc = "run"
  /\ pc' = "off"
  /\ UNCHANGED <<home, files, process, pending, faults, history>>

\* NewApp calls Ensure, then ApplyPendingRestore.
Start ==
  /\ pc = "off"
  /\ home' = EnsureDataLayout(home)
  /\ pc' = "recover"
  /\ UNCHANGED <<files, process, pending, faults, history>>

(***************************************************************************)
(* recoverInterruptedRestore and ApplyPendingRestore.                      *)
(***************************************************************************)

\* Mutant: The recovery knows no other phase than "applying".
RecoverInterruptedRestore_RefusesCommitted ==
  /\ pc = "recover"
  /\ mem' = disk
  /\ recovering' = (disk.phase = "applying")
  /\ \/ disk.phase = "none" /\ pc' = "prepare" /\ at' = 0
     \/ disk.phase = "committed" /\ pc' = "off" /\ at' = 0
     \/ disk.phase = "applying" /\ pc' = "undo" /\ at' = N
  /\ UNCHANGED <<home, files, pending, faults, history>>

RecoverInterruptedRestore ==
  /\ pc = "recover"
  /\ mem' = disk
  /\ recovering' = (disk.phase # "none")
  /\ \/ disk.phase = "none" /\ pc' = "prepare" /\ at' = 0
     \/ disk.phase = "committed" /\ pc' = "archive" /\ at' = 0
     \/ disk.phase = "applying" /\ pc' = "undo" /\ at' = N
  /\ UNCHANGED <<home, files, pending, faults, history>>

\* Nothing to restore: NewApp goes on and the program runs.
Open ==
  /\ pc = "prepare" /\ ~pending
  /\ pc' = "run"
  /\ UNCHANGED <<home, files, process, pending, faults, history>>

\* Both directories are made anew, the archive is extracted, the transaction
\* records which paths exist.
Prepare ==
  /\ pc = "prepare" /\ pending
  /\ stage' = backup /\ rollback' = Nothing /\ work' = "work"
  /\ mem' = [phase |-> "applying", had |-> [i \in Paths |-> home[i] # "none"],
             touched |-> [i \in Paths |-> FALSE]]
  /\ pc' = "begin" /\ at' = 1
  /\ UNCHANGED <<home, disk, pending, recovering, faults, history>>

Begin ==
  /\ pc = "begin"
  /\ disk' = mem
  /\ pc' = "mark"
  /\ UNCHANGED <<home, stage, rollback, work, process, pending, faults, history>>

\* The path is marked as touched, on disk too, before it is moved.
Touched == [mem EXCEPT !.touched[at] = TRUE]

\* Mutant: The mark is not written to disk before the path is moved.
Mark_InMemory ==
  /\ pc = "mark"
  /\ mem' = Touched
  /\ pc' = "move"
  /\ UNCHANGED <<home, files, at, recovering, pending, faults, history>>

Mark ==
  /\ pc = "mark"
  /\ mem' = Touched /\ disk' = mem'
  /\ pc' = "move"
  /\ UNCHANGED <<home, stage, rollback, work, at, recovering, pending, faults, history>>

\* applyRestorePath is two renames.
Move ==
  /\ pc = "move"
  /\ home' = [home EXCEPT ![at] = "none"]
  /\ rollback' = IF home[at] = "none" THEN rollback ELSE [rollback EXCEPT ![at] = home[at]]
  /\ pc' = "install"
  /\ UNCHANGED <<stage, work, disk, process, pending, faults, history>>

\* Mutant: The loop does not stop after the last path.
Install_NoLimit ==
  /\ pc = "install"
  /\ home' = [home EXCEPT ![at] = stage[at]]
  /\ stage' = [stage EXCEPT ![at] = "none"]
  /\ pc' = "mark" /\ at' = at + 1
  /\ UNCHANGED <<rollback, work, disk, mem, recovering, pending, faults, history>>

\* Mutant: The loop stops before the last path.
Install_StopsShort ==
  /\ pc = "install"
  /\ home' = [home EXCEPT ![at] = stage[at]]
  /\ stage' = [stage EXCEPT ![at] = "none"]
  /\ pc' = IF at + 1 >= N THEN "layout" ELSE "mark"
  /\ at' = at + 1
  /\ UNCHANGED <<rollback, work, disk, mem, recovering, pending, faults, history>>

Install ==
  /\ pc = "install"
  /\ home' = [home EXCEPT ![at] = stage[at]]
  /\ stage' = [stage EXCEPT ![at] = "none"]
  /\ pc' = IF at = N THEN "layout" ELSE "mark"
  /\ at' = at + 1
  /\ UNCHANGED <<rollback, work, disk, mem, recovering, pending, faults, history>>

MigrateLayout ==
  /\ pc = "layout"
  /\ home' = EnsureDataLayout(home)
  /\ pc' = "commit"
  /\ UNCHANGED <<files, process, pending, faults, history>>

Commit ==
  /\ pc = "commit"
  /\ mem' = [mem EXCEPT !.phase = "committed"] /\ disk' = mem'
  /\ pc' = "archive"
  /\ UNCHANGED <<home, stage, rollback, work, at, recovering, pending, faults, history>>

(***************************************************************************)
(* finalizeCommittedRestore, after a commit or at the next start.          *)
(***************************************************************************)

\* pending.zip is moved into the rollback directory, which must be there.
Archive ==
  /\ pc = "archive"
  /\ pending => work = "work"
  /\ pending' = FALSE
  /\ pc' = "snapshot"
  /\ UNCHANGED <<home, files, process, faults, history>>

Snapshot ==
  /\ pc = "snapshot"
  /\ work' = IF work = "work" THEN "snapshot" ELSE work
  /\ pc' = "conclude"
  /\ UNCHANGED <<home, stage, rollback, disk, process, pending, faults, history>>

Conclude ==
  /\ pc = "conclude"
  /\ disk' = NoTransaction
  /\ pc' = "report"
  /\ UNCHANGED <<home, stage, rollback, work, process, pending, faults, history>>

\* last-result.json is written; a start that recovered goes on to look for a
\* pending restore.
Report ==
  /\ pc = "report"
  /\ stage' = Nothing
  /\ pc' = IF recovering THEN "prepare" ELSE "run"
  /\ recovering' = FALSE
  /\ UNCHANGED <<home, rollback, work, disk, mem, at, pending, faults, history>>

(***************************************************************************)
(* rollbackRestoreTransaction, from the last path to the first.            *)
(***************************************************************************)

\* Mutant: The rollback forgets paths that did not exist before.
Replaced_HadOnly(i) == mem.touched[i] /\ rollback[i] # "none"

\* The restored data of a path is to be removed if the path was touched and
\* either the old data is in the rollback directory or there was none.
Replaced(i) == mem.touched[i] /\ (rollback[i] # "none" \/ ~mem.had[i])

\* RemoveAll of a directory may be seen half done.
Remove ==
  /\ pc = "undo" /\ at > 0
  /\ Replaced(at) /\ home[at] # "none"
  /\ \/ home' = [home EXCEPT ![at] = "none"]
     \/ /\ at \in Directories /\ home[at] # "torn"
        /\ home' = [home EXCEPT ![at] = "torn"]
  /\ UNCHANGED <<files, process, pending, pc, faults, history>>

PutBack ==
  /\ pc = "undo" /\ at > 0
  /\ Replaced(at) => home[at] = "none"
  /\ IF mem.touched[at] /\ rollback[at] # "none"
       THEN /\ home' = [home EXCEPT ![at] = rollback[at]]
            /\ rollback' = [rollback EXCEPT ![at] = "none"]
       ELSE UNCHANGED <<home, rollback>>
  /\ at' = at - 1
  /\ UNCHANGED <<stage, work, disk, mem, recovering, pending, pc, faults, history>>

Sweep ==
  /\ pc = "undo" /\ at = 0
  /\ stage' = Nothing /\ rollback' = Nothing /\ work' = "none"
  /\ pc' = "forget"
  /\ UNCHANGED <<home, disk, process, pending, faults, history>>

\* A rollback inside ApplyPendingRestore ends in an error: the program does not
\* start.  At the next start it is complete and the start goes on.
Forget ==
  /\ pc = "forget"
  /\ disk' = NoTransaction
  /\ pc' = IF recovering THEN "prepare" ELSE "off"
  /\ recovering' = FALSE
  /\ UNCHANGED <<home, stage, rollback, work, mem, at, pending, faults, history>>

(***************************************************************************)
(* Failures.  An error of ApplyPendingRestore ends the start of the        *)
(* program; its deferred calls remove the stage directory and, unless it   *)
(* is to be kept, the rollback directory.                                  *)
(***************************************************************************)

Fault == faults < MaxFaults /\ faults' = faults + 1

Stop == pc' = "off" /\ mem' = NoTransaction /\ at' = 0 /\ recovering' = FALSE

Crash ==
  /\ pc # "off" /\ Fault /\ Stop
  /\ UNCHANGED <<home, files, pending, history>>

\* A write of transaction.json that fails has replaced the file or not.
PrepareFails ==
  /\ pc \in {"recover", "prepare", "begin"} /\ Fault /\ Stop
  /\ IF pc = "begin"
       THEN /\ stage' = Nothing /\ rollback' = Nothing /\ work' = "none"
            /\ disk' \in {disk, mem}
       ELSE UNCHANGED files
  /\ UNCHANGED <<home, pending, history>>

\* An error while paths are replaced, or of the commit, undoes the restore.
ApplyFails ==
  /\ pc \in Applying /\ Fault
  /\ IF pc = "mark"
       THEN mem' \in {mem, Touched} /\ disk' \in {disk, mem'}
       ELSE UNCHANGED <<mem, disk>>
  /\ pc' = "undo" /\ at' = N
  /\ UNCHANGED <<home, stage, rollback, work, recovering, pending, history>>

\* The rollback directory is kept; the next start tries again.
FinalizeFails ==
  /\ pc \in Finalizing /\ Fault /\ Stop
  /\ stage' = IF recovering THEN stage ELSE Nothing
  /\ UNCHANGED <<home, rollback, work, disk, pending, history>>

\* An error of the rollback at a start: nothing is removed.
RecoveryFails ==
  /\ pc \in {"undo", "forget"} /\ recovering /\ Fault /\ Stop
  /\ UNCHANGED <<home, files, pending, history>>

\* An error of the rollback inside ApplyPendingRestore: the deferred calls
\* remove both directories, with what has not been put back.
UndoFails ==
  /\ pc \in {"undo", "forget"} /\ ~recovering /\ Fault /\ Stop
  /\ stage' = Nothing /\ rollback' = Nothing /\ work' = "none"
  /\ UNCHANGED <<home, disk, pending, history>>

\* The commit is on disk, but its write reported an error (chmod after rename):
\* the process undoes what the next start would finish.
CommitFailsLate ==
  /\ pc = "commit" /\ Fault
  /\ mem' = [mem EXCEPT !.phase = "committed"] /\ disk' = mem'
  /\ pc' = "undo" /\ at' = N
  /\ UNCHANGED <<home, stage, rollback, work, recovering, pending, history>>

(***************************************************************************)
(* The specification.  Spec is without the two failures of a second step   *)
(* after a first one failed, which the code does not survive.              *)
(***************************************************************************)

User == Use \/ StageBackupRestore \/ Quit
Apply == RecoverInterruptedRestore \/ Open \/ Prepare \/ Begin \/ Mark \/ Move
           \/ Install \/ MigrateLayout \/ Commit
Finalize == Archive \/ Snapshot \/ Conclude \/ Report
Undo == Remove \/ PutBack \/ Sweep \/ Forget
Failures == Crash \/ PrepareFails \/ ApplyFails \/ FinalizeFails \/ RecoveryFails
DoubleFailures == UndoFails \/ CommitFailsLate

Next == User \/ Start \/ Apply \/ Finalize \/ Undo \/ Failures

Spec == Init /\ [][Next]_vars

FullSpec == Init /\ [][Next \/ DoubleFailures]_vars

\* The running process goes on, and the user starts the program again.
FairSpec == Spec /\ WF_vars(Start \/ Apply \/ Finalize \/ Undo) /\ WF_vars(Quit)

(***************************************************************************)
(* Properties.                                                             *)
(***************************************************************************)

\* What the program had written before is, at every moment of a restore and of
\* its recovery, in the home directory or in the rollback directory.
NothingLost ==
  \A i \in Paths : before[i] = "old" => home[i] = "old" \/ rollback[i] = "old"

\* The home directory of the backup.  A backup without a layout file gets one.
Restored == EnsureDataLayout(backup)

\* The stores open on the home directory of before or on that of the backup,
\* whatever was interrupted, failed, and was recovered.
OpensOnWholeHome == pc = "run" => home \in {before, Restored}

\* Whose data it is, as the transaction file decides it.
Whose ==
  CASE disk.phase = "committed" -> "after"
    [] disk.phase = "applying"  -> "before"
    [] OTHER -> IF home = before THEN "before" ELSE "after"

Switched == INSTANCE HomeSwitch WITH
  open <- pc = "run",
  asked <- pending /\ disk.phase # "committed",
  content <- Whose

\* The restore takes effect in one step, while the program is closed and because
\* it was confirmed, although it is made of many renames.
SwitchesAtomically == Switched!Spec

\* A confirmed restore takes effect and the program opens: no interruption and
\* no failure leaves a state from which the next starts do not get there.
RestoreCompletes == pending ~> (pc = "run" /\ ~pending)
=============================================================================
