------------------------- MODULE HomeRestoreProofs --------------------------
(***************************************************************************)
(* Theorems about HomeRestore, for every number of managed paths, every    *)
(* choice of directories among them and any number of crashes and failures.*)
(* They are about Spec, which leaves out a second failure inside the       *)
(* rollback of ApplyPendingRestore.                                        *)
(***************************************************************************)
EXTENDS HomeRestore, TLAPS

\* The path has not been moved, or has been put back.
Kept(i) == home[i] = before[i] /\ rollback[i] = "none"

\* The old data is in the rollback directory; what the home directory holds can
\* be removed.
Moved(i) == rollback[i] = before[i]

\* The path holds the data of the backup.
Placed(i) == home[i] = backup[i] /\ rollback[i] = before[i]

\* The transaction t describes the home directory well enough to undo it.
Describes(t) == \A i \in Paths : t.had[i] <=> before[i] # "none"

Recoverable(t) == \A i \in Paths : Kept(i) \/ (t.touched[i] /\ Moved(i))

\* No restore is under way: the home directory is whole.
NoneInv ==
  /\ pc \in {"off", "run", "recover", "prepare", "begin", "report"}
  /\ \/ home = before
     \/ home = Restored /\ rollback = before /\ ~pending

\* A restore is applied or undone: what it replaced can be put back.
ApplyingInv ==
  /\ pc \in {"off", "recover", "undo", "forget"} \cup Applying
  /\ pending
  /\ Describes(disk) /\ Recoverable(disk)

\* A restore is committed: all that is missing is to say so.
CommittedInv ==
  /\ pc \in {"off", "recover", "archive", "snapshot", "conclude"}
  /\ home = Restored /\ rollback = before
  /\ pc \in {"snapshot", "conclude"} => ~pending

DiskInv ==
  /\ disk.phase = "none" => NoneInv
  /\ disk.phase = "applying" => ApplyingInv
  /\ disk.phase = "committed" => CommittedInv

BeginInv ==
  pc = "begin" =>
    /\ at = 1 /\ pending
    /\ home = before /\ rollback = Nothing /\ stage = backup
    /\ mem.phase = "applying" /\ Describes(mem)
    /\ \A i \in Paths : ~mem.touched[i]

\* The paths before at are replaced, those after it are as they were.
LoopInv ==
  pc \in Applying =>
    /\ mem = disk
    /\ pc \in {"layout", "commit"} => at = N + 1
    /\ \A i \in Paths : at <= i => stage[i] = backup[i]
    /\ \A i \in Paths : at < i => Kept(i) /\ ~mem.touched[i]
    /\ \A i \in Paths : i < at => mem.touched[i] /\ (pc # "commit" => Placed(i))
    /\ pc = "mark" => Kept(at) /\ ~mem.touched[at]
    /\ pc = "move" => Kept(at) /\ mem.touched[at]
    /\ pc = "install" => home[at] = "none" /\ Moved(at) /\ mem.touched[at]
    /\ pc = "commit" => home = Restored /\ rollback = before

\* The paths after at are put back.
UndoInv ==
  /\ pc = "undo" =>
       /\ Describes(mem) /\ Recoverable(mem)
       /\ \A i \in Paths : at < i => Kept(i)
  /\ pc = "forget" => home = before /\ rollback = Nothing

Inv ==
  /\ before[Layout] = "old"
  /\ DiskInv
  /\ BeginInv
  /\ pc \in {"undo", "forget"} \cup Applying => disk.phase = "applying"
  /\ LoopInv
  /\ UndoInv

IInv == TypeOK /\ Inv

-----------------------------------------------------------------------------

\* The absent transaction.
LEMMA NoTransactionType == NoTransaction \in Transaction /\ NoTransaction.phase = "none"
BY DEF NoTransaction, Transaction

\* An empty directory.
LEMMA NothingType == Nothing \in [Paths -> Content] /\ \A i \in Paths : Nothing[i] = "none"
BY DEF Nothing, Content

\* Two homes that agree on every path are one.
LEMMA SameHome ==
    ASSUME NEW f \in [Paths -> Content], NEW g \in [Paths -> Content],
           \A i \in Paths : f[i] = g[i]
    PROVE  f = g
OBVIOUS

\* The stores are open only when no restore is under way.
LEMMA UseIInv == ASSUME IInv, Use PROVE IInv'
<1> USE DEF IInv, Use, files, process
<1>1. TypeOK'
  BY DEF TypeOK, Content, UserHome
<1>2. (before[Layout] = "old")'
  BY DEF UserHome
<1>3. DiskInv'
  BY DEF Inv, DiskInv, NoneInv, ApplyingInv, CommittedInv, Applying
<1>4. /\ (pc \in {"undo", "forget"} \cup Applying => disk.phase = "applying")'
      /\ BeginInv' /\ LoopInv' /\ UndoInv'
  BY DEF BeginInv, Applying, LoopInv, UndoInv
<1>5. QED BY <1>1, <1>2, <1>3, <1>4 DEF Inv

\* What the program has written when a restore is asked for is the data to keep.
LEMMA StageBackupRestoreIInv == ASSUME IInv, StageBackupRestore PROVE IInv'
<1> USE DEF IInv, StageBackupRestore, files, process
<1>1. TypeOK'
  BY DEF TypeOK, Content, UserHome
<1>2. (before[Layout] = "old")'
  BY DEF UserHome
<1>3. DiskInv'
  BY DEF Inv, DiskInv, NoneInv, ApplyingInv, CommittedInv, Applying
<1>4. /\ (pc \in {"undo", "forget"} \cup Applying => disk.phase = "applying")'
      /\ BeginInv' /\ LoopInv' /\ UndoInv'
  BY DEF BeginInv, Applying, LoopInv, UndoInv
<1>5. QED BY <1>1, <1>2, <1>3, <1>4 DEF Inv

\* Closing changes no file.
LEMMA QuitIInv == ASSUME IInv, Quit PROVE IInv'
<1> USE DEF IInv, Quit, files, process, history
<1>1. TypeOK'
  BY DEF TypeOK, Steps
<1>2. /\ (before[Layout] = "old")'
      /\ (pc \in {"undo", "forget"} \cup Applying => disk.phase = "applying")'
      /\ BeginInv' /\ LoopInv' /\ UndoInv'
  BY DEF Inv, BeginInv, Applying, LoopInv, UndoInv
<1>3. DiskInv'
  BY DEF Inv, DiskInv, NoneInv, ApplyingInv, CommittedInv, Describes, Recoverable, Kept, Moved,
         Restored
<1>4. QED BY <1>1, <1>2, <1>3 DEF Inv

\* The layout file Ensure may write stands where a moved one is kept, or nowhere.
LEMMA StartIInv == ASSUME IInv, Start PROVE IInv'
<1> USE PathAssumption, DirectoriesAssumption, FaultAssumption, NoTransactionType, NothingType
    DEF IInv, Start, files, process, history, Applying, Finalizing
<1>1. TypeOK'
  BY DEF TypeOK, Content, Steps, EnsureDataLayout
<1>2. /\ (before[Layout] = "old")'
      /\ (pc \in {"undo", "forget"} \cup Applying => disk.phase = "applying")'
      /\ BeginInv' /\ LoopInv' /\ UndoInv'
  BY DEF Inv, BeginInv, LoopInv, UndoInv
<1>3. DiskInv'
  <2>1. home' = home \/ (home[Layout] = "none" /\ \A i \in Paths : i # Layout => home'[i] = home[i])
    BY DEF EnsureDataLayout, TypeOK
  <2>2. CASE disk.phase = "none"
    <3>1. home[Layout] # "none"
      BY <2>2 DEF Inv, DiskInv, NoneInv, Restored, EnsureDataLayout, TypeOK, Layout, Paths
    <3>2. home' = home
      BY <3>1, <2>1
    <3>3. QED BY <2>2, <3>2 DEF Inv, DiskInv, NoneInv, Restored
  <2>3. CASE disk.phase = "applying"
    <3>1. Recoverable(disk)'
      BY <2>1, <2>3 DEF Inv, DiskInv, ApplyingInv, Recoverable, Kept, Moved, TypeOK
    <3>2. QED BY <2>3, <3>1 DEF Inv, DiskInv, ApplyingInv, Describes
  <2>4. CASE disk.phase = "committed"
    <3>1. home[Layout] # "none"
      BY <2>4 DEF Inv, DiskInv, CommittedInv, Restored, EnsureDataLayout, TypeOK, Layout, Paths
    <3>2. home' = home
      BY <3>1, <2>1
    <3>3. QED BY <2>4, <3>2 DEF Inv, DiskInv, CommittedInv, Restored
  <2>5. QED BY <2>2, <2>3, <2>4 DEF DiskInv
<1>4. QED BY <1>1, <1>2, <1>3 DEF Inv

\* The process starts from what the transaction file says.
LEMMA RecoverInterruptedRestoreIInv == ASSUME IInv, RecoverInterruptedRestore PROVE IInv'
<1> USE DEF IInv, RecoverInterruptedRestore, files, history
<1>1. TypeOK'
  BY PathAssumption DEF TypeOK, Steps, Finalizing
<1>2. /\ (before[Layout] = "old")'
      /\ (pc \in {"undo", "forget"} \cup Applying => disk.phase = "applying")'
      /\ BeginInv' /\ LoopInv'
  BY DEF Inv, BeginInv, Applying, LoopInv
<1>3. DiskInv'
  BY DEF Inv, DiskInv, NoneInv, ApplyingInv, CommittedInv, Describes, Recoverable, Kept, Moved,
         Restored
<1>4. UndoInv'
  BY PathAssumption
     DEF Inv, DiskInv, ApplyingInv, UndoInv, Describes, Recoverable, Kept, Moved, Paths
<1>5. QED BY <1>1, <1>2, <1>3, <1>4 DEF Inv

\* The program opens when there is no transaction.
LEMMA OpenIInv == ASSUME IInv, Open PROVE IInv'
<1> USE DEF IInv, Open, files, process, history
<1>1. TypeOK'
  BY DEF TypeOK, Steps
<1>2. /\ (before[Layout] = "old")'
      /\ (pc \in {"undo", "forget"} \cup Applying => disk.phase = "applying")'
      /\ BeginInv' /\ LoopInv' /\ UndoInv'
  BY DEF Inv, BeginInv, Applying, LoopInv, UndoInv
<1>3. DiskInv'
  BY DEF Inv, DiskInv, NoneInv, ApplyingInv, CommittedInv, Restored
<1>4. QED BY <1>1, <1>2, <1>3 DEF Inv

\* A pending restore finds the home of before.
LEMMA PrepareIInv == ASSUME IInv, Prepare PROVE IInv'
<1> USE PathAssumption, DirectoriesAssumption, FaultAssumption, NoTransactionType, NothingType
    DEF IInv, Prepare, history, Applying, Finalizing
<1>1. TypeOK'
  BY DEF TypeOK, Content, Nothing, Transaction, Steps
<1>2. /\ (before[Layout] = "old")'
      /\ (pc \in {"undo", "forget"} \cup Applying => disk.phase = "applying")'
      /\ LoopInv' /\ UndoInv'
  BY DEF Inv, LoopInv, UndoInv
<1>3. DiskInv'
  BY DEF Inv, DiskInv, NoneInv, ApplyingInv, CommittedInv
<1>4. BeginInv'
  <2>1. home = before /\ pending
    BY DEF Inv, DiskInv, NoneInv, ApplyingInv, CommittedInv, TypeOK, Transaction
  <2>2. Describes(mem)' /\ mem'.phase = "applying" /\ \A i \in Paths : ~mem'.touched[i]
    BY <2>1 DEF Describes
  <2>3. QED BY <2>1, <2>2 DEF BeginInv
<1>5. QED BY <1>1, <1>2, <1>3, <1>4 DEF Inv

\* The transaction is written before anything is moved.
LEMMA BeginIInv == ASSUME IInv, Begin PROVE IInv'
<1> USE DEF IInv, Begin, process, history
<1>1. TypeOK'
  BY PathAssumption DEF TypeOK, Inv, BeginInv, Paths, Steps, Applying
<1>2. /\ (before[Layout] = "old")'
      /\ BeginInv' /\ UndoInv'
  BY DEF Inv, BeginInv, UndoInv
<1>3. DiskInv'
  BY NothingType DEF Inv, DiskInv, ApplyingInv, BeginInv, Describes, Recoverable, Kept, Applying
<1>4. (pc \in {"undo", "forget"} \cup Applying => disk.phase = "applying")'
  BY DEF Inv, BeginInv
<1>5. LoopInv'
  BY PathAssumption DEF Inv, BeginInv, LoopInv, Kept, Paths, Nothing
<1>6. QED BY <1>1, <1>2, <1>3, <1>4, <1>5 DEF Inv

\* A marked path has not been moved yet.
LEMMA MarkIInv == ASSUME IInv, Mark PROVE IInv'
<1> USE DEF IInv, Mark, history
<1>1. TypeOK'
  BY DEF TypeOK, Transaction, Steps, Touched, Applying
<1>2. /\ (before[Layout] = "old")'
      /\ BeginInv' /\ UndoInv'
  BY DEF Inv, BeginInv, UndoInv
<1>3. DiskInv'
  BY DEF Inv, DiskInv, ApplyingInv, LoopInv, Describes, Recoverable, Kept, Moved, Touched,
         Applying
<1>4. (pc \in {"undo", "forget"} \cup Applying => disk.phase = "applying")'
  BY DEF Inv, LoopInv, Touched, Applying
<1>5. LoopInv'
  BY DEF TypeOK, Inv, LoopInv, Kept, Placed, Transaction, Touched, Applying
<1>6. QED BY <1>1, <1>2, <1>3, <1>4, <1>5 DEF Inv

\* Only a marked path is moved, into an empty place of the rollback directory.
LEMMA MoveIInv == ASSUME IInv, Move PROVE IInv'
<1> USE DEF IInv, Move, process, history
<1>1. TypeOK'
  BY DEF TypeOK, Content, Steps, Applying
<1>2. /\ (before[Layout] = "old")'
      /\ (pc \in {"undo", "forget"} \cup Applying => disk.phase = "applying")'
      /\ BeginInv' /\ UndoInv'
  BY DEF Inv, BeginInv, Applying, UndoInv
<1>3. DiskInv'
  BY DEF TypeOK, Inv, DiskInv, ApplyingInv, LoopInv, Describes, Recoverable, Kept, Moved, Applying
<1>4. LoopInv'
  BY DEF TypeOK, Inv, LoopInv, Kept, Moved, Placed, Applying
<1>5. QED BY <1>1, <1>2, <1>3, <1>4 DEF Inv

\* The path is placed, the loop goes on with the next.
LEMMA InstallIInv == ASSUME IInv, Install PROVE IInv'
<1> USE DEF IInv, Install, history
<1>1. TypeOK'
  BY PathAssumption, NothingType DEF TypeOK, Paths, Steps, Applying
<1>2. /\ (before[Layout] = "old")'
      /\ (pc \in {"undo", "forget"} \cup Applying => disk.phase = "applying")'
      /\ BeginInv' /\ UndoInv'
  BY DEF Inv, BeginInv, Applying, UndoInv
<1>3. DiskInv'
  BY DEF Inv, DiskInv, ApplyingInv, LoopInv, Describes, Recoverable, Kept, Moved, Applying
<1>4. LoopInv'
  BY PathAssumption
     DEF TypeOK, Inv, DiskInv, NoneInv, ApplyingInv, CommittedInv, LoopInv, Kept, Moved, Placed,
         Paths, Transaction
<1>5. QED BY <1>1, <1>2, <1>3, <1>4 DEF Inv

\* After the loop all paths are placed; the layout file is added if missing.
LEMMA MigrateLayoutIInv == ASSUME IInv, MigrateLayout PROVE IInv'
<1> USE PathAssumption, DirectoriesAssumption, FaultAssumption, NoTransactionType, NothingType
    DEF IInv, MigrateLayout, files, process, history, Applying, Finalizing
<1>1. TypeOK'
  BY DEF TypeOK, Content, Steps, EnsureDataLayout
<1>2. /\ (before[Layout] = "old")'
      /\ (pc \in {"undo", "forget"} \cup Applying => disk.phase = "applying")'
      /\ BeginInv' /\ UndoInv'
  BY DEF Inv, BeginInv, UndoInv
<1>3. DiskInv'
  BY DEF Inv, DiskInv, ApplyingInv, Describes, Recoverable, Kept, Moved, EnsureDataLayout
<1>4. LoopInv'
  <2>1. mem = disk /\ at = N + 1
    BY DEF Inv, LoopInv
  <2>2. \A i \in Paths : i < at
    BY <2>1 DEF Paths
  <2>3. \A i \in Paths : home[i] = backup[i] /\ rollback[i] = before[i] /\ mem.touched[i]
    BY <2>2 DEF Inv, LoopInv, Placed
  <2>4. home = backup /\ rollback = before
    BY <2>3, SameHome DEF TypeOK, Content
  <2>5. (home = Restored /\ rollback = before)'
    BY <2>4 DEF Restored
  <2>6. \A i \in Paths : ~(at <= i) /\ ~(at < i)
    BY <2>1 DEF Paths
  <2>7. QED BY <2>1, <2>3, <2>5, <2>6 DEF LoopInv
<1>5. QED BY <1>1, <1>2, <1>3, <1>4 DEF Inv

\* What is committed is the restored home.
LEMMA CommitIInv == ASSUME IInv, Commit PROVE IInv'
<1> USE DEF IInv, Commit, history
<1>1. TypeOK'
  BY DEF TypeOK, Transaction, Steps, Finalizing
<1>2. /\ (before[Layout] = "old")'
      /\ (pc \in {"undo", "forget"} \cup Applying => disk.phase = "applying")'
      /\ BeginInv' /\ LoopInv' /\ UndoInv'
  BY DEF Inv, BeginInv, Applying, LoopInv, UndoInv
<1>3. DiskInv'
  BY DEF Inv, DiskInv, CommittedInv, LoopInv, Restored, Applying
<1>4. QED BY <1>1, <1>2, <1>3 DEF Inv

\* Finishing does not touch the home directory.
LEMMA ArchiveIInv == ASSUME IInv, Archive PROVE IInv'
<1> USE DEF IInv, Archive, files, process, history
<1>1. TypeOK'
  BY DEF TypeOK, Steps, Finalizing
<1>2. /\ (before[Layout] = "old")'
      /\ (pc \in {"undo", "forget"} \cup Applying => disk.phase = "applying")'
      /\ BeginInv' /\ LoopInv' /\ UndoInv'
  BY DEF Inv, BeginInv, Applying, LoopInv, UndoInv
<1>3. DiskInv'
  BY DEF Inv, DiskInv, NoneInv, ApplyingInv, CommittedInv, Restored, Applying
<1>4. QED BY <1>1, <1>2, <1>3 DEF Inv

\* The rollback directory keeps its contents under its new name.
LEMMA SnapshotIInv == ASSUME IInv, Snapshot PROVE IInv'
<1> USE DEF IInv, Snapshot, process, history
<1>1. TypeOK'
  BY DEF TypeOK, Steps, Finalizing
<1>2. /\ (before[Layout] = "old")'
      /\ (pc \in {"undo", "forget"} \cup Applying => disk.phase = "applying")'
      /\ BeginInv' /\ LoopInv' /\ UndoInv'
  BY DEF Inv, BeginInv, Applying, LoopInv, UndoInv
<1>3. DiskInv'
  BY DEF Inv, DiskInv, NoneInv, ApplyingInv, CommittedInv, Restored, Applying
<1>4. QED BY <1>1, <1>2, <1>3 DEF Inv

\* Without the transaction the home is whole, and no restore is pending.
LEMMA ConcludeIInv == ASSUME IInv, Conclude PROVE IInv'
<1> USE DEF IInv, Conclude, process, history
<1>1. TypeOK'
  BY NoTransactionType DEF TypeOK, Steps, Finalizing
<1>2. /\ (before[Layout] = "old")'
      /\ (pc \in {"undo", "forget"} \cup Applying => disk.phase = "applying")'
      /\ BeginInv' /\ LoopInv' /\ UndoInv'
  BY DEF Inv, BeginInv, Applying, LoopInv, UndoInv
<1>3. DiskInv'
  BY NoTransactionType
     DEF TypeOK, Inv, DiskInv, NoneInv, ApplyingInv, CommittedInv, Restored, Transaction, Applying
<1>4. QED BY <1>1, <1>2, <1>3 DEF Inv

\* The result is written when all is done.
LEMMA ReportIInv == ASSUME IInv, Report PROVE IInv'
<1> USE DEF IInv, Report, history
<1>1. TypeOK'
  BY NothingType DEF TypeOK, Steps
<1>2. /\ (before[Layout] = "old")'
      /\ (pc \in {"undo", "forget"} \cup Applying => disk.phase = "applying")'
      /\ BeginInv' /\ LoopInv' /\ UndoInv'
  BY DEF Inv, BeginInv, Applying, LoopInv, UndoInv
<1>3. DiskInv'
  BY DEF Inv, DiskInv, NoneInv, ApplyingInv, CommittedInv, Restored, Applying
<1>4. QED BY <1>1, <1>2, <1>3 DEF Inv

\* What is removed has its old data in the rollback directory, or had none.
LEMMA RemoveIInv == ASSUME IInv, Remove PROVE IInv'
<1> USE DEF IInv, Remove, files, process, history
<1>1. TypeOK'
  BY PathAssumption, DirectoriesAssumption DEF TypeOK, Content, Paths
<1>2. /\ (before[Layout] = "old")'
      /\ (pc \in {"undo", "forget"} \cup Applying => disk.phase = "applying")'
      /\ BeginInv' /\ LoopInv'
  BY DEF Inv, BeginInv, Applying, LoopInv
<1>3. DiskInv'
  BY DEF TypeOK, Inv, DiskInv, ApplyingInv, UndoInv, Describes, Recoverable, Kept, Moved, Replaced
<1>4. UndoInv'
  BY DEF TypeOK, Inv, UndoInv, Describes, Recoverable, Kept, Moved, Replaced
<1>5. QED BY <1>1, <1>2, <1>3, <1>4 DEF Inv

\* One more path is as it was.
LEMMA PutBackIInv == ASSUME IInv, PutBack PROVE IInv'
<1> USE DEF IInv, PutBack, history
<1>1. TypeOK'
  BY PathAssumption, NothingType DEF TypeOK
<1>2. /\ (before[Layout] = "old")'
      /\ (pc \in {"undo", "forget"} \cup Applying => disk.phase = "applying")'
      /\ BeginInv' /\ LoopInv'
  BY DEF Inv, BeginInv, Applying, LoopInv
<1>3. DiskInv'
  BY DEF TypeOK, Inv, DiskInv, ApplyingInv, Describes, Recoverable, Kept, Moved
<1>4. UndoInv'
  BY PathAssumption
     DEF TypeOK, Inv, UndoInv, Describes, Recoverable, Kept, Moved, Paths, Content, Replaced
<1>5. QED BY <1>1, <1>2, <1>3, <1>4 DEF Inv

\* After the loop nothing of the old data is in the rollback directory.
LEMMA SweepIInv == ASSUME IInv, Sweep PROVE IInv'
<1> USE DEF IInv, Sweep, process, history
<1>1. TypeOK'
  BY NothingType DEF TypeOK, Steps
<1>2. /\ (before[Layout] = "old")'
      /\ (pc \in {"undo", "forget"} \cup Applying => disk.phase = "applying")'
      /\ BeginInv' /\ LoopInv'
  BY DEF Inv, BeginInv, Applying, LoopInv
<1>3. DiskInv'
  BY DEF Inv, DiskInv, ApplyingInv, UndoInv, Describes, Recoverable, Kept, Paths, Nothing
<1>4. UndoInv'
  BY PathAssumption DEF TypeOK, Inv, UndoInv, Kept, Paths
<1>5. QED BY <1>1, <1>2, <1>3, <1>4 DEF Inv

\* Without the transaction the home is the one of before.
LEMMA ForgetIInv == ASSUME IInv, Forget PROVE IInv'
<1> USE DEF IInv, Forget, history
<1>1. TypeOK'
  BY NoTransactionType DEF TypeOK, Steps
<1>2. /\ (before[Layout] = "old")'
      /\ (pc \in {"undo", "forget"} \cup Applying => disk.phase = "applying")'
      /\ BeginInv' /\ LoopInv' /\ UndoInv'
  BY DEF Inv, BeginInv, Applying, LoopInv, UndoInv
<1>3. DiskInv'
  BY NoTransactionType DEF Inv, DiskInv, NoneInv, UndoInv
<1>4. QED BY <1>1, <1>2, <1>3 DEF Inv

\* The part of the invariant about the disk does not mention the process.
LEMMA CrashIInv == ASSUME IInv, Crash PROVE IInv'
<1> USE PathAssumption, DirectoriesAssumption, FaultAssumption, NoTransactionType, NothingType
    DEF IInv, Crash, Stop, Fault, files, history, Applying, Finalizing
<1>1. TypeOK'
  <2>1. mem' \in Transaction
    OBVIOUS
  <2>2. at' \in 0..(N + 1)
    OBVIOUS
  <2>3. faults' \in 0..MaxFaults
    BY DEF TypeOK
  <2>4. pc' \in Steps /\ recovering' \in BOOLEAN
    BY DEF Steps
  <2>5. QED BY <2>1, <2>2, <2>3, <2>4 DEF TypeOK
<1>2. /\ (before[Layout] = "old")'
      /\ (pc \in {"undo", "forget"} \cup Applying => disk.phase = "applying")'
      /\ BeginInv' /\ LoopInv' /\ UndoInv'
  BY DEF Inv, BeginInv, LoopInv, UndoInv
<1>3. DiskInv'
  BY DEF Inv, DiskInv, NoneInv, ApplyingInv, CommittedInv, Describes, Recoverable, Kept, Moved,
         Restored
<1>4. QED BY <1>1, <1>2, <1>3 DEF Inv

\* Until the transaction is written, and just after, nothing is moved.
LEMMA PrepareFailsIInv == ASSUME IInv, PrepareFails PROVE IInv'
<1> USE PathAssumption, DirectoriesAssumption, FaultAssumption, NoTransactionType, NothingType
    DEF IInv, PrepareFails, Stop, Fault, files, history, Applying, Finalizing
<1>1. TypeOK'
  <2>1. mem' \in Transaction
    OBVIOUS
  <2>2. at' \in 0..(N + 1)
    OBVIOUS
  <2>3. faults' \in 0..MaxFaults
    BY DEF TypeOK
  <2>4. pc' \in Steps /\ recovering' \in BOOLEAN
    BY DEF Steps
  <2>5. QED BY <2>1, <2>2, <2>3, <2>4 DEF TypeOK
<1>2. /\ (before[Layout] = "old")'
      /\ (pc \in {"undo", "forget"} \cup Applying => disk.phase = "applying")'
      /\ BeginInv' /\ LoopInv' /\ UndoInv'
  BY DEF Inv, BeginInv, LoopInv, UndoInv
<1>3. DiskInv'
  BY DEF Inv, DiskInv, NoneInv, ApplyingInv, CommittedInv, BeginInv, Describes, Recoverable,
         Kept, Moved, Restored
<1>4. QED BY <1>1, <1>2, <1>3 DEF Inv

\* An error leaves a transaction in memory that can be undone.
LEMMA ApplyFailsIInv == ASSUME IInv, ApplyFails PROVE IInv'
<1> USE PathAssumption, DirectoriesAssumption, FaultAssumption, NoTransactionType, NothingType
    DEF IInv, ApplyFails, Fault, history, Applying, Finalizing
<1>1. TypeOK'
  <2>1. pc = "mark" => Touched \in Transaction
    BY DEF TypeOK, Transaction, Touched
  <2>2. mem' \in Transaction /\ disk' \in Transaction
    BY <2>1 DEF TypeOK
  <2>3. QED BY <2>2 DEF TypeOK, Steps
<1>2. /\ (before[Layout] = "old")'
      /\ BeginInv' /\ LoopInv'
  BY DEF Inv, BeginInv, LoopInv
<1>3. DiskInv'
  <2>1. mem = disk /\ disk.phase = "applying" /\ pending /\ Describes(mem) /\ Recoverable(mem)
    BY DEF Inv, DiskInv, ApplyingInv, LoopInv
  <2>2. pc = "mark" => Describes(Touched) /\ Recoverable(Touched) /\ Touched.phase = "applying"
    BY <2>1 DEF Touched, Describes, Recoverable, TypeOK, Transaction
  <2>3. disk'.phase = "applying" /\ (\A i \in Paths : disk'.had[i] <=> before[i] # "none")
    BY <2>1, <2>2 DEF Describes
  <2>4. \A i \in Paths : Kept(i) \/ (disk'.touched[i] /\ Moved(i))
    BY <2>1, <2>2 DEF Recoverable
  <2>5. QED BY <2>1, <2>3, <2>4 DEF DiskInv, ApplyingInv, Describes, Recoverable, Kept, Moved
<1>4. (pc \in {"undo", "forget"} \cup Applying => disk.phase = "applying")'
  BY DEF TypeOK, Inv, LoopInv, Transaction, Touched
<1>5. UndoInv'
  <2>1. mem = disk /\ disk.phase = "applying" /\ pending /\ Describes(mem) /\ Recoverable(mem)
    BY DEF Inv, DiskInv, ApplyingInv, LoopInv
  <2>2. pc = "mark" => Describes(Touched) /\ Recoverable(Touched) /\ Touched.phase = "applying"
    BY <2>1 DEF Touched, Describes, Recoverable, TypeOK, Transaction
  <2>3. \A i \in Paths : mem'.had[i] <=> before[i] # "none"
    BY <2>1, <2>2 DEF Describes
  <2>4. \A i \in Paths : Kept(i) \/ (mem'.touched[i] /\ Moved(i))
    BY <2>1, <2>2 DEF Recoverable
  <2>5. \A i \in Paths : ~(at' < i)
    BY DEF Paths
  <2>6. QED BY <2>3, <2>4, <2>5 DEF UndoInv, Describes, Recoverable, Kept, Moved
<1>6. QED BY <1>1, <1>2, <1>3, <1>4, <1>5 DEF Inv

\* A restore that is committed stays so.
LEMMA FinalizeFailsIInv == ASSUME IInv, FinalizeFails PROVE IInv'
<1> USE PathAssumption, DirectoriesAssumption, FaultAssumption, NoTransactionType, NothingType
    DEF IInv, FinalizeFails, Stop, Fault, history, Finalizing, Applying
<1>1. TypeOK'
  <2>1. mem' \in Transaction
    OBVIOUS
  <2>2. at' \in 0..(N + 1)
    OBVIOUS
  <2>3. faults' \in 0..MaxFaults
    BY DEF TypeOK
  <2>4. pc' \in Steps /\ recovering' \in BOOLEAN
    BY DEF Steps
  <2>5. QED BY <2>1, <2>2, <2>3, <2>4 DEF TypeOK
<1>2. /\ (before[Layout] = "old")'
      /\ (pc \in {"undo", "forget"} \cup Applying => disk.phase = "applying")'
      /\ BeginInv' /\ LoopInv' /\ UndoInv'
  BY DEF Inv, BeginInv, LoopInv, UndoInv
<1>3. DiskInv'
  BY DEF Inv, DiskInv, NoneInv, ApplyingInv, CommittedInv, Describes, Recoverable, Kept, Moved,
         Restored
<1>4. QED BY <1>1, <1>2, <1>3 DEF Inv

\* A recovery that stops half way can be repeated.
LEMMA RecoveryFailsIInv == ASSUME IInv, RecoveryFails PROVE IInv'
<1> USE PathAssumption, DirectoriesAssumption, FaultAssumption, NoTransactionType, NothingType
    DEF IInv, RecoveryFails, Stop, Fault, files, history, Applying, Finalizing
<1>1. TypeOK'
  <2>1. mem' \in Transaction
    OBVIOUS
  <2>2. at' \in 0..(N + 1)
    OBVIOUS
  <2>3. faults' \in 0..MaxFaults
    BY DEF TypeOK
  <2>4. pc' \in Steps /\ recovering' \in BOOLEAN
    BY DEF Steps
  <2>5. QED BY <2>1, <2>2, <2>3, <2>4 DEF TypeOK
<1>2. /\ (before[Layout] = "old")'
      /\ (pc \in {"undo", "forget"} \cup Applying => disk.phase = "applying")'
      /\ BeginInv' /\ LoopInv' /\ UndoInv'
  BY DEF Inv, BeginInv, LoopInv, UndoInv
<1>3. DiskInv'
  BY DEF Inv, DiskInv, ApplyingInv, Describes, Recoverable, Kept, Moved
<1>4. QED BY <1>1, <1>2, <1>3 DEF Inv

-----------------------------------------------------------------------------

\* At the first start nothing is under way.
LEMMA InitIInv == Init => IInv
<1> SUFFICES ASSUME Init PROVE IInv
  OBVIOUS
<1>1. home \in [Paths -> Content] /\ before \in [Paths -> {"none", "old"}]
  BY DEF Init, UserHome, Content
<1>2. backup \in [Paths -> {"none", "new"}]
  BY DEF Init, Nothing
<1>3. at \in 0..(N + 1) /\ faults \in 0..MaxFaults
  BY PathAssumption, FaultAssumption DEF Init
<1>4. TypeOK
  BY <1>1, <1>2, <1>3, NoTransactionType, NothingType DEF Init, TypeOK, Steps
<1>5. Inv
  BY NoTransactionType DEF Init, Inv, UserHome, DiskInv, NoneInv, BeginInv, LoopInv, UndoInv, Applying
<1>6. QED BY <1>4, <1>5 DEF IInv

\* The invariant mentions nothing but the variables.
LEMMA StutterIInv == IInv /\ UNCHANGED vars => IInv'
BY DEF IInv, TypeOK, Inv, DiskInv, NoneInv, ApplyingInv, CommittedInv, BeginInv, LoopInv, UndoInv,
   Describes, Recoverable, Kept, Moved, Placed, Restored, vars

\* Every step preserves the invariant.
LEMMA NextIInv == IInv /\ [Next]_vars => IInv'
<1> SUFFICES ASSUME IInv, [Next]_vars PROVE IInv'
  OBVIOUS
<1>1. CASE User
  BY <1>1, UseIInv, StageBackupRestoreIInv, QuitIInv DEF User
<1>2. CASE Start
  BY <1>2, StartIInv
<1>3. CASE Apply
  BY <1>3, RecoverInterruptedRestoreIInv, OpenIInv, PrepareIInv, BeginIInv, MarkIInv, MoveIInv,
     InstallIInv, MigrateLayoutIInv, CommitIInv DEF Apply
<1>4. CASE Finalize
  BY <1>4, ArchiveIInv, SnapshotIInv, ConcludeIInv, ReportIInv DEF Finalize
<1>5. CASE Undo
  BY <1>5, RemoveIInv, PutBackIInv, SweepIInv, ForgetIInv DEF Undo
<1>6. CASE Failures
  BY <1>6, CrashIInv, PrepareFailsIInv, ApplyFailsIInv, FinalizeFailsIInv, RecoveryFailsIInv DEF Failures
<1>7. CASE UNCHANGED vars
  BY <1>7, StutterIInv
<1>8. QED BY <1>1, <1>2, <1>3, <1>4, <1>5, <1>6, <1>7 DEF Next

\* IInv is an invariant of the specification.
LEMMA Invariance == Spec => []IInv
BY InitIInv, NextIInv, PTL DEF Spec

\* Every reachable state is well typed.
THEOREM RestoreTypeCorrect == Spec => []TypeOK
BY Invariance, PTL DEF IInv

\* Whatever is interrupted or fails, the data of before is in the home or in the
\* rollback directory.
THEOREM RestoreLosesNothing == Spec => []NothingLost
<1>1. IInv => NothingLost
  <2> SUFFICES ASSUME IInv, NEW i \in Paths, before[i] = "old"
               PROVE  home[i] = "old" \/ rollback[i] = "old"
    BY DEF NothingLost
  <2>1. CASE disk.phase = "none"
    BY <2>1 DEF IInv, Inv, DiskInv, NoneInv
  <2>2. CASE disk.phase = "applying"
    BY <2>2 DEF IInv, Inv, DiskInv, ApplyingInv, Recoverable, Kept, Moved
  <2>3. CASE disk.phase = "committed"
    BY <2>3 DEF IInv, Inv, DiskInv, CommittedInv
  <2>4. QED BY <2>1, <2>2, <2>3 DEF IInv, TypeOK, Transaction
<1>2. QED BY <1>1, Invariance, PTL

\* The program never opens on a home directory that is partly restored.
THEOREM RestoreOpensOnWholeHome == Spec => []OpensOnWholeHome
<1>1. IInv => OpensOnWholeHome
  BY DEF IInv, TypeOK, Transaction, Inv, DiskInv, NoneInv, ApplyingInv, CommittedInv,
     OpensOnWholeHome, Applying
<1>2. QED BY <1>1, Invariance, PTL

-----------------------------------------------------------------------------
(***************************************************************************)
(* The refinement of HomeSwitch.                                           *)
(***************************************************************************)

Asked == pending /\ disk.phase # "committed"

\* A restored home differs from the one before in the layout file.
LEMMA RestoredDiffers == IInv => Restored # before
BY PathAssumption DEF IInv, TypeOK, Inv, Restored, EnsureDataLayout, Layout, Paths

\* A step that moves data only while a transaction is on disk, and neither opens
\* nor closes the program, is no step of HomeSwitch.
Silent ==
  /\ (pc = "run")' = (pc = "run")
  /\ pending' = pending /\ disk'.phase = disk.phase
  /\ disk.phase = "none" => UNCHANGED <<home, before>>

\* Such a step changes nothing that HomeSwitch can see.
LEMMA SilentStep ==
    ASSUME IInv, Silent
    PROVE  UNCHANGED <<pc = "run", Asked, Whose>>
<1>1. disk.phase \in {"none", "applying", "committed"}
  BY DEF IInv, TypeOK, Transaction
<1>2. UNCHANGED <<pc = "run", Asked>>
  BY DEF Silent, Asked
<1>3. disk.phase = "none" => Whose' = Whose
  BY DEF Silent, Whose
<1>4. disk.phase # "none" => Whose' = Whose
  BY <1>1 DEF Silent, Whose
<1>5. Whose' = Whose
  BY <1>3, <1>4
<1>6. QED BY <1>2, <1>5

\* Every step is a step of HomeSwitch, or none.
LEMMA StepRefines ==
    ASSUME IInv, [Next]_vars
    PROVE  [Switched!Next]_<<pc = "run", Asked, Whose>>
<1> USE DEF files, process, history, Fault, Stop
<1>1. disk.phase \in {"none", "applying", "committed"} /\ pending \in BOOLEAN
  BY DEF IInv, TypeOK, Transaction
<1>2. pc \in {"run", "begin", "prepare"} => disk.phase = "none"
  BY <1>1 DEF IInv, Inv, DiskInv, ApplyingInv, CommittedInv, Applying
<1>3. CASE User
  <2>1. disk.phase = "none" /\ pc = "run"
    BY <1>2, <1>3 DEF User, Use, StageBackupRestore, Quit
  <2>2. CASE Use
    BY <2>1, <2>2 DEF Use, Whose, Asked, Switched!Next, Switched!Use
  <2>3. CASE StageBackupRestore
    BY <2>1, <2>3 DEF StageBackupRestore, Whose, Asked, Switched!Next, Switched!Ask
  <2>4. CASE Quit
    BY <2>1, <2>4 DEF Quit, Whose, Asked, Switched!Next, Switched!Close
  <2>5. QED BY <1>3, <2>2, <2>3, <2>4 DEF User
<1>4. CASE Start
  <2>1. disk.phase = "none" => home' = home
    BY <1>4, PathAssumption DEF Start, EnsureDataLayout, IInv, TypeOK, Inv, DiskInv, NoneInv, Restored, Layout, Paths
  <2>2. Silent
    BY <1>4, <2>1 DEF Start, Silent
  <2>3. QED BY <2>2, SilentStep
<1>5. CASE Apply
  <2>1. CASE RecoverInterruptedRestore
    BY <2>1, SilentStep DEF RecoverInterruptedRestore, Silent
  <2>2. CASE Open
    BY <2>2 DEF Open, Whose, Asked, Switched!Next, Switched!Open
  <2>3. CASE Prepare
    BY <2>3, SilentStep DEF Prepare, Silent
  <2>4. CASE Begin
    <3>1. pending /\ home = before /\ mem.phase = "applying" /\ disk.phase = "none"
      BY <2>4, <1>2 DEF Begin, IInv, Inv, BeginInv
    <3>2. Whose = "before" /\ Whose' = "before"
      BY <2>4, <3>1 DEF Begin, Whose
    <3>3. QED BY <2>4, <3>1, <3>2 DEF Begin, Asked
  <2>5. CASE Mark
    <3>1. mem = disk /\ disk'.phase = disk.phase /\ disk.phase = "applying"
      BY <2>5 DEF Mark, Touched, IInv, TypeOK, Transaction, Inv, LoopInv, Applying
    <3>2. QED BY <2>5, <3>1, SilentStep DEF Mark, Silent
  <2>6. CASE Move
    <3>1. disk.phase = "applying"
      BY <2>6 DEF Move, IInv, Inv, Applying
    <3>2. QED BY <2>6, <3>1, SilentStep DEF Move, Silent
  <2>7. CASE Install
    <3>1. disk.phase = "applying"
      BY <2>7 DEF Install, IInv, Inv, Applying
    <3>2. QED BY <2>7, <3>1, SilentStep DEF Install, Silent
  <2>8. CASE MigrateLayout
    <3>1. disk.phase = "applying"
      BY <2>8 DEF MigrateLayout, IInv, Inv, Applying
    <3>2. QED BY <2>8, <3>1, SilentStep DEF MigrateLayout, Silent
  <2>9. CASE Commit
    <3>1. pending /\ disk.phase = "applying"
      BY <2>9 DEF Commit, IInv, Inv, DiskInv, ApplyingInv, Applying
    <3>2. disk'.phase = "committed" /\ UNCHANGED pending /\ pc # "run" /\ pc' # "run"
      BY <2>9 DEF Commit, IInv, TypeOK, Transaction
    <3>3. Whose' = "after" /\ Asked /\ ~Asked'
      BY <3>1, <3>2 DEF Whose, Asked
    <3>4. QED BY <3>2, <3>3 DEF Switched!Next, Switched!Switch, Asked
  <2>10. QED BY <1>5, <2>1, <2>2, <2>3, <2>4, <2>5, <2>6, <2>7, <2>8, <2>9 DEF Apply
<1>6. CASE Finalize
  <2>1. CASE Archive
    <3>1. disk.phase = "committed"
      BY <2>1, <1>1 DEF Archive, IInv, Inv, DiskInv, NoneInv, ApplyingInv, Applying
    <3>2. QED BY <2>1, <3>1 DEF Archive, Whose, Asked
  <2>2. CASE Snapshot
    BY <2>2, SilentStep DEF Snapshot, Silent
  <2>3. CASE Conclude
    <3>1. disk.phase = "committed" /\ ~pending /\ home = Restored
      BY <2>3, <1>1 DEF Conclude, IInv, Inv, DiskInv, NoneInv, ApplyingInv, CommittedInv, Applying
    <3>2. disk'.phase = "none" /\ home' # before'
      BY <2>3, <3>1, RestoredDiffers, NoTransactionType DEF Conclude
    <3>3. QED BY <2>3, <3>1, <3>2 DEF Conclude, Whose, Asked
  <2>4. CASE Report
    <3>1. disk.phase = "none"
      BY <2>4, <1>1 DEF Report, IInv, Inv, DiskInv, ApplyingInv, CommittedInv, Applying
    <3>2. CASE recovering
      BY <2>4, <3>1, <3>2, SilentStep DEF Report, Silent
    <3>3. CASE ~recovering
      BY <2>4, <3>1, <3>3 DEF Report, Whose, Asked, Switched!Next, Switched!Open
    <3>4. QED BY <3>2, <3>3
  <2>5. QED BY <1>6, <2>1, <2>2, <2>3, <2>4 DEF Finalize
<1>7. CASE Undo
  <2>1. disk.phase = "applying"
    BY <1>7 DEF Undo, Remove, PutBack, Sweep, Forget, IInv, Inv
  <2>2. CASE Remove
    BY <2>1, <2>2, SilentStep DEF Remove, Silent
  <2>3. CASE PutBack
    BY <2>1, <2>3, SilentStep DEF PutBack, Silent
  <2>4. CASE Sweep
    BY <2>1, <2>4, SilentStep DEF Sweep, Silent
  <2>5. CASE Forget
    <3>1. home = before
      BY <2>5 DEF Forget, IInv, Inv, UndoInv
    <3>2. disk'.phase = "none" /\ home' = before'
      BY <2>5, <3>1, NoTransactionType DEF Forget
    <3>3. QED BY <2>1, <2>5, <3>2 DEF Forget, Whose, Asked
  <2>6. QED BY <1>7, <2>2, <2>3, <2>4, <2>5 DEF Undo
<1>8. CASE Failures
  <2>1. CASE Crash
    <3>1. CASE pc = "run"
      BY <2>1, <3>1, <1>2 DEF Crash, Whose, Asked, Switched!Next, Switched!Close
    <3>2. CASE pc # "run"
      BY <2>1, <3>2, SilentStep DEF Crash, Silent
    <3>3. QED BY <3>1, <3>2
  <2>2. CASE PrepareFails
    <3>1. CASE pc = "begin"
      <4>1. pending /\ home = before /\ mem.phase = "applying" /\ disk.phase = "none"
        BY <3>1, <1>2 DEF IInv, Inv, BeginInv
      <4>2. Whose = "before" /\ Whose' = "before" /\ disk'.phase # "committed"
        BY <2>2, <3>1, <4>1 DEF PrepareFails, Whose
      <4>3. QED BY <2>2, <3>1, <4>1, <4>2 DEF PrepareFails, Asked
    <3>2. CASE pc # "begin"
      BY <2>2, <3>2, SilentStep DEF PrepareFails, Silent
    <3>3. QED BY <3>1, <3>2
  <2>3. CASE ApplyFails
    <3>1. mem = disk /\ disk.phase = "applying"
      BY <2>3 DEF ApplyFails, IInv, Inv, LoopInv, Applying
    <3>2. disk'.phase = disk.phase
      BY <2>3, <3>1 DEF ApplyFails, Touched, IInv, TypeOK, Transaction
    <3>3. pc # "run" /\ pc' # "run"
      BY <2>3 DEF ApplyFails, Applying
    <3>4. QED BY <2>3, <3>1, <3>2, <3>3, SilentStep DEF ApplyFails, Silent
  <2>4. CASE FinalizeFails
    BY <2>4, SilentStep DEF FinalizeFails, Silent, Finalizing
  <2>5. CASE RecoveryFails
    BY <2>5, SilentStep DEF RecoveryFails, Silent
  <2>6. QED BY <1>8, <2>1, <2>2, <2>3, <2>4, <2>5 DEF Failures
<1>9. CASE UNCHANGED vars
  BY <1>9 DEF vars, Whose, Asked
<1>10. QED BY <1>3, <1>4, <1>5, <1>6, <1>7, <1>8, <1>9 DEF Next

\* The many renames of a restore are, to the user, one switch from the old data
\* to the data of the backup, made only if it was asked for.
THEOREM RestoreSwitchesAtomically == Spec => SwitchesAtomically
<1>1. Init => Switched!Init
  BY NoTransactionType DEF Init, Switched!Init, Whose
<1>2. IInv /\ [Next]_vars => [Switched!Next]_<<pc = "run", pending /\ disk.phase # "committed", Whose>>
  BY StepRefines DEF Asked
<1>3. QED BY <1>1, <1>2, Invariance, PTL DEF Spec, SwitchesAtomically, Switched!Spec
=============================================================================
