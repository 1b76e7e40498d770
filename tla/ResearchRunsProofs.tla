-------------------------- MODULE ResearchRunsProofs --------------------------
(***************************************************************************)
(* Proofs about the runs of the research service: for any number of runs,   *)
(* tasks and prompts, any batch size and any order of calls, at most one    *)
(* run of the conversation is running, a run synthesizes only when none of  *)
(* its tasks is under way, and what is over stays as it was.                *)
(*                                                                         *)
(* That synthesis waits is not inductive: gap filling must be known to      *)
(* start from a finished first batch, and the first batch to have no task    *)
(* of the second.  Orderly says so of one run.                              *)
(***************************************************************************)
EXTENDS ResearchRuns, TLAPS

FirstBatch == {"collecting", "waiting"}
SecondBatch == {"gap_fill_collecting", "gap_fill_waiting"}

\* A run with record "rec" and tasks "ts" keeps its batches apart and synthesizes from finished ones.
Orderly(rec, ts) ==
    \A t \in Tasks :
        /\ ts[t].batch = 0 => ts[t].status = "none"
        /\ rec.phase \in FirstBatch => ts[t].batch # 2
        /\ rec.phase \in SecondBatch /\ ts[t].batch = 1 => ts[t].status \notin Unfinished
        /\ rec.phase \in Synthesis => ts[t].status \notin Unfinished

RunsInv == RunsTypeOK /\ OneActiveRun /\ \A r \in Runs : Orderly(run[r], tasks[r])

LEMMA RunsInvImplies == RunsInv => RunsTypeOK /\ OneActiveRun /\ SynthesisWaitsForWorkers
  BY DEF RunsInv, Orderly, SynthesisWaitsForWorkers

LEMMA InitRuns == RunsInit => RunsInv
<1> SUFFICES ASSUME RunsInit PROVE RunsInv OBVIOUS
<1>1. RunsTypeOK
  BY DEF RunsInit, RunsTypeOK, RunRecord, TaskRecord, NoTask, RunStatuses, TaskStatuses, Phases,
         Collecting, Runs, Tasks
<1>2. \A r \in Runs : Orderly(run[r], tasks[r])
  BY DEF RunsInit, Orderly, NoTask, FirstBatch, SecondBatch, Synthesis, Runs, Tasks
<1>3. OneActiveRun
  BY DEF RunsInit, OneActiveRun, Active, Runs
<1> QED BY <1>1, <1>2, <1>3 DEF RunsInv

-----------------------------------------------------------------------------
(* One run changes *)

\* A call about run r leaves the others as they were.
LEMMA OneRunChanges ==
  ASSUME RunsInv, NEW r \in Runs, NEW rec \in RunRecord, NEW ts \in [Tasks -> TaskRecord],
         run' = [run EXCEPT ![r] = rec], tasks' = [tasks EXCEPT ![r] = ts],
         Orderly(rec, ts),
         rec.status = "running" => \A q \in Runs \ {r} : ~Active(q)
  PROVE  RunsInv'
<1>1. RunsTypeOK'
  BY DEF RunsInv, RunsTypeOK
<1>2. ASSUME NEW q \in Runs PROVE Orderly(run[q], tasks[q])'
  <2>1. CASE q = r
    <3>1. run'[q] = rec /\ tasks'[q] = ts BY <2>1 DEF RunsInv, RunsTypeOK
    <3> QED BY <3>1 DEF Orderly
  <2>2. CASE q # r
    <3>1. run'[q] = run[q] /\ tasks'[q] = tasks[q] BY <2>2 DEF RunsInv, RunsTypeOK
    <3>2. Orderly(run[q], tasks[q]) BY DEF RunsInv
    <3> QED BY <3>1, <3>2 DEF Orderly
  <2> QED BY <2>1, <2>2
<1>3. OneActiveRun'
  BY DEF RunsInv, RunsTypeOK, OneActiveRun, Active
<1> QED BY <1>1, <1>2, <1>3 DEF RunsInv

\* What the types say of one run.
LEMMA RunTypes ==
  ASSUME RunsTypeOK, NEW r \in Runs
  PROVE  /\ run[r] \in RunRecord /\ tasks[r] \in [Tasks -> TaskRecord]
         /\ \A t \in Tasks : tasks[r][t] \in TaskRecord
  BY DEF RunsTypeOK

\* Only the record of r changes, and it stays orderly with the tasks it has.
LEMMA RecordChanges ==
  ASSUME RunsInv, NEW r \in Runs, NEW rec \in RunRecord,
         run' = [run EXCEPT ![r] = rec], UNCHANGED tasks,
         Orderly(rec, tasks[r]),
         rec.status = "running" => \A q \in Runs \ {r} : ~Active(q)
  PROVE  RunsInv'
<1>1. tasks' = [tasks EXCEPT ![r] = tasks[r]] /\ tasks[r] \in [Tasks -> TaskRecord]
  BY DEF RunsInv, RunsTypeOK
<1> QED BY <1>1, OneRunChanges

\* Only the tasks of r change.
LEMMA TasksChange ==
  ASSUME RunsInv, NEW r \in Runs, NEW ts \in [Tasks -> TaskRecord],
         tasks' = [tasks EXCEPT ![r] = ts], UNCHANGED run,
         Orderly(run[r], ts)
  PROVE  RunsInv'
<1>1. run' = [run EXCEPT ![r] = run[r]] /\ run[r] \in RunRecord
  BY DEF RunsInv, RunsTypeOK
<1>2. run[r].status = "running" => \A q \in Runs \ {r} : ~Active(q)
  BY DEF RunsInv, OneActiveRun, Active
<1> QED BY <1>1, <1>2, OneRunChanges

\* The phase of an active run changes.
LEMMA PhaseChanges ==
  ASSUME RunsInv, NEW r \in Runs, NEW phase \in Phases, Active(r), To(r, phase), UNCHANGED tasks,
         Orderly([run[r] EXCEPT !.phase = phase], tasks[r])
  PROVE  RunsInv'
<1> DEFINE rec == [run[r] EXCEPT !.phase = phase]
<1>1. run[r] \in RunRecord BY DEF RunsInv, RunsTypeOK
<1>2. rec \in RunRecord BY <1>1 DEF RunRecord
<1>3. run' = [run EXCEPT ![r] = rec] BY DEF To
<1>4. \A q \in Runs \ {r} : ~Active(q) BY DEF RunsInv, OneActiveRun
<1> QED BY <1>2, <1>3, <1>4, RecordChanges

-----------------------------------------------------------------------------
(* The calls *)

LEMMA BatchFacts ==
  /\ \A phase : Batch(phase) \in 1..2
  /\ \A phase \in FirstBatch : Batch(phase) = 1
  /\ \A phase \in SecondBatch : Batch(phase) = 2
  /\ Collecting \cup Waiting = FirstBatch \cup SecondBatch
  /\ FirstBatch \cap SecondBatch = {} /\ Synthesis \cap (FirstBatch \cup SecondBatch) = {}
  BY DEF Batch, FirstBatch, SecondBatch, Collecting, Waiting, Synthesis

LEMMA StartKeeps == ASSUME RunsInv, NEW r \in Runs, Start(r) PROVE RunsInv'
<1> DEFINE rec == [run[r] EXCEPT !.status = "running"]
<1>1. run[r] \in RunRecord BY DEF RunsInv, RunsTypeOK
<1>2. rec \in RunRecord BY <1>1 DEF RunRecord, RunStatuses
<1>3. run' = [run EXCEPT ![r] = rec] /\ UNCHANGED tasks BY DEF Start
<1>4. Orderly(run[r], tasks[r]) /\ rec.phase = run[r].phase BY <1>1 DEF RunsInv, RunRecord
<1>5. Orderly(rec, tasks[r]) BY <1>4 DEF Orderly
<1>6. \A q \in Runs : ~Active(q) BY DEF Start
<1> QED BY <1>2, <1>3, <1>5, <1>6, RecordChanges

LEMMA RegisterTaskKeeps ==
  ASSUME RunsInv, NEW r \in Runs, NEW p \in Prompts, NEW t \in Tasks, RegisterTask(r, p, t)
  PROVE  RunsInv'
<1> DEFINE phase == run[r].phase
<1>1. /\ run[r] \in RunRecord /\ tasks[r] \in [Tasks -> TaskRecord] /\ tasks[r][t] \in TaskRecord
      /\ Orderly(run[r], tasks[r])
  BY DEF RunsInv, RunsTypeOK
<1>2. phase \in Collecting /\ UNCHANGED run BY DEF RegisterTask
<1>3. PICK task \in TaskRecord : /\ tasks' = [tasks EXCEPT ![r][t] = task]
                                 /\ task.status = "launching" /\ task.batch = Batch(phase)
  <2>1. CASE tasks' = [tasks EXCEPT ![r][t] =
                          [status |-> "launching", prompt |-> p, batch |-> Batch(run[r].phase)]]
    <3> DEFINE task == [status |-> "launching", prompt |-> p, batch |-> Batch(phase)]
    <3>1. task \in TaskRecord BY BatchFacts DEF TaskRecord, TaskStatuses
    <3> QED BY <2>1, <3>1
  <2>2. CASE t \in Deciding(r, p) /\ tasks' = [tasks EXCEPT ![r][t].status = "launching"]
    <3> DEFINE task == [tasks[r][t] EXCEPT !.status = "launching"]
    <3>1. tasks[r][t].batch = Batch(phase) BY <2>2 DEF Deciding, Current
    <3>2. task \in TaskRecord /\ task.status = "launching" /\ task.batch = Batch(phase)
      BY <1>1, <3>1 DEF TaskRecord, TaskStatuses
    <3>3. tasks' = [tasks EXCEPT ![r][t] = task] BY <2>2
    <3> QED BY <3>2, <3>3
  <2> QED BY <2>1, <2>2 DEF RegisterTask
<1> DEFINE ts == [tasks[r] EXCEPT ![t] = task]
<1>4. ts \in [Tasks -> TaskRecord] /\ tasks' = [tasks EXCEPT ![r] = ts]
  BY <1>1, <1>3 DEF RunsInv, RunsTypeOK
<1>5. Orderly(run[r], ts)
  BY <1>1, <1>2, <1>3, BatchFacts DEF Orderly, Collecting, FirstBatch, SecondBatch, Synthesis
<1> QED BY <1>2, <1>4, <1>5, TasksChange

\* A batch whose tasks have finished ends the collection of its run.
LEMMA FinishedBatchIsOrderly ==
  ASSUME NEW rec \in RunRecord, NEW ts \in [Tasks -> TaskRecord], Orderly(rec, ts),
         NEW from \in Collecting \cup Waiting, from = rec.phase,
         \A t \in Tasks : ts[t].batch = Batch(from) => ts[t].status \in Finished
  PROVE  Orderly([rec EXCEPT !.phase = CompletedPhase(from)], ts)
<1> DEFINE done == [rec EXCEPT !.phase = CompletedPhase(from)]
<1>1. done.phase \in Synthesis
  BY DEF RunRecord, CompletedPhase, Synthesis
<1>2. ASSUME NEW t \in Tasks PROVE ts[t].status \notin Unfinished
  <2>1. ts[t].batch \in 0..2 BY DEF TaskRecord
  <2>2. CASE ts[t].batch = 0 BY <2>2 DEF Orderly, Unfinished
  <2>3. CASE ts[t].batch = Batch(from) BY <2>3 DEF Finished, Unfinished
  <2>4. CASE ts[t].batch # 0 /\ ts[t].batch # Batch(from)
    BY <2>1, <2>4, BatchFacts DEF Orderly
  <2> QED BY <2>2, <2>3, <2>4
<1> QED BY <1>1, <1>2, BatchFacts DEF Orderly

LEMMA SealBatchKeeps == ASSUME RunsInv, NEW r \in Runs, SealBatch(r) PROVE RunsInv'
<1> DEFINE phase == run[r].phase
<1>1. /\ run[r] \in RunRecord /\ tasks[r] \in [Tasks -> TaskRecord] /\ Orderly(run[r], tasks[r])
  BY DEF RunsInv, RunsTypeOK
<1>2. Active(r) /\ phase \in Collecting /\ UNCHANGED tasks BY DEF SealBatch
<1>3. CASE \A t \in Current(r) : tasks[r][t].status \in Finished
  <2>1. To(r, CompletedPhase(phase)) BY <1>3 DEF SealBatch
  <2>2. CompletedPhase(phase) \in Phases BY DEF CompletedPhase, Phases, Synthesis
  <2>3. Orderly([run[r] EXCEPT !.phase = CompletedPhase(phase)], tasks[r])
    BY <1>1, <1>2, <1>3, FinishedBatchIsOrderly DEF Current
  <2> QED BY <1>2, <2>1, <2>2, <2>3, PhaseChanges
<1>4. CASE ~(\A t \in Current(r) : tasks[r][t].status \in Finished)
  <2>1. To(r, WaitingPhase(phase)) BY <1>4 DEF SealBatch
  <2>2. /\ WaitingPhase(phase) \in Phases
        /\ phase \in FirstBatch <=> WaitingPhase(phase) \in FirstBatch
        /\ phase \in SecondBatch <=> WaitingPhase(phase) \in SecondBatch
        /\ WaitingPhase(phase) \notin Synthesis
    BY <1>2 DEF WaitingPhase, Phases, Collecting, Waiting, FirstBatch, SecondBatch, Synthesis
  <2>3. Orderly([run[r] EXCEPT !.phase = WaitingPhase(phase)], tasks[r])
    BY <1>1, <2>2 DEF Orderly, RunRecord
  <2> QED BY <1>2, <2>1, <2>2, <2>3, PhaseChanges
<1> QED BY <1>3, <1>4

LEMMA BeginGapFillKeeps == ASSUME RunsInv, NEW r \in Runs, BeginGapFill(r) PROVE RunsInv'
<1>1. run[r] \in RunRecord /\ Orderly(run[r], tasks[r]) BY DEF RunsInv, RunsTypeOK
<1>2. /\ Active(r) /\ To(r, "gap_fill_collecting") /\ UNCHANGED tasks
      /\ run[r].phase \in Synthesis
  BY DEF BeginGapFill, Synthesis
<1>3. Orderly([run[r] EXCEPT !.phase = "gap_fill_collecting"], tasks[r])
  BY <1>1, <1>2 DEF Orderly, RunRecord, FirstBatch, Synthesis
<1>4. "gap_fill_collecting" \in Phases BY DEF Phases, Collecting
<1> QED BY <1>2, <1>3, <1>4, PhaseChanges

\* Within the phases of synthesis nothing is asked of the tasks anew.
LEMMA SynthesisStaysOrderly ==
  ASSUME NEW rec \in RunRecord, NEW ts, Orderly(rec, ts), rec.phase \in Synthesis,
         NEW after \in RunRecord, after.phase \in Synthesis
  PROVE  Orderly(after, ts)
  BY BatchFacts DEF Orderly

LEMMA CompleteKeeps == ASSUME RunsInv, NEW r \in Runs, Complete(r) PROVE RunsInv'
<1> DEFINE rec == [run[r] EXCEPT !.status = "completed", !.phase = "finalizing"]
<1>1. run[r] \in RunRecord /\ Orderly(run[r], tasks[r]) BY DEF RunsInv, RunsTypeOK
<1>2. rec \in RunRecord /\ rec.phase \in Synthesis /\ rec.status # "running"
  BY <1>1 DEF RunRecord, RunStatuses, Phases, Synthesis
<1>3. run' = [run EXCEPT ![r] = rec] /\ UNCHANGED tasks /\ run[r].phase \in Synthesis
  BY DEF Complete, Synthesis
<1>4. Orderly(rec, tasks[r]) BY <1>1, <1>2, <1>3, SynthesisStaysOrderly
<1> QED BY <1>2, <1>3, <1>4, RecordChanges

LEMMA ClaimContinuationKeeps == ASSUME RunsInv, NEW r \in Runs, ClaimContinuation(r) PROVE RunsInv'
<1> DEFINE phase == Claimed(run[r].phase)
           rec == [run[r] EXCEPT !.phase = phase]
<1>1. run[r] \in RunRecord /\ Orderly(run[r], tasks[r]) BY DEF RunsInv, RunsTypeOK
<1>2. phase \in Synthesis BY DEF Claimed, Synthesis
<1>3. phase \in Phases /\ rec \in RunRecord /\ rec.phase = phase BY <1>1, <1>2 DEF Phases, RunRecord
<1>4. Active(r) /\ To(r, phase) /\ UNCHANGED tasks /\ run[r].phase \in Synthesis
  BY DEF ClaimContinuation, Synthesis
<1>5. Orderly(rec, tasks[r]) BY <1>1, <1>2, <1>3, <1>4, SynthesisStaysOrderly
<1> QED BY <1>3, <1>4, <1>5, PhaseChanges

LEMMA ResumeKeeps == ASSUME RunsInv, NEW r \in Runs, Resume(r) PROVE RunsInv'
<1>1. run[r] \in RunRecord /\ Orderly(run[r], tasks[r]) BY DEF RunsInv, RunsTypeOK
<1>2. PICK phase : /\ run' = [run EXCEPT ![r].status = "running", ![r].phase = phase]
                   /\ phase = CASE run[r].phase = "waiting" -> "collecting"
                                [] run[r].phase = "gap_fill_waiting" -> "gap_fill_collecting"
                                [] run[r].phase = "synthesis_pending" -> "synthesizing"
                                [] run[r].phase = "final_synthesis_pending" -> "finalizing"
                                [] OTHER -> run[r].phase
  BY DEF Resume
<1> DEFINE rec == [run[r] EXCEPT !.status = "running", !.phase = phase]
<1>3. run[r].phase \in Phases BY <1>1 DEF RunRecord
<1>4. /\ phase \in Phases
      /\ phase \in FirstBatch => run[r].phase \in FirstBatch
      /\ phase \in SecondBatch => run[r].phase \in SecondBatch
      /\ phase \in Synthesis => run[r].phase \in Synthesis
  BY <1>2, <1>3 DEF Phases, Collecting, Waiting, Synthesis, FirstBatch, SecondBatch
<1>5. rec \in RunRecord /\ rec.phase = phase BY <1>1, <1>4 DEF RunRecord, RunStatuses
<1>6. Orderly(rec, tasks[r]) BY <1>1, <1>4, <1>5 DEF Orderly
<1>7. run' = [run EXCEPT ![r] = rec] /\ UNCHANGED tasks /\ \A q \in Runs : ~Active(q)
  BY <1>2 DEF Resume
<1> QED BY <1>5, <1>6, <1>7, RecordChanges

LEMMA RecordWorkerUpdatesKeeps ==
  ASSUME RunsInv, NEW r \in Runs, NEW updates \in Updates, RecordWorkerUpdates(r, updates)
  PROVE  RunsInv'
<1> DEFINE phase == run[r].phase
           ts == Updated(r, updates)
<1>1. /\ run[r] \in RunRecord /\ tasks[r] \in [Tasks -> TaskRecord] /\ Orderly(run[r], tasks[r])
      /\ \A t \in Tasks : tasks[r][t] \in TaskRecord
  BY DEF RunsInv, RunsTypeOK
<1>2. /\ Active(r) /\ phase \in Collecting \cup Waiting
      /\ tasks' = [tasks EXCEPT ![r] = ts]
  BY DEF RecordWorkerUpdates, TakesUpdates
<1>3. \A t \in DOMAIN updates : updates[t] \in Reported BY DEF Updates
<1>4. ASSUME NEW t \in Tasks
      PROVE  /\ ts[t] \in TaskRecord
             /\ ts[t] = tasks[r][t] \/ (ts[t].batch = Batch(phase) /\ ts[t].status # "none")
  <2>1. CASE t \notin DOMAIN updates BY <1>1, <2>1 DEF Updated
  <2>2. CASE t \in DOMAIN updates
    <3> DEFINE status == IF updates[t] = "running" /\ tasks[r][t].status \in Finished
                         THEN tasks[r][t].status ELSE updates[t]
    <3>1. ts[t] = [status |-> status, prompt |-> tasks[r][t].prompt, batch |-> Batch(phase)]
      BY <2>2 DEF Updated
    <3>2. status \in TaskStatuses \ {"none"} BY <1>3, <2>2 DEF Reported, Finished, TaskStatuses
    <3>3. tasks[r][t].prompt \in Prompts \cup {NoPrompt} BY <1>1 DEF TaskRecord
    <3> QED BY <3>1, <3>2, <3>3, BatchFacts DEF TaskRecord
  <2> QED BY <2>1, <2>2
<1>5. ts \in [Tasks -> TaskRecord] BY <1>4 DEF Updated
<1>6. Orderly(run[r], ts)
  <2> SUFFICES ASSUME NEW t \in Tasks
               PROVE  /\ ts[t].batch = 0 => ts[t].status = "none"
                      /\ phase \in FirstBatch => ts[t].batch # 2
                      /\ phase \in SecondBatch /\ ts[t].batch = 1 => ts[t].status \notin Unfinished
                      /\ phase \in Synthesis => ts[t].status \notin Unfinished
    BY DEF Orderly
  <2>1. CASE ts[t] = tasks[r][t] BY <1>1, <2>1 DEF Orderly
  <2>2. CASE ts[t].batch = Batch(phase) /\ ts[t].status # "none"
    BY <1>2, <2>2, BatchFacts
  <2> QED BY <1>4, <2>1, <2>2
<1>7. CASE Ready(r, updates)
  <2> DEFINE rec == [run[r] EXCEPT !.phase = CompletedPhase(phase)]
  <2>1. run' = [run EXCEPT ![r] = rec] BY <1>7 DEF RecordWorkerUpdates, To
  <2>2. rec \in RunRecord /\ rec.status = run[r].status
    BY <1>1 DEF RunRecord, CompletedPhase, Phases, Synthesis
  <2>3. \A t \in Tasks : ts[t].batch = Batch(phase) => ts[t].status \in Finished
    BY <1>7 DEF Ready
  <2>4. Orderly(rec, ts) BY <1>1, <1>2, <1>5, <1>6, <2>3, FinishedBatchIsOrderly
  <2>5. \A q \in Runs \ {r} : ~Active(q) BY <1>2 DEF RunsInv, OneActiveRun
  <2> QED BY <1>2, <1>5, <2>1, <2>2, <2>4, <2>5, OneRunChanges
<1>8. CASE ~Ready(r, updates)
  <2>1. UNCHANGED run BY <1>8 DEF RecordWorkerUpdates
  <2> QED BY <1>2, <1>5, <1>6, <2>1, TasksChange
<1> QED BY <1>7, <1>8

\* Ending tasks, as cancelled or as interrupted.
LEMMA EndedIsOrderly ==
  ASSUME RunsInv, NEW r \in Runs, NEW from, NEW status \in TaskStatuses \ {"none"},
         "none" \notin from, from \subseteq Unfinished, NEW rec \in RunRecord,
         rec.phase = run[r].phase \/ (rec.phase \in Synthesis /\ from = Unfinished
                                      /\ status \notin Unfinished)
  PROVE  Ended(r, from, status) \in [Tasks -> TaskRecord] /\ Orderly(rec, Ended(r, from, status))
<1> DEFINE ts == Ended(r, from, status)
<1>1. /\ tasks[r] \in [Tasks -> TaskRecord] /\ Orderly(run[r], tasks[r])
      /\ \A t \in Tasks : tasks[r][t] \in TaskRecord
  BY DEF RunsInv, RunsTypeOK
<1>2. ASSUME NEW t \in Tasks
      PROVE  /\ ts[t] \in TaskRecord /\ ts[t].batch = tasks[r][t].batch
             /\ \/ ts[t].status = tasks[r][t].status /\ tasks[r][t].status \notin from
                \/ ts[t].status = status /\ tasks[r][t].status \in from
  BY <1>1 DEF Ended, TaskRecord
<1>3. ts \in [Tasks -> TaskRecord] BY <1>2 DEF Ended
<1>4. ASSUME NEW t \in Tasks
      PROVE  /\ ts[t].batch = 0 => ts[t].status = "none"
             /\ rec.phase \in FirstBatch => ts[t].batch # 2
             /\ rec.phase \in SecondBatch /\ ts[t].batch = 1 => ts[t].status \notin Unfinished
             /\ rec.phase \in Synthesis => ts[t].status \notin Unfinished
  <2>1. ts[t].batch = 0 => ts[t].status = "none" BY <1>1, <1>2 DEF Orderly
  <2>2. CASE rec.phase = run[r].phase BY <1>1, <1>2, <2>1, <2>2 DEF Orderly
  <2>3. CASE rec.phase \in Synthesis /\ from = Unfinished /\ status \notin Unfinished
    BY <1>2, <2>1, <2>3, BatchFacts
  <2> QED BY <2>2, <2>3
<1> QED BY <1>3, <1>4 DEF Orderly

LEMMA CancelKeeps == ASSUME RunsInv, NEW r \in Runs, Cancel(r) PROVE RunsInv'
<1> DEFINE rec == [run[r] EXCEPT !.status = "cancelled", !.phase = "finalizing"]
           ts == Ended(r, Unfinished, "cancelled")
<1>1. run[r] \in RunRecord BY DEF RunsInv, RunsTypeOK
<1>2. rec \in RunRecord /\ rec.phase \in Synthesis /\ rec.status # "running"
  BY <1>1 DEF RunRecord, RunStatuses, Phases, Synthesis
<1>3. run' = [run EXCEPT ![r] = rec] /\ tasks' = [tasks EXCEPT ![r] = ts] BY DEF Cancel
<1>4. "cancelled" \in TaskStatuses \ {"none"} /\ "none" \notin Unfinished /\ "cancelled" \notin Unfinished
  BY DEF TaskStatuses, Unfinished
<1>5. ts \in [Tasks -> TaskRecord] /\ Orderly(rec, ts) BY <1>2, <1>4, EndedIsOrderly
<1> QED BY <1>2, <1>3, <1>5, OneRunChanges

LEMMA SetWorkerStopUnconfirmedKeeps ==
  ASSUME RunsInv, NEW r \in Runs, NEW unconfirmed \in BOOLEAN, SetWorkerStopUnconfirmed(r, unconfirmed)
  PROVE  RunsInv'
<1> DEFINE rec == [run[r] EXCEPT !.stop = unconfirmed]
<1>1. run[r] \in RunRecord /\ Orderly(run[r], tasks[r]) BY DEF RunsInv, RunsTypeOK
<1>2. /\ run' = [run EXCEPT ![r] = rec] /\ UNCHANGED tasks
      /\ rec \in RunRecord /\ rec.status # "running" /\ rec.phase = run[r].phase
  BY <1>1 DEF SetWorkerStopUnconfirmed, RunRecord
<1>3. Orderly(rec, tasks[r]) BY <1>1, <1>2 DEF Orderly
<1> QED BY <1>2, <1>3, RecordChanges

LEMMA InterruptedTasks ==
  /\ {"running", "launching"} \subseteq Unfinished /\ "none" \notin {"running", "launching"}
  /\ "interrupted" \in TaskStatuses \ {"none"}
  BY DEF Unfinished, TaskStatuses

LEMMA MarkInterruptedKeeps == ASSUME RunsInv, NEW r \in Runs, MarkInterrupted(r) PROVE RunsInv'
<1> DEFINE rec == [run[r] EXCEPT !.status = "interrupted"]
           ts == Ended(r, {"running", "launching"}, "interrupted")
<1>1. run[r] \in RunRecord BY DEF RunsInv, RunsTypeOK
<1>2. rec \in RunRecord /\ rec.phase = run[r].phase /\ rec.status # "running"
  BY <1>1 DEF RunRecord, RunStatuses
<1>3. run' = [run EXCEPT ![r] = rec] /\ tasks' = [tasks EXCEPT ![r] = ts] BY DEF MarkInterrupted
<1>4. ts \in [Tasks -> TaskRecord] /\ Orderly(rec, ts) BY <1>2, InterruptedTasks, EndedIsOrderly
<1> QED BY <1>2, <1>3, <1>4, OneRunChanges

LEMMA RecoverKeeps == ASSUME RunsInv, Recover PROVE RunsInv'
<1>1. ASSUME NEW r \in Runs
      PROVE  /\ run'[r] \in RunRecord /\ run'[r].status # "running"
             /\ tasks'[r] \in [Tasks -> TaskRecord] /\ Orderly(run'[r], tasks'[r])
  <2>1. run[r] \in RunRecord /\ tasks[r] \in [Tasks -> TaskRecord] /\ Orderly(run[r], tasks[r])
    BY DEF RunsInv, RunsTypeOK
  <2>2. CASE Active(r)
    <3> DEFINE rec == [run[r] EXCEPT !.status = "interrupted"]
               ts == Ended(r, {"running", "launching"}, "interrupted")
    <3>1. rec \in RunRecord /\ rec.phase = run[r].phase /\ rec.status # "running"
      BY <2>1 DEF RunRecord, RunStatuses
    <3>2. ts \in [Tasks -> TaskRecord] /\ Orderly(rec, ts) BY <3>1, InterruptedTasks, EndedIsOrderly
    <3>3. run'[r] = rec /\ tasks'[r] = ts BY <2>2 DEF Recover
    <3> QED BY <3>1, <3>2, <3>3
  <2>3. CASE ~Active(r)
    <3>1. run'[r] = run[r] /\ tasks'[r] = tasks[r] BY <2>3 DEF Recover
    <3> QED BY <2>1, <2>3, <3>1 DEF Active
  <2> QED BY <2>2, <2>3
<1>2. RunsTypeOK' BY <1>1 DEF RunsTypeOK, Recover
<1>3. OneActiveRun' BY <1>1 DEF OneActiveRun, Active
<1>4. (\A r \in Runs : Orderly(run[r], tasks[r]))' BY <1>1 DEF Orderly
<1> QED BY <1>2, <1>3, <1>4 DEF RunsInv

-----------------------------------------------------------------------------
\* Every call keeps the runs in order.
LEMMA RunsNextKeeps == RunsInv /\ [RunsNext]_runVars => RunsInv'
<1> SUFFICES ASSUME RunsInv, [RunsNext]_runVars PROVE RunsInv' OBVIOUS
<1>1. CASE UNCHANGED runVars
  BY <1>1 DEF runVars, RunsInv, RunsTypeOK, OneActiveRun, Active, Orderly
<1>2. CASE Recover BY <1>2, RecoverKeeps
<1>3. ASSUME NEW r \in Runs,
             \/ Start(r) \/ SealBatch(r) \/ BeginGapFill(r) \/ Complete(r) \/ Resume(r)
             \/ ClaimContinuation(r) \/ Cancel(r) \/ MarkInterrupted(r)
      PROVE  RunsInv'
  BY <1>3, StartKeeps, SealBatchKeeps, BeginGapFillKeeps, CompleteKeeps, ResumeKeeps,
     ClaimContinuationKeeps, CancelKeeps, MarkInterruptedKeeps
<1>4. ASSUME NEW r \in Runs, NEW p \in Prompts, NEW t \in Tasks, RegisterTask(r, p, t) PROVE RunsInv'
  BY <1>4, RegisterTaskKeeps
<1>5. ASSUME NEW r \in Runs, NEW updates \in Updates, RecordWorkerUpdates(r, updates) PROVE RunsInv'
  BY <1>5, RecordWorkerUpdatesKeeps
<1>6. ASSUME NEW r \in Runs, NEW unconfirmed \in BOOLEAN, SetWorkerStopUnconfirmed(r, unconfirmed)
      PROVE  RunsInv'
  BY <1>6, SetWorkerStopUnconfirmedKeeps
<1> QED BY <1>1, <1>2, <1>3, <1>4, <1>5, <1>6 DEF RunsNext

\* No call changes what is over: only Recover changes more than one run, and it takes active ones.
LEMMA RunsNextSparesOver ==
  ASSUME RunsTypeOK, [RunsNext]_runVars,
         NEW r \in Runs, run[r].status \in {"completed", "cancelled"}
  PROVE  run'[r].status = run[r].status /\ tasks'[r] = tasks[r]
<1>1. CASE UNCHANGED runVars BY <1>1 DEF runVars
<1>2. CASE Recover BY <1>2 DEF Recover, Active
<1>3. ASSUME NEW q \in Runs, NEW p \in Prompts, NEW t \in Tasks, RegisterTask(q, p, t)
      PROVE  run'[r].status = run[r].status /\ tasks'[r] = tasks[r]
  <2>1. q # r /\ UNCHANGED run BY <1>3 DEF RegisterTask, Active
  <2> QED BY <1>3, <2>1 DEF RegisterTask, RunsTypeOK
<1>4. ASSUME NEW q \in Runs, NEW updates \in Updates, RecordWorkerUpdates(q, updates)
      PROVE  run'[r].status = run[r].status /\ tasks'[r] = tasks[r]
  <2>1. q # r BY <1>4 DEF RecordWorkerUpdates, TakesUpdates, Active
  <2> QED BY <1>4, <2>1 DEF RecordWorkerUpdates, To, RunsTypeOK
<1>5. ASSUME NEW q \in Runs, NEW unconfirmed \in BOOLEAN, SetWorkerStopUnconfirmed(q, unconfirmed)
      PROVE  run'[r].status = run[r].status /\ tasks'[r] = tasks[r]
  BY <1>5 DEF SetWorkerStopUnconfirmed, RunsTypeOK, RunRecord
<1>6. ASSUME NEW q \in Runs,
             \/ Start(q) \/ SealBatch(q) \/ BeginGapFill(q) \/ Complete(q) \/ Resume(q)
             \/ ClaimContinuation(q) \/ Cancel(q) \/ MarkInterrupted(q)
      PROVE  run'[r].status = run[r].status /\ tasks'[r] = tasks[r]
  <2>1. q # r
    BY <1>6 DEF Start, SealBatch, BeginGapFill, Complete, Resume, ClaimContinuation, Cancel,
                MarkInterrupted, Active
  <2> QED
    BY <1>6, <2>1 DEF Start, SealBatch, BeginGapFill, Complete, Resume, ClaimContinuation, Cancel,
                      MarkInterrupted, To, RunsTypeOK
<1> QED BY <1>1, <1>2, <1>3, <1>4, <1>5, <1>6 DEF RunsNext

LEMMA RunsInvariant == RunsSpec => []RunsInv
<1>1. RunsInv /\ [RunsNext]_runVars => RunsInv' BY RunsNextKeeps
<1> QED BY <1>1, InitRuns, PTL DEF RunsSpec

\* Research runs are well typed, whatever calls come in whatever order.
THEOREM RunsTypeCorrect == RunsSpec => []RunsTypeOK
<1>1. RunsInv => RunsTypeOK BY DEF RunsInv
<1> QED BY <1>1, RunsInvariant, PTL

\* A run synthesizes only when no task of it is under way: sealing, gap filling, late updates,
\* interruptions, resumptions and cancellations keep it so.
THEOREM SynthesisAlwaysWaits == RunsSpec => []SynthesisWaitsForWorkers
<1>1. RunsInv => SynthesisWaitsForWorkers BY RunsInvImplies
<1> QED BY <1>1, RunsInvariant, PTL

\* Two runs of a conversation are never running, although each call looks at the runs anew.
THEOREM AtMostOneActiveRun == RunsSpec => []OneActiveRun
<1>1. RunsInv => OneActiveRun BY DEF RunsInv
<1> QED BY <1>1, RunsInvariant, PTL

\* A completed or cancelled run is not reopened, and late updates, interruptions and restarts
\* leave its tasks as they are.
THEOREM OverRunsAlwaysStay == RunsSpec => OverRunsStay
<1>1. RunsInv /\ [RunsNext]_runVars =>
        [\A r \in Runs : run[r].status \in {"completed", "cancelled"} =>
             run'[r].status = run[r].status /\ tasks'[r] = tasks[r]]_runVars
  BY RunsNextSparesOver DEF RunsInv
<1> QED BY <1>1, RunsInvariant, PTL DEF RunsSpec, OverRunsStay
=============================================================================
