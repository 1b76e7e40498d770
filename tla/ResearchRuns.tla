---------------------------- MODULE ResearchRuns ----------------------------
(***************************************************************************)
(* The runs of one conversation as the research service keeps them in its   *)
(* database (src/internal/research/service.go, store.go).                   *)
(*                                                                         *)
(* Every method of the service that writes holds its mutex from the first   *)
(* read to the commit, so each is one action.  Its callers are the           *)
(* goroutines of workspace actions, the readers of the sidecars, the user's  *)
(* cancel and the reports of lost sidecars; here they come in any order.     *)
(*                                                                         *)
(* Tasks have random ids and are listed in their order: a new task takes any *)
(* free number, and a lower number comes first.  A task that is "running"    *)
(* has the identity of its worker, which every update carries.  Texts,       *)
(* sources, citations and reports are left out.                             *)
(***************************************************************************)
EXTENDS Integers, FiniteSets

CONSTANTS
    MaxRuns, MaxTasks,           \* bounds: runs, and tasks of a run
    Prompts, NoPrompt,
    maxResearchWorkersPerBatch

ASSUME ResearchAssumption ==
    /\ MaxRuns \in Nat /\ MaxTasks \in Nat
    /\ maxResearchWorkersPerBatch \in Nat \ {0}
    /\ NoPrompt \notin Prompts

Runs == 1..MaxRuns
Tasks == 1..MaxTasks

RunStatuses == {"none", "running", "completed", "cancelled", "interrupted"}
TaskStatuses ==
    {"none", "launching", "running", "completed", "failed", "cancelled", "interrupted"}
Collecting == {"collecting", "gap_fill_collecting"}
Waiting == {"waiting", "gap_fill_waiting"}
Synthesis == {"synthesis_pending", "synthesizing", "final_synthesis_pending", "finalizing"}
Phases == Collecting \cup Waiting \cup Synthesis

NoTask == [status |-> "none", prompt |-> NoPrompt, batch |-> 0]

VARIABLES
    run,     \* each run: its status, its phase, and whether the stop of its workers is unconfirmed
    tasks    \* the tasks of each run

runVars == <<run, tasks>>

RunsInit ==
    /\ run = [r \in Runs |-> [status |-> "none", phase |-> "collecting", stop |-> FALSE]]
    /\ tasks = [r \in Runs |-> [t \in Tasks |-> NoTask]]

-----------------------------------------------------------------------------
(* batchPhases, tasksForBatch, allTasksTerminal *)

Batch(phase) == IF phase \in {"collecting", "waiting"} THEN 1 ELSE 2
WaitingPhase(phase) == IF phase = "collecting" THEN "waiting" ELSE "gap_fill_waiting"
CompletedPhase(phase) ==
    CASE phase = "collecting" -> "synthesizing"
      [] phase = "waiting" -> "synthesis_pending"
      [] phase = "gap_fill_collecting" -> "finalizing"
      [] OTHER -> "final_synthesis_pending"

Finished == {"completed", "failed", "cancelled"}
Unfinished == {"launching", "running", "interrupted"}

Current(r) == {t \in Tasks : tasks[r][t].batch = Batch(run[r].phase)}
Active(r) == run[r].status = "running"

To(r, phase) == run' = [run EXCEPT ![r].phase = phase]

-----------------------------------------------------------------------------
(* The methods the agent's tools call *)

Start(r) ==
    /\ run[r].status = "none" /\ \A q \in 1..(r - 1) : run[q].status # "none"
    /\ \A q \in Runs : ~Active(q) /\ ~(run[q].status = "cancelled" /\ run[q].stop)
    /\ run' = [run EXCEPT ![r].status = "running"]
    /\ UNCHANGED tasks

\* The tasks at which RegisterTask's loop over the batch returns.
Deciding(r, p) ==
    {t \in Current(r) :
        \/ tasks[r][t].status = "launching"
        \/ tasks[r][t].prompt = p /\ tasks[r][t].status \in {"interrupted", "failed", "running"}}

RegisterTask(r, p, t) ==
    /\ Active(r) /\ run[r].phase \in Collecting
    /\ \/ /\ Deciding(r, p) = {}
          /\ Cardinality(Current(r)) < maxResearchWorkersPerBatch
          /\ tasks[r][t] = NoTask
          /\ tasks' = [tasks EXCEPT ![r][t] =
                          [status |-> "launching", prompt |-> p, batch |-> Batch(run[r].phase)]]
       \/ /\ t \in Deciding(r, p) /\ \A u \in Deciding(r, p) : t <= u
          /\ tasks[r][t].prompt = p /\ tasks[r][t].status # "running"
          /\ tasks' = [tasks EXCEPT ![r][t].status = "launching"]
    /\ UNCHANGED run

\* Mutant: one worker that has finished finishes the batch.
SealBatch_AnyFinished(r) ==
    /\ Active(r) /\ run[r].phase \in Collecting
    /\ Cardinality(Current(r)) \in 1..maxResearchWorkersPerBatch
    /\ \A t \in Current(r) : tasks[r][t].status \notin {"interrupted", "launching"}
    /\ To(r, IF \E t \in Current(r) : tasks[r][t].status \in Finished
             THEN CompletedPhase(run[r].phase) ELSE WaitingPhase(run[r].phase))
    /\ UNCHANGED tasks

\* Mutant: a batch whose workers finished before it was sealed is waited for.
SealBatch_Waits(r) ==
    /\ Active(r) /\ run[r].phase \in Collecting
    /\ Cardinality(Current(r)) \in 1..maxResearchWorkersPerBatch
    /\ \A t \in Current(r) : tasks[r][t].status \notin {"interrupted", "launching"}
    /\ To(r, WaitingPhase(run[r].phase))
    /\ UNCHANGED tasks

SealBatch(r) ==
    /\ Active(r) /\ run[r].phase \in Collecting
    /\ Cardinality(Current(r)) \in 1..maxResearchWorkersPerBatch
    /\ \A t \in Current(r) : tasks[r][t].status \notin {"interrupted", "launching"}
    /\ To(r, IF \A t \in Current(r) : tasks[r][t].status \in Finished
             THEN CompletedPhase(run[r].phase) ELSE WaitingPhase(run[r].phase))
    /\ UNCHANGED tasks

BeginGapFill(r) ==
    /\ Active(r) /\ run[r].phase = "synthesizing"
    /\ To(r, "gap_fill_collecting")
    /\ UNCHANGED tasks

Complete(r) ==
    /\ Active(r) /\ run[r].phase \in {"synthesizing", "finalizing"}
    /\ run' = [run EXCEPT ![r].status = "completed", ![r].phase = "finalizing"]
    /\ UNCHANGED tasks

Resume(r) ==
    /\ run[r].status = "interrupted"
    /\ \A q \in Runs : ~Active(q)
    /\ run' = [run EXCEPT
                 ![r].status = "running",
                 ![r].phase = CASE @ = "waiting" -> "collecting"
                                [] @ = "gap_fill_waiting" -> "gap_fill_collecting"
                                [] @ = "synthesis_pending" -> "synthesizing"
                                [] @ = "final_synthesis_pending" -> "finalizing"
                                [] OTHER -> @]
    /\ UNCHANGED tasks

-----------------------------------------------------------------------------
(* What the sidecars report of the workers *)

Reported == {"running", "completed", "failed"}

TakesUpdates(r) == Active(r) /\ run[r].phase \in Collecting \cup Waiting

\* A batch with more tasks than it may have is an error.
Fits(r, updates) ==
    Cardinality(Current(r) \cup DOMAIN updates) <= maxResearchWorkersPerBatch

\* An update puts its task into the batch of the run's phase, whichever it was in.
Updated(r, updates) ==
    [t \in Tasks |->
        IF t \notin DOMAIN updates THEN tasks[r][t]
        ELSE [status |-> IF updates[t] = "running" /\ tasks[r][t].status \in Finished
                         THEN tasks[r][t].status ELSE updates[t],
              prompt |-> tasks[r][t].prompt,
              batch  |-> Batch(run[r].phase)]]

\* The updates finish a batch that is waited for: the parent is to be continued.
Ready(r, updates) ==
    /\ run[r].phase \in Waiting
    /\ \A t \in Tasks : LET task == Updated(r, updates)[t]
                        IN task.batch = Batch(run[r].phase) => task.status \in Finished

RecordWorkerUpdates(r, updates) ==
    /\ TakesUpdates(r) /\ Fits(r, updates)
    /\ tasks' = [tasks EXCEPT ![r] = Updated(r, updates)]
    /\ IF Ready(r, updates) THEN To(r, CompletedPhase(run[r].phase)) ELSE UNCHANGED run

Claimed(phase) == IF phase = "synthesis_pending" THEN "synthesizing" ELSE "finalizing"

ClaimContinuation(r) ==
    /\ Active(r) /\ run[r].phase \in {"synthesis_pending", "final_synthesis_pending"}
    /\ To(r, Claimed(run[r].phase))
    /\ UNCHANGED tasks

-----------------------------------------------------------------------------
(* Cancellation and interruption *)

\* The tasks of a run, those whose status is in "from" changed.
Ended(r, from, status) ==
    [t \in Tasks |-> IF tasks[r][t].status \in from
                     THEN [tasks[r][t] EXCEPT !.status = status] ELSE tasks[r][t]]

Cancel(r) ==
    /\ run[r].status \in {"running", "interrupted"}
    /\ run' = [run EXCEPT ![r].status = "cancelled", ![r].phase = "finalizing"]
    /\ tasks' = [tasks EXCEPT ![r] = Ended(r, Unfinished, "cancelled")]

SetWorkerStopUnconfirmed(r, unconfirmed) ==
    /\ run[r].status = "cancelled"
    /\ run' = [run EXCEPT ![r].stop = unconfirmed]
    /\ UNCHANGED tasks

MarkInterrupted(r) ==
    /\ Active(r)
    /\ run' = [run EXCEPT ![r].status = "interrupted"]
    /\ tasks' = [tasks EXCEPT ![r] = Ended(r, {"running", "launching"}, "interrupted")]

\* At start-up: InterruptRunning.
Recover ==
    /\ run' = [r \in Runs |-> IF Active(r) THEN [run[r] EXCEPT !.status = "interrupted"] ELSE run[r]]
    /\ tasks' = [r \in Runs |-> IF Active(r) THEN Ended(r, {"running", "launching"}, "interrupted")
                                ELSE tasks[r]]

-----------------------------------------------------------------------------
\* An update about a task the service does not know creates it.
Updates == UNION {[about -> Reported] : about \in (SUBSET Tasks) \ {{}}}

RunsNext ==
    \/ Recover
    \/ \E r \in Runs :
        \/ Start(r) \/ SealBatch(r) \/ BeginGapFill(r) \/ Complete(r) \/ Resume(r)
        \/ ClaimContinuation(r) \/ Cancel(r) \/ MarkInterrupted(r)
        \/ \E p \in Prompts, t \in Tasks : RegisterTask(r, p, t)
        \/ \E updates \in Updates : RecordWorkerUpdates(r, updates)
        \/ \E unconfirmed \in BOOLEAN : SetWorkerStopUnconfirmed(r, unconfirmed)

RunsSpec == RunsInit /\ [][RunsNext]_runVars

-----------------------------------------------------------------------------
RunRecord == [status : RunStatuses, phase : Phases, stop : BOOLEAN]
TaskRecord == [status : TaskStatuses, prompt : Prompts \cup {NoPrompt}, batch : 0..2]

\* Types.
RunsTypeOK == run \in [Runs -> RunRecord] /\ tasks \in [Runs -> [Tasks -> TaskRecord]]

\* While a run synthesizes, or is about to, no task of it is under way: whatever calls, late or
\* repeated updates, losses, resumptions and cancellations came before.
SynthesisWaitsForWorkers ==
    \A r \in Runs : run[r].phase \in Synthesis =>
        \A t \in Tasks : tasks[r][t].status \notin Unfinished

\* At most one run of the conversation is running, however starts and resumptions come together.
OneActiveRun == \A q, r \in Runs : Active(q) /\ Active(r) => q = r

\* A run that was cancelled or completed stays so and its tasks stay as they were, although its
\* workers go on reporting and its sidecar may be lost.
OverRunsStay ==
    [][\A r \in Runs : run[r].status \in {"completed", "cancelled"} =>
          run'[r].status = run[r].status /\ tasks'[r] = tasks[r]]_runVars
=============================================================================
