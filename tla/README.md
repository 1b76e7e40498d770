# Verification of MilkSU

MilkSU is a desktop workbench for agent-driven coding, security practice and research: an
Electron/React renderer, a Go backend, and *sidecars* - child processes that run the agent
turns. This directory holds TLA+ models of the parts whose correctness depends on what happens
in which order, the TLC runs that check them, and proofs that TLAPS checks.

- [The system](#the-system)
- [Modules](#modules)
- [The sidecar supervisor](#the-sidecar-supervisor)
- [The Pi bridge](#the-pi-bridge)
- [Model requests](#model-requests)
- [Research runs](#research-runs)
- [Restoring a backup](#restoring-a-backup)
- [Runs](#runs)
- [Where the code and its comments disagree](#where-the-code-and-its-comments-disagree)
- [Proofs](#proofs)
- [Plan](#plan)

## The system

| part | state it keeps | operations | hard behaviour |
|---|---|---|---|
| Sidecar supervisor, `internal/engine/supervisor.go` | active, parked and retiring processes; session → kernel, session → workspace; busy sessions, research workers and runs, waiters | send, relay, abort, fork, probe, archive, delete, switch workspace, replace or revoke credentials, restart, read a line, see a process exit | one mutex, one reader goroutine per process, report goroutines; a line is read after its process was stopped; credentials change under a turn |
| Background task recovery, `internal/engine/background_recovery.go` | waiters, reserved sessions | recover a session's tasks | a session known before it has a workspace |
| Pi bridge, `sidecar/pi/bridge.js`, `bridge-compaction.js` | command queue, sessions, prompt queues, marks of stops, compactions | prompt, relay, stop, compact, destroy, fork | one thread, but stops, answers and compactions overtake the queue at every await; two terminal lines of one turn |
| Renderer, `app/src/composables/useConversations.ts` | running and aborting conversations, restart receipts | send, stop, retry, restart | events in any order, events without a session |
| Request budget and hang guard, `sidecar/pi/bridge-request-budget.js`, `bridge-hang-guard.js` | alarms of a request | warn, kill, make progress | events, alarms and a stop in any order; a warning read after what it was about |
| Approval and steering, `sidecar/pi/bridge-approval.js`, `bridge-steering.js` | pending requests, grants, queues | request, respond, cancel | an answer racing an abort |
| Research, `internal/research`, `cmd/milksu-backend/app_research.go`, and the contexts of runs in `bridge.js` | runs, tasks, phases; contexts, list of subagents; detached worker processes | start, register, launch, seal, poll, report, continue, cancel, interrupt, resume | launches, reports, cancels and stops cross; workers outlive their sidecar |
| Companion, `internal/companion` | board, watches, deliveries | speak, dispatch, watch | delivery twice, a busy target |
| Collaboration, `internal/codingcollab` | peers, tasks, messages | delegate, report, cancel | one conversation waits for another |
| Application data, `internal/appdata` | home directory, backups, transaction file | back up, stage, restore, migrate | a crash between two renames |
| Plugins, `internal/plugin` | registry, packages, state | install, upgrade, roll back | one of several writes fails |
| Security runtime, `internal/securityruntime` | event log, projections | append, project, replay | projection behind its log |
| CTF, `internal/ctf`, `internal/nssctf`, `internal/ctfshow` | challenges, checkpoints, submissions | submit, checkpoint, project | a submission sent twice |
| Browser and computer capabilities, `internal/browsercap`, `internal/computercap` | grants, sessions | grant, revoke, act | revoked while acting |
| Environment broker, `internal/envbroker` | leases of lab environments | acquire, release, expire | leaked lease |
| The rest: settings, catalogues, stores, evaluation, shell, views | records | read, write | none of their own |

What makes each part correct: the *supervisor* loses no process, keeps one per workspace, never
stops one that works, routes every command to the process that runs the turn, starts no turn on
replaced credentials, and lets every turn come to an end the renderer hears of. The *bridge* ends
every prompt with a terminal line. The *renderer* shows as running exactly what runs. A *model request*
ends, and is killed only after the user was warned and had time to act. *Research*
and the *companion* do each thing once and leave no run without an owner. *Application data* and
*plugins* are after any crash in the state before or the state after. The *security runtime's*
projections agree with its log. *Capabilities* and *environments* are used only while granted.

The parts interact as follows. The renderer calls the backend (`cmd/milksu-backend`), which calls
the Supervisor; the Supervisor writes commands to a sidecar's stdin and never waits under its
mutex for an answer; a sidecar's stdout is read by one goroutine per process, which updates the
Supervisor's bookkeeping under the mutex and emits an event to the renderer. Research, companion
and collaboration call the Supervisor like the renderer does. Settings call
`InvalidateCredentials` when a save changes what a sidecar has in its environment, and
`StopStaleSidecars` when it revokes it.

## Modules

| module | what it is |
|---|---|
| `SidecarState` | the Supervisor's record and the functions its handlers are made of (`...Locked` in the code), as operators on the record |
| `SidecarSupervisor` | the component: one action per critical section, the sidecars, the pipes, the renderer's running set; all properties |
| `SidecarRotation` | the abstract specification: what callers may rely on about processes entering and leaving service |
| `MCSidecarSupervisor` | instances for TLC: values of the constants, and next-state relations that keep the actions one question is about |
| `SidecarSupervisorProofs` | theorems about what the Supervisor keeps (`SidecarSupervisor`), and their proofs |
| `SidecarServiceProofs` | theorems about how it serves: the refinement of `SidecarRotation`, where turns start, the limit of parked processes |
| `SidecarTurnsProofs` | theorems about turns in executions without the known losses: what works has a turn, what is shown as running can end, commands reach the process that runs the turn, counted research workers run, dispatches kill no process with work |
| `PiBridge` | the bridge inside one Pi sidecar: command queue, prompts, stops, approval cards, compactions |
| `PromptLifecycle` | the abstract specification of its prompt queues |
| `PiBridgeStops` | `PiBridge` with a history of what each stop found |
| `MCPiBridge` | its instance for TLC |
| `PiBridgeProofs` | theorems about `PiBridge`: its invariants; the refinement of `PromptLifecycle`; that a quiet conversation was reported on |
| `RequestBudget` | the guard of a model request: two alarms, the stream, the abort |
| `StallSign` | `RequestBudget` composed with the turns of a conversation, the lines about them and the renderer's stall sign |
| `RequestBudgetProofs` | theorems about `RequestBudget`, that `StallSign` implements it, and about the lines of `StallSign` |
| `ResearchRuns` | the research service: one action per method that writes |
| `ResearchWorkers` | `ResearchRuns` composed with the bridge's contexts and launches, its lines, the application's goroutines and the losses |
| `MCResearch` | its instance for TLC |
| `ResearchRunsProofs`, `ResearchWorkersProofs` | theorems about the service; that the composed system implements it, that a synthesizing run has no worker, and that a cancelled run without the mark has none |
| `HomeRestore` | restoring a backup into the home directory, under crashes and failing file operations |
| `HomeSwitch` | the abstract specification of it: one switch from the old data to the restored data |
| `MCHomeRestore`, `HomeRestoreProofs` | its instance for TLC; its theorems |

`SidecarSupervisor` extends `SidecarState` and instantiates `SidecarRotation`; `PiBridge`
instantiates `PromptLifecycle`; `StallSign` extends `RequestBudget`;
`ResearchWorkers` extends `ResearchRuns`; `HomeRestore` instantiates
`HomeSwitch`; the MC and proof modules extend their component; `SidecarServiceProofs` and `SidecarTurnsProofs`
extend an earlier proof module of their component, whose invariant they use.

How they fit: `SidecarSupervisor` sees a sidecar from outside, as commands in and lines out, and
assumes of it that a turn settles or fails. `PiBridge` is the inside of one sidecar, and shows that
prompts end and stops are answered if Pi's agent settles. `RequestBudget` is one level below: it
shows that the agent's requests end if the service ends a stream it was told to end.
`ResearchWorkers` is about what one conversation's agent, its bridge and the application do to a
research run; of the supervisor it keeps whether the session is registered and its sidecar lives,
and that lines are read in order while calls are handled beside the reader. A restore does
not interact with the others: it is applied before the Supervisor is constructed (`app.go:107`).

In the modules, an operator named `<Definition>_<Suffix>` is a mutant: the definition with a
plausible bug. No specification uses one; each is there to show that a property notices the bug.

## The sidecar supervisor

### State

| model | code |
|---|---|
| `sup.process`, `sup.parked`, `sup.retiring` | `process`/`dshProcess`, `parked`, `retiring` |
| `sup.order` | `parkedAt` and the order of the `retiring` slice, as a relation |
| `sup.child[p]` | `childProcess`: kernel, workspace, `retired`, `stale`, `retiredTurns`; `life` is the operating system's view; `idle` and `pastCeiling` say that a duration has passed |
| `sup.sessions`, `kernels`, `workspaces` | `sessions`, `sessionKernels`, `sessionWorkspaces` |
| `sup.busy`, `workers`, `runs` | `busySessions`, `researchWorkerTasks`, `researchRunSessions` |
| `sup.waiters` | the sessions with a probe or a recovery waiter |
| `sup.notices` | sessions a `report...Sessions` goroutine still has to tell |
| `bridge[p]` | what the sidecar knows and runs, and `out`, the lines of its stdout not read yet |
| `forks` | `fork_session` requests with a waiting caller |
| `sends` | messages between `BindSessionKernel` (`app.go:1559`) and `sendMessage`, with their workspace |
| `ui` | `runningIds` of the renderer |

### Actions

Each critical section of `Supervisor.mu` is one action. A message is two of them: its handler calls
`BindSessionKernel` (`app.go:1559`), which does nothing for a session that has a kernel, and then
`sendMessage` takes the lock again. Between the two an end of file, a restart, a removal or another
dispatch may forget the kernel, and `SendMessage` then goes to Pi (`kernelForLocked`, 1950). That the
renderer shows the conversation as running is in the first action: it does so before the request
(useConversations.ts:3264). A message without a bind is that of a probe (`app_eval.go:49` sends its
session's in the same way). In `SendMessage`, whichever step of `ensureKernelProcessLocked` applies
(reap, keep, park, evict, retire, take back, spawn) is part of the action, and so is the lookup of the
process the message goes to *after* all that. What a command makes the sidecar do happens when it
is written; what the sidecar says is a line in `out`. `ReadEvent` reads one line; as in the code
it applies the line to the session it names and does not ask whether the process still serves it.
`ProcessExits` happens only after the last line was read, as `readEvents` sees the end of file
last.

Time is three facts that may become true: a parked process has been idle long enough
(`IdleTimeout`, oldest first), a stale one has passed its busy ceiling (`BusyCeiling`), a fork's
caller has given up (`ForkTimesOut`).

### What is abstracted

- Prompts, tools, models and policies: a turn is a number in `turns`; it streams, settles or fails.
- Research workers are counted per session, the code keeps their task ids. A session is in
  `workers` iff its set of ids is not empty, for sidecars that start and end workers as a group.
- Ids of probes and forks are never reused in the code; the model reuses one when nothing mentions
  it any more. The same holds for processes.
- A conversation that runs is steered, not sent to; "edit and resend" and rewinding of a running
  conversation are left out, and so is the extra abort of a probe that timed out.
- The renderer takes the notice of a restart it asked for as a receipt, because its retry is later
  than its request.
- A conversation has one message on the way at a time, as the renderer waits for each.
- A recovery succeeds: a `create_session` that fails, whose error line takes the reservation back
  (background_recovery.go:66-70, 85-89; bridge.js:3345-3349), the failure remembered after its time
  limit, and a failed spawn of `RefreshBackgroundTasks` are left out. The refresh may happen without it.
- Not modelled here: `Close`, the waiters of compaction, handoff and rewind, steering queues,
  decision queries, the DeepSeek bridge's own event names. The workspace actions of research are in
  `ResearchWorkers`.

### Bounds

`Procs` (2-3) is the number of processes that may exist at once, `CanEnsure` the guard that one is
left; `MaxTurns` (1) the prompts one sidecar holds for one session; `MaxPipe` (1; 2 for the
follow-ups of `ending`) the unread lines after which a sidecar writes no more. With two sessions,
a limit of one parked sidecar and up to three workspaces, every branch of the code is taken: parking, taking back, evicting the oldest of
two candidates, skipping a busy one, retiring an active and a parked process, two retiring
processes carrying the same session. A pipe of one line is enough for a line to be read after its
process was stopped, and after the next turn of its session was sent.

`CHECK_DEADLOCK FALSE`: a supervisor with nothing to do rests, and bounded identities may run out.

The full `Next` exceeds what TLC can enumerate with enough sessions to be interesting, so each run
takes the actions its questions are about, and where one instance serves two questions, the
variable `question` of `MCSidecarSupervisor` says which of them an execution is about; the theorems
are about the full `Spec`. That a message is two steps multiplies the states, so each question also says
how far the two may be apart. `InTurn` (`opening`): one message is on the way, with anything in between.
`Undisturbed` (stops): the sidecars and the renderer go on, the Supervisor stays as it is. `AtOnce` (relays
and follow-ups): nothing happens in between. In the crashes question of `ending`, which is the one
`TurnsKeepTheirKernel` is about, the message of the DeepSeek Harness conversation is on the way while
sidecars crash, ends of file are read and the Pi conversation is sent to; the latter has no kernel to lose,
so its own message is dispatched at once, and one sidecar dies by itself at a time (`DeathByDeath`).
`LineByLine` and, for stops, `OneByOne` bound the unread lines further. `Punctual` leaves out only that a conversation is told late,
after its next message was bound, that its last turn was interrupted: the notice would take it off the
screen, as listed below. In `turns_end` a message on the way is followed by sends, turns and readers, and
`Startable` keeps a process id for it, so that the bound on `Procs` does not stop it for ever.

### Fairness

Only the run `turns_end` assumes any. `ReaderFairness`: a reader goroutine that has a line reads
it, a dead process's end of file is seen, report goroutines run (the Go scheduler; none of them
waits for anything but the mutex). `TurnFairness`: a turn whose sidecar lives settles or fails,
even when the pipe is full now and then; the bridge bounds its requests
(`sidecar/pi/bridge-request-budget.js`). It is strong fairness because `MaxPipe` disables the end
of a turn while a line is unread, which the code does not. `SendFairness`: the handler of a message goes on
from the bind to the dispatch, which either starts a turn or fails and says so.

## The Pi bridge

`bridge.js` is one process for the conversations of a workspace and has one thread. Commands wait
in `commandQueue`; `abort_session`, `approval_response` and `compact_session` are handled when their
line arrives (the handler of `input.on("line")`, 3259), between any two awaits of whatever the queue is doing. A
handler runs without interruption from one await to the next, and that is what an action is.

| model | code |
|---|---|
| `commandQueue`, `step` | the promise chain `commandQueue`, the await its first handler is at |
| `sessions`, `abortedSessions`, `compactionRuns`, `compactionRequestIds` | the maps and sets of the same names |
| `prompt[c][n]` | what has become of the n-th message of a conversation: in the queue, in `promptQueues`, waiting for a compaction, preparing, in `session.prompt`, after it |
| `stopping[c]` | the await `abortSession` is at |
| `pending`, `late` | the approval broker's requests; cancelled ones the user may still answer |
| `agent`, `signalled`, `compacting` | external: Pi's agent (idle, running, asking in a tool's hook), its abort signal, its compaction |
| `shown` | whether the lines and commands so far make the desktop show the conversation as running |
| `requested`, `answers` | number of compaction requests, history of their `compaction_end` lines |

Of Pi the model assumes what the bridge relies on: `session.abort()` returns when the agent is idle,
`session.prompt()` returns when the agent settled, an agent told to abort calls no more tools and
settles, disposing of a session ends its compaction. A failed step of a handler takes the error path
of the code (`SendFails`, `PromptThrows`).

Left out: fork, rewind, handoff, `create_session` as a command of its own, goals that keep a session
running after it settled, steering, follow-ups and their queue, workspace actions (those of
research are in `ResearchWorkers`), background tasks, grants, several cards at once, the compaction
after a turn, a disposal that throws, shutdown.

Bounds: `MaxPrompts` (2) messages and `MaxCompactions` (1) compactions per conversation. Two
messages are what it takes for a stop to find one running and one queued, or for a reload to meet a
prompt. `MCPiBridge` explores everything one conversation may meet (`question = "alone"`), and one
conversation with all of that beside a neighbour that sends one message, because they share the
command queue (`"beside"`).

Fairness: every continuation that is ready runs (the event loop); the handler of the first command
continues; a user answers a card (`Respond`: without it a turn rightly waits for ever, and only a
stop ends it); a compaction has a time limit (`CompactionFails`); an agent that could settle over
and over does (`SF` of `AgentSettles`), since its requests are bounded as the next section shows and
its tools by their guards.

`PromptsRunInTurn` is the refinement of `PromptLifecycle`: a message is accepted when it is sent,
runs while `session.prompt` does, and is over when its task ended, was dropped, or its session was
disposed of.

## Model requests

Every model request of a Pi sidecar goes through a guard (`createRequestBudgetGuard`). It warns
when the first byte, or the next event, is late, and only then arms the alarm that aborts the
request; every event clears both alarms.

| model | code |
|---|---|
| `warnTimer`, `killTimer`, `stage`, `warned` | the guard's variables; a timer that is 0 is due and not run yet |
| `expired`, `cut` | requests whose own controller, or whose `parentSignal`, was aborted |
| `inbox`, `sent` | events in the stream that the thread has not taken; external, events of the service |
| `turn`, `stopped`, `queued` | a turn runs, was told to stop, turns wait behind it |
| `lines` | what the bridge wrote and the renderer has not read |
| `running`, `engineWarned` | `runningIds`, `engineWarnedAtByConversation` of the renderer |
| `sinceWarning`, `heard` | history: ticks since the warning; a warning was read since a request was last seen to end |

Time passes in ticks. It may pass while an alarm is due or an event waits, as the thread may be
busy, so an alarm may find events that came before it, and events may find an alarm that is due.
The lines are those the bridge writes: a warning, a piece of text or thinking, the end of a request
or a turn, and lines of background work; pieces of a tool call are progress to the guard and write
nothing. `Retry` settles the turn in the renderer, stops it in the sidecar and sends the next one at
once; the old turn's lines are read after that.

Assumed of the thresholds: `BudgetAssumption`, whose last conjunct is the constraint the comment at
`killMaxMs` states (bridge-request-budget.js:36). The environment can override each threshold
alone, and `requestBudgetThresholds` does not enforce it.

Bounds: two requests, two events each, two turns, two unread lines, and thresholds of 1 or 2 ticks
that keep every order of the defaults (`TtfbMax` is reached by the one payload, 2). Fairness: timers
fire, the thread takes events and runs due alarms, the renderer reads lines, and a stream whose
signal was aborted ends. The service itself is free to send nothing.

Left out: the line `abortSession` writes by itself after the one of Pi (bridge.js:2646, 2667; it is in
`SidecarSupervisor`), the hang guard of tools, the renderer's own thresholds of silence and heartbeats, the
offer to restart the engine.

## Research runs

The agent of a conversation researches in runs: it starts a run, registers a task, launches a
detached worker with the task's prompt, and so on; then it seals the batch and its turn ends. When
the last worker of the batch is reported over, the application continues the agent, which completes
the run or fills gaps with a second batch.

| model | code |
|---|---|
| `run`, `tasks` | rows of `research_runs` and `research_tasks` |
| `contexts` | `researchRunContexts` of the bridge: pending tasks, workers with their task, baseline |
| `rows`, `launch`, `process` | `sessionSubagentTasks`; the launch the agent waits for; external: the detached processes |
| `halting`, `stopping` | `haltConversationSubagents` and `cancelResearchRunCommand` while they wait |
| `call`, `pipe`, `commands` | the agent's workspace action; lines and commands that are not read yet |
| `reading`, `cancelling` | where `recordResearchWorkerEvent` and the two `cancelResearchRun` are |
| `registered`, `sidecar` | the Supervisor has the session; its sidecar lives |

In `ResearchRuns` every method that holds the service's mutex is an action, and its callers may come
in any order. `ResearchWorkers` gives it the callers there are. A line is written by
`emitSubagentTasks` whenever the list changes (a launch begins, is refused, returns or fails; the poll
sees an end; a stop or a cancel ends a worker), once for each context. A workspace action is a line
too, but a goroutine handles it, so it may be handled after lines that came later. The cancel has
four steps in the application (read the tasks, cancel, flag, tell the sidecar), and in the bridge
waits for the workers it signalled. The agent is external: it does one thing at a time, and does not
act after an error was written. Faults: the turn fails with an error (`SessionFails`), the sidecar
dies, the application restarts, the database refuses an update; in all of them workers live on.
`CancelRequest` is one step for the cancel and the look-up of the session after it
(app_research.go:366-375): they differ only when the session is lost, which the properties except.

Assumed of the workers: the end of one is always seen. The bridge reads it from `status.json`
(pi-subagents-status.js:85-104), which an external package writes, and asks for no process id; "a worker
ends" means that it leaves its receipt. A worker killed without one stays running in the list, and a
stop that may not signal a worker (`skipped`, pi-subagents-stop.js:116-118, 161-163) is not modelled either.
Of the results `normalizeWorkerStatus` accepts, those the bridge sends are in the model (running,
succeeded, failed); cancelled and interrupted ones are not.

Left out: texts, sources, citations, reports, browser tabs, deletion of a conversation, calls that
time out, sidecars the Supervisor stops with lines unread, prompts registered twice in one batch by
different tasks (one prompt, `p1`, stands for all).

Bounds: `MaxPipe` (2) lines wait to be read, and `MCResearch` asks four questions of one instance:
a run with two workers and two batches (`collects`); one run after another, whose contexts live
side by side (`repeats`); a cancel by the user or the agent against a launch, an end, a second
cancel and a loss (`cancels`); a stop of the turn or a loss beside two workers (`loses`). The agent
makes no call that would be refused if it were handled at once; calls that have become refused when
they are handled remain.

Fairness: the reader reads and goes on, the loss of a sidecar is reported, the bridge judges
launches, sees their end and polls (an interval timer that runs while a worker lives), a stop's
grace ends, and workers end. The agent, the user and cancels need not do anything.

`SynthesisHasNoWorkers` and `StopsAreKnown` speak of the processes and hold of executions without a
loss and without a stop of the turn: the code does not keep them otherwise, see below. Whatever is
lost, stopped and cancelled, `SynthesisWaitsForWorkers` holds of the recorded tasks, and a waiting
run goes on unless a stop made the bridge forget its worker (`WaitingEnds`).

## Restoring a backup

The user confirms a backup (`StageBackupRestore`, app.go:982), the archive is copied into the home
directory as `pending.zip`, and the next start applies it before any store is opened
(`ApplyPendingRestore`, app.go:107): it extracts the archive, writes a transaction file, and for
each of the managed paths marks it as touched, moves what is there into a rollback directory and
the extracted data in its place. A second phase of the transaction file, `committed`, decides
whether an interrupted restore is finished or undone by the next start.

| model | code |
|---|---|
| `home`, `stage`, `rollback` | what each managed path holds in the home directory, `.milksu-restore-stage-*`, `.milksu-restore-rollback-*` |
| `work` | the name of the rollback directory: the working one or, afterwards, the snapshot's |
| `pending`, `disk` | `pending.zip`, `transaction.json` |
| `mem`, `pc`, `at`, `recovering` | the running process: its transaction, where it is, the index of its loop, whether it is in `recoverInterruptedRestore` |
| `before`, `backup` | history: the home when the program last ran, the contents of the archive |

Each file operation that another start could see is an action: the two renames of
`applyRestorePath`, each write of the transaction file, the removal of a restored path (which for a
directory may be seen half done, `torn`), each rename and removal of
`finalizeCommittedRestore`. `Crash` may happen after any of them; any of them may fail, and then
the action of the error path is taken, with the deferred removals of `ApplyPendingRestore`. A failed
write of the transaction file may have replaced it. At a start `Ensure` runs first and writes a
layout file if there is none, as the code does even while a restore is half applied.

`Spec` leaves out failures of the rollback that `ApplyPendingRestore` itself runs after another
failure (`UndoFails`), and a commit that is written but reported as failed (`CommitFailsLate`); the
code does not survive these. `FullSpec` has them.

Abstracted: the archive's validation, symbolic links, file contents, the migration of an older
layout (it rewrites the layout file of a home that is in the new layout already), and the
durability of renames under a power failure: a crash here is the end of the process. Directories
left behind by a crash before the transaction is written are not modelled; the code never removes
them. A restore that fails at every start keeps the program from starting, as `pending.zip` stays;
the liveness property assumes that failures end.

The instance has three paths, the layout file, a file and a directory, every home and every backup
made of them, several restores one after the other, and at most three crashes or failures. The
third is needed for a crash during a recovery after a failure during a restore. Fairness: the
running process takes its next step; the user ends the program and starts it again.

## Runs

| run | instance | properties |
|---|---|---|
| `opening` | 3 workspaces, 3 processes; streaming turns, idle time-outs, failing spawns; or credentials replaced under turns that move between two workspaces; or credentials replaced under research workers, 2 processes | `TypeOK`, `SidecarsAccountedFor`, `OneSidecarPerWorkspace`, `RunningCanEnd`, `WorkersAreAccountedFor`, `LiveTurnsAreReached`, `TurnsStartInTheirWorkspace`, `TurnsStartOnFreshCredentials`, `WorkIsSpared`, `ParkedBeyondLimitAreBusy` |
| `ending` | aborts, forced stops, failed model calls, a probe, recovered tasks; or a Pi and a DeepSeek Harness kernel whose sidecars die; or relays, forks, archive and delete, 2 processes; or the same in one workspace with follow-ups, beside research runs and their workers | `BusyHasATurn`, `LiveTurnsAreReached`, `StoppedRunsCanEnd`, `KernelsParkApart`, `TurnsKeepTheirKernel` |
| `turns_end` | rotation, busy ceiling, revocation, restarts, fair | `RotatesAsPromised`, `BusyEnds`, `RunningEnds` |
| `bridge` | one conversation alone, and beside a second one, fair | `TypeOK`, `CardsHaveAWaiter`, `CompactionsAnsweredOnce`, `TurnsHaveASession`, `QuietMeansSettled`, `PromptsRunInTurn`, `PromptsEnd`, `StopsAreAnswered`, `CompactionsAreAnswered` |
| `requests` | 2 requests, 2 turns, fair | `KilledAfterGrace`, `ExpiryIsAnnounced`, `DeadRequestsStaySilent`, `RequestsEnd` |
| `research` | 2 runs, 2 tasks, 2 workers, one loss, one cancel, one stop, fair | `SynthesisHasNoWorkers`, `SynthesisWaitsForWorkers`, `StopsAreKnown`, `WaitingEnds` |
| `restore` | 3 paths, up to 3 crashes or failures, fair | `TypeOK`, `NothingLost`, `OpensOnWholeHome`, `SwitchesAtomically`, `RestoreCompletes` |

What the first three show, taken together: whatever is parked, evicted, taken back, retired,
stopped or dies, no process is lost or held twice; nothing that works is stopped except past the
ceiling, by a revocation or by the reader; a turn starts in the workspace, on the kernel and (when
it comes through `SendMessage` after its predecessor settled) on the credentials it should; a
session that is busy, and a conversation shown as running, has a turn or something under way that
ends it. A property is checked where it holds; where the code breaks it, the next section says so.
`LiveTurnsAreReached` and `StoppedRunsCanEnd` say what `ControlReachesTurn` and `RunningCanEnd` say,
of the executions of some questions only: the code breaks them in those of the others.

`bridge` shows that in every order of stops, compactions, reloads, destructions, failed model calls
and answers: prompts of a conversation run one after the other in the order in which they were sent,
and never outside a session; every message, stop and compaction request gets its end; a tool that
waits for the user has a card, and a card a tool; and a conversation with nothing left to run is not
shown as running.

`requests` shows that a request is aborted only after a warning and a grace without an event, that
the renderer has read a warning when it reads that a request was killed, and that a request with a
silent service ends.

`research` shows that the parent's synthesis waits for every worker, those whose ends are reported
early, late or twice included; that after a cancel the application knows whether a worker may live;
and that no order of losses, stops and cancels leaves a run waiting for a report that cannot come.

`restore` shows that an interrupted or failed restore is finished or undone as a whole.

`RotatesAsPromised` is the refinement of `SidecarRotation`: `serving` is the process of a key,
active or parked, `leaving` the retiring ones, `revoked` the stale ones of both.
`SwitchesAtomically` is the refinement of `HomeSwitch`: the transaction file says whose data the
home holds, and without one the home itself.

## Where the code and its comments disagree

Each of these runs checks one property that quotes a comment, a test or a message of the program,
and TLC finds the behaviour that breaks it.

| run | what the code does |
|---|---|
| `v_crash` | `engine.stopped` names no session when an active sidecar dies, the renderer ignores it, and the conversations of that sidecar are shown as running. |
| `v_stop` | A stopped turn settles twice; the second line ends the bookkeeping of the conversation's next turn, whose sidecar may then be evicted. `observeTurnLifecycle` does not know which turn or process a line is about. |
| `v_stopped` | A prompt looks for the mark of a stop once, then awaits a compaction, a rewind or its attachments; a stop that comes meanwhile is answered, and the prompt starts. |
| `v_stall` | Pieces of a tool call withdraw the guard's warning and write no line, so the conversation stays shown as stalled, with Retry and Force stop, while its request makes progress. |
| `v_restore` | A path cannot be restored, then one cannot be put back: the deferred `RemoveAll` of the rollback directory (restore.go:210) deletes the old data that is still in it. |

Met while modelling, and the reason why some actions are not in the same run as some properties:

- A parked process that is stale is skipped when a command is routed (supervisor.go:840), so after
  credentials were replaced a stop for its turn goes to the active sidecar of another workspace,
  which answers "settled" for a conversation that goes on running (`ControlReachesTurn` under
  `Rotation`; supervisor.go:925 says that commands keep reaching the correct sidecar while a
  workspace is parked).
- `retiredTurns` never shrinks: a session whose turn settled on a retiring process is routed there
  again as soon as its next turn runs elsewhere (`ControlReachesTurn` under `Rotation`).
- The second settled line of a stopped turn takes the conversation's next turn off the screen. Once the
  conversation is then sent to in another workspace, commands go there and the turn that runs on cannot
  be stopped (`ControlReachesTurn` with `Aborts`, for a conversation that moves).
- A dispatch that evicts or reaps the sidecar its session was last bound to forgets the kernel just
  bound, and the message goes to Pi; the properties about turns except it by `KernelOf(sup', x)` and
  `sup'.kernels[x] = NoKernel`.
- A bind returns early when the session has a kernel (supervisor.go:776). If an end of file or another
  dispatch forgets that kernel before `sendMessage` reads it, the turn of a DeepSeek Harness conversation
  starts on Pi; the comment at supervisor.go:764 says that the first bind wins, so that a later send cannot
  swap the runtime. `TurnsKeepTheirKernel` excepts this as `Unbound`, and says what it takes to get there.
- A notice that a turn was interrupted takes the conversation's next message, already bound, off the
  screen, and its turn runs unseen until it streams (`Punctual`).
- Relayed and follow-up messages start turns on the active process although it is stale, which is why
  `TurnsStartOnFreshCredentials` speaks of sent ones; a retry aborts and sends at once, so its turn
  starts on the retiring process, in the old workspace and with the old credentials (`GoesOn`).
- An answered fork is on the kernel that answered it. A fork's row copies its source's kernel, but the
  command goes to Pi when the Supervisor has forgotten that (`x \in Forks` in `TurnsKeepTheirKernel`).
- A line in the pipe of a killed process marks its conversation as running again (`RunningCanEnd`
  with `Streams` and `Restarts`).
- Restarting a retiring process settles the busy sessions it carried, not those with research
  workers; a `research_tasks` line of a stopped process counts workers that are gone
  (`WorkersAreAccountedFor` with `Research` and `Restarts`).
- A conversation that is sent to in another workspace while its research workers run is no longer looked
  for where they are: once that process is parked and stopped, or dies, nothing takes them off the count
  (`WorkersAreAccountedFor` with `Research`, for a conversation that moves).
- A late settled line of an older turn takes a relayed turn out of `busySessions`; its parked sidecar
  is then evicted, and a `research_tasks` line still in the pipe counts its workers for ever, which
  pins the sidecars of that workspace (`WorkersAreAccountedFor` with `Relays` and three processes).
- With two workspaces a session between two batches of research workers does not count as work, and
  its sidecar may be evicted; the notice of that, when late, clears its running state.
- A stop that arrives while `createSession` fails leaves its mark, and the next message of the
  conversation is dropped and reported as settled although nobody stopped it
  (bridge-abort.js:7; its test calls the drop "once").
- A compaction requested after a prompt passed `waitForCompaction` runs while the prompt starts;
  bridge.js:2568 says that Pi never runs a prompt against a session that is mid-compaction.
- Heartbeats are written only around `session.prompt`, so a conversation that compacts before its
  prompt may be shown as having lost its engine.
- The late answer to a card that a stop cancelled is reported as an error of the conversation, which
  ends the run shown for its next turn.
- An agent that asks for a new card while a stop or a destruction halts subagents waits for the
  user, and the stop or the command queue with it. A reload does not cancel cards at all.
- `relay_message` is awaited in `commandQueue`: while a relayed turn runs, messages to every other
  conversation of the sidecar wait.
- A restart receipt (`restartRequestedAtById`, useConversations.ts) stays set when `RestartEngine`
  finds no process, and a later `engine.restarted` of another cause may be taken for it.
- A warning read after the renderer settled its turn by itself marks the next run; a line of
  background work clears the mark of a request that is still silent (`StallSignIsTrue`, also).
- `haltConversationSubagents` reads the list of subagents, waits for those it signalled and writes
  the list back (bridge.js:637-659); `abortSession` waits for it before it stops the agent, which may
  launch a worker meanwhile. The bridge then forgets that worker: its run waits for ever, or
  synthesizes while it works, or its cancel confirms that it stopped (DeepResearchStatusCard.tsx:369
  promises that a new run is blocked until a stop is confirmed).
- A stop cancels the workspace actions of every conversation of the sidecar
  (bridge-workspace.js:282), and the answer to a cancelled action is an error of its conversation
  (272), which unregisters the session and interrupts its run.
- After a loss, a resumed run registers its interrupted task again and it counts as launching while
  its old worker lives; a cancel then asks for no stop, and a new run may start beside the worker
  (app_research.go:359; a test at app_research_test.go:308 calls that a failure).
- Registering a failed task again in the same sidecar sets it to launching, but the bridge knows the
  task's id and ignores it: its launch is refused (bridge.js:542, bridge-subagent-yield.js:593).
- The second of two cancels ("Retry stop") finds no context and reports the stop as unconfirmed;
  nothing confirms it afterwards, and a cancelled run cannot be resumed, which
  current-objectives.md:86 names as the way out.
- A cancel handled before the answer to Start or Resume arrives leaves an open context of a
  cancelled run; a Start handled after its sidecar died leaves a running run that no sidecar knows.
- An update puts its task into the batch of the run's present phase, so a line about the first batch
  that is read after the gap filling began moves its task into the second (service.go:322).
- An interrupted `finalizeCommittedRestore` that is repeated after its snapshot was renamed reports
  a `RollbackPath` that does not exist (restore.go:405).

## Proofs

### The supervisor

`SidecarSupervisorProofs` proves, for every set of kernels, workspaces, sessions and processes and
for every value of the bounds, of the full `Spec`:

- `TypeCorrect`: `[]TypeOK`;
- `NoSidecarLost`: `[]SidecarsAccountedFor`;
- `NoSecondSidecar`: `[]OneSidecarPerWorkspace`.

They use the assumptions of the modules: the sets of processes and workspaces are finite
(the evictions count them), the "none" values are not members, `KernelPi` is a kernel, the bounds
are natural numbers.

The argument. `IInv == TypeOK /\ SidecarsAccountedFor` is inductive. `SidecarsAccountedFor` is a
conjunction of seven parts, and none is inductive alone: a process parked under its own key
(`ParkedMatches`) goes back to the slot of the right kernel only because the key says what it
runs; the slot may be overwritten by a spawn only because `Prepared` leaves it empty; that no
process gets two places (`PlacesDisjoint`) needs that a new one comes from those with no life,
and that what has a place is not without life. Every helper of `SidecarState` is a function from
records to records, so the proof has one lemma per helper, `Good(s)` in and `Good(result)` out,
in the order in which the code calls them (remove from a place, park and evict, retire, take back,
spawn, ensure), then one lemma per group of actions, and `NextIInv` joins them.
`NoSecondSidecar` follows from `IInv` without another step of induction: two processes in rotation
that run the same workspace for the same kernel are both the parked one of that key, or both the
active one of that kernel, or one of each, which `ActiveNotParked` excludes.

`SidecarServiceProofs` proves, of the same `Spec`, every action property the runs check of it but
`WorkIsSpared`, which the code breaks in the ways below:

- `RotationImplemented`: `RotatesAsPromised`, the refinement of `SidecarRotation`;
- `TurnsInTheirWorkspace`: `TurnsStartInTheirWorkspace`; `TurnsOnFreshCredentials`:
  `TurnsStartOnFreshCredentials`; `TurnsOnTheirKernel`: `TurnsKeepTheirKernel`;
- `KernelsApart`: `KernelsParkApart`; `LimitHolds`: `ParkedBeyondLimitAreBusy`.

One assumption is added, `PiOnlyAssumption`: research and background tasks belong to conversations of
Pi, as the DeepSeek Harness has neither.

The refinement. A critical section is a chain of operators. `Sheds(s, t)` says what each of them but
the start of a process can do: none enters rotation, one that begins to retire was stale, none changes
what it runs. It is transitive (`ShedsTrans`), so there is one lemma per operator. `Rotates` is a
shedding followed by at most one start, in a place `Prepared` left free; `RotatesMaps` turns that into
a step of the abstract specification, and `NextRotates` shows that every action does it.

The turns. That a message goes where it should needs no invariant beyond `IInv` for workspaces and
credentials: `EnsureKernelProcess` ends with an active process of the kernel and workspace just bound
that is not stale, and `ProcessForSession` finds that one or a retiring one that carries the session.
Kernels need `KernelInv`, because a relayed turn starts where the session was bound before: a session
is bound to its conversation's kernel or to none, or is a fork and bound to Pi (`KernelsKept`); the
turns a retiring process carries are of its kernel, unless that is Pi (`TurnsKept`); a fork that is
asked for is of its origin's kernel (`ForksKept`). Nothing is assumed of a message on the way: if its kernel
is gone, the property says so (`Unbound`), and its second half, that a kernel on the way is lost only with
a session at work, known or removed, follows from what each operator forgets (`Overlooks`). `WhoStarts` says which actions start a turn at all:
only a message sent and a message relayed, on the process `ProcessForSession` finds.

The limit. `KernelsApart` follows from what each operator can do to one kernel's places (`Within`,
transitive again). `LimitHolds` is about an eviction that goes from the oldest parked process on until enough are gone;
`OrderInv` adds to `IInv` that `order` is a strict partial order in which only parked processes, or only
retiring ones, are compared (`Ordered`). If an idle process is kept, one of those is first in that order
(`KeptAreBusy`, by the well-foundedness of strict inclusion of finite sets); all the idle ones older
than it are gone, and as they were not enough to make it go, no more than the limit remain. The rest
shows that every step that parks evicts, and that the others park nothing (`Unparks`).

`SidecarTurnsProofs` proves `BusySteadily`: `[]BusyHasATurn` of `SteadySpec`, whose steps are all steps of
`Next` that keep three conditions. They leave out the three ways, of those listed above, in which the
code loses track of a turn, and nothing else; with them `BusyHasATurn` is false:

- `Matched`: every session the Supervisor has is on the kernel of its conversation. A dispatch that
  evicts the sidecar its session was bound to forgets the kernel, and the message goes to Pi;
- `Unrestarted`: no retiring process was told to stop. `RestartEngine` may take one that still carries
  turns, and settles only those of its own workspace;
- `RelaysInPlace`: a relayed message starts its turn in a process its conversation works in. Commands
  skip stale parked processes, so after new credentials it may start anywhere.

One assumption is added, `ForksAssumption`: what is recovered was left behind by an earlier run, and a
fork is new. `BusyHasATurn` says that a turn *somewhere*, or a line, belongs to each busy session, which
is not inductive: a turn in a process the session no longer belongs to ends without anybody being told.
`SteadyInv` therefore says where (`Houses`): the process of the session's kernel and workspace, or the
retiring one that carries it, is dead, or has the turn, unless the line that ends the turn is written and
not read (`Attended`). Each helper of `SidecarState` is shown to guard the sessions it keeps
(`Guards`: none is new, none moves, each stays in the process that houses it, and no process comes to
life under it; transitive again) and to tell those it drops (`Tells`), in the order of the code; a stop
drops exactly the sessions housed in what it stops. What the sidecars do is described by the lines they
write and the turns they start and end (`Does`), what the reader does by the line it takes (`Reads`). The
invariant needs that a retiring process carries sessions of its own kernel (`Carried`), and that a fork
that was asked for is still unknown, and no message to it is on the way, when its answer comes
(`ForksPending`). That a kernel is forgotten between the halves of a message is in these executions, as
long as the dispatch that follows finds the conversation's own (`Matched`).

`CalmRunsEnd` proves `[]RunningCanEnd` of `CalmSpec`: steady executions that leave out the further ways,
listed above too, in which the renderer shows a conversation nothing will settle. No sidecar dies by
itself (its exit tells only research sessions); no late line shows a conversation as running that is not
at work (`Shown`); none is archived while it is shown, or is shown again before the line about its
removal was read (`Unremoved`). `CalmInv` says that what is shown is busy, has a notice on its way or is
about to be sent to, so that `BusyHasATurn` applies, and that every process the Supervisor holds is alive and was not told to stop
(`AllLive`): the exits that are read are then those of processes it stopped itself, after it told their
sessions. That each step tells the shown sessions it takes out of `busySessions` (`Told`) is the second
half of `Cares`, proved along with the first.

`ControlAtHome` proves `[]ControlReachesTurn` of `HomelySpec`: steady executions in which credentials are
not replaced, and no conversation moves to another workspace, by a message or as the answer to a fork,
while a turn of it runs (`MovesIdle`). In the code both leave a turn where `processForSession` does not
look. With nothing stale nothing retires (`Current`), so `BusyCeiling` and `StopStaleSidecars`
never act there; sends, relays, parking, eviction, restarts, crashes, removals, forks and recovery all do.
`Seated` is the invariant, of every turn and not only those of busy sessions: it runs in a live process
in rotation whose kernel and workspace are those of its session. Each helper is shown to
leave a session where it sits as long as that process lives (`Anchors`), the forgetful ones because what
they forget sat in what they stop; and because a kernel and a workspace have one process
(`OnePerKey`), which is the one found (`SitsFinds`), a removal finds the turn it has to end.

`WorkersStaffed` proves `[]WorkersAreAccountedFor` of `StaffedSpec`: steady executions in which no
conversation changes its workspace while workers of it are counted (`WorkersStay`), and a `research_tasks`
line is read only while its conversation belongs to the process that wrote it (`HeardInPlace`: neither the
line of a process that was stopped since nor a late settled line, both listed above, leaves workers
counted that nobody runs). Credentials are replaced, processes retire, are stopped and crash, sessions are
parked, evicted, restarted, forked, removed and recovered. The invariant `Staff` has two halves. Of the
workers that are counted: a process that houses their session runs them or is dead, or the line of their
end is written (`Employed`). Of those that will be: a line that counts workers is about ones that run, or
the line of their end follows it in the pipe (`Honest`), because reading it must establish the first half,
not only preserve it. That counted workers stay housed is what `Guards` says of all sessions at work, so
the lemmas of `BusySteadily` about the helpers serve here too. Each helper is also shown to count nobody
new (`Retains`) and to leave every process that was started alive or dead (`Lingers`), and each step of
a sidecar to write what becomes of its workers (`Heeds`).

`WorkSpared` proves `WorkIsSpared` of `SparingSpec`: staffed executions that leave out the other ways in
which work is stopped, or the Supervisor loses sight of it:

- no sidecar crashes, and none is stopped on request or past a ceiling (`RestartEngine`,
  `StopStaleSidecars`, `BusyCeiling`). These kill what works, and are meant to;
- no conversation moves to another workspace while a turn of it runs (`MovesIdle`), and workers are
  counted only where they run (`CountedInPlace`);
- a line that ends a conversation's turn is read only once no turn of it runs (`EndsInTime`), and what is
  removed has no turn but the one the command reaches (`RemovesAll`). Otherwise something runs in a process
  the Supervisor holds to be idle, and parking or the idle time-out may kill it.

What is left are the dispatches themselves, idle time-outs and the replacement of credentials: sends,
relays, parking, eviction, retirement and its reaping, take-back, forks, removals and recovery.
`SparingInv` says that every turn is one of a busy session, runs in a live process and in the one that
houses the session, and that counted workers do too (`Lodged`). A dispatch chooses what it stops by
`busySessions` and by the counted workers, so by `Lodged` each stop has to be shown to take only
processes that house nothing at work (`Spares`). The hard one is `ReapStale`: the code walks through the
retiring processes and each stop forgets sessions, so a later process might be taken for idle because an
earlier one was stopped. It is not: an idle process carries no session at work, so what its stop forgets never was
(`ForgetNothing`), and with no process past its ceiling the first of those stopped by mistake, in the order
of their retirement (`Queued`), could only be stopped for what an earlier one forgot (`ReapStaleSpares`).
Workers are started by a turn and by nothing else (`WhoHires`).

### Restoring a backup

`HomeRestoreProofs` proves of `Spec`, for every number of managed paths, every choice of the
directories among them and every number of crashes and failures:

- `RestoreTypeCorrect`: `[]TypeOK`;
- `RestoreLosesNothing`: `[]NothingLost`;
- `RestoreOpensOnWholeHome`: `[]OpensOnWholeHome`;
- `RestoreSwitchesAtomically`: the refinement of `HomeSwitch`.

Assumed: there is a path, and the first, the layout file, is not a directory.

The argument. None of these is inductive: whether a path can be put back depends on what the
transaction file says of it. The invariant therefore has one part per phase on disk (`NoneInv`: the
home is whole; `ApplyingInv`: every path is as it was, or is marked and its old data is in the
rollback directory, `Recoverable`; `CommittedInv`: every path is restored and all old data kept),
and one part per loop of the running process (`LoopInv`, `UndoInv`), which relates the paths below
and above its index. A crash is then harmless because the part about the disk does not mention
the process. That a path is marked *before* it is moved is what `Mark` and `Move` preserve
`Recoverable` by. The undo loop ends with every path as it was, so forgetting the transaction
re-establishes `NoneInv`; the apply loop ends with every path placed, so the commit establishes
`CommittedInv`. The refinement takes one more fact, `RestoredDiffers`: the home of before and a
restored one differ in the layout file, so a home without a transaction is never both.

### Model requests

`RequestBudgetProofs` proves of `Spec` of `RequestBudget`, for every number of requests and events,
every set of payloads and all thresholds that satisfy `BudgetAssumption`:

- `BudgetTypeCorrect`: `[]TypeOK`, where the alarms stay within `KillMax`;
- `KillsOnlyAfterGrace`: `KilledAfterGrace`;
- `NoLateAlarms`: `DeadRequestsStaySilent`;

and of `SignSpec` of `StallSign`, for any number of turns and lines too:

- `TurnsKeepTheGuards`: `Spec` of `RequestBudget`, so all of the above holds of the composed system,
  which is what the run `requests` checks;
- `KillsAreAnnounced`: `ExpiryIsAnnounced`.

The argument. That a request is warned about when its hard alarm is due says nothing of how long
ago; the invariant is that the time since the warning and the time left on the hard alarm add up to
at least the grace, for every request whose hard alarm is set. It is established by `Warn`, and
only because `HardDeadline` leaves room for the grace, which is where the constraint on `KillMax`
is used. The other half is that alarms are set only for open requests.

`ExpiryIsAnnounced` is about a line in a pipe. The invariant `EndsAreAnnounced` says of every "expired"
line that what stands before it, or what was read already, has a warning with no end after it, and the
same of the whole pipe while a request that was warned about or killed is open. Writing an end keeps
it because nothing else is open then (`InTurn`: requests are made one after the other).

### Research runs

`ResearchRunsProofs` proves of `RunsSpec`, for every number of runs and tasks, every set of prompts
and every batch limit (`ResearchAssumption`), with the methods called in any order:

- `RunsTypeCorrect`: `[]RunsTypeOK`; `SynthesisAlwaysWaits`: `[]SynthesisWaitsForWorkers`;
- `AtMostOneActiveRun`: `[]OneActiveRun`; `OverRunsAlwaysStay`: `OverRunsStay`.

`ResearchWorkersProofs` proves of `Spec` of `ResearchWorkers`, for every number of workers, losses,
cancels and stops: `WorkersMakeCalls`, that every step changes the database by one method of the
service or not at all, and from it `SynthesisWaitsForItsWorkers`; and `WorkersEndBeforeSynthesis`,
`[]SynthesisHasNoWorkers`: not only the recorded tasks, the processes have ended; and
`StopsAreAlwaysKnown`: `[]StopsAreKnown`.

The argument. That a synthesizing run has no task under way is not inductive: a batch is sealed, or
found finished, by its own tasks, and the tasks of the other batch could be anything. The invariant
adds that no task is in the second batch before that is collected, that the tasks of the first are
finished from then on, and that a task in no batch was never registered (`Orderly`). An update may move a task between batches and
only to a state that is its own or reported, which keeps it. The refinement needs one invariant of
the application, that the calls, reads and cancels under way are about runs there are.

`WorkersEndBeforeSynthesis` is about four places that know of a worker: its process, the bridge's
list, the context that has given it a task, and the service's task. `WorkersInv` ties each to the
next. A process that is alive is running in the list (`RowsTellProcesses`) and works on a task of its
run's context, as long as the run is not over (`ProcessesHaveTasks`); the task of a worker that is
running in the list is unfinished in the service and no line that is not read will finish it, and no
line at all is about a task that waits for its worker (`ContextsFit`). Then no process of a run lives
when none of its tasks is under way. What makes this inductive is about the agent's call. A task may
be registered again after its worker failed, while the bridge does not have it any more: nothing
about it may then be in the pipe, or its next worker would be taken for finished. Nothing is, because
the lines written before the call are read before it is handled (`RegistersAreNew`). An answer that is on
its way replaces contexts, and what it is about must still be so when it arrives (`AnswersAreSound`:
a run that is started or goes into its second batch has no live worker). Until it arrives the running
run may have no open context, but the agent does nothing else (`ActiveIsOpen`, `OneThingAtATime`). Cancels
drop contexts with live workers only of cancelled runs (`StopsAreOfCancelled`). `SynthesisInv` is
this as long as there was no fault. A step that writes what the bridge knows is shown to keep it by
what it does to each context (`Settled`, `Grows`) and with which lines (`ComeFrom`), a method of the
service by what it does to each run (`RunsMoveOn`).

`StopsAreAlwaysKnown` is about a run that is cancelled while workers are launched, bound, ending and
reported. The cancel is recorded first, then the run is marked, then the bridge is told, which signals
the workers, waits, and writes how that went; the line becomes the mark when it is read. `StopsInv`, kept
together with `WorkersInv` as long as there was no fault, says: a cancelled run that has a worker in the
bridge's context, or a task waiting for one, or one whose registration the bridge has not heard of
(`Unstopped`), is about to be stopped (`Stopping`: a cancel on its way in the application or in the pipe,
or one the bridge carries out), or is left marked by the lines that are not read (`StopsAreTold`). The
mark itself is not enough: several stops of one run write lines one after the other, and the last one
decides (`Marked`). A live process of a cancelled run is always in the context (`CancelledHaveTasks`),
although contexts are replaced and dropped. A stop whose context was replaced while it waited looks at
the new one and leaves it alone; it may confirm, because a replaced context waits for no worker
(`ReplacedAreIdle`). And no cancel finds the session gone after it recorded itself (`CancelsSignal`). An
answer to a registration that comes after the cancel makes a run busy again: the worker was counted
before, through the call. TLC checked `StopsInv` on an instance before it was proved.

### The Pi bridge

Every safety property the run `bridge` checks is proved of `Spec` of `PiBridge`, for every set of
conversations and any number of prompts and compactions (`BoundsAssumption`: they are natural
numbers):

- `BridgeTypeCorrect`: `[]TypeOK`; `CardsAlwaysHaveAWaiter`: `[]CardsHaveAWaiter`;
  `CompactionsAlwaysAnsweredOnce`: `[]CompactionsAnsweredOnce`; `TurnsAlwaysHaveASession`:
  `[]TurnsHaveASession`;
- `PromptsAlwaysRunInTurn`: `PromptsRunInTurn`, the refinement of `PromptLifecycle`;
- `QuietAlwaysMeansSettled`: `[]QuietMeansSettled`.

The argument. `BridgeInv` is inductive. Cards need nothing else. For compactions it says that
the request that is to be reported to is that of the run (`RequestsFit`): when the run gives up and
the two differ, there is nothing to report. That an agent has a session is a fact about its prompt
(`TasksHaveASession`), and a prompt gets its session from the handler: one that configures a session
still holds it (`HandlerInv`), since only the handler disposes of sessions. A running prompt is kept
because what the handler takes up is a message that was sent and waits in the queue once
(`SentOnce`). Each part has one lemma with a case per action, and frame lemmas say what an action
that leaves its variables alone keeps.

For the refinement the queue must hold every message that waits, in the order of its conversation
(`QueueHoldsSent`, `QueueInOrder`); so the one at its head is the first that waits (`HeadIsFirst`),
prompts are taken up in the order they were sent (`SentInOrder`), and a task that has begun has only
prompts that are over before it (`TasksInTurn`). Two running prompts would each be before the other.
Each step is then classified by what it does to the queue and the prompts (`WhatChanges`), and each
class is a step of `PromptLifecycle` or changes no phase.

`QuietMeansSettled` is not inductive because of the marks of stops: a prompt that is queued keeps
its conversation shown, but a mark will cancel it without a line. The invariant `QuietInv` therefore
counts a prompt, and a message that is being configured, only where no mark stands; the stop that
left the mark is then still to be answered, or has been and the conversation is not shown. Likewise
the handler of a relay does not count: the agent's settling is its report.

### Not proved

Liveness (`BusyEnds`, `RunningEnds`, `RestoreCompletes`, `PromptsEnd`, `StopsAreAnswered`,
`CompactionsAreAnswered`, `RequestsEnd`, `WaitingEnds`) is out of the prover's reach and stays with TLC.

`RunningCanEnd`, `WorkersAreAccountedFor`, `BusyHasATurn`, `LiveTurnsAreReached`, `StoppedRunsCanEnd` and
`WorkIsSpared` are not true of the full `Spec` of the supervisor: the code breaks each of them under
some of its actions, in the ways listed above, so they cannot be theorems of it. They hold of the
instances of `MCSidecarSupervisor`, which keep the actions one question is about. Of these, `BusyHasATurn`
is proved of `SteadySpec`, `RunningCanEnd` of `CalmSpec`, `WorkersAreAccountedFor` of `StaffedSpec`, and
what `LiveTurnsAreReached` says, `ControlReachesTurn`, of `HomelySpec`, and `WorkIsSpared` of
`SparingSpec`. These specifications restrict the whole `Next`, where the runs keep fewer actions instead.
`StoppedRunsCanEnd` is `RunningCanEnd` as one run asks it, of its own choice of actions, and has no theorem
of its own.

## Plan

1. The supervisor: **done**, with the gaps listed above. Next: `Close`, the waiters of compaction,
   handoff and rewind, and decision queries.
2. `HomeRestore`: **done**, with its proofs.
3. Proofs about the supervisor: **done** for everything that is true of its full `Spec`,
   and `BusyHasATurn`, `RunningCanEnd`, `ControlReachesTurn`, `WorkersAreAccountedFor` and `WorkIsSpared`
   of executions without their known losses.
4. `PiBridge`: **done** with the gaps listed above, and its safety proved. Next: the steering and
   follow-up queue, goals, fork and rewind.
5. `RequestBudget`, `StallSign`: **done**. Next: the hang guard of tools, and the renderer's restart
   offer composed with `RestartEngine`.
6. `ResearchRuns`, `ResearchWorkers`: **done** with the gaps listed above, and the service's safety
   proved, with `SynthesisHasNoWorkers` and `StopsAreKnown`. Next: deletion of a conversation.
7. `CompanionDispatch`: idempotent delivery, gate and watch.
8. `PackageInstall`: the plugin package transaction; the same abstract specification as a restore.
9. `HomeMigration`: the journal of the layout migration.
10. `EventProjection`: the security runtime's log and its projections; `Submission` of CTF.
11. Collaboration, capabilities, environment leases.

Theorems worth proving of the planned modules: one delivery per key (7), the package transaction as for a restore (8).

Not planned: catalogues, feeds, formatting, views, drivers, benchmarks - input and output without
a protocol - and the installers of sidecars.
