--------------------------- MODULE ResearchWorkers ---------------------------
(***************************************************************************)
(* The research runs of a conversation and the workers that do them: the    *)
(* service's runs (ResearchRuns), the contexts and the list of subagents    *)
(* the Pi bridge keeps (src/sidecar/pi/bridge.js), the lines it writes, and  *)
(* the application that reads them, handles workspace actions, cancels runs  *)
(* for the user and hears of lost sidecars (app_research.go, app.go).        *)
(*                                                                         *)
(* A workspace action is a line like the others, but a goroutine handles it  *)
(* (supervisor.go:3670).  Workers are detached: they outlive their sidecar.  *)
(* A reader reads all lines of its sidecar before it reports the loss.       *)
(*                                                                         *)
(* The agent is external.  It does one thing at a time: a research call, or  *)
(* the launch of a worker; a call that was given up is over before the next. *)
(* A refused call is answered "failed".  Calls that time out, browser tabs,  *)
(* and sidecars the Supervisor stops with lines unread are left out.         *)
(***************************************************************************)
EXTENDS ResearchRuns, Sequences

CONSTANTS
    MaxWorkers, MaxLosses, MaxCancels, MaxStops  \* bounds: launches, lost sessions, the user's cancels and stops

Workers == 1..MaxWorkers
Cancellers == {"user", "agent"}
NoRun == 0
NoWorker == 0

NoContext == [state |-> "none", pending |-> {}, baseline |-> {}, stopUnconfirmed |-> FALSE,
              task |-> [w \in Workers |-> 0]]
NoRow == [state |-> "none", prompt |-> NoPrompt]
NoProcess == [state |-> "none", run |-> NoRun]
NoLaunch == [worker |-> NoWorker, prompt |-> NoPrompt, allowed |-> FALSE]
NoHalt == [under_way |-> FALSE, rows |-> [w \in Workers |-> NoRow], signalled |-> {}]
NoCall == [stage |-> "none", action |-> "none", run |-> NoRun, prompt |-> NoPrompt, task |-> 0,
           heard |-> TRUE]
NotReading == [step |-> "none", run |-> NoRun]
NoCancel == [step |-> "none", run |-> NoRun, needed |-> FALSE, signal |-> FALSE]

VARIABLES
    contexts,    \* researchRunContexts; "open", or "cancelled"
    rows,        \* sessionSubagentTasks
    launch,      \* the launch the agent waits for
    halting,     \* haltConversationSubagents, and the rows it read before it waited
    stopping,    \* cancel commands the bridge carries out
    process,     \* the detached process of each worker, and the run whose task it does
    sidecar,     \* it runs and has the conversation's session
    registered,  \* the Supervisor has the session
    pipe,        \* lines that are not read yet
    commands,    \* cancel commands the bridge has not read yet
    reading,     \* what the reader still has to do about a line
    call,        \* the agent's workspace action
    cancelling,  \* cancels under way in the application
    losses, cancels, stops

bridgeVars == <<contexts, rows, launch, halting, stopping>>
appVars == <<reading, cancelling, registered>>
bounds == <<losses, cancels, stops>>
workerVars == <<bridgeVars, appVars, process, sidecar, pipe, commands, call, bounds>>
vars == <<runVars, workerVars>>

Init ==
    /\ RunsInit
    /\ contexts = [r \in Runs |-> NoContext]
    /\ rows = [w \in Workers |-> NoRow]
    /\ launch = NoLaunch /\ halting = NoHalt /\ stopping = {}
    /\ process = [w \in Workers |-> NoProcess]
    /\ sidecar = TRUE /\ registered = TRUE
    /\ pipe = <<>> /\ commands = <<>>
    /\ reading = NotReading /\ call = NoCall
    /\ cancelling = [by \in Cancellers |-> NoCancel]
    /\ losses = 0 /\ cancels = 0 /\ stops = 0

-----------------------------------------------------------------------------
(* emitResearchTaskUpdates: each context takes the workers launched with its pending prompts, and
   writes a line about all workers it has.  "l" is the list of subagents, "c" a context of run r. *)

Live(l, w) == l[w].state \in {"start", "running"}
StillRunning(c, l) == \E w \in Workers : c.task[w] # 0 /\ Live(l, w)

\* Worker w takes the pending task t: it is the first new one with the task's prompt.
Takes(r, c, l, w, t) ==
    LET New(v) == /\ c.task[v] = 0 /\ v \notin c.baseline
                  /\ l[v].state # "none" /\ l[v].prompt = tasks[r][t].prompt
    IN  t \in c.pending /\ New(w) /\ \A v \in 1..(w - 1) : ~New(v)

\* assignResearchSubagentTaskID
Assigned(r, c, l) ==
    [c EXCEPT !.pending = {t \in @ : \A w \in Workers : ~Takes(r, c, l, w, t)},
              !.task = [w \in Workers |->
                  IF \E t \in Tasks : Takes(r, c, l, w, t)
                  THEN CHOOSE t \in Tasks : Takes(r, c, l, w, t) ELSE @[w]]]

Over(c, l) == c.state = "cancelled" /\ ~StillRunning(c, l) /\ c.pending = {}

AfterEmit(r, c, l) ==
    IF c.state = "none" \/ Over(Assigned(r, c, l), l) THEN NoContext ELSE Assigned(r, c, l)

Line(kind, r, updates) == [kind |-> kind, run |-> r, updates |-> updates]

Status(state) ==
    CASE state = "succeeded" -> "completed" [] state = "failed" -> "failed" [] OTHER -> "running"

LinesOf(r, c, l) ==
    LET after == Assigned(r, c, l)
        mine == {w \in Workers : after.task[w] # 0 /\ l[w].state # "none"}
        updates == [t \in {after.task[w] : w \in mine} |->
                        Status(l[CHOOSE w \in mine : after.task[w] = t].state)]
    IN  IF c.state = "none" THEN {}
        ELSE (IF mine = {} THEN {} ELSE {Line("tasks", r, updates)})
             \cup (IF Over(after, l) /\ c.stopUnconfirmed THEN {Line("confirmed", r, <<>>)} ELSE {})

Before(a, b) == a.run < b.run \/ (a.run = b.run /\ a.kind = "tasks" /\ b.kind = "confirmed")

\* The lines of all contexts, run by run.
Emitted(all, l) ==
    LET lines == UNION {LinesOf(r, all[r], l) : r \in Runs}
    IN  {s \in [1..Cardinality(lines) -> lines] :
            \A i, j \in 1..Cardinality(lines) : i < j => Before(s[i], s[j])}

\* emitSubagentTasks, with the contexts "all"
Emit(all, l) ==
    /\ rows' = l
    /\ contexts' = [r \in Runs |-> AfterEmit(r, all[r], l)]
    /\ \E lines \in Emitted(all, l) : pipe' = pipe \o lines

-----------------------------------------------------------------------------
(* The agent launches workers, one at a time *)

NoErrorUnread == \A i \in 1..Len(pipe) : pipe[i].kind # "error"
AgentMayAct == sidecar /\ registered /\ NoErrorUnread /\ call.stage = "none" /\ launch = NoLaunch

Unused(w) == rows[w].state = "none" /\ process[w] = NoProcess

With(w, state) == [rows EXCEPT ![w].state = state]

\* tool_execution_start comes before the policy is asked.
LaunchBegins(p) ==
    /\ AgentMayAct
    /\ \E w \in Workers :
        /\ Unused(w) /\ \A v \in 1..(w - 1) : ~Unused(v)
        /\ launch' = [NoLaunch EXCEPT !.worker = w, !.prompt = p]
        /\ Emit(contexts, [rows EXCEPT ![w] = [state |-> "start", prompt |-> p]])
    /\ UNCHANGED <<runVars, halting, stopping, appVars, process, sidecar, commands, call, bounds>>

Open(r) == contexts[r].state = "open"

\* researchSubagentLaunchBlockReason lets a launch with prompt p through.
Allowed(w, p) ==
    IF \E r \in Runs : Open(r)
    THEN \E r \in Runs : Open(r) /\ \/ contexts[r].task[w] # 0
                                    \/ \E t \in contexts[r].pending : tasks[r][t].prompt = p
    ELSE \A r \in Runs : contexts[r].state = "cancelled" =>
             contexts[r].pending = {} /\ \A v \in Workers : contexts[r].task[v] = 0

LaunchIsJudged ==
    LET w == launch.worker
    IN  /\ launch # NoLaunch /\ ~launch.allowed
        /\ \/ /\ Allowed(w, launch.prompt)
              /\ launch' = [launch EXCEPT !.allowed = TRUE]
              /\ UNCHANGED <<contexts, rows, pipe>>
           \/ /\ ~Allowed(w, launch.prompt)
              /\ launch' = NoLaunch
              /\ Emit(contexts, IF rows[w] = NoRow THEN rows ELSE With(w, "failed"))
    /\ UNCHANGED <<runVars, halting, stopping, appVars, process, sidecar, commands, call, bounds>>

\* The run a worker is bound to, if any.
DoneFor(w) ==
    IF \E r \in Runs : contexts[r].task[w] # 0
    THEN CHOOSE r \in Runs : contexts[r].task[w] # 0 ELSE NoRun

\* Mutant: the launch's answer is taken for the worker's end.
LaunchEnds_Finishes ==
    LET w == launch.worker
    IN  /\ launch.allowed /\ launch' = NoLaunch
        /\ process' = [process EXCEPT ![w] = [state |-> "alive", run |-> DoneFor(w)]]
        /\ Emit(contexts, With(w, "succeeded"))
    /\ UNCHANGED <<runVars, halting, stopping, appVars, sidecar, commands, call, bounds>>

\* tool_execution_end: with the receipt of a detached process, or a failure.
LaunchEnds ==
    LET w == launch.worker
    IN  /\ launch.allowed /\ launch' = NoLaunch
        /\ \/ /\ process' = [process EXCEPT ![w] = [state |-> "alive", run |-> DoneFor(w)]]
              /\ Emit(contexts, With(w, "running"))
           \/ /\ Emit(contexts, IF rows[w] = NoRow THEN rows ELSE With(w, "failed"))
              /\ UNCHANGED process
    /\ UNCHANGED <<runVars, halting, stopping, appVars, sidecar, commands, call, bounds>>

WorkerEnds(w) ==
    /\ process[w].state = "alive"
    /\ \E end \in {"succeeded", "failed"} : process' = [process EXCEPT ![w].state = end]
    /\ UNCHANGED <<runVars, bridgeVars, appVars, sidecar, pipe, commands, call, bounds>>

\* The row of a worker with the receipt of its process, which is over.
Finishing(w) == rows[w].state = "running" /\ process[w].state # "alive"

Refreshed(ws) == [w \in Workers |-> IF w \in ws THEN [rows[w] EXCEPT !.state = process[w].state]
                                    ELSE rows[w]]

\* refreshSubagentTasks
Poll ==
    LET over == {w \in Workers : Finishing(w)}
    IN  /\ over # {} /\ Emit(contexts, Refreshed(over))
        /\ UNCHANGED <<runVars, launch, halting, stopping, appVars, process, sidecar, commands, call, bounds>>

Killed(ws) == [w \in Workers |-> IF w \in ws /\ process[w].state = "alive"
                                 THEN [process[w] EXCEPT !.state = "failed"] ELSE process[w]]

\* The user stops the turn: the agent's call is given up, and the workers are signalled.
HaltBegins ==
    LET running == {w \in Workers : rows[w].state = "running"}
    IN  /\ sidecar /\ stops < MaxStops /\ ~halting.under_way
        /\ stops' = stops + 1
        /\ call' = IF call = NoCall THEN NoCall ELSE [call EXCEPT !.heard = FALSE]
        /\ halting' = IF running = {} THEN NoHalt
                      ELSE [under_way |-> TRUE, rows |-> rows,
                            signalled |-> {w \in running : process[w].state = "alive"}]
        /\ process' = Killed(running)
    /\ UNCHANGED <<runVars, contexts, rows, launch, stopping, appVars, sidecar, pipe, commands, losses, cancels>>

\* After the grace it writes the rows it had read, changed.
HaltEnds ==
    /\ halting.under_way /\ halting' = NoHalt
    /\ Emit(contexts, [w \in Workers |->
           IF halting.rows[w].state # "running" THEN halting.rows[w]
           ELSE [halting.rows[w] EXCEPT !.state = IF w \in halting.signalled THEN "failed"
                                                  ELSE process[w].state]])
    /\ UNCHANGED <<runVars, launch, stopping, appVars, process, sidecar, commands, call, bounds>>

-----------------------------------------------------------------------------
(* The bridge takes the cancel commands and the answers to the agent's calls *)

Command(r, needed) == [run |-> r, needed |-> needed]

\* cancelResearchRunCommand
CancelBegins ==
    LET r == Head(commands).run
    IN  /\ commands # <<>> /\ commands' = Tail(commands)
        /\ IF contexts[r].state = "none"
           THEN /\ pipe' = Append(pipe, Line(IF Head(commands).needed THEN "unconfirmed" ELSE "confirmed", r, <<>>))
                /\ UNCHANGED <<contexts, stopping>>
           ELSE /\ contexts' = [contexts EXCEPT ![r].state = "cancelled"]
                /\ \E n \in {1, 2} :
                    /\ \A s \in stopping : s.n # n
                    /\ stopping' = stopping \cup {[n |-> n, run |-> r, current |-> TRUE]}
                /\ UNCHANGED pipe
        /\ UNCHANGED <<runVars, rows, launch, halting, appVars, process, sidecar, call, bounds>>

Tracked(r) == {w \in Workers : contexts[r].task[w] # 0 /\ Live(rows, w)}

\* cancelResearchWorkers: one pass ...
WorkersAreSignalled(r) ==
    /\ \E s \in stopping : s.run = r
    /\ LET running == {w \in Tracked(r) : rows[w].state = "running"}
       IN  process' = Killed(running) /\ process' # process
    /\ UNCHANGED <<runVars, bridgeVars, appVars, sidecar, pipe, commands, call, bounds>>

\* Mutant: signalled workers count as stopped.
CancelEnds_Confirms(s) ==
    LET r == s.run
        l == Refreshed({w \in Tracked(r) : Finishing(w)})
        own == s.current /\ contexts[r].state # "none"
        all == IF own THEN [contexts EXCEPT ![r].pending = {}] ELSE contexts
    IN  /\ s \in stopping /\ stopping' = stopping \ {s}
        /\ rows' = l
        /\ contexts' = [q \in Runs |-> IF q = r /\ own THEN NoContext ELSE AfterEmit(q, all[q], l)]
        /\ \E lines \in Emitted(all, l) :
               pipe' = Append(pipe \o lines, Line("confirmed", r, <<>>))
        /\ UNCHANGED <<runVars, launch, halting, appVars, process, sidecar, commands, call, bounds>>

\* ... and its end: every worker is seen to have ended, or the passes are used up.  A context that
\* replaced the command's own ("current" is FALSE) is left alone.
CancelEnds(s) ==
    LET r == s.run
        l == Refreshed({w \in Tracked(r) : Finishing(w)})
        own == s.current /\ contexts[r].state # "none"
        all == IF own THEN [contexts EXCEPT ![r].pending = {}] ELSE contexts
        running == \E w \in Tracked(r) : Live(l, w)
        After(q) == AfterEmit(q, all[q], l)
    IN  /\ s \in stopping /\ stopping' = stopping \ {s}
        /\ rows' = l
        /\ contexts' = [q \in Runs |->
               IF q # r \/ ~own THEN After(q)
               ELSE IF running THEN [After(q) EXCEPT !.stopUnconfirmed = TRUE] ELSE NoContext]
        /\ \E lines \in Emitted(all, l) :
               pipe' = Append(pipe \o lines,
                              Line(IF running THEN "unconfirmed" ELSE "confirmed", r, <<>>))
        /\ UNCHANGED <<runVars, launch, halting, appVars, process, sidecar, commands, call, bounds>>

\* setResearchRunContext: the other runs' contexts are cancelled; a resumed run keeps its workers.
SetContext(r, keep) ==
    /\ contexts' = [q \in Runs |->
        IF q = r THEN [NoContext EXCEPT !.state = "open",
                                        !.baseline = {w \in Workers : rows[w].state # "none"},
                                        !.task = IF keep THEN contexts[r].task ELSE @]
        ELSE IF contexts[q].state = "none" THEN NoContext
        ELSE [contexts[q] EXCEPT !.state = "cancelled", !.pending = {}]]
    /\ stopping' = {IF s.run = r THEN [s EXCEPT !.current = FALSE] ELSE s : s \in stopping}
    /\ UNCHANGED <<rows, pipe>>

\* observeResearchWorkspaceAction
Observe(action, r, t) ==
    LET known == contexts[r].state # "none"
        new == t \notin contexts[r].pending /\ \A w \in Workers : contexts[r].task[w] # t
    IN  \/ action \in {"start", "resume", "gap_fill"} /\ SetContext(r, action = "resume")
        \/ /\ action = "register" /\ known /\ new
           /\ Emit([contexts EXCEPT ![r].pending = @ \cup {t}], rows)
           /\ UNCHANGED stopping
        \/ /\ action = "cancel" /\ known
           /\ contexts' = [contexts EXCEPT ![r] =
                  IF StillRunning(@, rows) \/ @.pending # {} THEN [@ EXCEPT !.state = "cancelled"]
                  ELSE NoContext]
           /\ UNCHANGED <<rows, pipe, stopping>>
        \/ /\ action = "complete" /\ contexts' = [contexts EXCEPT ![r] = NoContext]
           /\ UNCHANGED <<rows, pipe, stopping>>
        \/ /\ \/ action \in {"seal", "failed"}
              \/ action = "register" /\ ~(known /\ new)
              \/ action = "cancel" /\ ~known
           /\ UNCHANGED <<contexts, rows, pipe, stopping>>

\* An answer nobody waits for any more is an error of the conversation.
AnswerArrives ==
    /\ call.stage = "answered" /\ call' = NoCall
    /\ \/ call.heard /\ Observe(call.action, call.run, call.task)
       \/ /\ ~call.heard /\ pipe' = Append(pipe, Line("error", NoRun, <<>>))
          /\ UNCHANGED <<contexts, rows, stopping>>
    /\ UNCHANGED <<runVars, launch, halting, appVars, process, sidecar, commands, bounds>>

-----------------------------------------------------------------------------
(* The agent's research calls: handleResearchWorkspaceAction *)

Actions == {"start", "register", "seal", "gap_fill", "complete", "cancel", "resume"}

AgentCalls(action, r, p) ==
    /\ AgentMayAct
    /\ call' = [NoCall EXCEPT !.stage = "asked", !.action = action, !.run = r, !.prompt = p]
    /\ pipe' = Append(pipe, Line("ask", r, <<>>))
    /\ UNCHANGED <<runVars, bridgeVars, appVars, process, sidecar, commands, bounds>>

\* The goroutine answers, if the sidecar is still there.
Answered(action, t) ==
    call' = IF sidecar THEN [call EXCEPT !.stage = "answered", !.action = action, !.task = t] ELSE NoCall

CallIsHandled ==
    LET r == call.run
        Ok(t) == Answered(call.action, t)
    IN  /\ call.stage = "handling" /\ call.action # "cancel" /\ r \in Runs
        /\ \/ call.action = "start" /\ Start(r) /\ Ok(0)
           \/ call.action = "register" /\ call.prompt \in Prompts /\ \E t \in Tasks : RegisterTask(r, call.prompt, t) /\ Ok(t)
           \/ call.action = "seal" /\ SealBatch(r) /\ Ok(0)
           \/ call.action = "gap_fill" /\ BeginGapFill(r) /\ Ok(0)
           \/ call.action = "complete" /\ Complete(r) /\ Ok(0)
           \/ call.action = "resume" /\ Resume(r) /\ Ok(0)
           \/ UNCHANGED runVars /\ Answered("failed", 0)     \* refused, or the database fails
        /\ UNCHANGED <<bridgeVars, appVars, process, sidecar, pipe, commands, bounds>>

-----------------------------------------------------------------------------
(* App.cancelResearchRun: for the user, or for the agent's call *)

UserCancels(r) ==
    /\ cancels < MaxCancels /\ cancels' = cancels + 1
    /\ cancelling["user"] = NoCancel
    /\ run[r].status \in {"running", "interrupted"} \/ (run[r].status = "cancelled" /\ run[r].stop)
    /\ cancelling' = [cancelling EXCEPT !["user"] = [NoCancel EXCEPT !.step = "read", !.run = r]]
    /\ UNCHANGED <<runVars, bridgeVars, reading, registered, process, sidecar, pipe, commands, call, losses, stops>>

AgentCancels ==
    /\ call.stage = "handling" /\ call.action = "cancel" /\ call.run \in Runs
    /\ cancelling["agent"] = NoCancel
    /\ cancelling' = [cancelling EXCEPT !["agent"] = [NoCancel EXCEPT !.step = "read", !.run = call.run]]
    /\ UNCHANGED <<runVars, bridgeVars, reading, registered, process, sidecar, pipe, commands, call, bounds>>

Step(by, step) == cancelling' = [cancelling EXCEPT ![by] = step]

\* The cancel is over; the agent's is answered.
Leave(by, action) ==
    /\ Step(by, NoCancel)
    /\ IF by = "agent" THEN Answered(action, 0) ELSE UNCHANGED call

CancelReads(by) ==
    LET k == cancelling[by]
    IN  /\ k.step = "read"
        /\ Step(by, [k EXCEPT !.step = "cancel",
               !.needed = run[k.run].stop \/ \E t \in Tasks : tasks[k.run][t].status \in {"running", "interrupted"}])
    /\ UNCHANGED <<runVars, bridgeVars, reading, registered, process, sidecar, pipe, commands, call, bounds>>

CancelRecords(by) ==
    LET k == cancelling[by]
    IN  /\ k.step = "cancel"
        /\ \/ /\ Cancel(k.run) \/ (run[k.run].status = "cancelled" /\ UNCHANGED runVars)
              /\ Step(by, [k EXCEPT !.step = "flag", !.signal = registered])
              /\ UNCHANGED call
           \/ /\ run[k.run].status \in {"none", "completed"} /\ UNCHANGED runVars
              /\ Leave(by, "failed")
    /\ UNCHANGED <<bridgeVars, reading, registered, process, sidecar, pipe, commands, bounds>>

CancelFlags(by) ==
    LET k == cancelling[by]
    IN  /\ k.step = "flag"
        /\ IF k.needed THEN SetWorkerStopUnconfirmed(k.run, TRUE) ELSE UNCHANGED runVars
        /\ Step(by, [k EXCEPT !.step = "signal"])
    /\ UNCHANGED <<bridgeVars, reading, registered, process, sidecar, pipe, commands, call, bounds>>

\* Without a session nobody is told; a session that went away is an error.
CancelSignals(by) ==
    LET k == cancelling[by]
    IN  /\ k.step = "signal"
        /\ \/ /\ k.signal /\ registered /\ sidecar
              /\ commands' = Append(commands, Command(k.run, k.needed))
              /\ Leave(by, "cancel")
           \/ /\ k.signal /\ ~(registered /\ sidecar)
              /\ Leave(by, "failed") /\ UNCHANGED commands
           \/ ~k.signal /\ Leave(by, "cancel") /\ UNCHANGED commands
    /\ UNCHANGED <<runVars, bridgeVars, reading, registered, process, sidecar, pipe, bounds>>

-----------------------------------------------------------------------------
(* The reader: App.emitEngineEvent, recordResearchWorkerEvent *)

\* interruptResearchRunForSession: at most one run is running.
InterruptActive ==
    \/ \E r \in Runs : MarkInterrupted(r)
    \/ (\A r \in Runs : ~Active(r)) /\ UNCHANGED runVars

Reads(step, r) == reading' = [step |-> step, run |-> r]

DatabaseFails == losses < MaxLosses /\ losses' = losses + 1

ReadsTasks(r, updates) ==
    LET taken == r \in Runs /\ TakesUpdates(r)
    IN  \/ /\ taken /\ updates \in Updates /\ RecordWorkerUpdates(r, updates)
           /\ IF Ready(r, updates) THEN Reads("claim", r) ELSE UNCHANGED reading
           /\ UNCHANGED losses
        \/ /\ taken /\ Reads("interrupt", r) /\ UNCHANGED runVars
           /\ IF Fits(r, updates) THEN DatabaseFails ELSE UNCHANGED losses
        \/ ~taken /\ UNCHANGED <<runVars, reading, losses>>

LineIsRead ==
    LET line == Head(pipe)
        r == line.run
    IN  /\ pipe # <<>> /\ reading = NotReading /\ pipe' = Tail(pipe)
        /\ \/ /\ line.kind = "ask" /\ call' = [call EXCEPT !.stage = "handling"]
              /\ UNCHANGED <<runVars, reading, registered, losses>>
           \/ line.kind = "tasks" /\ ReadsTasks(r, line.updates) /\ UNCHANGED <<call, registered>>
           \/ /\ line.kind \in {"confirmed", "unconfirmed"}
              /\ IF r \in Runs /\ run[r].status = "cancelled"
                 THEN SetWorkerStopUnconfirmed(r, line.kind = "unconfirmed") ELSE UNCHANGED runVars
              /\ UNCHANGED <<reading, call, registered, losses>>
           \/ /\ line.kind = "error" /\ registered' = FALSE /\ InterruptActive
              /\ UNCHANGED <<reading, call, losses>>
        /\ UNCHANGED <<bridgeVars, cancelling, process, sidecar, commands, cancels, stops>>

ReaderGoesOn ==
    LET r == reading.run
    IN  \/ /\ reading.step = "claim"
           /\ \/ ClaimContinuation(r) /\ Reads("continue", r)
              \/ ~(Active(r) /\ run[r].phase \in {"synthesis_pending", "final_synthesis_pending"})
                 /\ reading' = NotReading /\ UNCHANGED runVars
        \/ /\ reading.step = "continue"
           /\ IF registered /\ sidecar THEN reading' = NotReading ELSE Reads("interrupt", r)
           /\ UNCHANGED runVars
        \/ /\ reading.step = "interrupt" /\ reading' = NotReading
           /\ MarkInterrupted(r) \/ (~Active(r) /\ UNCHANGED runVars)

ReaderContinues ==
    /\ reading # NotReading /\ ReaderGoesOn
    /\ UNCHANGED <<bridgeVars, cancelling, registered, process, sidecar, pipe, commands, call, bounds>>

-----------------------------------------------------------------------------
(* Losses *)

BridgeGone ==
    /\ contexts' = [r \in Runs |-> NoContext] /\ rows' = [w \in Workers |-> NoRow]
    /\ launch' = NoLaunch /\ halting' = NoHalt /\ stopping' = {} /\ commands' = <<>>

\* The agent's turn ends with an error.
SessionFails ==
    /\ AgentMayAct /\ losses < MaxLosses /\ losses' = losses + 1
    /\ pipe' = Append(pipe, Line("error", NoRun, <<>>))
    /\ UNCHANGED <<runVars, bridgeVars, appVars, process, sidecar, commands, call, cancels, stops>>

SidecarDies ==
    /\ sidecar /\ losses < MaxLosses /\ losses' = losses + 1
    /\ sidecar' = FALSE /\ BridgeGone
    /\ call' = IF call.stage = "answered" THEN NoCall ELSE call
    /\ UNCHANGED <<runVars, appVars, process, pipe, cancels, stops>>

\* The reader has come to the end of the pipe.
LossIsReported ==
    /\ ~sidecar /\ registered /\ pipe = <<>> /\ reading = NotReading
    /\ registered' = FALSE /\ InterruptActive
    /\ UNCHANGED <<bridgeVars, reading, cancelling, process, sidecar, pipe, commands, call, bounds>>

\* The application ends, with its sidecar, and starts again.
AppRestarts ==
    /\ losses < MaxLosses /\ losses' = losses + 1
    /\ Recover /\ BridgeGone
    /\ sidecar' = FALSE /\ registered' = FALSE /\ pipe' = <<>>
    /\ reading' = NotReading /\ call' = NoCall /\ cancelling' = [by \in Cancellers |-> NoCancel]
    /\ UNCHANGED <<process, cancels, stops>>

\* The user's next message brings the session back.
UserSends ==
    /\ ~registered /\ pipe = <<>> /\ reading = NotReading /\ call = NoCall
    /\ sidecar' = TRUE /\ registered' = TRUE
    /\ UNCHANGED <<runVars, bridgeVars, reading, cancelling, process, pipe, commands, call, bounds>>

-----------------------------------------------------------------------------
Agent ==
    \/ \E p \in Prompts : LaunchBegins(p)
    \/ \E r \in Runs :
        \/ \E p \in Prompts : AgentCalls("register", r, p)
        \/ \E action \in Actions \ {"register"} : AgentCalls(action, r, NoPrompt)

Bridge ==
    \/ LaunchIsJudged \/ LaunchEnds \/ Poll \/ HaltEnds \/ CancelBegins \/ AnswerArrives
    \/ \E r \in Runs : WorkersAreSignalled(r)
    \/ \E s \in stopping : CancelEnds(s)

App ==
    \/ LineIsRead \/ ReaderContinues \/ CallIsHandled \/ AgentCancels \/ LossIsReported
    \/ \E by \in Cancellers : CancelReads(by) \/ CancelRecords(by) \/ CancelFlags(by) \/ CancelSignals(by)

Outside ==
    \/ HaltBegins \/ SessionFails \/ SidecarDies \/ AppRestarts \/ UserSends
    \/ \E w \in Workers : WorkerEnds(w)
    \/ \E r \in Runs : UserCancels(r)

Next == Agent \/ Bridge \/ App \/ Outside

\* The sidecar's and the application's own steps are taken, and workers end.
Fairness ==
    /\ WF_vars(LineIsRead) /\ WF_vars(ReaderContinues) /\ WF_vars(LossIsReported)
    /\ WF_vars(LaunchIsJudged) /\ WF_vars(LaunchEnds) /\ WF_vars(Poll) /\ WF_vars(HaltEnds)
    /\ \A w \in Workers : WF_vars(WorkerEnds(w))

Spec == Init /\ [][Next]_vars
FairSpec == Spec /\ Fairness

-----------------------------------------------------------------------------
\* Nobody is about to stop the workers of run r, or to tell how that went.
NoStopUnderWay(r) ==
    /\ \A by \in Cancellers : cancelling[by].run # r
    /\ \A s \in stopping : s.run # r
    /\ \A i \in 1..Len(commands) : commands[i].run # r
    /\ \A i \in 1..Len(pipe) : pipe[i].run = r => pipe[i].kind \notin {"confirmed", "unconfirmed"}

\* A cancelled run of which the application says no worker may be running has none.
CancelledIsStopped(r) ==
    run[r].status = "cancelled" /\ ~run[r].stop /\ NoStopUnderWay(r) =>
        \A w \in Workers : process[w].run = r => process[w].state # "alive"

\* When no session is lost and no turn stopped, a cancelled run that is not marked as having
\* workers has none, however its cancellation met their launches, their ends, and other cancels.
StopsAreKnown == losses = 0 /\ stops = 0 => \A r \in Runs : CancelledIsStopped(r)

\* When no session is lost and no turn stopped, the parent synthesizes only after every worker of
\* the run has ended: neither a launch that returned nor an update that comes late passes for an end.
SynthesisHasNoWorkers ==
    losses = 0 /\ stops = 0 =>
        \A r \in Runs : Active(r) /\ run[r].phase \in Synthesis =>
            \A w \in Workers : process[w].run = r => process[w].state # "alive"

WaitsForWorkers(r) == Active(r) /\ run[r].phase \in Waiting

\* A worker of run r whose receipt the bridge has lost: it is never polled.
Forgotten(r, w) ==
    contexts[r].task[w] # 0 /\ launch.worker # w /\ rows[w].state \in {"none", "start"}

\* A run that waits for its workers goes on, or is interrupted or cancelled, whatever is lost,
\* stopped or cancelled meanwhile; unless a stop of the turn made the bridge forget a worker.
WaitingEnds ==
    \A r \in Runs :
        WaitsForWorkers(r) ~> ~WaitsForWorkers(r) \/ \E w \in Workers : Forgotten(r, w)
=============================================================================
