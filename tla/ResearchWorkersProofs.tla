------------------------ MODULE ResearchWorkersProofs ------------------------
(***************************************************************************)
(* The bridge, the reader, cancels and losses do to the runs what the        *)
(* service's methods do, and nothing else: ResearchWorkers implements        *)
(* ResearchRuns, so what holds of the runs under any calls holds of them     *)
(* here.  The only thing to know is that what the reader and the cancels     *)
(* still have to do is about runs.                                          *)
(*                                                                         *)
(* The second part shows that the parent synthesizes only after the workers  *)
(* of the run have ended (WorkersEndBeforeSynthesis).  Its invariant follows  *)
(* a task from the service through the bridge's context to the worker's      *)
(* process and back through the lines that are not read: WorkersInv.         *)
(*                                                                         *)
(* The third part shows that a cancelled run of which the application says    *)
(* no worker may be running has none (StopsAreAlwaysKnown).  Its invariant    *)
(* follows a worker that may be running from the moment its run is           *)
(* cancelled: somebody is to stop the workers of the run, or the lines that   *)
(* are not read will leave it marked as having workers: StopsInv.  It is      *)
(* kept between faults, with WorkersInv.                                     *)
(***************************************************************************)
EXTENDS ResearchWorkers, ResearchRunsProofs, FiniteSetTheorems, SequenceTheorems

AppTypeOK ==
    /\ registered \in BOOLEAN
    /\ reading \in [step : {"none", "claim", "continue", "interrupt"}, run : Runs \cup {NoRun}]
    /\ cancelling \in [Cancellers -> [step : {"none", "read", "cancel", "flag", "signal"},
                                      run : Runs \cup {NoRun}, needed : BOOLEAN, signal : BOOLEAN]]

AppInv ==
    /\ AppTypeOK
    /\ reading.step # "none" => reading.run \in Runs
    /\ \A by \in Cancellers : cancelling[by].step # "none" => cancelling[by].run \in Runs

LEMMA InitApp == Init => AppInv
  BY DEF Init, AppInv, AppTypeOK, NotReading, NoCancel, NoRun

\* Steps of the agent, of the bridge and of the world leave the application alone.
LEMMA AppUnchanged == AppInv /\ UNCHANGED appVars => AppInv'
  BY DEF appVars, AppInv, AppTypeOK

LEMMA OutsideTheApp ==
  ASSUME Agent \/ Bridge \/ HaltBegins \/ SessionFails \/ SidecarDies
         \/ (\E w \in Workers : WorkerEnds(w)) \/ CallIsHandled
  PROVE  UNCHANGED appVars
<1>1. ASSUME Agent PROVE UNCHANGED appVars
  BY <1>1 DEF Agent, LaunchBegins, AgentCalls
<1>2. ASSUME Bridge PROVE UNCHANGED appVars
  BY <1>2 DEF Bridge, LaunchIsJudged, LaunchEnds, Poll, HaltEnds, CancelBegins, AnswerArrives,
              WorkersAreSignalled, CancelEnds
<1>3. ASSUME HaltBegins \/ SessionFails \/ SidecarDies \/ (\E w \in Workers : WorkerEnds(w)) \/ CallIsHandled
      PROVE  UNCHANGED appVars
  BY <1>3 DEF HaltBegins, SessionFails, SidecarDies, WorkerEnds, CallIsHandled
<1> QED BY <1>1, <1>2, <1>3

\* Of these only the handling of the agent's call touches the runs.
LEMMA OutsideTheRuns ==
  ASSUME Agent \/ Bridge \/ HaltBegins \/ SessionFails \/ SidecarDies \/ UserSends
         \/ (\E w \in Workers : WorkerEnds(w)) \/ (\E r \in Runs : UserCancels(r)) \/ AgentCancels
         \/ (\E by \in Cancellers : CancelReads(by) \/ CancelSignals(by))
  PROVE  UNCHANGED runVars
<1>1. ASSUME Agent PROVE UNCHANGED runVars
  BY <1>1 DEF Agent, LaunchBegins, AgentCalls
<1>2. ASSUME Bridge PROVE UNCHANGED runVars
  BY <1>2 DEF Bridge, LaunchIsJudged, LaunchEnds, Poll, HaltEnds, CancelBegins, AnswerArrives,
              WorkersAreSignalled, CancelEnds
<1>3. ASSUME HaltBegins \/ SessionFails \/ SidecarDies \/ UserSends \/ (\E w \in Workers : WorkerEnds(w))
      PROVE  UNCHANGED runVars
  BY <1>3 DEF HaltBegins, SessionFails, SidecarDies, UserSends, WorkerEnds
<1>4. ASSUME (\E r \in Runs : UserCancels(r)) \/ AgentCancels
             \/ (\E by \in Cancellers : CancelReads(by) \/ CancelSignals(by))
      PROVE  UNCHANGED runVars
  BY <1>4 DEF UserCancels, AgentCancels, CancelReads, CancelSignals
<1> QED BY <1>1, <1>2, <1>3, <1>4

-----------------------------------------------------------------------------
(* Cancels *)

\* A cancel goes from step to step with the run it is about.
LEMMA CancelMoves ==
  ASSUME AppInv, NEW by \in Cancellers,
         NEW k \in [step : {"none", "read", "cancel", "flag", "signal"}, run : Runs \cup {NoRun},
                    needed : BOOLEAN, signal : BOOLEAN],
         k.step # "none" => k.run \in Runs,
         cancelling' = [cancelling EXCEPT ![by] = k], UNCHANGED <<reading, registered>>
  PROVE  AppInv'
<1>1. AppTypeOK' BY DEF AppInv, AppTypeOK
<1>2. ASSUME NEW b \in Cancellers, cancelling'[b].step # "none" PROVE cancelling'[b].run \in Runs
  <2>1. CASE b = by BY <1>2, <2>1 DEF AppInv, AppTypeOK
  <2>2. CASE b # by
    <3>1. cancelling'[b] = cancelling[b] BY <2>2 DEF AppInv, AppTypeOK
    <3> QED BY <1>2, <3>1 DEF AppInv
  <2> QED BY <2>1, <2>2
<1> QED BY <1>1, <1>2 DEF AppInv

LEMMA NoCancelIsACancel ==
  NoCancel \in [step : {"none", "read", "cancel", "flag", "signal"}, run : Runs \cup {NoRun},
                needed : BOOLEAN, signal : BOOLEAN] /\ NoCancel.step = "none"
  BY DEF NoCancel, NoRun

LEMMA CancelsKeepApp ==
  ASSUME AppInv,
         \/ \E r \in Runs : UserCancels(r)
         \/ AgentCancels
         \/ \E by \in Cancellers :
                CancelReads(by) \/ CancelRecords(by) \/ CancelFlags(by) \/ CancelSignals(by)
  PROVE  AppInv'
<1>1. ASSUME NEW r \in Runs, UserCancels(r) PROVE AppInv'
  <2> DEFINE k == [NoCancel EXCEPT !.step = "read", !.run = r]
  <2>1. cancelling' = [cancelling EXCEPT !["user"] = k] /\ UNCHANGED <<reading, registered>>
    BY <1>1 DEF UserCancels
  <2>2. k \in [step : {"none", "read", "cancel", "flag", "signal"}, run : Runs \cup {NoRun},
               needed : BOOLEAN, signal : BOOLEAN] /\ k.run = r
    BY DEF NoCancel
  <2>3. "user" \in Cancellers BY DEF Cancellers
  <2> HIDE DEF k
  <2> QED BY <2>1, <2>2, <2>3, CancelMoves
<1>2. ASSUME AgentCancels PROVE AppInv'
  <2> DEFINE k == [NoCancel EXCEPT !.step = "read", !.run = call.run]
  <2>1. /\ cancelling' = [cancelling EXCEPT !["agent"] = k] /\ UNCHANGED <<reading, registered>>
        /\ call.run \in Runs
    BY <1>2 DEF AgentCancels
  <2>2. k \in [step : {"none", "read", "cancel", "flag", "signal"}, run : Runs \cup {NoRun},
               needed : BOOLEAN, signal : BOOLEAN] /\ k.run = call.run
    BY <2>1 DEF NoCancel
  <2>3. "agent" \in Cancellers BY DEF Cancellers
  <2> HIDE DEF k
  <2> QED BY <2>1, <2>2, <2>3, CancelMoves
<1>3. ASSUME NEW by \in Cancellers,
             CancelReads(by) \/ CancelRecords(by) \/ CancelFlags(by) \/ CancelSignals(by)
      PROVE  AppInv'
  <2>1. cancelling[by] \in [step : {"none", "read", "cancel", "flag", "signal"}, run : Runs \cup {NoRun},
                            needed : BOOLEAN, signal : BOOLEAN]
    BY DEF AppInv, AppTypeOK
  <2>2. cancelling[by].step # "none" /\ UNCHANGED <<reading, registered>> /\ registered \in BOOLEAN
    BY <1>3 DEF CancelReads, CancelRecords, CancelFlags, CancelSignals, AppInv, AppTypeOK
  <2>3. cancelling[by].run \in Runs BY <2>2 DEF AppInv
  <2>4. PICK k : /\ cancelling' = [cancelling EXCEPT ![by] = k]
                 /\ \/ k = NoCancel
                    \/ \E needed \in BOOLEAN :
                           k = [cancelling[by] EXCEPT !.step = "cancel", !.needed = needed]
                    \/ k = [cancelling[by] EXCEPT !.step = "flag", !.signal = registered]
                    \/ k = [cancelling[by] EXCEPT !.step = "signal"]
    <3>1. CASE CancelReads(by)
      <4> DEFINE needed == \/ run[cancelling[by].run].stop
                           \/ \E t \in Tasks : tasks[cancelling[by].run][t].status \in {"running", "interrupted"}
      <4>1. needed \in BOOLEAN OBVIOUS
      <4>2. cancelling' = [cancelling EXCEPT ![by] =
                              [cancelling[by] EXCEPT !.step = "cancel", !.needed = needed]]
        BY <3>1 DEF CancelReads, Step
      <4> QED BY <4>1, <4>2
    <3>2. CASE CancelRecords(by) BY <3>2 DEF CancelRecords, Step, Leave
    <3>3. CASE CancelFlags(by) BY <3>3 DEF CancelFlags, Step
    <3>4. CASE CancelSignals(by) BY <3>4 DEF CancelSignals, Step, Leave
    <3> QED BY <1>3, <3>1, <3>2, <3>3, <3>4
  <2>5. k \in [step : {"none", "read", "cancel", "flag", "signal"}, run : Runs \cup {NoRun},
               needed : BOOLEAN, signal : BOOLEAN] /\ (k.step # "none" => k.run \in Runs)
    BY <2>1, <2>2, <2>3, <2>4, NoCancelIsACancel
  <2> QED BY <2>2, <2>4, <2>5, CancelMoves
<1> QED BY <1>1, <1>2, <1>3

\* Two steps of a cancel change the runs: as Cancel does, and as the mark does.
LEMMA CancelsAreCalls ==
  ASSUME AppInv, NEW by \in Cancellers, CancelRecords(by) \/ CancelFlags(by)
  PROVE  [RunsNext]_runVars
<1> DEFINE r == cancelling[by].run
<1>1. r \in Runs
  BY DEF CancelRecords, CancelFlags, AppInv
<1>2. CASE CancelRecords(by)
  <2>1. Cancel(r) \/ UNCHANGED runVars BY <1>2 DEF CancelRecords
  <2> QED BY <1>1, <2>1 DEF RunsNext
<1>3. CASE CancelFlags(by)
  <2>1. SetWorkerStopUnconfirmed(r, TRUE) \/ UNCHANGED runVars BY <1>3 DEF CancelFlags
  <2> QED BY <1>1, <2>1 DEF RunsNext
<1> QED BY <1>2, <1>3

-----------------------------------------------------------------------------
(* The agent's calls, the reader, losses *)

LEMMA HandledCallsAreCalls == ASSUME CallIsHandled PROVE [RunsNext]_runVars
<1> DEFINE r == call.run
<1>1. r \in Runs BY DEF CallIsHandled
<1>2. \/ Start(r) \/ SealBatch(r) \/ BeginGapFill(r) \/ Complete(r) \/ Resume(r)
      \/ call.prompt \in Prompts /\ \E t \in Tasks : RegisterTask(r, call.prompt, t)
      \/ UNCHANGED runVars
  BY DEF CallIsHandled
<1> QED BY <1>1, <1>2 DEF RunsNext

LEMMA InterruptIsACall == ASSUME InterruptActive PROVE [RunsNext]_runVars
  BY DEF InterruptActive, RunsNext

LEMMA ReaderKeepsApp == ASSUME AppInv, LineIsRead \/ ReaderContinues \/ LossIsReported PROVE AppInv'
<1>1. ASSUME UNCHANGED <<cancelling, registered>>,
             reading' = reading \/ reading' = NotReading
             \/ \E step \in {"claim", "continue", "interrupt"}, r \in Runs : Reads(step, r)
      PROVE  AppInv'
  BY <1>1 DEF Reads, NotReading, AppInv, AppTypeOK
<1>2. CASE LineIsRead
  <2>1. UNCHANGED cancelling BY <1>2 DEF LineIsRead
  <2>2. CASE Head(pipe).kind = "error"
    <3>1. registered' = FALSE /\ UNCHANGED reading BY <1>2, <2>2 DEF LineIsRead
    <3> QED BY <2>1, <3>1 DEF AppInv, AppTypeOK
  <2>3. CASE Head(pipe).kind = "tasks"
    <3> DEFINE r == Head(pipe).run
               updates == Head(pipe).updates
    <3>1. ReadsTasks(r, updates) /\ UNCHANGED registered BY <1>2, <2>3 DEF LineIsRead
    <3>2. reading' = reading \/ \E step \in {"claim", "interrupt"} : r \in Runs /\ Reads(step, r)
      BY <3>1 DEF ReadsTasks
    <3> QED BY <1>1, <2>1, <3>1, <3>2
  <2>4. CASE Head(pipe).kind \notin {"error", "tasks"}
    <3>1. UNCHANGED <<reading, registered>> BY <1>2, <2>4 DEF LineIsRead
    <3> QED BY <1>1, <2>1, <3>1
  <2> QED BY <2>2, <2>3, <2>4
<1>3. CASE ReaderContinues
  <2>1. /\ UNCHANGED <<cancelling, registered>> /\ ReaderGoesOn
        /\ reading.step # "none" /\ reading.run \in Runs
    BY <1>3 DEF ReaderContinues, ReaderGoesOn, AppInv
  <2>2. reading' = NotReading \/ \E step \in {"continue", "interrupt"} : Reads(step, reading.run)
    BY <2>1 DEF ReaderGoesOn
  <2> QED BY <1>1, <2>1, <2>2
<1>4. CASE LossIsReported
  <2>1. registered' = FALSE /\ UNCHANGED <<reading, cancelling>> BY <1>4 DEF LossIsReported
  <2> QED BY <2>1 DEF AppInv, AppTypeOK
<1> QED BY <1>2, <1>3, <1>4

LEMMA ReadLinesAreCalls ==
  ASSUME AppInv, LineIsRead \/ ReaderContinues \/ LossIsReported PROVE [RunsNext]_runVars
<1>1. CASE LineIsRead
  <2> DEFINE r == Head(pipe).run
             updates == Head(pipe).updates
  <2>1. CASE Head(pipe).kind = "tasks"
    <3>1. ReadsTasks(r, updates) BY <1>1, <2>1 DEF LineIsRead
    <3>2. \/ r \in Runs /\ updates \in Updates /\ RecordWorkerUpdates(r, updates)
          \/ UNCHANGED runVars
      BY <3>1 DEF ReadsTasks
    <3> QED BY <3>2 DEF RunsNext
  <2>2. CASE Head(pipe).kind \in {"confirmed", "unconfirmed"}
    <3>1. \/ r \in Runs /\ SetWorkerStopUnconfirmed(r, Head(pipe).kind = "unconfirmed")
          \/ UNCHANGED runVars
      BY <1>1, <2>2 DEF LineIsRead
    <3>2. (Head(pipe).kind = "unconfirmed") \in BOOLEAN OBVIOUS
    <3> QED BY <3>1, <3>2 DEF RunsNext
  <2>3. CASE Head(pipe).kind = "error"
    <3>1. InterruptActive BY <1>1, <2>3 DEF LineIsRead
    <3> QED BY <3>1, InterruptIsACall
  <2>4. CASE Head(pipe).kind = "ask" BY <1>1, <2>4 DEF LineIsRead
  <2> QED BY <1>1, <2>1, <2>2, <2>3, <2>4 DEF LineIsRead
<1>2. CASE ReaderContinues
  <2>1. reading.run \in Runs /\ ReaderGoesOn
    BY <1>2 DEF ReaderContinues, ReaderGoesOn, AppInv
  <2>2. ClaimContinuation(reading.run) \/ MarkInterrupted(reading.run) \/ UNCHANGED runVars
    BY <2>1 DEF ReaderGoesOn
  <2> QED BY <2>1, <2>2 DEF RunsNext
<1>3. CASE LossIsReported
  BY <1>3, InterruptIsACall DEF LossIsReported
<1> QED BY <1>1, <1>2, <1>3

LEMMA SessionsComeBack == ASSUME AppInv, UserSends \/ AppRestarts PROVE AppInv' /\ [RunsNext]_runVars
<1>1. CASE UserSends
  <2>1. registered' = TRUE /\ UNCHANGED <<reading, cancelling>> BY <1>1 DEF UserSends
  <2>2. AppInv' BY <2>1 DEF AppInv, AppTypeOK
  <2> QED BY <1>1, <2>2, OutsideTheRuns
<1>2. CASE AppRestarts
  <2>1. /\ registered' = FALSE /\ reading' = NotReading
        /\ cancelling' = [by \in Cancellers |-> NoCancel]
    BY <1>2 DEF AppRestarts
  <2>2. AppInv' BY <2>1, NoCancelIsACancel DEF AppInv, AppTypeOK, NotReading, NoRun
  <2>3. Recover BY <1>2 DEF AppRestarts
  <2> QED BY <2>2, <2>3 DEF RunsNext
<1> QED BY <1>1, <1>2

-----------------------------------------------------------------------------
LEMMA StepsAreCalls == AppInv /\ [Next]_vars => AppInv' /\ [RunsNext]_runVars
<1> SUFFICES ASSUME AppInv, [Next]_vars PROVE AppInv' /\ [RunsNext]_runVars OBVIOUS
<1>1. CASE UNCHANGED vars
  BY <1>1, AppUnchanged DEF vars, workerVars
<1>2. CASE Agent \/ Bridge \/ HaltBegins \/ SessionFails \/ SidecarDies
           \/ (\E w \in Workers : WorkerEnds(w))
  BY <1>2, OutsideTheApp, OutsideTheRuns, AppUnchanged
<1>3. CASE CallIsHandled
  BY <1>3, OutsideTheApp, AppUnchanged, HandledCallsAreCalls
<1>4. CASE (\E r \in Runs : UserCancels(r)) \/ AgentCancels
           \/ (\E by \in Cancellers : CancelReads(by) \/ CancelSignals(by))
  BY <1>4, CancelsKeepApp, OutsideTheRuns
<1>5. CASE \E by \in Cancellers : CancelRecords(by) \/ CancelFlags(by)
  BY <1>5, CancelsKeepApp, CancelsAreCalls
<1>6. CASE LineIsRead \/ ReaderContinues \/ LossIsReported
  BY <1>6, ReaderKeepsApp, ReadLinesAreCalls
<1>7. CASE UserSends \/ AppRestarts
  BY <1>7, SessionsComeBack
<1>8. Next => \/ Agent \/ Bridge \/ HaltBegins \/ SessionFails \/ SidecarDies
              \/ (\E w \in Workers : WorkerEnds(w)) \/ CallIsHandled
              \/ (\E r \in Runs : UserCancels(r)) \/ AgentCancels
              \/ (\E by \in Cancellers : CancelReads(by) \/ CancelSignals(by))
              \/ (\E by \in Cancellers : CancelRecords(by) \/ CancelFlags(by))
              \/ LineIsRead \/ ReaderContinues \/ LossIsReported \/ UserSends \/ AppRestarts
  BY DEF Next, App, Outside
<1> QED BY <1>1, <1>2, <1>3, <1>4, <1>5, <1>6, <1>7, <1>8

\* Whatever the bridge, the reader, cancels, stops and losses do, they do to the runs what calls
\* of the service's methods do: ResearchWorkers implements ResearchRuns.
THEOREM WorkersMakeCalls == Spec => RunsSpec
<1>1. Init => RunsInit BY DEF Init
<1>2. AppInv /\ [Next]_vars => AppInv' /\ [RunsNext]_runVars BY StepsAreCalls
<1> QED BY <1>1, <1>2, InitApp, PTL DEF Spec, RunsSpec

\* With workers that report late, calls that overlap cancels, and sidecars that are lost, a run
\* synthesizes only when no task of it is under way.
THEOREM SynthesisWaitsForItsWorkers == Spec => []SynthesisWaitsForWorkers
  BY WorkersMakeCalls, SynthesisAlwaysWaits, PTL

-----------------------------------------------------------------------------
(* What a context and the list of subagents say of the workers, when no     *)
(* session is lost and no turn stopped.  These operators are about values,   *)
(* not about the state, so that they can be said of any list and context.    *)

Going(r) == run[r].status \in {"running", "interrupted"}

Tells(line, r, t) == line.kind = "tasks" /\ line.run = r /\ t \in DOMAIN line.updates
Finishes(line, r, t) == Tells(line, r, t) /\ line.updates[t] # "running"

\* No line of pipe p is about task t; none says that it has finished.
Untold(p, r, t) == \A i \in 1..Len(p) : ~Tells(p[i], r, t)
Unended(p, r, t) == \A i \in 1..Len(p) : ~Finishes(p[i], r, t)

Knows(c, t) == t \in c.pending \/ \E w \in Workers : c.task[w] = t

LineKinds == {"tasks", "ask", "error", "confirmed", "unconfirmed"}
Lines == [kind : LineKinds, run : Runs \cup {NoRun}, updates : Updates \cup {<<>>}]
Context == [state : {"none", "open", "cancelled"}, pending : SUBSET Tasks,
            baseline : SUBSET Workers, stopUnconfirmed : BOOLEAN,
            task : [Workers -> Tasks \cup {0}]]
AnyPrompt == Prompts \cup {NoPrompt}
Row == [state : {"none", "start", "running", "succeeded", "failed"}, prompt : AnyPrompt]
List == [Workers -> Row]

\* A task has one worker, and waits for one only as long as it has none.
Distinct(c) ==
    /\ \A v, w \in Workers : c.task[v] = c.task[w] /\ c.task[v] # 0 => v = w
    /\ \A w \in Workers : c.task[w] \notin c.pending

\* Its worker is in the list.
Supported(c, l) ==
    /\ c.state = "none" => c.pending = {} /\ \A w \in Workers : c.task[w] = 0
    /\ \A w \in Workers : c.task[w] # 0 => l[w].state # "none"

\* Neither a task that waits for its worker nor one whose worker runs has finished, by the tasks
\* "ts" of the service, and no line of p will say so.
PendingWaits(r, c, ts, p) ==
    \A t \in c.pending : ts[t].status \in Unfinished /\ Untold(p, r, t)

LiveWorks(r, c, l, ts, p) ==
    \A w \in Workers : c.task[w] # 0 /\ Live(l, w) =>
        ts[c.task[w]].status \in Unfinished /\ Unended(p, r, c.task[w])

-----------------------------------------------------------------------------
(* emitResearchTaskUpdates *)

\* d is c after some of its pending tasks were given to workers in list l.
Grows(d, c, l) ==
    /\ d \in Context /\ d.state = c.state /\ d.pending \subseteq c.pending
    /\ \A w \in Workers :
        /\ c.task[w] # 0 => d.task[w] = c.task[w]
        /\ c.task[w] = 0 /\ d.task[w] # 0 =>
               d.task[w] \in c.pending \ d.pending /\ l[w].state # "none"

LEMMA AssignedGrows ==
  ASSUME NEW r \in Runs, NEW c \in Context, NEW l \in List, Distinct(c)
  PROVE  Grows(Assigned(r, c, l), c, l) /\ Distinct(Assigned(r, c, l))
<1> DEFINE T(w, t) == Takes(r, c, l, w, t)
           task == [w \in Workers |-> IF \E t \in Tasks : T(w, t)
                                      THEN CHOOSE t \in Tasks : T(w, t) ELSE c.task[w]]
           pending == {t \in c.pending : \A w \in Workers : ~T(w, t)}
           d == Assigned(r, c, l)
<1>1. d = [c EXCEPT !.pending = pending, !.task = task]
  BY DEF Assigned, Context
<1>2. /\ d \in [state : {"none", "open", "cancelled"}, pending : SUBSET Tasks,
                baseline : SUBSET Workers, stopUnconfirmed : BOOLEAN, task : [Workers -> Tasks \cup {0}]]
      /\ d.state = c.state /\ d.pending = pending /\ d.task = task
  <2>1. task \in [Workers -> Tasks \cup {0}]
    <3>1. ASSUME NEW w \in Workers
          PROVE (IF \E t \in Tasks : T(w, t) THEN CHOOSE t \in Tasks : T(w, t) ELSE c.task[w]) \in Tasks \cup {0}
      <4> HIDE DEF T
      <4>1. c.task[w] \in Tasks \cup {0} BY DEF Context
      <4>2. CASE \E t \in Tasks : T(w, t) BY <4>2
      <4>3. CASE ~\E t \in Tasks : T(w, t) BY <4>1, <4>3
      <4> QED BY <4>2, <4>3
    <3> HIDE DEF T
    <3> QED BY <3>1
  <2>2. pending \subseteq Tasks BY DEF Context
  <2> HIDE DEF task, pending, d
  <2> QED BY <1>1, <2>1, <2>2 DEF Context
<1>3. \A w \in Workers, t \in Tasks : T(w, t) =>
          /\ t \in c.pending /\ c.task[w] = 0 /\ l[w].state # "none"
          /\ \A v \in Workers : T(v, t) => v = w
  <2>1. \A v, w \in Workers : v < w \/ w < v \/ v = w BY DEF Workers
  <2>2. \A v, w \in Workers, t \in Tasks : T(v, t) /\ T(w, t) => ~(v < w)
    BY DEF Takes, Workers
  <2>3. \A w \in Workers, t \in Tasks : T(w, t) => t \in c.pending /\ c.task[w] = 0 /\ l[w].state # "none"
    BY DEF Takes
  <2> HIDE DEF T
  <2> QED BY <2>1, <2>2, <2>3
<1>4. \A w \in Workers : \/ d.task[w] = c.task[w]
                         \/ d.task[w] \in Tasks /\ T(w, d.task[w])
  <2>1. ASSUME NEW w \in Workers PROVE d.task[w] = c.task[w] \/ (d.task[w] \in Tasks /\ T(w, d.task[w]))
    <3> HIDE DEF T
    <3>1. CASE \E t \in Tasks : T(w, t)
      <4>1. d.task[w] = CHOOSE t \in Tasks : T(w, t) BY <1>2, <3>1
      <4> QED BY <3>1, <4>1
    <3>2. CASE ~\E t \in Tasks : T(w, t) BY <1>2, <3>2
    <3> QED BY <3>1, <3>2
  <2> QED BY <2>1
<1>5. 0 \notin Tasks BY DEF Tasks
<1>6. \A w \in Workers : T(w, d.task[w]) /\ d.task[w] \in Tasks => d.task[w] \notin d.pending
  <2> HIDE DEF T
  <2> QED BY <1>2
<1> HIDE DEF T, d, task
<1>7. Grows(d, c, l)
  BY <1>2, <1>3, <1>4, <1>6 DEF Grows, Context
<1>8. Distinct(d)
  <2>1. ASSUME NEW v \in Workers, NEW w \in Workers, d.task[v] = d.task[w], d.task[v] # 0 PROVE v = w
    BY <1>3, <1>4, <2>1 DEF Distinct
  <2>2. ASSUME NEW w \in Workers PROVE d.task[w] \notin d.pending
    BY <1>2, <1>4, <1>6 DEF Distinct
  <2> QED BY <2>1, <2>2 DEF Distinct
<1> QED BY <1>7, <1>8 DEF d

\* A line is about workers of its run, and says that a worker runs as long as it does.
LEMMA LineFacts ==
  ASSUME NEW r \in Runs, NEW c \in Context, NEW l \in List, Distinct(c), NEW x \in LinesOf(r, c, l)
  PROVE  /\ x \in Lines /\ x.run = r /\ x.kind \in {"tasks", "confirmed"}
         /\ \A t : Tells(x, r, t) =>
                \E w \in Workers : /\ Assigned(r, c, l).task[w] = t /\ t # 0 /\ l[w].state # "none"
                                   /\ Live(l, w) => x.updates[t] = "running"
<1> DEFINE d == Assigned(r, c, l)
           mine == {w \in Workers : d.task[w] # 0 /\ l[w].state # "none"}
           about == {d.task[w] : w \in mine}
           first(t) == CHOOSE w \in mine : d.task[w] = t
           updates == [t \in about |-> Status(l[first(t)].state)]
<1>1. Grows(d, c, l) /\ Distinct(d) BY AssignedGrows
<1>2. x \in {y \in {Line("tasks", r, updates)} : mine # {}} \cup {Line("confirmed", r, <<>>)}
  BY DEF LinesOf
<1>3. \A t \in about : first(t) \in mine /\ d.task[first(t)] = t
  <2> HIDE DEF mine, d
  <2> QED OBVIOUS
<1>4. about \subseteq Tasks /\ (mine # {} => about # {})
  <2> HIDE DEF d
  <2> QED BY <1>1 DEF Grows, Context
<1>5. updates \in [about -> Reported]
  <2>1. \A s : Status(s) \in Reported BY DEF Status, Reported
  <2> HIDE DEF about, first
  <2> QED BY <2>1
<1>6. mine # {} => updates \in Updates
  <2> HIDE DEF updates, about, mine
  <2> QED BY <1>4, <1>5 DEF Updates
<1>7. \A t \in about : \E w \in Workers :
          d.task[w] = t /\ t # 0 /\ l[w].state # "none" /\ (Live(l, w) => updates[t] = "running")
  <2>1. ASSUME NEW t \in about PROVE
           /\ d.task[first(t)] = t /\ t # 0 /\ l[first(t)].state # "none" /\ first(t) \in Workers
           /\ Live(l, first(t)) => updates[t] = "running"
    <3>1. first(t) \in mine /\ d.task[first(t)] = t BY <1>3
    <3>2. updates[t] = Status(l[first(t)].state) OBVIOUS
    <3> HIDE DEF first, updates
    <3> QED BY <3>1, <3>2 DEF Status, Live
  <2> HIDE DEF first, updates, about, d
  <2> QED BY <2>1
<1>8. DOMAIN updates = about OBVIOUS
<1> HIDE DEF updates, about, mine, d, first
<1>9. CASE mine # {} /\ x = Line("tasks", r, updates)
  <2>1. x.updates = updates /\ x.run = r /\ x.kind = "tasks" BY <1>9 DEF Line
  <2>2. x \in Lines BY <1>6, <1>9 DEF Line, Lines, LineKinds
  <2>3. \A t : Tells(x, r, t) => t \in about BY <1>8, <2>1 DEF Tells
  <2>4. \A t : Tells(x, r, t) =>
            \E w \in Workers : /\ d.task[w] = t /\ t # 0 /\ l[w].state # "none"
                               /\ Live(l, w) => x.updates[t] = "running"
    BY <1>7, <2>1, <2>3
  <2> QED BY <2>1, <2>2, <2>4 DEF d
<1>10. CASE x = Line("confirmed", r, <<>>)
  BY <1>10 DEF Line, Lines, LineKinds, Tells
<1> QED BY <1>2, <1>9, <1>10

LEMMA EmittedFacts ==
  ASSUME NEW all \in [Runs -> Context], NEW l \in List, \A r \in Runs : Distinct(all[r]),
         NEW lines \in Emitted(all, l)
  PROVE  /\ lines \in Seq(Lines)
         /\ \A i \in 1..Len(lines) : \E r \in Runs : lines[i] \in LinesOf(r, all[r], l)
<1> DEFINE of(r) == LinesOf(r, all[r], l)
           every == UNION {of(r) : r \in Runs}
<1>1. \A r \in Runs : IsFiniteSet(of(r))
  <2>1. ASSUME NEW r \in Runs PROVE IsFiniteSet(of(r))
    <3>1. PICK a, b : of(r) \subseteq {a, b}
      BY DEF LinesOf
    <3>2. IsFiniteSet({a, b})
      <4>1. IsFiniteSet({a}) BY FS_Singleton
      <4>2. IsFiniteSet({a} \cup {b}) BY <4>1, FS_AddElement
      <4>3. {a, b} = {a} \cup {b} OBVIOUS
      <4> QED BY <4>2, <4>3
    <3> QED BY <3>1, <3>2, FS_Subset
  <2> QED BY <2>1
<1>2. IsFiniteSet({of(r) : r \in Runs})
  <2>1. IsFiniteSet(Runs) BY FS_Interval, ResearchAssumption DEF Runs
  <2> DEFINE each == [r \in Runs |-> of(r)]
             sets == {of(r) : r \in Runs}
  <2>2. each \in Surjection(Runs, sets) BY DEF Surjection
  <2> HIDE DEF each, sets
  <2>3. IsFiniteSet(sets) BY <2>1, <2>2, FS_Surjection
  <2> QED BY <2>3 DEF sets
<1>3. IsFiniteSet(every)
  <2> HIDE DEF of
  <2> QED BY <1>1, <1>2, FS_UNION
<1>4. every \subseteq Lines
  <2>1. \A r \in Runs : of(r) \subseteq Lines BY LineFacts
  <2> HIDE DEF of
  <2> QED BY <2>1
<1>5. lines \in [1..Cardinality(every) -> every]
  BY DEF Emitted
<1>6. Cardinality(every) \in Nat BY <1>3, FS_CardinalityType
<1> HIDE DEF every
<1>7. lines \in Seq(Lines) /\ Len(lines) = Cardinality(every) /\ \A i \in 1..Len(lines) : lines[i] \in every
  BY <1>4, <1>5, <1>6
<1> QED BY <1>7 DEF every

LEMMA Appended ==
  ASSUME NEW p \in Seq(Lines), NEW q \in Seq(Lines)
  PROVE  /\ p \o q \in Seq(Lines) /\ Len(p \o q) = Len(p) + Len(q)
         /\ \A i \in 1..Len(p) : (p \o q)[i] = p[i]
         /\ \A i \in 1..Len(p \o q) : \/ i \in 1..Len(p) /\ (p \o q)[i] = p[i]
                                      \/ i > Len(p) /\ \E j \in 1..Len(q) : (p \o q)[i] = q[j]
<1>1. /\ p \o q \in Seq(Lines) /\ Len(p \o q) = Len(p) + Len(q)
      /\ \A i \in 1..Len(p) : (p \o q)[i] = p[i]
  OBVIOUS
<1>2. ASSUME NEW i \in 1..Len(p \o q), i \notin 1..Len(p)
      PROVE  i > Len(p) /\ \E j \in 1..Len(q) : (p \o q)[i] = q[j]
  <2>1. i - Len(p) \in 1..Len(q) /\ i > Len(p) BY <1>1, <1>2
  <2>2. (p \o q)[i] = q[i - Len(p)] BY <1>2, <2>1
  <2> QED BY <2>1, <2>2
<1> QED BY <1>1, <1>2

\* What the lines q add.
LEMMA UntoldAppended ==
  ASSUME NEW p \in Seq(Lines), NEW q \in Seq(Lines), NEW r, NEW t
  PROVE  /\ Untold(p \o q, r, t) <=> Untold(p, r, t) /\ Untold(q, r, t)
         /\ Unended(p \o q, r, t) <=> Unended(p, r, t) /\ Unended(q, r, t)
<1>1. /\ Len(p \o q) = Len(p) + Len(q) /\ Len(p) \in Nat /\ Len(q) \in Nat
      /\ \A i \in 1..Len(p) : (p \o q)[i] = p[i]
      /\ \A j \in 1..Len(q) : (p \o q)[Len(p) + j] = q[j] /\ Len(p) + j \in 1..Len(p \o q)
      /\ \A i \in 1..Len(p) : i \in 1..Len(p \o q)
  OBVIOUS
<1>2. \A i \in 1..Len(p \o q) : \/ i \in 1..Len(p) /\ (p \o q)[i] = p[i]
                                \/ i > Len(p) /\ \E j \in 1..Len(q) : (p \o q)[i] = q[j]
  BY Appended
<1> HIDE DEF Tells, Finishes
<1>3. Untold(p \o q, r, t) <=> Untold(p, r, t) /\ Untold(q, r, t)
  <2>1. Untold(p \o q, r, t) => Untold(p, r, t) /\ Untold(q, r, t)
    BY <1>1 DEF Untold
  <2>2. Untold(p, r, t) /\ Untold(q, r, t) => Untold(p \o q, r, t)
    BY <1>2 DEF Untold
  <2> QED BY <2>1, <2>2
<1>4. Unended(p \o q, r, t) <=> Unended(p, r, t) /\ Unended(q, r, t)
  <2>1. Unended(p \o q, r, t) => Unended(p, r, t) /\ Unended(q, r, t)
    BY <1>1 DEF Unended
  <2>2. Unended(p, r, t) /\ Unended(q, r, t) => Unended(p \o q, r, t)
    BY <1>2 DEF Unended
  <2> QED BY <2>1, <2>2
<1> QED BY <1>3, <1>4

\* d is what emitSubagentTasks makes of context c, which is "grown" when its workers are bound:
\* nothing when the run has no more workers.
Settled(d, c, grown, l, cancelled) ==
    \/ /\ d \in Context /\ d.state = c.state /\ c.state # "none"
       /\ d.pending = grown.pending /\ d.task = grown.task
    \/ d = NoContext /\ (c.state = "none" \/ Over(grown, l) \/ cancelled)

IsCancelled(r) == run[r].status = "cancelled"

\* Lines q about run r come from its context c and list l.
ComeFrom(q, r, c, l) ==
    \A i \in 1..Len(q) : q[i].run = r /\ q[i].kind = "tasks" => q[i] \in LinesOf(r, c, l)

LEMMA NoContextIsEmpty ==
  /\ NoContext \in Context /\ Distinct(NoContext) /\ NoContext.state = "none"
  /\ NoContext.pending = {} /\ \A w \in Workers : NoContext.task[w] = 0
  BY DEF NoContext, Context, Distinct

LEMMA SettledFits ==
  ASSUME NEW r \in Runs, NEW c \in Context, NEW l \in List, NEW d, NEW ts,
         NEW p \in Seq(Lines), NEW q \in Seq(Lines),
         Distinct(c), Supported(c, l), Settled(d, c, Assigned(r, c, l), l, IsCancelled(r)), ComeFrom(q, r, c, l)
  PROVE  /\ d \in Context /\ Distinct(d) /\ Supported(d, l)
         /\ ~IsCancelled(r) /\ PendingWaits(r, c, ts, p) /\ LiveWorks(r, c, l, ts, p) =>
                /\ PendingWaits(r, d, ts, p \o q) /\ LiveWorks(r, d, l, ts, p \o q)
                /\ \A w \in Workers : c.task[w] # 0 /\ Live(l, w) => d.task[w] # 0
         /\ c.state = "open" /\ ~IsCancelled(r) =>
                /\ d.state = "open"
                /\ \A t \in Tasks : Knows(c, t) /\ ~Knows(d, t) => t \in c.pending
                /\ \A t : ~Knows(d, t) => Untold(q, r, t)
<1> DEFINE a == Assigned(r, c, l)
<1>1. Grows(a, c, l) /\ Distinct(a) BY AssignedGrows
<1>2. \A i \in 1..Len(q) : \A t : Tells(q[i], r, t) =>
          \E w \in Workers : /\ a.task[w] = t /\ t # 0
                             /\ Live(l, w) => q[i].updates[t] = "running"
  <2>1. ASSUME NEW i \in 1..Len(q), NEW t, Tells(q[i], r, t)
        PROVE  \E w \in Workers : /\ a.task[w] = t /\ t # 0
                                  /\ Live(l, w) => q[i].updates[t] = "running"
    <3>1. q[i] \in LinesOf(r, c, l) BY <2>1 DEF ComeFrom, Tells
    <3>2. PICK w \in Workers : /\ a.task[w] = t /\ t # 0 /\ l[w].state # "none"
                               /\ Live(l, w) => q[i].updates[t] = "running"
      BY <2>1, <3>1, LineFacts
    <3> QED BY <3>2
  <2> QED BY <2>1
<1> HIDE DEF a
<1>3. CASE /\ d \in Context /\ d.state = c.state /\ c.state # "none"
           /\ d.pending = a.pending /\ d.task = a.task
  <2>1. Distinct(d) /\ Supported(d, l)
    BY <1>1, <1>3 DEF Distinct, Supported, Grows
  <2>2. \A t : (\E w \in Workers : a.task[w] = t /\ t # 0) => t \notin d.pending /\ Knows(d, t)
    BY <1>1, <1>3 DEF Distinct, Knows
  <2>3. \A t \in d.pending : Untold(q, r, t)
    BY <1>2, <2>2 DEF Untold
  <2>4. \A t : ~Knows(d, t) => Untold(q, r, t)
    BY <1>2, <2>2 DEF Untold
  <2>5. \A w \in Workers : d.task[w] # 0 /\ Live(l, w) => Unended(q, r, d.task[w])
    <3>1. ASSUME NEW w \in Workers, d.task[w] # 0, Live(l, w), NEW i \in 1..Len(q), Finishes(q[i], r, d.task[w])
          PROVE  FALSE
      <4>1. PICK v \in Workers : /\ a.task[v] = d.task[w]
                                 /\ Live(l, v) => q[i].updates[d.task[w]] = "running"
        BY <1>2, <3>1 DEF Finishes
      <4>2. v = w BY <1>1, <1>3, <3>1, <4>1 DEF Distinct
      <4> QED BY <3>1, <4>1, <4>2 DEF Finishes
    <3> QED BY <3>1 DEF Unended
  <2>6. ASSUME PendingWaits(r, c, ts, p)
        PROVE  PendingWaits(r, d, ts, p \o q)
    BY <1>1, <1>3, <2>3, <2>6, UntoldAppended DEF PendingWaits, Grows
  <2>7. ASSUME PendingWaits(r, c, ts, p), LiveWorks(r, c, l, ts, p)
        PROVE  LiveWorks(r, d, l, ts, p \o q)
    <3>1. ASSUME NEW w \in Workers, d.task[w] # 0, Live(l, w)
          PROVE  ts[d.task[w]].status \in Unfinished /\ Unended(p \o q, r, d.task[w])
      <4>1. CASE c.task[w] # 0
        <5>1. d.task[w] = c.task[w] BY <1>1, <1>3, <4>1 DEF Grows
        <5> QED BY <2>5, <2>7, <3>1, <4>1, <5>1, UntoldAppended DEF LiveWorks
      <4>2. CASE c.task[w] = 0
        <5>1. d.task[w] \in c.pending BY <1>1, <1>3, <3>1, <4>2 DEF Grows
        <5>2. Unended(p, r, d.task[w]) /\ ts[d.task[w]].status \in Unfinished
          BY <2>7, <5>1 DEF PendingWaits, Untold, Unended, Finishes
        <5> QED BY <2>5, <3>1, <5>2, UntoldAppended
      <4> QED BY <4>1, <4>2
    <3> QED BY <3>1 DEF LiveWorks
  <2>8. \A w \in Workers : c.task[w] # 0 => d.task[w] # 0
    BY <1>1, <1>3 DEF Grows
  <2>9. \A t \in Tasks : Knows(c, t) /\ ~Knows(d, t) => t \in c.pending
    BY <1>1, <1>3 DEF Knows, Grows, Tasks
  <2> QED BY <1>3, <2>1, <2>4, <2>6, <2>7, <2>8, <2>9
<1>4. CASE d = NoContext /\ (c.state = "none" \/ Over(a, l) \/ IsCancelled(r))
  <2>1. d \in Context /\ Distinct(d) /\ Supported(d, l) /\ d.pending = {} /\ \A w \in Workers : d.task[w] = 0
    BY <1>4, NoContextIsEmpty DEF Supported
  <2>2. PendingWaits(r, d, ts, p \o q) /\ LiveWorks(r, d, l, ts, p \o q)
    BY <2>1 DEF PendingWaits, LiveWorks
  <2>3. ASSUME ~IsCancelled(r)
        PROVE  c.state # "open" /\ \A w \in Workers : c.task[w] # 0 => ~Live(l, w)
    <3>1. CASE c.state = "none" BY <3>1 DEF Supported
    <3>2. CASE Over(a, l)
      BY <1>1, <3>2 DEF Over, StillRunning, Grows
    <3> QED BY <1>4, <2>3, <3>1, <3>2
  <2> QED BY <2>1, <2>2, <2>3
<1> QED BY <1>3, <1>4 DEF Settled, a

-----------------------------------------------------------------------------
(* The invariant of the steps between faults                                *)

BridgeTypeOK ==
    /\ contexts \in [Runs -> Context] /\ rows \in List
    /\ launch \in [worker : Workers \cup {NoWorker}, prompt : AnyPrompt, allowed : BOOLEAN]
    /\ stopping \subseteq [n : {1, 2}, run : Runs, current : BOOLEAN]
    /\ process \in [Workers -> [state : {"none", "alive", "succeeded", "failed"}, run : Runs \cup {NoRun}]]
    /\ pipe \in Seq(Lines)
    /\ commands \in Seq([run : Runs, needed : BOOLEAN])
    /\ call \in [stage : {"none", "asked", "handling", "answered"}, action : Actions \cup {"none", "failed"},
                 run : Runs \cup {NoRun}, prompt : AnyPrompt, task : Tasks \cup {0}, heard : BOOLEAN]

\* No line says that the session failed.
NoneOf(kind, p) == \A i \in 1..Len(p) : p[i].kind # kind

Undisturbed ==
    sidecar /\ registered /\ ~halting.under_way /\ call.heard /\ NoneOf("error", pipe)

\* The agent does one thing at a time, and asks for it once.
OneThingAtATime ==
    /\ call.stage # "none" => launch = NoLaunch
    /\ call.stage # "asked" => NoneOf("ask", pipe)
    /\ \A i, j \in 1..Len(pipe) : pipe[i].kind = "ask" /\ pipe[j].kind = "ask" => i = j

\* The list has a worker as long as its process is alive.
RowsTellProcesses ==
    /\ launch.worker = NoWorker => launch = NoLaunch
    /\ \A w \in Workers :
        /\ rows[w].state = "start" <=> launch.worker = w
        /\ rows[w].state \in {"none", "start"} => process[w] = NoProcess
        /\ process[w].state = "alive" => rows[w].state = "running"
        /\ rows[w].state = "running" => process[w].state # "none"

\* What is stopped belongs to a cancelled run.
StopsAreOfCancelled ==
    /\ \A by \in Cancellers :
           cancelling[by].step \in {"flag", "signal"} => run[cancelling[by].run].status = "cancelled"
    /\ cancelling["agent"].step # "none" =>
           call.stage = "handling" /\ call.action = "cancel" /\ cancelling["agent"].run = call.run
    /\ \A i \in 1..Len(commands) : run[commands[i].run].status = "cancelled"
    /\ \A s \in stopping : run[s.run].status = "cancelled"

\* What an answer on its way to the bridge was about is still so.
AnswersAreSound ==
    call.stage = "answered" =>
        /\ call.action # "failed" => call.run \in Runs
        /\ call.action = "cancel" => run[call.run].status = "cancelled"
        /\ call.action = "complete" => run[call.run].status = "completed"
        /\ call.action \in {"start", "resume", "gap_fill"} =>
               run[call.run].status # "none" /\ \A q \in Runs \ {call.run} : ~Active(q)
        /\ call.action \in {"start", "gap_fill"} =>
               \A w \in Workers : process[w].run = call.run => process[w].state # "alive"
        /\ call.action = "register" => call.task \in Tasks

\* When a task is registered, all that was ever written about it is read, unless the context
\* knows the task and will not give it to a worker again.
RegistersAreNew ==
    call.action = "register" /\ call.run \in Runs =>
        LET r == call.run
            c == contexts[r]
        IN  /\ call.stage = "asked" /\ Active(r) =>
                   \A i, j \in 1..Len(pipe), t \in Tasks :
                       pipe[j].kind = "ask" /\ Tells(pipe[i], r, t) /\ ~Knows(c, t) => i < j
            /\ call.stage = "handling" /\ Active(r) =>
                   \A t \in Tasks : ~Knows(c, t) => Untold(pipe, r, t)
            /\ call.stage = "answered" /\ Going(r) =>
                   /\ c.state = "open"
                   /\ ~Knows(c, call.task) =>
                          tasks[r][call.task].status \in Unfinished /\ Untold(pipe, r, call.task)

Awaited(r) == call.stage = "answered" /\ call.action \in {"start", "resume"} /\ call.run = r

\* The context of the run that is running is open, once the bridge heard of it.
ActiveIsOpen == \A r \in Runs : Active(r) => contexts[r].state = "open" \/ Awaited(r)

ContextsFit ==
    \A r \in Runs :
        /\ Distinct(contexts[r]) /\ Supported(contexts[r], rows)
        /\ run[r].status = "none" => contexts[r].state = "none"
        /\ Going(r) => /\ PendingWaits(r, contexts[r], tasks[r], pipe)
                       /\ LiveWorks(r, contexts[r], rows, tasks[r], pipe)

\* A process that is alive works on a task of the context of its run.
ProcessesHaveTasks ==
    \A r \in Runs, w \in Workers : process[w].run = r =>
        /\ run[r].status # "none"
        /\ process[w].state = "alive" /\ Going(r) => contexts[r].task[w] # 0

WorkersInv ==
    /\ BridgeTypeOK /\ Undisturbed /\ OneThingAtATime /\ RowsTellProcesses /\ StopsAreOfCancelled
    /\ AnswersAreSound /\ RegistersAreNew /\ ActiveIsOpen /\ ContextsFit /\ ProcessesHaveTasks

Faultless == losses = 0 /\ stops = 0
CountersInv == losses \in Nat /\ stops \in Nat

SynthesisInv == AppInv /\ RunsInv /\ CountersInv /\ (Faultless => WorkersInv)

LEMMA InitSynthesis == Init => SynthesisInv
<1> SUFFICES ASSUME Init PROVE SynthesisInv OBVIOUS
<1>1. AppInv /\ RunsInv BY InitApp, InitRuns DEF Init
<1>2. CountersInv BY DEF Init, CountersInv
<1>3. BridgeTypeOK
  <2>1. contexts \in [Runs -> Context] BY NoContextIsEmpty DEF Init
  <2>2. rows \in List BY DEF Init, List, Row, NoRow, AnyPrompt
  <2>3. /\ launch \in [worker : Workers \cup {NoWorker}, prompt : AnyPrompt, allowed : BOOLEAN]
        /\ stopping \subseteq [n : {1, 2}, run : Runs, current : BOOLEAN]
    BY DEF Init, NoLaunch, AnyPrompt
  <2>4. process \in [Workers -> [state : {"none", "alive", "succeeded", "failed"}, run : Runs \cup {NoRun}]]
    BY DEF Init, NoProcess
  <2>5. pipe \in Seq(Lines) /\ commands \in Seq([run : Runs, needed : BOOLEAN])
    BY DEF Init
  <2>6. call \in [stage : {"none", "asked", "handling", "answered"}, action : Actions \cup {"none", "failed"},
                  run : Runs \cup {NoRun}, prompt : AnyPrompt, task : Tasks \cup {0}, heard : BOOLEAN]
    BY DEF Init, NoCall, AnyPrompt
  <2> QED BY <2>1, <2>2, <2>3, <2>4, <2>5, <2>6 DEF BridgeTypeOK
<1>4. Undisturbed /\ OneThingAtATime
  BY DEF Init, Undisturbed, OneThingAtATime, NoneOf, NoHalt, NoCall
<1>5. RowsTellProcesses
  BY DEF Init, RowsTellProcesses, NoRow, NoLaunch, NoWorker, NoProcess, Workers
<1>6. StopsAreOfCancelled /\ AnswersAreSound /\ RegistersAreNew
  BY DEF Init, StopsAreOfCancelled, AnswersAreSound, RegistersAreNew, NoCancel, NoCall, Cancellers
<1>7. \A r \in Runs : run[r].status = "none" BY DEF Init, RunsInit
<1>8. ActiveIsOpen /\ ContextsFit /\ ProcessesHaveTasks
  <2>1. \A r \in Runs : contexts[r] = NoContext BY DEF Init
  <2>2. \A w \in Workers : process[w].run \notin Runs BY DEF Init, NoProcess, NoRun, Runs
  <2> QED
    BY <1>7, <2>1, <2>2, NoContextIsEmpty DEF ActiveIsOpen, Active, ContextsFit, ProcessesHaveTasks, Supported, Going
<1> QED BY <1>1, <1>2, <1>3, <1>4, <1>5, <1>6, <1>8 DEF SynthesisInv, WorkersInv

\* The run that synthesizes has no worker.
LEMMA NoWorkersAtSynthesis ==
  ASSUME WorkersInv, SynthesisWaitsForWorkers, NEW r \in Runs, Active(r), run[r].phase \in Synthesis,
         NEW w \in Workers, process[w].run = r
  PROVE  process[w].state # "alive"
<1>1. SUFFICES ASSUME process[w].state = "alive" PROVE FALSE OBVIOUS
<1>2. Going(r) /\ contexts[r].task[w] # 0 /\ Live(rows, w)
  BY <1>1 DEF Active, Going, WorkersInv, ProcessesHaveTasks, RowsTellProcesses, Live
<1>3. contexts[r].task[w] \in Tasks
  BY <1>2 DEF WorkersInv, BridgeTypeOK, Context
<1>4. tasks[r][contexts[r].task[w]].status \in Unfinished
  BY <1>2 DEF WorkersInv, ContextsFit, LiveWorks
<1> QED BY <1>3, <1>4 DEF SynthesisWaitsForWorkers

LEMMA SynthesisInvImplies == SynthesisInv => SynthesisHasNoWorkers
<1> SUFFICES ASSUME SynthesisInv, Faultless PROVE SynthesisHasNoWorkers
  BY DEF SynthesisHasNoWorkers, Faultless
<1>1. WorkersInv /\ SynthesisWaitsForWorkers BY RunsInvImplies DEF SynthesisInv
<1> QED BY <1>1, NoWorkersAtSynthesis DEF SynthesisHasNoWorkers

-----------------------------------------------------------------------------
(* Steps that write lines about the workers                                 *)

\* The contexts "all" and the list l are written, with lines q.
LEMMA EmissionKeeps ==
  ASSUME WorkersInv, NEW all \in [Runs -> Context], NEW l \in List, NEW q \in Seq(Lines),
         \A r \in Runs :
            /\ Distinct(all[r]) /\ Supported(all[r], l) /\ all[r].state = contexts[r].state
            /\ Going(r) => /\ PendingWaits(r, all[r], tasks[r], pipe)
                           /\ LiveWorks(r, all[r], l, tasks[r], pipe)
            /\ Settled(contexts'[r], all[r], Assigned(r, all[r], l), l, IsCancelled(r))
            /\ ComeFrom(q, r, all[r], l),
         contexts' = [r \in Runs |-> contexts'[r]], rows' = l, pipe' = pipe \o q, UNCHANGED runVars
  PROVE  /\ contexts' \in [Runs -> Context] /\ rows' \in List /\ pipe' \in Seq(Lines) /\ ContextsFit'
         /\ \A r \in Runs, w \in Workers :
                Going(r) /\ all[r].task[w] # 0 /\ Live(l, w) => contexts'[r].task[w] # 0
         /\ \A r \in Runs : Going(r) /\ contexts[r].state = "open" => contexts'[r].state = "open"
<1>1. pipe \in Seq(Lines) /\ pipe' \in Seq(Lines) BY DEF WorkersInv, BridgeTypeOK
<1>2. UNCHANGED <<run, tasks>> /\ \A r \in Runs : Going(r)' <=> Going(r) BY DEF runVars, Going
<1>3. ASSUME NEW r \in Runs
      PROVE  /\ contexts'[r] \in Context /\ Distinct(contexts'[r]) /\ Supported(contexts'[r], l)
             /\ Going(r) => /\ PendingWaits(r, contexts'[r], tasks[r], pipe \o q)
                            /\ LiveWorks(r, contexts'[r], l, tasks[r], pipe \o q)
                            /\ \A w \in Workers : all[r].task[w] # 0 /\ Live(l, w) => contexts'[r].task[w] # 0
                            /\ all[r].state = "open" => contexts'[r].state = "open"
  <2>1. Going(r) => ~IsCancelled(r) BY DEF Going, IsCancelled
  <2>2. /\ all[r] \in Context /\ Distinct(all[r]) /\ Supported(all[r], l)
        /\ Settled(contexts'[r], all[r], Assigned(r, all[r], l), l, IsCancelled(r))
            /\ ComeFrom(q, r, all[r], l)
        /\ Going(r) => PendingWaits(r, all[r], tasks[r], pipe) /\ LiveWorks(r, all[r], l, tasks[r], pipe)
    BY <1>3
  <2>3. contexts'[r] \in Context /\ Distinct(contexts'[r]) /\ Supported(contexts'[r], l)
    BY <1>1, <1>3, <2>2, SettledFits
  <2>4. Going(r) => /\ PendingWaits(r, contexts'[r], tasks[r], pipe \o q)
                    /\ LiveWorks(r, contexts'[r], l, tasks[r], pipe \o q)
                    /\ \A w \in Workers : all[r].task[w] # 0 /\ Live(l, w) => contexts'[r].task[w] # 0
    BY <1>1, <1>3, <2>1, <2>2, SettledFits
  <2>5. Going(r) /\ all[r].state = "open" => contexts'[r].state = "open"
    <3>1. Assigned(r, all[r], l).state = all[r].state BY <1>3, <2>2, AssignedGrows DEF Grows
    <3> QED BY <2>1, <2>2, <3>1 DEF Settled, Over
  <2> QED BY <2>3, <2>4, <2>5
<1>4. contexts' \in [Runs -> Context] /\ rows' \in List
  <2>1. \A r \in Runs : contexts'[r] \in Context BY <1>3
  <2> QED BY <2>1
<1>5. ASSUME NEW r \in Runs, run[r].status = "none" PROVE contexts'[r].state = "none"
  <2>1. all[r].state = "none" BY <1>5 DEF WorkersInv, ContextsFit
  <2> QED BY <2>1, NoContextIsEmpty DEF Settled
<1>6. ContextsFit' BY <1>2, <1>3, <1>5 DEF ContextsFit
<1> QED BY <1>1, <1>3, <1>4, <1>6

\* No emission comes between a call to register and the task it is about.
LEMMA EmissionKeepsCalls ==
  ASSUME WorkersInv, NEW all \in [Runs -> Context], NEW l \in List, NEW q \in Seq(Lines),
         \A r \in Runs :
            /\ Distinct(all[r]) /\ Supported(all[r], l)
            /\ Going(r) => all[r] = contexts[r]
            /\ Settled(contexts'[r], all[r], Assigned(r, all[r], l), l, IsCancelled(r))
            /\ ComeFrom(q, r, all[r], l),
         NoneOf("ask", q), pipe' = pipe \o q, UNCHANGED <<runVars, call>>
  PROVE  RegistersAreNew' /\ ActiveIsOpen'
<1>1. pipe \in Seq(Lines) BY DEF WorkersInv, BridgeTypeOK
<1>2. /\ UNCHANGED <<run, tasks>> /\ \A r \in Runs : (Going(r)' <=> Going(r)) /\ (Active(r)' <=> Active(r))
      /\ \A r \in Runs : Active(r) => Going(r)
  BY DEF runVars, Going, Active
<1>3. ASSUME NEW r \in Runs, Going(r), contexts[r].state = "open"
      PROVE  /\ contexts'[r].state = "open"
             /\ \A t \in Tasks : ~Knows(contexts'[r], t) =>
                    /\ Untold(q, r, t)
                    /\ \/ ~Knows(contexts[r], t)
                       \/ tasks[r][t].status \in Unfinished /\ Untold(pipe, r, t)
  <2>1. ~IsCancelled(r) /\ all[r] = contexts[r] BY <1>3 DEF Going, IsCancelled
  <2>2. /\ contexts'[r].state = "open"
        /\ \A t \in Tasks : ~Knows(contexts'[r], t) =>
               Untold(q, r, t) /\ (~Knows(contexts[r], t) \/ t \in contexts[r].pending)
    <3>1. /\ all[r] \in Context /\ Distinct(all[r]) /\ Supported(all[r], l)
          /\ Settled(contexts'[r], all[r], Assigned(r, all[r], l), l, IsCancelled(r))
            /\ ComeFrom(q, r, all[r], l)
      BY <1>3
    <3> QED BY <1>1, <1>3, <2>1, <3>1, SettledFits
  <2>3. PendingWaits(r, contexts[r], tasks[r], pipe) BY <1>3 DEF WorkersInv, ContextsFit
  <2> QED BY <2>2, <2>3 DEF PendingWaits
<1>4. ActiveIsOpen'
  <2>1. \A r \in Runs : Awaited(r)' <=> Awaited(r) BY DEF Awaited
  <2> QED BY <1>2, <1>3, <2>1 DEF WorkersInv, ActiveIsOpen
<1>5. ASSUME call.action = "register", call.run \in Runs, Going(call.run), contexts[call.run].state = "open"
      PROVE  LET r == call.run
                 c == contexts'[r]
             IN  /\ call.stage = "asked" /\ Active(r) =>
                       \A i, j \in 1..Len(pipe'), t \in Tasks :
                           pipe'[j].kind = "ask" /\ Tells(pipe'[i], r, t) /\ ~Knows(c, t) => i < j
                 /\ call.stage = "handling" /\ Active(r) =>
                       \A t \in Tasks : ~Knows(c, t) => Untold(pipe', r, t)
                 /\ call.stage = "answered" =>
                       /\ c.state = "open"
                       /\ ~Knows(c, call.task) =>
                              tasks[r][call.task].status \in Unfinished /\ Untold(pipe', r, call.task)
  <2> DEFINE r == call.run
  <2>1. ASSUME NEW i \in 1..Len(pipe'), NEW j \in 1..Len(pipe'), NEW t \in Tasks, call.stage = "asked",
               Active(r), pipe'[j].kind = "ask", Tells(pipe'[i], r, t), ~Knows(contexts'[r], t)
        PROVE  i < j
    <3>1. Untold(q, r, t) /\ (~Knows(contexts[r], t) \/ Untold(pipe, r, t)) BY <1>3, <1>5, <2>1
    <3>2. i \in 1..Len(pipe) /\ pipe'[i] = pipe[i]
      <4>1. \/ i \in 1..Len(pipe) /\ pipe'[i] = pipe[i]
            \/ i > Len(pipe) /\ \E k \in 1..Len(q) : pipe'[i] = q[k]
        BY <1>1, Appended
      <4> QED BY <2>1, <3>1, <4>1 DEF Untold
    <3>3. j \in 1..Len(pipe) /\ pipe'[j] = pipe[j]
      <4>1. \/ j \in 1..Len(pipe) /\ pipe'[j] = pipe[j]
            \/ j > Len(pipe) /\ \E k \in 1..Len(q) : pipe'[j] = q[k]
        BY <1>1, Appended
      <4> QED BY <2>1, <4>1 DEF NoneOf
    <3>4. ~Knows(contexts[r], t) BY <2>1, <3>1, <3>2 DEF Untold
    <3> QED BY <1>5, <2>1, <3>2, <3>3, <3>4 DEF WorkersInv, RegistersAreNew
  <2>2. ASSUME call.stage = "handling", Active(r), NEW t \in Tasks, ~Knows(contexts'[r], t)
        PROVE  Untold(pipe', r, t)
    <3>1. Untold(q, r, t) /\ (~Knows(contexts[r], t) \/ Untold(pipe, r, t)) BY <1>3, <1>5, <2>2
    <3>2. Untold(pipe, r, t) BY <1>5, <2>2, <3>1 DEF WorkersInv, RegistersAreNew
    <3> QED BY <1>1, <3>1, <3>2, UntoldAppended
  <2>3. ASSUME call.stage = "answered"
        PROVE  /\ contexts'[r].state = "open"
               /\ ~Knows(contexts'[r], call.task) =>
                      tasks[r][call.task].status \in Unfinished /\ Untold(pipe', r, call.task)
    <3>1. call.task \in Tasks BY <1>5, <2>3 DEF WorkersInv, AnswersAreSound
    <3>2. contexts'[r].state = "open" BY <1>3, <1>5
    <3>3. ASSUME ~Knows(contexts'[r], call.task)
          PROVE  tasks[r][call.task].status \in Unfinished /\ Untold(pipe', r, call.task)
      <4>1. /\ Untold(q, r, call.task)
            /\ \/ ~Knows(contexts[r], call.task)
               \/ tasks[r][call.task].status \in Unfinished /\ Untold(pipe, r, call.task)
        BY <1>3, <1>5, <3>1, <3>3
      <4>2. tasks[r][call.task].status \in Unfinished /\ Untold(pipe, r, call.task)
        BY <1>5, <2>3, <4>1 DEF WorkersInv, RegistersAreNew
      <4> QED BY <1>1, <4>1, <4>2, UntoldAppended
    <3> QED BY <3>2, <3>3
  <2> QED BY <2>1, <2>2, <2>3
<1>6. ASSUME call.action = "register", call.run \in Runs, Active(call.run) \/ (call.stage = "answered" /\ Going(call.run))
      PROVE  Going(call.run) /\ contexts[call.run].state = "open"
  BY <1>2, <1>6 DEF WorkersInv, ActiveIsOpen, Awaited, RegistersAreNew
<1>7. RegistersAreNew' BY <1>2, <1>5, <1>6 DEF RegistersAreNew
<1> QED BY <1>4, <1>7

LEMMA NoneAppended ==
  ASSUME NEW p \in Seq(Lines), NEW q \in Seq(Lines), NEW kind
  PROVE  NoneOf(kind, p \o q) <=> NoneOf(kind, p) /\ NoneOf(kind, q)
<1>1. /\ Len(p \o q) = Len(p) + Len(q) /\ Len(p) \in Nat /\ Len(q) \in Nat
      /\ \A i \in 1..Len(p) : (p \o q)[i] = p[i] /\ i \in 1..Len(p \o q)
      /\ \A j \in 1..Len(q) : (p \o q)[Len(p) + j] = q[j] /\ Len(p) + j \in 1..Len(p \o q)
  OBVIOUS
<1>2. NoneOf(kind, p \o q) => NoneOf(kind, p) /\ NoneOf(kind, q) BY <1>1 DEF NoneOf
<1>3. NoneOf(kind, p) /\ NoneOf(kind, q) => NoneOf(kind, p \o q) BY Appended DEF NoneOf
<1> QED BY <1>2, <1>3

\* Neither a call nor an error of the session.
Plain(q) == NoneOf("ask", q) /\ NoneOf("error", q)

\* What plain lines do not change.
PipeKeeps ==
    /\ NoneOf("error", pipe')
    /\ NoneOf("ask", pipe) => NoneOf("ask", pipe')
    /\ \A i, j \in 1..Len(pipe') : pipe'[i].kind = "ask" /\ pipe'[j].kind = "ask" => i = j

LEMMA PlainLinesKeep ==
  ASSUME WorkersInv, NEW q \in Seq(Lines), Plain(q), pipe' = pipe \o q
  PROVE  PipeKeeps
<1>1. pipe \in Seq(Lines) /\ NoneOf("error", pipe)
  BY DEF WorkersInv, BridgeTypeOK, Undisturbed
<1>2. NoneOf("error", pipe') /\ (NoneOf("ask", pipe) => NoneOf("ask", pipe'))
  BY <1>1, NoneAppended DEF Plain
<1>3. ASSUME NEW i \in 1..Len(pipe'), pipe'[i].kind = "ask"
      PROVE  i \in 1..Len(pipe) /\ pipe'[i] = pipe[i]
  <2>1. \/ i \in 1..Len(pipe) /\ pipe'[i] = pipe[i]
        \/ i > Len(pipe) /\ \E k \in 1..Len(q) : pipe'[i] = q[k]
    BY <1>1, Appended
  <2> QED BY <1>3, <2>1 DEF Plain, NoneOf
<1> QED BY <1>2, <1>3 DEF PipeKeeps, WorkersInv, OneThingAtATime

\* What emitSubagentTasks writes, and what it makes of the contexts.
LEMMA EmittedSettles ==
  ASSUME NEW all \in [Runs -> Context], NEW l \in List, \A r \in Runs : Distinct(all[r]),
         NEW q \in Emitted(all, l)
  PROVE  /\ q \in Seq(Lines) /\ Plain(q)
         /\ \A r \in Runs :
                /\ ComeFrom(q, r, all[r], l)
                /\ Settled(AfterEmit(r, all[r], l), all[r], Assigned(r, all[r], l), l, IsCancelled(r))
<1>1. /\ q \in Seq(Lines)
      /\ \A i \in 1..Len(q) : \E r \in Runs : q[i] \in LinesOf(r, all[r], l)
  BY EmittedFacts
<1>2. \A i \in 1..Len(q) : /\ q[i].kind \in {"tasks", "confirmed"}
                           /\ \A r \in Runs : q[i].run = r => q[i] \in LinesOf(r, all[r], l)
  <2>1. ASSUME NEW i \in 1..Len(q)
        PROVE  /\ q[i].kind \in {"tasks", "confirmed"}
               /\ \A r \in Runs : q[i].run = r => q[i] \in LinesOf(r, all[r], l)
    <3>1. PICK r \in Runs : q[i] \in LinesOf(r, all[r], l) BY <1>1
    <3>2. q[i].kind \in {"tasks", "confirmed"} /\ q[i].run = r BY <3>1, LineFacts
    <3> QED BY <3>1, <3>2
  <2> QED BY <2>1
<1>3. Plain(q) BY <1>2 DEF Plain, NoneOf
<1>4. ASSUME NEW r \in Runs
      PROVE  Settled(AfterEmit(r, all[r], l), all[r], Assigned(r, all[r], l), l, IsCancelled(r))
  <2>1. Assigned(r, all[r], l) \in Context /\ Assigned(r, all[r], l).state = all[r].state
    BY AssignedGrows DEF Grows
  <2> QED BY <2>1 DEF Settled, AfterEmit
<1> QED BY <1>1, <1>2, <1>3, <1>4 DEF ComeFrom

\* l has every worker the list has, and says of none but new ones that they run.
Later(l) ==
    \A w \in Workers :
        /\ rows[w].state # "none" => l[w].state # "none"
        /\ Live(l, w) => Live(rows, w) \/ rows[w].state = "none"

LEMMA LaterFits ==
  ASSUME WorkersInv, NEW l \in List, Later(l), NEW r \in Runs
  PROVE  /\ Distinct(contexts[r]) /\ Supported(contexts[r], l)
         /\ Going(r) => /\ PendingWaits(r, contexts[r], tasks[r], pipe)
                        /\ LiveWorks(r, contexts[r], l, tasks[r], pipe)
<1>1. /\ Distinct(contexts[r]) /\ Supported(contexts[r], rows)
      /\ Going(r) => /\ PendingWaits(r, contexts[r], tasks[r], pipe)
                     /\ LiveWorks(r, contexts[r], rows, tasks[r], pipe)
  BY DEF WorkersInv, ContextsFit
<1>2. Supported(contexts[r], l) BY <1>1 DEF Supported, Later
<1>3. \A w \in Workers : contexts[r].task[w] # 0 /\ Live(l, w) => Live(rows, w)
  BY <1>1 DEF Supported, Later
<1>4. Going(r) => LiveWorks(r, contexts[r], l, tasks[r], pipe)
  BY <1>1, <1>3 DEF LiveWorks
<1> QED BY <1>1, <1>2, <1>4

\* A step that only writes a later list, with its lines.
LEMMA LaterListKeeps ==
  ASSUME WorkersInv, NEW l \in List, Later(l), Emit(contexts, l), UNCHANGED <<runVars, call>>
  PROVE  /\ contexts' \in [Runs -> Context] /\ rows' \in List /\ pipe' \in Seq(Lines)
         /\ PipeKeeps /\ ContextsFit' /\ RegistersAreNew' /\ ActiveIsOpen'
         /\ \A r \in Runs, w \in Workers :
                Going(r) /\ contexts[r].task[w] # 0 /\ Live(l, w) => contexts'[r].task[w] # 0
<1>1. /\ contexts \in [Runs -> Context]
      /\ \A r \in Runs : Distinct(contexts[r])
  BY DEF WorkersInv, BridgeTypeOK, ContextsFit
<1>2. PICK q \in Emitted(contexts, l) :
        /\ rows' = l /\ pipe' = pipe \o q
        /\ contexts' = [r \in Runs |-> AfterEmit(r, contexts[r], l)]
  BY DEF Emit
<1>3. /\ q \in Seq(Lines) /\ Plain(q)
      /\ \A r \in Runs :
            /\ ComeFrom(q, r, contexts[r], l)
            /\ Settled(contexts'[r], contexts[r], Assigned(r, contexts[r], l), l, IsCancelled(r))
      /\ contexts' = [r \in Runs |-> contexts'[r]]
  BY <1>1, <1>2, EmittedSettles
<1>4. PipeKeeps BY <1>2, <1>3, PlainLinesKeep
<1>5. /\ contexts' \in [Runs -> Context] /\ rows' \in List /\ pipe' \in Seq(Lines) /\ ContextsFit'
      /\ \A r \in Runs, w \in Workers :
             Going(r) /\ contexts[r].task[w] # 0 /\ Live(l, w) => contexts'[r].task[w] # 0
  BY <1>1, <1>2, <1>3, LaterFits, EmissionKeeps
<1>6. RegistersAreNew' /\ ActiveIsOpen'
  BY <1>1, <1>2, <1>3, LaterFits, EmissionKeepsCalls DEF Plain
<1> QED BY <1>4, <1>5, <1>6

\* Launches, their ends, and polls: what is left to show of such a step is what it says of its worker.
LEMMA LaterStepKeeps ==
  ASSUME WorkersInv, NEW l \in List, Later(l), Emit(contexts, l),
         UNCHANGED <<runVars, halting, stopping, appVars, sidecar, commands, call>>,
         launch' \in [worker : Workers \cup {NoWorker}, prompt : AnyPrompt, allowed : BOOLEAN],
         process' \in [Workers -> [state : {"none", "alive", "succeeded", "failed"}, run : Runs \cup {NoRun}]],
         RowsTellProcesses', call.stage # "none" => UNCHANGED process /\ launch' = NoLaunch,
         \A w \in Workers : \/ process'[w] = process[w]
                            \/ process'[w].run \in Runs => contexts[process'[w].run].task[w] # 0
  PROVE  WorkersInv'
<1>1. /\ contexts' \in [Runs -> Context] /\ rows' \in List /\ pipe' \in Seq(Lines)
      /\ PipeKeeps /\ ContextsFit' /\ RegistersAreNew' /\ ActiveIsOpen'
      /\ \A r \in Runs, w \in Workers :
             Going(r) /\ contexts[r].task[w] # 0 /\ Live(l, w) => contexts'[r].task[w] # 0
  BY LaterListKeeps
<1>2. BridgeTypeOK' BY <1>1 DEF WorkersInv, BridgeTypeOK
<1>3. UNCHANGED <<run, tasks, cancelling, registered>> BY DEF runVars, appVars
<1>4. Undisturbed' BY <1>1, <1>3 DEF WorkersInv, Undisturbed, PipeKeeps
<1>5. OneThingAtATime' BY <1>1 DEF WorkersInv, OneThingAtATime, PipeKeeps
<1>6. StopsAreOfCancelled' BY <1>3 DEF WorkersInv, StopsAreOfCancelled
<1>7. AnswersAreSound' BY <1>3 DEF WorkersInv, AnswersAreSound, Active
<1>8. ProcessesHaveTasks'
  <2>1. ASSUME NEW r \in Runs, NEW w \in Workers, process'[w].run = r
        PROVE  /\ run[r].status # "none"
               /\ process'[w].state = "alive" /\ Going(r) => contexts[r].task[w] # 0
    <3>1. CASE process'[w] = process[w]
      BY <2>1, <3>1 DEF WorkersInv, ProcessesHaveTasks
    <3>2. CASE contexts[r].task[w] # 0
      BY <3>2 DEF WorkersInv, ContextsFit, Supported
    <3> QED BY <2>1, <3>1, <3>2
  <2>2. ASSUME NEW w \in Workers, process'[w].state = "alive" PROVE Live(l, w)
    <3>1. rows' = l BY DEF Emit
    <3> QED BY <2>2, <3>1 DEF RowsTellProcesses, Live
  <2>3. \A r \in Runs : Going(r)' <=> Going(r) BY <1>3 DEF Going
  <2> QED BY <1>1, <1>3, <2>1, <2>2, <2>3 DEF ProcessesHaveTasks
<1> QED BY <1>1, <1>2, <1>4, <1>5, <1>6, <1>7, <1>8 DEF WorkersInv

\* A row of the list changes its state.
LEMMA ListChanges ==
  ASSUME WorkersInv, NEW w \in Workers, NEW row \in Row
  PROVE  /\ [rows EXCEPT ![w] = row] \in List
         /\ [rows EXCEPT ![w] = row][w] = row
         /\ \A v \in Workers : v # w => [rows EXCEPT ![w] = row][v] = rows[v]
  BY DEF WorkersInv, BridgeTypeOK, List

LEMMA LaunchBeginsKeeps ==
  ASSUME WorkersInv, NEW p \in Prompts, LaunchBegins(p) PROVE WorkersInv'
<1>1. PICK w \in Workers :
        /\ Unused(w) /\ launch' = [NoLaunch EXCEPT !.worker = w, !.prompt = p]
        /\ Emit(contexts, [rows EXCEPT ![w] = [state |-> "start", prompt |-> p]])
  BY DEF LaunchBegins
<1> DEFINE row == [state |-> "start", prompt |-> p]
           l == [rows EXCEPT ![w] = row]
<1>2. row \in Row BY DEF Row, AnyPrompt
<1>3. l \in List /\ l[w] = row /\ \A v \in Workers : v # w => l[v] = rows[v]
  BY <1>2, ListChanges
<1>4. /\ launch = NoLaunch /\ call.stage = "none" /\ UNCHANGED process
      /\ UNCHANGED <<runVars, halting, stopping, appVars, sidecar, commands, call>>
  BY DEF LaunchBegins, AgentMayAct
<1>5. /\ launch' \in [worker : Workers \cup {NoWorker}, prompt : AnyPrompt, allowed : BOOLEAN]
      /\ launch'.worker = w
  BY <1>1 DEF NoLaunch, AnyPrompt
<1>6. rows[w].state = "none" /\ process[w] = NoProcess BY <1>1 DEF Unused
<1>7. rows' = l BY <1>1 DEF Emit
<1> HIDE DEF l
<1>8. Later(l) BY <1>3, <1>6 DEF Later, Live
<1>9. RowsTellProcesses'
  <2>1. NoWorker \notin Workers BY DEF NoWorker, Workers
  <2>2. /\ launch.worker = NoWorker
        /\ \A v \in Workers :
              /\ rows[v].state = "start" <=> launch.worker = v
              /\ rows[v].state \in {"none", "start"} => process[v] = NoProcess
              /\ process[v].state = "alive" => rows[v].state = "running"
              /\ rows[v].state = "running" => process[v].state # "none"
    BY <1>4 DEF WorkersInv, RowsTellProcesses, NoLaunch
  <2>3. NoProcess.state # "alive" BY DEF NoProcess
  <2>4. ASSUME NEW v \in Workers
        PROVE  /\ l[v].state = "start" <=> launch'.worker = v
               /\ l[v].state \in {"none", "start"} => process[v] = NoProcess
               /\ process[v].state = "alive" => l[v].state = "running"
               /\ l[v].state = "running" => process[v].state # "none"
    <3>1. CASE v = w BY <1>3, <1>5, <1>6, <2>3, <3>1
    <3>2. CASE v # w BY <1>3, <1>5, <2>1, <2>2, <3>2
    <3> QED BY <3>1, <3>2
  <2> QED BY <1>4, <1>5, <1>7, <2>1, <2>4 DEF RowsTellProcesses
<1>10. process \in [Workers -> [state : {"none", "alive", "succeeded", "failed"}, run : Runs \cup {NoRun}]]
  BY DEF WorkersInv, BridgeTypeOK
<1>11. Emit(contexts, l) BY <1>1 DEF l
<1> QED BY <1>3, <1>4, <1>5, <1>8, <1>9, <1>10, <1>11, LaterStepKeeps

\* The launched worker's row while the agent waits.
LEMMA LaunchedIsNew ==
  ASSUME WorkersInv, launch # NoLaunch
  PROVE  /\ launch.worker \in Workers /\ rows[launch.worker].state = "start"
         /\ process[launch.worker] = NoProcess /\ call.stage = "none"
         /\ \A v \in Workers : rows[v].state = "start" => v = launch.worker
         /\ rows[launch.worker] # NoRow
<1>1. launch.worker \in Workers
  BY DEF WorkersInv, BridgeTypeOK, RowsTellProcesses
<1> QED BY <1>1 DEF WorkersInv, RowsTellProcesses, OneThingAtATime, NoRow

\* The launch is over: its worker runs, or has failed to start.
LEMMA LaunchOverKeeps ==
  ASSUME WorkersInv, launch # NoLaunch, launch' = NoLaunch, NEW state \in {"running", "failed"},
         Emit(contexts, With(launch.worker, state)),
         UNCHANGED <<runVars, halting, stopping, appVars, sidecar, commands, call>>,
         \/ state = "failed" /\ UNCHANGED process
         \/ /\ state = "running"
            /\ process' = [process EXCEPT ![launch.worker] =
                              [state |-> "alive", run |-> DoneFor(launch.worker)]]
  PROVE  WorkersInv'
<1> DEFINE w == launch.worker
           row == [rows[w] EXCEPT !.state = state]
           l == With(w, state)
<1>1. /\ w \in Workers /\ rows[w].state = "start" /\ process[w] = NoProcess /\ call.stage = "none"
      /\ \A v \in Workers : rows[v].state = "start" => v = w
  BY LaunchedIsNew
<1>2. rows \in List /\ process \in [Workers -> [state : {"none", "alive", "succeeded", "failed"}, run : Runs \cup {NoRun}]]
  BY DEF WorkersInv, BridgeTypeOK
<1>3. row \in Row /\ row.state = state BY <1>1, <1>2 DEF List, Row
<1>4. l = [rows EXCEPT ![w] = row] BY DEF With
<1>5. l \in List /\ l[w] = row /\ \A v \in Workers : v # w => l[v] = rows[v]
  BY <1>1, <1>3, <1>4, ListChanges
<1>6. rows' = l BY DEF Emit
<1>7. DoneFor(w) \in Runs \cup {NoRun} /\ (DoneFor(w) \in Runs => contexts[DoneFor(w)].task[w] # 0)
  <2> DEFINE Has(r) == contexts[r].task[w] # 0
  <2>1. CASE \E r \in Runs : Has(r)
    <3>1. DoneFor(w) = CHOOSE r \in Runs : Has(r) BY <2>1 DEF DoneFor
    <3> HIDE DEF Has
    <3>2. DoneFor(w) \in Runs /\ Has(DoneFor(w)) BY <2>1, <3>1
    <3> QED BY <3>2 DEF Has
  <2>2. CASE ~\E r \in Runs : Has(r) BY <2>2 DEF DoneFor, NoRun, Runs
  <2> QED BY <2>1, <2>2
<1>8. /\ process' \in [Workers -> [state : {"none", "alive", "succeeded", "failed"}, run : Runs \cup {NoRun}]]
      /\ \A v \in Workers : \/ process'[v] = process[v]
                            \/ /\ v = w /\ state = "running" /\ process'[v].state = "alive"
                               /\ process'[v].run \in Runs => contexts[process'[v].run].task[v] # 0
      /\ state = "running" => process'[w].state = "alive"
  BY <1>1, <1>2, <1>7
<1> HIDE DEF l, row, w
<1>9. Later(l) BY <1>1, <1>3, <1>5 DEF Later, Live
<1>10. RowsTellProcesses'
  <2>1. NoLaunch.worker = NoWorker /\ NoWorker \notin Workers BY DEF NoLaunch, NoWorker, Workers
  <2>2. \A v \in Workers :
              /\ rows[v].state \in {"none", "start"} => process[v] = NoProcess
              /\ process[v].state = "alive" => rows[v].state = "running"
              /\ rows[v].state = "running" => process[v].state # "none"
    BY DEF WorkersInv, RowsTellProcesses
  <2>3. NoProcess.state # "alive" BY DEF NoProcess
  <2>4. ASSUME NEW v \in Workers
        PROVE  /\ l[v].state # "start"
               /\ l[v].state \in {"none", "start"} => process'[v] = NoProcess
               /\ process'[v].state = "alive" => l[v].state = "running"
               /\ l[v].state = "running" => process'[v].state # "none"
    <3>1. CASE v = w BY <1>1, <1>3, <1>5, <1>8, <2>3, <3>1
    <3>2. CASE v # w BY <1>1, <1>5, <1>8, <2>2, <3>2
    <3> QED BY <3>1, <3>2
  <2> QED BY <1>6, <2>1, <2>4 DEF RowsTellProcesses
<1>11. NoLaunch \in [worker : Workers \cup {NoWorker}, prompt : AnyPrompt, allowed : BOOLEAN]
  BY DEF NoLaunch, AnyPrompt
<1>12. Emit(contexts, l) BY DEF l, w
<1> QED BY <1>1, <1>5, <1>8, <1>9, <1>10, <1>11, <1>12, LaterStepKeeps

LEMMA LaunchesKeep ==
  ASSUME WorkersInv, LaunchIsJudged \/ LaunchEnds PROVE WorkersInv'
<1>1. CASE LaunchIsJudged /\ launch' # NoLaunch
  <2>1. /\ launch # NoLaunch /\ launch' = [launch EXCEPT !.allowed = TRUE]
        /\ UNCHANGED <<contexts, rows, pipe, runVars, halting, stopping, appVars, process, sidecar, commands, call>>
    BY <1>1 DEF LaunchIsJudged
  <2>2. /\ launch' \in [worker : Workers \cup {NoWorker}, prompt : AnyPrompt, allowed : BOOLEAN]
        /\ launch'.worker = launch.worker
    BY <2>1 DEF WorkersInv, BridgeTypeOK
  <2>3. UNCHANGED <<run, tasks, cancelling, registered>> BY <2>1 DEF runVars, appVars
  <2>4. launch.worker \in Workers /\ call.stage = "none" BY <2>1, LaunchedIsNew
  <2>5. BridgeTypeOK' /\ Undisturbed'
    BY <2>1, <2>2, <2>3 DEF WorkersInv, BridgeTypeOK, Undisturbed
  <2>6. OneThingAtATime' /\ RowsTellProcesses'
    BY <2>1, <2>2, <2>4 DEF WorkersInv, OneThingAtATime, RowsTellProcesses, NoWorker, Workers
  <2>7. StopsAreOfCancelled' /\ AnswersAreSound' /\ RegistersAreNew' /\ ActiveIsOpen'
    BY <2>1, <2>3 DEF WorkersInv, StopsAreOfCancelled, AnswersAreSound, RegistersAreNew, ActiveIsOpen,
                      Active, Going, Awaited
  <2>8. ContextsFit' /\ ProcessesHaveTasks'
    BY <2>1, <2>3 DEF WorkersInv, ContextsFit, ProcessesHaveTasks, Going
  <2> QED BY <2>5, <2>6, <2>7, <2>8 DEF WorkersInv
<1>2. CASE LaunchIsJudged /\ launch' = NoLaunch
  <2>1. launch # NoLaunch /\ ~launch.allowed BY <1>2 DEF LaunchIsJudged
  <2>2. launch' # [launch EXCEPT !.allowed = TRUE]
    <3>1. launch.worker # NoWorker BY <2>1 DEF WorkersInv, RowsTellProcesses
    <3>2. [launch EXCEPT !.allowed = TRUE].worker = launch.worker
      BY DEF WorkersInv, BridgeTypeOK
    <3> QED BY <1>2, <3>1, <3>2 DEF NoLaunch
  <2>3. /\ Emit(contexts, With(launch.worker, "failed"))
        /\ UNCHANGED <<runVars, halting, stopping, appVars, process, sidecar, commands, call>>
    BY <1>2, <2>1, <2>2, LaunchedIsNew DEF LaunchIsJudged
  <2> QED BY <1>2, <2>1, <2>3, LaunchOverKeeps
<1>3. CASE LaunchEnds
  <2>1. launch # NoLaunch /\ launch' = NoLaunch BY <1>3 DEF LaunchEnds, NoLaunch
  <2>2. UNCHANGED <<runVars, halting, stopping, appVars, sidecar, commands, call>> BY <1>3 DEF LaunchEnds
  <2>3. \/ /\ process' = [process EXCEPT ![launch.worker] = [state |-> "alive", run |-> DoneFor(launch.worker)]]
           /\ Emit(contexts, With(launch.worker, "running"))
        \/ Emit(contexts, With(launch.worker, "failed")) /\ UNCHANGED process
    BY <1>3, <2>1, LaunchedIsNew DEF LaunchEnds
  <2> QED BY <2>1, <2>2, <2>3, LaunchOverKeeps
<1> QED BY <1>1, <1>2, <1>3

\* Workers whose processes are over are seen to be.
LEMMA RefreshedIsLater ==
  ASSUME WorkersInv, NEW ws, \A w \in ws : w \in Workers /\ Finishing(w)
  PROVE  /\ Refreshed(ws) \in List /\ Later(Refreshed(ws))
         /\ \A w \in Workers : Live(Refreshed(ws), w) => Live(rows, w) /\ Refreshed(ws)[w] = rows[w]
         /\ \A w \in Workers : \/ Refreshed(ws)[w] = rows[w]
                             \/ /\ process[w].state # "alive" /\ rows[w].state = "running"
                                /\ Refreshed(ws)[w].state \in {"succeeded", "failed"}
<1> DEFINE l == Refreshed(ws)
<1>1. rows \in List /\ process \in [Workers -> [state : {"none", "alive", "succeeded", "failed"}, run : Runs \cup {NoRun}]]
  BY DEF WorkersInv, BridgeTypeOK
<1>2. ASSUME NEW w \in Workers
      PROVE  /\ l[w] \in Row
             /\ \/ l[w] = rows[w]
                \/ /\ process[w].state # "alive" /\ rows[w].state = "running"
                   /\ l[w].state \in {"succeeded", "failed"}
  <2>1. CASE w \in ws
    <3>1. process[w].state \in {"succeeded", "failed"} /\ rows[w].state = "running"
      BY <1>1, <2>1 DEF WorkersInv, RowsTellProcesses, Finishing
    <3>2. l[w] = [rows[w] EXCEPT !.state = process[w].state] BY <2>1 DEF Refreshed
    <3> QED BY <1>1, <3>1, <3>2 DEF List, Row
  <2>2. CASE w \notin ws BY <1>1, <2>2 DEF Refreshed, List
  <2> QED BY <2>1, <2>2
<1>3. l \in List BY <1>2 DEF Refreshed, List
<1> HIDE DEF l
<1>4. Later(l) /\ \A w \in Workers : Live(l, w) => Live(rows, w) /\ l[w] = rows[w]
  BY <1>2 DEF Later, Live
<1> QED BY <1>2, <1>3, <1>4 DEF l

LEMMA RefreshedTellsProcesses ==
  ASSUME WorkersInv, NEW ws, \A w \in ws : w \in Workers /\ Finishing(w),
         rows' = Refreshed(ws), UNCHANGED <<launch, process>>
  PROVE  RowsTellProcesses'
<1>1. \A w \in Workers : \/ rows'[w] = rows[w]
                         \/ /\ process[w].state # "alive" /\ rows[w].state = "running"
                            /\ rows'[w].state \in {"succeeded", "failed"}
  BY RefreshedIsLater
<1>2. NoProcess.state # "alive" BY DEF NoProcess
<1> QED BY <1>1 DEF WorkersInv, RowsTellProcesses

LEMMA PollKeeps == ASSUME WorkersInv, Poll PROVE WorkersInv'
<1> DEFINE over == {w \in Workers : Finishing(w)}
           l == Refreshed(over)
<1>1. /\ Emit(contexts, l) /\ rows' = l
      /\ UNCHANGED <<runVars, launch, halting, stopping, appVars, process, sidecar, commands, call>>
  BY DEF Poll, Emit
<1>2. /\ process \in [Workers -> [state : {"none", "alive", "succeeded", "failed"}, run : Runs \cup {NoRun}]]
      /\ launch \in [worker : Workers \cup {NoWorker}, prompt : AnyPrompt, allowed : BOOLEAN]
      /\ call.stage # "none" => launch = NoLaunch
  BY DEF WorkersInv, BridgeTypeOK, OneThingAtATime
<1>3. l \in List /\ Later(l) BY RefreshedIsLater
<1>4. RowsTellProcesses' BY <1>1, RefreshedTellsProcesses
<1> HIDE DEF l
<1> QED BY <1>1, <1>2, <1>3, <1>4, LaterStepKeeps

-----------------------------------------------------------------------------
(* Workers end, and cancel commands                                         *)

LEMMA EndedProcessesKeep ==
  ASSUME WorkersInv, UNCHANGED <<runVars, bridgeVars, appVars, sidecar, pipe, commands, call>>,
         process' = [w \in Workers |-> process'[w]],
         \A w \in Workers : \/ process'[w] = process[w]
                            \/ /\ process[w].state = "alive" /\ process'[w].run = process[w].run
                               /\ process'[w].state \in {"succeeded", "failed"}
                               /\ process'[w] = [process[w] EXCEPT !.state = process'[w].state]
  PROVE  WorkersInv'
<1>1. UNCHANGED <<run, tasks, contexts, rows, launch, halting, stopping, cancelling, registered>>
  BY DEF runVars, bridgeVars, appVars
<1>2. process' \in [Workers -> [state : {"none", "alive", "succeeded", "failed"}, run : Runs \cup {NoRun}]]
  <2>1. process \in [Workers -> [state : {"none", "alive", "succeeded", "failed"}, run : Runs \cup {NoRun}]]
    BY DEF WorkersInv, BridgeTypeOK
  <2>2. \A w \in Workers : process'[w] \in [state : {"none", "alive", "succeeded", "failed"}, run : Runs \cup {NoRun}]
    BY <2>1
  <2> QED BY <2>2
<1>3. BridgeTypeOK' /\ Undisturbed' /\ OneThingAtATime'
  BY <1>1, <1>2 DEF WorkersInv, BridgeTypeOK, Undisturbed, OneThingAtATime
<1>4. RowsTellProcesses'
  <2>1. NoProcess.state # "alive" BY DEF NoProcess
  <2> QED BY <1>1, <2>1 DEF WorkersInv, RowsTellProcesses
<1>5. StopsAreOfCancelled' /\ RegistersAreNew' /\ ActiveIsOpen'
  BY <1>1 DEF WorkersInv, StopsAreOfCancelled, RegistersAreNew, ActiveIsOpen, Active, Going, Awaited
<1>6. AnswersAreSound'
  <2>1. \A w \in Workers : /\ process'[w].run = process[w].run
                           /\ process'[w].state = "alive" => process[w].state = "alive"
    OBVIOUS
  <2> QED BY <1>1, <2>1 DEF WorkersInv, AnswersAreSound, Active
<1>7. ContextsFit' /\ ProcessesHaveTasks'
  BY <1>1 DEF WorkersInv, ContextsFit, ProcessesHaveTasks, Going
<1> QED BY <1>3, <1>4, <1>5, <1>6, <1>7 DEF WorkersInv

LEMMA EndsKeep ==
  ASSUME WorkersInv, (\E w \in Workers : WorkerEnds(w)) \/ (\E r \in Runs : WorkersAreSignalled(r))
  PROVE  WorkersInv'
<1>1. process \in [Workers -> [state : {"none", "alive", "succeeded", "failed"}, run : Runs \cup {NoRun}]]
  BY DEF WorkersInv, BridgeTypeOK
<1>2. UNCHANGED <<runVars, bridgeVars, appVars, sidecar, pipe, commands, call>>
  BY DEF WorkerEnds, WorkersAreSignalled
<1>3. CASE \E w \in Workers : WorkerEnds(w)
  <2>1. PICK w \in Workers, end \in {"succeeded", "failed"} :
            process[w].state = "alive" /\ process' = [process EXCEPT ![w].state = end]
    BY <1>3 DEF WorkerEnds
  <2>2. process' = [v \in Workers |-> process'[v]] BY <1>1, <2>1
  <2>3. \A v \in Workers : \/ process'[v] = process[v]
                           \/ /\ process[v].state = "alive" /\ process'[v].run = process[v].run
                              /\ process'[v].state \in {"succeeded", "failed"}
                              /\ process'[v] = [process[v] EXCEPT !.state = process'[v].state]
    BY <1>1, <2>1
  <2> QED BY <1>2, <2>2, <2>3, EndedProcessesKeep
<1>4. CASE \E r \in Runs : WorkersAreSignalled(r)
  <2>1. PICK ws : process' = Killed(ws) BY <1>4 DEF WorkersAreSignalled
  <2>2. process' = [v \in Workers |-> process'[v]] BY <2>1 DEF Killed
  <2>3. \A v \in Workers : \/ process'[v] = process[v]
                           \/ /\ process[v].state = "alive" /\ process'[v].run = process[v].run
                              /\ process'[v].state \in {"succeeded", "failed"}
                              /\ process'[v] = [process[v] EXCEPT !.state = process'[v].state]
    BY <1>1, <2>1 DEF Killed
  <2> QED BY <1>2, <2>2, <2>3, EndedProcessesKeep
<1> QED BY <1>3, <1>4

\* What is written of contexts without going through the workers.
LEMMA PlainLine ==
  ASSUME NEW kind \in {"confirmed", "unconfirmed"}, NEW r \in Runs
  PROVE  /\ <<Line(kind, r, <<>>)>> \in Seq(Lines) /\ Plain(<<Line(kind, r, <<>>)>>)
         /\ \A q, t : Untold(<<Line(kind, r, <<>>)>>, q, t)
<1>1. Line(kind, r, <<>>) \in Lines BY DEF Line, Lines, LineKinds
<1>2. Line(kind, r, <<>>).kind = kind BY DEF Line
<1> QED BY <1>1, <1>2 DEF Plain, NoneOf, Untold, Tells

\* A step after which every context that matters is as it was.
LEMMA PlainStepKeeps ==
  ASSUME WorkersInv, NEW q \in Seq(Lines), Plain(q), \A r \in Runs : \A t : Untold(q, r, t),
         pipe' = pipe \o q, UNCHANGED <<runVars, launch, halting, appVars, process, sidecar, rows, call>>,
         contexts' \in [Runs -> Context], stopping' \subseteq [n : {1, 2}, run : Runs, current : BOOLEAN],
         commands' \in Seq([run : Runs, needed : BOOLEAN]),
         \A i \in 1..Len(commands') : run[commands'[i].run].status = "cancelled",
         \A s \in stopping' : run[s.run].status = "cancelled",
         \A r \in Runs : /\ Distinct(contexts'[r]) /\ Supported(contexts'[r], rows)
                         /\ Going(r) \/ run[r].status = "none" => contexts'[r] = contexts[r]
  PROVE  WorkersInv'
<1>1. UNCHANGED <<run, tasks, cancelling, registered>> /\ pipe \in Seq(Lines)
  BY DEF runVars, appVars, WorkersInv, BridgeTypeOK
<1>2. PipeKeeps /\ pipe' \in Seq(Lines) BY <1>1, PlainLinesKeep, Appended
<1>3. BridgeTypeOK' /\ Undisturbed' /\ OneThingAtATime'
  BY <1>1, <1>2 DEF WorkersInv, BridgeTypeOK, Undisturbed, OneThingAtATime, PipeKeeps
<1>4. RowsTellProcesses' BY DEF WorkersInv, RowsTellProcesses
<1>5. StopsAreOfCancelled' BY <1>1 DEF WorkersInv, StopsAreOfCancelled
<1>6. AnswersAreSound' BY <1>1 DEF WorkersInv, AnswersAreSound, Active
<1>7. \A r \in Runs : (Going(r)' <=> Going(r)) /\ (Active(r)' <=> Active(r)) /\ (Active(r) => Going(r))
                      /\ (Awaited(r)' <=> Awaited(r))
  BY <1>1 DEF Going, Active, Awaited
<1>8. \A r \in Runs : \A t : /\ Untold(pipe', r, t) <=> Untold(pipe, r, t)
                             /\ Unended(pipe, r, t) => Unended(pipe', r, t)
  <2>1. \A r \in Runs : \A t : Unended(q, r, t) BY DEF Untold, Unended, Finishes
  <2> QED BY <1>1, <2>1, UntoldAppended
<1>9. ActiveIsOpen' BY <1>7 DEF WorkersInv, ActiveIsOpen
<1>10. ContextsFit'
  <2>1. ASSUME NEW r \in Runs, Going(r)
        PROVE  PendingWaits(r, contexts[r], tasks[r], pipe') /\ LiveWorks(r, contexts[r], rows, tasks[r], pipe')
    BY <1>8, <2>1 DEF WorkersInv, ContextsFit, PendingWaits, LiveWorks
  <2> QED BY <1>1, <1>7, <2>1 DEF WorkersInv, ContextsFit
<1>11. ProcessesHaveTasks' BY <1>1, <1>7 DEF WorkersInv, ProcessesHaveTasks
<1>12. RegistersAreNew'
  <2>1. ASSUME NEW r \in Runs, call.action = "register", call.run = r, call.stage = "asked", Active(r),
               NEW i \in 1..Len(pipe'), NEW j \in 1..Len(pipe'), NEW t \in Tasks,
               pipe'[j].kind = "ask", Tells(pipe'[i], r, t), ~Knows(contexts[r], t)
        PROVE  i < j
    <3>1. i \in 1..Len(pipe) /\ pipe'[i] = pipe[i]
      <4>1. \/ i \in 1..Len(pipe) /\ pipe'[i] = pipe[i]
            \/ i > Len(pipe) /\ \E k \in 1..Len(q) : pipe'[i] = q[k]
        BY <1>1, Appended
      <4> QED BY <2>1, <4>1 DEF Untold
    <3>2. j \in 1..Len(pipe) /\ pipe'[j] = pipe[j]
      <4>1. \/ j \in 1..Len(pipe) /\ pipe'[j] = pipe[j]
            \/ j > Len(pipe) /\ \E k \in 1..Len(q) : pipe'[j] = q[k]
        BY <1>1, Appended
      <4> QED BY <2>1, <4>1 DEF Plain, NoneOf
    <3> QED BY <2>1, <3>1, <3>2 DEF WorkersInv, RegistersAreNew
  <2>2. \A r \in Runs : Active(r) \/ Going(r) => contexts'[r] = contexts[r] BY <1>7
  <2> QED BY <1>1, <1>7, <1>8, <2>1, <2>2 DEF WorkersInv, RegistersAreNew
<1> QED BY <1>3, <1>4, <1>5, <1>6, <1>9, <1>10, <1>11, <1>12 DEF WorkersInv

LEMMA CancelBeginsKeeps == ASSUME WorkersInv, CancelBegins PROVE WorkersInv'
<1> DEFINE r == Head(commands).run
<1>1. /\ commands # <<>> /\ commands' = Tail(commands)
      /\ UNCHANGED <<runVars, rows, launch, halting, appVars, process, sidecar, call>>
  BY DEF CancelBegins
<1>2. /\ commands \in Seq([run : Runs, needed : BOOLEAN]) /\ pipe \in Seq(Lines)
      /\ contexts \in [Runs -> Context] /\ stopping \subseteq [n : {1, 2}, run : Runs, current : BOOLEAN]
  BY DEF WorkersInv, BridgeTypeOK
<1>3. /\ r \in Runs /\ run[r].status = "cancelled"
      /\ commands' \in Seq([run : Runs, needed : BOOLEAN])
      /\ \A i \in 1..Len(commands') : run[commands'[i].run].status = "cancelled"
  <2>1. \A i \in 1..Len(commands) : run[commands[i].run].status = "cancelled"
    BY DEF WorkersInv, StopsAreOfCancelled
  <2>2. /\ Len(commands) \in Nat /\ Len(commands) > 0 /\ Head(commands) = commands[1]
        /\ Tail(commands) \in Seq([run : Runs, needed : BOOLEAN]) /\ Len(Tail(commands)) = Len(commands) - 1
        /\ \A i \in 1..Len(Tail(commands)) : Tail(commands)[i] = commands[i + 1]
    BY <1>1, <1>2
  <2>3. commands[1] \in [run : Runs, needed : BOOLEAN]
    <3>1. 1 \in 1..Len(commands) BY <2>2
    <3> DEFINE S == [run : Runs, needed : BOOLEAN]
    <3>2. commands \in Seq(S) BY <1>2
    <3> HIDE DEF S
    <3>3. commands[1] \in S BY <3>1, <3>2, ElementOfSeq
    <3> QED BY <3>3 DEF S
  <2> QED BY <1>1, <2>1, <2>2, <2>3
<1>4. \A q \in Runs : Distinct(contexts[q]) /\ Supported(contexts[q], rows)
  BY DEF WorkersInv, ContextsFit
<1>5. \A s \in stopping : run[s.run].status = "cancelled" BY DEF WorkersInv, StopsAreOfCancelled
<1>6. CASE contexts[r].state = "none"
  <2>1. PICK kind \in {"confirmed", "unconfirmed"} :
           pipe' = Append(pipe, Line(kind, r, <<>>)) /\ UNCHANGED <<contexts, stopping>>
    BY <1>6 DEF CancelBegins
  <2> DEFINE q == <<Line(kind, r, <<>>)>>
  <2>2. q \in Seq(Lines) /\ Plain(q) /\ \A v \in Runs : \A t : Untold(q, v, t) BY <1>3, PlainLine
  <2>3. pipe' = pipe \o q
    <3>1. Line(kind, r, <<>>) \in Lines BY <1>3 DEF Line, Lines, LineKinds
    <3> QED BY <1>2, <2>1, <3>1
  <2> HIDE DEF q, r
  <2> QED BY <1>1, <1>2, <1>3, <1>4, <1>5, <2>1, <2>2, <2>3, PlainStepKeeps
<1>7. CASE contexts[r].state # "none"
  <2>1. PICK n \in {1, 2} :
          /\ contexts' = [contexts EXCEPT ![r].state = "cancelled"] /\ UNCHANGED pipe
          /\ stopping' = stopping \cup {[n |-> n, run |-> r, current |-> TRUE]}
    BY <1>7 DEF CancelBegins
  <2> DEFINE q == <<>>
  <2>2. q \in Seq(Lines) /\ Plain(q) /\ (\A v \in Runs : \A t : Untold(q, v, t)) /\ pipe' = pipe \o q
    BY <1>2, <2>1 DEF Plain, NoneOf, Untold
  <2> HIDE DEF r
  <2>3. /\ contexts' \in [Runs -> Context]
        /\ \A v \in Runs : v # r => contexts'[v] = contexts[v]
        /\ contexts'[r].pending = contexts[r].pending /\ contexts'[r].task = contexts[r].task
        /\ contexts'[r].state = "cancelled"
    BY <1>2, <1>3, <2>1 DEF Context
  <2>4. \A v \in Runs : Distinct(contexts'[v]) /\ Supported(contexts'[v], rows)
    BY <1>4, <2>3 DEF Distinct, Supported
  <2>5. \A v \in Runs : Going(v) \/ run[v].status = "none" => contexts'[v] = contexts[v]
    BY <1>3, <2>3 DEF Going
  <2>6. /\ stopping' \subseteq [n : {1, 2}, run : Runs, current : BOOLEAN]
        /\ \A s \in stopping' : run[s.run].status = "cancelled"
    <3> DEFINE new == [n |-> n, run |-> r, current |-> TRUE]
    <3>1. new \in [n : {1, 2}, run : Runs, current : BOOLEAN] /\ new.run = r BY <1>3
    <3>2. stopping' = stopping \cup {new} BY <2>1
    <3> HIDE DEF new
    <3> QED BY <1>2, <1>3, <1>5, <3>1, <3>2
  <2> HIDE DEF q
  <2> QED BY <1>1, <1>3, <2>2, <2>3, <2>4, <2>5, <2>6, PlainStepKeeps
<1> QED BY <1>6, <1>7

LEMMA AppendedLast ==
  ASSUME NEW p \in Seq(Lines), NEW q \in Seq(Lines), NEW x \in Lines
  PROVE  Append(q, x) \in Seq(Lines) /\ Append(p \o q, x) = p \o Append(q, x)
<1> DEFINE L == Lines
<1>1. p \in Seq(L) /\ q \in Seq(L) /\ x \in L OBVIOUS
<1> HIDE DEF L
<1>2. Append(q, x) \in Seq(L) /\ p \o q \in Seq(L) BY <1>1
<1>3. Append(p \o q, x) = p \o Append(q, x)
  <2>1. Len(Append(p \o q, x)) = Len(p \o Append(q, x)) BY <1>1, <1>2
  <2>2. \A i \in 1..Len(p \o Append(q, x)) : Append(p \o q, x)[i] = (p \o Append(q, x))[i]
    BY <1>1, <1>2
  <2>3. Append(p \o q, x) \in Seq(L) /\ p \o Append(q, x) \in Seq(L) BY <1>1, <1>2
  <2> QED BY <2>1, <2>2, <2>3, SeqEqual
<1> QED BY <1>2, <1>3 DEF L

LEMMA CancelEndsKeeps == ASSUME WorkersInv, NEW s \in stopping, CancelEnds(s) PROVE WorkersInv'
<1> DEFINE r == s.run
           over == {w \in Tracked(r) : Finishing(w)}
           l == Refreshed(over)
           own == s.current /\ contexts[r].state # "none"
           all == IF own THEN [contexts EXCEPT ![r].pending = {}] ELSE contexts
           running == \E w \in Tracked(r) : Live(l, w)
           last == Line(IF running THEN "unconfirmed" ELSE "confirmed", r, <<>>)
<1>1. /\ stopping' = stopping \ {s} /\ rows' = l
      /\ contexts' = [q \in Runs |->
             IF q # r \/ ~own THEN AfterEmit(q, all[q], l)
             ELSE IF running THEN [AfterEmit(q, all[q], l) EXCEPT !.stopUnconfirmed = TRUE] ELSE NoContext]
      /\ \E lines \in Emitted(all, l) : pipe' = Append(pipe \o lines, last)
      /\ UNCHANGED <<runVars, launch, halting, appVars, process, sidecar, commands, call>>
  BY DEF CancelEnds
<1>2. /\ contexts \in [Runs -> Context] /\ stopping \subseteq [n : {1, 2}, run : Runs, current : BOOLEAN]
      /\ pipe \in Seq(Lines)
  BY DEF WorkersInv, BridgeTypeOK
<1>3. r \in Runs /\ run[r].status = "cancelled" /\ IsCancelled(r) /\ ~Going(r)
  <2>1. s \in [n : {1, 2}, run : Runs, current : BOOLEAN] BY <1>2
  <2> QED BY <2>1 DEF WorkersInv, StopsAreOfCancelled, IsCancelled, Going
<1>4. /\ l \in List /\ Later(l) /\ RowsTellProcesses'
      /\ \A w \in Workers : Live(l, w) => Live(rows, w)
  <2>1. \A w \in over : w \in Workers /\ Finishing(w) BY DEF Tracked
  <2> HIDE DEF over
  <2> QED BY <1>1, <2>1, RefreshedIsLater, RefreshedTellsProcesses
<1>5. last \in Lines /\ last.kind \in {"confirmed", "unconfirmed"}
  <2>1. \A k \in {"confirmed", "unconfirmed"} : Line(k, r, <<>>) \in Lines /\ Line(k, r, <<>>).kind = k
    BY <1>3 DEF Line, Lines, LineKinds
  <2> HIDE DEF running, r
  <2> QED BY <2>1
<1>6. /\ all \in [Runs -> Context]
      /\ \A q \in Runs : /\ all[q].task = contexts[q].task /\ all[q].state = contexts[q].state
                         /\ all[q].pending \subseteq contexts[q].pending
                         /\ q # r => all[q] = contexts[q]
  <2>1. [contexts EXCEPT ![r].pending = {}] \in [Runs -> Context]
    BY <1>2, <1>3 DEF Context
  <2>2. \A q \in Runs : /\ [contexts EXCEPT ![r].pending = {}][q].task = contexts[q].task
                        /\ [contexts EXCEPT ![r].pending = {}][q].state = contexts[q].state
                        /\ [contexts EXCEPT ![r].pending = {}][q].pending \subseteq contexts[q].pending
                        /\ q # r => [contexts EXCEPT ![r].pending = {}][q] = contexts[q]
    BY <1>2, <1>3 DEF Context
  <2> HIDE DEF own, r
  <2>3. CASE own BY <2>1, <2>2, <2>3
  <2>4. CASE ~own BY <1>2, <2>4
  <2> QED BY <2>3, <2>4
<1> HIDE DEF all
<1>7. \A q \in Runs : /\ Distinct(all[q]) /\ Supported(all[q], l)
                      /\ Going(q) => /\ all[q] = contexts[q]
                                     /\ PendingWaits(q, all[q], tasks[q], pipe)
                                     /\ LiveWorks(q, all[q], l, tasks[q], pipe)
  <2>1. ASSUME NEW q \in Runs
        PROVE  /\ Distinct(all[q]) /\ Supported(all[q], l)
               /\ Going(q) => /\ all[q] = contexts[q]
                              /\ PendingWaits(q, all[q], tasks[q], pipe)
                              /\ LiveWorks(q, all[q], l, tasks[q], pipe)
    <3>1. /\ Distinct(contexts[q]) /\ Supported(contexts[q], l)
          /\ Going(q) => /\ PendingWaits(q, contexts[q], tasks[q], pipe)
                         /\ LiveWorks(q, contexts[q], l, tasks[q], pipe)
      BY <1>4, LaterFits
    <3>2. Distinct(all[q]) /\ Supported(all[q], l)
      BY <1>6, <3>1 DEF Distinct, Supported
    <3>3. Going(q) => all[q] = contexts[q] BY <1>3, <1>6
    <3> QED BY <3>1, <3>2, <3>3
  <2> QED BY <2>1
<1>8. PICK lines \in Emitted(all, l) : pipe' = Append(pipe \o lines, last)
  BY <1>1 DEF all
<1> DEFINE q2 == Append(lines, last)
<1>9. /\ lines \in Seq(Lines) /\ Plain(lines)
      /\ \A q \in Runs :
             /\ ComeFrom(lines, q, all[q], l)
             /\ Settled(AfterEmit(q, all[q], l), all[q], Assigned(q, all[q], l), l, IsCancelled(q))
  BY <1>4, <1>6, <1>7, EmittedSettles
<1> HIDE DEF last, l
<1>10. /\ q2 \in Seq(Lines) /\ pipe' = pipe \o q2 /\ Plain(q2)
       /\ \A q \in Runs : ComeFrom(q2, q, all[q], l)
  <2>1. q2 \in Seq(Lines) /\ pipe' = pipe \o q2 BY <1>2, <1>5, <1>8, <1>9, AppendedLast
  <2>2. \A i \in 1..Len(q2) : (i \in 1..Len(lines) /\ q2[i] = lines[i]) \/ q2[i] = last
    BY <1>5, <1>9
  <2> HIDE DEF q2
  <2> QED BY <1>5, <1>9, <2>1, <2>2 DEF Plain, NoneOf, ComeFrom
<1>11. /\ contexts' = [q \in Runs |-> contexts'[q]]
       /\ \A q \in Runs :
              Settled(contexts'[q], all[q], Assigned(q, all[q], l), l, IsCancelled(q))
  <2>1. contexts' = [q \in Runs |->
             IF q # r \/ ~own THEN AfterEmit(q, all[q], l)
             ELSE IF running THEN [AfterEmit(q, all[q], l) EXCEPT !.stopUnconfirmed = TRUE] ELSE NoContext]
    BY <1>1 DEF all, l
  <2> DEFINE After(q) == AfterEmit(q, all[q], l)
  <2>2. \A q \in Runs : \/ contexts'[q] = After(q)
                        \/ q = r /\ own /\ running /\ contexts'[q] = [After(q) EXCEPT !.stopUnconfirmed = TRUE]
                        \/ q = r /\ contexts'[q] = NoContext
    <3> HIDE DEF After, running, own, r
    <3> QED BY <2>1 DEF After
  <2>3. CASE own /\ running
    <3>1. all[r].state # "none" BY <1>3, <1>6, <2>3
    <3>2. PICK w \in Tracked(r) : Live(l, w) BY <2>3 DEF l
    <3>3. w \in Workers /\ all[r].task[w] # 0 BY <1>3, <1>6, <3>2 DEF Tracked
    <3>4. Grows(Assigned(r, all[r], l), all[r], l) BY <1>3, <1>4, <1>6, <1>7, AssignedGrows DEF l
    <3>5. ~Over(Assigned(r, all[r], l), l)
      BY <3>2, <3>3, <3>4 DEF Over, StillRunning, Grows
    <3>6. After(r) = Assigned(r, all[r], l) BY <3>1, <3>5 DEF AfterEmit
    <3>7. After(r) \in Context /\ After(r).state = all[r].state BY <3>4, <3>6 DEF Grows
    <3> DEFINE d == [After(r) EXCEPT !.stopUnconfirmed = TRUE]
    <3>8. d \in Context /\ d.state = After(r).state /\ d.pending = After(r).pending /\ d.task = After(r).task
      <4> HIDE DEF After
      <4> QED BY <3>7 DEF Context
    <3> HIDE DEF d, After, r
    <3>9. Settled(d, all[r], Assigned(r, all[r], l), l, IsCancelled(r))
      BY <3>1, <3>6, <3>7, <3>8 DEF Settled
    <3>10. Settled(NoContext, all[r], Assigned(r, all[r], l), l, IsCancelled(r))
      BY <1>3 DEF Settled
    <3>11. \A q \in Runs : contexts'[q] = After(q) \/ (q = r /\ contexts'[q] = d) \/ (q = r /\ contexts'[q] = NoContext)
      BY <2>2 DEF d
    <3> QED BY <1>9, <2>1, <3>9, <3>10, <3>11 DEF After
  <2>4. CASE ~(own /\ running)
    <3>1. Settled(NoContext, all[r], Assigned(r, all[r], l), l, IsCancelled(r))
      BY <1>3 DEF Settled
    <3> HIDE DEF r, own, running
    <3> QED BY <1>9, <2>1, <2>2, <2>4, <3>1
  <2> QED BY <2>3, <2>4
<1> HIDE DEF q2, r
<1>12. PipeKeeps BY <1>10, PlainLinesKeep
<1>13. /\ contexts' \in [Runs -> Context] /\ rows' \in List /\ pipe' \in Seq(Lines) /\ ContextsFit'
       /\ \A q \in Runs, w \in Workers :
              Going(q) /\ all[q].task[w] # 0 /\ Live(l, w) => contexts'[q].task[w] # 0
  BY <1>1, <1>4, <1>6, <1>7, <1>10, <1>11, EmissionKeeps DEF l
<1>14. RegistersAreNew' /\ ActiveIsOpen'
  <2>1. l \in List BY <1>4 DEF l
  <2> QED BY <1>1, <1>6, <1>7, <1>10, <1>11, <2>1, EmissionKeepsCalls DEF Plain
<1>15. UNCHANGED <<run, tasks, cancelling, registered>> BY <1>1 DEF runVars, appVars
<1>16. BridgeTypeOK'
  <2>1. stopping' \subseteq [n : {1, 2}, run : Runs, current : BOOLEAN] BY <1>1, <1>2
  <2> QED BY <1>1, <1>13, <2>1 DEF WorkersInv, BridgeTypeOK
<1>17. Undisturbed' /\ OneThingAtATime'
  BY <1>1, <1>12, <1>15 DEF WorkersInv, Undisturbed, OneThingAtATime, PipeKeeps
<1>18. StopsAreOfCancelled' BY <1>1, <1>15 DEF WorkersInv, StopsAreOfCancelled
<1>19. AnswersAreSound' BY <1>1, <1>15 DEF WorkersInv, AnswersAreSound, Active
<1>20. ProcessesHaveTasks'
  <2>1. \A q \in Runs : Going(q)' <=> Going(q) BY <1>15 DEF Going
  <2>2. \A w \in Workers : process'[w].state = "alive" => Live(l, w)
    BY <1>1, <1>4 DEF RowsTellProcesses, Live, l
  <2> QED BY <1>1, <1>6, <1>13, <1>15, <2>1, <2>2 DEF WorkersInv, ProcessesHaveTasks
<1> QED BY <1>4, <1>13, <1>14, <1>16, <1>17, <1>18, <1>19, <1>20 DEF WorkersInv

-----------------------------------------------------------------------------
(* The answers to the agent's calls                                         *)

\* What is left to show when the agent hears an answer.
LEMMA AnswerOverKeeps ==
  ASSUME WorkersInv, call.stage = "answered", call' = NoCall,
         UNCHANGED <<runVars, launch, halting, appVars, process, sidecar, commands, rows>>,
         contexts' \in [Runs -> Context], pipe' \in Seq(Lines), PipeKeeps, ContextsFit',
         stopping' \subseteq [n : {1, 2}, run : Runs, current : BOOLEAN],
         \A s \in stopping' : run[s.run].status = "cancelled",
         \A r \in Runs : Active(r) => contexts'[r].state = "open",
         \A r \in Runs, w \in Workers :
             process[w].run = r /\ process[w].state = "alive" /\ Going(r) => contexts'[r].task[w] # 0
  PROVE  WorkersInv'
<1>1. UNCHANGED <<run, tasks, cancelling, registered>> BY DEF runVars, appVars
<1>2. /\ NoCall \in [stage : {"none", "asked", "handling", "answered"}, action : Actions \cup {"none", "failed"},
                     run : Runs \cup {NoRun}, prompt : AnyPrompt, task : Tasks \cup {0}, heard : BOOLEAN]
      /\ NoCall.stage = "none" /\ NoCall.action = "none" /\ NoCall.heard
  BY DEF NoCall, AnyPrompt
<1>3. BridgeTypeOK' BY <1>2 DEF WorkersInv, BridgeTypeOK
<1>4. Undisturbed' BY <1>1, <1>2 DEF WorkersInv, Undisturbed, PipeKeeps
<1>5. OneThingAtATime' BY <1>2 DEF WorkersInv, OneThingAtATime, PipeKeeps
<1>6. RowsTellProcesses' BY DEF WorkersInv, RowsTellProcesses
<1>7. StopsAreOfCancelled' BY <1>1 DEF WorkersInv, StopsAreOfCancelled
<1>8. AnswersAreSound' /\ RegistersAreNew' BY <1>2 DEF AnswersAreSound, RegistersAreNew
<1>9. ActiveIsOpen' BY <1>1 DEF ActiveIsOpen, Active
<1>10. ProcessesHaveTasks' BY <1>1 DEF WorkersInv, ProcessesHaveTasks, Going
<1> QED BY <1>3, <1>4, <1>5, <1>6, <1>7, <1>8, <1>9, <1>10 DEF WorkersInv

\* ... and when it writes no line.
LEMMA QuietAnswerKeeps ==
  ASSUME WorkersInv, call.stage = "answered", call' = NoCall,
         UNCHANGED <<runVars, launch, halting, appVars, process, sidecar, commands, rows, pipe>>,
         contexts' \in [Runs -> Context],
         stopping' \subseteq [n : {1, 2}, run : Runs, current : BOOLEAN],
         \A s \in stopping' : run[s.run].status = "cancelled",
         \A r \in Runs :
            /\ Distinct(contexts'[r]) /\ Supported(contexts'[r], rows)
            /\ run[r].status = "none" => contexts'[r].state = "none"
            /\ Active(r) => contexts'[r].state = "open"
            /\ Going(r) => /\ contexts'[r].pending \subseteq contexts[r].pending
                           /\ \A w \in Workers : \/ contexts'[r].task[w] = contexts[r].task[w]
                                                 \/ /\ contexts'[r].task[w] = 0
                                                    /\ process[w].run = r => process[w].state # "alive"
  PROVE  WorkersInv'
<1>1. UNCHANGED <<run, tasks>> /\ pipe \in Seq(Lines) BY DEF runVars, WorkersInv, BridgeTypeOK
<1>2. PipeKeeps BY DEF WorkersInv, Undisturbed, OneThingAtATime, PipeKeeps
<1>3. ContextsFit'
  <2>1. \A r \in Runs : Going(r) => /\ PendingWaits(r, contexts'[r], tasks[r], pipe)
                                    /\ LiveWorks(r, contexts'[r], rows, tasks[r], pipe)
    BY DEF WorkersInv, ContextsFit, PendingWaits, LiveWorks
  <2> QED BY <1>1, <2>1 DEF ContextsFit, Going
<1>4. \A r \in Runs, w \in Workers :
          process[w].run = r /\ process[w].state = "alive" /\ Going(r) => contexts'[r].task[w] # 0
  BY DEF WorkersInv, ProcessesHaveTasks
<1> QED BY <1>1, <1>2, <1>3, <1>4, AnswerOverKeeps

\* A run is started or resumed, or begins its second batch: setResearchRunContext.
LEMMA SetContextKeeps ==
  ASSUME WorkersInv, call.stage = "answered", call' = NoCall,
         UNCHANGED <<runVars, launch, halting, appVars, process, sidecar, commands>>,
         call.action \in {"start", "resume", "gap_fill"}, SetContext(call.run, call.action = "resume")
  PROVE  WorkersInv'
<1> DEFINE r == call.run
           keep == call.action = "resume"
           baseline == {w \in Workers : rows[w].state # "none"}
           task == IF keep THEN contexts[r].task ELSE NoContext.task
           new == [NoContext EXCEPT !.state = "open", !.baseline = baseline, !.task = task]
           old(q) == IF contexts[q].state = "none" THEN NoContext
                     ELSE [contexts[q] EXCEPT !.state = "cancelled", !.pending = {}]
<1>1. /\ contexts' = [q \in Runs |-> IF q = r THEN new ELSE old(q)]
      /\ stopping' = {IF s.run = r THEN [s EXCEPT !.current = FALSE] ELSE s : s \in stopping}
      /\ UNCHANGED <<rows, pipe>>
  BY DEF SetContext
<1>2. /\ r \in Runs /\ run[r].status # "none" /\ \A q \in Runs \ {r} : ~Active(q)
      /\ ~keep => \A w \in Workers : process[w].run = r => process[w].state # "alive"
  BY DEF WorkersInv, AnswersAreSound
<1>3. contexts \in [Runs -> Context] /\ stopping \subseteq [n : {1, 2}, run : Runs, current : BOOLEAN]
  BY DEF WorkersInv, BridgeTypeOK
<1>4. /\ new \in Context /\ new.state = "open" /\ new.pending = {} /\ new.task = task
  <2>1. task \in [Workers -> Tasks \cup {0}] BY <1>2, <1>3, NoContextIsEmpty DEF Context
  <2>2. baseline \subseteq Workers OBVIOUS
  <2> HIDE DEF task, baseline
  <2> QED BY <2>1, <2>2, NoContextIsEmpty DEF Context
<1>5. \A w \in Workers : task[w] = contexts[r].task[w] \/ (task[w] = 0 /\ ~keep)
  BY NoContextIsEmpty
<1>6. \A q \in Runs : /\ Distinct(contexts[q]) /\ Supported(contexts[q], rows)
                      /\ run[q].status = "none" => contexts[q].state = "none"
  BY DEF WorkersInv, ContextsFit
<1>7. \A q \in Runs : /\ old(q) \in Context /\ old(q).pending = {}
                      /\ \A w \in Workers : old(q).task[w] = contexts[q].task[w]
                      /\ old(q).state = "none" <=> contexts[q].state = "none"
  <2>1. ASSUME NEW q \in Runs
        PROVE  /\ old(q) \in Context /\ old(q).pending = {}
               /\ \A w \in Workers : old(q).task[w] = contexts[q].task[w]
               /\ old(q).state = "none" <=> contexts[q].state = "none"
    <3>1. CASE contexts[q].state = "none" BY <1>6, <3>1, NoContextIsEmpty DEF Supported
    <3>2. CASE contexts[q].state # "none" BY <1>3, <3>2 DEF Context
    <3> QED BY <3>1, <3>2
  <2> QED BY <2>1
<1> HIDE DEF new, old, task
<1>8. \A q \in Runs : contexts'[q] \in Context /\ contexts'[q] = IF q = r THEN new ELSE old(q)
  BY <1>1, <1>4, <1>7
<1>9. contexts' \in [Runs -> Context] BY <1>1, <1>8
<1>10. ASSUME NEW q \in Runs
       PROVE  /\ Distinct(contexts'[q]) /\ Supported(contexts'[q], rows)
              /\ run[q].status = "none" => contexts'[q].state = "none"
              /\ Active(q) => contexts'[q].state = "open"
              /\ Going(q) => /\ contexts'[q].pending \subseteq contexts[q].pending
                             /\ \A w \in Workers : \/ contexts'[q].task[w] = contexts[q].task[w]
                                                   \/ /\ contexts'[q].task[w] = 0
                                                      /\ process[w].run = q => process[w].state # "alive"
  <2>1. 0 \notin {} /\ \A w \in Workers : contexts[q].task[w] # 0 => rows[w].state # "none"
    BY <1>6 DEF Supported
  <2>2. CASE q = r
    <3>1. Distinct(new) /\ Supported(new, rows)
      BY <1>4, <1>5, <1>6, <2>1, <2>2 DEF Distinct, Supported
    <3> QED BY <1>2, <1>4, <1>5, <1>8, <2>2, <3>1
  <2>3. CASE q # r
    <3>1. Distinct(old(q)) /\ Supported(old(q), rows)
      BY <1>6, <1>7, <2>1 DEF Distinct, Supported
    <3> QED BY <1>2, <1>6, <1>7, <1>8, <2>3, <3>1
  <2> QED BY <2>2, <2>3
<1>11. /\ stopping' \subseteq [n : {1, 2}, run : Runs, current : BOOLEAN]
       /\ \A s \in stopping' : run[s.run].status = "cancelled"
  <2>1. \A s \in stopping : run[s.run].status = "cancelled" BY DEF WorkersInv, StopsAreOfCancelled
  <2>2. ASSUME NEW s \in stopping
        PROVE  /\ [s EXCEPT !.current = FALSE] \in [n : {1, 2}, run : Runs, current : BOOLEAN]
               /\ [s EXCEPT !.current = FALSE].run = s.run
    BY <1>3
  <2> QED BY <1>1, <1>3, <2>1, <2>2
<1> QED BY <1>1, <1>9, <1>10, <1>11, QuietAnswerKeeps

\* The bridge hears of a task it did not know.
LEMMA RegisteredKeeps ==
  ASSUME WorkersInv, call.stage = "answered", call' = NoCall,
         UNCHANGED <<runVars, launch, halting, stopping, appVars, process, sidecar, commands>>,
         call.action = "register", contexts[call.run].state # "none",
         call.task \notin contexts[call.run].pending, \A w \in Workers : contexts[call.run].task[w] # call.task,
         Emit([contexts EXCEPT ![call.run].pending = @ \cup {call.task}], rows)
  PROVE  WorkersInv'
<1> DEFINE r == call.run
           t == call.task
           all == [contexts EXCEPT ![r].pending = @ \cup {t}]
<1>1. r \in Runs /\ t \in Tasks BY DEF WorkersInv, AnswersAreSound
<1>2. contexts \in [Runs -> Context] /\ rows \in List BY DEF WorkersInv, BridgeTypeOK
<1>3. /\ all \in [Runs -> Context] /\ all[r].pending = contexts[r].pending \cup {t}
      /\ all[r].state = contexts[r].state /\ all[r].task = contexts[r].task
      /\ \A q \in Runs : q # r => all[q] = contexts[q]
  BY <1>1, <1>2 DEF Context
<1>4. ASSUME NEW q \in Runs
      PROVE  /\ Distinct(all[q]) /\ Supported(all[q], rows) /\ all[q].state = contexts[q].state
             /\ all[q].task = contexts[q].task
             /\ Going(q) => /\ PendingWaits(q, all[q], tasks[q], pipe)
                            /\ LiveWorks(q, all[q], rows, tasks[q], pipe)
  <2>1. /\ Distinct(contexts[q]) /\ Supported(contexts[q], rows)
        /\ Going(q) => /\ PendingWaits(q, contexts[q], tasks[q], pipe)
                       /\ LiveWorks(q, contexts[q], rows, tasks[q], pipe)
    BY DEF WorkersInv, ContextsFit
  <2>2. CASE q # r BY <1>3, <2>1, <2>2
  <2>3. CASE q = r
    <3>1. ~Knows(contexts[r], t) BY DEF Knows
    <3>2. Distinct(all[r]) /\ Supported(all[r], rows)
      BY <1>3, <2>1, <2>3 DEF Distinct, Supported
    <3>3. ASSUME Going(r) PROVE tasks[r][t].status \in Unfinished /\ Untold(pipe, r, t)
      BY <1>1, <3>1, <3>3 DEF WorkersInv, RegistersAreNew
    <3> HIDE DEF all
    <3>4. ASSUME Going(r)
          PROVE  PendingWaits(r, all[r], tasks[r], pipe) /\ LiveWorks(r, all[r], rows, tasks[r], pipe)
      BY <1>3, <2>1, <2>3, <3>3, <3>4 DEF PendingWaits, LiveWorks
    <3> QED BY <1>3, <2>3, <3>2, <3>4
  <2> QED BY <2>2, <2>3
<1> HIDE DEF all
<1>5. PICK q \in Emitted(all, rows) : /\ rows' = rows /\ pipe' = pipe \o q
                                      /\ contexts' = [v \in Runs |-> AfterEmit(v, all[v], rows)]
  BY DEF Emit, all
<1>6. /\ q \in Seq(Lines) /\ Plain(q)
      /\ \A v \in Runs :
             /\ ComeFrom(q, v, all[v], rows)
             /\ Settled(contexts'[v], all[v], Assigned(v, all[v], rows), rows, IsCancelled(v))
      /\ contexts' = [v \in Runs |-> contexts'[v]]
  BY <1>2, <1>3, <1>4, <1>5, EmittedSettles
<1>7. PipeKeeps BY <1>5, <1>6, PlainLinesKeep
<1>8. /\ contexts' \in [Runs -> Context] /\ pipe' \in Seq(Lines) /\ ContextsFit'
      /\ \A v \in Runs, w \in Workers :
             Going(v) /\ all[v].task[w] # 0 /\ Live(rows, w) => contexts'[v].task[w] # 0
      /\ \A v \in Runs : Going(v) /\ contexts[v].state = "open" => contexts'[v].state = "open"
  BY <1>2, <1>3, <1>4, <1>5, <1>6, EmissionKeeps
<1>9. ASSUME NEW v \in Runs, Active(v) PROVE contexts'[v].state = "open"
  <2>1. ~Awaited(v) /\ Going(v) BY <1>9 DEF Awaited, Active, Going
  <2> QED BY <1>8, <1>9, <2>1 DEF WorkersInv, ActiveIsOpen
<1>10. ASSUME NEW v \in Runs, NEW w \in Workers, process[w].run = v, process[w].state = "alive", Going(v)
       PROVE  contexts'[v].task[w] # 0
  <2>1. contexts[v].task[w] # 0 /\ Live(rows, w)
    BY <1>10 DEF WorkersInv, ProcessesHaveTasks, RowsTellProcesses, Live
  <2> QED BY <1>4, <1>8, <1>10, <2>1
<1>11. /\ stopping' \subseteq [n : {1, 2}, run : Runs, current : BOOLEAN]
       /\ \A s \in stopping' : run[s.run].status = "cancelled"
  BY DEF WorkersInv, BridgeTypeOK, StopsAreOfCancelled
<1> QED BY <1>5, <1>7, <1>8, <1>9, <1>10, <1>11, AnswerOverKeeps

LEMMA AnswerArrivesKeeps == ASSUME WorkersInv, AnswerArrives PROVE WorkersInv'
<1> DEFINE r == call.run
<1>1. /\ call.stage = "answered" /\ call' = NoCall /\ Observe(call.action, r, call.task)
      /\ UNCHANGED <<runVars, launch, halting, appVars, process, sidecar, commands>>
  BY DEF AnswerArrives, WorkersInv, Undisturbed
<1>2. /\ contexts \in [Runs -> Context] /\ stopping \subseteq [n : {1, 2}, run : Runs, current : BOOLEAN]
      /\ \A s \in stopping : run[s.run].status = "cancelled"
  BY DEF WorkersInv, BridgeTypeOK, StopsAreOfCancelled
<1>3. \A q \in Runs : /\ Distinct(contexts[q]) /\ Supported(contexts[q], rows)
                      /\ run[q].status = "none" => contexts[q].state = "none"
  BY DEF WorkersInv, ContextsFit
<1>4. CASE call.action \in {"start", "resume", "gap_fill"}
  <2>1. SetContext(r, call.action = "resume") BY <1>1, <1>4 DEF Observe
  <2> QED BY <1>1, <1>4, <2>1, SetContextKeeps
<1>5. CASE /\ call.action = "register" /\ contexts[r].state # "none"
           /\ call.task \notin contexts[r].pending /\ \A w \in Workers : contexts[r].task[w] # call.task
  <2>1. Emit([contexts EXCEPT ![r].pending = @ \cup {call.task}], rows) /\ UNCHANGED stopping
    BY <1>1, <1>5 DEF Observe
  <2> QED BY <1>1, <1>5, <2>1, RegisteredKeeps
\* the context of a run that is over is cancelled, or goes
<1>6. ASSUME NEW c \in Context, r \in Runs, run[r].status \in {"completed", "cancelled"},
             contexts' = [contexts EXCEPT ![r] = c], UNCHANGED <<rows, pipe, stopping>>,
             Distinct(c), Supported(c, rows),
             call.action \notin {"start", "resume"}
      PROVE  WorkersInv'
  <2>1. \A q \in Runs : contexts'[q] = IF q = r THEN c ELSE contexts[q] BY <1>2, <1>6
  <2>2. contexts' \in [Runs -> Context] BY <1>2, <1>6
  <2>3. ASSUME NEW q \in Runs, Active(q) PROVE q # r /\ contexts[q].state = "open"
    BY <1>6, <2>3 DEF WorkersInv, ActiveIsOpen, Awaited, Active
  <2>4. ~Going(r) /\ run[r].status # "none" BY <1>6 DEF Going
  <2>5. ASSUME NEW q \in Runs
        PROVE  /\ Distinct(contexts'[q]) /\ Supported(contexts'[q], rows)
               /\ run[q].status = "none" => contexts'[q].state = "none"
               /\ Active(q) => contexts'[q].state = "open"
               /\ Going(q) => contexts'[q] = contexts[q]
    BY <1>3, <1>6, <2>1, <2>3, <2>4
  <2> QED BY <1>1, <1>2, <1>6, <2>2, <2>5, QuietAnswerKeeps
<1>7. CASE call.action = "cancel" /\ contexts[r].state # "none"
  <2>1. r \in Runs /\ run[r].status = "cancelled" BY <1>1, <1>7 DEF WorkersInv, AnswersAreSound
  <2>2. [contexts[r] EXCEPT !.state = "cancelled"] \in Context BY <1>2, <2>1 DEF Context
  <2>3. PICK c \in {[contexts[r] EXCEPT !.state = "cancelled"], NoContext} :
          contexts' = [contexts EXCEPT ![r] = c] /\ UNCHANGED <<rows, pipe, stopping>>
    BY <1>1, <1>2, <1>7, <2>1 DEF Observe
  <2>4. c \in Context /\ Distinct(c) /\ Supported(c, rows)
    <3>1. CASE c = NoContext BY <3>1, NoContextIsEmpty DEF Supported
    <3>2. CASE c = [contexts[r] EXCEPT !.state = "cancelled"]
      <4>1. /\ c.state = "cancelled" /\ c.pending = contexts[r].pending /\ c.task = contexts[r].task
        BY <1>2, <2>1, <3>2 DEF Context
      <4> QED BY <1>3, <2>1, <2>2, <3>2, <4>1 DEF Distinct, Supported
    <3> QED BY <3>1, <3>2
  <2> QED BY <1>6, <1>7, <2>1, <2>3, <2>4
<1>8. CASE call.action = "complete"
  <2>1. r \in Runs /\ run[r].status = "completed" BY <1>1, <1>8 DEF WorkersInv, AnswersAreSound
  <2>2. contexts' = [contexts EXCEPT ![r] = NoContext] /\ UNCHANGED <<rows, pipe, stopping>>
    BY <1>1, <1>8 DEF Observe
  <2>3. NoContext \in Context /\ Distinct(NoContext) /\ Supported(NoContext, rows)
    BY NoContextIsEmpty DEF Supported
  <2> QED BY <1>6, <1>8, <2>1, <2>2, <2>3
<1>9. CASE UNCHANGED <<contexts, rows, pipe, stopping>> /\ call.action \notin {"start", "resume"}
  <2>1. \A q \in Runs : Active(q) => contexts[q].state = "open"
    BY <1>9 DEF WorkersInv, ActiveIsOpen, Awaited
  <2> QED BY <1>1, <1>2, <1>3, <1>9, <2>1, QuietAnswerKeeps
<1>10. \/ call.action \in {"start", "resume", "gap_fill"}
       \/ /\ call.action = "register" /\ contexts[r].state # "none"
          /\ call.task \notin contexts[r].pending /\ \A w \in Workers : contexts[r].task[w] # call.task
       \/ call.action = "cancel" /\ contexts[r].state # "none"
       \/ call.action = "complete"
       \/ UNCHANGED <<contexts, rows, pipe, stopping>> /\ call.action \notin {"start", "resume"}
  BY <1>1 DEF Observe
<1> QED BY <1>4, <1>5, <1>7, <1>8, <1>9, <1>10

-----------------------------------------------------------------------------
(* The runs go on                                                           *)

\* The reader takes a line, or none.
PipeIsRead == pipe' = pipe \/ (pipe # <<>> /\ pipe' = Tail(pipe))

LEMMA ReadPipe ==
  ASSUME WorkersInv, PipeIsRead
  PROVE  /\ pipe' \in Seq(Lines) /\ NoneOf("error", pipe')
         /\ \E n \in {0, 1} : /\ Len(pipe') = Len(pipe) - n
                              /\ \A i \in 1..Len(pipe') : i + n \in 1..Len(pipe) /\ pipe'[i] = pipe[i + n]
         /\ \A r, t : /\ Untold(pipe, r, t) => Untold(pipe', r, t)
                      /\ Unended(pipe, r, t) => Unended(pipe', r, t)
<1>1. pipe \in Seq(Lines) /\ NoneOf("error", pipe) BY DEF WorkersInv, BridgeTypeOK, Undisturbed
<1>2. PICK n \in {0, 1} :
        /\ pipe' \in Seq(Lines) /\ Len(pipe') = Len(pipe) - n
        /\ \A i \in 1..Len(pipe') : i + n \in 1..Len(pipe) /\ pipe'[i] = pipe[i + n]
  <2> DEFINE L == Lines
  <2>1. pipe \in Seq(L) BY <1>1
  <2> HIDE DEF L
  <2>2. CASE pipe' = pipe BY <2>1, <2>2 DEF L
  <2>3. CASE pipe # <<>> /\ pipe' = Tail(pipe)
    <3>1. /\ pipe' \in Seq(L) /\ Len(pipe') = Len(pipe) - 1 /\ Len(pipe) \in Nat
          /\ \A i \in 1..Len(pipe') : i + 1 \in 1..Len(pipe) /\ pipe'[i] = pipe[i + 1]
      BY <2>1, <2>3
    <3> QED BY <3>1 DEF L
  <2> QED BY <2>2, <2>3 DEF PipeIsRead
<1>3. \A i \in 1..Len(pipe') : \E j \in 1..Len(pipe) : pipe'[i] = pipe[j] BY <1>2
<1>4. NoneOf("error", pipe') BY <1>1, <1>3 DEF NoneOf
<1>5. \A r, t : /\ Untold(pipe, r, t) => Untold(pipe', r, t)
                /\ Unended(pipe, r, t) => Unended(pipe', r, t)
  BY <1>3 DEF Untold, Unended
<1> QED BY <1>2, <1>4, <1>5

\* A run that is over stays so, and no task finishes unless the line that is read says so.
RunsMoveOn ==
    \A r \in Runs :
        /\ run'[r].status = "none" => run[r].status = "none"
        /\ run[r].status \in {"completed", "cancelled"} => run'[r].status = run[r].status
        /\ run'[r].status \in {"running", "interrupted"} =>
               /\ Going(r) \/ run[r].status = "none"
               /\ \A t \in Tasks : tasks[r][t].status \in Unfinished /\ Unended(pipe, r, t) =>
                      tasks'[r][t].status \in Unfinished

\* What does not depend on the agent's call.
LEMMA RunsFit ==
  ASSUME WorkersInv, PipeIsRead, RunsMoveOn, UNCHANGED <<bridgeVars, process, sidecar, registered>>
  PROVE  /\ RowsTellProcesses' /\ ContextsFit' /\ ProcessesHaveTasks'
         /\ \A s \in stopping' : run'[s.run].status = "cancelled"
<1>1. UNCHANGED <<contexts, rows, launch, halting, stopping, process>> BY DEF bridgeVars
<1>2. /\ contexts \in [Runs -> Context] /\ stopping \subseteq [n : {1, 2}, run : Runs, current : BOOLEAN]
  BY DEF WorkersInv, BridgeTypeOK
<1>3. RowsTellProcesses' BY <1>1 DEF WorkersInv, RowsTellProcesses
<1>4. ContextsFit'
  <2>1. ASSUME NEW r \in Runs
        PROVE  /\ Distinct(contexts[r]) /\ Supported(contexts[r], rows)
               /\ run'[r].status = "none" => contexts[r].state = "none"
               /\ run'[r].status \in {"running", "interrupted"} =>
                      /\ PendingWaits(r, contexts[r], tasks'[r], pipe')
                      /\ LiveWorks(r, contexts[r], rows, tasks'[r], pipe')
    <3>1. /\ Distinct(contexts[r]) /\ Supported(contexts[r], rows) /\ contexts[r] \in Context
          /\ run[r].status = "none" => contexts[r].state = "none"
          /\ Going(r) => /\ PendingWaits(r, contexts[r], tasks[r], pipe)
                         /\ LiveWorks(r, contexts[r], rows, tasks[r], pipe)
      BY <1>2 DEF WorkersInv, ContextsFit
    <3>2. ASSUME run'[r].status \in {"running", "interrupted"}, Going(r)
          PROVE  /\ PendingWaits(r, contexts[r], tasks'[r], pipe')
                 /\ LiveWorks(r, contexts[r], rows, tasks'[r], pipe')
      <4>1. \A t \in Tasks : tasks[r][t].status \in Unfinished /\ Unended(pipe, r, t) =>
                                 tasks'[r][t].status \in Unfinished
        BY <3>2 DEF RunsMoveOn
      <4>2. \A t : Untold(pipe, r, t) => Unended(pipe, r, t) BY DEF Untold, Unended, Finishes
      <4>3. PendingWaits(r, contexts[r], tasks'[r], pipe')
        BY <3>1, <3>2, <4>1, <4>2, ReadPipe DEF PendingWaits, Context
      <4>4. LiveWorks(r, contexts[r], rows, tasks'[r], pipe')
        BY <3>1, <3>2, <4>1, ReadPipe DEF LiveWorks, Context
      <4> QED BY <4>3, <4>4
    <3>3. ASSUME run[r].status = "none"
          PROVE  /\ PendingWaits(r, contexts[r], tasks'[r], pipe')
                 /\ LiveWorks(r, contexts[r], rows, tasks'[r], pipe')
      BY <3>1, <3>3 DEF Supported, PendingWaits, LiveWorks
    <3> QED BY <3>1, <3>2, <3>3 DEF RunsMoveOn
  <2> QED BY <1>1, <2>1 DEF ContextsFit, Going
<1>5. ProcessesHaveTasks' BY <1>1 DEF WorkersInv, ProcessesHaveTasks, RunsMoveOn, Going
<1>6. \A s \in stopping : run'[s.run].status = "cancelled"
  BY <1>2 DEF WorkersInv, StopsAreOfCancelled, RunsMoveOn
<1> QED BY <1>1, <1>3, <1>4, <1>5, <1>6

\* A step that leaves the agent's call alone.
LEMMA RunsGoOn ==
  ASSUME WorkersInv, AppInv', PipeIsRead, RunsMoveOn,
         UNCHANGED <<bridgeVars, process, sidecar, registered, call>>,
         \A r \in Runs : (Active(r)' => Active(r)) /\ (Going(r)' => Going(r)),
         commands' \in Seq([run : Runs, needed : BOOLEAN]),
         \A i \in 1..Len(commands') : run'[commands'[i].run].status = "cancelled",
         \A by \in Cancellers :
             cancelling'[by].step \in {"flag", "signal"} => run'[cancelling'[by].run].status = "cancelled",
         cancelling'["agent"].step # "none" =>
             call.stage = "handling" /\ call.action = "cancel" /\ cancelling'["agent"].run = call.run
  PROVE  WorkersInv'
<1>1. UNCHANGED <<contexts, rows, launch, halting, stopping, process>> BY DEF bridgeVars
<1>2. /\ RowsTellProcesses' /\ ContextsFit' /\ ProcessesHaveTasks'
      /\ \A s \in stopping' : run'[s.run].status = "cancelled"
  BY RunsFit
<1>3. /\ pipe' \in Seq(Lines) /\ NoneOf("error", pipe')
      /\ \A r, t : Untold(pipe, r, t) => Untold(pipe', r, t)
  BY ReadPipe
<1>4. PICK n \in {0, 1} :
          \A i \in 1..Len(pipe') : i + n \in 1..Len(pipe) /\ pipe'[i] = pipe[i + n]
  BY ReadPipe
<1>5. BridgeTypeOK' BY <1>1, <1>3 DEF WorkersInv, BridgeTypeOK
<1>6. Undisturbed' BY <1>1, <1>3 DEF WorkersInv, Undisturbed
<1>7. OneThingAtATime'
  <2>1. NoneOf("ask", pipe) => NoneOf("ask", pipe') BY <1>4 DEF NoneOf
  <2>2. \A i, j \in 1..Len(pipe') : pipe'[i].kind = "ask" /\ pipe'[j].kind = "ask" => i = j
    <3>1. ASSUME NEW i \in 1..Len(pipe'), NEW j \in 1..Len(pipe'), pipe'[i].kind = "ask", pipe'[j].kind = "ask"
          PROVE  i = j
      <4>1. i + n = j + n BY <1>4, <3>1 DEF WorkersInv, OneThingAtATime
      <4> QED BY <4>1
    <3> QED BY <3>1
  <2> QED BY <1>1, <2>1, <2>2 DEF WorkersInv, OneThingAtATime
<1>8. StopsAreOfCancelled' BY <1>2 DEF StopsAreOfCancelled
<1>9. AnswersAreSound'
  <2>1. call.run \in Runs => /\ run[call.run].status \in {"completed", "cancelled"} =>
                                    run'[call.run].status = run[call.run].status
                             /\ run'[call.run].status = "none" => run[call.run].status = "none"
    BY DEF RunsMoveOn
  <2> QED BY <1>1, <2>1 DEF WorkersInv, AnswersAreSound, Active
<1>10. ActiveIsOpen' BY <1>1 DEF WorkersInv, ActiveIsOpen, Awaited
<1>11. RegistersAreNew'
  <2> DEFINE r == call.run
             c == contexts[r]
  <2>1. SUFFICES ASSUME call.action = "register", r \in Runs
        PROVE  /\ call.stage = "asked" /\ Active(r)' =>
                     \A i, j \in 1..Len(pipe'), t \in Tasks :
                         pipe'[j].kind = "ask" /\ Tells(pipe'[i], r, t) /\ ~Knows(c, t) => i < j
               /\ call.stage = "handling" /\ Active(r)' =>
                     \A t \in Tasks : ~Knows(c, t) => Untold(pipe', r, t)
               /\ call.stage = "answered" /\ Going(r)' =>
                     /\ c.state = "open"
                     /\ ~Knows(c, call.task) =>
                            tasks'[r][call.task].status \in Unfinished /\ Untold(pipe', r, call.task)
    BY <1>1 DEF RegistersAreNew, Active, Going
  <2>2. ASSUME call.stage = "asked", Active(r)', NEW i \in 1..Len(pipe'), NEW j \in 1..Len(pipe'), NEW t \in Tasks,
               pipe'[j].kind = "ask", Tells(pipe'[i], r, t), ~Knows(c, t)
        PROVE  i < j
    <3>1. Active(r) BY <2>1, <2>2
    <3>2. i + n < j + n
      BY <1>4, <2>1, <2>2, <3>1 DEF WorkersInv, RegistersAreNew
    <3> QED BY <3>2
  <2>3. ASSUME call.stage = "handling", Active(r)', NEW t \in Tasks, ~Knows(c, t) PROVE Untold(pipe', r, t)
    BY <1>3, <2>1, <2>3 DEF WorkersInv, RegistersAreNew
  <2>4. ASSUME call.stage = "answered", Going(r)'
        PROVE  /\ c.state = "open"
               /\ ~Knows(c, call.task) =>
                      tasks'[r][call.task].status \in Unfinished /\ Untold(pipe', r, call.task)
    <3>1. run'[r].status \in {"running", "interrupted"} BY <2>4 DEF Going
    <3>2. Going(r) /\ call.task \in Tasks BY <2>1, <2>4 DEF WorkersInv, AnswersAreSound
    <3>3. c.state = "open" /\ (~Knows(c, call.task) =>
              tasks[r][call.task].status \in Unfinished /\ Untold(pipe, r, call.task))
      BY <2>1, <2>4, <3>2 DEF WorkersInv, RegistersAreNew
    <3>4. Untold(pipe, r, call.task) => Unended(pipe, r, call.task) BY DEF Untold, Unended, Finishes
    <3> QED BY <1>3, <2>1, <3>1, <3>2, <3>3, <3>4 DEF RunsMoveOn
  <2> QED BY <2>2, <2>3, <2>4
<1> QED BY <1>2, <1>5, <1>6, <1>7, <1>8, <1>9, <1>10, <1>11 DEF WorkersInv

\* No run starts or is resumed.
NoneBegins == \A r \in Runs : (Active(r)' => Active(r)) /\ (Going(r)' => Going(r))

LEMMA UnchangedMovesOn == UNCHANGED runVars => RunsMoveOn /\ NoneBegins
  BY DEF runVars, RunsMoveOn, NoneBegins, Going, Active

\* The methods change one run.
LEMMA OneMovesOn ==
  ASSUME NEW r \in Runs,
         \A q \in Runs \ {r} : run'[q] = run[q] /\ tasks'[q] = tasks[q],
         run'[r].status = "none" => run[r].status = "none",
         run[r].status \in {"completed", "cancelled"} => run'[r].status = run[r].status,
         run'[r].status \in {"running", "interrupted"} =>
               /\ Going(r) \/ run[r].status = "none"
               /\ \A t \in Tasks : tasks[r][t].status \in Unfinished /\ Unended(pipe, r, t) =>
                      tasks'[r][t].status \in Unfinished
  PROVE  /\ RunsMoveOn
         /\ (Active(r)' => Active(r)) /\ (Going(r)' => Going(r)) => NoneBegins
<1>1. \A q \in Runs \ {r} : (Active(q)' <=> Active(q)) /\ (Going(q)' <=> Going(q))
  BY DEF Active, Going
<1>2. RunsMoveOn
  <2>1. ASSUME NEW q \in Runs
        PROVE  /\ run'[q].status = "none" => run[q].status = "none"
               /\ run[q].status \in {"completed", "cancelled"} => run'[q].status = run[q].status
               /\ run'[q].status \in {"running", "interrupted"} =>
                      /\ Going(q) \/ run[q].status = "none"
                      /\ \A t \in Tasks : tasks[q][t].status \in Unfinished /\ Unended(pipe, q, t) =>
                             tasks'[q][t].status \in Unfinished
    <3>1. CASE q = r BY <3>1
    <3>2. CASE q # r BY <3>2 DEF Going
    <3> QED BY <3>1, <3>2
  <2> QED BY <2>1 DEF RunsMoveOn
<1> QED BY <1>1, <1>2 DEF NoneBegins

LEMMA CallsMoveOn ==
  ASSUME RunsTypeOK, NEW r \in Runs,
         \/ SealBatch(r) \/ BeginGapFill(r) \/ Complete(r) \/ ClaimContinuation(r) \/ Cancel(r)
         \/ MarkInterrupted(r) \/ (\E p \in Prompts, t \in Tasks : RegisterTask(r, p, t))
         \/ (\E unconfirmed \in BOOLEAN : SetWorkerStopUnconfirmed(r, unconfirmed))
  PROVE  RunsMoveOn /\ NoneBegins
<1>1. /\ run \in [Runs -> RunRecord] /\ run[r] \in RunRecord
      /\ tasks \in [Runs -> [Tasks -> TaskRecord]] /\ tasks[r] \in [Tasks -> TaskRecord]
  BY DEF RunsTypeOK
<1>2. ASSUME NEW rec, run' = [run EXCEPT ![r] = rec], UNCHANGED tasks,
             \/ rec.status = run[r].status
             \/ rec.status \in {"completed", "cancelled"} /\ Going(r)
      PROVE  RunsMoveOn /\ NoneBegins
  <2>1. run'[r] = rec /\ \A q \in Runs \ {r} : run'[q] = run[q] /\ tasks'[q] = tasks[q]
    BY <1>1, <1>2
  <2>2. (Active(r)' => Active(r)) /\ (Going(r)' => Going(r)) BY <1>2, <2>1 DEF Active, Going
  <2>3. tasks'[r] = tasks[r] BY <1>2
  <2> QED BY <1>2, <2>1, <2>2, <2>3, OneMovesOn DEF Going
<1>3. CASE SealBatch(r) \/ BeginGapFill(r) \/ ClaimContinuation(r)
  <2>1. PICK phase : To(r, phase) /\ UNCHANGED tasks
    BY <1>3 DEF SealBatch, BeginGapFill, ClaimContinuation
  <2> DEFINE rec == [run[r] EXCEPT !.phase = phase]
  <2>2. run' = [run EXCEPT ![r] = rec] /\ rec.status = run[r].status
    BY <1>1, <2>1 DEF To, RunRecord
  <2> QED BY <1>2, <2>1, <2>2
<1>4. CASE Complete(r)
  <2> DEFINE rec == [run[r] EXCEPT !.status = "completed", !.phase = "finalizing"]
  <2>1. run' = [run EXCEPT ![r] = rec] /\ rec.status = "completed" /\ Going(r) /\ UNCHANGED tasks
    BY <1>1, <1>4 DEF Complete, RunRecord, Active, Going
  <2> QED BY <1>2, <2>1
<1>5. CASE \E unconfirmed \in BOOLEAN : SetWorkerStopUnconfirmed(r, unconfirmed)
  <2>1. PICK unconfirmed \in BOOLEAN : SetWorkerStopUnconfirmed(r, unconfirmed) BY <1>5
  <2> DEFINE rec == [run[r] EXCEPT !.stop = unconfirmed]
  <2>2. run' = [run EXCEPT ![r] = rec] /\ rec.status = run[r].status /\ UNCHANGED tasks
    BY <1>1, <2>1 DEF SetWorkerStopUnconfirmed, RunRecord
  <2> QED BY <1>2, <2>2
<1>6. CASE Cancel(r)
  <2>1. /\ run'[r].status = "cancelled" /\ Going(r)
        /\ \A q \in Runs \ {r} : run'[q] = run[q] /\ tasks'[q] = tasks[q]
    BY <1>1, <1>6 DEF Cancel, Going, RunRecord
  <2>2. ~Active(r)' /\ ~Going(r)' BY <2>1 DEF Active, Going
  <2> QED BY <2>1, <2>2, OneMovesOn DEF Going
<1>7. CASE MarkInterrupted(r)
  <2>1. /\ run'[r].status = "interrupted" /\ Going(r)
        /\ \A q \in Runs \ {r} : run'[q] = run[q] /\ tasks'[q] = tasks[q]
        /\ tasks'[r] = Ended(r, {"running", "launching"}, "interrupted")
    BY <1>1, <1>7 DEF MarkInterrupted, Active, Going, RunRecord
  <2>2. ~Active(r)' BY <2>1 DEF Active
  <2>3. ASSUME NEW t \in Tasks, tasks[r][t].status \in Unfinished PROVE tasks'[r][t].status \in Unfinished
    <3>1. tasks[r][t] \in TaskRecord BY <1>1
    <3>2. tasks'[r][t] = tasks[r][t] \/ tasks'[r][t] = [tasks[r][t] EXCEPT !.status = "interrupted"]
      BY <2>1 DEF Ended
    <3> QED BY <2>3, <3>1, <3>2 DEF TaskRecord, Unfinished
  <2> QED BY <2>1, <2>2, <2>3, OneMovesOn DEF Going
<1>8. CASE \E p \in Prompts, t \in Tasks : RegisterTask(r, p, t)
  <2>1. PICK p \in Prompts, t \in Tasks : RegisterTask(r, p, t) BY <1>8
  <2>2. /\ run'[r] = run[r]
        /\ \A q \in Runs \ {r} : run'[q] = run[q] /\ tasks'[q] = tasks[q]
        /\ \A u \in Tasks : tasks'[r][u] = tasks[r][u] \/ tasks'[r][u].status = "launching"
    BY <1>1, <2>1 DEF RegisterTask, TaskRecord
  <2>3. /\ (Active(r)' <=> Active(r)) /\ (Going(r)' <=> Going(r))
        /\ \A u \in Tasks : tasks[r][u].status \in Unfinished => tasks'[r][u].status \in Unfinished
    BY <2>2 DEF Active, Going, Unfinished
  <2> QED BY <2>2, <2>3, OneMovesOn DEF Going
<1> QED BY <1>3, <1>4, <1>5, <1>6, <1>7, <1>8

\* The application answers the agent's call.
LEMMA CallAnswered ==
  ASSUME WorkersInv, RunsMoveOn, UNCHANGED <<bridgeVars, process, sidecar, registered, pipe>>,
         NEW action \in Actions \cup {"failed"}, NEW t \in Tasks \cup {0}, call.stage = "handling",
         call' = [call EXCEPT !.stage = "answered", !.action = action, !.task = t],
         action # "failed" =>
             /\ call.run \in Runs
             /\ action = "cancel" => run'[call.run].status = "cancelled"
             /\ action = "complete" => run'[call.run].status = "completed"
             /\ action \in {"start", "resume", "gap_fill"} =>
                    run'[call.run].status # "none" /\ \A q \in Runs \ {call.run} : ~Active(q)'
             /\ action \in {"start", "gap_fill"} =>
                    \A w \in Workers : process[w].run = call.run => process[w].state # "alive"
             /\ action = "register" =>
                    /\ t \in Tasks
                    /\ Going(call.run)' => /\ contexts[call.run].state = "open"
                                           /\ ~Knows(contexts[call.run], t) =>
                                                  /\ tasks'[call.run][t].status \in Unfinished
                                                  /\ Untold(pipe, call.run, t),
         \A r \in Runs : Active(r)' => Active(r) \/ (action \in {"start", "resume"} /\ call.run = r),
         commands' \in Seq([run : Runs, needed : BOOLEAN]),
         \A i \in 1..Len(commands') : run'[commands'[i].run].status = "cancelled",
         \A by \in Cancellers :
             cancelling'[by].step \in {"flag", "signal"} => run'[cancelling'[by].run].status = "cancelled",
         cancelling'["agent"].step = "none"
  PROVE  WorkersInv'
<1>1. UNCHANGED <<contexts, rows, launch, halting, stopping, process>> BY DEF bridgeVars
<1>2. PipeIsRead BY DEF PipeIsRead
<1>3. /\ RowsTellProcesses' /\ ContextsFit' /\ ProcessesHaveTasks'
      /\ \A s \in stopping' : run'[s.run].status = "cancelled"
  BY <1>2, RunsFit
<1>4. /\ call' \in [stage : {"none", "asked", "handling", "answered"}, action : Actions \cup {"none", "failed"},
                    run : Runs \cup {NoRun}, prompt : AnyPrompt, task : Tasks \cup {0}, heard : BOOLEAN]
      /\ call'.stage = "answered" /\ call'.action = action /\ call'.task = t /\ call'.run = call.run
      /\ call'.heard = call.heard
  BY DEF WorkersInv, BridgeTypeOK
<1>5. BridgeTypeOK' BY <1>1, <1>4 DEF WorkersInv, BridgeTypeOK
<1>6. Undisturbed' /\ OneThingAtATime' BY <1>1, <1>4 DEF WorkersInv, Undisturbed, OneThingAtATime
<1>7. StopsAreOfCancelled' BY <1>3 DEF StopsAreOfCancelled
<1>8. AnswersAreSound' BY <1>4 DEF AnswersAreSound, Active
<1>9. ActiveIsOpen'
  <2>1. \A r \in Runs : ~Awaited(r) BY DEF Awaited
  <2>2. \A r \in Runs : Active(r) => contexts[r].state = "open" BY <2>1 DEF WorkersInv, ActiveIsOpen
  <2> QED BY <1>1, <1>4, <2>2 DEF ActiveIsOpen, Awaited
<1>10. RegistersAreNew' BY <1>1, <1>4 DEF RegistersAreNew
<1> QED BY <1>3, <1>5, <1>6, <1>7, <1>8, <1>9, <1>10 DEF WorkersInv

-----------------------------------------------------------------------------
(* The steps of cancels                                                     *)

\* The cancels that are recorded are of cancelled runs, when one goes on to k.
LEMMA CancelsStaySound ==
  ASSUME WorkersInv, AppInv, RunsMoveOn, NEW by \in Cancellers, NEW k,
         cancelling' = [cancelling EXCEPT ![by] = k],
         k.step \in {"flag", "signal"} => run'[k.run].status = "cancelled"
  PROVE  \A b \in Cancellers :
             cancelling'[b].step \in {"flag", "signal"} => run'[cancelling'[b].run].status = "cancelled"
<1>1. ASSUME NEW b \in Cancellers, cancelling'[b].step \in {"flag", "signal"}
      PROVE  run'[cancelling'[b].run].status = "cancelled"
  <2>1. CASE b = by BY <1>1, <2>1 DEF AppInv, AppTypeOK
  <2>2. CASE b # by
    <3>1. cancelling'[b] = cancelling[b] BY <2>2 DEF AppInv, AppTypeOK
    <3>2. cancelling[b].run \in Runs /\ run[cancelling[b].run].status = "cancelled"
      BY <1>1, <3>1 DEF AppInv, WorkersInv, StopsAreOfCancelled
    <3> QED BY <3>1, <3>2 DEF RunsMoveOn
  <2> QED BY <2>1, <2>2
<1> QED BY <1>1

LEMMA CancelStepKeeps ==
  ASSUME WorkersInv, AppInv, AppInv', RunsMoveOn, NoneBegins, NEW by \in Cancellers, NEW k,
         cancelling' = [cancelling EXCEPT ![by] = k],
         UNCHANGED <<bridgeVars, process, sidecar, registered, pipe, call>>,
         k.step \in {"flag", "signal"} => run'[k.run].status = "cancelled",
         by = "agent" =>
             call.stage = "handling" /\ call.action = "cancel" /\ k.run = call.run,
         commands' \in Seq([run : Runs, needed : BOOLEAN]),
         \A i \in 1..Len(commands') : run'[commands'[i].run].status = "cancelled"
  PROVE  WorkersInv'
<1>1. \A b \in Cancellers :
          cancelling'[b].step \in {"flag", "signal"} => run'[cancelling'[b].run].status = "cancelled"
  BY CancelsStaySound
<1>2. cancelling'["agent"].step # "none" =>
          call.stage = "handling" /\ call.action = "cancel" /\ cancelling'["agent"].run = call.run
  <2>1. CASE by = "agent" BY <2>1 DEF AppInv, AppTypeOK
  <2>2. CASE by # "agent"
    <3>1. cancelling'["agent"] = cancelling["agent"] BY <2>2 DEF AppInv, AppTypeOK, Cancellers
    <3> QED BY <3>1 DEF WorkersInv, StopsAreOfCancelled
  <2> QED BY <2>1, <2>2
<1>3. PipeIsRead BY DEF PipeIsRead
<1>4. \A r \in Runs : (Active(r)' => Active(r)) /\ (Going(r)' => Going(r)) BY DEF NoneBegins
<1> QED BY <1>1, <1>2, <1>3, <1>4, RunsGoOn

\* The bridge's commands stay commands to stop workers of cancelled runs.
LEMMA CommandsStay ==
  ASSUME WorkersInv, RunsMoveOn
  PROVE  /\ commands \in Seq([run : Runs, needed : BOOLEAN])
         /\ \A i \in 1..Len(commands) : run'[commands[i].run].status = "cancelled"
<1> DEFINE S == [run : Runs, needed : BOOLEAN]
<1>1. commands \in Seq(S) BY DEF WorkersInv, BridgeTypeOK
<1>2. ASSUME NEW i \in 1..Len(commands) PROVE run'[commands[i].run].status = "cancelled"
  <2> HIDE DEF S
  <2>1. commands[i] \in S BY <1>1, ElementOfSeq
  <2>2. commands[i].run \in Runs BY <2>1 DEF S
  <2>3. run[commands[i].run].status = "cancelled" BY DEF WorkersInv, StopsAreOfCancelled
  <2> QED BY <2>2, <2>3 DEF RunsMoveOn
<1> QED BY <1>1, <1>2

LEMMA CommandAppended ==
  ASSUME WorkersInv, RunsMoveOn, NEW r \in Runs, NEW needed \in BOOLEAN, run'[r].status = "cancelled"
  PROVE  LET c == Append(commands, Command(r, needed))
         IN  /\ c \in Seq([run : Runs, needed : BOOLEAN])
             /\ \A i \in 1..Len(c) : run'[c[i].run].status = "cancelled"
<1> DEFINE S == [run : Runs, needed : BOOLEAN]
           new == Command(r, needed)
<1>1. commands \in Seq(S) /\ \A i \in 1..Len(commands) : run'[commands[i].run].status = "cancelled"
  BY CommandsStay
<1>2. new \in S /\ new.run = r BY DEF Command
<1> HIDE DEF S, new
<1>3. /\ Append(commands, new) \in Seq(S)
      /\ \A i \in 1..Len(Append(commands, new)) : \/ i \in 1..Len(commands) /\ Append(commands, new)[i] = commands[i]
                                                  \/ Append(commands, new)[i] = new
  BY <1>1, <1>2
<1> QED BY <1>1, <1>2, <1>3 DEF S, new

LEMMA CancelsBeginKeeps ==
  ASSUME WorkersInv, AppInv, AppInv',
         (\E r \in Runs : UserCancels(r)) \/ AgentCancels \/ (\E by \in Cancellers : CancelReads(by))
  PROVE  WorkersInv'
<1>1. UNCHANGED runVars /\ UNCHANGED <<bridgeVars, process, sidecar, registered, pipe, call, commands>>
  BY DEF UserCancels, AgentCancels, CancelReads
<1>2. RunsMoveOn /\ NoneBegins BY <1>1, UnchangedMovesOn
<1>3. PICK by \in Cancellers : \E k :
        /\ cancelling' = [cancelling EXCEPT ![by] = k] /\ k.step \in {"read", "cancel"}
        /\ by = "agent" => call.stage = "handling" /\ call.action = "cancel" /\ k.run = call.run
  <2>1. CASE \E r \in Runs : UserCancels(r)
    <3>1. PICK r \in Runs : cancelling' = [cancelling EXCEPT !["user"] = [NoCancel EXCEPT !.step = "read", !.run = r]]
      BY <2>1 DEF UserCancels
    <3>2. [NoCancel EXCEPT !.step = "read", !.run = r].step = "read" BY DEF NoCancel
    <3>3. "user" \in Cancellers BY DEF Cancellers
    <3> QED BY <3>1, <3>2, <3>3
  <2>2. CASE AgentCancels
    <3> DEFINE k == [NoCancel EXCEPT !.step = "read", !.run = call.run]
    <3>1. /\ cancelling' = [cancelling EXCEPT !["agent"] = k]
          /\ call.stage = "handling" /\ call.action = "cancel"
      BY <2>2 DEF AgentCancels
    <3>2. k.step = "read" /\ k.run = call.run BY DEF NoCancel
    <3>3. "agent" \in Cancellers BY DEF Cancellers
    <3> HIDE DEF k
    <3> QED BY <3>1, <3>2, <3>3
  <2>3. CASE \E by \in Cancellers : CancelReads(by)
    <3>1. PICK by \in Cancellers : CancelReads(by) BY <2>3
    <3> DEFINE needed == \/ run[cancelling[by].run].stop
                         \/ \E t \in Tasks : tasks[cancelling[by].run][t].status \in {"running", "interrupted"}
               k == [cancelling[by] EXCEPT !.step = "cancel", !.needed = needed]
    <3>2. cancelling' = [cancelling EXCEPT ![by] = k] /\ cancelling[by].step = "read"
      BY <3>1 DEF CancelReads, Step
    <3> HIDE DEF needed
    <3>3. k.step = "cancel" /\ k.run = cancelling[by].run BY DEF AppInv, AppTypeOK
    <3>4. by = "agent" => call.stage = "handling" /\ call.action = "cancel" /\ k.run = call.run
      BY <3>2, <3>3 DEF WorkersInv, StopsAreOfCancelled
    <3> HIDE DEF k
    <3> QED BY <3>2, <3>3, <3>4
  <2> QED BY <2>1, <2>2, <2>3
<1>4. PICK k :
        /\ cancelling' = [cancelling EXCEPT ![by] = k] /\ k.step \in {"read", "cancel"}
        /\ by = "agent" => call.stage = "handling" /\ call.action = "cancel" /\ k.run = call.run
  BY <1>3
<1>5. /\ commands' \in Seq([run : Runs, needed : BOOLEAN])
      /\ \A i \in 1..Len(commands') : run'[commands'[i].run].status = "cancelled"
  BY <1>1, <1>2, CommandsStay
<1> QED BY <1>1, <1>2, <1>4, <1>5, CancelStepKeeps

\* A cancel that is over, and whom it answers.
LEMMA CancelOverKeeps ==
  ASSUME WorkersInv, AppInv, AppInv', NEW by \in Cancellers, NEW action \in {"cancel", "failed"},
         cancelling[by].step # "none", Leave(by, action), UNCHANGED runVars,
         UNCHANGED <<bridgeVars, process, sidecar, registered, pipe>>,
         action = "cancel" => run[cancelling[by].run].status = "cancelled",
         commands' \in Seq([run : Runs, needed : BOOLEAN]),
         \A i \in 1..Len(commands') : run'[commands'[i].run].status = "cancelled"
  PROVE  WorkersInv'
<1>1. RunsMoveOn /\ NoneBegins BY UnchangedMovesOn
<1>2. cancelling' = [cancelling EXCEPT ![by] = NoCancel] BY DEF Leave, Step
<1>3. NoCancel.step = "none" BY DEF NoCancel
<1>4. CASE by # "agent"
  <2>1. UNCHANGED call BY <1>4 DEF Leave
  <2> QED BY <1>1, <1>2, <1>3, <1>4, <2>1, CancelStepKeeps
<1>5. CASE by = "agent"
  <2>1. /\ call.stage = "handling" /\ call.action = "cancel" /\ cancelling[by].run = call.run
        /\ call.run \in Runs
    BY <1>5 DEF WorkersInv, StopsAreOfCancelled, AppInv
  <2>2. call' = [call EXCEPT !.stage = "answered", !.action = action, !.task = 0]
    BY <1>5 DEF Leave, Answered, WorkersInv, Undisturbed
  <2>3. \A b \in Cancellers :
            cancelling'[b].step \in {"flag", "signal"} => run'[cancelling'[b].run].status = "cancelled"
    BY <1>1, <1>2, <1>3, CancelsStaySound
  <2>4. cancelling'["agent"].step = "none" BY <1>2, <1>3, <1>5 DEF AppInv, AppTypeOK
  <2>5. action \in Actions \cup {"failed"} /\ 0 \in Tasks \cup {0} BY DEF Actions
  <2>6. \A r \in Runs : Active(r)' => Active(r) BY <1>1 DEF NoneBegins
  <2>7. action = "cancel" => run'[call.run].status = "cancelled" BY <2>1 DEF runVars
  <2> QED BY <1>1, <2>1, <2>2, <2>3, <2>4, <2>5, <2>6, <2>7, CallAnswered
<1> QED BY <1>4, <1>5

LEMMA CancelsGoOnKeeps ==
  ASSUME WorkersInv, AppInv, AppInv', RunsInv, NEW by \in Cancellers,
         CancelRecords(by) \/ CancelFlags(by) \/ CancelSignals(by)
  PROVE  WorkersInv'
<1> DEFINE k == cancelling[by]
           r == k.run
<1>1. /\ r \in Runs /\ k.step # "none" /\ k.needed \in BOOLEAN
      /\ UNCHANGED <<bridgeVars, process, sidecar, registered, pipe>>
  BY DEF CancelRecords, CancelFlags, CancelSignals, AppInv, AppTypeOK
<1>2. RunsTypeOK BY RunsInvImplies
<1>3. by = "agent" => call.stage = "handling" /\ call.action = "cancel" /\ r = call.run
  BY <1>1 DEF WorkersInv, StopsAreOfCancelled
\* a step to the cancel's next step
<1>4. ASSUME RunsMoveOn, NoneBegins, NEW c, cancelling' = [cancelling EXCEPT ![by] = c], c.run = r,
             run'[r].status = "cancelled", UNCHANGED <<call, commands>>
      PROVE  WorkersInv'
  <2>1. /\ commands' \in Seq([run : Runs, needed : BOOLEAN])
        /\ \A i \in 1..Len(commands') : run'[commands'[i].run].status = "cancelled"
    BY <1>4, CommandsStay
  <2> QED BY <1>1, <1>3, <1>4, <2>1, CancelStepKeeps
<1>5. CASE CancelRecords(by)
  <2>1. UNCHANGED commands BY <1>5 DEF CancelRecords
  <2>2. CASE /\ Cancel(r) \/ (run[r].status = "cancelled" /\ UNCHANGED runVars)
             /\ Step(by, [k EXCEPT !.step = "flag", !.signal = registered]) /\ UNCHANGED call
    <3> DEFINE c == [k EXCEPT !.step = "flag", !.signal = registered]
    <3>1. cancelling' = [cancelling EXCEPT ![by] = c] BY <2>2 DEF Step
    <3>2. c.run = r BY DEF AppInv, AppTypeOK
    <3>3. run'[r].status = "cancelled"
      <4>1. CASE Cancel(r) BY <1>1, <1>2, <4>1 DEF Cancel, RunsTypeOK, RunRecord
      <4>2. CASE run[r].status = "cancelled" /\ UNCHANGED runVars BY <4>2 DEF runVars
      <4> QED BY <2>2, <4>1, <4>2
    <3>4. RunsMoveOn /\ NoneBegins BY <1>1, <1>2, <2>2, CallsMoveOn, UnchangedMovesOn
    <3> HIDE DEF c
    <3> QED BY <1>4, <2>1, <2>2, <3>1, <3>2, <3>3, <3>4
  <2>3. CASE UNCHANGED runVars /\ Leave(by, "failed")
    <3>1. RunsMoveOn BY <2>3, UnchangedMovesOn
    <3>2. /\ commands' \in Seq([run : Runs, needed : BOOLEAN])
          /\ \A i \in 1..Len(commands') : run'[commands'[i].run].status = "cancelled"
      BY <2>1, <3>1, CommandsStay
    <3> QED BY <1>1, <2>3, <3>2, CancelOverKeeps
  <2> QED BY <1>5, <2>2, <2>3 DEF CancelRecords
<1>6. CASE CancelFlags(by)
  <2> DEFINE c == [k EXCEPT !.step = "signal"]
  <2>1. /\ cancelling' = [cancelling EXCEPT ![by] = c] /\ UNCHANGED <<call, commands>> /\ k.step = "flag"
        /\ SetWorkerStopUnconfirmed(r, TRUE) \/ UNCHANGED runVars
    BY <1>6 DEF CancelFlags, Step
  <2>2. c.run = r BY DEF AppInv, AppTypeOK
  <2>3. run[r].status = "cancelled" BY <2>1 DEF WorkersInv, StopsAreOfCancelled
  <2>4. RunsMoveOn /\ NoneBegins BY <1>1, <1>2, <2>1, CallsMoveOn, UnchangedMovesOn
  <2>5. run'[r].status = "cancelled" BY <1>1, <2>3, <2>4 DEF RunsMoveOn
  <2> HIDE DEF c
  <2> QED BY <1>4, <2>1, <2>2, <2>4, <2>5
<1>7. CASE CancelSignals(by)
  <2>1. k.step = "signal" /\ UNCHANGED runVars BY <1>7 DEF CancelSignals
  <2>2. run[r].status = "cancelled" BY <2>1 DEF WorkersInv, StopsAreOfCancelled
  <2>3. RunsMoveOn BY <2>1, UnchangedMovesOn
  <2>4. run'[r].status = "cancelled" BY <2>1, <2>2 DEF runVars
  <2>5. PICK action \in {"cancel", "failed"} :
            /\ Leave(by, action)
            /\ UNCHANGED commands \/ commands' = Append(commands, Command(r, k.needed))
    BY <1>7 DEF CancelSignals
  <2>6. /\ commands' \in Seq([run : Runs, needed : BOOLEAN])
        /\ \A i \in 1..Len(commands') : run'[commands'[i].run].status = "cancelled"
    <3>1. CASE UNCHANGED commands BY <2>3, <3>1, CommandsStay
    <3>2. CASE commands' = Append(commands, Command(r, k.needed))
      BY <1>1, <2>3, <2>4, <3>2, CommandAppended
    <3> QED BY <2>5, <3>1, <3>2
  <2> QED BY <1>1, <2>1, <2>2, <2>5, <2>6, CancelOverKeeps
<1> QED BY <1>5, <1>6, <1>7

-----------------------------------------------------------------------------
(* The reader, and the agent's calls                                        *)

LEMMA CancelsWait ==
  ASSUME WorkersInv, AppInv, RunsMoveOn, UNCHANGED cancelling
  PROVE  \A by \in Cancellers :
             cancelling'[by].step \in {"flag", "signal"} => run'[cancelling'[by].run].status = "cancelled"
<1>1. ASSUME NEW by \in Cancellers, cancelling[by].step \in {"flag", "signal"}
      PROVE  run'[cancelling[by].run].status = "cancelled"
  <2>1. cancelling[by].run \in Runs /\ run[cancelling[by].run].status = "cancelled"
    BY <1>1 DEF AppInv, WorkersInv, StopsAreOfCancelled
  <2> QED BY <2>1 DEF RunsMoveOn
<1> QED BY <1>1

LEMMA ReadingKeeps ==
  ASSUME WorkersInv, AppInv, AppInv', PipeIsRead, RunsMoveOn, NoneBegins,
         UNCHANGED <<bridgeVars, process, sidecar, registered, call, commands, cancelling>>
  PROVE  WorkersInv'
<1>1. /\ commands' \in Seq([run : Runs, needed : BOOLEAN])
      /\ \A i \in 1..Len(commands') : run'[commands'[i].run].status = "cancelled"
  BY CommandsStay
<1>2. \A by \in Cancellers :
          cancelling'[by].step \in {"flag", "signal"} => run'[cancelling'[by].run].status = "cancelled"
  BY CancelsWait
<1>3. cancelling'["agent"].step # "none" =>
          call.stage = "handling" /\ call.action = "cancel" /\ cancelling'["agent"].run = call.run
  BY DEF WorkersInv, StopsAreOfCancelled
<1>4. \A r \in Runs : (Active(r)' => Active(r)) /\ (Going(r)' => Going(r)) BY DEF NoneBegins
<1> QED BY <1>1, <1>2, <1>3, <1>4, RunsGoOn

\* A task finishes only with a line that says so.
LEMMA RecordedMovesOn ==
  ASSUME RunsTypeOK, WorkersInv, pipe # <<>>, NEW r \in Runs, NEW updates \in Updates,
         Head(pipe) = Line("tasks", r, updates), RecordWorkerUpdates(r, updates)
  PROVE  RunsMoveOn /\ NoneBegins
<1>1. /\ run \in [Runs -> RunRecord] /\ run[r] \in RunRecord /\ tasks \in [Runs -> [Tasks -> TaskRecord]]
  BY DEF RunsTypeOK
<1>2. /\ tasks' = [tasks EXCEPT ![r] = Updated(r, updates)] /\ Going(r)
      /\ UNCHANGED run \/ \E phase : To(r, phase)
  BY DEF RecordWorkerUpdates, TakesUpdates, Active, Going
<1>3. /\ tasks'[r] = Updated(r, updates) /\ run'[r].status = run[r].status
      /\ \A q \in Runs \ {r} : run'[q] = run[q] /\ tasks'[q] = tasks[q]
  BY <1>1, <1>2 DEF To, RunRecord
<1>4. ASSUME NEW t \in Tasks, tasks[r][t].status \in Unfinished, Unended(pipe, r, t)
      PROVE  tasks'[r][t].status \in Unfinished
  <2>1. CASE t \notin DOMAIN updates BY <1>3, <1>4, <2>1 DEF Updated
  <2>2. CASE t \in DOMAIN updates
    <3>1. 1 \in 1..Len(pipe) /\ pipe[1] = Line("tasks", r, updates)
      BY DEF WorkersInv, BridgeTypeOK
    <3>2. Line("tasks", r, updates).kind = "tasks" /\ Line("tasks", r, updates).run = r
          /\ Line("tasks", r, updates).updates = updates
      BY DEF Line
    <3>3. updates[t] = "running" BY <1>4, <2>2, <3>1, <3>2 DEF Unended, Finishes, Tells
    <3>4. Updated(r, updates)[t].status =
              IF updates[t] = "running" /\ tasks[r][t].status \in Finished THEN tasks[r][t].status ELSE updates[t]
      BY <2>2 DEF Updated
    <3> QED BY <1>3, <1>4, <3>3, <3>4 DEF Unfinished
  <2> QED BY <2>1, <2>2
<1>5. (Active(r)' => Active(r)) /\ (Going(r)' => Going(r)) BY <1>3 DEF Active, Going
<1> QED BY <1>2, <1>3, <1>4, <1>5, OneMovesOn

\* The application takes the agent's call: what was written before it is read.
LEMMA AskIsReadKeeps ==
  ASSUME WorkersInv, AppInv, AppInv', pipe # <<>>, pipe' = Tail(pipe), Head(pipe).kind = "ask",
         call' = [call EXCEPT !.stage = "handling"],
         UNCHANGED <<runVars, bridgeVars, process, sidecar, registered, commands, cancelling>>
  PROVE  WorkersInv'
<1>1. UNCHANGED <<run, tasks, contexts, rows, launch, halting, stopping>> BY DEF runVars, bridgeVars
<1>2. pipe \in Seq(Lines) BY DEF WorkersInv, BridgeTypeOK
<1>3. PipeIsRead /\ RunsMoveOn BY UnchangedMovesOn DEF PipeIsRead
<1>4. /\ RowsTellProcesses' /\ ContextsFit' /\ ProcessesHaveTasks'
      /\ \A s \in stopping' : run'[s.run].status = "cancelled"
  BY <1>3, RunsFit
<1>5. pipe' \in Seq(Lines) /\ NoneOf("error", pipe') BY <1>3, ReadPipe
<1>6. /\ 1 \in 1..Len(pipe) /\ pipe[1].kind = "ask"
      /\ \A i \in 1..Len(pipe') : i + 1 \in 1..Len(pipe) /\ pipe'[i] = pipe[i + 1]
  <2> DEFINE L == Lines
  <2>1. pipe \in Seq(L) BY <1>2
  <2> HIDE DEF L
  <2> QED BY <2>1
<1>7. call.stage = "asked" BY <1>6 DEF WorkersInv, OneThingAtATime, NoneOf
<1>8. NoneOf("ask", pipe')
  <2>1. ASSUME NEW i \in 1..Len(pipe'), pipe'[i].kind = "ask" PROVE FALSE
    <3>1. i + 1 = 1 BY <1>6, <2>1 DEF WorkersInv, OneThingAtATime
    <3> QED BY <3>1
  <2> QED BY <2>1 DEF NoneOf
<1>9. /\ call' \in [stage : {"none", "asked", "handling", "answered"}, action : Actions \cup {"none", "failed"},
                    run : Runs \cup {NoRun}, prompt : AnyPrompt, task : Tasks \cup {0}, heard : BOOLEAN]
      /\ call'.stage = "handling" /\ call'.action = call.action /\ call'.run = call.run
      /\ call'.heard = call.heard
  BY DEF WorkersInv, BridgeTypeOK
<1>10. BridgeTypeOK' BY <1>1, <1>5, <1>9 DEF WorkersInv, BridgeTypeOK
<1>11. Undisturbed' BY <1>1, <1>5, <1>9 DEF WorkersInv, Undisturbed
<1>12. OneThingAtATime'
  BY <1>1, <1>7, <1>8, <1>9 DEF WorkersInv, OneThingAtATime, NoneOf
<1>13. StopsAreOfCancelled' BY <1>1, <1>4, <1>7, <1>9 DEF WorkersInv, StopsAreOfCancelled
<1>14. AnswersAreSound' BY <1>9 DEF AnswersAreSound
<1>15. ActiveIsOpen' BY <1>1, <1>7, <1>9 DEF WorkersInv, ActiveIsOpen, Active, Awaited
<1>16. RegistersAreNew'
  <2>1. ASSUME call.action = "register", call.run \in Runs, Active(call.run), NEW t \in Tasks,
               ~Knows(contexts[call.run], t), NEW i \in 1..Len(pipe), Tells(pipe[i], call.run, t)
        PROVE  FALSE
    <3>1. i < 1 BY <1>6, <1>7, <2>1 DEF WorkersInv, RegistersAreNew
    <3> QED BY <3>1
  <2>2. ASSUME call.action = "register", call.run \in Runs, Active(call.run), NEW t \in Tasks,
               ~Knows(contexts[call.run], t)
        PROVE  Untold(pipe', call.run, t)
    <3>1. Untold(pipe, call.run, t) BY <2>1, <2>2 DEF Untold
    <3> QED BY <1>3, <3>1, ReadPipe
  <2> QED BY <1>1, <1>9, <2>2 DEF RegistersAreNew, Active
<1> QED BY <1>4, <1>10, <1>11, <1>12, <1>13, <1>14, <1>15, <1>16 DEF WorkersInv

LEMMA ReaderKeeps ==
  ASSUME WorkersInv, AppInv, AppInv', RunsInv, LineIsRead \/ ReaderContinues PROVE WorkersInv'
<1>1. RunsTypeOK BY RunsInvImplies
<1>2. CASE ReaderContinues
  <2>1. /\ UNCHANGED <<bridgeVars, process, sidecar, registered, call, commands, cancelling, pipe>>
        /\ reading.run \in Runs /\ ReaderGoesOn
    BY <1>2 DEF ReaderContinues, ReaderGoesOn, AppInv
  <2>2. ClaimContinuation(reading.run) \/ MarkInterrupted(reading.run) \/ UNCHANGED runVars
    BY <2>1 DEF ReaderGoesOn
  <2>3. RunsMoveOn /\ NoneBegins BY <1>1, <2>1, <2>2, CallsMoveOn, UnchangedMovesOn
  <2>4. PipeIsRead BY <2>1 DEF PipeIsRead
  <2> QED BY <2>1, <2>3, <2>4, ReadingKeeps
<1>3. CASE LineIsRead
  <2> DEFINE line == Head(pipe)
             r == line.run
  <2>1. /\ pipe # <<>> /\ pipe' = Tail(pipe)
        /\ UNCHANGED <<bridgeVars, process, sidecar, commands, cancelling>>
    BY <1>3 DEF LineIsRead
  <2>2. line \in Lines /\ 1 \in 1..Len(pipe) /\ line = pipe[1]
    <3> DEFINE L == Lines
    <3>1. pipe \in Seq(L) BY DEF WorkersInv, BridgeTypeOK
    <3> HIDE DEF L
    <3>2. 1 \in 1..Len(pipe) /\ Head(pipe) = pipe[1] BY <2>1, <3>1
    <3>3. pipe[1] \in L BY <3>1, <3>2, ElementOfSeq
    <3> QED BY <3>2, <3>3 DEF L
  <2>3. line.kind # "error" BY <2>2 DEF WorkersInv, Undisturbed, NoneOf
  <2>4. CASE line.kind = "ask"
    <3>1. call' = [call EXCEPT !.stage = "handling"] /\ UNCHANGED <<runVars, registered>>
      BY <1>3, <2>4 DEF LineIsRead
    <3> QED BY <2>1, <2>4, <3>1, AskIsReadKeeps
  <2>5. CASE line.kind \in {"tasks", "confirmed", "unconfirmed"}
    <3>1. UNCHANGED <<call, registered>> BY <1>3, <2>5 DEF LineIsRead
    <3>2. RunsMoveOn /\ NoneBegins
      <4>1. CASE UNCHANGED runVars BY <4>1, UnchangedMovesOn
      <4>2. CASE ~UNCHANGED runVars /\ line.kind = "tasks"
        <5>1. /\ line.updates \in Updates /\ r \in Runs /\ RecordWorkerUpdates(r, line.updates)
          BY <1>3, <4>2 DEF LineIsRead, ReadsTasks
        <5>2. line = Line("tasks", r, line.updates) BY <2>2, <4>2 DEF Lines, Line
        <5> QED BY <1>1, <2>1, <5>1, <5>2, RecordedMovesOn
      <4>3. CASE ~UNCHANGED runVars /\ line.kind \in {"confirmed", "unconfirmed"}
        <5>1. r \in Runs /\ SetWorkerStopUnconfirmed(r, line.kind = "unconfirmed")
          BY <1>3, <4>3 DEF LineIsRead
        <5>2. (line.kind = "unconfirmed") \in BOOLEAN OBVIOUS
        <5> QED BY <1>1, <5>1, <5>2, CallsMoveOn
      <4> QED BY <2>5, <4>1, <4>2, <4>3
    <3>3. PipeIsRead BY <2>1 DEF PipeIsRead
    <3> QED BY <2>1, <3>1, <3>2, <3>3, ReadingKeeps
  <2>6. line.kind \in {"tasks", "ask", "confirmed", "unconfirmed"}
    BY <1>3, <2>3 DEF LineIsRead
  <2> QED BY <2>4, <2>5, <2>6
<1> QED BY <1>2, <1>3

LEMMA AgentCallsKeeps ==
  ASSUME WorkersInv, NEW action \in Actions, NEW r \in Runs, NEW p \in AnyPrompt, AgentCalls(action, r, p)
  PROVE  WorkersInv'
<1> DEFINE ask == Line("ask", r, <<>>)
           q == <<ask>>
<1>1. /\ call.stage = "none" /\ launch = NoLaunch /\ pipe' = Append(pipe, ask)
      /\ call' = [NoCall EXCEPT !.stage = "asked", !.action = action, !.run = r, !.prompt = p]
      /\ UNCHANGED <<runVars, bridgeVars, appVars, process, sidecar, commands>>
  BY DEF AgentCalls, AgentMayAct
<1>2. UNCHANGED <<run, tasks, contexts, rows, launch, halting, stopping, cancelling, registered>>
  BY <1>1 DEF runVars, bridgeVars, appVars
<1>3. ask \in Lines /\ ask.kind = "ask" BY DEF Line, Lines, LineKinds
<1> HIDE DEF ask
<1>4. pipe \in Seq(Lines) /\ q \in Seq(Lines) /\ Len(q) = 1 /\ q[1] = ask
  BY <1>3 DEF WorkersInv, BridgeTypeOK
<1>5. pipe' = pipe \o q
  <2>1. Append(pipe, ask) = pipe \o <<ask>> BY <1>3, <1>4
  <2> QED BY <1>1, <2>1
<1>6. /\ pipe' \in Seq(Lines)
      /\ \A i \in 1..Len(pipe') : \/ i \in 1..Len(pipe) /\ pipe'[i] = pipe[i]
                                  \/ i = Len(pipe) + 1 /\ pipe'[i] = ask
  <2>1. Len(pipe') = Len(pipe) + 1 /\ Len(pipe) \in Nat BY <1>4, <1>5
  <2>2. pipe' \in Seq(Lines) /\ \A i \in 1..Len(pipe') : \/ i \in 1..Len(pipe) /\ pipe'[i] = pipe[i]
                                                         \/ i > Len(pipe) /\ \E j \in 1..Len(q) : pipe'[i] = q[j]
    BY <1>4, <1>5, Appended
  <2> HIDE DEF q
  <2> QED BY <1>4, <2>1, <2>2
<1>7. NoneOf("ask", pipe) /\ NoneOf("error", pipe) BY <1>1 DEF WorkersInv, OneThingAtATime, Undisturbed
<1>8. /\ call' \in [stage : {"none", "asked", "handling", "answered"}, action : Actions \cup {"none", "failed"},
                    run : Runs \cup {NoRun}, prompt : AnyPrompt, task : Tasks \cup {0}, heard : BOOLEAN]
      /\ call'.stage = "asked" /\ call'.run = r /\ call'.heard
  BY <1>1 DEF NoCall
<1>9. BridgeTypeOK' BY <1>1, <1>2, <1>6, <1>8 DEF WorkersInv, BridgeTypeOK
<1>10. Undisturbed'
  <2>1. NoneOf("error", pipe') BY <1>3, <1>6, <1>7 DEF NoneOf
  <2> QED BY <1>1, <1>2, <1>8, <2>1 DEF WorkersInv, Undisturbed
<1>11. \A i \in 1..Len(pipe') : pipe'[i].kind = "ask" => i = Len(pipe) + 1
  BY <1>6, <1>7 DEF NoneOf
<1>12. OneThingAtATime' BY <1>1, <1>2, <1>8, <1>11 DEF OneThingAtATime
<1>13. RowsTellProcesses' BY <1>1, <1>2 DEF WorkersInv, RowsTellProcesses
<1>14. StopsAreOfCancelled' BY <1>1, <1>2 DEF WorkersInv, StopsAreOfCancelled
<1>15. AnswersAreSound' BY <1>8 DEF AnswersAreSound
<1>16. ActiveIsOpen' BY <1>1, <1>2, <1>8 DEF WorkersInv, ActiveIsOpen, Active, Awaited
<1>17. \A v \in Runs : \A t : /\ Untold(pipe, v, t) => Untold(pipe', v, t)
                              /\ Unended(pipe, v, t) => Unended(pipe', v, t)
  <2>1. \A v \in Runs : \A t : ~Tells(ask, v, t) BY <1>3 DEF Tells
  <2> QED BY <1>6, <2>1 DEF Untold, Unended, Finishes
<1>18. ContextsFit'
  <2>1. ASSUME NEW v \in Runs, Going(v)
        PROVE  PendingWaits(v, contexts[v], tasks[v], pipe') /\ LiveWorks(v, contexts[v], rows, tasks[v], pipe')
    BY <1>17, <2>1 DEF WorkersInv, ContextsFit, PendingWaits, LiveWorks
  <2> QED BY <1>2, <2>1 DEF WorkersInv, ContextsFit, Going
<1>19. ProcessesHaveTasks' BY <1>1, <1>2 DEF WorkersInv, ProcessesHaveTasks, Going
<1>20. RegistersAreNew'
  <2>1. ASSUME NEW i \in 1..Len(pipe'), NEW j \in 1..Len(pipe'), NEW t \in Tasks, NEW v,
               pipe'[j].kind = "ask", Tells(pipe'[i], v, t)
        PROVE  i < j
    <3>1. j = Len(pipe) + 1 BY <1>11, <2>1
    <3>2. i \in 1..Len(pipe) BY <1>3, <1>6, <2>1 DEF Tells
    <3> QED BY <1>4, <3>1, <3>2
  <2> QED BY <1>8, <2>1 DEF RegistersAreNew
<1> QED BY <1>9, <1>10, <1>12, <1>13, <1>14, <1>15, <1>16, <1>18, <1>19, <1>20 DEF WorkersInv

\* The methods that make a run run.
LEMMA RunsBegin ==
  ASSUME RunsTypeOK, NEW r \in Runs, Start(r) \/ Resume(r)
  PROVE  /\ RunsMoveOn /\ run'[r].status # "none" /\ \A q \in Runs : Active(q)' => q = r
         /\ Start(r) => run[r].status = "none"
<1>1. /\ run \in [Runs -> RunRecord] /\ run[r] \in RunRecord BY DEF RunsTypeOK
<1>2. /\ run'[r].status = "running" /\ UNCHANGED tasks /\ run[r].status \in {"none", "interrupted"}
      /\ \A q \in Runs : ~Active(q)
      /\ \A q \in Runs \ {r} : run'[q] = run[q]
  <2>1. CASE Start(r) BY <1>1, <2>1 DEF Start, RunRecord
  <2>2. CASE Resume(r)
    <3>1. PICK phase : run' = [run EXCEPT ![r].status = "running", ![r].phase = phase]
      BY <1>1, <2>2 DEF Resume
    <3> QED BY <1>1, <2>2, <3>1 DEF Resume, RunRecord
  <2> QED BY <2>1, <2>2
<1>3. RunsMoveOn BY <1>2, OneMovesOn DEF Going
<1>4. \A q \in Runs : Active(q)' => q = r BY <1>2 DEF Active
<1> QED BY <1>2, <1>3, <1>4 DEF Start

LEMMA CallIsHandledKeeps ==
  ASSUME WorkersInv, AppInv, RunsInv, CallIsHandled PROVE WorkersInv'
<1> DEFINE r == call.run
           Called(action, t) == call' = [call EXCEPT !.stage = "answered", !.action = action, !.task = t]
<1>1. /\ call.stage = "handling" /\ call.action # "cancel" /\ r \in Runs
      /\ UNCHANGED <<bridgeVars, appVars, process, sidecar, pipe, commands>>
  BY DEF CallIsHandled
<1>2. UNCHANGED <<registered, cancelling>> BY <1>1 DEF appVars
<1>3. RunsTypeOK /\ OneActiveRun /\ SynthesisWaitsForWorkers BY RunsInvImplies
<1>4. cancelling'["agent"].step = "none" BY <1>1, <1>2 DEF WorkersInv, StopsAreOfCancelled
<1>5. RunsMoveOn => /\ commands' \in Seq([run : Runs, needed : BOOLEAN])
                    /\ \A i \in 1..Len(commands') : run'[commands'[i].run].status = "cancelled"
                    /\ \A by \in Cancellers : cancelling'[by].step \in {"flag", "signal"} =>
                           run'[cancelling'[by].run].status = "cancelled"
  BY <1>1, <1>2, CommandsStay, CancelsWait
<1>6. /\ 0 \in Tasks \cup {0} /\ call.action \in Actions \cup {"none", "failed"}
  BY DEF WorkersInv, BridgeTypeOK
<1>7. \A action, t : Answered(action, t) <=> Called(action, t)
  BY DEF Answered, WorkersInv, Undisturbed
<1>8. CASE (Start(r) \/ Resume(r)) /\ call.action \in {"start", "resume"} /\ Answered(call.action, 0)
           /\ (call.action = "start" => Start(r))
  <2>1. RunsMoveOn /\ run'[r].status # "none" /\ (\A q \in Runs : Active(q)' => q = r)
        /\ (Start(r) => run[r].status = "none")
    BY <1>1, <1>3, <1>8, RunsBegin
  <2>2. ASSUME call.action = "start", NEW w \in Workers, process[w].run = r PROVE process[w].state # "alive"
    BY <1>1, <1>8, <2>1, <2>2 DEF WorkersInv, ProcessesHaveTasks
  <2>3. call.action \in Actions \cup {"failed"} BY <1>8 DEF Actions
  <2>4. Called(call.action, 0) BY <1>7, <1>8
  <2>5. \A q \in Runs \ {r} : ~Active(q)' BY <2>1
  <2>6. \A q \in Runs : Active(q)' => Active(q) \/ (call.action \in {"start", "resume"} /\ r = q)
    BY <1>8, <2>1
  <2> QED BY <1>1, <1>2, <1>4, <1>5, <1>6, <1>8, <2>1, <2>2, <2>3, <2>4, <2>5, <2>6, CallAnswered
<1>9. CASE SealBatch(r) /\ call.action = "seal" /\ Answered("seal", 0)
  <2>1. RunsMoveOn /\ NoneBegins BY <1>1, <1>3, <1>9, CallsMoveOn
  <2>2. \A q \in Runs : Active(q)' => Active(q) BY <2>1 DEF NoneBegins
  <2>3. "seal" \in Actions \cup {"failed"} /\ Called("seal", 0) BY <1>7, <1>9 DEF Actions
  <2> QED BY <1>1, <1>2, <1>4, <1>5, <1>6, <2>1, <2>2, <2>3, CallAnswered
<1>10. CASE BeginGapFill(r) /\ call.action = "gap_fill" /\ Answered("gap_fill", 0)
  <2>1. RunsMoveOn /\ NoneBegins BY <1>1, <1>3, <1>10, CallsMoveOn
  <2>2. \A q \in Runs : Active(q)' => Active(q) BY <2>1 DEF NoneBegins
  <2>3. "gap_fill" \in Actions \cup {"failed"} /\ Called("gap_fill", 0) BY <1>7, <1>10 DEF Actions
  <2>4. Active(r) /\ run[r].phase \in Synthesis /\ run[r].status # "none"
    BY <1>10 DEF BeginGapFill, Synthesis, Active
  <2>5. \A w \in Workers : process[w].run = r => process[w].state # "alive"
    BY <1>1, <1>3, <2>4, NoWorkersAtSynthesis
  <2>6. run'[r].status # "none" /\ \A q \in Runs \ {r} : ~Active(q)'
    BY <1>1, <1>3, <2>1, <2>2, <2>4 DEF RunsMoveOn, OneActiveRun
  <2> QED BY <1>1, <1>2, <1>4, <1>5, <1>6, <2>1, <2>2, <2>3, <2>5, <2>6, CallAnswered
<1>11. CASE Complete(r) /\ call.action = "complete" /\ Answered("complete", 0)
  <2>1. RunsMoveOn /\ NoneBegins BY <1>1, <1>3, <1>11, CallsMoveOn
  <2>2. \A q \in Runs : Active(q)' => Active(q) BY <2>1 DEF NoneBegins
  <2>3. "complete" \in Actions \cup {"failed"} /\ Called("complete", 0) BY <1>7, <1>11 DEF Actions
  <2>4. run'[r].status = "completed" BY <1>1, <1>3, <1>11 DEF Complete, RunsTypeOK, RunRecord
  <2> QED BY <1>1, <1>2, <1>4, <1>5, <1>6, <2>1, <2>2, <2>3, <2>4, CallAnswered
<1>12. CASE /\ call.action = "register" /\ call.prompt \in Prompts
            /\ \E t \in Tasks : RegisterTask(r, call.prompt, t) /\ Answered("register", t)
  <2>1. PICK t \in Tasks : RegisterTask(r, call.prompt, t) /\ Answered("register", t) BY <1>12
  <2>2. RunsMoveOn /\ NoneBegins BY <1>1, <1>3, <1>12, <2>1, CallsMoveOn
  <2>3. \A q \in Runs : Active(q)' => Active(q) BY <2>2 DEF NoneBegins
  <2>4. "register" \in Actions \cup {"failed"} /\ Called("register", t) BY <1>7, <2>1 DEF Actions
  <2>5. Active(r) /\ contexts[r].state = "open"
    BY <1>1, <2>1 DEF RegisterTask, WorkersInv, ActiveIsOpen, Awaited
  <2>6. ~Knows(contexts[r], t) => Untold(pipe, r, t)
    BY <1>1, <1>12, <2>5 DEF WorkersInv, RegistersAreNew
  <2>7. tasks'[r][t].status \in Unfinished
    BY <1>1, <1>3, <2>1 DEF RegisterTask, RunsTypeOK, TaskRecord, Unfinished
  <2> QED BY <1>1, <1>2, <1>4, <1>5, <2>2, <2>3, <2>4, <2>5, <2>6, <2>7, CallAnswered
<1>13. CASE UNCHANGED runVars /\ Answered("failed", 0)
  <2>1. RunsMoveOn /\ NoneBegins BY <1>13, UnchangedMovesOn
  <2>2. \A q \in Runs : Active(q)' => Active(q) BY <2>1 DEF NoneBegins
  <2>3. "failed" \in Actions \cup {"failed"} /\ Called("failed", 0) BY <1>7, <1>13
  <2> QED BY <1>1, <1>2, <1>4, <1>5, <1>6, <2>1, <2>2, <2>3, CallAnswered
<1>14. \/ (Start(r) \/ Resume(r)) /\ call.action \in {"start", "resume"} /\ Answered(call.action, 0)
          /\ (call.action = "start" => Start(r))
       \/ SealBatch(r) /\ call.action = "seal" /\ Answered("seal", 0)
       \/ BeginGapFill(r) /\ call.action = "gap_fill" /\ Answered("gap_fill", 0)
       \/ Complete(r) /\ call.action = "complete" /\ Answered("complete", 0)
       \/ /\ call.action = "register" /\ call.prompt \in Prompts
          /\ \E t \in Tasks : RegisterTask(r, call.prompt, t) /\ Answered("register", t)
       \/ UNCHANGED runVars /\ Answered("failed", 0)
  BY DEF CallIsHandled
<1> QED BY <1>8, <1>9, <1>10, <1>11, <1>12, <1>13, <1>14

-----------------------------------------------------------------------------
(* All steps                                                                *)

\* No fault is taken back.
LEMMA FaultsStay == ASSUME CountersInv, [Next]_vars PROVE CountersInv' /\ (Faultless' => Faultless)
<1>1. CASE UNCHANGED vars BY <1>1 DEF vars, workerVars, bounds, CountersInv, Faultless
<1>2. ASSUME UNCHANGED <<losses, stops>> \/ (losses' = losses + 1 /\ UNCHANGED stops)
             \/ (stops' = stops + 1 /\ UNCHANGED losses)
      PROVE  CountersInv' /\ (Faultless' => Faultless)
  BY <1>2 DEF CountersInv, Faultless
<1>3. CASE Agent
  <2>1. UNCHANGED bounds BY <1>3 DEF Agent, LaunchBegins, AgentCalls
  <2> QED BY <1>2, <2>1 DEF bounds
<1>4. CASE Bridge
  <2>1. UNCHANGED bounds
    BY <1>4 DEF Bridge, LaunchIsJudged, LaunchEnds, Poll, HaltEnds, CancelBegins, AnswerArrives,
                WorkersAreSignalled, CancelEnds
  <2> QED BY <1>2, <2>1 DEF bounds
<1>5. CASE App
  <2>1. CASE LineIsRead
    <3>1. UNCHANGED stops BY <2>1 DEF LineIsRead
    <3>2. UNCHANGED losses \/ losses' = losses + 1
      BY <2>1 DEF LineIsRead, ReadsTasks, DatabaseFails
    <3> QED BY <1>2, <3>1, <3>2
  <2>2. CASE ~LineIsRead
    <3>1. UNCHANGED bounds
      BY <1>5, <2>2 DEF App, ReaderContinues, CallIsHandled, AgentCancels, LossIsReported, CancelReads,
                        CancelRecords, CancelFlags, CancelSignals
    <3> QED BY <1>2, <3>1 DEF bounds
  <2> QED BY <2>1, <2>2
<1>6. CASE Outside
  <2>1. \/ UNCHANGED <<losses, stops>> \/ (losses' = losses + 1 /\ UNCHANGED stops)
        \/ (stops' = stops + 1 /\ UNCHANGED losses)
    BY <1>6 DEF Outside, HaltBegins, SessionFails, SidecarDies, AppRestarts, UserSends, WorkerEnds,
                UserCancels, bounds
  <2> QED BY <1>2, <2>1
<1> QED BY <1>1, <1>3, <1>4, <1>5, <1>6 DEF Next

LEMMA WorkersKeep ==
  ASSUME WorkersInv, AppInv, AppInv', RunsInv, CountersInv, Faultless', Next PROVE WorkersInv'
<1>1. CASE Agent
  <2>1. ASSUME NEW p \in Prompts, LaunchBegins(p) PROVE WorkersInv' BY <2>1, LaunchBeginsKeeps
  <2>2. NoPrompt \in AnyPrompt /\ Prompts \subseteq AnyPrompt BY DEF AnyPrompt
  <2>3. ASSUME NEW r \in Runs, NEW action \in Actions, NEW p \in AnyPrompt, AgentCalls(action, r, p)
        PROVE  WorkersInv'
    BY <2>3, AgentCallsKeeps
  <2>4. "register" \in Actions BY DEF Actions
  <2> QED BY <1>1, <2>1, <2>2, <2>3, <2>4 DEF Agent
<1>2. CASE Bridge
  <2>1. ~HaltEnds BY DEF WorkersInv, Undisturbed, HaltEnds
  <2>2. ASSUME NEW s \in stopping, CancelEnds(s) PROVE WorkersInv' BY <2>2, CancelEndsKeeps
  <2> QED
    BY <1>2, <2>1, <2>2, LaunchesKeep, PollKeeps, CancelBeginsKeeps, AnswerArrivesKeeps, EndsKeep DEF Bridge
<1>3. CASE App
  <2>1. ~LossIsReported BY DEF WorkersInv, Undisturbed, LossIsReported
  <2>2. ASSUME NEW by \in Cancellers, CancelRecords(by) \/ CancelFlags(by) \/ CancelSignals(by)
        PROVE  WorkersInv'
    BY <2>2, CancelsGoOnKeeps
  <2> QED BY <1>3, <2>1, <2>2, CallIsHandledKeeps, ReaderKeeps, CancelsBeginKeeps DEF App
<1>4. CASE Outside
  <2>1. ~HaltBegins /\ ~SessionFails /\ ~SidecarDies /\ ~AppRestarts
    BY DEF HaltBegins, SessionFails, SidecarDies, AppRestarts, Faultless, CountersInv
  <2>2. ~UserSends BY DEF WorkersInv, Undisturbed, UserSends
  <2> QED BY <1>4, <2>1, <2>2, EndsKeep, CancelsBeginKeeps DEF Outside
<1> QED BY <1>1, <1>2, <1>3, <1>4 DEF Next

LEMMA SynthesisInvKeeps == SynthesisInv /\ [Next]_vars => SynthesisInv'
<1> SUFFICES ASSUME SynthesisInv, [Next]_vars PROVE SynthesisInv' OBVIOUS
<1>1. AppInv' /\ RunsInv'
  <2>1. AppInv' /\ [RunsNext]_runVars BY StepsAreCalls DEF SynthesisInv
  <2> QED BY <2>1, RunsNextKeeps DEF SynthesisInv
<1>2. CountersInv' /\ (Faultless' => Faultless) BY FaultsStay DEF SynthesisInv
<1>3. ASSUME Faultless' PROVE WorkersInv'
  <2>1. WorkersInv BY <1>2, <1>3 DEF SynthesisInv
  <2>2. CASE Next BY <1>1, <1>3, <2>1, <2>2, WorkersKeep DEF SynthesisInv
  <2>3. CASE UNCHANGED vars
    <3>1. UNCHANGED <<run, tasks, contexts, rows, launch, halting, stopping, process, sidecar, registered,
                      pipe, commands, call, cancelling>>
      BY <2>3 DEF vars, runVars, workerVars, bridgeVars, appVars
    <3>2. BridgeTypeOK' /\ Undisturbed' /\ OneThingAtATime' /\ RowsTellProcesses'
      BY <2>1, <3>1 DEF WorkersInv, BridgeTypeOK, Undisturbed, OneThingAtATime, RowsTellProcesses
    <3>3. StopsAreOfCancelled' /\ AnswersAreSound' /\ RegistersAreNew' /\ ActiveIsOpen'
      BY <2>1, <3>1 DEF WorkersInv, StopsAreOfCancelled, AnswersAreSound, RegistersAreNew, ActiveIsOpen,
                        Active, Going, Awaited
    <3>4. ContextsFit' /\ ProcessesHaveTasks'
      BY <2>1, <3>1 DEF WorkersInv, ContextsFit, ProcessesHaveTasks, Going
    <3> QED BY <3>2, <3>3, <3>4 DEF WorkersInv
  <2> QED BY <2>2, <2>3
<1> QED BY <1>1, <1>2, <1>3 DEF SynthesisInv

\* For any numbers of runs, tasks, workers and cancels: as long as no session is lost and no turn
\* stopped, a run synthesizes only after every worker of it has ended, however its launches, its
\* polls, the lines about it, cancels and late answers interleave.
THEOREM WorkersEndBeforeSynthesis == Spec => []SynthesisHasNoWorkers
<1>1. SynthesisInv => SynthesisHasNoWorkers BY SynthesisInvImplies
<1> QED BY <1>1, InitSynthesis, SynthesisInvKeeps, PTL DEF Spec

-----------------------------------------------------------------------------

\* A line that says how the stop of the workers of run r went.
Says(line, r) == line.run = r /\ line.kind \in {"confirmed", "unconfirmed"}
Unsaid(p, r) == \A i \in 1..Len(p) : ~Says(p[i], r)

\* Once the lines of p are read, run r is marked as having workers: the last of them that says so
\* does not confirm the stop, or none says anything and r has the mark.
Marked(p, r, mark) ==
    \/ mark /\ Unsaid(p, r)
    \/ \E i \in 1..Len(p) : /\ p[i].run = r /\ p[i].kind = "unconfirmed"
                            /\ \A j \in 1..Len(p) : j > i => ~Says(p[j], r)

LEMMA MarkedStays ==
  ASSUME NEW p \in Seq(Lines), NEW q \in Seq(Lines), NEW r, NEW mark, Unsaid(q, r), Marked(p, r, mark)
  PROVE  Marked(p \o q, r, mark)
<1>1. /\ p \o q \in Seq(Lines) /\ Len(p \o q) = Len(p) + Len(q) /\ Len(p) \in Nat /\ Len(q) \in Nat
      /\ \A i \in 1..Len(p) : (p \o q)[i] = p[i] /\ i \in 1..Len(p \o q)
      /\ \A i \in 1..Len(p \o q) : \/ i \in 1..Len(p) /\ (p \o q)[i] = p[i]
                                   \/ i > Len(p) /\ \E j \in 1..Len(q) : (p \o q)[i] = q[j]
  <2>1. /\ Len(p \o q) = Len(p) + Len(q) /\ Len(p) \in Nat /\ Len(q) \in Nat
        /\ \A i \in 1..Len(p) : i \in 1..Len(p \o q)
    OBVIOUS
  <2> QED BY <2>1, Appended
<1> HIDE DEF Says
<1>2. \A i \in 1..Len(p \o q) : Says((p \o q)[i], r) => i \in 1..Len(p) /\ (p \o q)[i] = p[i]
  BY <1>1 DEF Unsaid
<1> QED BY <1>1, <1>2 DEF Marked, Unsaid

LEMMA MarkedLast ==
  ASSUME NEW p \in Seq(Lines), NEW x \in Lines, NEW r, NEW mark, x.run = r, x.kind = "unconfirmed"
  PROVE  Marked(Append(p, x), r, mark)
<1> DEFINE L == Lines
<1>1. p \in Seq(L) /\ x \in L OBVIOUS
<1> HIDE DEF L
<1>2. Len(Append(p, x)) = Len(p) + 1 /\ Append(p, x)[Len(p) + 1] = x /\ Len(p) \in Nat
  BY <1>1
<1> QED BY <1>2 DEF Marked

LEMMA MarkedRead ==
  ASSUME NEW p \in Seq(Lines), p # <<>>, NEW r, NEW mark, Marked(p, r, mark)
  PROVE  /\ ~Says(Head(p), r) => Marked(Tail(p), r, mark)
         /\ Says(Head(p), r) => Marked(Tail(p), r, Head(p).kind = "unconfirmed")
<1> DEFINE L == Lines
           q == Tail(p)
<1>1. p \in Seq(L) OBVIOUS
<1> HIDE DEF L
<1>2. /\ Len(p) \in Nat /\ Len(p) > 0 /\ Head(p) = p[1] /\ q \in Seq(L) /\ Len(q) = Len(p) - 1
      /\ \A i \in 1..Len(q) : q[i] = p[i + 1]
  BY <1>1
<1> HIDE DEF q
<1>3. \A i \in 2..Len(p) : i - 1 \in 1..Len(q) /\ q[i - 1] = p[i] BY <1>2
<1>4. CASE mark /\ Unsaid(p, r)
  <2>1. ~Says(Head(p), r) BY <1>2, <1>4 DEF Unsaid
  <2>2. Unsaid(q, r) BY <1>2, <1>4 DEF Unsaid
  <2> QED BY <1>4, <2>1, <2>2 DEF Marked, q
<1>5. ASSUME NEW i \in 1..Len(p), p[i].run = r, p[i].kind = "unconfirmed",
             \A j \in 1..Len(p) : j > i => ~Says(p[j], r)
      PROVE  /\ ~Says(Head(p), r) => Marked(q, r, mark)
             /\ Says(Head(p), r) => Marked(q, r, Head(p).kind = "unconfirmed")
  <2>1. CASE i = 1
    <3>1. Unsaid(q, r) BY <1>2, <1>5, <2>1 DEF Unsaid
    <3>2. Says(Head(p), r) /\ Head(p).kind = "unconfirmed" BY <1>2, <1>5, <2>1 DEF Says
    <3> QED BY <3>1, <3>2 DEF Marked
  <2>2. CASE i > 1
    <3>1. i - 1 \in 1..Len(q) /\ q[i - 1] = p[i] BY <1>2, <1>3, <2>2
    <3>2. \A j \in 1..Len(q) : j > i - 1 => ~Says(q[j], r) BY <1>2, <1>5
    <3> QED BY <1>5, <3>1, <3>2 DEF Marked
  <2> QED BY <2>1, <2>2
<1> QED BY <1>4, <1>5 DEF Marked, q

\* Run r has a worker that may be running, or one that may still be launched.
Busy(c, l) == StillRunning(c, l) \/ c.pending # {}

\* A task of run r was registered, and the bridge has not heard of it.
Registers(r) == call.stage = "answered" /\ call.action = "register" /\ call.run = r
Unstopped(r) == Busy(contexts[r], rows) \/ (Registers(r) /\ contexts[r].state # "none")

\* Somebody will stop the workers of run r, and tell how that went.
Stopping(r) ==
    \/ \E by \in Cancellers : cancelling[by].step \in {"flag", "signal"} /\ cancelling[by].run = r
    \/ \E i \in 1..Len(commands) : commands[i].run = r
    \/ \E s \in stopping : s.run = r

CancelledHaveTasks ==
    \A r \in Runs, w \in Workers :
        IsCancelled(r) /\ process[w].run = r /\ process[w].state = "alive" => contexts[r].task[w] # 0

StopsAreTold ==
    \A r \in Runs : IsCancelled(r) /\ Unstopped(r) => Stopping(r) \/ Marked(pipe, r, run[r].stop)

\* A context that replaced the one a command came for does not wait for workers.
ReplacedAreIdle ==
    \A s \in stopping : ~s.current => contexts[s.run].pending = {} /\ ~Registers(s.run)

CancelsSignal ==
    \A by \in Cancellers : cancelling[by].step \in {"flag", "signal"} => cancelling[by].signal

StopsInv == CancelledHaveTasks /\ StopsAreTold /\ ReplacedAreIdle /\ CancelsSignal

\* The workers of a run about whose stop nothing is under way are stopped, or it is marked.
LEMMA QuietRunsAreMarked ==
  ASSUME WorkersInv, StopsInv, NEW r \in Runs PROVE CancelledIsStopped(r)
<1> SUFFICES ASSUME run[r].status = "cancelled", ~run[r].stop, NoStopUnderWay(r), NEW w \in Workers,
                    process[w].run = r, process[w].state = "alive"
             PROVE  FALSE
  BY DEF CancelledIsStopped
<1>1. contexts[r].task[w] # 0 BY DEF StopsInv, CancelledHaveTasks, IsCancelled
<1>2. Live(rows, w) BY DEF WorkersInv, RowsTellProcesses, Live
<1>3. Unstopped(r) BY <1>1, <1>2 DEF Unstopped, Busy, StillRunning
<1>4. ~Stopping(r) BY DEF NoStopUnderWay, Stopping
<1>5. ~Marked(pipe, r, run[r].stop) BY DEF NoStopUnderWay, Marked
<1> QED BY <1>3, <1>4, <1>5 DEF StopsInv, StopsAreTold, IsCancelled

\* A step that leaves the contexts and the list alone.
LEMMA StopsGoOn ==
  ASSUME WorkersInv, WorkersInv', StopsInv, UNCHANGED <<contexts, rows, stopping>>, CancelsSignal',
         \A r \in Runs : IsCancelled(r)' =>
             /\ IsCancelled(r) \/ Going(r)
             /\ Registers(r)' => Registers(r)
             /\ \/ Stopping(r)' \/ Marked(pipe, r, run[r].stop)' \/ ~Unstopped(r)'
                \/ /\ IsCancelled(r) /\ (Stopping(r) => Stopping(r)')
                   /\ Marked(pipe, r, run[r].stop) => Marked(pipe, r, run[r].stop)',
         \A w \in Workers : process'[w].state = "alive" => process'[w] = process[w]
  PROVE  StopsInv'
<1>1. CancelledHaveTasks'
  BY DEF CancelledHaveTasks, StopsInv, WorkersInv, ProcessesHaveTasks
<1>2. StopsAreTold'
  <2>1. ASSUME NEW r \in Runs, IsCancelled(r)', Unstopped(r)' PROVE Unstopped(r)
    BY <2>1 DEF Unstopped
  <2> QED BY <2>1 DEF StopsAreTold, StopsInv
<1>3. ReplacedAreIdle'
  <2>1. ASSUME NEW s \in stopping, ~s.current PROVE contexts[s.run].pending = {} /\ ~Registers(s.run)'
    <3>1. s \in [n : {1, 2}, run : Runs, current : BOOLEAN] BY DEF WorkersInv, BridgeTypeOK
    <3>2. s.run \in Runs /\ IsCancelled(s.run)' BY <3>1 DEF WorkersInv, StopsAreOfCancelled, IsCancelled
    <3> QED BY <2>1, <3>2 DEF StopsInv, ReplacedAreIdle
  <2> QED BY <2>1 DEF ReplacedAreIdle
<1> QED BY <1>1, <1>2, <1>3 DEF StopsInv

\* What emitSubagentTasks makes of a context: it does not make a run busy, and confirms the stop
\* only of runs whose context goes.
LEMMA EmittedTells ==
  ASSUME NEW all \in [Runs -> Context], NEW l \in List,
         \A r \in Runs : Distinct(all[r]) /\ Supported(all[r], l),
         NEW q \in Emitted(all, l), NEW r \in Runs, NEW d, d = AfterEmit(r, all[r], l)
  PROVE  /\ d.pending \subseteq all[r].pending
         /\ Busy(d, l) => Busy(all[r], l)
         /\ d.state # "none" => all[r].state # "none"
         /\ \A w \in Workers : all[r].task[w] # 0 /\ Live(l, w) => d.task[w] # 0
         /\ Unsaid(q, r) \/ d = NoContext
<1> DEFINE c == all[r]
           a == Assigned(r, c, l)
<1>1. c \in Context /\ Distinct(c) /\ Supported(c, l) OBVIOUS
<1>2. Grows(a, c, l) BY <1>1, AssignedGrows
<1>3. StillRunning(a, l) => Busy(c, l) BY <1>2 DEF Grows, StillRunning, Busy
<1>4. d = NoContext \/ (d = a /\ c.state # "none" /\ ~Over(a, l)) BY DEF AfterEmit
<1>5. \A i \in 1..Len(q) : Says(q[i], r) => Over(a, l) \/ c.state = "none"
  <2>1. ASSUME NEW i \in 1..Len(q), Says(q[i], r) PROVE Over(a, l) \/ c.state = "none"
    <3>1. PICK v \in Runs : q[i] \in LinesOf(v, all[v], l) BY EmittedFacts
    <3>2. q[i].run = v BY <3>1, LineFacts
    <3>3. v = r BY <2>1, <3>2 DEF Says
    <3>4. q[i] \in LinesOf(r, c, l) BY <3>1, <3>3
    <3>5. PICK updates : c.state = "none" \/ Over(a, l) \/ q[i] = Line("tasks", r, updates)
      BY <3>4 DEF LinesOf
    <3>6. Line("tasks", r, updates).kind = "tasks" BY DEF Line
    <3> QED BY <2>1, <3>5, <3>6 DEF Says
  <2> QED BY <2>1
<1>6. Unsaid(q, r) \/ d = NoContext BY <1>4, <1>5 DEF Unsaid
<1>7. CASE d = NoContext
  <2>1. ~StillRunning(d, l) /\ d.pending = {} /\ d.state = "none"
    BY <1>7, NoContextIsEmpty DEF StillRunning
  <2>2. \A w \in Workers : ~(c.task[w] # 0 /\ Live(l, w))
    <3>1. c.state = "none" \/ Over(a, l) BY <1>1, <1>2, <1>4, <1>7, NoContextIsEmpty DEF AfterEmit, Grows
    <3> QED BY <1>1, <1>2, <3>1 DEF Supported, Over, StillRunning, Grows
  <2> QED BY <1>6, <2>1, <2>2 DEF Busy
<1>8. CASE d = a /\ c.state # "none"
  BY <1>2, <1>3, <1>6, <1>8 DEF Grows, Busy
<1> QED BY <1>4, <1>7, <1>8

\* A step of emitSubagentTasks.
LEMMA EmissionTells ==
  ASSUME WorkersInv, WorkersInv', StopsInv, NEW all \in [Runs -> Context], NEW l \in List, Emit(all, l),
         UNCHANGED <<run, stopping, commands, cancelling>>, call' = call \/ call' = NoCall,
         \A r \in Runs : /\ Distinct(all[r]) /\ Supported(all[r], l)
                         /\ all[r].task = contexts[r].task /\ all[r].state = contexts[r].state
                         /\ IsCancelled(r) /\ Busy(all[r], l) => Unstopped(r),
         \A s \in stopping : ~s.current => all[s.run].pending = {},
         \A w \in Workers : \/ process'[w] = process[w]
                            \/ process'[w].run \in Runs => contexts[process'[w].run].task[w] # 0
  PROVE  StopsInv'
<1>1. PICK q \in Emitted(all, l) :
        /\ rows' = l /\ pipe' = pipe \o q
        /\ contexts' = [r \in Runs |-> AfterEmit(r, all[r], l)]
  BY DEF Emit
<1>2. pipe \in Seq(Lines) /\ q \in Seq(Lines) BY EmittedFacts DEF WorkersInv, BridgeTypeOK
<1>3. \A r \in Runs : /\ contexts'[r].pending \subseteq all[r].pending
                      /\ Busy(contexts'[r], l) => Busy(all[r], l)
                      /\ contexts'[r].state # "none" => contexts[r].state # "none"
                      /\ \A w \in Workers : contexts[r].task[w] # 0 /\ Live(l, w) => contexts'[r].task[w] # 0
                      /\ Unsaid(q, r) \/ contexts'[r] = NoContext
  <2>1. ASSUME NEW r \in Runs, NEW d, d = contexts'[r]
        PROVE  /\ d.pending \subseteq all[r].pending
               /\ Busy(d, l) => Busy(all[r], l)
               /\ d.state # "none" => all[r].state # "none"
               /\ \A w \in Workers : all[r].task[w] # 0 /\ Live(l, w) => d.task[w] # 0
               /\ Unsaid(q, r) \/ d = NoContext
    <3>1. d = AfterEmit(r, all[r], l) BY <1>1, <2>1
    <3> QED BY <3>1, EmittedTells
  <2> QED BY <2>1
<1>4. \A r \in Runs : (IsCancelled(r)' <=> IsCancelled(r)) /\ (Stopping(r)' <=> Stopping(r))
  BY DEF IsCancelled, Stopping
<1>5. \A r : Registers(r)' => Registers(r)
  <2>1. NoCall.stage = "none" BY DEF NoCall
  <2> QED BY <2>1 DEF Registers
<1>6. CancelledHaveTasks'
  <2>1. ASSUME NEW r \in Runs, NEW w \in Workers, IsCancelled(r), process'[w].run = r, process'[w].state = "alive"
        PROVE  contexts'[r].task[w] # 0
    <3>1. contexts[r].task[w] # 0 BY <2>1 DEF StopsInv, CancelledHaveTasks
    <3>2. Live(l, w) BY <1>1, <2>1 DEF WorkersInv, RowsTellProcesses, Live
    <3> QED BY <1>3, <3>1, <3>2
  <2> QED BY <1>4, <2>1 DEF CancelledHaveTasks
<1>7. StopsAreTold'
  <2>1. ASSUME NEW r \in Runs, IsCancelled(r), Unstopped(r)'
        PROVE  Stopping(r)' \/ Marked(pipe', r, run[r].stop)
    <3>1. contexts'[r] # NoContext
      BY <1>1, <2>1, NoContextIsEmpty DEF Unstopped, Busy, StillRunning
    <3>2. Unstopped(r) BY <1>1, <1>3, <1>5, <2>1 DEF Unstopped
    <3>3. Stopping(r) \/ Marked(pipe, r, run[r].stop) BY <2>1, <3>2 DEF StopsInv, StopsAreTold
    <3> QED BY <1>1, <1>2, <1>3, <1>4, <3>1, <3>3, MarkedStays
  <2> QED BY <1>4, <2>1 DEF StopsAreTold
<1>8. ReplacedAreIdle'
  <2>1. \A s \in stopping : s.run \in Runs BY DEF WorkersInv, BridgeTypeOK
  <2> QED BY <1>3, <1>5, <2>1 DEF StopsInv, ReplacedAreIdle
<1>9. CancelsSignal' BY DEF StopsInv, CancelsSignal
<1> QED BY <1>6, <1>7, <1>8, <1>9 DEF StopsInv

LEMMA LaterTells ==
  ASSUME WorkersInv, WorkersInv', StopsInv, NEW l \in List, Later(l), Emit(contexts, l),
         UNCHANGED <<runVars, stopping, appVars, commands, call>>,
         \A w \in Workers : \/ process'[w] = process[w]
                            \/ process'[w].run \in Runs => contexts[process'[w].run].task[w] # 0
  PROVE  StopsInv'
<1>1. contexts \in [Runs -> Context] BY DEF WorkersInv, BridgeTypeOK
<1>2. UNCHANGED <<run, cancelling>> BY DEF runVars, appVars
<1>3. ASSUME NEW r \in Runs
      PROVE  /\ Distinct(contexts[r]) /\ Supported(contexts[r], l)
             /\ Busy(contexts[r], l) => Unstopped(r)
  <2>1. Distinct(contexts[r]) /\ Supported(contexts[r], l) BY LaterFits
  <2>2. \A w \in Workers : contexts[r].task[w] # 0 /\ Live(l, w) => Live(rows, w)
    BY DEF WorkersInv, ContextsFit, Supported, Later
  <2> QED BY <2>1, <2>2 DEF Busy, StillRunning, Unstopped
<1>4. \A s \in stopping : ~s.current => contexts[s.run].pending = {} BY DEF StopsInv, ReplacedAreIdle
<1> QED BY <1>1, <1>2, <1>3, <1>4, EmissionTells

\* Launches, their ends, and polls.
LEMMA LaunchesTell ==
  ASSUME WorkersInv, WorkersInv', StopsInv, LaunchIsJudged \/ LaunchEnds \/ \E p \in Prompts : LaunchBegins(p)
  PROVE  StopsInv'
<1>1. rows' \in List /\ rows \in List BY DEF WorkersInv, BridgeTypeOK
<1>2. UNCHANGED <<runVars, stopping, appVars, commands, call>>
  BY DEF LaunchIsJudged, LaunchEnds, LaunchBegins
<1>3. CASE \E p \in Prompts : LaunchBegins(p)
  <2>1. PICK p \in Prompts, w \in Workers :
          /\ Unused(w) /\ UNCHANGED process
          /\ Emit(contexts, [rows EXCEPT ![w] = [state |-> "start", prompt |-> p]])
    BY <1>3 DEF LaunchBegins
  <2>2. Emit(contexts, rows') /\ rows' = [rows EXCEPT ![w] = [state |-> "start", prompt |-> p]]
    BY <2>1 DEF Emit
  <2>3. rows'[w].state = "start" /\ rows[w].state = "none" /\ \A v \in Workers : v # w => rows'[v] = rows[v]
    BY <1>1, <2>1, <2>2 DEF List, Unused
  <2>4. Later(rows') BY <2>3 DEF Later, Live
  <2> QED BY <1>1, <1>2, <2>1, <2>2, <2>4, LaterTells
<1>4. CASE (LaunchIsJudged \/ LaunchEnds) /\ Emit(contexts, rows')
  <2> DEFINE w == launch.worker
  <2>1. launch # NoLaunch BY <1>4 DEF LaunchIsJudged, LaunchEnds, NoLaunch
  <2>2. w \in Workers /\ rows[w].state = "start" BY <2>1, LaunchedIsNew
  <2>3. PICK state \in {"running", "failed"} : rows' = With(w, state) \/ rows' = rows
    BY <1>4 DEF LaunchIsJudged, LaunchEnds, Emit
  <2>4. rows'[w].state # "none" /\ \A v \in Workers : v # w => rows'[v] = rows[v]
    BY <1>1, <2>2, <2>3 DEF List, Row, With
  <2>5. Later(rows') BY <2>2, <2>4 DEF Later, Live
  <2>6. process' = process \/ process' = [process EXCEPT ![w] = [state |-> "alive", run |-> DoneFor(w)]]
    BY <1>4 DEF LaunchIsJudged, LaunchEnds
  <2>7. DoneFor(w) \in Runs => contexts[DoneFor(w)].task[w] # 0
    <3> DEFINE Has(r) == contexts[r].task[w] # 0
    <3>1. CASE \E r \in Runs : Has(r)
      <4>1. DoneFor(w) = CHOOSE r \in Runs : Has(r) BY <3>1 DEF DoneFor
      <4> HIDE DEF Has
      <4>2. Has(DoneFor(w)) BY <3>1, <4>1
      <4> QED BY <4>2 DEF Has
    <3>2. CASE ~\E r \in Runs : Has(r) BY <3>2 DEF DoneFor, NoRun, Runs
    <3> QED BY <3>1, <3>2
  <2>8. process \in [Workers -> [state : {"none", "alive", "succeeded", "failed"}, run : Runs \cup {NoRun}]]
    BY DEF WorkersInv, BridgeTypeOK
  <2>9. \A v \in Workers : \/ process'[v] = process[v]
                           \/ process'[v].run \in Runs => contexts[process'[v].run].task[v] # 0
    BY <2>2, <2>6, <2>7, <2>8
  <2> QED BY <1>1, <1>2, <1>4, <2>5, <2>9, LaterTells
<1>5. CASE UNCHANGED <<contexts, rows, pipe, process>>
  <2>1. UNCHANGED <<run, cancelling>> BY <1>2 DEF runVars, appVars
  <2>2. \A r \in Runs : /\ IsCancelled(r)' <=> IsCancelled(r)
                        /\ Stopping(r)' <=> Stopping(r)
                        /\ Registers(r)' <=> Registers(r)
    BY <1>2, <2>1 DEF IsCancelled, Stopping, Registers
  <2>3. CancelsSignal' BY <2>1 DEF StopsInv, CancelsSignal
  <2> QED BY <1>2, <1>5, <2>1, <2>2, <2>3, StopsGoOn
<1> QED BY <1>3, <1>4, <1>5 DEF LaunchIsJudged, LaunchEnds, Emit

LEMMA PollTells == ASSUME WorkersInv, WorkersInv', StopsInv, Poll PROVE StopsInv'
<1> DEFINE over == {w \in Workers : Finishing(w)}
           l == Refreshed(over)
<1>1. Emit(contexts, l) /\ UNCHANGED <<runVars, stopping, appVars, commands, call, process>> BY DEF Poll
<1>2. l \in List /\ Later(l) BY RefreshedIsLater
<1> HIDE DEF l
<1> QED BY <1>1, <1>2, LaterTells

-----------------------------------------------------------------------------
(* Cancel commands                                                          *)

\* The bridge takes a command: those for other runs are still there.
LEMMA OthersAreStopped ==
  ASSUME WorkersInv, commands # <<>>, commands' = Tail(commands), stopping \subseteq stopping', UNCHANGED cancelling,
         NEW r, r # Head(commands).run, Stopping(r)
  PROVE  Stopping(r)'
<1> DEFINE S == [run : Runs, needed : BOOLEAN]
<1>1. commands \in Seq(S) BY DEF WorkersInv, BridgeTypeOK
<1> HIDE DEF S
<1>2. /\ Head(commands) = commands[1] /\ Len(Tail(commands)) = Len(commands) - 1 /\ Len(commands) \in Nat
      /\ \A i \in 1..Len(Tail(commands)) : Tail(commands)[i] = commands[i + 1]
  BY <1>1
<1>3. ASSUME NEW i \in 1..Len(commands), commands[i].run = r
      PROVE  \E j \in 1..Len(commands') : commands'[j].run = r
  <2>1. i # 1 BY <1>2, <1>3
  <2>2. i - 1 \in 1..Len(commands') /\ commands'[i - 1] = commands[i] BY <1>2, <2>1
  <2> QED BY <1>3, <2>2
<1> QED BY <1>3 DEF Stopping

LEMMA CancelBeginsTells == ASSUME WorkersInv, WorkersInv', StopsInv, CancelBegins PROVE StopsInv'
<1>1. /\ commands # <<>> /\ commands' = Tail(commands) /\ UNCHANGED <<run, rows, cancelling, process, call>>
  BY DEF CancelBegins, runVars, appVars
<1>2. contexts \in [Runs -> Context] /\ pipe \in Seq(Lines) BY DEF WorkersInv, BridgeTypeOK
<1>3. PICK r \in Runs : r = Head(commands).run
  <2> DEFINE S == [run : Runs, needed : BOOLEAN]
  <2>1. commands \in Seq(S) BY DEF WorkersInv, BridgeTypeOK
  <2> HIDE DEF S
  <2>2. Head(commands) \in S BY <1>1, <2>1
  <2> QED BY <2>2 DEF S
<1>4. CancelsSignal' BY <1>1 DEF StopsInv, CancelsSignal
<1>5. \A v : (IsCancelled(v)' <=> IsCancelled(v)) /\ (Registers(v)' <=> Registers(v))
  BY <1>1 DEF IsCancelled, Registers
<1>6. CASE contexts[r].state = "none"
  <2>1. /\ UNCHANGED <<contexts, stopping>>
        /\ \E kind \in {"confirmed", "unconfirmed"} : pipe' = Append(pipe, Line(kind, r, <<>>))
    BY <1>3, <1>6 DEF CancelBegins
  <2>2. PICK kind \in {"confirmed", "unconfirmed"} : pipe' = Append(pipe, Line(kind, r, <<>>)) BY <2>1
  <2>3. ~Unstopped(r)'
    <3>1. Supported(contexts[r], rows) BY <1>3 DEF WorkersInv, ContextsFit
    <3>2. ~Busy(contexts[r], rows) BY <1>6, <3>1 DEF Busy, StillRunning, Supported
    <3>3. contexts' = contexts /\ rows' = rows BY <1>1, <2>1
    <3> QED BY <1>6, <3>2, <3>3 DEF Unstopped
  <2>4. ASSUME NEW v \in Runs, v # r, Marked(pipe, v, run[v].stop) PROVE Marked(pipe, v, run[v].stop)'
    <3> DEFINE x == Line(kind, r, <<>>)
               q == <<x>>
    <3>1. x \in Lines /\ x.run = r BY <1>3 DEF Line, Lines, LineKinds
    <3> HIDE DEF x
    <3>2. q \in Seq(Lines) /\ pipe' = pipe \o q BY <1>2, <2>2, <3>1 DEF x
    <3>3. Unsaid(q, v) BY <2>4, <3>1 DEF Unsaid, Says
    <3> HIDE DEF q
    <3> QED BY <1>1, <1>2, <2>4, <3>2, <3>3, MarkedStays
  <2>5. \A v \in Runs : v # r /\ Stopping(v) => Stopping(v)' BY <1>1, <2>1, <1>3, OthersAreStopped
  <2>6. UNCHANGED <<contexts, rows, stopping>> /\ \A w \in Workers : process'[w] = process[w]
    BY <1>1, <2>1
  <2>7. ASSUME NEW v \in Runs, IsCancelled(v)'
        PROVE  /\ IsCancelled(v) \/ Going(v)
               /\ Registers(v)' => Registers(v)
               /\ \/ Stopping(v)' \/ Marked(pipe, v, run[v].stop)' \/ ~Unstopped(v)'
                  \/ /\ IsCancelled(v) /\ (Stopping(v) => Stopping(v)')
                     /\ Marked(pipe, v, run[v].stop) => Marked(pipe, v, run[v].stop)'
    <3>1. IsCancelled(v) /\ (Registers(v)' => Registers(v)) BY <1>5, <2>7
    <3>2. CASE v = r BY <2>3, <3>1, <3>2
    <3>3. CASE v # r BY <2>4, <2>5, <3>1, <3>3
    <3> QED BY <3>2, <3>3
  <2> QED BY <1>4, <2>6, <2>7, StopsGoOn
<1>7. CASE contexts[r].state # "none"
  <2>1. PICK n \in {1, 2} :
          /\ contexts' = [contexts EXCEPT ![r].state = "cancelled"] /\ UNCHANGED pipe
          /\ stopping' = stopping \cup {[n |-> n, run |-> r, current |-> TRUE]}
    BY <1>3, <1>7 DEF CancelBegins
  <2>2. /\ \A v \in Runs : contexts'[v].pending = contexts[v].pending /\ contexts'[v].task = contexts[v].task
        /\ \A v \in Runs : v # r => contexts'[v] = contexts[v]
    BY <1>2, <1>3, <2>1 DEF Context
  <2>3. Stopping(r)'
    <3> DEFINE new == [n |-> n, run |-> r, current |-> TRUE]
    <3>1. new.run = r OBVIOUS
    <3> HIDE DEF new
    <3>2. new \in stopping' BY <2>1 DEF new
    <3> QED BY <3>1, <3>2 DEF Stopping
  <2>4. CancelledHaveTasks' BY <1>1, <1>5, <2>2 DEF StopsInv, CancelledHaveTasks
  <2>5. StopsAreTold'
    <3>1. ASSUME NEW v \in Runs, v # r, IsCancelled(v), Unstopped(v)'
          PROVE  Stopping(v)' \/ Marked(pipe, v, run[v].stop)'
      <4>1. Unstopped(v) BY <1>1, <1>5, <2>2, <3>1 DEF Unstopped
      <4>2. Stopping(v) => Stopping(v)' BY <1>1, <2>1, <3>1, <1>3, OthersAreStopped
      <4> QED BY <1>1, <2>1, <3>1, <4>1, <4>2 DEF StopsInv, StopsAreTold
    <3> QED BY <1>5, <2>3, <3>1 DEF StopsAreTold
  <2>6. ReplacedAreIdle'
    <3>1. \A s \in stopping : s.run \in Runs BY DEF WorkersInv, BridgeTypeOK
    <3>2. \A s \in stopping' : ~s.current => s \in stopping BY <2>1
    <3> QED BY <1>5, <2>2, <3>1, <3>2 DEF StopsInv, ReplacedAreIdle
  <2> QED BY <1>4, <2>4, <2>5, <2>6 DEF StopsInv
<1> QED BY <1>6, <1>7

LEMMA CancelEndsTells ==
  ASSUME WorkersInv, WorkersInv', StopsInv, NEW s \in stopping, CancelEnds(s) PROVE StopsInv'
<1> DEFINE r == s.run
           over == {w \in Tracked(r) : Finishing(w)}
           l == Refreshed(over)
           own == s.current /\ contexts[r].state # "none"
           all == IF own THEN [contexts EXCEPT ![r].pending = {}] ELSE contexts
           running == \E w \in Tracked(r) : Live(l, w)
           last == Line(IF running THEN "unconfirmed" ELSE "confirmed", r, <<>>)
           After(q) == AfterEmit(q, all[q], l)
<1>1. /\ stopping' = stopping \ {s} /\ rows' = l
      /\ contexts' = [q \in Runs |->
             IF q # r \/ ~own THEN After(q)
             ELSE IF running THEN [After(q) EXCEPT !.stopUnconfirmed = TRUE] ELSE NoContext]
      /\ \E lines \in Emitted(all, l) : pipe' = Append(pipe \o lines, last)
      /\ UNCHANGED <<run, process, commands, call, cancelling>>
  BY DEF CancelEnds, runVars, appVars
<1>2. /\ contexts \in [Runs -> Context] /\ stopping \subseteq [n : {1, 2}, run : Runs, current : BOOLEAN]
      /\ pipe \in Seq(Lines)
  BY DEF WorkersInv, BridgeTypeOK
<1>3. r \in Runs
  <2>1. s \in [n : {1, 2}, run : Runs, current : BOOLEAN] BY <1>2
  <2> QED BY <2>1
<1>4. l \in List /\ Later(l) /\ \A w \in Workers : Live(l, w) => Live(rows, w)
  <2>1. \A w \in over : w \in Workers /\ Finishing(w) BY DEF Tracked
  <2> HIDE DEF over
  <2> QED BY <2>1, RefreshedIsLater
<1>5. /\ last \in Lines /\ last.run = r /\ last.kind = IF running THEN "unconfirmed" ELSE "confirmed"
  <2>1. \A k \in {"confirmed", "unconfirmed"} :
            Line(k, r, <<>>) \in Lines /\ Line(k, r, <<>>).kind = k /\ Line(k, r, <<>>).run = r
    BY <1>3 DEF Line, Lines, LineKinds
  <2> HIDE DEF running, r
  <2> QED BY <2>1
<1>6. /\ all \in [Runs -> Context]
      /\ \A q \in Runs : /\ all[q].task = contexts[q].task /\ all[q].state = contexts[q].state
                         /\ all[q].pending \subseteq contexts[q].pending
  <2>1. [contexts EXCEPT ![r].pending = {}] \in [Runs -> Context]
    <3>1. \A v \in Runs : [contexts EXCEPT ![v].pending = {}] \in [Runs -> Context] BY <1>2 DEF Context
    <3> QED BY <1>3, <3>1
  <2>2. \A q \in Runs : /\ [contexts EXCEPT ![r].pending = {}][q].task = contexts[q].task
                        /\ [contexts EXCEPT ![r].pending = {}][q].state = contexts[q].state
                        /\ [contexts EXCEPT ![r].pending = {}][q].pending \subseteq contexts[q].pending
    BY <1>2, <1>3 DEF Context
  <2> HIDE DEF own, r
  <2>3. CASE own BY <2>1, <2>2, <2>3
  <2>4. CASE ~own BY <1>2, <2>4
  <2> QED BY <2>3, <2>4
<1>7. PICK lines \in Emitted(all, l) : pipe' = Append(pipe \o lines, last) BY <1>1
<1>8. \/ own /\ running /\ contexts'[r] = [After(r) EXCEPT !.stopUnconfirmed = TRUE]
      \/ own /\ ~running /\ contexts'[r] = NoContext
      \/ ~own /\ contexts'[r] = After(r)
  <2> HIDE DEF After, running, own
  <2> QED BY <1>1, <1>3
<1>9. \A q \in Runs : q # r => contexts'[q] = After(q)
  <2> HIDE DEF After, running, own, r
  <2> QED BY <1>1
<1> HIDE DEF all, last
<1>10. \A q \in Runs : Distinct(all[q]) /\ Supported(all[q], l)
  <2>1. \A q \in Runs : Distinct(contexts[q]) /\ Supported(contexts[q], l) BY <1>4, LaterFits
  <2> QED BY <1>6, <2>1 DEF Distinct, Supported
<1> HIDE DEF l
<1>11. ASSUME NEW q \in Runs, NEW d, d = After(q)
       PROVE  /\ d.pending \subseteq contexts[q].pending
              /\ Busy(d, l) => Busy(contexts[q], l)
              /\ d.state # "none" => contexts[q].state # "none"
              /\ \A w \in Workers : contexts[q].task[w] # 0 /\ Live(l, w) => d.task[w] # 0
              /\ Unsaid(lines, q) \/ d = NoContext
  <2>1. /\ d.pending \subseteq all[q].pending /\ (Busy(d, l) => Busy(all[q], l))
        /\ d.state # "none" => all[q].state # "none"
        /\ \A w \in Workers : all[q].task[w] # 0 /\ Live(l, w) => d.task[w] # 0
        /\ Unsaid(lines, q) \/ d = NoContext
    BY <1>4, <1>6, <1>7, <1>10, <1>11, EmittedTells
  <2> QED BY <1>6, <2>1 DEF Busy, StillRunning
<1>12. \A w \in Workers : contexts[r].task[w] # 0 /\ Live(l, w) => running
  BY <1>4 DEF Tracked, l
<1>13. After(r) \in Context
  <2>1. Assigned(r, all[r], l) \in Context BY <1>3, <1>4, <1>6, <1>10, AssignedGrows DEF Grows
  <2> QED BY <2>1, NoContextIsEmpty DEF AfterEmit
<1>14. \A q \in Runs : /\ contexts'[q].pending \subseteq contexts[q].pending
                       /\ \A w \in Workers : contexts[q].task[w] # 0 /\ Live(l, w) => contexts'[q].task[w] # 0
  <2>1. /\ [After(r) EXCEPT !.stopUnconfirmed = TRUE].pending = After(r).pending
        /\ [After(r) EXCEPT !.stopUnconfirmed = TRUE].task = After(r).task
    <3> HIDE DEF After
    <3> QED BY <1>13 DEF Context
  <2> HIDE DEF After, running, own, r
  <2>2. ASSUME NEW q \in Runs, q # r
        PROVE  /\ contexts'[q].pending \subseteq contexts[q].pending
               /\ \A w \in Workers : contexts[q].task[w] # 0 /\ Live(l, w) => contexts'[q].task[w] # 0
    BY <1>9, <1>11, <2>2
  <2>3. /\ contexts'[r].pending \subseteq contexts[r].pending
        /\ \A w \in Workers : contexts[r].task[w] # 0 /\ Live(l, w) => contexts'[r].task[w] # 0
    <3>1. /\ After(r).pending \subseteq contexts[r].pending
          /\ \A w \in Workers : contexts[r].task[w] # 0 /\ Live(l, w) => After(r).task[w] # 0
      BY <1>3, <1>11
    <3> QED BY <1>8, <1>12, <2>1, <3>1, NoContextIsEmpty
  <2> QED BY <2>2, <2>3
<1>15. \A q : (IsCancelled(q)' <=> IsCancelled(q)) /\ (Registers(q)' <=> Registers(q))
  BY <1>1 DEF IsCancelled, Registers
<1>16. CancelledHaveTasks'
  <2>1. \A w \in Workers : process'[w].state = "alive" => Live(l, w)
    BY <1>1 DEF WorkersInv, RowsTellProcesses, Live, l
  <2> QED BY <1>1, <1>14, <1>15, <2>1 DEF StopsInv, CancelledHaveTasks
<1>17. ReplacedAreIdle'
  <2>1. \A t \in stopping : t.run \in Runs BY <1>2
  <2> QED BY <1>1, <1>14, <1>15, <2>1 DEF StopsInv, ReplacedAreIdle
<1>18. CancelsSignal' BY <1>1 DEF StopsInv, CancelsSignal
<1>19. lines \in Seq(Lines) /\ pipe \o lines \in Seq(Lines)
  <2>1. lines \in Seq(Lines) BY <1>4, <1>6, <1>7, <1>10, EmittedFacts
  <2> QED BY <1>2, <2>1, Appended
<1>20. ASSUME running PROVE Marked(pipe', r, run[r].stop)
  BY <1>5, <1>7, <1>19, <1>20, MarkedLast
<1>21. ASSUME ~running PROVE ~Unstopped(r)'
  <2>1. ~StillRunning(contexts[r], l) BY <1>12, <1>21 DEF StillRunning
  <2>2. rows' = l BY <1>1 DEF l
  <2>3. CASE contexts'[r] = NoContext
    BY <2>3, NoContextIsEmpty DEF Unstopped, Busy, StillRunning
  <2>4. CASE contexts'[r] = After(r) /\ ~own
    <3>1. CASE contexts[r].state = "none"
      <4>1. After(r) = NoContext BY <1>3, <1>6, <3>1 DEF AfterEmit
      <4> QED BY <2>3, <2>4, <4>1
    <3>2. CASE ~s.current
      <4>1. contexts[r].pending = {} /\ ~Registers(r) BY <3>2 DEF StopsInv, ReplacedAreIdle
      <4>2. ~Busy(contexts[r], l) BY <2>1, <4>1 DEF Busy
      <4>3. ~Busy(contexts'[r], l) BY <1>3, <1>11, <2>4, <4>2
      <4> QED BY <1>15, <2>2, <4>1, <4>3 DEF Unstopped
    <3> QED BY <2>4, <3>1, <3>2
  <2> QED BY <1>8, <1>21, <2>3, <2>4
<1>22. ASSUME NEW q \in Runs, q # r, IsCancelled(q), Unstopped(q)'
       PROVE  Stopping(q)' \/ Marked(pipe', q, run[q].stop)
  <2>1. contexts'[q] = After(q) /\ rows' = l BY <1>1, <1>9, <1>22 DEF l
  <2>2. contexts'[q] # NoContext BY <1>22, NoContextIsEmpty DEF Unstopped, Busy, StillRunning
  <2>3. Busy(contexts[q], l) => Busy(contexts[q], rows) BY <1>4 DEF Busy, StillRunning, l
  <2>4. Unstopped(q) BY <1>11, <1>15, <1>22, <2>1, <2>3 DEF Unstopped
  <2>5. Stopping(q) => Stopping(q)' BY <1>1, <1>22 DEF Stopping
  <2>6. ASSUME Marked(pipe, q, run[q].stop) PROVE Marked(pipe', q, run[q].stop)
    <3> DEFINE more == Append(lines, last)
    <3>1. more \in Seq(Lines) /\ pipe' = pipe \o more
      BY <1>2, <1>5, <1>7, <1>19, AppendedLast
    <3>2. Unsaid(lines, q) BY <1>11, <2>1, <2>2
    <3>3. \A i \in 1..Len(more) : (i \in 1..Len(lines) /\ more[i] = lines[i]) \/ more[i] = last
      BY <1>5, <1>19
    <3> HIDE DEF more
    <3>4. Unsaid(more, q) BY <1>5, <1>22, <3>2, <3>3 DEF Unsaid, Says
    <3> QED BY <1>2, <2>6, <3>1, <3>4, MarkedStays
  <2> QED BY <1>22, <2>4, <2>5, <2>6 DEF StopsInv, StopsAreTold
<1>23. StopsAreTold'
  <2>1. run' = run BY <1>1
  <2> HIDE DEF running, r
  <2> QED BY <1>15, <1>20, <1>21, <1>22, <2>1 DEF StopsAreTold
<1> QED BY <1>16, <1>17, <1>18, <1>23 DEF StopsInv

-----------------------------------------------------------------------------
(* The answers to the agent's calls                                         *)

LEMMA AnswerTells ==
  ASSUME WorkersInv, WorkersInv', StopsInv, call' = NoCall,
         UNCHANGED <<run, process, commands, cancelling, rows, pipe>>,
         \A r \in Runs : IsCancelled(r) =>
             /\ contexts'[r].pending \subseteq contexts[r].pending
             /\ \A w \in Workers : \/ contexts'[r].task[w] = contexts[r].task[w]
                                   \/ /\ contexts'[r].task[w] = 0
                                      /\ process[w].run = r => process[w].state # "alive",
         \A s \in stopping : \E u \in stopping' : u.run = s.run,
         \A u \in stopping' : ~u.current => u \in stopping \/ contexts'[u.run].pending = {}
  PROVE  StopsInv'
<1>1. \A r : IsCancelled(r)' <=> IsCancelled(r) BY DEF IsCancelled
<1>2. \A r : ~Registers(r)'
  <2>1. NoCall.stage = "none" BY DEF NoCall
  <2> QED BY <2>1 DEF Registers
<1>3. \A s \in stopping : s.run \in Runs /\ IsCancelled(s.run)
  <2>1. \A s \in stopping : s.run \in Runs BY DEF WorkersInv, BridgeTypeOK
  <2> QED BY <2>1 DEF WorkersInv, StopsAreOfCancelled, IsCancelled
<1>4. CancelledHaveTasks' BY <1>1 DEF StopsInv, CancelledHaveTasks
<1>5. StopsAreTold'
  <2>1. ASSUME NEW r \in Runs, IsCancelled(r), Unstopped(r)'
        PROVE  Stopping(r)' \/ Marked(pipe, r, run[r].stop)'
    <3>1. Busy(contexts'[r], rows) BY <1>2, <2>1 DEF Unstopped
    <3>2. Busy(contexts[r], rows) BY <2>1, <3>1 DEF Busy, StillRunning
    <3>3. Stopping(r) \/ Marked(pipe, r, run[r].stop) BY <2>1, <3>2 DEF StopsInv, StopsAreTold, Unstopped
    <3>4. Stopping(r) => Stopping(r)' BY DEF Stopping
    <3> QED BY <3>3, <3>4
  <2> QED BY <1>1, <2>1 DEF StopsAreTold
<1>6. ReplacedAreIdle' BY <1>2, <1>3 DEF StopsInv, ReplacedAreIdle
<1>7. CancelsSignal' BY DEF StopsInv, CancelsSignal
<1> QED BY <1>4, <1>5, <1>6, <1>7 DEF StopsInv

LEMMA SetContextTells ==
  ASSUME WorkersInv, WorkersInv', StopsInv, call.stage = "answered", call' = NoCall,
         UNCHANGED <<run, process, commands, cancelling>>, NEW r \in Runs, r = call.run,
         call.action \in {"start", "resume", "gap_fill"}, SetContext(r, call.action = "resume")
  PROVE  StopsInv'
<1> DEFINE keep == call.action = "resume"
           baseline == {w \in Workers : rows[w].state # "none"}
           new == [NoContext EXCEPT !.state = "open", !.baseline = baseline,
                                    !.task = IF keep THEN contexts[r].task ELSE @]
           old(q) == IF contexts[q].state = "none" THEN NoContext
                     ELSE [contexts[q] EXCEPT !.state = "cancelled", !.pending = {}]
           replaced(s) == IF s.run = r THEN [s EXCEPT !.current = FALSE] ELSE s
<1>1. /\ contexts' = [q \in Runs |-> IF q = r THEN new ELSE old(q)]
      /\ stopping' = {replaced(s) : s \in stopping}
      /\ UNCHANGED <<rows, pipe>>
  BY DEF SetContext
<1>2. ~keep => \A w \in Workers : process[w].run = r => process[w].state # "alive"
  BY DEF WorkersInv, AnswersAreSound
<1>3. contexts \in [Runs -> Context] /\ stopping \subseteq [n : {1, 2}, run : Runs, current : BOOLEAN]
  BY DEF WorkersInv, BridgeTypeOK
<1>4. /\ new.pending = {}
      /\ \A w \in Workers : new.task[w] = contexts[r].task[w] \/ (new.task[w] = 0 /\ ~keep)
  <2>1. new.pending = {} /\ new.task = IF keep THEN contexts[r].task ELSE NoContext.task
    BY DEF NoContext
  <2> QED BY <2>1, NoContextIsEmpty
<1>5. \A q \in Runs : old(q).pending = {} /\ \A w \in Workers : old(q).task[w] = contexts[q].task[w]
  <2>1. ASSUME NEW q \in Runs
        PROVE  old(q).pending = {} /\ \A w \in Workers : old(q).task[w] = contexts[q].task[w]
    <3>1. CASE contexts[q].state = "none"
      <4>1. Supported(contexts[q], rows) BY DEF WorkersInv, ContextsFit
      <4> QED BY <3>1, <4>1, NoContextIsEmpty DEF Supported
    <3>2. CASE contexts[q].state # "none" BY <1>3, <3>2 DEF Context
    <3> QED BY <3>1, <3>2
  <2> QED BY <2>1
<1>6. \A s \in stopping : replaced(s).run = s.run BY <1>3
<1> HIDE DEF new, old, keep
<1>7. \A q \in Runs :
          /\ contexts'[q].pending = {}
          /\ \A w \in Workers : \/ contexts'[q].task[w] = contexts[q].task[w]
                                \/ /\ contexts'[q].task[w] = 0
                                   /\ process[w].run = q => process[w].state # "alive"
  BY <1>1, <1>2, <1>4, <1>5
<1> HIDE DEF replaced
<1>8. /\ \A s \in stopping : \E u \in stopping' : u.run = s.run
      /\ \A u \in stopping' : u.run \in Runs
  BY <1>1, <1>3, <1>6
<1> QED BY <1>1, <1>7, <1>8, AnswerTells

\* A task that is registered with a cancelled run is one more worker to stop, and was so before.
LEMMA RegisteredTells ==
  ASSUME WorkersInv, WorkersInv', StopsInv, call.stage = "answered", call' = NoCall,
         UNCHANGED <<run, process, commands, cancelling, stopping>>, NEW r \in Runs, r = call.run,
         NEW t \in Tasks, call.action = "register", contexts[r].state # "none",
         t \notin contexts[r].pending, \A w \in Workers : contexts[r].task[w] # t,
         Emit([contexts EXCEPT ![r].pending = @ \cup {t}], rows)
  PROVE  StopsInv'
<1> DEFINE all == [contexts EXCEPT ![r].pending = @ \cup {t}]
<1>1. contexts \in [Runs -> Context] /\ rows \in List BY DEF WorkersInv, BridgeTypeOK
<1>2. /\ all \in [Runs -> Context] /\ all[r].pending = contexts[r].pending \cup {t}
      /\ all[r].state = contexts[r].state /\ all[r].task = contexts[r].task
      /\ \A q \in Runs : q # r => all[q] = contexts[q]
  BY <1>1 DEF Context
<1> HIDE DEF all
<1>3. ASSUME NEW q \in Runs
      PROVE  /\ Distinct(all[q]) /\ Supported(all[q], rows)
             /\ all[q].task = contexts[q].task /\ all[q].state = contexts[q].state
             /\ IsCancelled(q) /\ Busy(all[q], rows) => Unstopped(q)
  <2>1. Distinct(contexts[q]) /\ Supported(contexts[q], rows) BY DEF WorkersInv, ContextsFit
  <2>2. CASE q # r BY <1>2, <2>1, <2>2 DEF Unstopped
  <2>3. CASE q = r
    <3>1. Distinct(all[r]) /\ Supported(all[r], rows)
      BY <1>2, <2>1, <2>3 DEF Distinct, Supported
    <3>2. Unstopped(r) BY DEF Unstopped, Registers
    <3> QED BY <1>2, <2>3, <3>1, <3>2
  <2> QED BY <2>2, <2>3
<1>4. ASSUME NEW s \in stopping, ~s.current PROVE all[s.run].pending = {}
  <2>1. s.run \in Runs /\ contexts[s.run].pending = {} /\ ~Registers(s.run)
    <3>1. s \in [n : {1, 2}, run : Runs, current : BOOLEAN] BY DEF WorkersInv, BridgeTypeOK
    <3> QED BY <1>4, <3>1 DEF StopsInv, ReplacedAreIdle
  <2>2. s.run # r BY <2>1 DEF Registers
  <2> QED BY <1>2, <2>1, <2>2
<1>5. Emit(all, rows) BY DEF all
<1> QED BY <1>1, <1>2, <1>3, <1>4, <1>5, EmissionTells

LEMMA AnswerArrivesTells == ASSUME WorkersInv, WorkersInv', StopsInv, AnswerArrives PROVE StopsInv'
<1>1. PICK r : r = call.run OBVIOUS
<1>2. PICK t : t = call.task OBVIOUS
<1>3. /\ call.stage = "answered" /\ call' = NoCall /\ Observe(call.action, r, t)
      /\ UNCHANGED <<run, process, commands, cancelling>>
  BY <1>1, <1>2 DEF AnswerArrives, WorkersInv, Undisturbed, runVars, appVars
<1>4. /\ contexts \in [Runs -> Context] /\ \A s \in stopping : \E u \in stopping : u.run = s.run
      /\ call.action # "failed" => r \in Runs
  BY <1>1, <1>3 DEF WorkersInv, BridgeTypeOK, AnswersAreSound
<1>5. CASE call.action \in {"start", "resume", "gap_fill"}
  <2>1. SetContext(r, call.action = "resume") /\ r \in Runs BY <1>3, <1>4, <1>5 DEF Observe
  <2> QED BY <1>1, <1>3, <1>5, <2>1, SetContextTells
<1>6. CASE /\ call.action = "register" /\ contexts[r].state # "none"
           /\ t \notin contexts[r].pending /\ \A w \in Workers : contexts[r].task[w] # t
  <2>1. Emit([contexts EXCEPT ![r].pending = @ \cup {t}], rows) /\ UNCHANGED stopping
    BY <1>3, <1>6 DEF Observe
  <2>2. r \in Runs /\ t \in Tasks BY <1>1, <1>2, <1>3, <1>6 DEF WorkersInv, AnswersAreSound
  <2> QED BY <1>1, <1>3, <1>6, <2>1, <2>2, RegisteredTells
<1>7. CASE call.action = "cancel" /\ contexts[r].state # "none"
  <2>1. r \in Runs /\ UNCHANGED <<rows, pipe, stopping>> BY <1>3, <1>4, <1>7 DEF Observe
  <2>2. \/ contexts' = [contexts EXCEPT ![r].state = "cancelled"]
        \/ contexts' = [contexts EXCEPT ![r] = NoContext] /\ ~Busy(contexts[r], rows)
    <3>1. contexts' = [contexts EXCEPT ![r] =
                          IF StillRunning(@, rows) \/ @.pending # {} THEN [@ EXCEPT !.state = "cancelled"]
                          ELSE NoContext]
      BY <1>3, <1>7 DEF Observe
    <3> QED BY <1>4, <2>1, <3>1 DEF Busy
  <2>3. \A q \in Runs :
            /\ contexts'[q].pending \subseteq contexts[q].pending
            /\ \A w \in Workers : \/ contexts'[q].task[w] = contexts[q].task[w]
                                  \/ /\ contexts'[q].task[w] = 0
                                     /\ process[w].run = q => process[w].state # "alive"
    <3>1. CASE contexts' = [contexts EXCEPT ![r].state = "cancelled"]
      <4>1. \A q \in Runs : contexts'[q].pending = contexts[q].pending /\ contexts'[q].task = contexts[q].task
        BY <1>4, <2>1, <3>1 DEF Context
      <4> QED BY <4>1
    <3>2. CASE contexts' = [contexts EXCEPT ![r] = NoContext] /\ ~Busy(contexts[r], rows)
      <4>1. \A w \in Workers : contexts[r].task[w] = 0 \/ process[w].state # "alive"
        BY <3>2 DEF Busy, StillRunning, Live, WorkersInv, RowsTellProcesses
      <4>2. \A q \in Runs : contexts'[q] = IF q = r THEN NoContext ELSE contexts[q] BY <1>4, <3>2
      <4> QED BY <4>1, <4>2, NoContextIsEmpty
    <3> QED BY <2>2, <3>1, <3>2
  <2> QED BY <1>3, <1>4, <2>1, <2>3, AnswerTells
<1>8. CASE call.action = "complete"
  <2>1. r \in Runs /\ ~IsCancelled(r) BY <1>1, <1>3, <1>8 DEF WorkersInv, AnswersAreSound, IsCancelled
  <2>2. contexts' = [contexts EXCEPT ![r] = NoContext] /\ UNCHANGED <<rows, pipe, stopping>>
    BY <1>3, <1>8 DEF Observe
  <2>3. \A q \in Runs : IsCancelled(q) => contexts'[q] = contexts[q] BY <1>4, <2>1, <2>2
  <2> QED BY <1>3, <1>4, <2>2, <2>3, AnswerTells
<1>9. CASE UNCHANGED <<contexts, rows, pipe, stopping>>
  BY <1>3, <1>4, <1>9, AnswerTells
<1>10. \/ call.action \in {"start", "resume", "gap_fill"}
       \/ /\ call.action = "register" /\ contexts[r].state # "none"
          /\ t \notin contexts[r].pending /\ \A w \in Workers : contexts[r].task[w] # t
       \/ call.action = "cancel" /\ contexts[r].state # "none"
       \/ call.action = "complete"
       \/ UNCHANGED <<contexts, rows, pipe, stopping>>
  BY <1>3 DEF Observe
<1> QED BY <1>5, <1>6, <1>7, <1>8, <1>9, <1>10

-----------------------------------------------------------------------------
(* Processes, calls, cancels, and the reader                                *)

\* A step that leaves the runs, their lines and the cancels alone, too.
LEMMA QuietStepTells ==
  ASSUME WorkersInv, WorkersInv', StopsInv,
         UNCHANGED <<contexts, rows, stopping, run, commands, cancelling, call, pipe>>,
         \A w \in Workers : process'[w].state = "alive" => process'[w] = process[w]
  PROVE  StopsInv'
<1>1. \A r \in Runs : /\ IsCancelled(r)' <=> IsCancelled(r)
                      /\ Registers(r)' <=> Registers(r)
                      /\ Stopping(r)' <=> Stopping(r)
  BY DEF IsCancelled, Registers, Stopping
<1>2. CancelsSignal' BY DEF StopsInv, CancelsSignal
<1> QED BY <1>1, <1>2, StopsGoOn

LEMMA EndsTell ==
  ASSUME WorkersInv, WorkersInv', StopsInv,
         (\E w \in Workers : WorkerEnds(w)) \/ (\E r \in Runs : WorkersAreSignalled(r))
  PROVE  StopsInv'
<1>1. process \in [Workers -> [state : {"none", "alive", "succeeded", "failed"}, run : Runs \cup {NoRun}]]
  BY DEF WorkersInv, BridgeTypeOK
<1>2. UNCHANGED <<contexts, rows, stopping, run, commands, cancelling, call, pipe>>
  BY DEF WorkerEnds, WorkersAreSignalled, bridgeVars, appVars, runVars
<1>3. CASE \E w \in Workers : WorkerEnds(w)
  <2>1. PICK w \in Workers, end \in {"succeeded", "failed"} : process' = [process EXCEPT ![w].state = end]
    BY <1>3 DEF WorkerEnds
  <2>2. \A v \in Workers : process'[v].state = "alive" => process'[v] = process[v] BY <1>1, <2>1
  <2> QED BY <1>2, <2>2, QuietStepTells
<1>4. CASE \E r \in Runs : WorkersAreSignalled(r)
  <2>1. PICK ws : process' = Killed(ws) BY <1>4 DEF WorkersAreSignalled
  <2>2. \A v \in Workers : process'[v].state = "alive" => process'[v] = process[v]
    BY <1>1, <2>1 DEF Killed
  <2> QED BY <1>2, <2>2, QuietStepTells
<1> QED BY <1>3, <1>4

LEMMA AgentCallsTells ==
  ASSUME WorkersInv, WorkersInv', StopsInv, NEW action \in Actions, NEW r \in Runs, NEW p \in AnyPrompt,
         AgentCalls(action, r, p)
  PROVE  StopsInv'
<1> DEFINE ask == Line("ask", r, <<>>)
           q == <<ask>>
<1>1. /\ pipe' = Append(pipe, ask) /\ call'.stage = "asked"
      /\ UNCHANGED <<contexts, rows, stopping, run, commands, cancelling, process>>
  BY DEF AgentCalls, bridgeVars, appVars, runVars, NoCall
<1>2. ask \in Lines /\ ask.kind = "ask" BY DEF Line, Lines, LineKinds
<1> HIDE DEF ask
<1>3. pipe \in Seq(Lines) /\ q \in Seq(Lines) /\ Len(q) = 1 /\ q[1] = ask
  BY <1>2 DEF WorkersInv, BridgeTypeOK
<1>4. pipe' = pipe \o q
  <2>1. Append(pipe, ask) = pipe \o <<ask>> BY <1>2, <1>3
  <2> QED BY <1>1, <2>1
<1>5. \A v : Unsaid(q, v) BY <1>2, <1>3 DEF Unsaid, Says
<1> HIDE DEF q
<1>6. \A v \in Runs : /\ IsCancelled(v)' <=> IsCancelled(v)
                      /\ ~Registers(v)'
                      /\ Stopping(v)' <=> Stopping(v)
  BY <1>1 DEF IsCancelled, Registers, Stopping
<1>7. ASSUME NEW v \in Runs, Marked(pipe, v, run[v].stop) PROVE Marked(pipe, v, run[v].stop)'
  BY <1>1, <1>3, <1>4, <1>5, <1>7, MarkedStays
<1>8. CancelsSignal' BY <1>1 DEF StopsInv, CancelsSignal
<1> QED BY <1>1, <1>6, <1>7, <1>8, StopsGoOn

\* A step of a cancel of run v.
LEMMA CancelStepTells ==
  ASSUME WorkersInv, WorkersInv', AppInv, StopsInv, NEW by \in Cancellers, NEW k, NEW v \in Runs,
         cancelling' = [cancelling EXCEPT ![by] = k], k.step \in {"flag", "signal"} => k.signal,
         UNCHANGED <<contexts, rows, stopping, pipe, process>>,
         \A q : Registers(q)' => Registers(q),
         \A q \in Runs \ {v} : run'[q] = run[q] /\ (Stopping(q) => Stopping(q)'),
         IsCancelled(v)' => IsCancelled(v) \/ Going(v),
         Stopping(v)' \/ (run'[v] = run[v] /\ (Stopping(v) => Stopping(v)'))
  PROVE  StopsInv'
<1>1. CancelsSignal'
  <2>1. \A b \in Cancellers : cancelling'[b] = IF b = by THEN k ELSE cancelling[b]
    BY DEF AppInv, AppTypeOK
  <2> QED BY <2>1 DEF StopsInv, CancelsSignal
<1>2. ASSUME NEW q \in Runs, IsCancelled(q)'
      PROVE  /\ IsCancelled(q) \/ Going(q)
             /\ Registers(q)' => Registers(q)
             /\ \/ Stopping(q)' \/ Marked(pipe, q, run[q].stop)' \/ ~Unstopped(q)'
                \/ /\ IsCancelled(q) /\ (Stopping(q) => Stopping(q)')
                   /\ Marked(pipe, q, run[q].stop) => Marked(pipe, q, run[q].stop)'
  <2>1. CASE q # v BY <1>2, <2>1 DEF IsCancelled
  <2>2. CASE q = v BY <1>2, <2>2 DEF IsCancelled
  <2> QED BY <2>1, <2>2
<1> QED BY <1>1, <1>2, StopsGoOn

\* A cancel that has not recorded anything, or leaves without it.
LEMMA CancelsBeginTells ==
  ASSUME WorkersInv, WorkersInv', AppInv, StopsInv, NEW by \in Cancellers, NEW k,
         cancelling' = [cancelling EXCEPT ![by] = k], k.step \notin {"flag", "signal"},
         cancelling[by].step \notin {"flag", "signal"},
         UNCHANGED <<contexts, rows, stopping, pipe, process, run, commands>>,
         \A q : Registers(q)' => Registers(q)
  PROVE  StopsInv'
<1>1. \A b \in Cancellers : b # by => cancelling'[b] = cancelling[b]
  BY DEF AppInv, AppTypeOK
<1>2. \A q : Stopping(q) => Stopping(q)' BY <1>1 DEF Stopping
<1>3. \A q : IsCancelled(q)' => IsCancelled(q) BY DEF IsCancelled
<1>4. CancelsSignal'
  <2>1. \A b \in Cancellers : cancelling'[b] = IF b = by THEN k ELSE cancelling[b]
    BY DEF AppInv, AppTypeOK
  <2> QED BY <2>1 DEF StopsInv, CancelsSignal
<1> QED BY <1>2, <1>3, <1>4, StopsGoOn

\* An answer to a cancel is not one to the registration of a task.
LEMMA LeavesDoNotRegister ==
  ASSUME WorkersInv, NEW by, NEW action, Leave(by, action), action # "register"
  PROVE  \A q : Registers(q)' => Registers(q)
<1>1. UNCHANGED call \/ call' = [call EXCEPT !.stage = "answered", !.action = action, !.task = 0]
  BY DEF Leave, Answered, WorkersInv, Undisturbed
<1>2. CASE UNCHANGED call BY <1>2 DEF Registers
<1>3. CASE call' = [call EXCEPT !.stage = "answered", !.action = action, !.task = 0]
  <2>1. call'.action = action BY <1>3 DEF WorkersInv, BridgeTypeOK
  <2> QED BY <2>1 DEF Registers
<1> QED BY <1>1, <1>2, <1>3

LEMMA CancelsTell ==
  ASSUME WorkersInv, WorkersInv', AppInv, StopsInv,
         \/ \E r \in Runs : UserCancels(r)
         \/ AgentCancels
         \/ \E by \in Cancellers : CancelReads(by)
  PROVE  StopsInv'
<1>1. PICK by \in Cancellers :
        /\ \E k : cancelling' = [cancelling EXCEPT ![by] = k] /\ k.step \notin {"flag", "signal"}
        /\ cancelling[by].step \notin {"flag", "signal"}
  <2>1. ASSUME NEW r \in Runs, UserCancels(r)
        PROVE  /\ "user" \in Cancellers /\ cancelling["user"].step \notin {"flag", "signal"}
               /\ \E k : cancelling' = [cancelling EXCEPT !["user"] = k] /\ k.step \notin {"flag", "signal"}
    <3> DEFINE k == [NoCancel EXCEPT !.step = "read", !.run = r]
    <3>1. k.step = "read" /\ NoCancel.step = "none" BY DEF NoCancel
    <3> HIDE DEF k
    <3>2. cancelling' = [cancelling EXCEPT !["user"] = k] /\ cancelling["user"] = NoCancel
      BY <2>1 DEF UserCancels, k
    <3> QED BY <3>1, <3>2 DEF Cancellers
  <2>2. ASSUME AgentCancels
        PROVE  /\ "agent" \in Cancellers /\ cancelling["agent"].step \notin {"flag", "signal"}
               /\ \E k : cancelling' = [cancelling EXCEPT !["agent"] = k] /\ k.step \notin {"flag", "signal"}
    <3> DEFINE k == [NoCancel EXCEPT !.step = "read", !.run = call.run]
    <3>1. k.step = "read" /\ NoCancel.step = "none" BY DEF NoCancel
    <3> HIDE DEF k
    <3>2. cancelling' = [cancelling EXCEPT !["agent"] = k] /\ cancelling["agent"] = NoCancel
      BY <2>2 DEF AgentCancels, k
    <3> QED BY <3>1, <3>2 DEF Cancellers
  <2>3. ASSUME NEW b \in Cancellers, CancelReads(b)
        PROVE  /\ cancelling[b].step \notin {"flag", "signal"}
               /\ \E k : cancelling' = [cancelling EXCEPT ![b] = k] /\ k.step \notin {"flag", "signal"}
    <3> DEFINE needed == \/ run[cancelling[b].run].stop
                         \/ \E t \in Tasks : tasks[cancelling[b].run][t].status \in {"running", "interrupted"}
               k == [cancelling[b] EXCEPT !.step = "cancel", !.needed = needed]
    <3>1. k.step = "cancel" BY DEF AppInv, AppTypeOK
    <3> HIDE DEF k
    <3>2. cancelling' = [cancelling EXCEPT ![b] = k] /\ cancelling[b].step = "read"
      BY <2>3 DEF CancelReads, Step, k
    <3> QED BY <3>1, <3>2
  <2> QED BY <2>1, <2>2, <2>3
<1>2. /\ UNCHANGED <<contexts, rows, stopping, pipe, process, run, commands>>
      /\ UNCHANGED call
  BY DEF UserCancels, AgentCancels, CancelReads, bridgeVars, runVars
<1>3. \A q : Registers(q)' => Registers(q) BY <1>2 DEF Registers
<1> QED BY <1>1, <1>2, <1>3, CancelsBeginTells

\* The bridge is told of the cancel as soon as it is recorded.
LEMMA CancelsGoOnTell ==
  ASSUME WorkersInv, WorkersInv', AppInv, RunsTypeOK, StopsInv, NEW by \in Cancellers,
         CancelRecords(by) \/ CancelFlags(by) \/ CancelSignals(by)
  PROVE  StopsInv'
<1>1. PICK c : c = cancelling[by] OBVIOUS
<1>2. PICK v \in Runs : v = c.run
  <2>1. c.step # "none" BY <1>1 DEF CancelRecords, CancelFlags, CancelSignals
  <2> QED BY <1>1, <2>1 DEF AppInv
<1>3. c \in [step : {"none", "read", "cancel", "flag", "signal"}, run : Runs \cup {NoRun},
             needed : BOOLEAN, signal : BOOLEAN]
  BY <1>1 DEF AppInv, AppTypeOK
<1>4. UNCHANGED <<contexts, rows, stopping, pipe, process, registered, sidecar>> /\ registered /\ sidecar
  BY DEF CancelRecords, CancelFlags, CancelSignals, bridgeVars, WorkersInv, Undisturbed
<1>5. \A b \in Cancellers : b # by => (cancelling'[b] = cancelling[b])
  BY DEF CancelRecords, CancelFlags, CancelSignals, Step, Leave, AppInv, AppTypeOK
<1>6. NoCancel.step = "none" BY DEF NoCancel
<1>7. CASE CancelRecords(by)
  <2>1. c.step = "cancel" /\ UNCHANGED commands BY <1>1, <1>7 DEF CancelRecords
  <2>2. CASE /\ Cancel(v) \/ (run[v].status = "cancelled" /\ UNCHANGED runVars)
             /\ Step(by, [c EXCEPT !.step = "flag", !.signal = registered])
             /\ UNCHANGED call
    <3>1. PICK k : k = [c EXCEPT !.step = "flag", !.signal = registered] OBVIOUS
    <3>2. k.step = "flag" /\ k.signal /\ k.run = v BY <1>2, <1>3, <1>4, <3>1
    <3>3. cancelling' = [cancelling EXCEPT ![by] = k] /\ cancelling'[by] = k
      BY <2>2, <3>1 DEF Step, AppInv, AppTypeOK
    <3>4. /\ \A q \in Runs \ {v} : run'[q] = run[q]
          /\ IsCancelled(v) \/ Going(v)
      BY <2>2 DEF Cancel, runVars, RunsTypeOK, IsCancelled, Going
    <3>5. Stopping(v)' BY <3>2, <3>3 DEF Stopping
    <3>6. \A q \in Runs \ {v} : Stopping(q) => Stopping(q)'
      BY <1>1, <1>4, <1>5, <2>1 DEF Stopping
    <3>7. \A q : Registers(q)' => Registers(q) BY <2>2 DEF Registers
    <3> QED BY <1>4, <3>2, <3>3, <3>4, <3>5, <3>6, <3>7, CancelStepTells
  <2>3. CASE UNCHANGED runVars /\ Leave(by, "failed")
    <3>1. cancelling' = [cancelling EXCEPT ![by] = NoCancel] BY <2>3 DEF Leave, Step
    <3>2. \A q : Registers(q)' => Registers(q) BY <2>3, LeavesDoNotRegister
    <3>3. UNCHANGED run BY <2>3 DEF runVars
    <3> QED BY <1>1, <1>4, <1>6, <2>1, <3>1, <3>2, <3>3, CancelsBeginTells
  <2> QED BY <1>1, <1>2, <1>7, <2>2, <2>3 DEF CancelRecords
<1>8. CASE CancelFlags(by)
  <2>1. PICK k : k = [c EXCEPT !.step = "signal"] OBVIOUS
  <2>2. /\ c.step = "flag" /\ cancelling' = [cancelling EXCEPT ![by] = k] /\ UNCHANGED <<commands, call>>
        /\ SetWorkerStopUnconfirmed(v, TRUE) \/ UNCHANGED runVars
    BY <1>1, <1>2, <1>8, <2>1 DEF CancelFlags, Step
  <2>3. k.step = "signal" /\ k.signal /\ k.run = v
    <3>1. c.signal BY <1>1, <2>2 DEF StopsInv, CancelsSignal
    <3> QED BY <1>2, <1>3, <2>1, <3>1
  <2>4. cancelling'[by] = k BY <2>2 DEF AppInv, AppTypeOK
  <2>5. Stopping(v)' BY <2>3, <2>4 DEF Stopping
  <2>6. \A q \in Runs \ {v} : Stopping(q) => Stopping(q)'
    BY <1>1, <1>2, <1>4, <1>5, <2>2 DEF Stopping
  <2>7. (\A q \in Runs \ {v} : run'[q] = run[q]) /\ (IsCancelled(v)' => IsCancelled(v))
    BY <2>2 DEF SetWorkerStopUnconfirmed, runVars, RunsTypeOK, IsCancelled
  <2>8. \A q : Registers(q)' => Registers(q) BY <2>2 DEF Registers
  <2> QED BY <1>4, <2>2, <2>3, <2>5, <2>6, <2>7, <2>8, CancelStepTells
<1>9. CASE CancelSignals(by)
  <2>1. c.step = "signal" /\ c.signal BY <1>1, <1>9 DEF CancelSignals, StopsInv, CancelsSignal
  <2>2. commands' = Append(commands, Command(v, c.needed)) /\ Leave(by, "cancel") /\ UNCHANGED run
    BY <1>1, <1>2, <1>4, <1>9, <2>1 DEF CancelSignals, runVars
  <2>3. cancelling' = [cancelling EXCEPT ![by] = NoCancel] BY <2>2 DEF Leave, Step
  <2>4. \A q : Registers(q)' => Registers(q) BY <2>2, LeavesDoNotRegister
  <2> DEFINE S == [run : Runs, needed : BOOLEAN]
             x == Command(v, c.needed)
  <2>5. commands \in Seq(S) /\ x \in S /\ x.run = v
    BY <1>3 DEF Command, WorkersInv, BridgeTypeOK
  <2> HIDE DEF S, x
  <2>6. /\ Len(commands') = Len(commands) + 1 /\ Len(commands) \in Nat /\ commands'[Len(commands) + 1] = x
        /\ \A i \in 1..Len(commands) : commands'[i] = commands[i]
    BY <2>2, <2>5 DEF x
  <2>7. Stopping(v)' BY <2>5, <2>6 DEF Stopping
  <2>8. \A q \in Runs \ {v} : Stopping(q) => Stopping(q)'
    <3>1. ASSUME NEW q \in Runs, q # v, Stopping(q) PROVE Stopping(q)'
      <4>1. CASE \E b \in Cancellers : cancelling[b].step \in {"flag", "signal"} /\ cancelling[b].run = q
        BY <1>1, <1>2, <1>5, <3>1, <4>1 DEF Stopping
      <4>2. CASE \E i \in 1..Len(commands) : commands[i].run = q
        <5>1. \E i \in 1..Len(commands') : commands'[i].run = q BY <2>6, <4>2
        <5> QED BY <5>1 DEF Stopping
      <4>3. CASE \E s \in stopping : s.run = q BY <1>4, <4>3 DEF Stopping
      <4> QED BY <3>1, <4>1, <4>2, <4>3 DEF Stopping
    <3> QED BY <3>1
  <2>9. IsCancelled(v)' => IsCancelled(v) BY <2>2 DEF IsCancelled
  <2>10. NoCancel.step \notin {"flag", "signal"} /\ \A q \in Runs \ {v} : run'[q] = run[q] BY <1>6, <2>2
  <2> QED BY <1>4, <2>3, <2>4, <2>7, <2>8, <2>9, <2>10, CancelStepTells
<1> QED BY <1>7, <1>8, <1>9

\* The methods of the service that neither cancel a run nor change its mark.
LEMMA CancelledStay ==
  ASSUME RunsTypeOK, NEW r \in Runs,
         \/ Start(r) \/ SealBatch(r) \/ BeginGapFill(r) \/ Complete(r) \/ Resume(r)
         \/ ClaimContinuation(r) \/ MarkInterrupted(r) \/ UNCHANGED runVars
         \/ (\E p \in Prompts, t \in Tasks : RegisterTask(r, p, t))
         \/ (\E updates \in Updates : RecordWorkerUpdates(r, updates))
  PROVE  \A q \in Runs : IsCancelled(q)' => run'[q] = run[q]
<1>1. run \in [Runs -> RunRecord] /\ run[r] \in RunRecord BY DEF RunsTypeOK
<1>2. CASE UNCHANGED run BY <1>2
<1>3. CASE Start(r) \/ MarkInterrupted(r)
  <2>1. PICK status \in {"running", "interrupted"} : run' = [run EXCEPT ![r].status = status]
    BY <1>3 DEF Start, MarkInterrupted
  <2> QED BY <1>1, <2>1 DEF IsCancelled, RunRecord
<1>4. CASE Complete(r)
  <2>1. run' = [run EXCEPT ![r].status = "completed", ![r].phase = "finalizing"] BY <1>4 DEF Complete
  <2> QED BY <1>1, <2>1 DEF IsCancelled, RunRecord
<1>5. CASE Resume(r)
  <2>1. PICK phase : run' = [run EXCEPT ![r].status = "running", ![r].phase = phase]
    BY <1>1, <1>5 DEF Resume
  <2> QED BY <1>1, <2>1 DEF IsCancelled, RunRecord
<1>6. CASE \E phase : To(r, phase) /\ Active(r)
  <2>1. PICK phase : run' = [run EXCEPT ![r].phase = phase] /\ run[r].status = "running"
    BY <1>6 DEF To, Active
  <2> QED BY <1>1, <2>1 DEF IsCancelled, RunRecord
<1>7. \/ UNCHANGED run \/ Start(r) \/ MarkInterrupted(r) \/ Complete(r) \/ Resume(r)
      \/ \E phase : To(r, phase) /\ Active(r)
  BY DEF SealBatch, BeginGapFill, ClaimContinuation, RegisterTask, RecordWorkerUpdates, TakesUpdates, runVars
<1> QED BY <1>2, <1>3, <1>4, <1>5, <1>6, <1>7

LEMMA CallIsHandledTells ==
  ASSUME WorkersInv, WorkersInv', RunsTypeOK, StopsInv, CallIsHandled PROVE StopsInv'
<1>1. PICK r \in Runs : r = call.run BY DEF CallIsHandled
<1>2. /\ UNCHANGED <<contexts, rows, stopping, process, pipe, commands, cancelling>>
      /\ \A q : Stopping(q)' <=> Stopping(q)
  BY DEF CallIsHandled, bridgeVars, appVars, Stopping
<1>3. \A q \in Runs : IsCancelled(q)' => run'[q] = run[q] /\ IsCancelled(q)
  <2>1. \/ Start(r) \/ SealBatch(r) \/ BeginGapFill(r) \/ Complete(r) \/ Resume(r) \/ UNCHANGED runVars
        \/ (\E p \in Prompts, t \in Tasks : RegisterTask(r, p, t))
    BY <1>1 DEF CallIsHandled
  <2> QED BY <2>1, CancelledStay DEF IsCancelled
<1>4. ASSUME NEW q \in Runs, Registers(q)' PROVE ~IsCancelled(q)'
  <2>1. \A action, t : Answered(action, t) => call' = [call EXCEPT !.stage = "answered", !.action = action, !.task = t]
    BY DEF Answered, WorkersInv, Undisturbed
  <2>2. \/ Answered("failed", 0)
        \/ Answered(call.action, 0) /\ call.action # "register"
        \/ \E p \in Prompts, t \in Tasks : RegisterTask(r, p, t) /\ Answered(call.action, t)
    BY <1>1 DEF CallIsHandled
  <2>3. \A action, t : Answered(action, t) => call'.action = action /\ call'.run = r
    <3>1. \A action, t : call' = [call EXCEPT !.stage = "answered", !.action = action, !.task = t] =>
              call'.action = action /\ call'.run = r
      BY <1>1 DEF WorkersInv, BridgeTypeOK
    <3> QED BY <2>1, <3>1
  <2>4. CASE \E p \in Prompts, t \in Tasks : RegisterTask(r, p, t)
    <3>1. Active(r) BY <2>4 DEF RegisterTask
    <3>2. q = r BY <1>4, <2>2, <2>3 DEF Registers
    <3> QED BY <1>3, <3>1, <3>2 DEF Active, IsCancelled
  <2>5. \E p \in Prompts, t \in Tasks : RegisterTask(r, p, t) BY <1>4, <2>2, <2>3 DEF Registers
  <2> QED BY <2>4, <2>5
<1>5. CancelsSignal' BY <1>2 DEF StopsInv, CancelsSignal
<1> QED BY <1>2, <1>3, <1>4, <1>5, StopsGoOn

\* What a line says of a stop becomes the mark of its run.
LEMMA ReaderTells ==
  ASSUME WorkersInv, WorkersInv', AppInv, RunsTypeOK, StopsInv, LineIsRead \/ ReaderContinues
  PROVE  StopsInv'
<1>1. /\ UNCHANGED <<contexts, rows, stopping, process, commands, cancelling>>
      /\ \A q : Stopping(q)' <=> Stopping(q)
  BY DEF LineIsRead, ReaderContinues, bridgeVars, Stopping
<1>2. CancelsSignal' BY <1>1 DEF StopsInv, CancelsSignal
<1>3. ASSUME \A q : Registers(q)' => Registers(q),
             \A q \in Runs : IsCancelled(q)' =>
                 IsCancelled(q) /\ (Marked(pipe, q, run[q].stop) => Marked(pipe, q, run[q].stop)')
      PROVE  StopsInv'
  BY <1>1, <1>2, <1>3, StopsGoOn
<1>4. CASE ReaderContinues
  <2>1. UNCHANGED <<call, pipe>> /\ ReaderGoesOn /\ reading.run \in Runs
    BY <1>4 DEF ReaderContinues, ReaderGoesOn, AppInv
  <2>2. PICK r \in Runs : ClaimContinuation(r) \/ MarkInterrupted(r) \/ UNCHANGED runVars
    BY <2>1 DEF ReaderGoesOn
  <2>3. \A q \in Runs : IsCancelled(q)' => run'[q] = run[q] BY <2>2, CancelledStay
  <2> QED BY <1>3, <2>1, <2>3 DEF Registers, IsCancelled
<1>5. CASE LineIsRead
  <2>1. PICK line : line = Head(pipe) OBVIOUS
  <2>2. PICK r : r = line.run OBVIOUS
  <2>3. pipe # <<>> /\ pipe' = Tail(pipe) /\ pipe \in Seq(Lines)
    BY <1>5 DEF LineIsRead, WorkersInv, BridgeTypeOK
  <2>4. line.kind # "error"
    <3> DEFINE L == Lines
    <3>1. pipe \in Seq(L) BY <2>3
    <3> HIDE DEF L
    <3>2. 1 \in 1..Len(pipe) /\ line = pipe[1] BY <2>1, <2>3, <3>1
    <3> QED BY <3>2 DEF WorkersInv, Undisturbed, NoneOf
  <2>5. call' = call \/ call' = [call EXCEPT !.stage = "handling"]
    BY <1>5 DEF LineIsRead
  <2>6. \A q : Registers(q)' => Registers(q) BY <2>5 DEF Registers, WorkersInv, BridgeTypeOK
  <2>7. CASE line.kind \in {"tasks", "ask"}
    <3>1. \A q \in Runs : IsCancelled(q)' => run'[q] = run[q]
      <4>1. \/ UNCHANGED runVars
            \/ \E v \in Runs : \E updates \in Updates : RecordWorkerUpdates(v, updates)
        BY <1>5, <2>1, <2>7 DEF LineIsRead, ReadsTasks
      <4>2. CASE UNCHANGED runVars BY <4>2 DEF runVars
      <4> QED BY <4>1, <4>2, CancelledStay
    <3>2. ASSUME NEW q \in Runs, Marked(pipe, q, run[q].stop) PROVE Marked(pipe', q, run[q].stop)
      BY <2>1, <2>3, <2>7, <3>2, MarkedRead DEF Says
    <3> QED BY <1>3, <2>6, <3>1, <3>2 DEF IsCancelled
  <2>8. CASE line.kind \in {"confirmed", "unconfirmed"}
    <3>1. IF r \in Runs /\ run[r].status = "cancelled"
          THEN SetWorkerStopUnconfirmed(r, line.kind = "unconfirmed") ELSE UNCHANGED runVars
      BY <1>5, <2>1, <2>2, <2>8 DEF LineIsRead
    <3>2. ASSUME NEW q \in Runs, IsCancelled(q)'
          PROVE  /\ IsCancelled(q)
                 /\ q # r => run'[q] = run[q]
                 /\ q = r => run'[q].stop = (line.kind = "unconfirmed")
      <4>1. run \in [Runs -> RunRecord] /\ run[q] \in RunRecord BY DEF RunsTypeOK
      <4>2. CASE r \in Runs /\ run[r].status = "cancelled"
        BY <3>1, <3>2, <4>1, <4>2 DEF SetWorkerStopUnconfirmed, IsCancelled, RunRecord
      <4>3. CASE ~(r \in Runs /\ run[r].status = "cancelled")
        BY <3>1, <3>2, <4>3 DEF runVars, IsCancelled
      <4> QED BY <4>2, <4>3
    <3>3. ASSUME NEW q \in Runs, IsCancelled(q)', Marked(pipe, q, run[q].stop)
          PROVE  Marked(pipe', q, run'[q].stop)
      <4>1. /\ ~Says(line, q) => Marked(Tail(pipe), q, run[q].stop)
            /\ Says(line, q) => Marked(Tail(pipe), q, line.kind = "unconfirmed")
        BY <2>1, <2>3, <3>3, MarkedRead
      <4>2. Says(line, q) <=> q = r BY <2>2, <2>8 DEF Says
      <4> QED BY <2>3, <3>2, <3>3, <4>1, <4>2
    <3> QED BY <1>3, <2>6, <3>2, <3>3
  <2>9. line.kind \in {"tasks", "ask", "confirmed", "unconfirmed"}
    BY <1>5, <2>1, <2>4 DEF LineIsRead
  <2> QED BY <2>7, <2>8, <2>9
<1> QED BY <1>4, <1>5

-----------------------------------------------------------------------------
(* All steps                                                                *)

StopsKnownInv == SynthesisInv /\ (Faultless => StopsInv)

LEMMA InitStops == Init => StopsKnownInv
<1> SUFFICES ASSUME Init PROVE StopsKnownInv OBVIOUS
<1>1. SynthesisInv BY InitSynthesis
<1>2. \A r \in Runs : ~IsCancelled(r) BY DEF Init, RunsInit, IsCancelled
<1>3. \A by \in Cancellers : cancelling[by].step = "none" BY DEF Init, NoCancel
<1>4. stopping = {} BY DEF Init
<1>5. StopsInv
  BY <1>2, <1>3, <1>4 DEF StopsInv, CancelledHaveTasks, StopsAreTold, ReplacedAreIdle, CancelsSignal
<1> QED BY <1>1, <1>5 DEF StopsKnownInv

LEMMA StopsInvImplies == StopsKnownInv => StopsAreKnown
<1> SUFFICES ASSUME StopsKnownInv, Faultless PROVE StopsAreKnown BY DEF StopsAreKnown, Faultless
<1>1. WorkersInv /\ StopsInv BY DEF StopsKnownInv, SynthesisInv
<1> QED BY <1>1, QuietRunsAreMarked DEF StopsAreKnown

LEMMA StopsTell ==
  ASSUME WorkersInv, WorkersInv', AppInv, RunsInv, CountersInv, Faultless', StopsInv, Next PROVE StopsInv'
<1>1. RunsTypeOK BY RunsInvImplies
<1>2. CASE Agent
  <2>1. NoPrompt \in AnyPrompt /\ Prompts \subseteq AnyPrompt BY DEF AnyPrompt
  <2>2. ASSUME NEW r \in Runs, NEW action \in Actions, NEW p \in AnyPrompt, AgentCalls(action, r, p)
        PROVE  StopsInv'
    BY <2>2, AgentCallsTells
  <2>3. "register" \in Actions BY DEF Actions
  <2> QED BY <1>2, <2>1, <2>2, <2>3, LaunchesTell DEF Agent
<1>3. CASE Bridge
  <2>1. ~HaltEnds BY DEF WorkersInv, Undisturbed, HaltEnds
  <2>2. ASSUME NEW s \in stopping, CancelEnds(s) PROVE StopsInv' BY <2>2, CancelEndsTells
  <2> QED
    BY <1>3, <2>1, <2>2, LaunchesTell, PollTells, CancelBeginsTells, AnswerArrivesTells, EndsTell DEF Bridge
<1>4. CASE App
  <2>1. ~LossIsReported BY DEF WorkersInv, Undisturbed, LossIsReported
  <2>2. ASSUME NEW by \in Cancellers, CancelRecords(by) \/ CancelFlags(by) \/ CancelSignals(by)
        PROVE  StopsInv'
    BY <1>1, <2>2, CancelsGoOnTell
  <2> QED BY <1>1, <1>4, <2>1, <2>2, CallIsHandledTells, ReaderTells, CancelsTell DEF App
<1>5. CASE Outside
  <2>1. ~HaltBegins /\ ~SessionFails /\ ~SidecarDies /\ ~AppRestarts
    BY DEF HaltBegins, SessionFails, SidecarDies, AppRestarts, Faultless, CountersInv
  <2>2. ~UserSends BY DEF WorkersInv, Undisturbed, UserSends
  <2> QED BY <1>5, <2>1, <2>2, EndsTell, CancelsTell DEF Outside
<1> QED BY <1>2, <1>3, <1>4, <1>5 DEF Next

LEMMA StopsKnownKeeps == StopsKnownInv /\ [Next]_vars => StopsKnownInv'
<1> SUFFICES ASSUME StopsKnownInv, [Next]_vars PROVE StopsKnownInv' OBVIOUS
<1>1. SynthesisInv /\ SynthesisInv' BY SynthesisInvKeeps DEF StopsKnownInv
<1>2. Faultless' => Faultless BY <1>1, FaultsStay DEF SynthesisInv
<1>3. ASSUME Faultless' PROVE StopsInv'
  <2>1. WorkersInv /\ WorkersInv' /\ StopsInv /\ AppInv /\ RunsInv /\ CountersInv
    BY <1>1, <1>2, <1>3 DEF SynthesisInv, StopsKnownInv
  <2>2. CASE Next BY <1>3, <2>1, <2>2, StopsTell
  <2>3. CASE UNCHANGED vars
    <3>1. UNCHANGED <<contexts, rows, stopping, run, commands, cancelling, call, pipe, process>>
      BY <2>3 DEF vars, runVars, workerVars, bridgeVars, appVars
    <3> QED BY <2>1, <3>1, QuietStepTells
  <2> QED BY <2>2, <2>3
<1> QED BY <1>1, <1>3 DEF StopsKnownInv

\* For any numbers of runs, tasks, workers and cancels: as long as no session is lost and no turn
\* stopped, a cancelled run that is not marked as having workers has none once the stops of its
\* workers are over and told, however launches, ends, late answers and other cancels met them.
THEOREM StopsAreAlwaysKnown == Spec => []StopsAreKnown
<1>1. StopsKnownInv => StopsAreKnown BY StopsInvImplies
<1> QED BY <1>1, InitStops, StopsKnownKeeps, PTL DEF Spec

=============================================================================
