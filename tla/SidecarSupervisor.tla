------------------------- MODULE SidecarSupervisor -------------------------
(***************************************************************************)
(* The life cycle of the sidecar processes that run the agent turns:        *)
(* internal/engine/supervisor.go, the turn boundaries its bridges report    *)
(* (sidecar/pi/bridge.js), and what the renderer shows as running           *)
(* (app/src/composables/useConversations.ts).                               *)
(*                                                                         *)
(* Every critical section of Supervisor.mu is one action; a message takes   *)
(* two, one to bind the conversation's kernel and one to dispatch it, and    *)
(* anything may happen between them.  A command is                           *)
(* handled by the sidecar when it is written; what the sidecar answers is   *)
(* read later, one line of stdout at a time, by the reader goroutine of     *)
(* that process (ReadEvent), and its end of file only after the last line   *)
(* (ProcessExits).  Reports to interrupted sessions run on goroutines of    *)
(* their own (DeliverNotice).                                               *)
(***************************************************************************)
EXTENDS SidecarState, Sequences

CONSTANTS
    ConversationKernel,     \* [Sessions -> Kernels], conversation.Kernel in the store
    ConversationWorkspaces, \* [Sessions -> SUBSET Workspaces], where its turns may run
    Researchers,            \* sessions that may own a research run and its workers
    Probes,                 \* session ids of model probes
    Recoverable,            \* sessions with durable background tasks
    Forks,                  \* session ids that exist only once a fork is answered
    MaxTurns,               \* bound: prompts one sidecar holds for one session
    MaxPipe                 \* bound: a sidecar with so many unread lines writes no more

ASSUME ConversationsAssumption ==
    /\ ConversationKernel \in [Sessions -> Kernels]
    /\ ConversationWorkspaces \in [Sessions -> SUBSET Workspaces]
\* The DeepSeek Harness runs no background tasks and no research (sidecar/dsh/bridge.js).
\* Nobody binds the session of a probe (ProbeModel, GenerateText).
ASSUME PiOnlyAssumption ==
    \A x \in Researchers \cup Recoverable \cup Probes : ConversationKernel[x] = KernelPi
\* What is recovered was left behind by an earlier run; the ids of forks are their own.
ASSUME ForksAssumption == (Recoverable \cup Probes) \cap Forks = {}
ASSUME BoundsAssumption == MaxTurns \in Nat /\ MaxPipe \in Nat

VARIABLES
    sup,        \* the Supervisor
    bridge,     \* the sidecars: sessions they know, turns and workers they run, unread stdout
    forks,      \* fork_session requests whose caller is still waiting
    sends,      \* messages whose kernel is bound and which are not dispatched yet
    ui          \* runningIds of the renderer

vars == <<sup, bridge, forks, sends, ui>>

\* Only the sessions that may own a research run have workers.
Events == {e \in [kind: {"activity", "settled", "error", "destroyed", "workers", "workersDone"},
                  session: Sessions] : e.kind = "workers" => e.session \in Researchers}
\* refused: sessions aborted before the sidecar knew them; it drops their next prompt.
Bridge == [known: SUBSET Sessions, turns: [Sessions -> 0..MaxTurns],
           workers: SUBSET Sessions, refused: SUBSET Sessions, out: Seq(Events)]
NewBridge == [known |-> {}, turns |-> [x \in Sessions |-> 0], workers |-> {}, refused |-> {},
              out |-> <<>>]

Init ==
    /\ sup = NewSupervisor
    /\ bridge = [p \in Procs |-> NewBridge]
    /\ forks = {}
    /\ sends = {}
    /\ ui = {}

Live(p) == sup.child[p].life = "live"
Reaches(s, p) == p # NoProc /\ s.child[p].life = "live"
Runs(p, x) == Live(p) /\ bridge[p].turns[x] > 0

Event(kind, x) == [kind |-> kind, session |-> x]
Room(p) == Len(bridge[p].out) < MaxPipe

\* What the sidecars still do once the Supervisor is s: the ones it killed do nothing.
Survivors(s) ==
    [p \in Procs |-> IF s.child[p].life = "live" THEN bridge[p]
                     ELSE [NewBridge EXCEPT !.out = bridge[p].out]]

-----------------------------------------------------------------------------
(* What a sidecar does with a command (sidecar/pi/bridge.js).               *)

Says(b, p, lines) == [b EXCEPT ![p].out = @ \o lines]

\* send_message starts a turn, unless dropSendAfterAbort.
Prompted(b, p, x) ==
    IF x \in b[p].refused \ b[p].known
    THEN Says([b EXCEPT ![p].refused = @ \ {x}], p, <<Event("settled", x)>>)
    ELSE [b EXCEPT ![p].known = @ \cup {x}, ![p].turns[x] = @ + 1]

\* Mutant: nothing settles the turn.
Aborted_Silent(b, p, x) == [b EXCEPT ![p].turns[x] = 0]

\* abort_session settles even a session the sidecar has never heard of.
Aborted(b, p, x) ==
    Says([b EXCEPT ![p].turns[x] = 0, ![p].refused = @ \cup ({x} \ b[p].known)], p,
         IF b[p].turns[x] > 0 THEN <<Event("settled", x), Event("settled", x)>>
                              ELSE <<Event("settled", x)>>)

Destroyed(b, p, x) ==
    Says([b EXCEPT ![p].known = @ \ {x}, ![p].turns[x] = 0, ![p].workers = @ \ {x},
                   ![p].refused = @ \ {x}], p,
         IF b[p].turns[x] > 0 THEN <<Event("settled", x), Event("destroyed", x)>>
                              ELSE <<Event("destroyed", x)>>)

-----------------------------------------------------------------------------
(* Requests of the product.                                                 *)

\* Mutant: the kernel is not the one the conversation was stored with.
BindKernel_Default(s, x) ==
    [s EXCEPT !.kernels[x] = IF @ = NoKernel /\ x \in Sessions THEN KernelPi ELSE @]

\* The first bind wins.
BindKernel(s, x) ==
    [s EXCEPT !.kernels[x] = IF @ = NoKernel THEN ConversationKernel[x] ELSE @]

Sending(x) == \E w \in Workspaces : <<x, w>> \in sends

\* The first half of a message, up to the return of BindSessionKernel; the renderer has
\* shown the conversation as running by then.  The renderer steers one that it shows so,
\* and only when the Supervisor does not know the session any more does the prompt fall
\* through to a message.  Bound: a conversation has one message on the way.
BindSessionKernel(x, w) ==
    /\ x \notin Probes
    /\ w \in ConversationWorkspaces[x]
    /\ x \in Forks => x \in sup.sessions
    /\ x \notin ui \/ x \notin sup.sessions
    /\ ~Sending(x)
    /\ sup' = BindKernel(sup, x)
    /\ sends' = sends \cup {<<x, w>>}
    /\ ui' = ui \cup {x}
    /\ UNCHANGED <<bridge, forks>>

\* A message whose kernel was bound, or one of a probe, whose kernel nobody binds.
Dispatchable(x, w) ==
    \/ <<x, w>> \in sends
    \/ x \in Probes \cap sup.waiters /\ x \notin sup.sessions /\ w \in ConversationWorkspaces[x]

\* The second half: sendMessage, with whatever kernel the session has by now.
SendMessage(x, w) ==
    LET k == KernelOf(sup, x)
        ready == [EnsureKernelProcess(sup, k, w) EXCEPT !.workspaces[x] = w]
        p == ProcessForSession(ready, x)
    IN  /\ Dispatchable(x, w)
        /\ CanEnsure(sup, k, w)
        /\ \/ /\ Reaches(ready, p)
              /\ bridge[p].turns[x] < MaxTurns
              /\ sup' = [ready EXCEPT !.sessions = @ \cup {x}, !.busy = @ \cup {x}]
              /\ bridge' = Prompted(Survivors(ready), p, x)
              /\ UNCHANGED ui
           \/ /\ ~Reaches(ready, p)         \* no process, or stdin is broken
              /\ sup' = ready
              /\ bridge' = Survivors(ready)
              /\ ui' = ui \ {x}
        /\ sends' = sends \ {<<x, w>>}
        /\ UNCHANGED forks

\* SendMessage when the child process cannot be started.
SendMessageSpawnFails(x, w) ==
    LET k == KernelOf(sup, x)
    IN  /\ Dispatchable(x, w)
        /\ NeedsSpawn(sup, k, w)
        /\ sup' = Prepared(sup, k, w)
        /\ bridge' = Survivors(sup')
        /\ ui' = ui \ {x}
        /\ sends' = sends \ {<<x, w>>}
        /\ UNCHANGED forks

\* RefreshBackgroundTasks makes the workspace's sidecar current without sending a turn.
RefreshBackgroundTasks(x, w) ==
    LET k == KernelOf(sup, x)
    IN  /\ x \in Recoverable
        /\ w \in ConversationWorkspaces[x]
        /\ CanEnsure(sup, k, w)
        /\ sup' = EnsureKernelProcess(sup, k, w)
        /\ sup' # sup
        /\ bridge' = Survivors(sup')
        /\ UNCHANGED <<forks, sends, ui>>

\* recoverBackgroundTaskSession: the session is reserved without a workspace.
RecoverSession(x, w) ==
    LET p == sup.process[KernelPi]
    IN  /\ x \in Recoverable \ sup.sessions
        /\ w \in ConversationWorkspaces[x]
        /\ Reaches(sup, p)
        /\ sup.child[p].workspace = w
        /\ sup' = [sup EXCEPT !.sessions = @ \cup {x}, !.waiters = @ \cup {x}]
        /\ bridge' = [bridge EXCEPT ![p].known = @ \cup {x}]
        /\ UNCHANGED <<forks, sends, ui>>

RecoveryEnds(x) ==
    /\ x \in sup.waiters \ Probes
    /\ sup' = [sup EXCEPT !.waiters = @ \ {x}]
    /\ UNCHANGED <<bridge, forks, sends, ui>>

\* The stop button waits for the engine to confirm.
AbortMessage(x) ==
    LET p == ProcessForSession(sup, x)
    IN  /\ x \in ui
        /\ Reaches(sup, p)
        /\ Room(p)
        /\ bridge' = Aborted(bridge, p, x)
        /\ UNCHANGED <<sup, forks, sends, ui>>

\* wakeStuckTurn and forceStopConversation settle a stalled turn without waiting.
ForceStop(x) ==
    LET p == ProcessForSession(sup, x)
    IN  /\ x \in ui
        /\ Reaches(sup, p) => Room(p)
        /\ bridge' = IF Reaches(sup, p) THEN Aborted(bridge, p, x) ELSE bridge
        /\ ui' = ui \ {x}
        /\ UNCHANGED <<sup, forks, sends>>

\* SendRegisteredMessage; ContinueRegisteredMessage of an idle session does the same.
RelayMessage(x) ==
    LET p == ProcessForSession(sup, x)
    IN  /\ x \in sup.sessions \ Probes
        /\ Reaches(sup, p)
        /\ sup' = [sup EXCEPT !.busy = @ \cup {x}]
        /\ \/ /\ x \in bridge[p].known
              /\ bridge[p].turns[x] < MaxTurns
              /\ bridge' = Prompted(bridge, p, x)
              /\ ui' = ui \cup {x}
           \/ /\ x \notin bridge[p].known
              /\ Room(p)
              /\ bridge' = Says(bridge, p, <<Event("error", x)>>)
              /\ UNCHANGED ui
        /\ UNCHANGED <<forks, sends>>

TrackResearchRun(x) ==
    /\ x \in Researchers \cap (sup.busy \ sup.runs)
    /\ sup' = [sup EXCEPT !.runs = @ \cup {x}]
    /\ UNCHANGED <<bridge, forks, sends, ui>>

UntrackResearchRun(x) ==
    /\ x \in sup.runs
    /\ sup' = [sup EXCEPT !.runs = @ \ {x}]
    /\ UNCHANGED <<bridge, forks, sends, ui>>

\* ContinueRegisteredMessage of a busy session queues a follow-up on the running turn.
ContinueBusy(x) ==
    LET p == ProcessForSession(sup, x)
    IN  /\ x \in sup.runs \cap sup.busy \cap sup.sessions
        /\ Reaches(sup, p)
        /\ x \notin bridge[p].known
        /\ Room(p)
        /\ bridge' = Says(bridge, p, <<Event("error", x)>>)
        /\ UNCHANGED <<sup, forks, sends, ui>>

\* disposeSession: DetachSession keeps the conversation, DestroySession deletes it.
Dispose(x) ==
    LET p == ProcessForSession(sup, x)
    IN  /\ Reaches(sup, p) => Room(p)
        /\ bridge' = IF Reaches(sup, p) THEN Destroyed(bridge, p, x) ELSE bridge
        /\ UNCHANGED <<forks, sends>>

Removable(x) == x \notin Probes /\ (x \in Forks => x \in sup.sessions)

DetachSession(x) ==
    /\ Removable(x)
    /\ Dispose(x)
    /\ sup' = ForgetSessions(sup, {x})
    /\ UNCHANGED ui

DestroySession(x) ==
    /\ Removable(x)
    /\ Dispose(x)
    /\ sup' = ForgetSessions(sup, {x})
    /\ ui' = ui \ {x}

\* Ids of probes and forks are never used twice: a model id is, once nothing mentions it.
Fresh(x) ==
    /\ x \notin sup.sessions \cup sup.waiters \cup sup.notices \cup ui
    /\ ~Sending(x)
    /\ \A p \in Procs : /\ x \notin bridge[p].known \cup bridge[p].refused
                        /\ \A i \in DOMAIN bridge[p].out : bridge[p].out[i].session # x

StartProbe(x) ==
    /\ x \in Probes
    /\ Fresh(x)
    /\ sup' = [sup EXCEPT !.waiters = @ \cup {x}]
    /\ UNCHANGED <<bridge, forks, sends, ui>>

\* The deferred clean-up of ProbeModel and GenerateText.
EndProbe(x) ==
    /\ x \in Probes \cap sup.waiters
    /\ Dispose(x)
    /\ sup' = [ForgetSessions(sup, {x}) EXCEPT !.waiters = @ \ {x}]
    /\ UNCHANGED ui

ForkSession(x, y) ==
    /\ x \in sup.sessions \ (Forks \cup Probes)
    /\ y \in Forks
    /\ Fresh(y)
    /\ KernelOf(sup, x) = KernelPi                      \* the other kernel refuses
    /\ ConversationKernel[y] = ConversationKernel[x]    \* cloneConversationForFork
    /\ \A pending \in forks : pending[2] # y
    /\ Reaches(sup, ProcessForSession(sup, x))
    /\ forks' = forks \cup {<<x, y>>}
    /\ UNCHANGED <<sup, bridge, sends, ui>>

\* rememberForkedSessionLocked, when the answer arrives before the timeout.
ForkAnswered(x, y) ==
    /\ <<x, y>> \in forks
    /\ forks' = forks \ {<<x, y>>}
    /\ sup' = [sup EXCEPT !.sessions = @ \cup {y},
                          !.kernels[y] = KernelOf(sup, x),
                          !.workspaces[y] = IF sup.workspaces[x] = NoWorkspace THEN @
                                            ELSE sup.workspaces[x]]
    /\ UNCHANGED <<bridge, sends, ui>>

ForkTimesOut(x, y) ==
    /\ <<x, y>> \in forks
    /\ forks' = forks \ {<<x, y>>}
    /\ UNCHANGED <<sup, bridge, sends, ui>>

-----------------------------------------------------------------------------
(* Credentials and restarts.                                                *)

InvalidateCredentials ==
    /\ \E p \in Tracked(sup) : ~sup.child[p].stale
    /\ sup' = [sup EXCEPT !.child = [p \in Procs |->
                  [sup.child[p] EXCEPT !.stale = @ \/ p \in Tracked(sup)]]]
    /\ UNCHANGED <<bridge, forks, sends, ui>>

StopStale(s) ==
    LET stale(p) == p # NoProc /\ s.child[p].stale
        active == {k \in Kernels : stale(s.process[k])}
        parked == {key \in Keys : stale(s.parked[key])}
    IN  StopRetired(StopParked(StopActive(s, active), parked), {p \in s.retiring : stale(p)})

StopStaleSidecars ==
    /\ \E p \in Tracked(sup) : sup.child[p].stale
    /\ sup' = StopStale(sup)
    /\ bridge' = Survivors(sup')
    /\ UNCHANGED <<forks, sends, ui>>

\* A retiring process stays in the slice until its reader sees the end of file.
Restarted(s, x, p) ==
    LET k == KernelOf(s, x)
        key == <<k, s.child[p].workspace>>
        carried == (s.child[p].retiredTurns \cap s.busy) \cup {x}
        stopped == CASE s.process[k] = p -> StopActive(s, {k})
                     [] s.process[k] # p /\ s.parked[key] = p -> StopParked(s, {key})
                     [] OTHER -> [ForgetSessions(s, carried)
                                     EXCEPT !.notices = @ \cup carried,
                                            !.child[p].retired = TRUE,
                                            !.child[p].life = "dead"]
    IN  [ForgetSessions(stopped, {x}) EXCEPT !.notices = (@ \ {x}) \cup (s.notices \cap {x})]

\* The reader asks for it; the renderer settles the conversation by itself and takes the
\* notice of its own restart for a receipt.
RestartEngine(x) ==
    LET p == ProcessForSession(sup, x)
    IN  /\ x \in ui
        /\ p # NoProc
        /\ sup' = Restarted(sup, x, p)
        /\ bridge' = Survivors(sup')
        /\ ui' = ui \ {x}
        /\ UNCHANGED <<forks, sends>>

-----------------------------------------------------------------------------
(* The sidecars.                                                            *)

\* A turn streams; a line of it marks the conversation as running again.
TurnWorks(p, x) ==
    /\ Runs(p, x)
    /\ Room(p)
    /\ bridge' = Says(bridge, p, <<Event("activity", x)>>)
    /\ UNCHANGED <<sup, forks, sends, ui>>

\* Mutants: a turn ends without a line; one ends that nobody started.
TurnEnds_Silent(p, x, kind) ==
    /\ Runs(p, x)
    /\ kind = "settled"
    /\ bridge' = [bridge EXCEPT ![p].turns[x] = @ - 1]
    /\ UNCHANGED <<sup, forks, sends, ui>>
TurnEnds_Unstarted(p, x, kind) ==
    /\ Live(p)
    /\ Room(p)
    /\ bridge' = Says([bridge EXCEPT ![p].turns[x] = @ - 1], p, <<Event(kind, x)>>)
    /\ UNCHANGED <<sup, forks, sends, ui>>

TurnEnds(p, x, kind) ==
    /\ Runs(p, x)
    /\ Room(p)
    /\ bridge' = Says([bridge EXCEPT ![p].turns[x] = @ - 1], p, <<Event(kind, x)>>)
    /\ UNCHANGED <<sup, forks, sends, ui>>

TurnSettles(p, x) == TurnEnds(p, x, "settled")
TurnFails(p, x) == TurnEnds(p, x, "error")

\* A model call fails: the bridge reports it and aborts the turn, which settles as well.
ModelCallFails(p, x) ==
    /\ Runs(p, x)
    /\ Room(p)
    /\ bridge' = Says([bridge EXCEPT ![p].turns[x] = 0], p,
                      <<Event("error", x), Event("settled", x)>>)
    /\ UNCHANGED <<sup, forks, sends, ui>>

WorkersStart(p, x) ==
    /\ Runs(p, x)
    /\ x \in Researchers \ bridge[p].workers
    /\ Room(p)
    /\ bridge' = Says([bridge EXCEPT ![p].workers = @ \cup {x}], p, <<Event("workers", x)>>)
    /\ UNCHANGED <<sup, forks, sends, ui>>

WorkersEnd(p, x) ==
    /\ Live(p)
    /\ x \in bridge[p].workers
    /\ Room(p)
    /\ bridge' = Says([bridge EXCEPT ![p].workers = @ \ {x}], p, <<Event("workersDone", x)>>)
    /\ UNCHANGED <<sup, forks, sends, ui>>

Crash(p) ==
    /\ Live(p)
    /\ sup' = [sup EXCEPT !.child[p].life = "dead"]
    /\ bridge' = Survivors(sup')
    /\ UNCHANGED <<forks, sends, ui>>

-----------------------------------------------------------------------------
(* The reader goroutines, the report goroutines and the clock.              *)

\* Mutants: a settled turn stays busy; finished workers stay counted.
Observed_KeepsBusy(s, e) ==
    CASE e.kind = "workers" -> [s EXCEPT !.workers = @ \cup {e.session}]
      [] e.kind = "workersDone" -> [s EXCEPT !.workers = @ \ {e.session}]
      [] OTHER -> s
Observed_KeepsWorkers(s, e) ==
    CASE e.kind = "workers" -> [s EXCEPT !.workers = @ \cup {e.session}]
      [] e.kind = "settled" -> [s EXCEPT !.busy = @ \ {e.session}]
      [] OTHER -> s

\* observeRuntimeEvent and observeTurnLifecycle
Observed(s, e) ==
    LET x == {e.session}
    IN  CASE e.kind = "activity" -> s
          [] e.kind = "workers" -> [s EXCEPT !.workers = @ \cup x]
          [] e.kind = "workersDone" -> [s EXCEPT !.workers = @ \ x]
          [] e.kind = "settled" -> [s EXCEPT !.busy = @ \ x]
          [] OTHER -> [s EXCEPT !.busy = @ \ x, !.sessions = @ \ x,
                                !.workers = @ \ x, !.runs = @ \ x]

\* readEvents: one line.  Nothing asks whether the process still serves the session.
ReadEvent(p) ==
    /\ bridge[p].out # <<>>
    /\ LET e == Head(bridge[p].out)
       IN  /\ sup' = Observed(sup, e)
           /\ ui' = CASE e.kind = "activity" -> ui \cup {e.session}
                      [] e.kind \in {"settled", "error"} -> ui \ {e.session}
                      [] OTHER -> ui
    /\ bridge' = [bridge EXCEPT ![p].out = Tail(@)]
    /\ UNCHANGED <<forks, sends>>

\* Mutant: the reader returns without cleaning up.
Exited_CleansNothing(s, p) == [s EXCEPT !.child[p] = NoChild]

\* readEvents after the end of file.
Exited(s, p) ==
    LET c == s.child[p]
        key == <<c.kernel, c.workspace>>
        served == ServedBy(s, c.kernel, {c.workspace, NoWorkspace})
        research == IF c.kernel = KernelPi THEN served \cap (s.workers \cup s.runs) ELSE {}
        carried == {x \in c.retiredTurns \cap s.sessions : KernelOf(s, x) = c.kernel}
        left == CASE p \in s.retiring ->
                       Interrupt(TakeRetiring(s, {p}),
                                 IF c.retired THEN {} ELSE carried \cap Working(s))
                  [] p \notin s.retiring /\ s.process[c.kernel] = p ->
                       [ForgetSessions(s, served) EXCEPT !.process[c.kernel] = NoProc,
                                                         !.notices = @ \cup research]
                  [] p \in ParkedProcs(s) ->
                       Interrupt(TakeParked(s, {key}), ServedBy(s, c.kernel, {c.workspace}))
                  [] OTHER -> s
    IN  [left EXCEPT !.child[p] = NoChild]

\* The renderer drops engine.stopped: the event names no session.
ProcessExits(p) ==
    /\ sup.child[p].life = "dead"
    /\ bridge[p].out = <<>>
    /\ sup' = Exited(sup, p)
    /\ UNCHANGED <<bridge, forks, sends, ui>>

\* reportInterruptedSessions, reportRestartedSessions
DeliverNotice(x) ==
    /\ x \in sup.notices
    /\ sup' = [sup EXCEPT !.notices = @ \ {x}]
    /\ ui' = ui \ {x}
    /\ UNCHANGED <<bridge, forks, sends>>

IdleTimeout(p) ==
    /\ p \in ParkedProcs(sup)
    /\ ~sup.child[p].idle
    /\ \A q \in ParkedProcs(sup) : <<q, p>> \in sup.order => sup.child[q].idle
    /\ sup' = [sup EXCEPT !.child[p].idle = TRUE]
    /\ UNCHANGED <<bridge, forks, sends, ui>>

BusyCeiling(p) ==
    /\ p \in sup.retiring
    /\ ~sup.child[p].pastCeiling
    /\ sup' = [sup EXCEPT !.child[p].pastCeiling = TRUE]
    /\ UNCHANGED <<bridge, forks, sends, ui>>

-----------------------------------------------------------------------------

Binds == \E x \in Sessions, w \in Workspaces : BindSessionKernel(x, w)
Sends == \E x \in Sessions, w \in Workspaces : SendMessage(x, w)
SpawnFailures == \E x \in Sessions, w \in Workspaces : SendMessageSpawnFails(x, w)
Aborts ==
    \E x \in Sessions : \/ AbortMessage(x) \/ ForceStop(x)
                        \/ \E p \in Procs : ModelCallFails(p, x)
Relays == \E x \in Sessions : RelayMessage(x) \/ ContinueBusy(x)
Removals == \E x \in Sessions : DetachSession(x) \/ DestroySession(x)

Research ==
    \/ \E x \in Sessions : TrackResearchRun(x) \/ UntrackResearchRun(x)
    \/ \E p \in Procs, x \in Sessions : WorkersStart(p, x) \/ WorkersEnd(p, x)

Recovery ==
    \E x \in Sessions :
        \/ \E w \in Workspaces : RefreshBackgroundTasks(x, w) \/ RecoverSession(x, w)
        \/ RecoveryEnds(x)

ProbesAndForks ==
    \E x \in Sessions :
        \/ StartProbe(x) \/ EndProbe(x)
        \/ \E y \in Sessions : ForkSession(x, y) \/ ForkAnswered(x, y) \/ ForkTimesOut(x, y)

Rotation == InvalidateCredentials
Ceilings == \E p \in Procs : BusyCeiling(p)
Revocation == StopStaleSidecars
Restarts == \E x \in Sessions : RestartEngine(x)
Streams == \E p \in Procs, x \in Sessions : TurnWorks(p, x)
TurnEndings == \E p \in Procs, x \in Sessions : TurnSettles(p, x) \/ TurnFails(p, x)
Crashes == \E p \in Procs : Crash(p)
Idling == \E p \in Procs : IdleTimeout(p)

Readers ==
    \/ \E p \in Procs : ReadEvent(p) \/ ProcessExits(p)
    \/ \E x \in Sessions : DeliverNotice(x)

Next ==
    \/ Binds \/ Sends \/ SpawnFailures \/ Aborts \/ Relays \/ Removals \/ Research \/ Recovery
    \/ ProbesAndForks \/ Rotation \/ Ceilings \/ Revocation \/ Restarts \/ Streams \/ TurnEndings
    \/ Crashes \/ Idling \/ Readers

Spec == Init /\ [][Next]_vars
-----------------------------------------------------------------------------
(* The process that serves a key, active or parked, and the abstract        *)
(* specification this one implements.                                       *)

ServingProcess(s, key) ==
    LET p == s.process[key[1]]
    IN  IF p # NoProc /\ s.child[p].workspace = key[2] THEN p ELSE s.parked[key]

Abstract == INSTANCE SidecarRotation WITH
    None <- NoProc,
    serving <- [key \in Keys |-> ServingProcess(sup, key)],
    leaving <- sup.retiring,
    revoked <- {p \in Tracked(sup) : sup.child[p].stale}

-----------------------------------------------------------------------------
(* What the properties speak of.                                            *)

ActiveMatches(s) ==
    \A k \in Kernels : LET p == s.process[k] IN
        p # NoProc => s.child[p].life # "none" /\ s.child[p].kernel = k
ParkedMatches(s) ==
    \A key \in Keys : LET p == s.parked[key] IN
        p # NoProc => s.child[p].life # "none" /\ <<s.child[p].kernel, s.child[p].workspace>> = key
RetiringMatches(s) == \A p \in s.retiring : s.child[p].life # "none" /\ s.child[p].stale
PlacesDisjoint(s) ==
    /\ ActiveProcs(s) \cap ParkedProcs(s) = {}
    /\ s.retiring \cap (ActiveProcs(s) \cup ParkedProcs(s)) = {}
NoneLost(s) ==
    \A p \in Procs : s.child[p].life # "none" /\ ~s.child[p].retired => p \in Tracked(s)
AllPlaced(s) == \A p \in Tracked(s) : s.child[p].workspace \in Workspaces
ActiveNotParked(s) ==
    \A k \in Kernels : LET p == s.process[k] IN
        p # NoProc => s.parked[<<k, s.child[p].workspace>>] = NoProc

Accounted(s) ==
    /\ ActiveMatches(s)
    /\ ParkedMatches(s)
    /\ RetiringMatches(s)
    /\ PlacesDisjoint(s)
    /\ NoneLost(s)
    /\ AllPlaced(s)
    /\ ActiveNotParked(s)

\* A line of one of these kinds about x is written and not read yet.
WillBeRead(x, kinds) ==
    \E p \in Procs : \E i \in DOMAIN bridge[p].out :
        bridge[p].out[i].session = x /\ bridge[p].out[i].kind \in kinds

\* The end of file of a sidecar that served x is not read yet.
EndOfFile(x) ==
    \E p \in Tracked(sup) :
        sup.child[p].life = "dead" /\ (Serves(sup, p, x) \/ x \in sup.child[p].retiredTurns)

RunsWorkers(p, x) == Live(p) /\ x \in bridge[p].workers

StartsTurn(p, x) == bridge[p].turns[x] < bridge'[p].turns[x]
\* The step is no dispatch of a message: a relayed turn goes where its conversation is.
Relayed(x) == ~\E w \in Workspaces : SendMessage(x, w)
\* A retiring process that carries x, which was at work before the step (processForSession).
GoesOn(p, x) == p \in sup'.retiring /\ x \in Working(sup) \cap sup'.child[p].retiredTurns
\* A message on the way to x whose kernel was forgotten after it was bound.
Unbound(x) == Sending(x) /\ sup.kernels[x] = NoKernel
\* The step takes x, and what the Supervisor keeps of it, away.
Removes(x) == DetachSession(x) \/ DestroySession(x) \/ RestartEngine(x)
Dies(p) == Live(p) /\ sup'.child[p].life # "live"

-----------------------------------------------------------------------------
(* What must hold.                                                          *)

\* Every field of the Supervisor and of the sidecars stays in its domain.
TypeOK ==
    /\ sup \in Supervisor
    /\ bridge \in [Procs -> Bridge]
    /\ forks \subseteq Sessions \X Sessions
    /\ sends \subseteq Sessions \X Workspaces
    /\ ui \subseteq Sessions

\* No child process is lost and none is held twice: one that was not told to stop is in
\* exactly one place - the slot of its kernel, parked, or retiring - and the place says
\* which kernel and workspace it runs.  A process in none of them is never stopped, and
\* its exit is dropped by readEvents.
SidecarsAccountedFor == Accounted(sup)

\* A (kernel, workspace) pair has one sidecar in rotation: switching back to a workspace
\* takes its parked process instead of starting a second one beside it.
OneSidecarPerWorkspace ==
    \A p, q \in ActiveProcs(sup) \cup ParkedProcs(sup) :
        sup.child[p].kernel = sup.child[q].kernel /\ sup.child[p].workspace = sup.child[q].workspace
            => p = q

\* A conversation the renderer shows as running can still stop running: a sidecar runs a
\* turn of it, or what ends it is under way - a terminal line or the end of file of its
\* sidecar not read yet, or a notice of reportInterruptedSessions not delivered yet - or its
\* message is not dispatched yet.
RunningCanEnd ==
    \A x \in ui : \/ \E p \in Procs : Runs(p, x)
                  \/ Sending(x)
                  \/ WillBeRead(x, {"settled", "error"})
                  \/ EndOfFile(x)
                  \/ x \in sup.notices

\* A session of busySessions has a turn behind it, or the line or the end of file that
\* takes it out is under way: one left there pins its workspace's sidecar for ever.
BusyHasATurn ==
    \A x \in sup.busy : \/ \E p \in Procs : Runs(p, x)
                        \/ WillBeRead(x, {"settled", "error", "destroyed"})
                        \/ EndOfFile(x)

\* Stop, steering and approvals go to the process that runs the turn (processForSession),
\* also while its workspace is parked.
ControlReachesTurn ==
    \A p \in Procs, x \in sup.busy : Runs(p, x) => ProcessForSession(sup, x) = p

\* Detached research workers the Supervisor counts are running, or the line that takes
\* them off the count, or the end of file of their sidecar, is under way.
WorkersAreAccountedFor ==
    \A x \in sup.workers : \/ \E p \in Procs : RunsWorkers(p, x)
                           \/ WillBeRead(x, {"workersDone", "error", "destroyed"})
                           \/ EndOfFile(x)

\* A message starts its turn in the workspace it was sent for, whatever was parked, evicted,
\* taken back or spawned on the way; only a conversation that still works in a retiring
\* process goes on there, and one whose kernel the dispatch forgot is on its own.
TurnsStartInTheirWorkspace ==
    [][\A p \in Procs, x \in Sessions :
          StartsTurn(p, x) /\ KernelOf(sup', x) = ConversationKernel[x] =>
              sup'.child[p].workspace = sup'.workspaces[x] \/ GoesOn(p, x) \/ Relayed(x)]_vars

\* A message sent after InvalidateCredentials never starts its turn on a process that has
\* the old credentials in its environment, with the same exceptions.
TurnsStartOnFreshCredentials ==
    [][\A p \in Procs, x \in Sessions :
          StartsTurn(p, x) /\ KernelOf(sup', x) = ConversationKernel[x] =>
              ~sup'.child[p].stale \/ GoesOn(p, x) \/ Relayed(x)]_vars

\* The two halves of a message fit together: a turn starts on the kernel of its conversation,
\* be it sent or relayed, unless its kernel was forgotten - with a message on the way, or with
\* the sidecar that served a session the Supervisor had - or a retiring process carries it on;
\* and a fork stays on the kernel that answered it.  What was bound for a message on the way
\* is forgotten only with a session the Supervisor had or had at work, or that is removed.
TurnsKeepTheirKernel ==
    [][\A x \in Sessions :
          /\ \A p \in Procs : StartsTurn(p, x) =>
                \/ sup'.child[p].kernel = ConversationKernel[x]
                \/ x \in Forks
                \/ Unbound(x)
                \/ x \in sup.sessions /\ (sup'.kernels[x] = NoKernel \/ GoesOn(p, x))
          /\ Unbound(x)' => \/ Unbound(x)
                            \/ x \in sup.sessions \cup Working(sup)
                            \/ Removes(x)]_vars

\* Parking, eviction, idle reaping and rotation never kill a process that runs a turn, or
\* research workers the Supervisor knows of; past staleSidecarBusyCeiling they may.
SparesWork ==
    \A p \in Procs, x \in Sessions :
        Dies(p) /\ (Runs(p, x) \/ (RunsWorkers(p, x) /\ x \in sup.workers))
            => sup.child[p].pastCeiling

WorkIsSpared == [][SparesWork]_vars

\* A step that parks a sidecar beyond maxParkedSidecars found only busy ones to keep.
ParkedBeyondLimitAreBusy ==
    [][\A k \in Kernels :
          Cardinality(ParkedKeys(sup', k)) > maxParkedSidecars
          /\ Cardinality(ParkedKeys(sup', k)) > Cardinality(ParkedKeys(sup, k))
              => \A key \in ParkedKeys(sup', k) : WorkspaceRunning(sup, k, key[2])]_vars

\* Opening a workspace of one kernel, or restarting it, stops no sidecar of another: the
\* limit and the idle time-out of parked sidecars are counted per kernel.  Only sidecars
\* that hold replaced credentials are stopped across kernels.
KernelsParkApart ==
    [][\A p \in Procs, k \in Kernels :
          Dies(p) /\ ~sup.child[p].stale /\ sup.child[p].kernel # k
              => sup'.process[k] = sup.process[k]]_vars

\* Processes enter and leave rotation the way SidecarRotation allows.
RotatesAsPromised == Abstract!Spec

\* Every session that becomes busy is settled: parking decisions are not stuck with it.
BusyEnds == \A x \in Sessions : x \in sup.busy ~> x \notin sup.busy

\* Every conversation the renderer shows as running stops being shown so.
RunningEnds == \A x \in Sessions : x \in ui ~> x \notin ui

(***************************************************************************)
(* Readers and report goroutines keep going.  A turn ends, whatever else    *)
(* its process does meanwhile, because the bridge bounds its requests        *)
(* (sidecar/pi/bridge-request-budget.js).  The handler of a message goes on  *)
(* from BindSessionKernel to sendMessage.                                    *)
(***************************************************************************)
ReaderFairness ==
    /\ \A p \in Procs : WF_vars(ReadEvent(p)) /\ WF_vars(ProcessExits(p))
    /\ \A x \in Sessions : WF_vars(DeliverNotice(x))
TurnFairness ==
    \A p \in Procs, x \in Sessions : SF_vars(TurnSettles(p, x) \/ TurnFails(p, x))
SendFairness ==
    \A x \in Sessions, w \in Workspaces :
        WF_sends(<<x, w>> \in sends /\ sends' = sends \ {<<x, w>>})
=============================================================================
