--------------------------- MODULE SidecarState ---------------------------
(***************************************************************************)
(* The data of internal/engine/supervisor.go: what the Supervisor guards    *)
(* with its mutex, what it remembers of each child process, and the         *)
(* functions its handlers are built from.  Every operator takes the         *)
(* Supervisor record s and returns a value or the record a "...Locked"      *)
(* function leaves behind; SidecarSupervisor makes one action of each       *)
(* critical section by composing them in the order of the code.             *)
(*                                                                         *)
(* A sidecar process keys on (kernel, workspace).  It is                    *)
(*   - active   : the process its kernel dispatches to,                     *)
(*   - parked   : kept alive for a workspace the user left,                 *)
(*   - retiring : out of rotation since its credentials went stale, kept    *)
(*                while a turn it had started is still running.             *)
(***************************************************************************)
EXTENDS Naturals, FiniteSets

CONSTANTS
    Kernels,            \* engines with a sidecar bridge: Pi and DeepSeek Harness
    KernelPi,           \* the kernel of a session nobody bound (NormalizeKernel)
    Workspaces,         \* working directories
    Sessions,           \* conversation ids
    Procs,              \* identities of live or exited child processes
    NoProc, NoKernel, NoWorkspace,
    maxParkedSidecars   \* per kernel; 3 in the code

ASSUME KernelsAssumption == KernelPi \in Kernels /\ NoKernel \notin Kernels
ASSUME ProcsAssumption == IsFiniteSet(Procs) /\ NoProc \notin Procs
ASSUME WorkspacesAssumption == IsFiniteSet(Workspaces) /\ NoWorkspace \notin Workspaces
ASSUME LimitAssumption == maxParkedSidecars \in Nat

Keys == Kernels \X Workspaces

(***************************************************************************)
(* childProcess.  "none" is an identity no process has; "dead" has exited   *)
(* or been killed and its stdout is not read to the end yet.  idle says it  *)
(* has been parked for sidecarIdleTimeout, pastCeiling that it has been     *)
(* stale for staleSidecarBusyCeiling.                                       *)
(***************************************************************************)
Child == [kernel: Kernels, workspace: Workspaces \cup {NoWorkspace},
          life: {"none", "live", "dead"},
          retired: BOOLEAN, stale: BOOLEAN, idle: BOOLEAN, pastCeiling: BOOLEAN,
          retiredTurns: SUBSET Sessions]

NoChild == [kernel |-> KernelPi, workspace |-> NoWorkspace, life |-> "none",
            retired |-> FALSE, stale |-> FALSE, idle |-> FALSE, pastCeiling |-> FALSE,
            retiredTurns |-> {}]

(***************************************************************************)
(* Supervisor.  order relates two parked processes (the times of parkedAt)  *)
(* or two retiring ones (their places in the slice): <<p, q>> says that p   *)
(* was put there before q.  waiters are the sessions of probeWaiters and    *)
(* recoveryWaiters, notices the sessions a report goroutine has still to    *)
(* tell that their sidecar is gone.                                         *)
(***************************************************************************)
Supervisor == [process: [Kernels -> Procs \cup {NoProc}],
               parked: [Keys -> Procs \cup {NoProc}],
               retiring: SUBSET Procs,
               order: SUBSET (Procs \X Procs),
               child: [Procs -> Child],
               sessions: SUBSET Sessions,
               kernels: [Sessions -> Kernels \cup {NoKernel}],
               workspaces: [Sessions -> Workspaces \cup {NoWorkspace}],
               busy: SUBSET Sessions,
               workers: SUBSET Sessions,
               runs: SUBSET Sessions,
               waiters: SUBSET Sessions,
               notices: SUBSET Sessions]

NewSupervisor == [process |-> [k \in Kernels |-> NoProc],
                  parked |-> [key \in Keys |-> NoProc],
                  retiring |-> {}, order |-> {},
                  child |-> [p \in Procs |-> NoChild],
                  sessions |-> {},
                  kernels |-> [x \in Sessions |-> NoKernel],
                  workspaces |-> [x \in Sessions |-> NoWorkspace],
                  busy |-> {}, workers |-> {}, runs |-> {},
                  waiters |-> {}, notices |-> {}]

-----------------------------------------------------------------------------
(* Where processes are, and whose work they do.                             *)

ActiveProcs(s) == {s.process[k] : k \in Kernels} \ {NoProc}
ParkedProcs(s) == {s.parked[key] : key \in Keys} \ {NoProc}
Tracked(s) == ActiveProcs(s) \cup ParkedProcs(s) \cup s.retiring

KernelOf(s, x) == IF s.kernels[x] = NoKernel THEN KernelPi ELSE s.kernels[x]

\* A turn, a detached research worker or a durable research run.
Working(s) == s.busy \cup s.workers \cup s.runs

\* workspaceHasRunningTurnLocked: a run between two worker batches does not count.
WorkspaceRunning(s, k, w) ==
    \E x \in s.busy \cup s.workers : KernelOf(s, x) = k /\ s.workspaces[x] = w

\* The sessions of a workspace's sidecar; the active one also serves the unbound ones.
ServedBy(s, k, ws) == {x \in s.sessions : KernelOf(s, x) = k /\ s.workspaces[x] \in ws}

\* sidecarServesSessionLocked
Serves(s, p, x) ==
    /\ KernelOf(s, x) = s.child[p].kernel
    /\ \/ s.workspaces[x] = NoWorkspace /\ s.process[s.child[p].kernel] = p
       \/ s.workspaces[x] # NoWorkspace /\ s.workspaces[x] = s.child[p].workspace

\* The member of P that was parked, or retired, before all others; there is one, since
\* order never runs in a circle.
Eldest(s, P) ==
    LET first == {p \in P : \A q \in P : <<q, p>> \notin s.order}
    IN  IF first # {} THEN CHOOSE p \in first : TRUE ELSE CHOOSE p \in P : TRUE

RetiringProcessForSession(s, x) ==
    LET carriers == {p \in s.retiring : x \in s.child[p].retiredTurns}
    IN  IF x \in Working(s) /\ carriers # {} THEN Eldest(s, carriers) ELSE NoProc

\* Mutant: the parked processes are forgotten.
ProcessForSession_ActiveOnly(s, x) ==
    IF RetiringProcessForSession(s, x) # NoProc THEN RetiringProcessForSession(s, x)
    ELSE s.process[KernelOf(s, x)]

ProcessForSession(s, x) ==
    LET k == KernelOf(s, x)
        w == s.workspaces[x]
        retiring == RetiringProcessForSession(s, x)
        reachable == w # NoWorkspace /\ s.parked[<<k, w>>] # NoProc
                       /\ ~s.child[s.parked[<<k, w>>]].stale
    IN  CASE retiring # NoProc -> retiring
          [] retiring = NoProc /\ reachable -> s.parked[<<k, w>>]
          [] OTHER -> s.process[k]

-----------------------------------------------------------------------------
(* Forgetting sessions and stopping processes.                              *)

ForgetSessions(s, X) ==
    [s EXCEPT !.sessions = @ \ X, !.busy = @ \ X, !.workers = @ \ X, !.runs = @ \ X,
              !.kernels = [x \in Sessions |-> IF x \in X THEN NoKernel ELSE @[x]],
              !.workspaces = [x \in Sessions |-> IF x \in X THEN NoWorkspace ELSE @[x]]]

\* Forgets X; those of X that were working are told one by one.
Interrupt(s, X) == [ForgetSessions(s, X) EXCEPT !.notices = @ \cup (X \cap Working(s))]

\* retired = true and stopChildProcess.  Once nothing tracks the process its reader asks
\* for nothing but retired, so the rest of the record is not kept.
Stop(s, P) ==
    [s EXCEPT !.child = [p \in Procs |-> IF p \in P
                                         THEN [NoChild EXCEPT !.retired = TRUE, !.life = "dead"]
                                         ELSE s.child[p]]]

Without(order, P) == {pair \in order : pair[1] \notin P /\ pair[2] \notin P}

\* Takes the processes of keys K out of parked and parkedAt.
TakeParked(s, K) ==
    [s EXCEPT !.parked = [key \in Keys |-> IF key \in K THEN NoProc ELSE @[key]],
              !.order = Without(@, {s.parked[key] : key \in K})]

\* stopParkedLocked, for every key of K.
StopParked(s, K) ==
    LET gone == {x \in s.sessions : <<KernelOf(s, x), s.workspaces[x]>> \in K}
    IN  IF K = {} THEN s
        ELSE Interrupt(Stop(TakeParked(s, K), {s.parked[key] : key \in K}), gone)

\* Mutant: nothing the process served is dropped.
StopActive_StopsOnly(s, K) ==
    Stop([s EXCEPT !.process = [k \in Kernels |-> IF k \in K THEN NoProc ELSE @[k]]],
         {s.process[k] : k \in K})

\* Clears the slots of kernels K and drops what their processes served.
StopActive(s, K) ==
    LET gone == UNION {ServedBy(s, k, {s.child[s.process[k]].workspace, NoWorkspace}) : k \in K}
    IN  Interrupt(Stop([s EXCEPT !.process = [k \in Kernels |-> IF k \in K THEN NoProc ELSE @[k]]],
                       {s.process[k] : k \in K}),
                  gone)

TakeRetiring(s, P) == [s EXCEPT !.retiring = @ \ P, !.order = Without(@, P)]

\* Mutant: the slice is not trimmed.
StopRetired_KeepsRetiring(s, P) ==
    Interrupt(Stop(s, P), (UNION {s.child[p].retiredTurns : p \in P}) \cap Working(s))

\* stopRetiredProcessLocked, for every process of P.
StopRetired(s, P) ==
    LET carried == UNION {s.child[p].retiredTurns : p \in P}
    IN  IF P = {} THEN s
        ELSE Interrupt(Stop(TakeRetiring(s, P), P), carried \cap Working(s))

-----------------------------------------------------------------------------
(* Parking, retiring, reaping.                                              *)

\* Mutant: the key's kernel prefix is ignored.
ParkedKeys_AllKernels(s, k) == {key \in Keys : k \in Kernels /\ s.parked[key] # NoProc}

ParkedKeys(s, k) == {key \in {k} \X Workspaces : s.parked[key] # NoProc}

IdleKeys(s, k) == {key \in ParkedKeys(s, k) : ~WorkspaceRunning(s, k, key[2])}

\* reapParkedLocked: idle ones past sidecarIdleTimeout.
ReapParked(s, k) == StopParked(s, {key \in IdleKeys(s, k) : s.child[s.parked[key]].idle})

\* Mutant: one too many is kept.
EvictOverLimit_OffByOne(s, k) ==
    LET older(key) == {other \in IdleKeys(s, k) : <<s.parked[other], s.parked[key]>> \in s.order}
    IN  StopParked(s, {key \in IdleKeys(s, k) :
            Cardinality(older(key)) + maxParkedSidecars + 1 < Cardinality(ParkedKeys(s, k))})

\* evictParkedOverLimitLocked: the oldest idle ones, until the limit holds or none is idle.
EvictOverLimit(s, k) ==
    LET older(key) == {other \in IdleKeys(s, k) : <<s.parked[other], s.parked[key]>> \in s.order}
    IN  StopParked(s, {key \in IdleKeys(s, k) :
            Cardinality(older(key)) + maxParkedSidecars < Cardinality(ParkedKeys(s, k))})

\* Mutant: the slot of the kernel is not cleared.
ParkCurrent_KeepsSlot(s, k) ==
    LET p == s.process[k]
    IN  EvictOverLimit([s EXCEPT !.parked[<<k, s.child[p].workspace>>] = p], k)

\* parkCurrentLocked
ParkCurrent(s, k) ==
    LET p == s.process[k]
        later == {<<q, p>> : q \in ParkedProcs(s) \ {p}}
    IN  EvictOverLimit([s EXCEPT !.process[k] = NoProc,
                                 !.parked[<<k, s.child[p].workspace>>] = p,
                                 !.order = Without(@, {p}) \cup later,
                                 !.child[p].idle = FALSE], k)

\* runningTurnsLocked
RunningTurns(s, k, ws) ==
    {x \in s.busy \cup (s.sessions \cap (s.workers \cup s.runs)) :
        KernelOf(s, x) = k /\ s.workspaces[x] \in ws}

\* retireStaleProcessLocked, for a process already taken out of its slot or its key; the
\* one that was active also serves the sessions without a workspace.
Retire(s, p, unbound) ==
    LET c == s.child[p]
    IN  [s EXCEPT !.child[p].retiredTurns =
                      RunningTurns(s, c.kernel, {c.workspace} \cup unbound),
                  !.child[p].idle = FALSE,
                  !.retiring = @ \cup {p},
                  !.order = Without(@, {p}) \cup {<<q, p>> : q \in s.retiring}]

\* Mutant: research workers do not count.
ProcessBusy_TurnsOnly(s, p) == s.child[p].retiredTurns \cap s.busy # {}

\* processBusyLocked, for a retiring process.
ProcessBusy(s, p) ==
    \/ s.child[p].retiredTurns \cap Working(s) # {}
    \/ \E x \in s.workers \cup (s.waiters \cap s.sessions) : Serves(s, p, x)

\* reapStaleProcessesLocked walks the slice in order: what it forgets with one process
\* can leave a later one without work.
ReapStale(s) ==
    LET stops[p \in Procs] ==
            LET earlier == {q \in s.retiring : <<q, p>> \in s.order /\ stops[q]}
                gone == (UNION {s.child[q].retiredTurns : q \in earlier}) \cap Working(s)
            IN  s.child[p].pastCeiling \/ ~ProcessBusy(ForgetSessions(s, gone), p)
    IN  StopRetired(s, {p \in s.retiring : stops[p]})

-----------------------------------------------------------------------------
(* ensureKernelProcessLocked.                                               *)

\* The current process is set aside: retired if stale, parked otherwise.
SetAside(s, k) ==
    IF s.process[k] = NoProc THEN s
    ELSE IF s.child[s.process[k]].stale
         THEN Retire([s EXCEPT !.process[k] = NoProc], s.process[k], {NoWorkspace})
         ELSE ParkCurrent(s, k)

\* Mutant: nobody looks for a parked process.
TakeBack_Ignored(s, k, w) == IF k \in Kernels /\ w \in Workspaces THEN s ELSE s

\* A process parked for the workspace comes back, unless it is stale: then it retires.
TakeBack(s, k, w) ==
    LET p == s.parked[<<k, w>>]
        taken == TakeParked(s, {<<k, w>>})
    IN  IF p = NoProc THEN s
        ELSE IF s.child[p].stale THEN Retire(taken, p, {})
        ELSE [taken EXCEPT !.process[k] = p, !.child[p].idle = FALSE]

\* Mutants: any workspace will do; stale or not.
ServesNow_AnyWorkspace(s, k, w) ==
    w \in Workspaces /\ s.process[k] # NoProc /\ ~s.child[s.process[k]].stale
ServesNow_Stale(s, k, w) ==
    s.process[k] # NoProc /\ s.child[s.process[k]].workspace = w

ServesNow(s, k, w) ==
    /\ s.process[k] # NoProc
    /\ s.child[s.process[k]].workspace = w
    /\ ~s.child[s.process[k]].stale

\* Everything before the spawn; the slot is empty afterwards iff one is needed.
Prepared(s, k, w) ==
    LET swept == ReapStale(ReapParked(s, k))
    IN  IF ServesNow(swept, k, w) THEN swept ELSE TakeBack(SetAside(swept, k), k, w)

Unused(s) == {p \in Procs : s.child[p].life = "none"}

Spawn(s, k, w) ==
    LET p == CHOOSE q \in Unused(s) : TRUE
    IN  [s EXCEPT !.process[k] = p,
                  !.child[p] = [NoChild EXCEPT !.kernel = k, !.workspace = w, !.life = "live"]]

NeedsSpawn(s, k, w) == Prepared(s, k, w).process[k] = NoProc

\* Bound: a process id is left when one is needed.
CanEnsure(s, k, w) == NeedsSpawn(s, k, w) => Unused(Prepared(s, k, w)) # {}

EnsureKernelProcess(s, k, w) ==
    IF NeedsSpawn(s, k, w) THEN Spawn(Prepared(s, k, w), k, w) ELSE Prepared(s, k, w)
=============================================================================
