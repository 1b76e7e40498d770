------------------------ MODULE MCSidecarSupervisor ------------------------
(***************************************************************************)
(* The instances TLC checks.  Each specification keeps the actions one      *)
(* question is about: all of them at once exceed what TLC can enumerate     *)
(* with the sessions, workspaces and processes the questions need.  Where   *)
(* one instance serves two questions, an execution is about one of them.    *)
(***************************************************************************)
EXTENDS SidecarSupervisor, TLC

CONSTANTS x1, x2, x3, x4, pi, dsh, wa, wb, wc

VARIABLE question

AllPi == [x \in Sessions |-> pi]
\* A DeepSeek Harness conversation beside those of Pi.
TwoKernels == [x \in Sessions |-> IF x = x1 THEN dsh ELSE pi]

\* A conversation may move to another workspace between turns, or stay in its own.
Anywhere == [x \in Sessions |-> Workspaces]
Apart == [x \in Sessions |-> IF x = x1 THEN {wa} ELSE {wb}]

ProcSymmetry == Permutations(Procs)

Asking(questions) == Init /\ question \in questions
Ask(q, A) == question = q /\ A /\ UNCHANGED question

\* What a question leaves out of an instance it shares.
Absent(x) == x \notin sup'.sessions \cup sup'.waiters \cup ui'
TwoProcesses == \E p \in Procs : sup'.child[p].life = "none"
\* A sidecar writes its next line once the last has been read.
LineByLine == \A p \in Procs : Len(bridge'[p].out) > Len(bridge[p].out) => bridge[p].out = <<>>
\* A sidecar writes its next line once those of all have been read.
OneByOne ==
    \A p, q \in Procs : Len(bridge'[p].out) > Len(bridge[p].out) => bridge[q].out = <<>>
\* A sidecar dies once the end of file of the last one that did so has been read.
DeathByDeath == Crashes => \A p \in Procs : sup.child[p].life = "dead" => sup.child[p].retired
\* A message is dispatched before another one is bound, or before anything else happens.
InTurn == Cardinality(sends') <= 1
AtOnce(x) == \A w \in Workspaces : <<x, w>> \in sends => <<x, w>> \notin sends'
\* The sidecars and the renderer go on meanwhile, the Supervisor does not.
Undisturbed == sends # {} => sends' = {} \/ sup' = sup
\* Who is told that his turn was interrupted is told before he sends the next message.
Punctual == \A x \in sup'.notices : ~Sending(x)'
Keeps(x, workspaces) == sup'.workspaces[x] \in workspaces \cup {NoWorkspace}

Core == Binds \/ Sends \/ TurnEndings \/ Readers

\* More workspaces are opened than may stay parked, while turns stream.
Parking == Core \/ SpawnFailures \/ Idling \/ Streams
\* Credentials are replaced under turns, one of whose conversations moves between workspaces.
Rotating == Core \/ SpawnFailures \/ Rotation
\* What ControlReachesTurn says, of the executions in which credentials are not replaced and no
\* conversation is forked or removed: commands find the turns, also those of parked workspaces.
LiveTurnsAreReached == question \in {"parking", "stops", "crashes"} => ControlReachesTurn

\* Credentials are replaced under the detached research workers of one workspace.
Researching == Core \/ Research \/ Rotation
Opening ==
    \/ Ask("parking", Parking) /\ InTurn
    \/ Ask("credentials", Rotating) /\ Keeps(x1, {wa, wb}) /\ Keeps(x2, {wa}) /\ InTurn
    \/ Ask("workers", Researching) /\ Keeps(x1, {wa}) /\ Keeps(x2, {wa}) /\ TwoProcesses
                            /\ InTurn
OpeningSpec == Asking({"parking", "credentials", "workers"}) /\ [][Opening]_<<vars, question>>

\* Conversations are forked, relayed to, archived and deleted; the fork may move to another
\* workspace.  Beside research runs, where the fork stays with its origin, a sidecar may be two
\* lines ahead of its reader: a follow-up can then reach a fork that is not known there.
Forking ==
    \E x, y \in Sessions : ForkSession(x, y) \/ ForkAnswered(x, y) \/ ForkTimesOut(x, y)
Relaying == Core \/ Relays \/ Forking \/ Removals
Following == Relaying \/ Research
\* Turns are stopped and cut short, tasks recovered, models probed.
Probing == \E x \in Sessions : StartProbe(x) \/ EndProbe(x)
Recovering ==
    \E x \in Sessions : RefreshBackgroundTasks(x, wa) \/ RecoverSession(x, wa) \/ RecoveryEnds(x)
Stopping == Core \/ Aborts \/ Recovering \/ Probing
\* Sidecars of two kernels die by themselves.
Crashing == Core \/ Crashes
Ending ==
    \/ Ask("stops", Stopping) /\ Absent(x1) /\ Absent(x4) /\ Keeps(x2, {wa}) /\ Keeps(x3, {wb})
                             /\ OneByOne /\ Undisturbed
    \/ Ask("crashes", Crashing) /\ Absent(x3) /\ Absent(x4) /\ LineByLine /\ DeathByDeath
                               /\ Punctual /\ AtOnce(x2)
    \/ Ask("relays", Relaying) /\ Absent(x1) /\ Absent(x3) /\ Keeps(x2, {wa}) /\ TwoProcesses
                              /\ LineByLine /\ AtOnce(x2) /\ AtOnce(x4)
    \/ Ask("followups", Following) /\ Absent(x1) /\ Absent(x3) /\ Keeps(x2, {wa}) /\ Keeps(x4, {wa})
                                 /\ AtOnce(x2) /\ AtOnce(x4)
EndingSpec ==
    Asking({"stops", "crashes", "relays", "followups"}) /\ [][Ending]_<<vars, question>>

\* What RunningCanEnd says, of the executions in which no sidecar dies by itself: stopped
\* turns, failed model calls and late lines leave no conversation running for nothing.
StoppedRunsCanEnd == question = "stops" => RunningCanEnd

StoppingSpec == Asking({"stops"}) /\ [][Ask("stops", Stopping)]_<<vars, question>>
CrashSpec == Asking({"crashes"}) /\ [][Ask("crashes", Crashing)]_<<vars, question>>

\* Credentials are replaced and revoked, engines restarted, turns outlast the ceiling;
\* with the fairness the goroutines and the request budget justify.
Settling == \E p \in Procs, x \in Sessions : TurnSettles(p, x)
\* A process id is left for a message on its way.
Startable == \A send \in sends' : CanEnsure(sup', KernelOf(sup', send[1]), send[2])
Revoking ==
    \/ Sends \/ Settling \/ Readers
    \/ sends = {} /\ ((Binds /\ Startable) \/ Rotation \/ Ceilings \/ Revocation \/ Restarts)
FairRevocationSpec ==
    /\ Asking({"revocation"}) /\ [][Ask("revocation", Revoking)]_<<vars, question>>
    /\ ReaderFairness /\ TurnFairness /\ SendFairness
=============================================================================
