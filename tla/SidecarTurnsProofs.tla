------------------------- MODULE SidecarTurnsProofs -------------------------
(***************************************************************************)
(* Turns in executions without the ways in which the code is known to lose   *)
(* one, for any kernels, workspaces, sessions and processes: what works has  *)
(* a turn (BusySteadily), what is shown as running can end (CalmRunsEnd),    *)
(* commands find the process that runs the turn (ControlAtHome), research    *)
(* workers that are counted run (WorkersStaffed), dispatches kill no process *)
(* with work (WorkSpared).  The first invariant follows every session that   *)
(* is at work to the process that houses it: its turn is there, or the line  *)
(* that ends it is under way (Attended); another follows every turn to where *)
(* its session belongs (Seated), a third the workers that are counted, or    *)
(* will be, to those that run (Staff); the last says that all that runs is   *)
(* known to be at work where it runs (Lodged).                               *)
(***************************************************************************)
EXTENDS SidecarServiceProofs

\* Where x is at work: in the process of its kernel and workspace, or in a retiring one that
\* carries it.
Houses(s, p, x) ==
    /\ KernelOf(s, x) = s.child[p].kernel
    /\ \/ p \in InRotation(s) /\ s.workspaces[x] = s.child[p].workspace
       \/ p \in s.retiring /\ x \in s.child[p].retiredTurns

\* Every session the Supervisor has is on the kernel of its conversation.
Matched(s) == \A x \in s.sessions : KernelOf(s, x) = ConversationKernel[x]

\* The sessions that have a turn, or research workers the Supervisor knows of.
AtWork(s) == (s.busy \cup s.workers) \cap s.sessions

\* Where x was at work it is in t, and no process came to life under it.
Holds(s, t, x) ==
    \A p \in Procs :
        Houses(s, p, x) => Houses(t, p, x) /\ (t.child[p].life = "live" => s.child[p].life = "live")

\* All work of t was there in s and is where it was.
Shelters(s, t) ==
    /\ t.busy \subseteq s.busy /\ t.workers \subseteq s.workers
    /\ \A x \in AtWork(t) : Holds(s, t, x)

\* What starts to retire carries sessions of its kernel.
Boards(s, t) ==
    \A p \in t.retiring : \A x \in t.child[p].retiredTurns :
        \/ /\ p \in s.retiring /\ x \in s.child[p].retiredTurns
           /\ t.child[p].kernel = s.child[p].kernel
        \/ x \in s.sessions /\ KernelOf(s, x) = t.child[p].kernel

\* No session is new or moves.
Guards(s, t) ==
    /\ t.sessions \subseteq s.sessions /\ t.busy \subseteq t.sessions
    /\ t.workers \cap s.sessions \subseteq t.sessions
    /\ \A x \in t.sessions : KernelOf(t, x) = KernelOf(s, x) /\ t.workspaces[x] = s.workspaces[x]
    /\ Shelters(s, t) /\ Boards(s, t)

\* Who loses a turn is told.
Tells(s, t) == s.busy \subseteq t.busy \cup t.notices /\ s.notices \subseteq t.notices

\* No process that is held is dead or was told to stop.
AllLive(s) == \A p \in Tracked(s) : s.child[p].life = "live" /\ ~s.child[p].retired

\* What the chains of operators do: all of it.
Cares(s, t) == Guards(s, t) /\ Tells(s, t) /\ (AllLive(s) => AllLive(t))

-----------------------------------------------------------------------------

\* Nothing happens.
LEMMA CaresRefl ==
    ASSUME NEW s, s.busy \subseteq s.sessions
    PROVE  Cares(s, s)
BY DEF Cares, Guards, Tells, Shelters, Holds, Boards

\* One operator after another.
LEMMA GuardsTrans ==
    ASSUME NEW s, NEW t, NEW u, Guards(s, t), Guards(t, u)
    PROVE  Guards(s, u)
<1>1. /\ u.sessions \subseteq s.sessions /\ u.busy \subseteq u.sessions
      /\ u.workers \cap s.sessions \subseteq u.sessions
  BY DEF Guards, Shelters
<1>2. \A x \in u.sessions : KernelOf(u, x) = KernelOf(s, x) /\ u.workspaces[x] = s.workspaces[x]
  BY DEF Guards
<1>3. Shelters(s, u)
  BY DEF Guards, Shelters, Holds, AtWork
<1>4. Boards(s, u)
  <2>1. ASSUME NEW p \in u.retiring, NEW x \in u.child[p].retiredTurns
        PROVE  \/ /\ p \in s.retiring /\ x \in s.child[p].retiredTurns
                  /\ u.child[p].kernel = s.child[p].kernel
               \/ x \in s.sessions /\ KernelOf(s, x) = u.child[p].kernel
    <3>1. CASE /\ p \in t.retiring /\ x \in t.child[p].retiredTurns
               /\ u.child[p].kernel = t.child[p].kernel
      BY <3>1 DEF Guards, Boards
    <3>2. CASE x \in t.sessions /\ KernelOf(t, x) = u.child[p].kernel
      BY <3>2 DEF Guards
    <3>3. QED BY <3>1, <3>2, <2>1 DEF Guards, Boards
  <2>2. QED BY <2>1 DEF Boards
<1>5. QED BY <1>1, <1>2, <1>3, <1>4 DEF Guards

\* What the steps of a chain do, the chain does.
LEMMA CaresTrans ==
    ASSUME NEW s, NEW t, NEW u, Cares(s, t), Cares(t, u)
    PROVE  Cares(s, u)
<1>1. Guards(s, u)
  BY GuardsTrans DEF Cares
<1>2. QED BY <1>1 DEF Cares, Tells

\* Dropped(s, t, X): t has forgotten the sessions X of s; Forgotten tells those that worked.
Dropped(s, t, X) ==
    /\ t.sessions = s.sessions \ X /\ t.busy = s.busy \ X
    /\ t.workers = s.workers \ X /\ t.runs = s.runs \ X
    /\ \A x \in Sessions \ X : t.kernels[x] = s.kernels[x] /\ t.workspaces[x] = s.workspaces[x]
Forgotten(s, t, X) == Dropped(s, t, X) /\ t.notices = s.notices \cup (X \cap Working(s))

\* Sessions are dropped, and nothing else happens to processes.
LEMMA SamePlacesGuards ==
    ASSUME NEW s, NEW t, SamePlaces(s, t),
           t.sessions \subseteq s.sessions, t.busy \subseteq s.busy \cap t.sessions,
           t.workers \subseteq s.workers, t.workers \cap s.sessions \subseteq t.sessions,
           \A x \in t.sessions : KernelOf(t, x) = KernelOf(s, x) /\ t.workspaces[x] = s.workspaces[x]
    PROVE  Guards(s, t)
<1>1. Shelters(s, t)
  BY DEF SamePlaces, Shelters, Holds, AtWork, Houses, InRotation, ActiveProcs, ParkedProcs
<1>2. QED BY <1>1 DEF SamePlaces, Guards, Boards

\* An interrupt forgets the sessions it is given and tells those that worked.
LEMMA InterruptForgotten ==
    ASSUME NEW s \in Supervisor, NEW t \in Supervisor, SameSessions(s, t), t.notices = s.notices,
           NEW X
    PROVE  Forgotten(s, Interrupt(t, X), X)
BY DEF Forgotten, Dropped, Interrupt, ForgetSessions, SameSessions, Supervisor, Working

\* Processes are stopped, and every session of one that has a turn is forgotten.
LEMMA RemovedGuards ==
    ASSUME NEW s, Good(s), s.busy \subseteq s.sessions, NEW t \in Supervisor, NEW P \in SUBSET Procs,
           Removed(s, t, P), NEW X, Dropped(s, t, X),
           \A p \in P, x \in AtWork(s) \ X : ~Houses(s, p, x)
    PROVE  Guards(s, t) /\ (AllLive(s) => AllLive(t))
<1>1. s \in Supervisor /\ \A p \in Procs \ P : t.child[p] = s.child[p]
  BY DEF Good, Removed
<1>2. ActiveProcs(s) \ P \subseteq ActiveProcs(t) /\ ActiveProcs(t) \subseteq ActiveProcs(s) \ P
  BY ProcsAssumption DEF Removed, ActiveProcs
<1>3. ParkedProcs(s) \ P \subseteq ParkedProcs(t) /\ ParkedProcs(t) \subseteq ParkedProcs(s) \ P
  BY ProcsAssumption DEF Removed, ParkedProcs
<1>4. t.retiring = s.retiring \ P /\ t.retiring \subseteq Procs
  BY <1>1 DEF Removed, Supervisor
<1>5. \A x \in t.sessions : KernelOf(t, x) = KernelOf(s, x) /\ t.workspaces[x] = s.workspaces[x]
  BY <1>1 DEF Dropped, KernelOf, Supervisor
<1>6. ASSUME NEW x \in AtWork(t), NEW p \in Procs, Houses(s, p, x)
      PROVE  Houses(t, p, x) /\ (t.child[p].life = "live" => s.child[p].life = "live")
  <2>1. x \in AtWork(s) \ X /\ x \in t.sessions
    BY DEF Dropped, AtWork
  <2>2. p \notin P
    BY <1>6, <2>1
  <2>3. t.child[p] = s.child[p] /\ KernelOf(t, x) = KernelOf(s, x)
    BY <1>1, <1>5, <2>1, <2>2
  <2>4. QED BY <1>2, <1>3, <1>4, <1>5, <1>6, <2>1, <2>2, <2>3 DEF Houses, InRotation
<1>7. Guards(s, t)
  <2>1. Shelters(s, t)
    BY <1>6 DEF Shelters, Holds, Dropped
  <2>2. Boards(s, t)
    BY <1>1, <1>4 DEF Boards
  <2>3. QED BY <1>5, <2>1, <2>2 DEF Guards, Dropped
<1>8. AllLive(s) => AllLive(t)
  <2>1. Tracked(t) \subseteq Tracked(s) \ P
    BY <1>2, <1>3, <1>4 DEF Tracked
  <2>2. Tracked(t) \subseteq Procs
    BY TrackedProcs
  <2>3. QED BY <1>1, <2>1, <2>2 DEF AllLive
<1>9. QED BY <1>7, <1>8

\* Nothing is lost of the sessions at work elsewhere, and the others are told.
LEMMA RemovedCares ==
    ASSUME NEW s, Good(s), s.busy \subseteq s.sessions, NEW t \in Supervisor, NEW P \in SUBSET Procs,
           Removed(s, t, P), NEW X, Forgotten(s, t, X),
           \A p \in P, x \in AtWork(s) \ X : ~Houses(s, p, x)
    PROVE  Cares(s, t)
<1>1. Guards(s, t) /\ (AllLive(s) => AllLive(t))
  BY RemovedGuards DEF Forgotten
<1>2. Tells(s, t)
  BY DEF Tells, Forgotten, Dropped, Working
<1>3. QED BY <1>1, <1>2 DEF Cares

\* stopParkedLocked.
LEMMA StopParkedCares ==
    ASSUME NEW s, Good(s), s.busy \subseteq s.sessions, NEW K \in SUBSET Keys
    PROVE  Cares(s, StopParked(s, K))
<1> DEFINE P == {s.parked[key] : key \in K}
           taken == TakeParked(s, K)
           t == Stop(taken, P)
           gone == {x \in s.sessions : <<KernelOf(s, x), s.workspaces[x]>> \in K}
<1>1. s \in Supervisor /\ P \ {NoProc} \in SUBSET Procs
  BY DEF Good, Supervisor
<1>2. CASE K = {}
  BY <1>2, CaresRefl DEF StopParked
<1>3. CASE K # {}
  <2>1. StopParked(s, K) = Interrupt(t, gone)
    BY <1>3 DEF StopParked
  <2>2. taken \in Supervisor
    BY <1>1, TakeParkedType
  <2>3. t \in Supervisor
    BY <2>2, StopType
  <2>4. SameSessions(s, t) /\ t.notices = s.notices
    BY <1>1 DEF SameSessions, Stop, TakeParked, Supervisor
  <2>5. ASSUME NEW p \in P \ {NoProc}, NEW x \in AtWork(s) \ gone
        PROVE  ~Houses(s, p, x)
    <3>1. PICK key \in K : p = s.parked[key]
      BY <2>5
    <3>2. p \notin s.retiring /\ <<s.child[p].kernel, s.child[p].workspace>> = key
      BY <3>1, <2>5 DEF Good, Accounted, ParkedMatches, PlacesDisjoint, ParkedProcs
    <3>3. x \in s.sessions /\ <<KernelOf(s, x), s.workspaces[x]>> \notin K
      BY <2>5 DEF AtWork
    <3>4. QED BY <3>1, <3>2, <3>3 DEF Houses
  <2>6. Good(StopParked(s, K)) /\ Removed(s, StopParked(s, K), P \ {NoProc})
    BY StopParkedGood
  <2> HIDE DEF t, gone
  <2>7. Forgotten(s, StopParked(s, K), gone)
    BY <1>1, <2>1, <2>3, <2>4, InterruptForgotten
  <2> HIDE DEF P
  <2>8. QED BY <1>1, <2>5, <2>6, <2>7, RemovedCares DEF Good
<1>4. QED BY <1>2, <1>3

\* The active processes of some kernels are stopped.
LEMMA StopActiveCares ==
    ASSUME NEW s, Good(s), s.busy \subseteq s.sessions, NEW K \in SUBSET Kernels
    PROVE  Cares(s, StopActive(s, K))
<1> DEFINE P == {s.process[k] : k \in K}
           taken == [s EXCEPT !.process = [k \in Kernels |-> IF k \in K THEN NoProc ELSE @[k]]]
           t == Stop(taken, P)
           gone == UNION {ServedBy(s, k, {s.child[s.process[k]].workspace, NoWorkspace}) : k \in K}
<1>1. s \in Supervisor /\ P \ {NoProc} \in SUBSET Procs
  BY DEF Good, Supervisor
<1>2. StopActive(s, K) = Interrupt(t, gone)
  BY DEF StopActive
<1>3. taken \in Supervisor
  BY <1>1 DEF Supervisor
<1>4. SameSessions(s, t) /\ t.notices = s.notices
  BY <1>1 DEF SameSessions, Stop, Supervisor
<1>5. t \in Supervisor
  BY <1>3, StopType
<1>6. ASSUME NEW p \in P \ {NoProc}, NEW x \in AtWork(s) \ gone
      PROVE  ~Houses(s, p, x)
  <2>1. PICK k \in K : p = s.process[k]
    BY <1>6
  <2>2. p \notin s.retiring /\ s.child[p].kernel = k
    BY <2>1, <1>6 DEF Good, Accounted, ActiveMatches, PlacesDisjoint, ActiveProcs
  <2>3. x \in s.sessions /\ x \notin ServedBy(s, k, {s.child[p].workspace, NoWorkspace})
    BY <1>6, <2>1 DEF AtWork
  <2>4. QED BY <2>2, <2>3 DEF Houses, ServedBy
<1> HIDE DEF t, gone
<1>7. Forgotten(s, StopActive(s, K), gone)
  BY <1>1, <1>2, <1>4, <1>5, InterruptForgotten
<1>8. Good(StopActive(s, K)) /\ Removed(s, StopActive(s, K), P \ {NoProc})
  BY StopActiveGood
<1> HIDE DEF P
<1>9. QED BY <1>1, <1>6, <1>7, <1>8, RemovedCares DEF Good

\* stopRetiredProcessLocked.
LEMMA StopRetiredCares ==
    ASSUME NEW s, Good(s), s.busy \subseteq s.sessions, NEW P \in SUBSET s.retiring
    PROVE  Cares(s, StopRetired(s, P))
<1> DEFINE taken == TakeRetiring(s, P)
           t == Stop(taken, P)
           gone == (UNION {s.child[p].retiredTurns : p \in P}) \cap Working(s)
<1>1. s \in Supervisor /\ P \in SUBSET Procs
  BY DEF Good, Supervisor
<1>2. CASE P = {}
  BY <1>2, CaresRefl DEF StopRetired
<1>3. CASE P # {}
  <2>1. StopRetired(s, P) = Interrupt(t, gone)
    BY <1>3 DEF StopRetired
  <2>2. taken \in Supervisor
    BY <1>1, TakeRetiringType
  <2>3. t \in Supervisor
    BY <2>2, StopType
  <2>4. SameSessions(s, t) /\ t.notices = s.notices
    BY <1>1 DEF SameSessions, Stop, TakeRetiring, Supervisor
  <2>5. ASSUME NEW p \in P, NEW x \in AtWork(s) \ gone
        PROVE  ~Houses(s, p, x)
    <3>1. p \notin InRotation(s) /\ x \notin s.child[p].retiredTurns
      BY <2>5 DEF Good, Accounted, PlacesDisjoint, InRotation, Working, AtWork
    <3>2. QED BY <3>1 DEF Houses
  <2> HIDE DEF t, gone
  <2>6. Forgotten(s, StopRetired(s, P), gone)
    BY <1>1, <2>1, <2>3, <2>4, InterruptForgotten
  <2>7. Good(StopRetired(s, P)) /\ Removed(s, StopRetired(s, P), P)
    BY StopRetiredGood
  <2>8. QED BY <1>1, <2>5, <2>6, <2>7, RemovedCares DEF Good
<1>4. QED BY <1>2, <1>3

\* reapParkedLocked, evictParkedOverLimitLocked, reapStaleProcessesLocked.
LEMMA ReapsCare ==
    ASSUME NEW s, Good(s), s.busy \subseteq s.sessions, NEW k \in Kernels
    PROVE  Cares(s, ReapParked(s, k)) /\ Cares(s, EvictOverLimit(s, k)) /\ Cares(s, ReapStale(s))
<1>1. PICK P \in SUBSET s.retiring : ReapStale(s) = StopRetired(s, P)
  BY Zenon DEF ReapStale
<1>2. QED BY <1>1, StopsIdle, StopParkedCares, StopRetiredCares

\* What p may carry when it retires: sessions of its kernel, all work of its workspace.
Takes(s, p, turns) ==
    /\ \A x \in turns : x \in s.sessions /\ KernelOf(s, x) = s.child[p].kernel
    /\ \A x \in AtWork(s) : KernelOf(s, x) = s.child[p].kernel
                           /\ s.workspaces[x] = s.child[p].workspace => x \in turns

\* Processes move from place to place, in rotation or out of it.
Moved(s, t) ==
    /\ SameSessions(s, t) /\ t.notices = s.notices /\ Tracked(t) \subseteq Tracked(s)
    /\ \A p \in Procs : /\ t.child[p].kernel = s.child[p].kernel
                        /\ t.child[p].workspace = s.child[p].workspace
                        /\ t.child[p].life = s.child[p].life
                        /\ t.child[p].retired = s.child[p].retired
    /\ \A p \in InRotation(s) \ InRotation(t) :
          p \in t.retiring /\ Takes(s, p, t.child[p].retiredTurns)
    /\ \A p \in s.retiring : p \in t.retiring /\ t.child[p].retiredTurns = s.child[p].retiredTurns
    /\ t.retiring \subseteq s.retiring \cup (InRotation(s) \ InRotation(t))

\* Taking processes from one place to another loses no turn and starts none.
LEMMA MovedCares ==
    ASSUME NEW s, Good(s), s.busy \subseteq s.sessions, NEW t \in Supervisor, Moved(s, t)
    PROVE  Cares(s, t)
<1>1. s \in Supervisor /\ Tracked(t) \subseteq Procs /\ t.retiring \subseteq Procs
  BY TrackedProcs DEF Good, Supervisor
<1>2. \A x : KernelOf(t, x) = KernelOf(s, x) /\ t.workspaces[x] = s.workspaces[x]
  BY DEF KernelOf, SameSessions, Moved
<1>3. ASSUME NEW x \in AtWork(t), NEW p \in Procs, Houses(s, p, x)
      PROVE  Houses(t, p, x) /\ (t.child[p].life = "live" => s.child[p].life = "live")
  <2>1. CASE p \in s.retiring /\ x \in s.child[p].retiredTurns
    BY <1>2, <1>3, <2>1 DEF Houses, Moved
  <2>2. CASE p \in InRotation(s) /\ s.workspaces[x] = s.child[p].workspace /\ p \in InRotation(t)
    BY <1>2, <1>3, <2>2 DEF Houses, Moved
  <2>3. CASE p \in InRotation(s) /\ s.workspaces[x] = s.child[p].workspace /\ p \notin InRotation(t)
    <3>1. x \in AtWork(s) /\ KernelOf(s, x) = s.child[p].kernel
      BY <1>3 DEF AtWork, SameSessions, Houses, Moved
    <3>2. p \in t.retiring /\ x \in t.child[p].retiredTurns
      BY <2>3, <3>1 DEF Moved, Takes
    <3>3. QED BY <1>2, <3>1, <3>2 DEF Houses, Moved
  <2>4. QED BY <1>3, <2>1, <2>2, <2>3 DEF Houses, Moved
<1>4. ASSUME NEW p \in t.retiring, NEW x \in t.child[p].retiredTurns
      PROVE  \/ /\ p \in s.retiring /\ x \in s.child[p].retiredTurns
                /\ t.child[p].kernel = s.child[p].kernel
             \/ x \in s.sessions /\ KernelOf(s, x) = t.child[p].kernel
  <2>1. p \in Procs /\ t.child[p].kernel = s.child[p].kernel
    BY <1>1 DEF Moved
  <2>2. CASE p \in s.retiring
    BY <2>1, <2>2, <1>4 DEF Moved
  <2>3. CASE p \notin s.retiring
    BY <2>1, <2>3, <1>4 DEF Moved, Takes
  <2>4. QED BY <2>2, <2>3
<1>5. Guards(s, t)
  <2>1. Shelters(s, t) /\ Boards(s, t)
    BY <1>3, <1>4 DEF Shelters, Holds, Boards, Moved, SameSessions
  <2>2. QED BY <1>2, <2>1 DEF Guards, SameSessions, Moved
<1>6. Tells(s, t)
  BY DEF Tells, SameSessions, Moved
<1>7. AllLive(s) => AllLive(t)
  BY <1>1 DEF AllLive, Moved
<1>8. QED BY <1>5, <1>6, <1>7 DEF Cares

\* parkCurrentLocked.
LEMMA ParkCurrentCares ==
    ASSUME NEW s, Good(s), s.busy \subseteq s.sessions, NEW k \in Kernels, s.process[k] # NoProc
    PROVE  Cares(s, ParkCurrent(s, k))
<1> DEFINE p == s.process[k]
           t == Put(s, k)
<1>1. s \in Supervisor /\ p \in Procs /\ p \in ActiveProcs(s)
  BY DEF Good, Supervisor, ActiveProcs
<1>2. /\ Good(t) /\ t.retiring = s.retiring
      /\ ActiveProcs(t) = ActiveProcs(s) \ {p}
      /\ ParkedProcs(t) = ParkedProcs(s) \cup {p}
      /\ t.child = [s.child EXCEPT ![p].idle = FALSE]
  BY PutGood
<1>3. SameSessions(s, t) /\ t.notices = s.notices
  BY <1>1 DEF SameSessions, Put, Supervisor
<1>4. ParkCurrent(s, k) = EvictOverLimit(t, k)
  BY DEF ParkCurrent, Put
<1> HIDE DEF t, p
<1>5. \A q \in Procs : /\ t.child[q].kernel = s.child[q].kernel
                       /\ t.child[q].workspace = s.child[q].workspace
                       /\ t.child[q].life = s.child[q].life
                       /\ t.child[q].retired = s.child[q].retired
                       /\ t.child[q].retiredTurns = s.child[q].retiredTurns
  BY <1>1, <1>2 DEF Supervisor, Child
<1>6. InRotation(t) = InRotation(s) /\ Tracked(t) = Tracked(s) /\ s.retiring \subseteq Procs
  BY <1>1, <1>2 DEF InRotation, Tracked, Supervisor
<1>7. Cares(s, t)
  <2>1. Moved(s, t)
    BY <1>2, <1>3, <1>5, <1>6 DEF Moved
  <2>2. QED BY <1>2, <2>1, MovedCares DEF Good
<1>8. Cares(t, EvictOverLimit(t, k))
  BY <1>2, <1>3, ReapsCare DEF SameSessions
<1>9. QED BY <1>4, <1>7, <1>8, CaresTrans

\* retireStaleProcessLocked.
LEMMA RetireCares ==
    ASSUME NEW s, Good(s), s.busy \subseteq s.sessions, NEW p \in InRotation(s), s.child[p].stale,
           NEW t, Leaves(s, t, p), SameSessions(s, t), t.notices = s.notices, NEW unbound
    PROVE  Cares(s, Retire(t, p, unbound))
<1> DEFINE c == t.child[p]
           carried == RunningTurns(t, c.kernel, {c.workspace} \cup unbound)
           u == Retire(t, p, unbound)
<1>1. s \in Supervisor /\ p \in Procs /\ t \in Supervisor /\ t.child = s.child
  BY DEF Good, Supervisor, InRotation, ActiveProcs, ParkedProcs, Leaves
<1>2. Takes(s, p, carried)
  BY <1>1 DEF Takes, RunningTurns, KernelOf, SameSessions, AtWork
<1>3. /\ u.process = t.process /\ u.parked = t.parked
      /\ u.retiring = s.retiring \cup {p}
      /\ u.child = [s.child EXCEPT ![p].retiredTurns = carried, ![p].idle = FALSE]
      /\ SameSessions(s, u) /\ u.notices = s.notices
  BY <1>1 DEF Retire, Leaves, SameSessions, Supervisor
<1>4. Good(u)
  BY RetireGood DEF InRotation
<1> HIDE DEF carried, u
<1>5. \A q \in Procs : /\ u.child[q].kernel = s.child[q].kernel
                       /\ u.child[q].workspace = s.child[q].workspace
                       /\ u.child[q].life = s.child[q].life
                       /\ u.child[q].retired = s.child[q].retired
                       /\ u.child[q].retiredTurns = IF q = p THEN carried ELSE s.child[q].retiredTurns
  BY <1>1, <1>3 DEF Supervisor, Child
<1>6. InRotation(u) = InRotation(s) \ {p}
  <2>1. ActiveProcs(u) = ActiveProcs(s) \ {p}
    BY <1>1, <1>3, ProcsAssumption DEF Leaves, ActiveProcs
  <2>2. ParkedProcs(u) = ParkedProcs(s) \ {p}
    BY <1>1, <1>3, ProcsAssumption DEF Leaves, ParkedProcs
  <2>3. QED BY <2>1, <2>2 DEF InRotation
<1>7. p \notin s.retiring /\ s.retiring \subseteq Procs
  BY <1>1 DEF Good, Accounted, PlacesDisjoint, InRotation, Supervisor
<1>8. Tracked(u) \subseteq Tracked(s)
  BY <1>3, <1>6 DEF Tracked, InRotation
<1>9. u \in Supervisor
  BY <1>4 DEF Good
<1>10. \A q \in InRotation(s) \ InRotation(u) : q \in u.retiring /\ q = p
  BY <1>3, <1>6
<1>11. \A q \in InRotation(s) \ InRotation(u) : Takes(s, q, u.child[q].retiredTurns)
  BY <1>1, <1>2, <1>5, <1>10
<1>12. \A q \in s.retiring : q \in u.retiring /\ u.child[q].retiredTurns = s.child[q].retiredTurns
  BY <1>3, <1>5, <1>7
<1>13. u.retiring \subseteq s.retiring \cup (InRotation(s) \ InRotation(u))
  BY <1>3, <1>6
<1>14. Moved(s, u)
  BY <1>3, <1>5, <1>8, <1>10, <1>11, <1>12, <1>13 DEF Moved
<1>15. QED BY <1>9, <1>14, MovedCares DEF u

\* The current process retires or is parked.
LEMMA SetAsideCares ==
    ASSUME NEW s, Good(s), s.busy \subseteq s.sessions, NEW k \in Kernels
    PROVE  Cares(s, SetAside(s, k))
<1> DEFINE p == s.process[k]
           t == [s EXCEPT !.process[k] = NoProc]
<1>1. CASE p = NoProc
  BY <1>1, CaresRefl DEF SetAside
<1>2. CASE p # NoProc /\ ~s.child[p].stale
  BY <1>2, ParkCurrentCares DEF SetAside
<1>3. CASE p # NoProc /\ s.child[p].stale
  <2>1. s \in Supervisor /\ p \in InRotation(s)
    BY <1>3 DEF Good, ActiveProcs, InRotation
  <2>2. Leaves(s, t, p)
    BY <1>3, SetAsideLeaves
  <2>3. SameSessions(s, t) /\ t.notices = s.notices
    BY <2>1 DEF SameSessions, Supervisor
  <2>4. SetAside(s, k) = Retire(t, p, {NoWorkspace})
    BY <1>3 DEF SetAside
  <2> HIDE DEF t, p
  <2>5. QED BY <1>3, <2>1, <2>2, <2>3, <2>4, RetireCares
<1>4. QED BY <1>1, <1>2, <1>3

\* The parked process of a workspace comes back, or retires.
LEMMA TakeBackCares ==
    ASSUME NEW s, Good(s), s.busy \subseteq s.sessions, NEW k \in Kernels, NEW w \in Workspaces,
           s.process[k] = NoProc
    PROVE  Cares(s, TakeBack(s, k, w))
<1> DEFINE key == <<k, w>>
           p == s.parked[key]
           taken == TakeParked(s, {key})
<1>1. s \in Supervisor /\ key \in Keys
  BY DEF Good, Keys
<1>2. /\ taken \in Supervisor
      /\ taken.process = s.process /\ taken.retiring = s.retiring /\ taken.child = s.child
      /\ taken.parked = [other \in Keys |-> IF other \in {key} THEN NoProc ELSE s.parked[other]]
  BY <1>1, TakeParkedType
<1>3. SameSessions(s, taken) /\ taken.notices = s.notices
  BY <1>1 DEF SameSessions, TakeParked, Supervisor
<1>4. CASE p = NoProc
  BY <1>4, CaresRefl DEF TakeBack
<1>5. ASSUME p # NoProc PROVE p \in Procs /\ p \in ParkedProcs(s) /\ p \in InRotation(s)
  BY <1>1, <1>5 DEF Supervisor, ParkedProcs, InRotation
<1>6. CASE p # NoProc /\ s.child[p].stale
  <2>1. TakeBack(s, k, w) = Retire(taken, p, {})
    BY <1>6 DEF TakeBack
  <2>2. Leaves(s, taken, p)
    BY <1>1, <1>6, TakeBackLeaves
  <2> HIDE DEF taken
  <2> HIDE DEF p
  <2>3. QED BY <1>3, <1>5, <1>6, <2>1, <2>2, RetireCares
<1>7. CASE p # NoProc /\ ~s.child[p].stale
  <2> DEFINE t == [taken EXCEPT !.process[k] = p, !.child[p].idle = FALSE]
  <2>1. TakeBack(s, k, w) = t
    BY <1>7 DEF TakeBack
  <2>2. Good(TakeBack(s, k, w))
    BY TakeBackGood
  <2> HIDE DEF taken
  <2>3. /\ t.process = [s.process EXCEPT ![k] = p] /\ t.parked = taken.parked
        /\ t.retiring = s.retiring /\ t.child = [s.child EXCEPT ![p].idle = FALSE]
        /\ SameSessions(s, t) /\ t.notices = s.notices
    BY <1>2, <1>3 DEF Supervisor, SameSessions
  <2>4. t \in Supervisor
    BY <2>1, <2>2 DEF Good
  <2> HIDE DEF t
  <2>5. \A q \in Procs : /\ t.child[q].kernel = s.child[q].kernel
                         /\ t.child[q].workspace = s.child[q].workspace
                         /\ t.child[q].life = s.child[q].life
                         /\ t.child[q].retired = s.child[q].retired
                         /\ t.child[q].retiredTurns = s.child[q].retiredTurns
    BY <1>1, <2>3 DEF Supervisor, Child
  <2>6. ActiveProcs(t) = ActiveProcs(s) \cup {p}
    <3>1. \A l \in Kernels \ {k} : t.process[l] = s.process[l]
      BY <1>1, <2>3 DEF Supervisor
    <3>2. t.process[k] = p /\ s.process[k] = NoProc
      BY <1>1, <2>3 DEF Supervisor
    <3>3. QED BY <1>7, <3>1, <3>2 DEF ActiveProcs
  <2>7. ParkedProcs(s) \ {p} \subseteq ParkedProcs(t) /\ ParkedProcs(t) \subseteq ParkedProcs(s)
    BY <1>1, <1>2, <2>3 DEF ParkedProcs
  <2> HIDE DEF p
  <2>8. InRotation(t) = InRotation(s) /\ Tracked(t) \subseteq Tracked(s) /\ s.retiring \subseteq Procs
    BY <1>1, <1>5, <1>7, <2>3, <2>6, <2>7 DEF InRotation, Tracked, Supervisor
  <2>9. Cares(s, t)
    <3>1. Moved(s, t)
      BY <2>3, <2>5, <2>8 DEF Moved
    <3>2. QED BY <2>4, <3>1, MovedCares
  <2>10. QED BY <2>1, <2>9
<1>8. QED BY <1>4, <1>6, <1>7

\* Everything ensureKernelProcessLocked does before it starts a process.
LEMMA PreparedCares ==
    ASSUME NEW s, Good(s), s.busy \subseteq s.sessions, NEW k \in Kernels, NEW w \in Workspaces
    PROVE  Cares(s, Prepared(s, k, w))
<1> DEFINE reaped == ReapParked(s, k)
           swept == ReapStale(reaped)
           aside == SetAside(swept, k)
           back == TakeBack(aside, k, w)
<1>1. Good(reaped) /\ Cares(s, reaped) /\ reaped.busy \subseteq reaped.sessions
  BY ReapParkedGood, ReapsCare DEF Cares, Guards
<1> HIDE DEF reaped
<1>2. Good(swept) /\ Cares(reaped, swept) /\ swept.busy \subseteq swept.sessions
  BY <1>1, ReapStaleGood, ReapsCare DEF Cares, Guards
<1> HIDE DEF swept
<1>3. Good(aside) /\ Cares(swept, aside) /\ aside.busy \subseteq aside.sessions
      /\ aside.process[k] = NoProc
  BY <1>2, SetAsideGood, SetAsideCares DEF Cares, Guards
<1> HIDE DEF aside
<1>4. Cares(aside, back)
  BY <1>3, TakeBackCares
<1>5. Prepared(s, k, w) = swept \/ Prepared(s, k, w) = back
  BY DEF Prepared, swept, reaped, aside
<1> HIDE DEF back
<1>6. QED BY <1>1, <1>2, <1>3, <1>4, <1>5, CaresTrans

\* ensureKernelProcessLocked: the process that is started had no work.
LEMMA SpawnCares ==
    ASSUME NEW s, Good(s), s.busy \subseteq s.sessions, NEW k \in Kernels, NEW w \in Workspaces,
           s.process[k] = NoProc, s.parked[<<k, w>>] = NoProc, Unused(s) # {}
    PROVE  Cares(s, Spawn(s, k, w))
<1> DEFINE p == CHOOSE q \in Unused(s) : TRUE
           t == Spawn(s, k, w)
<1>1. s \in Supervisor /\ p \in Unused(s)
  BY DEF Good
<1> HIDE DEF p
<1>2. p \in Procs /\ p \notin Tracked(s)
  BY <1>1 DEF Good, Accounted, ActiveMatches, ParkedMatches, RetiringMatches, Tracked, ActiveProcs,
     ParkedProcs, Unused
<1>3. /\ t.process = [s.process EXCEPT ![k] = p] /\ t.parked = s.parked
      /\ t.retiring = s.retiring /\ SameSessions(s, t) /\ t.notices = s.notices
      /\ t.child = [s.child EXCEPT ![p] = [NoChild EXCEPT !.kernel = k, !.workspace = w,
                                                          !.life = "live"]]
  BY <1>1, <1>2 DEF Spawn, SameSessions, Supervisor, p
<1> HIDE DEF t
<1>4. /\ t.child[p].life = "live" /\ ~t.child[p].retired
      /\ \A q \in Procs \ {p} : t.child[q] = s.child[q]
  BY <1>1, <1>2, <1>3 DEF Supervisor, NoChild
<1>5. ActiveProcs(t) = ActiveProcs(s) \cup {p}
  <2>1. \A l \in Kernels \ {k} : t.process[l] = s.process[l]
    BY <1>1, <1>3 DEF Supervisor
  <2>2. t.process[k] = p /\ p # NoProc
    BY <1>1, <1>2, <1>3, ProcsAssumption DEF Supervisor
  <2>3. QED BY <2>1, <2>2 DEF ActiveProcs
<1>6. ParkedProcs(t) = ParkedProcs(s) /\ Tracked(s) \subseteq Procs /\ s.retiring \subseteq Procs
  BY <1>1, <1>3, TrackedProcs DEF ParkedProcs, Supervisor
<1>7. \A x : KernelOf(t, x) = KernelOf(s, x) /\ t.workspaces[x] = s.workspaces[x]
  BY <1>3 DEF KernelOf, SameSessions
<1>8. \A x : \A q \in Procs : Houses(s, q, x) => Houses(t, q, x) /\ t.child[q] = s.child[q]
  BY <1>2, <1>3, <1>4, <1>5, <1>6, <1>7 DEF Houses, InRotation, Tracked
<1>9. \A q \in t.retiring : q \in s.retiring /\ t.child[q] = s.child[q]
  BY <1>2, <1>3, <1>4, <1>6 DEF Tracked
<1>10. Guards(s, t)
  <2>1. Shelters(s, t) /\ Boards(s, t)
    BY <1>3, <1>8, <1>9 DEF Shelters, Holds, Boards, SameSessions
  <2>2. QED BY <1>3, <1>7, <2>1 DEF Guards, SameSessions
<1>11. AllLive(s) => AllLive(t)
  BY <1>2, <1>3, <1>4, <1>5, <1>6 DEF AllLive, Tracked
<1>12. QED BY <1>3, <1>10, <1>11 DEF Cares, Tells, SameSessions, t

\* Finding or starting the process of a kernel and workspace cares for all sessions.
LEMMA EnsureCares ==
    ASSUME NEW s, Good(s), s.busy \subseteq s.sessions, NEW k \in Kernels, NEW w \in Workspaces,
           CanEnsure(s, k, w)
    PROVE  Cares(s, EnsureKernelProcess(s, k, w))
<1> DEFINE t == Prepared(s, k, w)
<1>1. Good(t) /\ (t.process[k] = NoProc => t.parked[<<k, w>>] = NoProc) /\ Cares(s, t)
  BY PreparedGood, PreparedCares
<1>2. t.busy \subseteq t.sessions
  BY <1>1 DEF Cares, Guards
<1>3. CASE NeedsSpawn(s, k, w)
  <2>1. t.process[k] = NoProc /\ Unused(t) # {}
    BY <1>3 DEF NeedsSpawn, CanEnsure
  <2>2. EnsureKernelProcess(s, k, w) = Spawn(t, k, w)
    BY <1>3 DEF EnsureKernelProcess
  <2> HIDE DEF t
  <2>3. QED BY <1>1, <1>2, <2>1, <2>2, SpawnCares, CaresTrans
<1>4. CASE ~NeedsSpawn(s, k, w)
  BY <1>1, <1>4 DEF EnsureKernelProcess
<1>5. QED BY <1>3, <1>4

\* StopStaleSidecars.
LEMMA StopStaleCares ==
    ASSUME NEW s, Good(s), s.busy \subseteq s.sessions
    PROVE  Cares(s, StopStale(s))
<1> DEFINE stale(p) == p # NoProc /\ s.child[p].stale
           active == {k \in Kernels : stale(s.process[k])}
           parked == {key \in Keys : stale(s.parked[key])}
           t == StopActive(s, active)
           u == StopParked(t, parked)
           P == {p \in s.retiring : stale(p)}
<1>1. Good(t) /\ Cares(s, t) /\ t.retiring = s.retiring
  <2>1. Good(t) /\ Removed(s, t, {s.process[k] : k \in active} \ {NoProc}) /\ Cares(s, t)
    BY StopActiveGood, StopActiveCares
  <2>2. \A p \in {s.process[k] : k \in active} \ {NoProc} : p \notin s.retiring
    BY DEF Good, Accounted, PlacesDisjoint, ActiveProcs
  <2> HIDE DEF t, active
  <2>3. QED BY <2>1, <2>2 DEF Removed
<1>2. t.busy \subseteq t.sessions
  BY <1>1 DEF Cares, Guards
<1> HIDE DEF t
<1>3. Good(u) /\ Cares(t, u) /\ u.retiring = t.retiring
  <2>1. Good(u) /\ Removed(t, u, {t.parked[key] : key \in parked} \ {NoProc}) /\ Cares(t, u)
    BY <1>1, <1>2, StopParkedGood, StopParkedCares
  <2>2. \A p \in {t.parked[key] : key \in parked} \ {NoProc} : p \notin t.retiring
    BY <1>1 DEF Good, Accounted, PlacesDisjoint, ParkedProcs
  <2> HIDE DEF u, parked
  <2>3. QED BY <2>1, <2>2 DEF Removed
<1>4. u.busy \subseteq u.sessions /\ P \in SUBSET u.retiring
  BY <1>1, <1>3 DEF Cares, Guards
<1>5. StopStale(s) = StopRetired(u, P)
  BY DEF StopStale, t, u
<1> HIDE DEF u, P
<1>6. QED BY <1>1, <1>3, <1>4, <1>5, StopRetiredCares, CaresTrans

-----------------------------------------------------------------------------
(* Restarts and the end of processes.                                       *)

\* RestartEngine of a process in rotation: it is stopped, and x is told by the renderer itself.
LEMMA RestartedGuards ==
    ASSUME NEW s, Good(s), s.busy \subseteq s.sessions, NEW x \in Sessions,
           NEW p \in InRotation(s), p = ProcessForSession(s, x)
    PROVE  /\ Guards(s, Restarted(s, x, p)) /\ (AllLive(s) => AllLive(Restarted(s, x, p)))
           /\ s.busy \cup s.notices \subseteq
                 Restarted(s, x, p).busy \cup Restarted(s, x, p).notices \cup {x}
<1> DEFINE k == KernelOf(s, x)
           key == <<k, s.child[p].workspace>>
           stopped == IF s.process[k] = p THEN StopActive(s, {k}) ELSE StopParked(s, {key})
           t == ForgetSessions(stopped, {x})
           u == [t EXCEPT !.notices = (@ \ {x}) \cup (s.notices \cap {x})]
<1>1. s \in Supervisor /\ p \in Procs /\ p \notin s.retiring /\ k \in Kernels /\ p # NoProc
  BY KernelOfType DEF Good, Supervisor, Accounted, PlacesDisjoint, InRotation, ActiveProcs, ParkedProcs
<1>2. key \in Keys
  BY <1>1 DEF Good, Accounted, AllPlaced, Tracked, InRotation, Keys
<1>3. s.process[k] = p \/ s.parked[key] = p
  <2> DEFINE w == s.workspaces[x]
             r == RetiringProcessForSession(s, x)
  <2>1. r # NoProc => r \in s.retiring
    BY DEF RetiringProcessForSession, Eldest
  <2>2. \/ p = r
        \/ w # NoWorkspace /\ p = s.parked[<<k, w>>]
        \/ p = s.process[k]
    BY DEF ProcessForSession
  <2>3. w # NoWorkspace => <<k, w>> \in Keys
    BY <1>1 DEF Supervisor, Keys
  <2>4. w # NoWorkspace /\ p = s.parked[<<k, w>>] => w = s.child[p].workspace
    BY <1>1, <2>3 DEF Good, Accounted, ParkedMatches
  <2> HIDE DEF r, w
  <2>5. QED BY <1>1, <2>1, <2>2, <2>4
<1>4. Restarted(s, x, p) = u
  BY <1>3 DEF Restarted
<1>5. Good(stopped) /\ Cares(s, stopped)
  BY <1>1, <1>2, StopActiveGood, StopParkedGood, StopActiveCares, StopParkedCares
<1> HIDE DEF stopped
<1>6. SamePlaces(stopped, t) /\ t \in Supervisor
  BY <1>5, ForgetSessionsType DEF Good
<1>7. SamePlaces(stopped, u) /\ u.sessions = t.sessions /\ u.busy = t.busy /\ u.workers = t.workers
      /\ u.kernels = t.kernels /\ u.workspaces = t.workspaces
      /\ t.notices \ {x} \subseteq u.notices
  BY <1>6 DEF SamePlaces, Supervisor
<1>8. /\ t.sessions = stopped.sessions \ {x} /\ t.busy = stopped.busy \ {x}
      /\ t.workers = stopped.workers \ {x} /\ t.notices = stopped.notices
      /\ \A y \in Sessions \ {x} :
            t.kernels[y] = stopped.kernels[y] /\ t.workspaces[y] = stopped.workspaces[y]
  BY <1>5 DEF ForgetSessions, Good, Supervisor
<1>9. stopped.sessions \subseteq Sessions /\ stopped.busy \subseteq stopped.sessions
  BY <1>5 DEF Good, Supervisor, Cares, Guards
<1> HIDE DEF t, u
<1>10. Guards(stopped, u)
  BY <1>7, <1>8, <1>9, SamePlacesGuards DEF KernelOf
<1>11. AllLive(stopped) => AllLive(u)
  BY <1>7 DEF AllLive, Tracked, ActiveProcs, ParkedProcs, SamePlaces
<1>12. QED BY <1>4, <1>5, <1>7, <1>8, <1>10, <1>11, GuardsTrans DEF Cares, Tells

\* The clean-up of readEvents: what the process housed is forgotten.
LEMMA ExitedGuards ==
    ASSUME NEW s, Good(s), s.busy \subseteq s.sessions, NEW p \in Procs,
           p \in s.retiring => ~s.child[p].retired
    PROVE  Guards(s, Exited(s, p)) /\ (p \notin Tracked(s) => Cares(s, Exited(s, p)))
<1> DEFINE c == s.child[p]
           key == <<c.kernel, c.workspace>>
           served == ServedBy(s, c.kernel, {c.workspace, NoWorkspace})
           research == IF c.kernel = KernelPi THEN served \cap (s.workers \cup s.runs) ELSE {}
           carried == {x \in c.retiredTurns \cap s.sessions : KernelOf(s, x) = c.kernel}
           retired == Interrupt(TakeRetiring(s, {p}),
                                IF c.retired THEN {} ELSE carried \cap Working(s))
           cleared == [ForgetSessions(s, served) EXCEPT !.process[c.kernel] = NoProc,
                                                        !.notices = @ \cup research]
           parkedGone == ServedBy(s, c.kernel, {c.workspace})
           dropped == Interrupt(TakeParked(s, {key}), parkedGone)
           X == IF p \in s.retiring THEN carried \cap Working(s)
                ELSE IF s.process[c.kernel] = p THEN served
                ELSE IF p \in ParkedProcs(s) THEN parkedGone ELSE {}
           left == IF p \in s.retiring THEN retired
                   ELSE IF s.process[c.kernel] = p THEN cleared
                   ELSE IF p \in ParkedProcs(s) THEN dropped ELSE s
           t == Exited(s, p)
<1>1. s \in Supervisor /\ Accounted(s) /\ c.kernel \in Kernels /\ p # NoProc
  BY ProcsAssumption DEF Good, Supervisor, Child
<1>2. PlacesDisjoint(s)
  BY <1>1 DEF Accounted
<1>3. t = [left EXCEPT !.child[p] = NoChild]
  <2> HIDE DEF retired, cleared, dropped
  <2>1. s.process[c.kernel] = p => p \in ActiveProcs(s)
    BY <1>1 DEF ActiveProcs
  <2>2. QED BY <1>2, <2>1 DEF Exited, PlacesDisjoint, retired, cleared, dropped
<1>4. Dropped(s, left, X) /\ (p \notin Tracked(s) => left = s)
  <2>1. CASE p \in s.retiring
    <3>1. TakeRetiring(s, {p}) \in Supervisor /\ SameSessions(s, TakeRetiring(s, {p}))
          /\ TakeRetiring(s, {p}).notices = s.notices
      BY <1>1, TakeRetiringType DEF TakeRetiring, SameSessions, Supervisor
    <3> HIDE DEF carried
    <3>2. Forgotten(s, retired, carried \cap Working(s))
      BY <1>1, <2>1, <3>1, InterruptForgotten
    <3>3. QED BY <2>1, <3>2 DEF Forgotten, Tracked
  <2>2. CASE p \notin s.retiring /\ s.process[c.kernel] = p
    <3>1. p \in Tracked(s)
      BY <1>1, <2>2 DEF Tracked, ActiveProcs
    <3> HIDE DEF served, research
    <3>2. Dropped(s, cleared, served)
      BY <1>1 DEF Dropped, ForgetSessions, Supervisor
    <3>3. QED BY <2>2, <3>1, <3>2
  <2>3. CASE p \notin s.retiring /\ s.process[c.kernel] # p /\ p \in ParkedProcs(s)
    <3>1. TakeParked(s, {key}) \in Supervisor /\ SameSessions(s, TakeParked(s, {key}))
          /\ TakeParked(s, {key}).notices = s.notices
      BY <1>1, TakeParkedType DEF TakeParked, SameSessions, Supervisor
    <3> HIDE DEF parkedGone
    <3>2. Forgotten(s, dropped, parkedGone)
      BY <1>1, <3>1, InterruptForgotten
    <3>3. QED BY <2>3, <3>2 DEF Forgotten, Tracked
  <2>4. CASE p \notin s.retiring /\ s.process[c.kernel] # p /\ p \notin ParkedProcs(s)
    BY <2>4 DEF Dropped
  <2>5. QED BY <2>1, <2>2, <2>3, <2>4
<1>5. ASSUME NEW x \in AtWork(s) \ X
      PROVE  ~Houses(s, p, x)
  <2>1. SUFFICES ASSUME Houses(s, p, x) PROVE FALSE
    OBVIOUS
  <2>2. x \in s.sessions /\ KernelOf(s, x) = c.kernel
    BY <2>1 DEF Houses, AtWork
  <2>3. CASE p \in s.retiring
    <3>1. x \in c.retiredTurns
      BY <1>2, <2>1, <2>3 DEF Houses, PlacesDisjoint, InRotation
    <3>2. QED BY <2>2, <2>3, <3>1, <1>5 DEF Working, AtWork
  <2>4. CASE p \notin s.retiring
    <3>1. p \in InRotation(s) /\ s.workspaces[x] = c.workspace
      BY <2>1, <2>4 DEF Houses
    <3>2. x \in served /\ x \in parkedGone
      BY <2>2, <3>1 DEF ServedBy
    <3>3. p \in ActiveProcs(s) => s.process[c.kernel] = p
      BY <1>1 DEF ActiveProcs, Accounted, ActiveMatches
    <3> HIDE DEF served, parkedGone
    <3>4. QED BY <1>5, <2>4, <3>1, <3>2, <3>3 DEF InRotation
  <2>5. QED BY <2>3, <2>4
<1>6. Good(t) /\ Removed(s, t, {p})
  BY ExitedGood
<1> HIDE DEF left, X, t
<1>7. t.sessions = left.sessions /\ t.busy = left.busy /\ t.workers = left.workers
      /\ t.runs = left.runs /\ t.kernels = left.kernels /\ t.workspaces = left.workspaces
      /\ t.notices = left.notices
  BY <1>3
<1>8. Dropped(s, t, X)
  BY <1>4, <1>7 DEF Dropped
<1>9. t \in Supervisor
  BY <1>6 DEF Good
<1>10. Guards(s, t) /\ (AllLive(s) => AllLive(t))
  BY <1>5, <1>6, <1>8, <1>9, RemovedGuards
<1>11. p \notin Tracked(s) => Tells(s, t)
  BY <1>4, <1>7 DEF Tells
<1>12. QED BY <1>10, <1>11 DEF Cares, t

-----------------------------------------------------------------------------
(* What the sidecars owe.                                                   *)

\* The lines that take a session off busySessions.
Ends == {"settled", "error", "destroyed"}

\* A line about x: among some, and not read yet.
Spoken(lines, x, kinds) == \E i \in DOMAIN lines : lines[i].session = x /\ lines[i].kind \in kinds
Written(b, x, kinds) == \E p \in Procs : Spoken(b[p].out, x, kinds)

\* p is where x is at work, and runs a turn of it or is dead.
Minds(s, b, p, x) == Houses(s, p, x) /\ (s.child[p].life = "live" => b[p].turns[x] > 0)
Tended(s, b, x) == (\E p \in Procs : Minds(s, b, p, x)) \/ Written(b, x, Ends)
Attended(s, b) == \A x \in s.busy : Tended(s, b, x)

\* No turn of x in a process that lives in t ends from b to c without a line.
Listens(b, t, c, x) ==
    \/ Written(c, x, Ends)
    \/ /\ ~Written(b, x, Ends)
       /\ \A p \in Procs : t.child[p].life = "live" /\ b[p].turns[x] > 0 => c[p].turns[x] > 0

\* What the sidecars do step by step, they do in the end.
LEMMA ListensTrans ==
    ASSUME NEW t, NEW b, NEW c, NEW d, NEW x, Listens(b, t, c, x), Listens(c, t, d, x)
    PROVE  Listens(b, t, d, x)
BY DEF Listens

\* A turn stays tended when its process stays and its sidecar goes on.
LEMMA TendedStep ==
    ASSUME NEW s, NEW t, NEW b, NEW c, NEW x, Tended(s, b, x), Listens(b, t, c, x), Holds(s, t, x)
    PROVE  Tended(t, c, x)
BY DEF Tended, Minds, Listens, Holds

\* Turns stay attended when they are sheltered and their sidecars go on.
LEMMA AttendedStep ==
    ASSUME NEW s, NEW t, NEW b, NEW c, Attended(s, b), t.busy \subseteq s.busy,
           \A x \in t.busy : Holds(s, t, x) /\ Listens(b, t, c, x)
    PROVE  Attended(t, c)
BY TendedStep DEF Attended

\* A process that has a place was started.
LEMMA TrackedStarted ==
    ASSUME NEW s, Good(s), NEW p \in Tracked(s)
    PROVE  p \in Procs /\ s.child[p].life \in {"live", "dead"} /\ s.child[p].workspace \in Workspaces
<1>1. p \in Procs /\ s \in Supervisor
  BY TrackedProcs DEF Good
<1>2. s.child[p].life # "none" /\ s.child[p].life \in {"none", "live", "dead"}
  BY <1>1 DEF Good, Accounted, ActiveMatches, ParkedMatches, RetiringMatches, Tracked, ActiveProcs,
     ParkedProcs, Supervisor, Child
<1>3. QED BY <1>1, <1>2 DEF Good, Accounted, AllPlaced

\* What the invariant is for.
LEMMA AttendedHasATurn ==
    ASSUME Good(sup), Attended(sup, bridge)
    PROVE  BusyHasATurn
<1> SUFFICES ASSUME NEW x \in sup.busy
             PROVE  \/ \E p \in Procs : Runs(p, x)
                    \/ WillBeRead(x, {"settled", "error", "destroyed"})
                    \/ EndOfFile(x)
  BY DEF BusyHasATurn
<1>1. CASE Written(bridge, x, Ends)
  BY <1>1 DEF Written, Spoken, Ends, WillBeRead
<1>2. ASSUME NEW p \in Procs, Minds(sup, bridge, p, x)
      PROVE  Runs(p, x) \/ EndOfFile(x)
  <2>1. p \in Tracked(sup)
    BY <1>2 DEF Minds, Houses, InRotation, Tracked
  <2>2. sup.child[p].life \in {"live", "dead"} /\ sup.child[p].workspace # NoWorkspace
    BY <2>1, TrackedStarted, WorkspacesAssumption
  <2>3. CASE sup.child[p].life = "live"
    BY <1>2, <2>3 DEF Minds, Runs, Live
  <2>4. CASE sup.child[p].life = "dead"
    BY <1>2, <2>1, <2>2, <2>4 DEF Minds, Houses, Serves, EndOfFile
  <2>5. QED BY <2>2, <2>3, <2>4
<1>3. QED BY <1>1, <1>2 DEF Attended, Tended

\* Wrote(b, c, p, lines): from b to c only the sidecar p did something, and wrote the lines.
Wrote(b, c, p, lines) ==
    /\ b \in Bridges /\ c \in Bridges /\ p \in Procs /\ lines \in Seq(Events)
    /\ c[p].out = b[p].out \o lines
    /\ \A q \in Procs \ {p} : c[q] = b[q]

\* What two sequences of lines speak of is what either speaks of.
LEMMA SpokenAppend ==
    ASSUME NEW out \in Seq(Events), NEW lines \in Seq(Events), NEW x, NEW kinds
    PROVE  Spoken(out \o lines, x, kinds) <=> Spoken(out, x, kinds) \/ Spoken(lines, x, kinds)
<1>1. ASSUME NEW i \in DOMAIN out
      PROVE  i \in DOMAIN (out \o lines) /\ (out \o lines)[i] = out[i]
  OBVIOUS
<1>2. ASSUME NEW i \in DOMAIN lines
      PROVE  /\ Len(out) + i \in DOMAIN (out \o lines)
             /\ (out \o lines)[Len(out) + i] = lines[i]
  OBVIOUS
<1>3. ASSUME NEW i \in DOMAIN (out \o lines)
      PROVE  \/ i \in DOMAIN out /\ (out \o lines)[i] = out[i]
             \/ i - Len(out) \in DOMAIN lines /\ (out \o lines)[i] = lines[i - Len(out)]
  OBVIOUS
<1>4. QED BY <1>1, <1>2, <1>3 DEF Spoken

\* What is written after lines were added was written before or is one of them.
LEMMA WroteWritten ==
    ASSUME NEW b, NEW c, NEW p, NEW lines, Wrote(b, c, p, lines), NEW x, NEW kinds
    PROVE  Written(c, x, kinds) <=> Written(b, x, kinds) \/ Spoken(lines, x, kinds)
<1>1. b[p].out \in Seq(Events) /\ lines \in Seq(Events) /\ p \in Procs
  BY BridgeParts DEF Wrote
<1>2. Spoken(c[p].out, x, kinds) <=> Spoken(b[p].out, x, kinds) \/ Spoken(lines, x, kinds)
  BY <1>1, SpokenAppend DEF Wrote
<1>3. QED BY <1>1, <1>2 DEF Wrote, Written

\* Who ends a turn says so.
LEMMA WroteListens ==
    ASSUME NEW b, NEW c, NEW p, NEW lines, Wrote(b, c, p, lines), NEW t, NEW x,
           (b[p].turns[x] > 0 => c[p].turns[x] > 0) \/ Spoken(lines, x, Ends)
    PROVE  Listens(b, t, c, x)
BY WroteWritten DEF Listens, Wrote

\* Those who are killed write nothing more, and what they wrote is read.
LEMMA SurvivorsListen ==
    ASSUME NEW t, bridge \in Bridges, NEW x
    PROVE  Listens(bridge, t, Survivors(t), x)
<1>1. \A p \in Procs : /\ Survivors(t)[p].out = bridge[p].out
                       /\ t.child[p].life = "live" => Survivors(t)[p] = bridge[p]
  BY BridgeParts DEF Survivors, NewBridge
<1>2. QED BY <1>1 DEF Listens, Written

\* Does(b, c, p, x, lines): what the sidecar p did from b to c was about x.
Does(b, c, p, x, lines) ==
    /\ Wrote(b, c, p, lines)
    /\ \A i \in DOMAIN lines : lines[i].session = x
    /\ \A y \in Sessions \ {x} : /\ c[p].turns[y] = b[p].turns[y]
                                 /\ y \in c[p].workers <=> y \in b[p].workers

\* The lines that take workers off the count.
Dismissals == {"workersDone", "error", "destroyed"}

\* Workers of x run when p has written the lines, or p says that they have ended.
Reports(b, c, p, x, lines) ==
    \/ x \in c[p].workers
    \/ /\ x \in b[p].workers => Spoken(lines, x, Dismissals)
       /\ \A i \in DOMAIN lines : lines[i].kind # "workers"

\* A sidecar that says something has written it and done nothing else.
LEMMA SaysWrote ==
    ASSUME NEW b \in Bridges, NEW d \in Bridges, NEW p \in Procs, NEW lines \in Seq(Events),
           d[p].out = b[p].out, \A q \in Procs \ {p} : d[q] = b[q]
    PROVE  /\ Wrote(b, Says(d, p, lines), p, lines)
           /\ Says(d, p, lines)[p].turns = d[p].turns
           /\ Says(d, p, lines)[p].workers = d[p].workers
           /\ Says(d, p, lines)[p].refused = d[p].refused
           /\ Says(d, p, lines)[p].known = d[p].known
<1>1. Says(d, p, lines) \in Bridges
  BY SaysType
<1>2. /\ Says(d, p, lines)[p].out = d[p].out \o lines
      /\ Says(d, p, lines)[p].turns = d[p].turns
      /\ Says(d, p, lines)[p].workers = d[p].workers
      /\ Says(d, p, lines)[p].refused = d[p].refused
      /\ Says(d, p, lines)[p].known = d[p].known
      /\ \A q \in Procs \ {p} : Says(d, p, lines)[q] = d[q]
  BY DEF Says, Bridges, Bridge
<1>3. QED BY <1>1, <1>2 DEF Wrote

\* One line, about x.
LEMMA OneLine ==
    ASSUME NEW x \in Sessions,
           NEW kind \in {"activity", "settled", "error", "destroyed", "workers", "workersDone"},
           kind = "workers" => x \in Researchers
    PROVE  /\ <<Event(kind, x)>> \in Seq(Events)
           /\ \A i \in DOMAIN <<Event(kind, x)>> : <<Event(kind, x)>>[i] = Event(kind, x)
           /\ \A y, kinds : Spoken(<<Event(kind, x)>>, y, kinds) <=> y = x /\ kind \in kinds
<1>1. Event(kind, x) \in Events
  BY EventType
<1>2. QED BY <1>1 DEF Spoken, Event

\* Two lines about x.
LEMMA TwoLines ==
    ASSUME NEW x \in Sessions, NEW kind \in {"settled", "error"}, NEW last \in {"settled", "destroyed"},
           NEW lines, lines = <<Event(kind, x), Event(last, x)>>
    PROVE  /\ lines \in Seq(Events) /\ Spoken(lines, x, {last})
           /\ lines[1] = Event(kind, x) /\ lines[2] = Event(last, x) /\ Len(lines) = 2
           /\ \A i \in DOMAIN lines : lines[i].session = x /\ lines[i].kind \in {kind, last}
<1>1. Event(kind, x) \in Events /\ Event(last, x) \in Events
  BY EventType
<1>2. Event(last, x).kind = last /\ Event(kind, x).kind = kind
      /\ Event(last, x).session = x /\ Event(kind, x).session = x
  BY DEF Event
<1> HIDE DEF Event
<1>3. lines \in Seq(Events) /\ DOMAIN lines = {1, 2} /\ Len(lines) = 2
  BY <1>1
<1>4. lines[1] = Event(kind, x) /\ lines[2] = Event(last, x)
  OBVIOUS
<1>5. QED BY <1>2, <1>3, <1>4 DEF Spoken

\* A sidecar writes a line about x.
LEMMA SaysDoes ==
    ASSUME NEW b \in Bridges, NEW p \in Procs, NEW x \in Sessions,
           NEW kind \in {"activity", "settled", "error", "destroyed", "workers", "workersDone"},
           kind = "workers" => x \in Researchers
    PROVE  LET c == Says(b, p, <<Event(kind, x)>>)
           IN  Does(b, c, p, x, <<Event(kind, x)>>) /\ c[p].turns = b[p].turns
               /\ c[p].workers = b[p].workers /\ c[p].refused = b[p].refused
<1> DEFINE lines == <<Event(kind, x)>>
<1>1. lines \in Seq(Events) /\ \A i \in DOMAIN lines : lines[i] = Event(kind, x)
  BY OneLine
<1> HIDE DEF lines
<1>2. Wrote(b, Says(b, p, lines), p, lines) /\ Says(b, p, lines)[p].turns = b[p].turns
      /\ Says(b, p, lines)[p].workers = b[p].workers
      /\ Says(b, p, lines)[p].refused = b[p].refused
  BY <1>1, SaysWrote
<1>3. QED BY <1>1, <1>2 DEF Does, Event, lines

\* send_message.
LEMMA PromptedDoes ==
    ASSUME NEW b \in Bridges, NEW p \in Procs, NEW x \in Sessions, b[p].turns[x] < MaxTurns
    PROVE  \E lines :
              /\ Does(b, Prompted(b, p, x), p, x, lines)
              /\ Prompted(b, p, x)[p].workers = b[p].workers
              /\ \/ /\ x \in b[p].refused \ b[p].known /\ lines = <<Event("settled", x)>>
                    /\ Prompted(b, p, x)[p].turns[x] = b[p].turns[x]
                 \/ /\ x \notin b[p].refused \ b[p].known /\ lines = <<>>
                    /\ Prompted(b, p, x)[p].turns[x] = b[p].turns[x] + 1
                    /\ Prompted(b, p, x)[p].refused = b[p].refused
<1>1. CASE x \in b[p].refused \ b[p].known
  <2> DEFINE d == [b EXCEPT ![p].refused = @ \ {x}]
             lines == <<Event("settled", x)>>
  <2>1. d \in Bridges
    <3>1. b[p].refused \ {x} \in SUBSET Sessions
      BY BridgeParts
    <3>2. QED BY <3>1, RefusedType
  <2>2. /\ d[p].out = b[p].out /\ d[p].turns = b[p].turns /\ d[p].workers = b[p].workers
        /\ \A q \in Procs \ {p} : d[q] = b[q]
    BY DEF Bridges, Bridge
  <2>3. lines \in Seq(Events) /\ \A i \in DOMAIN lines : lines[i] = Event("settled", x)
    BY OneLine
  <2>4. Prompted(b, p, x) = Says(d, p, lines)
    BY <1>1 DEF Prompted
  <2> HIDE DEF d, lines
  <2>5. Wrote(b, Says(d, p, lines), p, lines) /\ Says(d, p, lines)[p].turns = d[p].turns
        /\ Says(d, p, lines)[p].workers = d[p].workers
    BY <2>1, <2>2, <2>3, SaysWrote
  <2>6. Does(b, Prompted(b, p, x), p, x, lines)
    BY <2>2, <2>3, <2>4, <2>5 DEF Does, Event
  <2>7. QED BY <1>1, <2>2, <2>4, <2>5, <2>6 DEF lines
<1>2. CASE x \notin b[p].refused \ b[p].known
  <2> DEFINE c == [b EXCEPT ![p].known = @ \cup {x}, ![p].turns[x] = @ + 1]
  <2>1. Prompted(b, p, x) = c
    BY <1>2 DEF Prompted
  <2>2. /\ c[p].out = b[p].out /\ c[p].workers = b[p].workers /\ c[p].refused = b[p].refused
        /\ c[p].turns = [b[p].turns EXCEPT ![x] = @ + 1]
        /\ \A q \in Procs \ {p} : c[q] = b[q]
    BY DEF Bridges, Bridge
  <2>3. b[p].turns \in [Sessions -> 0..MaxTurns] /\ b[p].out \in Seq(Events)
    BY BridgeParts
  <2>4. c[p].turns[x] = b[p].turns[x] + 1 /\ \A y \in Sessions \ {x} : c[p].turns[y] = b[p].turns[y]
    BY <2>2, <2>3
  <2>5. c[p].out = b[p].out \o <<>> /\ <<>> \in Seq(Events)
    BY <2>2, <2>3
  <2>6. c \in Bridges
    BY <2>1, PromptedType
  <2> HIDE DEF c
  <2>7. Does(b, c, p, x, <<>>)
    BY <2>2, <2>4, <2>5, <2>6 DEF Does, Wrote
  <2>8. QED BY <1>2, <2>1, <2>2, <2>4, <2>7
<1>3. QED BY <1>1, <1>2

\* abort_session and destroy_session end the turn of x with a line.
LEMMA AbortedDoes ==
    ASSUME NEW b \in Bridges, NEW p \in Procs, NEW x \in Sessions
    PROVE  \E lines : /\ Does(b, Aborted(b, p, x), p, x, lines) /\ Spoken(lines, x, {"settled"})
                      /\ \A i \in DOMAIN lines : lines[i].kind = "settled"
                      /\ Aborted(b, p, x)[p].workers = b[p].workers
<1> DEFINE d == [b EXCEPT ![p].turns[x] = 0, ![p].refused = @ \cup ({x} \ b[p].known)]
           lines == IF b[p].turns[x] > 0 THEN <<Event("settled", x), Event("settled", x)>>
                                         ELSE <<Event("settled", x)>>
<1>1. d \in Bridges
  <2> DEFINE a == [b EXCEPT ![p].turns[x] = 0]
  <2>1. a \in Bridges
    BY TurnsType, BoundsAssumption
  <2>2. a[p].refused = b[p].refused
    BY DEF Bridges, Bridge
  <2>3. a[p].refused \cup ({x} \ b[p].known) \in SUBSET Sessions
    BY <2>2, BridgeParts
  <2>4. d = [a EXCEPT ![p].refused = a[p].refused \cup ({x} \ b[p].known)]
    OBVIOUS
  <2> HIDE DEF a, d
  <2>5. QED BY <2>1, <2>3, <2>4, RefusedType
<1>2. /\ d[p].out = b[p].out /\ d[p].turns = [b[p].turns EXCEPT ![x] = 0]
      /\ d[p].workers = b[p].workers /\ \A q \in Procs \ {p} : d[q] = b[q]
  BY DEF Bridges, Bridge
<1>3. b[p].turns \in [Sessions -> 0..MaxTurns]
  BY BridgeParts
<1>4. lines \in Seq(Events) /\ Spoken(lines, x, {"settled"})
      /\ \A i \in DOMAIN lines : lines[i].session = x /\ lines[i].kind = "settled"
  <2>1. CASE lines = <<Event("settled", x), Event("settled", x)>>
    <3> HIDE DEF lines
    <3>1. /\ lines \in Seq(Events) /\ Spoken(lines, x, {"settled"})
          /\ \A i \in DOMAIN lines : lines[i].session = x /\ lines[i].kind \in {"settled", "settled"}
      BY <2>1, TwoLines
    <3>2. QED BY <3>1
  <2>2. CASE lines = <<Event("settled", x)>>
    <3> HIDE DEF lines
    <3>1. /\ lines \in Seq(Events) /\ Spoken(lines, x, {"settled"})
          /\ \A i \in DOMAIN lines : lines[i] = Event("settled", x)
      BY <2>2, OneLine
    <3>2. QED BY <3>1 DEF Event
  <2>3. QED BY <2>1, <2>2
<1>5. Aborted(b, p, x) = Says(d, p, lines)
  BY DEF Aborted
<1> HIDE DEF d, lines
<1>6. Wrote(b, Says(d, p, lines), p, lines) /\ Says(d, p, lines)[p].turns = d[p].turns
      /\ Says(d, p, lines)[p].workers = d[p].workers
  BY <1>1, <1>2, <1>4, SaysWrote
<1>7. Does(b, Says(d, p, lines), p, x, lines)
  BY <1>2, <1>3, <1>4, <1>6 DEF Does
<1>8. QED BY <1>2, <1>4, <1>5, <1>6, <1>7

\* A destroyed conversation is reported, and a turn of it is settled.
LEMMA DestroyedDoes ==
    ASSUME NEW b \in Bridges, NEW p \in Procs, NEW x \in Sessions
    PROVE  \E lines : /\ Does(b, Destroyed(b, p, x), p, x, lines)
                      /\ Spoken(lines, x, {"destroyed"})
                      /\ \A i \in DOMAIN lines : lines[i].kind \in {"settled", "destroyed"}
<1> DEFINE c == [b[p] EXCEPT !.known = @ \ {x}, !.turns[x] = 0, !.workers = @ \ {x},
                             !.refused = @ \ {x}]
           d == [b EXCEPT ![p].known = @ \ {x}, ![p].turns[x] = 0, ![p].workers = @ \ {x},
                          ![p].refused = @ \ {x}]
           lines == IF b[p].turns[x] > 0 THEN <<Event("settled", x), Event("destroyed", x)>>
                                         ELSE <<Event("destroyed", x)>>
<1>1. b[p] \in Bridge /\ b[p].turns \in [Sessions -> 0..MaxTurns]
  BY DEF Bridges, Bridge
<1>2. c \in Bridge
  <2>1. [b[p].turns EXCEPT ![x] = 0] \in [Sessions -> 0..MaxTurns]
    BY <1>1, BoundsAssumption
  <2>2. QED BY <1>1, <2>1 DEF Bridge
<1>3. d = [b EXCEPT ![p] = c]
  BY DEF Bridges, Bridge
<1>4. d \in Bridges
  BY <1>2, <1>3 DEF Bridges
<1>5. /\ d[p].out = b[p].out /\ d[p].turns = [b[p].turns EXCEPT ![x] = 0]
      /\ d[p].workers = b[p].workers \ {x} /\ \A q \in Procs \ {p} : d[q] = b[q]
  BY DEF Bridges, Bridge
<1>6. lines \in Seq(Events) /\ Spoken(lines, x, {"destroyed"})
      /\ \A i \in DOMAIN lines : lines[i].session = x /\ lines[i].kind \in {"settled", "destroyed"}
  <2>1. CASE lines = <<Event("settled", x), Event("destroyed", x)>>
    <3> HIDE DEF lines
    <3>1. /\ lines \in Seq(Events) /\ Spoken(lines, x, {"destroyed"})
          /\ \A i \in DOMAIN lines : lines[i].session = x /\ lines[i].kind \in {"settled", "destroyed"}
      BY <2>1, TwoLines
    <3>2. QED BY <3>1
  <2>2. CASE lines = <<Event("destroyed", x)>>
    <3> HIDE DEF lines
    <3>1. /\ lines \in Seq(Events) /\ Spoken(lines, x, {"destroyed"})
          /\ \A i \in DOMAIN lines : lines[i] = Event("destroyed", x)
      BY <2>2, OneLine
    <3>2. QED BY <3>1 DEF Event
  <2>3. QED BY <2>1, <2>2
<1>7. Destroyed(b, p, x) = Says(d, p, lines)
  BY DEF Destroyed
<1> HIDE DEF d, lines
<1>8. Wrote(b, Says(d, p, lines), p, lines) /\ Says(d, p, lines)[p].turns = d[p].turns
      /\ Says(d, p, lines)[p].workers = d[p].workers
  BY <1>4, <1>5, <1>6, SaysWrote
<1>9. Does(b, Says(d, p, lines), p, x, lines)
  BY <1>1, <1>5, <1>6, <1>8 DEF Does
<1>10. QED BY <1>6, <1>7, <1>9

\* A turn of x ends, or some.
LEMMA EndingDoes ==
    ASSUME NEW b \in Bridges, NEW p \in Procs, NEW x \in Sessions, NEW n \in 0..MaxTurns,
           NEW lines \in Seq(Events), \A i \in DOMAIN lines : lines[i].session = x
    PROVE  LET c == Says([b EXCEPT ![p].turns[x] = n], p, lines)
           IN  Does(b, c, p, x, lines) /\ c[p].turns[x] = n /\ c[p].workers = b[p].workers
               /\ c[p].refused = b[p].refused
<1> DEFINE d == [b EXCEPT ![p].turns[x] = n]
<1>1. d \in Bridges
  BY TurnsType
<1>2. /\ d[p].out = b[p].out /\ d[p].turns = [b[p].turns EXCEPT ![x] = n]
      /\ d[p].workers = b[p].workers /\ d[p].refused = b[p].refused
      /\ \A q \in Procs \ {p} : d[q] = b[q]
  BY DEF Bridges, Bridge
<1>3. b[p].turns \in [Sessions -> 0..MaxTurns]
  BY BridgeParts
<1> HIDE DEF d
<1>4. Wrote(b, Says(d, p, lines), p, lines) /\ Says(d, p, lines)[p].turns = d[p].turns
      /\ Says(d, p, lines)[p].workers = d[p].workers
      /\ Says(d, p, lines)[p].refused = d[p].refused
  BY <1>1, <1>2, SaysWrote
<1>5. Does(b, Says(d, p, lines), p, x, lines)
  BY <1>2, <1>3, <1>4 DEF Does
<1>6. Says(d, p, lines)[p].turns[x] = n
  BY <1>2, <1>3, <1>4
<1>7. QED BY <1>2, <1>4, <1>5, <1>6 DEF d

\* Workers of x start or end.
LEMMA WorkersDo ==
    ASSUME NEW b \in Bridges, NEW p \in Procs, NEW x \in Sessions, NEW W \in SUBSET Sessions,
           \A y \in Sessions \ {x} : y \in W <=> y \in b[p].workers,
           NEW lines \in Seq(Events), \A i \in DOMAIN lines : lines[i].session = x
    PROVE  LET c == Says([b EXCEPT ![p].workers = W], p, lines)
           IN  Does(b, c, p, x, lines) /\ c[p].turns = b[p].turns /\ c[p].workers = W
               /\ c[p].refused = b[p].refused
<1> DEFINE d == [b EXCEPT ![p].workers = W]
<1>1. d \in Bridges
  BY WorkersType
<1>2. /\ d[p].out = b[p].out /\ d[p].turns = b[p].turns
      /\ d[p].workers = W /\ d[p].refused = b[p].refused
      /\ \A q \in Procs \ {p} : d[q] = b[q]
  BY DEF Bridges, Bridge
<1> HIDE DEF d
<1>3. Wrote(b, Says(d, p, lines), p, lines) /\ Says(d, p, lines)[p].turns = d[p].turns
      /\ Says(d, p, lines)[p].workers = d[p].workers
      /\ Says(d, p, lines)[p].refused = d[p].refused
  BY <1>1, <1>2, SaysWrote
<1>4. Does(b, Says(d, p, lines), p, x, lines)
  BY <1>2, <1>3 DEF Does
<1>5. QED BY <1>2, <1>3, <1>4 DEF d

-----------------------------------------------------------------------------
(* Steady executions: every action may happen, but no session loses the     *)
(* kernel of its conversation, no process that retires is restarted, and    *)
(* no message is relayed to a process its conversation does not work in.    *)

Carried(s) ==
    \A p \in s.retiring : \A x \in s.child[p].retiredTurns : s.child[p].kernel = ConversationKernel[x]
Unrestarted(s) == \A p \in s.retiring : ~s.child[p].retired
RelaysInPlace ==
    \A p \in Procs, x \in Sessions : RelayMessage(x) /\ StartsTurn(p, x) => Houses(sup', p, x)

Steady == Next /\ Matched(sup') /\ Unrestarted(sup') /\ RelaysInPlace
SteadySpec == Init /\ [][Steady]_vars

\* A fork that is asked for is unknown, no message to it is on the way, and it is asked for once.
ForksPending ==
    /\ \A fork \in forks : fork[2] \in Forks \ sup.sessions /\ ~Sending(fork[2])
    /\ \A fork, other \in forks : fork[2] = other[2] => fork = other

SteadyInv ==
    /\ KernelInv /\ Matched(sup) /\ Unrestarted(sup) /\ Carried(sup)
    /\ Attended(sup, bridge) /\ ForksPending

\* What the invariant of steady executions has of the earlier ones.
LEMMA SteadyParts ==
    ASSUME SteadyInv
    PROVE  /\ IInv /\ Good(sup) /\ sup \in Supervisor /\ bridge \in Bridges
           /\ sup.busy \subseteq sup.sessions /\ sup.sessions \subseteq Sessions
BY IInvParts DEF SteadyInv, KernelInv, OnKernel, SessionsKept, Good, Supervisor

\* What every action that guards sessions keeps.
LEMMA GuardsCarried ==
    ASSUME NEW s, NEW t, Matched(s), Carried(s), Guards(s, t)
    PROVE  Carried(t)
BY DEF Matched, Carried, Guards, Boards

\* An action that guards sessions keeps turns attended if the sidecars go on.
LEMMA GuardsSteady ==
    ASSUME SteadyInv, Guards(sup, sup'),
           \A x \in sup'.busy : Listens(bridge, sup', bridge', x)
    PROVE  Carried(sup') /\ Attended(sup', bridge')
<1>1. sup'.busy \subseteq sup.busy /\ \A x \in sup'.busy : Holds(sup, sup', x)
  BY DEF Guards, Shelters, AtWork
<1>2. QED BY <1>1, GuardsCarried, AttendedStep DEF SteadyInv

\* So it does if sidecars are only lost, with the processes that are gone.
LEMMA SurvivorsSteady ==
    ASSUME SteadyInv, Guards(sup, sup'), bridge' = Survivors(sup')
    PROVE  Carried(sup') /\ Attended(sup', bridge')
BY SurvivorsListen, GuardsSteady, SteadyParts

\* Commands and turns: the Supervisor stays as it is.
LEMMA DoesSteady ==
    ASSUME SteadyInv, sup' = sup, NEW p \in Procs, NEW x \in Sessions, NEW lines,
           Does(bridge, bridge', p, x, lines),
           (bridge[p].turns[x] > 0 => bridge'[p].turns[x] > 0) \/ Spoken(lines, x, Ends)
    PROVE  Carried(sup') /\ Attended(sup', bridge')
<1>1. \A y \in sup'.busy : Listens(bridge, sup', bridge', y)
  <2>1. sup'.busy \subseteq Sessions
    BY SteadyParts
  <2>2. QED BY <2>1, WroteListens DEF Does
<1>2. Guards(sup, sup')
  BY SteadyParts, CaresRefl DEF Cares
<1>3. QED BY <1>1, <1>2, GuardsSteady

\* Binding a session the Supervisor has changes no kernel.
LEMMA BindCares ==
    ASSUME SteadyInv, NEW x \in Sessions, NEW w \in Workspaces, BindSessionKernel(x, w)
    PROVE  /\ Cares(sup, sup') /\ SamePlaces(sup, sup') /\ bridge' = bridge
           /\ sup'.sessions = sup.sessions /\ sup'.busy = sup.busy /\ sup'.workers = sup.workers
           /\ sup'.workspaces = sup.workspaces /\ sup'.notices = sup.notices
           /\ sup'.order = sup.order
           /\ \A y \in sup.sessions : KernelOf(sup', y) = KernelOf(sup, y)
           /\ \A y \in Sessions \ {x} : sup'.kernels[y] = sup.kernels[y]
<1>1. /\ SamePlaces(sup, sup') /\ sup'.order = sup.order /\ bridge' = bridge
      /\ sup'.sessions = sup.sessions /\ sup'.busy = sup.busy
      /\ sup'.workers = sup.workers
      /\ sup'.workspaces = sup.workspaces /\ sup'.notices = sup.notices
      /\ sup'.kernels = [sup.kernels EXCEPT ![x] = IF @ = NoKernel THEN ConversationKernel[x] ELSE @]
  BY SteadyParts DEF BindSessionKernel, BindKernel, SamePlaces, Supervisor
<1>2. \A y \in sup.sessions : KernelOf(sup', y) = KernelOf(sup, y)
  <2>1. SUFFICES ASSUME NEW y \in sup.sessions PROVE KernelOf(sup', y) = KernelOf(sup, y)
    OBVIOUS
  <2>2. y \in Sessions /\ sup.kernels \in [Sessions -> Kernels \cup {NoKernel}]
    BY SteadyParts DEF Supervisor
  <2>3. KernelOf(sup, y) = ConversationKernel[y] /\ ConversationKernel[y] \in Kernels
    BY <2>2, ConversationsAssumption DEF SteadyInv, Matched
  <2>4. QED BY <1>1, <2>2, <2>3 DEF KernelOf
<1>3. \A y \in Sessions \ {x} : sup'.kernels[y] = sup.kernels[y]
  BY <1>1, SteadyParts DEF Supervisor
<1>4. Guards(sup, sup')
  BY <1>1, <1>2, SamePlacesGuards, SteadyParts
<1>5. AllLive(sup) => AllLive(sup')
  BY <1>1 DEF AllLive, Tracked, ActiveProcs, ParkedProcs, SamePlaces
<1>6. QED BY <1>1, <1>2, <1>3, <1>4, <1>5, SteadyParts DEF Cares, Tells

\* The process a message is dispatched to is found without loss.
LEMMA EnsuredCares ==
    ASSUME SteadyInv, NEW x \in Sessions, NEW w \in Workspaces, CanEnsure(sup, KernelOf(sup, x), w)
    PROVE  Cares(sup, Ensured(x, w))
<1>1. KernelOf(sup, x) \in Kernels
  BY SteadyParts, KernelOfType
<1>2. QED BY <1>1, SteadyParts, EnsureCares DEF Ensured

\* So is one that could not be started.
LEMMA UnspawnedCares ==
    ASSUME SteadyInv, NEW x \in Sessions, NEW w \in Workspaces, SendMessageSpawnFails(x, w)
    PROVE  Cares(sup, sup') /\ bridge' = Survivors(sup')
<1>1. KernelOf(sup, x) \in Kernels /\ sup' = Prepared(sup, KernelOf(sup, x), w)
  BY SteadyParts, KernelOfType DEF SendMessageSpawnFails
<1>2. QED BY <1>1, SteadyParts, PreparedCares DEF SendMessageSpawnFails

\* Where a dispatched message ends up, its session is housed.
LEMMA SentHouses ==
    ASSUME SteadyInv, NEW x \in Sessions, NEW w \in Workspaces, SendMessage(x, w),
           KernelOf(sup', x) = ConversationKernel[x], Carried(sup'),
           NEW p \in Procs, p = ProcessForSession(Ready(x, w), x)
    PROVE  Houses(sup', p, x)
<1>1. IInv /\ KernelInv
  BY SteadyParts DEF SteadyInv
<1>2. Good(Ready(x, w)) /\ SamePlaces(Ready(x, w), sup')
  BY <1>1, SendReady
<1>3. p \in Tracked(sup')
  <2>1. p # NoProc /\ Ready(x, w) \in Supervisor
    BY <1>2, ProcsAssumption DEF Good
  <2>2. p \in Tracked(Ready(x, w))
    BY <2>1, ProcessForSessionTracked
  <2>3. QED BY <1>2, <2>2 DEF SamePlaces, Tracked, ActiveProcs, ParkedProcs
<1>4. CASE GoesOn(p, x)
  BY <1>4 DEF GoesOn, Carried, Houses
<1>5. CASE /\ sup'.child[p].kernel = KernelOf(sup', x)
           /\ sup'.child[p].workspace = sup'.workspaces[x] /\ ~sup'.child[p].stale
  <2>1. p \notin sup'.retiring
    BY <1>2, <1>5 DEF Good, Accounted, RetiringMatches, SamePlaces
  <2>2. QED BY <1>3, <1>5, <2>1 DEF Tracked, Houses, InRotation
<1>6. QED BY <1>1, <1>4, <1>5, SentProcess

\* SendMessage finds a process, or one that died.
LEMMA SentFinds ==
    ASSUME SteadyInv, NEW x \in Sessions, NEW w \in Workspaces, SendMessage(x, w),
           x \in Ensured(x, w).sessions
    PROVE  ProcessForSession(Ready(x, w), x) \in Procs
<1> DEFINE k == KernelOf(sup, x)
           e == Ensured(x, w)
           ready == Ready(x, w)
           p == ProcessForSession(ready, x)
<1>1. /\ IInv /\ Good(sup) /\ k \in Kernels /\ CanEnsure(sup, k, w)
      /\ Good(ready) /\ SamePlaces(e, ready)
  BY SteadyParts, SendReady
<1>2. e.process[k] # NoProc
  BY <1>1, EnsureServes DEF Ensured
<1>3. Cares(sup, e)
  BY <1>1, EnsuredCares
<1>4. KernelOf(ready, x) = k
  <2>1. KernelOf(e, x) = k
    BY <1>3 DEF Cares, Guards
  <2>2. QED BY <2>1 DEF Ready, KernelOf
<1>5. ready.process[k] # NoProc
  BY <1>1, <1>2 DEF SamePlaces
<1> HIDE DEF k, e, ready
<1>6. p # NoProc
  BY <1>4, <1>5 DEF ProcessForSession
<1>7. p \in Tracked(ready) /\ ready \in Supervisor
  BY <1>1, <1>6, ProcessForSessionTracked DEF Good
<1>8. QED BY <1>7, TrackedProcs DEF ready

\* A message sent keeps every turn attended, and its own.
LEMMA SendSteady ==
    ASSUME SteadyInv, NEW x \in Sessions, NEW w \in Workspaces, SendMessage(x, w), Matched(sup')
    PROVE  Carried(sup') /\ Attended(sup', bridge')
<1> DEFINE e == Ensured(x, w)
           ready == Ready(x, w)
           p == ProcessForSession(ready, x)
<1>1. /\ IInv /\ sup \in Supervisor /\ bridge \in Bridges
      /\ CanEnsure(sup, KernelOf(sup, x), w)
      /\ Good(e) /\ Good(ready) /\ SamePlaces(e, ready) /\ SamePlaces(ready, sup')
      /\ sup'.kernels = ready.kernels /\ sup'.workspaces = ready.workspaces
  BY SteadyParts, SendReady
<1>2. Guards(sup, e)
  BY <1>1, EnsuredCares DEF Cares
<1>3. /\ ready.sessions = e.sessions /\ ready.busy = e.busy /\ ready.kernels = e.kernels
      /\ \A y \in Sessions \ {x} : ready.workspaces[y] = e.workspaces[y]
  BY <1>1 DEF Ready, Good, Supervisor
<1>4. \/ /\ Reaches(ready, p) /\ Survivors(ready)[p].turns[x] < MaxTurns
         /\ sup'.sessions = e.sessions \cup {x} /\ sup'.busy = e.busy \cup {x}
         /\ bridge' = Prompted(Survivors(ready), p, x)
      \/ /\ ~Reaches(ready, p) /\ sup'.sessions = e.sessions /\ sup'.busy = e.busy
         /\ bridge' = Survivors(ready)
  <2>1. CASE /\ Reaches(ready, p)
             /\ bridge[p].turns[x] < MaxTurns
             /\ sup' = [ready EXCEPT !.sessions = @ \cup {x}, !.busy = @ \cup {x}]
             /\ bridge' = Prompted(Survivors(ready), p, x)
    <3>1. p \in Procs /\ ready.child[p].life = "live"
      BY <1>1, <2>1, ReachedIsProc DEF Good, Reaches
    <3>2. Survivors(ready)[p] = bridge[p]
      BY <3>1 DEF Survivors
    <3>3. QED BY <1>1, <1>3, <2>1, <3>2 DEF Good, Supervisor
  <2>2. CASE ~Reaches(ready, p) /\ sup' = ready /\ bridge' = Survivors(ready)
    BY <1>3, <2>2
  <2>3. QED BY <2>1, <2>2 DEF SendMessage, Ready, Ensured
<1>5. SamePlaces(e, sup') /\ Survivors(ready) = Survivors(e) /\ Survivors(sup') = Survivors(e)
      /\ Survivors(e) \in Bridges
  <2>1. e \in Supervisor
    BY <1>1 DEF Good
  <2>2. QED BY <1>1, <2>1, SurvivorsType DEF SamePlaces, Survivors
<1> HIDE DEF e, ready, p
<1>6. Carried(sup')
  <2>1. Carried(e)
    BY <1>2, GuardsCarried DEF SteadyInv
  <2>2. QED BY <1>5, <2>1 DEF Carried, SamePlaces
<1>7. ASSUME NEW y \in sup'.busy \ {x}
      PROVE  Tended(sup', bridge', y)
  <2>1. y \in e.busy /\ y \in Sessions
    BY <1>1, <1>4, <1>7 DEF Good, Supervisor
  <2>2. Tended(e, Survivors(e), y)
    <3>1. y \in sup.busy /\ Holds(sup, e, y)
      BY <1>2, <2>1 DEF Guards, Shelters, AtWork
    <3>2. QED BY <1>1, <3>1, SurvivorsListen, TendedStep DEF SteadyInv, Attended
  <2>3. Holds(e, sup', y)
    BY <1>1, <1>3, <1>5, <1>7, <2>1 DEF Holds, Houses, SamePlaces, InRotation, ActiveProcs,
       ParkedProcs, KernelOf
  <2>4. Listens(Survivors(e), sup', bridge', y)
    <3>1. CASE bridge' = Survivors(e)
      BY <3>1 DEF Listens
    <3>2. CASE /\ Reaches(ready, p) /\ Survivors(e)[p].turns[x] < MaxTurns
               /\ bridge' = Prompted(Survivors(e), p, x)
      <4>1. p \in Procs
        BY <1>1, <3>2, ReachedIsProc DEF Good, p
      <4>2. PICK lines : Does(Survivors(e), bridge', p, x, lines)
        BY <1>5, <3>2, <4>1, PromptedDoes
      <4>3. QED BY <2>1, <1>7, <4>2, WroteListens DEF Does
    <3>3. QED BY <1>4, <1>5, <3>1, <3>2
  <2>5. QED BY <2>2, <2>3, <2>4, TendedStep
<1>8. ASSUME x \in sup'.busy
      PROVE  Tended(sup', bridge', x)
  <2>1. x \in sup'.sessions /\ KernelOf(sup', x) = ConversationKernel[x]
    BY <1>2, <1>4, <1>8 DEF Guards, Matched
  <2>2. CASE /\ Reaches(ready, p) /\ Survivors(e)[p].turns[x] < MaxTurns
             /\ bridge' = Prompted(Survivors(e), p, x)
    <3>1. p \in Procs
      BY <1>1, <2>2, ReachedIsProc DEF Good, p
    <3>2. Houses(sup', p, x)
      BY <1>6, <2>1, <3>1, SentHouses DEF p, ready
    <3>3. PICK lines :
             /\ Does(Survivors(e), bridge', p, x, lines)
             /\ \/ lines = <<Event("settled", x)>>
                \/ bridge'[p].turns[x] = Survivors(e)[p].turns[x] + 1
      BY <1>5, <2>2, <3>1, PromptedDoes
    <3>4. CASE lines = <<Event("settled", x)>>
      <4>1. \A y, kinds : Spoken(lines, y, kinds) <=> y = x /\ "settled" \in kinds
        BY <3>4, OneLine
      <4>2. "settled" \in Ends
        BY DEF Ends
      <4>3. Spoken(lines, x, Ends)
        BY <4>1, <4>2
      <4>4. QED BY <3>3, <4>3, WroteWritten DEF Does, Tended
    <3>5. CASE bridge'[p].turns[x] = Survivors(e)[p].turns[x] + 1
      <4>1. bridge'[p].turns[x] > 0
        BY <1>5, <3>1, <3>5, TurnsNat
      <4>2. QED BY <3>1, <3>2, <4>1 DEF Tended, Minds
    <3>6. QED BY <3>3, <3>4, <3>5
  <2>3. CASE ~Reaches(ready, p) /\ sup'.sessions = e.sessions
    <3>1. p \in Procs
      BY <2>1, <2>3, SentFinds DEF e, p, ready
    <3>2. Houses(sup', p, x)
      BY <1>6, <2>1, <3>1, SentHouses DEF p, ready
    <3>3. sup'.child[p].life # "live"
      BY <1>1, <2>3, <3>1, ProcsAssumption DEF Reaches, SamePlaces
    <3>4. QED BY <3>1, <3>2, <3>3 DEF Tended, Minds
  <2>4. QED BY <1>4, <1>5, <2>2, <2>3
<1>9. QED BY <1>6, <1>7, <1>8 DEF Attended

\* Nothing moves, and the session changes neither its kernel nor its workspace.
LEMMA SamePlacesHold ==
    ASSUME NEW s, NEW t, SamePlaces(s, t),
           NEW x, KernelOf(t, x) = KernelOf(s, x), t.workspaces[x] = s.workspaces[x]
    PROVE  Holds(s, t, x)
BY DEF SamePlaces, Holds, Houses, InRotation, ActiveProcs, ParkedProcs

\* What actions that move no process have to show.
LEMMA SamePlacesSteady ==
    ASSUME SteadyInv, SamePlaces(sup, sup'), sup'.busy \subseteq sup.busy,
           \A x \in sup'.busy : /\ KernelOf(sup', x) = KernelOf(sup, x)
                                /\ sup'.workspaces[x] = sup.workspaces[x]
                                /\ Listens(bridge, sup', bridge', x)
    PROVE  Carried(sup') /\ Attended(sup', bridge')
<1>1. Carried(sup')
  BY DEF SteadyInv, Carried, SamePlaces
<1>2. \A x \in sup'.busy : Holds(sup, sup', x)
  BY SamePlacesHold
<1>3. QED BY <1>1, <1>2, AttendedStep DEF SteadyInv

\* No line and no turn changes.
LEMMA SameOutListens ==
    ASSUME NEW b, NEW t, NEW c, NEW x,
           \A p \in Procs : c[p].out = b[p].out /\ c[p].turns = b[p].turns
    PROVE  Listens(b, t, c, x)
BY DEF Listens, Written

\* The first half of a message.
LEMMA BindSteady ==
    ASSUME SteadyInv, NEW x \in Sessions, NEW w \in Workspaces, BindSessionKernel(x, w)
    PROVE  Carried(sup') /\ Attended(sup', bridge')
<1>1. Guards(sup, sup') /\ bridge' = bridge
  BY BindCares DEF Cares
<1>2. QED BY <1>1, SameOutListens, GuardsSteady

\* The dispatches that send nothing.
LEMMA DispatchSteady ==
    ASSUME SteadyInv, NEW x \in Sessions, NEW w \in Workspaces,
           SendMessageSpawnFails(x, w) \/ RefreshBackgroundTasks(x, w)
    PROVE  Carried(sup') /\ Attended(sup', bridge')
<1>1. bridge' = Survivors(sup')
  BY DEF SendMessageSpawnFails, RefreshBackgroundTasks
<1>2. CASE SendMessageSpawnFails(x, w)
  BY <1>1, <1>2, UnspawnedCares, SurvivorsSteady DEF Cares
<1>3. CASE RefreshBackgroundTasks(x, w)
  <2>1. KernelOf(sup, x) \in Kernels
    BY SteadyParts, KernelOfType
  <2>2. Cares(sup, sup')
    BY <1>3, <2>1, SteadyParts, EnsureCares DEF RefreshBackgroundTasks
  <2>3. QED BY <1>1, <2>2, SurvivorsSteady DEF Cares
<1>4. QED BY <1>2, <1>3

\* In a steady execution a restart takes a process in rotation.
LEMMA RestartInRotation ==
    ASSUME SteadyInv, Unrestarted(sup'), NEW x \in Sessions, RestartEngine(x)
    PROVE  /\ ProcessForSession(sup, x) \in InRotation(sup)
           /\ sup' = Restarted(sup, x, ProcessForSession(sup, x))
           /\ bridge' = Survivors(sup') /\ ui' = ui \ {x}
<1> DEFINE p == ProcessForSession(sup, x)
           k == KernelOf(sup, x)
           key == <<k, sup.child[p].workspace>>
<1>1. Good(sup) /\ sup' = Restarted(sup, x, p) /\ p # NoProc /\ bridge' = Survivors(sup') /\ ui' = ui \ {x}
  BY SteadyParts DEF RestartEngine
<1>2. p \in Tracked(sup) /\ p \in Procs
  BY <1>1, ProcessForSessionTracked, TrackedProcs DEF Good
<1>3. k \in Kernels /\ key \in Keys
  BY <1>1, <1>2, KernelOfType DEF Good, Accounted, AllPlaced, Keys
<1>4. p \notin sup.retiring
  <2>1. SUFFICES ASSUME p \in sup.retiring PROVE FALSE
    OBVIOUS
  <2>2. p \notin ActiveProcs(sup) \cup ParkedProcs(sup)
    BY <1>1, <2>1 DEF Good, Accounted, PlacesDisjoint
  <2>3. sup.process[k] # p /\ sup.parked[key] # p
    BY <1>1, <1>3, <2>2 DEF ActiveProcs, ParkedProcs
  <2> DEFINE carried == (sup.child[p].retiredTurns \cap sup.busy) \cup {x}
             t == [ForgetSessions(sup, carried) EXCEPT !.notices = @ \cup carried,
                                                       !.child[p].retired = TRUE,
                                                       !.child[p].life = "dead"]
  <2>4. sup' = [ForgetSessions(t, {x}) EXCEPT !.notices = (@ \ {x}) \cup (sup.notices \cap {x})]
    BY <1>1, <2>3 DEF Restarted
  <2>5. sup'.retiring = sup.retiring /\ sup'.child[p].retired
    <3>1. sup \in Supervisor
      BY <1>1 DEF Good
    <3> HIDE DEF p, carried
    <3>2. QED BY <1>2, <2>4, <3>1 DEF ForgetSessions, Supervisor, Child
  <2>6. QED BY <2>1, <2>5 DEF Unrestarted
<1>5. p \in InRotation(sup)
  BY <1>2, <1>4 DEF Tracked, InRotation
<1>6. QED BY <1>1, <1>5

\* The stops and the ends of processes.
LEMMA StopsSteady ==
    ASSUME SteadyInv, Unrestarted(sup'),
           \/ StopStaleSidecars
           \/ \E x \in Sessions : RestartEngine(x)
           \/ \E p \in Procs : ProcessExits(p)
    PROVE  Carried(sup') /\ Attended(sup', bridge')
<1>1. CASE StopStaleSidecars
  BY <1>1, SteadyParts, StopStaleCares, SurvivorsSteady DEF StopStaleSidecars, Cares
<1>2. ASSUME NEW x \in Sessions, RestartEngine(x)
      PROVE  Carried(sup') /\ Attended(sup', bridge')
  BY <1>2, SteadyParts, RestartInRotation, RestartedGuards, SurvivorsSteady
<1>3. ASSUME NEW p \in Procs, ProcessExits(p)
      PROVE  Carried(sup') /\ Attended(sup', bridge')
  <2>1. Guards(sup, sup') /\ bridge' = bridge
    BY <1>3, SteadyParts, ExitedGuards DEF ProcessExits, SteadyInv, Unrestarted
  <2>2. QED BY <2>1, GuardsSteady DEF Listens
<1>4. QED BY <1>1, <1>2, <1>3

\* Marks(s, t): a process is marked, or dies; nothing else.
Marks(s, t) ==
    /\ Marked(s, t) /\ SameSessions(s, t) /\ t.notices = s.notices
    /\ \A p \in Procs : /\ t.child[p].retiredTurns = s.child[p].retiredTurns
                        /\ t.child[p].life = "live" => s.child[p].life = "live"

\* The clock, revoked credentials and crashes mark processes.
LEMMA MarksAll ==
    ASSUME IInv, \/ InvalidateCredentials
                 \/ \E p \in Procs : Crash(p) \/ IdleTimeout(p) \/ BusyCeiling(p)
    PROVE  Marks(sup, sup')
<1>1. sup \in Supervisor
  BY IInvParts DEF Good
<1>2. SameSessions(sup, sup') /\ sup'.notices = sup.notices /\ sup'.process = sup.process
      /\ sup'.parked = sup.parked /\ sup'.retiring = sup.retiring
  BY <1>1 DEF InvalidateCredentials, Crash, IdleTimeout, BusyCeiling, Supervisor, SameSessions
<1>3. \A p \in Procs : /\ sup'.child[p].kernel = sup.child[p].kernel
                       /\ sup'.child[p].workspace = sup.child[p].workspace
                       /\ sup'.child[p].life = "none" <=> sup.child[p].life = "none"
                       /\ sup.child[p].stale => sup'.child[p].stale
                       /\ sup.child[p].retired => sup'.child[p].retired
                       /\ sup'.child[p].retiredTurns = sup.child[p].retiredTurns
                       /\ sup'.child[p].life = "live" => sup.child[p].life = "live"
  <2>1. CASE InvalidateCredentials
    BY <1>1, <2>1 DEF InvalidateCredentials, Supervisor, Child
  <2>2. ASSUME NEW p \in Procs, Crash(p)
        PROVE  sup' = [sup EXCEPT !.child = [sup.child EXCEPT
                                               ![p] = [sup.child[p] EXCEPT !.life = "dead"]]]
               /\ sup.child[p].life = "live"
    BY <1>1, <2>2 DEF Crash, Live, Supervisor
  <2>3. ASSUME NEW p \in Procs, IdleTimeout(p)
        PROVE  sup' = [sup EXCEPT !.child = [sup.child EXCEPT
                                               ![p] = [sup.child[p] EXCEPT !.idle = TRUE]]]
    BY <1>1, <2>3 DEF IdleTimeout, Supervisor
  <2>4. ASSUME NEW p \in Procs, BusyCeiling(p)
        PROVE  sup' = [sup EXCEPT !.child = [sup.child EXCEPT
                                               ![p] = [sup.child[p] EXCEPT !.pastCeiling = TRUE]]]
    BY <1>1, <2>4 DEF BusyCeiling, Supervisor
  <2>5. ASSUME NEW p \in Procs, Crash(p) \/ IdleTimeout(p) \/ BusyCeiling(p)
        PROVE  \E c \in Child :
                  /\ sup' = [sup EXCEPT !.child = [sup.child EXCEPT ![p] = c]]
                  /\ c.kernel = sup.child[p].kernel /\ c.workspace = sup.child[p].workspace
                  /\ c.life = "none" <=> sup.child[p].life = "none"
                  /\ c.stale = sup.child[p].stale /\ c.retired = sup.child[p].retired
                  /\ c.retiredTurns = sup.child[p].retiredTurns
                  /\ c.life = "live" => sup.child[p].life = "live"
    <3>1. sup.child[p] \in Child
      BY <1>1 DEF Supervisor
    <3>2. CASE Crash(p)
      <4> DEFINE c == [sup.child[p] EXCEPT !.life = "dead"]
      <4>1. c \in Child
        BY <3>1 DEF Child
      <4>2. QED BY <2>2, <3>1, <3>2, <4>1 DEF Child
    <3>3. CASE IdleTimeout(p)
      <4> DEFINE c == [sup.child[p] EXCEPT !.idle = TRUE]
      <4>1. c \in Child
        BY <3>1 DEF Child
      <4>2. QED BY <2>3, <3>1, <3>3, <4>1 DEF Child
    <3>4. CASE BusyCeiling(p)
      <4> DEFINE c == [sup.child[p] EXCEPT !.pastCeiling = TRUE]
      <4>1. c \in Child
        BY <3>1 DEF Child
      <4>2. QED BY <2>4, <3>1, <3>4, <4>1 DEF Child
    <3>5. QED BY <2>5, <3>2, <3>3, <3>4
  <2>6. CASE \E p \in Procs : Crash(p) \/ IdleTimeout(p) \/ BusyCeiling(p)
    <3>1. PICK p \in Procs, c \in Child :
             /\ sup' = [sup EXCEPT !.child = [sup.child EXCEPT ![p] = c]]
             /\ c.kernel = sup.child[p].kernel /\ c.workspace = sup.child[p].workspace
             /\ c.life = "none" <=> sup.child[p].life = "none"
             /\ c.stale = sup.child[p].stale /\ c.retired = sup.child[p].retired
             /\ c.retiredTurns = sup.child[p].retiredTurns
             /\ c.life = "live" => sup.child[p].life = "live"
      BY <2>5, <2>6
    <3>2. sup'.child = [sup.child EXCEPT ![p] = c] /\ sup.child \in [Procs -> Child]
      BY <1>1, <3>1 DEF Supervisor
    <3>3. QED BY <3>1, <3>2
  <2>7. QED BY <2>1, <2>6
<1>4. QED BY <1>2, <1>3 DEF Marks, Marked

\* Marks guard every session.
LEMMA MarksGuards ==
    ASSUME NEW s, Good(s), s.busy \subseteq s.sessions, NEW t, Marks(s, t)
    PROVE  Guards(s, t) /\ Tells(s, t)
<1>1. \A x : KernelOf(t, x) = KernelOf(s, x) /\ t.workspaces[x] = s.workspaces[x]
  BY DEF Marks, SameSessions, KernelOf
<1>2. InRotation(t) = InRotation(s) /\ t.retiring = s.retiring /\ s.retiring \subseteq Procs
  BY DEF Marks, Marked, InRotation, ActiveProcs, ParkedProcs, Good, Supervisor
<1>3. Shelters(s, t) /\ Boards(s, t)
  BY <1>1, <1>2 DEF Marks, Marked, SameSessions, Shelters, Holds, Boards, Houses
<1>4. QED BY <1>1, <1>3 DEF Guards, Tells, Marks, SameSessions

\* New credentials, crashes and timers keep turns attended.
LEMMA MarksSteady ==
    ASSUME SteadyInv, \/ InvalidateCredentials
                      \/ \E p \in Procs : Crash(p) \/ IdleTimeout(p) \/ BusyCeiling(p)
    PROVE  Carried(sup') /\ Attended(sup', bridge')
<1>1. Guards(sup, sup')
  BY SteadyParts, MarksAll, MarksGuards
<1>2. bridge' = bridge \/ bridge' = Survivors(sup')
  BY DEF InvalidateCredentials, Crash, IdleTimeout, BusyCeiling
<1>3. CASE bridge' = bridge
  BY <1>1, <1>3, GuardsSteady DEF Listens
<1>4. QED BY <1>1, <1>2, <1>3, SurvivorsSteady

\* Bookkeeping: no turn, no line, no place.
LEMMA BookkeepingSteady ==
    ASSUME SteadyInv, NEW x \in Sessions,
           \/ TrackResearchRun(x) \/ UntrackResearchRun(x) \/ RecoveryEnds(x) \/ StartProbe(x)
           \/ DeliverNotice(x) \/ \E w \in Workspaces : RecoverSession(x, w)
           \/ \E y \in Sessions : ForkSession(x, y) \/ ForkTimesOut(x, y)
    PROVE  Carried(sup') /\ Attended(sup', bridge')
<1>1. sup \in Supervisor /\ bridge \in Bridges
  BY SteadyParts
<1>2. /\ SamePlaces(sup, sup') /\ sup'.busy = sup.busy /\ sup'.kernels = sup.kernels
      /\ sup'.workspaces = sup.workspaces
  BY <1>1 DEF TrackResearchRun, UntrackResearchRun, RecoveryEnds, StartProbe, DeliverNotice,
     RecoverSession, ForkSession, ForkTimesOut, SamePlaces, Supervisor
<1>3. \A p \in Procs : bridge'[p].out = bridge[p].out /\ bridge'[p].turns = bridge[p].turns
  <2>1. \/ bridge' = bridge
        \/ \E q \in Procs : bridge' = [bridge EXCEPT ![q].known = @ \cup {x}]
    <3>1. ASSUME NEW w \in Workspaces, RecoverSession(x, w)
          PROVE  \E q \in Procs : bridge' = [bridge EXCEPT ![q].known = @ \cup {x}]
      BY <1>1, <3>1, KernelsAssumption DEF RecoverSession, Reaches, Supervisor
    <3>2. QED BY <3>1 DEF TrackResearchRun, UntrackResearchRun, RecoveryEnds, StartProbe,
          DeliverNotice, ForkSession, ForkTimesOut
  <2>2. ASSUME NEW q \in Procs, bridge' = [bridge EXCEPT ![q].known = @ \cup {x}]
        PROVE  \A p \in Procs : bridge'[p].out = bridge[p].out /\ bridge'[p].turns = bridge[p].turns
    BY <1>1, <2>2 DEF Bridges, Bridge
  <2>3. QED BY <2>1, <2>2
<1>4. QED BY <1>2, <1>3, SameOutListens, SamePlacesSteady DEF KernelOf

\* An answered fork has no turn yet.
LEMMA ForkSteady ==
    ASSUME SteadyInv, NEW x \in Sessions, NEW y \in Sessions, ForkAnswered(x, y)
    PROVE  Carried(sup') /\ Attended(sup', bridge')
<1>1. sup \in Supervisor /\ sup.busy \subseteq sup.sessions
  BY SteadyParts
<1>2. y \notin sup.busy
  BY <1>1 DEF ForkAnswered, SteadyInv, ForksPending
<1>3. /\ SamePlaces(sup, sup') /\ sup'.busy = sup.busy /\ bridge' = bridge
      /\ \A z \in Sessions \ {y} :
            sup'.kernels[z] = sup.kernels[z] /\ sup'.workspaces[z] = sup.workspaces[z]
  BY <1>1 DEF ForkAnswered, SamePlaces, Supervisor
<1>4. sup.busy \subseteq Sessions \ {y}
  BY <1>1, <1>2 DEF Supervisor
<1>5. QED BY <1>3, <1>4, SamePlacesSteady DEF KernelOf, Listens

\* Stops and follow-ups.
LEMMA CommandsDo ==
    ASSUME sup \in Supervisor, bridge \in Bridges, NEW x \in Sessions,
           AbortMessage(x) \/ ForceStop(x) \/ ContinueBusy(x)
    PROVE  /\ sup' = sup
           /\ \/ bridge' = bridge
              \/ \E p \in Procs : \E lines :
                    /\ Live(p) /\ Does(bridge, bridge', p, x, lines)
                    /\ (bridge[p].turns[x] > 0 => bridge'[p].turns[x] > 0) \/ Spoken(lines, x, Ends)
                    /\ Reports(bridge, bridge', p, x, lines)
<1> DEFINE p == ProcessForSession(sup, x)
<1>1. sup' = sup
  BY DEF AbortMessage, ForceStop, ContinueBusy
<1>2. \/ bridge' = bridge
      \/ Reaches(sup, p) /\ bridge' = Aborted(bridge, p, x)
      \/ Reaches(sup, p) /\ bridge' = Says(bridge, p, <<Event("error", x)>>)
  BY DEF AbortMessage, ForceStop, ContinueBusy
<1>3. Reaches(sup, p) => p \in Procs /\ Live(p)
  BY ReachedIsProc DEF Reaches, Live
<1> HIDE DEF p
<1>4. CASE Reaches(sup, p) /\ bridge' = Aborted(bridge, p, x)
  <2>1. PICK lines : /\ Does(bridge, bridge', p, x, lines) /\ Spoken(lines, x, {"settled"})
                     /\ \A i \in DOMAIN lines : lines[i].kind = "settled"
                     /\ bridge'[p].workers = bridge[p].workers
    BY <1>3, <1>4, AbortedDoes
  <2>2. Spoken(lines, x, Ends)
    BY <2>1 DEF Spoken, Ends
  <2>3. Reports(bridge, bridge', p, x, lines)
    BY <2>1 DEF Reports
  <2>4. QED BY <1>1, <1>3, <1>4, <2>1, <2>2, <2>3
<1>5. CASE Reaches(sup, p) /\ bridge' = Says(bridge, p, <<Event("error", x)>>)
  <2> DEFINE lines == <<Event("error", x)>>
  <2>1. \A i \in DOMAIN lines : lines[i].kind = "error"
    BY OneLine DEF Event
  <2>2. /\ Does(bridge, bridge', p, x, lines) /\ bridge'[p].turns = bridge[p].turns
        /\ bridge'[p].workers = bridge[p].workers
    BY <1>3, <1>5, SaysDoes
  <2> HIDE DEF lines
  <2>3. Reports(bridge, bridge', p, x, lines)
    BY <2>1, <2>2 DEF Reports
  <2>4. QED BY <1>1, <1>3, <1>5, <2>2, <2>3
<1>6. QED BY <1>1, <1>2, <1>4, <1>5

LEMMA CommandsSteady ==
    ASSUME SteadyInv, NEW x \in Sessions, AbortMessage(x) \/ ForceStop(x) \/ ContinueBusy(x)
    PROVE  Carried(sup') /\ Attended(sup', bridge')
<1>1. sup \in Supervisor /\ bridge \in Bridges
  BY SteadyParts
<1>2. CASE bridge' = bridge
  BY <1>1, <1>2, CommandsDo, SteadyParts, CaresRefl, GuardsSteady DEF Cares, Listens
<1>3. CASE bridge' # bridge
  BY <1>1, <1>3, CommandsDo, DoesSteady
<1>4. QED BY <1>2, <1>3

\* What forgetting one session leaves of the others.
LEMMA ForgottenSession ==
    ASSUME NEW s \in Supervisor, NEW x \in Sessions
    PROVE  /\ ForgetSessions(s, {x}) \in Supervisor /\ SamePlaces(s, ForgetSessions(s, {x}))
           /\ ForgetSessions(s, {x}).sessions = s.sessions \ {x}
           /\ ForgetSessions(s, {x}).busy = s.busy \ {x}
           /\ ForgetSessions(s, {x}).workers = s.workers \ {x}
           /\ ForgetSessions(s, {x}).notices = s.notices
           /\ \A y \in Sessions \ {x} :
                 /\ ForgetSessions(s, {x}).kernels[y] = s.kernels[y]
                 /\ ForgetSessions(s, {x}).workspaces[y] = s.workspaces[y]
<1>1. /\ ForgetSessions(s, {x}).sessions = s.sessions \ {x}
      /\ ForgetSessions(s, {x}).busy = s.busy \ {x}
      /\ ForgetSessions(s, {x}).workers = s.workers \ {x}
      /\ ForgetSessions(s, {x}).notices = s.notices
  BY DEF ForgetSessions, Supervisor
<1>2. \A y \in Sessions \ {x} : ForgetSessions(s, {x}).kernels[y] = s.kernels[y]
  BY DEF ForgetSessions, Supervisor
<1>3. \A y \in Sessions \ {x} : ForgetSessions(s, {x}).workspaces[y] = s.workspaces[y]
  BY DEF ForgetSessions, Supervisor
<1>4. QED BY <1>1, <1>2, <1>3, ForgetSessionsType

\* DetachSession, DestroySession and the end of a probe.
LEMMA RemovalSteady ==
    ASSUME SteadyInv, NEW x \in Sessions, DetachSession(x) \/ DestroySession(x) \/ EndProbe(x)
    PROVE  Carried(sup') /\ Attended(sup', bridge')
<1> DEFINE p == ProcessForSession(sup, x)
           t == ForgetSessions(sup, {x})
<1>1. sup \in Supervisor /\ bridge \in Bridges
  BY SteadyParts
<1>2. t \in Supervisor /\ SamePlaces(sup, t) /\ t.busy = sup.busy \ {x}
      /\ \A y \in Sessions \ {x} : t.kernels[y] = sup.kernels[y] /\ t.workspaces[y] = sup.workspaces[y]
  BY <1>1, ForgottenSession
<1>3. sup' = t \/ sup' = [t EXCEPT !.waiters = @ \ {x}]
  BY DEF DetachSession, DestroySession, EndProbe
<1> HIDE DEF t
<1>4. SamePlaces(sup, sup') /\ sup'.busy = sup.busy \ {x}
      /\ \A y \in Sessions \ {x} :
            sup'.kernels[y] = sup.kernels[y] /\ sup'.workspaces[y] = sup.workspaces[y]
  BY <1>2, <1>3 DEF SamePlaces, Supervisor
<1>5. ASSUME NEW y \in Sessions \ {x} PROVE Listens(bridge, sup', bridge', y)
  <2>1. bridge' = bridge \/ (Reaches(sup, p) /\ bridge' = Destroyed(bridge, p, x))
    BY DEF DetachSession, DestroySession, EndProbe, Dispose
  <2>2. CASE bridge' = bridge
    BY <2>2 DEF Listens
  <2>3. CASE Reaches(sup, p) /\ bridge' = Destroyed(bridge, p, x)
    <3>1. p \in Procs
      BY <1>1, <2>3, ReachedIsProc
    <3> HIDE DEF p
    <3>2. PICK lines : Does(bridge, bridge', p, x, lines)
      BY <1>1, <2>3, <3>1, DestroyedDoes
    <3>3. QED BY <1>5, <3>1, <3>2, WroteListens DEF Does
  <2>4. QED BY <2>1, <2>2, <2>3
<1>6. sup.busy \subseteq Sessions
  BY <1>1 DEF Supervisor
<1>7. QED BY <1>4, <1>5, <1>6, SamePlacesSteady DEF KernelOf

\* SendRegisteredMessage: the turn starts where its session works, or the sidecar says that it
\* does not know the session.
LEMMA RelaySteady ==
    ASSUME SteadyInv, NEW x \in Sessions, RelayMessage(x), RelaysInPlace
    PROVE  Carried(sup') /\ Attended(sup', bridge')
<1> DEFINE p == ProcessForSession(sup, x)
<1>1. sup \in Supervisor /\ bridge \in Bridges
  BY SteadyParts
<1>2. p \in Procs /\ Reaches(sup, p)
  BY <1>1, ReachedIsProc DEF RelayMessage
<1>3. /\ SamePlaces(sup, sup') /\ sup'.busy = sup.busy \cup {x} /\ sup'.kernels = sup.kernels
      /\ sup'.workspaces = sup.workspaces
  BY <1>1 DEF RelayMessage, SamePlaces, Supervisor
<1>4. \/ /\ x \in bridge[p].known /\ bridge[p].turns[x] < MaxTurns
         /\ bridge' = Prompted(bridge, p, x)
      \/ bridge' = Says(bridge, p, <<Event("error", x)>>)
  BY DEF RelayMessage
<1> HIDE DEF p
<1>5. PICK lines :
        /\ Does(bridge, bridge', p, x, lines)
        /\ Spoken(lines, x, Ends) \/ bridge'[p].turns[x] = bridge[p].turns[x] + 1
  <2>1. CASE /\ x \in bridge[p].known /\ bridge[p].turns[x] < MaxTurns
             /\ bridge' = Prompted(bridge, p, x)
    BY <1>1, <1>2, <2>1, PromptedDoes
  <2>2. CASE bridge' = Says(bridge, p, <<Event("error", x)>>)
    <3>1. Does(bridge, bridge', p, x, <<Event("error", x)>>)
      BY <1>1, <1>2, <2>2, SaysDoes
    <3>2. \A y, kinds : Spoken(<<Event("error", x)>>, y, kinds) <=> y = x /\ "error" \in kinds
      BY OneLine
    <3>3. "error" \in Ends
      BY DEF Ends
    <3>4. Spoken(<<Event("error", x)>>, x, Ends)
      BY <3>2, <3>3
    <3>5. QED BY <3>1, <3>4
  <2>3. QED BY <1>4, <2>1, <2>2
<1>6. Carried(sup')
  BY <1>3 DEF SteadyInv, Carried, SamePlaces
<1>7. ASSUME NEW y \in sup'.busy \ {x} PROVE Tended(sup', bridge', y)
  <2>1. y \in sup.busy /\ y \in Sessions
    BY <1>1, <1>3, <1>7 DEF Supervisor
  <2>2. Listens(bridge, sup', bridge', y)
    BY <1>5, <1>7, <2>1, WroteListens DEF Does
  <2>3. Holds(sup, sup', y)
    BY <1>3, SamePlacesHold DEF KernelOf
  <2>4. QED BY <2>1, <2>2, <2>3, TendedStep DEF SteadyInv, Attended
<1>8. Tended(sup', bridge', x)
  <2>1. CASE Spoken(lines, x, Ends)
    BY <1>5, <2>1, WroteWritten DEF Does, Tended
  <2>2. CASE bridge'[p].turns[x] = bridge[p].turns[x] + 1
    <3>1. bridge[p].turns[x] \in Nat
      BY <1>1, <1>2, TurnsNat
    <3>2. StartsTurn(p, x) /\ bridge'[p].turns[x] > 0
      BY <2>2, <3>1 DEF StartsTurn
    <3>3. Houses(sup', p, x)
      BY <1>2, <3>2 DEF RelaysInPlace
    <3>4. QED BY <1>2, <3>2, <3>3 DEF Tended, Minds
  <2>3. QED BY <1>5, <2>1, <2>2
<1>9. QED BY <1>6, <1>7, <1>8 DEF Attended

\* What the sidecars do by themselves.
LEMMA SidecarDoes ==
    ASSUME bridge \in Bridges, NEW p \in Procs, NEW x \in Sessions,
           \/ TurnWorks(p, x) \/ ModelCallFails(p, x) \/ TurnSettles(p, x) \/ TurnFails(p, x)
           \/ WorkersStart(p, x) \/ WorkersEnd(p, x)
    PROVE  /\ sup' = sup /\ Live(p)
           /\ \E lines :
                 /\ Does(bridge, bridge', p, x, lines)
                 /\ (bridge[p].turns[x] > 0 => bridge'[p].turns[x] > 0) \/ Spoken(lines, x, Ends)
                 /\ Reports(bridge, bridge', p, x, lines)
<1>1. sup' = sup /\ Live(p)
  BY DEF TurnWorks, ModelCallFails, TurnSettles, TurnFails, TurnEnds, WorkersStart, WorkersEnd, Runs
<1>2. CASE TurnWorks(p, x)
  <2> DEFINE lines == <<Event("activity", x)>>
  <2>1. /\ bridge' = Says(bridge, p, lines)
        /\ \A i \in DOMAIN lines : lines[i].kind = "activity"
    BY <1>2, OneLine DEF TurnWorks, Event
  <2>2. /\ Does(bridge, bridge', p, x, lines) /\ bridge'[p].turns = bridge[p].turns
        /\ bridge'[p].workers = bridge[p].workers
    BY <2>1, SaysDoes
  <2> HIDE DEF lines
  <2>3. QED BY <1>1, <2>1, <2>2 DEF Reports
<1>3. CASE TurnSettles(p, x) \/ TurnFails(p, x)
  <2>1. PICK kind \in {"settled", "error"} : TurnEnds(p, x, kind)
    BY <1>3 DEF TurnSettles, TurnFails
  <2> DEFINE n == bridge[p].turns[x] - 1
             lines == <<Event(kind, x)>>
  <2>2. bridge[p].turns[x] > 0 /\ bridge' = Says([bridge EXCEPT ![p].turns[x] = n], p, lines)
    <3>1. [bridge EXCEPT ![p].turns[x] = @ - 1] = [bridge EXCEPT ![p].turns[x] = n]
      BY DEF Bridges, Bridge
    <3>2. QED BY <2>1, <3>1 DEF TurnEnds, Runs
  <2>3. n \in 0..MaxTurns
    BY <2>2, BridgeParts, BoundsAssumption
  <2>4. /\ lines \in Seq(Events) /\ \A i \in DOMAIN lines : lines[i] = Event(kind, x)
        /\ \A y, kinds : Spoken(lines, y, kinds) <=> y = x /\ kind \in kinds
    <3>1. CASE kind = "settled"
      BY <3>1, OneLine
    <3>2. CASE kind = "error"
      BY <3>2, OneLine
    <3>3. QED BY <3>1, <3>2
  <2>5. Spoken(lines, x, Ends) /\ \A i \in DOMAIN lines : lines[i].kind # "workers"
    <3>1. \A y, kinds : Spoken(lines, y, kinds) <=> y = x /\ kind \in kinds
      BY <2>4
    <3>2. kind \in Ends /\ Event(kind, x).kind # "workers"
      BY DEF Ends, Event
    <3> HIDE DEF lines, Event
    <3>3. QED BY <2>4, <3>1, <3>2
  <2> HIDE DEF lines, n
  <2>6. Does(bridge, bridge', p, x, lines) /\ bridge'[p].workers = bridge[p].workers
    BY <2>2, <2>3, <2>4, EndingDoes DEF Event
  <2>7. QED BY <1>1, <2>5, <2>6 DEF Reports
<1>4. CASE ModelCallFails(p, x)
  <2> DEFINE lines == <<Event("error", x), Event("settled", x)>>
  <2>1. bridge' = Says([bridge EXCEPT ![p].turns[x] = 0], p, lines)
    BY <1>4 DEF ModelCallFails
  <2> HIDE DEF lines
  <2>2. /\ lines \in Seq(Events) /\ Spoken(lines, x, {"settled"})
        /\ \A i \in DOMAIN lines : lines[i].session = x /\ lines[i].kind \in {"error", "settled"}
    BY TwoLines DEF lines
  <2>3. Spoken(lines, x, Ends)
    BY <2>2 DEF Spoken, Ends
  <2>4. Does(bridge, bridge', p, x, lines) /\ bridge'[p].workers = bridge[p].workers
    <3>1. 0 \in 0..MaxTurns
      BY BoundsAssumption
    <3>2. QED BY <2>1, <2>2, <3>1, EndingDoes
  <2>5. Reports(bridge, bridge', p, x, lines)
    BY <2>2, <2>4 DEF Reports
  <2>6. QED BY <1>1, <2>3, <2>4, <2>5
<1>5. CASE WorkersStart(p, x) \/ WorkersEnd(p, x)
  <2>1. PICK kind \in {"workers", "workersDone"}, W \in SUBSET Sessions :
           /\ kind = "workers" => x \in Researchers /\ x \in W
           /\ W \ {x} = bridge[p].workers \ {x}
           /\ bridge' = Says([bridge EXCEPT ![p].workers = W], p, <<Event(kind, x)>>)
    <3>1. bridge[p].workers \subseteq Sessions
      BY BridgeParts
    <3>2. CASE WorkersStart(p, x)
      <4>1. /\ bridge[p].workers \cup {x} \in SUBSET Sessions /\ x \in Researchers
            /\ bridge' = Says([bridge EXCEPT ![p].workers = bridge[p].workers \cup {x}], p,
                              <<Event("workers", x)>>)
        <5>1. [bridge EXCEPT ![p].workers = @ \cup {x}]
                = [bridge EXCEPT ![p].workers = bridge[p].workers \cup {x}]
          BY DEF Bridges, Bridge
        <5>2. QED BY <3>1, <3>2, <5>1 DEF WorkersStart
      <4>2. QED BY <4>1
    <3>3. CASE WorkersEnd(p, x)
      <4>1. /\ bridge[p].workers \ {x} \in SUBSET Sessions
            /\ bridge' = Says([bridge EXCEPT ![p].workers = bridge[p].workers \ {x}], p,
                              <<Event("workersDone", x)>>)
        <5>1. [bridge EXCEPT ![p].workers = @ \ {x}]
                = [bridge EXCEPT ![p].workers = bridge[p].workers \ {x}]
          BY DEF Bridges, Bridge
        <5>2. QED BY <3>1, <3>3, <5>1 DEF WorkersEnd
      <4>2. QED BY <4>1
    <3>4. QED BY <1>5, <3>2, <3>3
  <2> DEFINE lines == <<Event(kind, x)>>
  <2>2. /\ lines \in Seq(Events) /\ \A i \in DOMAIN lines : lines[i] = Event(kind, x)
        /\ \A y, kinds : Spoken(lines, y, kinds) <=> y = x /\ kind \in kinds
    <3>1. CASE kind = "workers"
      BY <2>1, <3>1, OneLine
    <3>2. CASE kind = "workersDone"
      BY <3>2, OneLine
    <3>3. QED BY <3>1, <3>2
  <2>3. /\ bridge' = Says([bridge EXCEPT ![p].workers = W], p, lines)
        /\ Event(kind, x).session = x /\ Event(kind, x).kind = kind
    BY <2>1 DEF Event
  <2> HIDE DEF lines
  <2>4. Does(bridge, bridge', p, x, lines) /\ bridge'[p].turns = bridge[p].turns
    <3>1. /\ \A y \in Sessions \ {x} : y \in W <=> y \in bridge[p].workers
          /\ \A i \in DOMAIN lines : lines[i].session = x
      BY <2>1, <2>2, <2>3
    <3>2. lines \in Seq(Events) /\ bridge \in Bridges
      BY <2>2
    <3>3. QED BY <2>3, <3>1, <3>2, WorkersDo
  <2>5. Reports(bridge, bridge', p, x, lines)
    <3>1. CASE kind = "workers"
      <4>1. bridge'[p].workers = W
        BY <2>3 DEF Says, Bridges, Bridge
      <4>2. QED BY <2>1, <3>1, <4>1 DEF Reports
    <3>2. CASE kind = "workersDone"
      <4>1. Spoken(lines, x, Dismissals)
        BY <2>2, <3>2 DEF Dismissals
      <4>2. \A i \in DOMAIN lines : lines[i].kind # "workers"
        BY <2>2, <2>3, <3>2
      <4>3. QED BY <4>1, <4>2 DEF Reports
    <3>3. QED BY <3>1, <3>2
  <2>6. QED BY <1>1, <2>4, <2>5
<1>6. QED BY <1>2, <1>3, <1>4, <1>5

LEMMA SidecarSteady ==
    ASSUME SteadyInv, NEW p \in Procs, NEW x \in Sessions,
           \/ TurnWorks(p, x) \/ ModelCallFails(p, x) \/ TurnSettles(p, x) \/ TurnFails(p, x)
           \/ WorkersStart(p, x) \/ WorkersEnd(p, x)
    PROVE  Carried(sup') /\ Attended(sup', bridge')
BY SteadyParts, SidecarDoes, DoesSteady

\* Reads(b, c, p): the first line p wrote is read, and nothing else happens.
Reads(b, c, p) ==
    /\ b[p].out # <<>> /\ c[p].out = Tail(b[p].out)
    /\ c[p].turns = b[p].turns /\ c[p].workers = b[p].workers /\ c[p].refused = b[p].refused
    /\ \A q \in Procs \ {p} : c[q] = b[q]

\* What is not read is still to be read.
LEMMA ReadsWritten ==
    ASSUME NEW b \in Bridges, NEW c, NEW p \in Procs, Reads(b, c, p), NEW x, NEW kinds,
           ~(Head(b[p].out).session = x /\ Head(b[p].out).kind \in kinds)
    PROVE  Written(c, x, kinds) <=> Written(b, x, kinds)
<1>1. b[p].out \in Seq(Events) /\ b[p].out # <<>>
  BY BridgeParts DEF Reads
<1>2. Spoken(Tail(b[p].out), x, kinds) <=> Spoken(b[p].out, x, kinds)
  <2> DEFINE out == b[p].out
  <2>1. out \in Seq(Events) /\ out # <<>> /\ ~(out[1].session = x /\ out[1].kind \in kinds)
    BY <1>1
  <2> HIDE DEF out
  <2>2. ASSUME NEW i \in DOMAIN Tail(out)
        PROVE  i + 1 \in DOMAIN out /\ Tail(out)[i] = out[i + 1]
    BY <2>1
  <2>3. ASSUME NEW i \in DOMAIN out, i # 1
        PROVE  i - 1 \in DOMAIN Tail(out) /\ Tail(out)[i - 1] = out[i]
    BY <2>1, <2>3
  <2>4. Spoken(Tail(out), x, kinds) => Spoken(out, x, kinds)
    BY <2>2 DEF Spoken
  <2>5. Spoken(out, x, kinds) => Spoken(Tail(out), x, kinds)
    BY <2>1, <2>3 DEF Spoken
  <2>6. QED BY <2>4, <2>5 DEF out
<1>3. QED BY <1>2 DEF Reads, Written

\* ReadEvent, taken apart.
LEMMA ReadEventReads ==
    ASSUME IInv, NEW p \in Procs, ReadEvent(p)
    PROVE  /\ Reads(bridge, bridge', p) /\ Head(bridge[p].out) \in Events
           /\ sup' = Observed(sup, Head(bridge[p].out))
<1>1. bridge \in Bridges /\ bridge[p].out \in Seq(Events) /\ bridge[p].out # <<>>
  BY IInvParts, BridgeParts DEF ReadEvent
<1>2. Reads(bridge, bridge', p)
  BY <1>1 DEF ReadEvent, Reads, Bridges, Bridge
<1>3. QED BY <1>1, <1>2 DEF ReadEvent

\* One line of output: who is still at work after it is not the one whose turn it ends.
LEMMA ReadSteady ==
    ASSUME SteadyInv, NEW p \in Procs, ReadEvent(p)
    PROVE  Carried(sup') /\ Attended(sup', bridge')
<1> DEFINE e == Head(bridge[p].out)
<1>1. /\ sup \in Supervisor /\ bridge \in Bridges
      /\ Reads(bridge, bridge', p) /\ e \in Events /\ sup' = Observed(sup, e)
  BY SteadyParts, ReadEventReads
<1>2. /\ SamePlaces(sup, sup') /\ sup'.kernels = sup.kernels /\ sup'.workspaces = sup.workspaces
      /\ sup'.busy \subseteq sup.busy /\ (e.kind \in Ends => e.session \notin sup'.busy)
  BY <1>1 DEF Observed, SamePlaces, Supervisor, Ends
<1>3. ASSUME NEW y \in sup'.busy PROVE Listens(bridge, sup', bridge', y)
  <2>1. Written(bridge', y, Ends) <=> Written(bridge, y, Ends)
    BY <1>1, <1>2, <1>3, ReadsWritten
  <2>2. QED BY <1>1, <2>1 DEF Reads, Listens
<1>4. QED BY <1>2, <1>3, SamePlacesSteady DEF KernelOf

-----------------------------------------------------------------------------
(* Every step of a steady execution.                                        *)

\* No dispatch brings a pending fork: no message to it is on the way.
LEMMA DispatchKeepsForks ==
    ASSUME SteadyInv, NEW x \in Sessions, NEW w \in Workspaces,
           SendMessage(x, w) \/ SendMessageSpawnFails(x, w) \/ RefreshBackgroundTasks(x, w)
    PROVE  \A fork \in forks : fork[2] \notin sup'.sessions
<1>1. CASE SendMessage(x, w)
  <2>1. CanEnsure(sup, KernelOf(sup, x), w) /\ Good(Ready(x, w)) /\ Good(Ensured(x, w))
    BY <1>1, SteadyParts, SendReady
  <2>2. Ready(x, w).sessions = Ensured(x, w).sessions
    BY <2>1 DEF Ready, Good, Supervisor
  <2>3. Ensured(x, w).sessions \subseteq sup.sessions
    BY <2>1, EnsuredCares DEF Cares, Guards
  <2> DEFINE ready == Ready(x, w)
  <2>4. \/ sup' = [ready EXCEPT !.sessions = @ \cup {x}, !.busy = @ \cup {x}]
        \/ sup' = ready
    BY <1>1 DEF SendMessage, Ready, Ensured
  <2>5. ready \in Supervisor
    BY <2>1 DEF Good
  <2> HIDE DEF ready
  <2>6. sup'.sessions \subseteq ready.sessions \cup {x}
    BY <2>4, <2>5 DEF Supervisor
  <2>7. \A fork \in forks : fork[2] # x
    BY <1>1, ForksAssumption DEF SendMessage, Dispatchable, Sending, SteadyInv, ForksPending
  <2>8. sup'.sessions \subseteq sup.sessions \cup {x}
    BY <2>2, <2>3, <2>6 DEF ready
  <2>9. QED BY <2>7, <2>8 DEF SteadyInv, ForksPending
<1>2. CASE SendMessageSpawnFails(x, w)
  BY <1>2, UnspawnedCares DEF Cares, Guards, SteadyInv, ForksPending
<1>3. CASE RefreshBackgroundTasks(x, w)
  <2>1. KernelOf(sup, x) \in Kernels
    BY SteadyParts, KernelOfType
  <2>2. Cares(sup, sup')
    BY <1>3, <2>1, SteadyParts, EnsureCares DEF RefreshBackgroundTasks
  <2>3. QED BY <2>2 DEF Cares, Guards, SteadyInv, ForksPending
<1>4. QED BY <1>1, <1>2, <1>3

\* Nor do the stops, the sidecars and the readers.
LEMMA OthersKeepForks ==
    ASSUME SteadyInv, Next, ~Binds, ~Sends, ~SpawnFailures, ~Recovery, ~ProbesAndForks
    PROVE  sup'.sessions \subseteq sup.sessions /\ forks' = forks
<1>1. IInv /\ Good(sup) /\ sup \in Supervisor /\ sup.busy \subseteq sup.sessions
  BY SteadyParts
<1>2. CASE Aborts \/ Relays \/ Streams \/ TurnEndings
  BY <1>1, <1>2 DEF Aborts, AbortMessage, ForceStop, ModelCallFails, Relays, RelayMessage,
     ContinueBusy, Streams, TurnWorks, TurnEndings, TurnSettles, TurnFails, TurnEnds, Supervisor
<1>3. CASE Removals
  <2>1. PICK x \in Sessions : sup' = ForgetSessions(sup, {x}) /\ forks' = forks
    BY <1>3 DEF Removals, DetachSession, DestroySession, Dispose
  <2>2. QED BY <1>1, <2>1, ForgottenSession
<1>4. CASE Research
  BY <1>1, <1>4 DEF Research, TrackResearchRun, UntrackResearchRun, WorkersStart, WorkersEnd,
     Supervisor
<1>5. CASE Rotation \/ Ceilings \/ Crashes \/ Idling
  <2>1. Marks(sup, sup')
    BY <1>1, <1>5, MarksAll DEF Rotation, Ceilings, Crashes, Idling
  <2>2. forks' = forks
    BY <1>5 DEF Rotation, InvalidateCredentials, Ceilings, BusyCeiling, Crashes, Crash, Idling,
       IdleTimeout
  <2>3. QED BY <2>1, <2>2 DEF Marks, SameSessions
<1>6. CASE Revocation
  BY <1>1, <1>6, StopStaleCares DEF Revocation, StopStaleSidecars, Cares, Guards
<1>7. CASE Restarts
  <2>1. PICK x \in Sessions : RestartEngine(x)
    BY <1>7 DEF Restarts
  <2> DEFINE p == ProcessForSession(sup, x)
  <2>2. p \in Tracked(sup) /\ sup' = Restarted(sup, x, p) /\ forks' = forks
    BY <1>1, <2>1, ProcessForSessionTracked DEF RestartEngine
  <2> HIDE DEF p
  <2>3. Sheds(sup, sup')
    BY <1>1, <2>2, RestartedSheds
  <2>4. QED BY <2>2, <2>3 DEF Sheds, Forgets
<1>8. CASE Readers
  <2>1. ASSUME NEW p \in Procs, ReadEvent(p) PROVE sup'.sessions \subseteq sup.sessions
    <3>1. sup' = Observed(sup, Head(bridge[p].out))
      BY <2>1 DEF ReadEvent
    <3>2. QED BY <1>1, <3>1 DEF Observed, Supervisor
  <2>2. ASSUME NEW p \in Procs, ProcessExits(p) PROVE sup'.sessions \subseteq sup.sessions
    BY <1>1, <2>2, ExitedSheds DEF ProcessExits, Sheds, Forgets
  <2>3. ASSUME NEW x \in Sessions, DeliverNotice(x) PROVE sup'.sessions \subseteq sup.sessions
    BY <1>1, <2>3 DEF DeliverNotice, Supervisor
  <2>4. forks' = forks
    BY <1>8 DEF Readers, ReadEvent, ProcessExits, DeliverNotice
  <2>5. QED BY <1>8, <2>1, <2>2, <2>3, <2>4 DEF Readers
<1>9. QED BY <1>2, <1>3, <1>4, <1>5, <1>6, <1>7, <1>8 DEF Next

\* A pending fork stays unknown until it is answered.
LEMMA OthersForksPending ==
    ASSUME SteadyInv, Next, ~Binds
    PROVE  ForksPending'
<1>1. sup \in Supervisor /\ ForksPending /\ sends' \subseteq sends
  BY SteadyParts, WhoSends DEF SteadyInv
<1>2. ASSUME forks' = forks, \A fork \in forks : fork[2] \notin sup'.sessions
      PROVE  ForksPending'
  BY <1>1, <1>2 DEF ForksPending, Sending
<1>3. CASE Sends \/ SpawnFailures
  <2>1. forks' = forks
    BY <1>3 DEF Sends, SpawnFailures, SendMessage, SendMessageSpawnFails
  <2>2. \A fork \in forks : fork[2] \notin sup'.sessions
    BY <1>3, DispatchKeepsForks DEF Sends, SpawnFailures
  <2>3. QED BY <1>2, <2>1, <2>2
<1>4. CASE Recovery
  <2>1. forks' = forks
    BY <1>4 DEF Recovery, RefreshBackgroundTasks, RecoverSession, RecoveryEnds
  <2>2. ASSUME NEW x \in Sessions, NEW w \in Workspaces, RecoverSession(x, w)
        PROVE  \A fork \in forks : fork[2] \notin sup'.sessions
    BY <1>1, <2>2, ForksAssumption DEF RecoverSession, Supervisor, ForksPending
  <2>3. ASSUME NEW x \in Sessions, RecoveryEnds(x)
        PROVE  \A fork \in forks : fork[2] \notin sup'.sessions
    BY <1>1, <2>3 DEF RecoveryEnds, Supervisor, ForksPending
  <2>4. QED BY <1>2, <1>4, <2>1, <2>2, <2>3, DispatchKeepsForks DEF Recovery
<1>5. CASE ProbesAndForks
  <2>1. ASSUME NEW x \in Sessions, StartProbe(x) \/ EndProbe(x)
        PROVE  ForksPending'
    <3>1. forks' = forks
      BY <2>1 DEF StartProbe, EndProbe, Dispose
    <3>2. CASE StartProbe(x)
      BY <1>1, <1>2, <3>1, <3>2 DEF StartProbe, Supervisor, ForksPending
    <3>3. CASE EndProbe(x)
      <4>1. /\ sup' = [ForgetSessions(sup, {x}) EXCEPT !.waiters = @ \ {x}]
            /\ ForgetSessions(sup, {x}) \in Supervisor
            /\ ForgetSessions(sup, {x}).sessions \subseteq sup.sessions
        BY <1>1, <3>3, ForgottenSession DEF EndProbe
      <4>2. sup'.sessions \subseteq sup.sessions
        BY <4>1 DEF Supervisor
      <4>3. QED BY <1>1, <1>2, <3>1, <4>2 DEF ForksPending
    <3>4. QED BY <2>1, <3>2, <3>3
  <2>2. ASSUME NEW x \in Sessions, NEW y \in Sessions, ForkSession(x, y)
        PROVE  ForksPending'
    <3>1. forks' = forks \cup {<<x, y>>} /\ sup' = sup /\ y \in Forks \ sup.sessions
          /\ ~Sending(y) /\ \A pending \in forks : pending[2] # y
      BY <2>2 DEF ForkSession, Fresh
    <3>2. ASSUME NEW fork \in forks'
          PROVE  fork \in forks \/ (fork = <<x, y>> /\ fork[2] = y)
      BY <3>1, <3>2
    <3>3. ASSUME NEW fork \in forks'
          PROVE  fork[2] \in Forks \ sup'.sessions /\ ~Sending(fork[2])'
      BY <1>1, <3>1, <3>2, <3>3 DEF ForksPending, Sending
    <3>4. ASSUME NEW fork \in forks', NEW other \in forks', fork[2] = other[2]
          PROVE  fork = other
      BY <1>1, <3>1, <3>2, <3>4 DEF ForksPending
    <3>5. QED BY <3>3, <3>4 DEF ForksPending, Sending
  <2>3. ASSUME NEW x \in Sessions, NEW y \in Sessions, ForkAnswered(x, y)
        PROVE  ForksPending'
    <3>1. forks' = forks \ {<<x, y>>} /\ <<x, y>> \in forks
          /\ sup'.sessions = sup.sessions \cup {y}
      BY <1>1, <2>3 DEF ForkAnswered, Supervisor
    <3>2. \A fork \in forks' : fork[2] # y
      BY <1>1, <3>1 DEF ForksPending
    <3>3. QED BY <1>1, <3>1, <3>2 DEF ForksPending, Sending
  <2>4. ASSUME NEW x \in Sessions, NEW y \in Sessions, ForkTimesOut(x, y)
        PROVE  ForksPending'
    BY <1>1, <2>4 DEF ForkTimesOut, ForksPending, Sending
  <2>5. QED BY <1>5, <2>1, <2>2, <2>3, <2>4 DEF ProbesAndForks
<1>6. CASE ~(Sends \/ SpawnFailures \/ Recovery \/ ProbesAndForks)
  BY <1>1, <1>2, <1>6, OthersKeepForks DEF ForksPending
<1>7. QED BY <1>3, <1>4, <1>5, <1>6

\* So it does while messages are bound.
LEMMA NextForksPending ==
    ASSUME SteadyInv, Next
    PROVE  ForksPending'
<1>1. ASSUME NEW x \in Sessions, NEW w \in Workspaces, BindSessionKernel(x, w)
      PROVE  ForksPending'
  <2>1. /\ forks' = forks /\ sends' = sends \cup {<<x, w>>} /\ (x \in Forks => x \in sup.sessions)
        /\ sup'.sessions = sup.sessions
    BY <1>1, BindCares DEF BindSessionKernel
  <2>2. QED BY <2>1 DEF ForksPending, Sending, SteadyInv
<1>2. QED BY <1>1, OthersForksPending DEF Binds

\* A step of a steady execution leaves every turn attended.
LEMMA SteadyAttended ==
    ASSUME SteadyInv, Steady
    PROVE  Carried(sup') /\ Attended(sup', bridge')
<1>1. Next /\ Matched(sup') /\ Unrestarted(sup') /\ RelaysInPlace
  BY DEF Steady
<1>2. CASE Sends \/ SpawnFailures
  BY <1>1, <1>2, SendSteady, DispatchSteady DEF Sends, SpawnFailures
<1>13. CASE Binds
  BY <1>13, BindSteady DEF Binds
<1>3. CASE Aborts \/ TurnEndings \/ Streams
  BY <1>3, CommandsSteady, SidecarSteady DEF Aborts, TurnEndings, Streams
<1>4. CASE Relays
  BY <1>1, <1>4, RelaySteady, CommandsSteady DEF Relays
<1>5. CASE Removals
  BY <1>5, RemovalSteady DEF Removals
<1>6. CASE Research
  BY <1>6, BookkeepingSteady, SidecarSteady DEF Research
<1>7. CASE Recovery
  BY <1>7, DispatchSteady, BookkeepingSteady DEF Recovery
<1>8. CASE ProbesAndForks
  BY <1>8, BookkeepingSteady, RemovalSteady, ForkSteady DEF ProbesAndForks
<1>9. CASE Rotation \/ Ceilings \/ Crashes \/ Idling
  BY <1>9, MarksSteady DEF Rotation, Ceilings, Crashes, Idling
<1>10. CASE Revocation \/ Restarts
  BY <1>1, <1>10, StopsSteady DEF Revocation, Restarts
<1>11. CASE Readers
  BY <1>1, <1>11, ReadSteady, StopsSteady, BookkeepingSteady DEF Readers
<1>12. QED BY <1>1, <1>2, <1>3, <1>4, <1>5, <1>6, <1>7, <1>8, <1>9, <1>10, <1>11, <1>13 DEF Next

\* The invariant of steady executions is inductive.
LEMMA NextSteadyInv == SteadyInv /\ [Steady]_vars => SteadyInv'
<1> SUFFICES ASSUME SteadyInv, [Steady]_vars PROVE SteadyInv'
  OBVIOUS
<1>1. KernelInv'
  BY NextKernelInv DEF SteadyInv, Steady
<1>2. CASE Steady
  BY <1>1, <1>2, SteadyAttended, NextForksPending DEF SteadyInv, Steady
<1>3. CASE UNCHANGED vars
  BY <1>1, <1>3 DEF vars, SteadyInv, ForksPending, Sending
<1>4. QED BY <1>2, <1>3

\* At first nobody works.
LEMMA InitSteadyInv == Init => SteadyInv
<1> SUFFICES ASSUME Init PROVE SteadyInv
  OBVIOUS
<1>1. Matched(sup) /\ Unrestarted(sup) /\ Carried(sup) /\ Attended(sup, bridge) /\ ForksPending
  BY DEF Init, NewSupervisor, Matched, Unrestarted, Carried, Attended, ForksPending
<1>2. QED BY <1>1, InitKernelInv DEF SteadyInv

\* Every session of busySessions has a turn behind it, or what takes it out is under way, in
\* every execution whatever is sent, parked, retired, stopped, removed, forked, recovered or
\* crashes - as long as no session loses its kernel, no retiring process is restarted and no
\* message is relayed past the process its conversation works in.
THEOREM BusySteadily == SteadySpec => []BusyHasATurn
<1>1. SteadyInv => BusyHasATurn
  BY SteadyParts, AttendedHasATurn DEF SteadyInv
<1>2. QED BY InitSteadyInv, NextSteadyInv, <1>1, PTL DEF SteadySpec

-----------------------------------------------------------------------------
(* Calm executions: steady ones in which no sidecar dies by itself, no late  *)
(* line shows a conversation as running that is not at work and has no       *)
(* message on the way, and none is archived while it is shown as running,    *)
(* or runs again before the line about its removal has been read.           *)

Shown == ui' \subseteq ui \cup {x \in Sessions \ Probes : x \in sup'.busy \/ Sending(x)'}
Unremoved ==
    /\ \A x \in Sessions : DetachSession(x) => x \notin ui
    /\ \A x \in ui' : ~Written(bridge', x, {"destroyed"})

Calm == Steady /\ ~Crashes /\ Shown /\ Unremoved
CalmSpec == Init /\ [][Calm]_vars

CalmInv ==
    /\ SteadyInv /\ AllLive(sup)
    /\ ui \cap Probes = {} /\ \A x \in ui : x \in sup.busy \cup sup.notices \/ Sending(x)
    /\ \A x \in ui : ~Written(bridge, x, {"destroyed"})

\* A session that is shown as running before and after a step, and at work, stays so or is told.
Told == \A x \in ui \cap ui' : x \in sup.busy \cup sup.notices => x \in sup'.busy \cup sup'.notices

\* Where all stays in place, all that is held lives on.
LEMMA SamePlacesLive ==
    ASSUME NEW s, NEW t, SamePlaces(s, t), AllLive(s)
    PROVE  AllLive(t)
BY DEF SamePlaces, AllLive, Tracked, ActiveProcs, ParkedProcs

\* What cares for sessions tells them.
LEMMA CaresTold ==
    ASSUME AllLive(sup), Cares(sup, sup')
    PROVE  AllLive(sup') /\ Told
BY DEF Cares, Tells, Told

\* A dispatch tells whom it stops.
LEMMA SendTold ==
    ASSUME CalmInv, NEW x \in Sessions, NEW w \in Workspaces, SendMessage(x, w)
    PROVE  AllLive(sup') /\ Told
<1> DEFINE e == Ensured(x, w)
           ready == Ready(x, w)
<1>1. /\ CanEnsure(sup, KernelOf(sup, x), w)
      /\ Good(e) /\ Good(ready) /\ SamePlaces(e, ready) /\ SamePlaces(ready, sup')
  BY SteadyParts, SendReady DEF CalmInv
<1>2. Cares(sup, e)
  BY <1>1, EnsuredCares DEF CalmInv
<1>3. ready.busy = e.busy /\ ready.notices = e.notices
  BY <1>1 DEF Ready, Good, Supervisor
<1>4. \/ sup' = [ready EXCEPT !.sessions = @ \cup {x}, !.busy = @ \cup {x}]
      \/ sup' = ready
  BY DEF SendMessage, Ready, Ensured
<1> HIDE DEF e, ready
<1>5. ready.busy \subseteq sup'.busy /\ sup'.notices = ready.notices
  BY <1>1, <1>4 DEF Good, Supervisor
<1>6. AllLive(sup')
  BY <1>1, <1>2, SamePlacesLive DEF Cares, CalmInv
<1>7. QED BY <1>2, <1>3, <1>5, <1>6 DEF Cares, Tells, Told

\* So does one that fails to start a process, and a refresh.
LEMMA DispatchTold ==
    ASSUME CalmInv, NEW x \in Sessions, NEW w \in Workspaces,
           SendMessageSpawnFails(x, w) \/ RefreshBackgroundTasks(x, w)
    PROVE  AllLive(sup') /\ Told
<1>1. CASE SendMessageSpawnFails(x, w)
  BY <1>1, UnspawnedCares, CaresTold DEF CalmInv
<1>2. CASE RefreshBackgroundTasks(x, w)
  <2>1. KernelOf(sup, x) \in Kernels
    BY SteadyParts, KernelOfType DEF CalmInv
  <2>2. Cares(sup, sup')
    BY <1>2, <2>1, SteadyParts, EnsureCares DEF RefreshBackgroundTasks, CalmInv
  <2>3. QED BY <2>2, CaresTold DEF CalmInv
<1>3. QED BY <1>1, <1>2

\* Stops tell whom they stop, but for the conversation that asked for the restart; what died was
\* stopped before.
LEMMA StopsTold ==
    ASSUME CalmInv, Unrestarted(sup'),
           \/ StopStaleSidecars
           \/ \E x \in Sessions : RestartEngine(x)
           \/ \E p \in Procs : ProcessExits(p)
    PROVE  AllLive(sup') /\ Told
<1>1. /\ SteadyInv /\ Good(sup) /\ sup.busy \subseteq sup.sessions /\ AllLive(sup)
  BY SteadyParts DEF CalmInv
<1>2. CASE StopStaleSidecars
  BY <1>1, <1>2, StopStaleCares, CaresTold DEF StopStaleSidecars
<1>3. ASSUME NEW x \in Sessions, RestartEngine(x)
      PROVE  AllLive(sup') /\ Told
  <2> DEFINE p == ProcessForSession(sup, x)
  <2>1. p \in InRotation(sup) /\ sup' = Restarted(sup, x, p) /\ ui' = ui \ {x}
    BY <1>1, <1>3, RestartInRotation
  <2>2. /\ AllLive(sup')
        /\ sup.busy \cup sup.notices \subseteq sup'.busy \cup sup'.notices \cup {x}
    BY <1>1, <2>1, RestartedGuards
  <2>3. QED BY <2>1, <2>2 DEF Told
<1>4. ASSUME NEW p \in Procs, ProcessExits(p)
      PROVE  AllLive(sup') /\ Told
  <2>1. p \notin Tracked(sup)
    BY <1>1, <1>4 DEF ProcessExits, AllLive
  <2>2. Cares(sup, sup')
    BY <1>1, <1>4, <2>1, ExitedGuards DEF ProcessExits, SteadyInv, Unrestarted
  <2>3. QED BY <1>1, <2>2, CaresTold
<1>5. QED BY <1>2, <1>3, <1>4

\* New credentials and timers end no process.
LEMMA MarksTold ==
    ASSUME CalmInv,
           InvalidateCredentials \/ \E p \in Procs : IdleTimeout(p) \/ BusyCeiling(p)
    PROVE  AllLive(sup') /\ Told
<1>1. sup \in Supervisor /\ Tracked(sup) \subseteq Procs /\ IInv
  BY SteadyParts, TrackedProcs DEF CalmInv
<1>2. Marks(sup, sup')
  BY <1>1, MarksAll
<1>3. Tracked(sup') = Tracked(sup)
  BY <1>2 DEF Marks, Marked, Tracked, ActiveProcs, ParkedProcs
<1>4. \A q \in Procs : /\ sup'.child[q].life = sup.child[q].life
                       /\ sup'.child[q].retired = sup.child[q].retired
  <2>1. CASE InvalidateCredentials
    BY <1>1, <2>1 DEF InvalidateCredentials, Supervisor, Child
  <2>2. ASSUME NEW p \in Procs, IdleTimeout(p) \/ BusyCeiling(p)
        PROVE  \A q \in Procs : /\ sup'.child[q].life = sup.child[q].life
                                /\ sup'.child[q].retired = sup.child[q].retired
    BY <1>1, <2>2 DEF IdleTimeout, BusyCeiling, Supervisor, Child
  <2>3. QED BY <2>1, <2>2
<1>5. QED BY <1>1, <1>2, <1>3, <1>4 DEF Marks, SameSessions, AllLive, Told, CalmInv

\* Bookkeeping ends no turn; a notice that is delivered takes its conversation off the screen.
LEMMA BookkeepingTold ==
    ASSUME CalmInv, NEW x \in Sessions,
           \/ TrackResearchRun(x) \/ UntrackResearchRun(x) \/ RecoveryEnds(x) \/ StartProbe(x)
           \/ DeliverNotice(x) \/ \E w \in Workspaces : RecoverSession(x, w)
           \/ \E y \in Sessions : ForkSession(x, y) \/ ForkTimesOut(x, y) \/ ForkAnswered(x, y)
    PROVE  AllLive(sup') /\ Told
<1>1. sup \in Supervisor
  BY SteadyParts DEF CalmInv
<1>2. SamePlaces(sup, sup') /\ sup'.busy = sup.busy
  BY <1>1 DEF TrackResearchRun, UntrackResearchRun, RecoveryEnds, StartProbe, DeliverNotice,
     RecoverSession, ForkSession, ForkTimesOut, ForkAnswered, SamePlaces, Supervisor
<1>3. sup.notices \cap ui' \subseteq sup'.notices
  BY <1>1 DEF TrackResearchRun, UntrackResearchRun, RecoveryEnds, StartProbe, DeliverNotice,
     RecoverSession, ForkSession, ForkTimesOut, ForkAnswered, Supervisor
<1>4. QED BY <1>2, <1>3, SamePlacesLive DEF Told, CalmInv

\* A conversation that is deleted goes off the screen, one that is archived was not on it.
LEMMA RemovalTold ==
    ASSUME CalmInv, Unremoved, NEW x \in Sessions, DetachSession(x) \/ DestroySession(x) \/ EndProbe(x)
    PROVE  AllLive(sup') /\ Told
<1> DEFINE t == ForgetSessions(sup, {x})
<1>1. t \in Supervisor /\ SamePlaces(sup, t) /\ t.busy = sup.busy \ {x} /\ t.notices = sup.notices
  BY SteadyParts, ForgottenSession DEF CalmInv
<1>2. sup' = t \/ sup' = [t EXCEPT !.waiters = @ \ {x}]
  BY DEF DetachSession, DestroySession, EndProbe
<1>3. x \notin ui \cap ui'
  <2>1. CASE DetachSession(x)
    BY <2>1 DEF Unremoved
  <2>2. CASE DestroySession(x)
    BY <2>2 DEF DestroySession
  <2>3. CASE EndProbe(x)
    BY <2>3 DEF EndProbe, CalmInv
  <2>4. QED BY <2>1, <2>2, <2>3
<1> HIDE DEF t
<1>4. SamePlaces(sup, sup') /\ sup'.busy = sup.busy \ {x} /\ sup'.notices = sup.notices
  BY <1>1, <1>2 DEF SamePlaces, Supervisor
<1>5. QED BY <1>3, <1>4, SamePlacesLive DEF Told, CalmInv

\* The line that takes a conversation out of busySessions takes it off the screen.
LEMMA ReadTold ==
    ASSUME CalmInv, NEW p \in Procs, ReadEvent(p)
    PROVE  AllLive(sup') /\ Told
<1> DEFINE e == Head(bridge[p].out)
<1>1. /\ sup \in Supervisor /\ bridge \in Bridges /\ e \in Events /\ sup' = Observed(sup, e)
      /\ bridge[p].out # <<>>
  BY SteadyParts, ReadEventReads DEF CalmInv, ReadEvent
<1>2. /\ SamePlaces(sup, sup') /\ sup'.notices = sup.notices
      /\ sup.busy \ {e.session} \subseteq sup'.busy
      /\ e.kind \notin {"settled", "error", "destroyed"} => sup'.busy = sup.busy
  BY <1>1 DEF Observed, SamePlaces, Supervisor, Events
<1>3. e.kind \in {"settled", "error"} => e.session \notin ui'
  BY DEF ReadEvent
<1>4. e.kind = "destroyed" => e.session \notin ui
  <2>1. bridge[p].out \in Seq(Events) /\ 1 \in DOMAIN bridge[p].out /\ e = bridge[p].out[1]
    BY <1>1, BridgeParts
  <2>2. QED BY <2>1 DEF CalmInv, Written, Spoken
<1> HIDE DEF e
<1>5. QED BY <1>2, <1>3, <1>4, SamePlacesLive DEF Told, CalmInv

\* Every step of a calm execution tells whom it stops.
LEMMA CalmTold ==
    ASSUME CalmInv, Calm
    PROVE  AllLive(sup') /\ Told
<1>1. Next /\ Unrestarted(sup') /\ Unremoved /\ ~Crashes
  BY DEF Calm, Steady
<1>2. ASSUME sup' = sup PROVE AllLive(sup') /\ Told
  BY <1>2 DEF Told, CalmInv
<1>3. CASE Sends \/ SpawnFailures
  BY <1>3, SendTold, DispatchTold DEF Sends, SpawnFailures
<1>14. CASE Binds
  BY <1>14, BindCares, CaresTold DEF Binds, CalmInv
<1>4. CASE Aborts \/ TurnEndings \/ Streams
  BY <1>2, <1>4 DEF Aborts, TurnEndings, Streams, AbortMessage, ForceStop, ModelCallFails,
     TurnSettles, TurnFails, TurnEnds, TurnWorks
<1>5. CASE Relays
  <2>1. ASSUME NEW x \in Sessions, RelayMessage(x)
        PROVE  AllLive(sup') /\ Told
    <3>1. SamePlaces(sup, sup') /\ sup.busy \subseteq sup'.busy /\ sup'.notices = sup.notices
      BY <2>1, SteadyParts DEF RelayMessage, SamePlaces, Supervisor, CalmInv
    <3>2. QED BY <3>1, SamePlacesLive DEF Told, CalmInv
  <2>2. ASSUME NEW x \in Sessions, ContinueBusy(x)
        PROVE  AllLive(sup') /\ Told
    BY <1>2, <2>2 DEF ContinueBusy
  <2>3. QED BY <1>5, <2>1, <2>2 DEF Relays
<1>6. CASE Removals
  BY <1>1, <1>6, RemovalTold DEF Removals
<1>7. CASE Research
  <2>1. ASSUME NEW p \in Procs, NEW x \in Sessions, WorkersStart(p, x) \/ WorkersEnd(p, x)
        PROVE  AllLive(sup') /\ Told
    BY <1>2, <2>1 DEF WorkersStart, WorkersEnd
  <2>2. QED BY <1>7, <2>1, BookkeepingTold DEF Research
<1>8. CASE Recovery
  BY <1>8, DispatchTold, BookkeepingTold DEF Recovery
<1>9. CASE ProbesAndForks
  BY <1>1, <1>9, BookkeepingTold, RemovalTold DEF ProbesAndForks
<1>10. CASE Rotation \/ Ceilings \/ Idling
  BY <1>10, MarksTold DEF Rotation, Ceilings, Idling
<1>11. CASE Revocation \/ Restarts
  BY <1>1, <1>11, StopsTold DEF Revocation, Restarts
<1>12. CASE Readers
  BY <1>1, <1>12, ReadTold, StopsTold, BookkeepingTold DEF Readers
<1>13. QED BY <1>1, <1>3, <1>4, <1>5, <1>6, <1>7, <1>8, <1>9, <1>10, <1>11, <1>12, <1>14 DEF Next

\* A message leaves the way only by its dispatch.
LEMMA WhoDispatches ==
    ASSUME Next, ~Sends, ~SpawnFailures
    PROVE  sends \subseteq sends'
<1>1. CASE Binds
  BY <1>1 DEF Binds, BindSessionKernel
<1>2. CASE Aborts \/ Relays \/ Removals \/ Research \/ Recovery \/ ProbesAndForks
  BY <1>2 DEF Aborts, AbortMessage, ForceStop, ModelCallFails, Relays, RelayMessage, ContinueBusy,
     Removals, DetachSession, DestroySession, Dispose, Research, TrackResearchRun,
     UntrackResearchRun, WorkersStart, WorkersEnd, Recovery, RefreshBackgroundTasks, RecoverSession,
     RecoveryEnds, ProbesAndForks, StartProbe, EndProbe, ForkSession, ForkAnswered, ForkTimesOut
<1>3. CASE Rotation \/ Ceilings \/ Revocation \/ Restarts \/ Streams \/ TurnEndings \/ Crashes
           \/ Idling \/ Readers
  BY <1>3 DEF Rotation, InvalidateCredentials, Ceilings, BusyCeiling, Revocation, StopStaleSidecars,
     Restarts, RestartEngine, Streams, TurnWorks, TurnEndings, TurnSettles, TurnFails, TurnEnds,
     Crashes, Crash, Idling, IdleTimeout, Readers, ReadEvent, ProcessExits, DeliverNotice
<1>4. QED BY <1>1, <1>2, <1>3 DEF Next

\* A dispatch starts the turn, or takes the conversation off the screen.
LEMMA SentTold ==
    ASSUME CalmInv, NEW x \in Sessions, NEW w \in Workspaces,
           SendMessage(x, w) \/ SendMessageSpawnFails(x, w),
           NEW y \in ui \cap ui', Sending(y)
    PROVE  y \in sup'.busy \/ Sending(y)'
<1>1. CASE y = x
  <2>1. SendMessage(x, w)
    BY <1>1 DEF SendMessageSpawnFails
  <2>2. Good(Ready(x, w))
    BY <2>1, SteadyParts, SendReady DEF CalmInv
  <2> DEFINE ready == Ready(x, w)
  <2>3. sup' = [ready EXCEPT !.sessions = @ \cup {x}, !.busy = @ \cup {x}]
    BY <1>1, <2>1 DEF SendMessage, Ready, Ensured
  <2> HIDE DEF ready
  <2>4. QED BY <1>1, <2>2, <2>3 DEF Good, Supervisor, ready
<1>2. CASE y # x
  <2>1. sends' = sends \ {<<x, w>>}
    BY DEF SendMessage, SendMessageSpawnFails
  <2>2. QED BY <1>2, <2>1 DEF Sending
<1>3. QED BY <1>1, <1>2

\* A message on the way stays there until then.
LEMMA CalmSends ==
    ASSUME CalmInv, Next, NEW y \in ui \cap ui', Sending(y)
    PROVE  y \in sup'.busy \/ Sending(y)'
<1>1. CASE Sends \/ SpawnFailures
  BY <1>1, SentTold DEF Sends, SpawnFailures
<1>2. CASE ~Sends /\ ~SpawnFailures
  BY <1>2, WhoDispatches DEF Sending
<1>3. QED BY <1>1, <1>2

\* The invariant of calm executions is inductive.
LEMMA NextCalmInv == CalmInv /\ [Calm]_vars => CalmInv'
<1> SUFFICES ASSUME CalmInv, [Calm]_vars PROVE CalmInv'
  OBVIOUS
<1>1. SteadyInv'
  BY NextSteadyInv DEF CalmInv, Calm
<1>2. CASE Calm
  <2>1. AllLive(sup') /\ Told /\ Shown /\ Unremoved
    BY <1>2, CalmTold DEF Calm
  <2>2. ASSUME NEW x \in ui'
        PROVE  x \in sup'.busy \cup sup'.notices \/ Sending(x)'
    <3>1. CASE x \notin ui
      BY <2>1, <2>2, <3>1 DEF Shown
    <3>2. CASE x \in ui
      BY <1>2, <2>1, <2>2, <3>2, CalmSends DEF CalmInv, Told, Calm, Steady
    <3>3. QED BY <3>1, <3>2
  <2>3. ui' \cap Probes = {}
    BY <2>1 DEF CalmInv, Shown
  <2>4. QED BY <1>1, <2>1, <2>2, <2>3 DEF CalmInv, Unremoved
<1>3. CASE UNCHANGED vars
  BY <1>1, <1>3 DEF vars, CalmInv, Sending
<1>4. QED BY <1>2, <1>3

\* At first nothing is shown as running.
LEMMA InitCalmInv == Init => CalmInv
<1> SUFFICES ASSUME Init PROVE CalmInv
  OBVIOUS
<1>1. AllLive(sup) /\ ui = {}
  BY DEF Init, NewSupervisor, AllLive, Tracked, ActiveProcs, ParkedProcs
<1>2. QED BY <1>1, InitSteadyInv DEF CalmInv

\* What is shown as running has a turn, or its message, the line that ends it or the notice of
\* its end is under way.
LEMMA CalmEnds == CalmInv => RunningCanEnd
<1> SUFFICES ASSUME CalmInv, NEW x \in ui \ sup.notices, ~Sending(x)
             PROVE  \/ \E p \in Procs : Runs(p, x)
                    \/ WillBeRead(x, {"settled", "error"})
                    \/ EndOfFile(x)
  BY DEF RunningCanEnd
<1>1. x \in sup.busy
  BY DEF CalmInv
<1>2. \/ \E p \in Procs : Runs(p, x)
      \/ WillBeRead(x, {"settled", "error", "destroyed"})
      \/ EndOfFile(x)
  BY <1>1, SteadyParts, AttendedHasATurn DEF CalmInv, SteadyInv, BusyHasATurn
<1>3. WillBeRead(x, {"settled", "error", "destroyed"}) => WillBeRead(x, {"settled", "error"})
  BY DEF CalmInv, Written, Spoken, WillBeRead
<1>4. QED BY <1>2, <1>3

\* A conversation the renderer shows as running can still stop running, in every execution whatever
\* is sent, relayed, parked, evicted, retired, revoked, restarted, forked, recovered or removed - as
\* long as the execution is steady, no sidecar dies by itself, no late line shows a conversation as
\* running, and none is archived while it runs or runs again before its removal was reported.
THEOREM CalmRunsEnd == CalmSpec => []RunningCanEnd
BY InitCalmInv, NextCalmInv, CalmEnds, PTL DEF CalmSpec

-----------------------------------------------------------------------------
(* Homely executions: steady ones in which credentials are not replaced and  *)
(* no conversation moves to another workspace while a turn of it runs.       *)

MovesIdle ==
    \A x \in Sessions :
        sup'.workspaces[x] \notin {sup.workspaces[x], NoWorkspace} => \A p \in Procs : ~Runs(p, x)

Homely == Steady /\ ~Rotation /\ MovesIdle
HomelySpec == Init /\ [][Homely]_vars

\* The process in rotation that x belongs to.
Sits(s, p, x) ==
    p \in InRotation(s) /\ KernelOf(s, x) = s.child[p].kernel /\ s.workspaces[x] = s.child[p].workspace

\* All credentials are current, so nothing retires.
Current(s) == \A p \in Tracked(s) : ~s.child[p].stale

\* Every turn, of a busy session or not, runs where its session belongs.
Seated ==
    \A p \in Procs, x \in Sessions : bridge[p].turns[x] > 0 =>
        sup.child[p].life = "live" /\ Sits(sup, p, x) /\ sup.child[p].kernel = ConversationKernel[x]

HomeInv == SteadyInv /\ Current(sup) /\ Seated

\* What belongs to a process goes on to, as long as that lives.
Stays(s, t) ==
    \A p \in Procs, x \in Sessions : Sits(s, p, x) /\ t.child[p].life = "live" =>
        Sits(t, p, x) /\ t.child[p].kernel = s.child[p].kernel
\* No process comes free, or back to life.
Lasts(s, t) ==
    \A p \in Procs : /\ t.child[p].life = "none" => s.child[p].life = "none"
                     /\ t.child[p].life = "live" => s.child[p].life # "dead"
Anchors(s, t) == Stays(s, t) /\ Lasts(s, t)

\* Nothing happens.
LEMMA AnchorsRefl ==
    ASSUME NEW s
    PROVE  Anchors(s, s)
BY DEF Anchors, Stays, Lasts

\* One operator after another.
LEMMA AnchorsTrans ==
    ASSUME NEW s, Good(s), NEW t \in Supervisor, NEW u, Anchors(s, t), Anchors(t, u)
    PROVE  Anchors(s, u)
<1>1. ASSUME NEW p \in Procs, NEW x \in Sessions, Sits(s, p, x), u.child[p].life = "live"
      PROVE  Sits(u, p, x) /\ u.child[p].kernel = s.child[p].kernel
  <2>1. s.child[p].life # "none"
    BY <1>1 DEF Sits, InRotation, ActiveProcs, ParkedProcs, Good, Accounted, ActiveMatches,
       ParkedMatches
  <2>2. t.child[p].life \in {"none", "live", "dead"}
    BY DEF Supervisor, Child
  <2>3. t.child[p].life = "live"
    BY <1>1, <2>1, <2>2 DEF Anchors, Lasts
  <2>4. QED BY <1>1, <2>3 DEF Anchors, Stays
<1>2. ASSUME NEW p \in Procs
      PROVE  /\ u.child[p].life = "none" => s.child[p].life = "none"
             /\ u.child[p].life = "live" => s.child[p].life # "dead"
  <2>1. t.child[p].life \in {"none", "live", "dead"}
    BY DEF Supervisor, Child
  <2>2. QED BY <2>1 DEF Anchors, Lasts
<1>3. QED BY <1>1, <1>2 DEF Anchors, Stays, Lasts

\* A kernel and a workspace have one process in rotation.
LEMMA OnePerKey ==
    ASSUME NEW s, Good(s), NEW p \in InRotation(s), NEW q \in InRotation(s),
           s.child[p].kernel = s.child[q].kernel, s.child[p].workspace = s.child[q].workspace
    PROVE  p = q
<1>1. Serving(s)[KeyOf(s, p)] = p /\ Serving(s)[KeyOf(s, q)] = q
  BY ServingIs
<1>2. KeyOf(s, p) = KeyOf(s, q)
  BY DEF KeyOf
<1>3. QED BY <1>1, <1>2

\* If nothing is stale, nothing retires, and what rotates without stale processes stays so.
LEMMA CurrentServes ==
    ASSUME NEW s, Good(s), Current(s)
    PROVE  s.retiring = {} /\ Tracked(s) = InRotation(s)
BY DEF Good, Accounted, RetiringMatches, Current, Tracked, InRotation

LEMMA CurrentRotates ==
    ASSUME NEW s, Good(s), Current(s), NEW t, Good(t), NEW start \in Procs \cup {NoProc},
           Rotates(s, t, start)
    PROVE  Current(t)
<1>1. s.retiring = {} /\ Tracked(s) = InRotation(s)
  BY CurrentServes
<1>2. t.retiring = {}
  BY <1>1 DEF Rotates, Current
<1>3. Tracked(t) = InRotation(t)
  BY <1>2 DEF Tracked, InRotation
<1>4. ASSUME NEW p \in Tracked(t)
      PROVE  ~t.child[p].stale
  <2>1. p # NoProc
    BY <1>3 DEF InRotation, ActiveProcs, ParkedProcs
  <2>2. CASE p = start
    BY <2>1, <2>2 DEF Rotates
  <2>3. CASE p # start
    BY <1>1, <1>3, <2>3 DEF Rotates, Current
  <2>4. QED BY <2>2, <2>3
<1>5. QED BY <1>4 DEF Current

LEMMA CurrentSheds ==
    ASSUME NEW s, Good(s), Current(s), NEW t, Good(t), Sheds(s, t)
    PROVE  Current(t)
BY ShedsRotates, CurrentRotates DEF Good

\* The process a session belongs to is the one that is found for it.
LEMMA SitsFinds ==
    ASSUME NEW s, Good(s), Current(s), NEW p, NEW x \in Sessions, Sits(s, p, x)
    PROVE  ProcessForSession(s, x) = p
<1> DEFINE k == KernelOf(s, x)
           w == s.workspaces[x]
<1>1. s.retiring = {} /\ p \in Tracked(s) /\ p # NoProc
  BY CurrentServes DEF Sits, InRotation, ActiveProcs, ParkedProcs
<1>2. w \in Workspaces /\ k \in Kernels /\ <<k, w>> \in Keys /\ w # NoWorkspace
  BY <1>1, WorkspacesAssumption, KernelOfType DEF Sits, Good, Accounted, AllPlaced, Keys
<1>3. RetiringProcessForSession(s, x) = NoProc
  BY <1>1 DEF RetiringProcessForSession
<1>4. CASE p \in ActiveProcs(s)
  <2>1. s.process[k] = p
    BY <1>4 DEF ActiveProcs, Sits, Good, Accounted, ActiveMatches
  <2>2. s.parked[<<k, w>>] = NoProc
    BY <1>1, <1>2, <2>1 DEF Sits, Good, Accounted, ActiveNotParked
  <2>3. QED BY <1>3, <2>1, <2>2 DEF ProcessForSession
<1>5. CASE p \in ParkedProcs(s)
  <2>1. s.parked[<<k, w>>] = p
    BY <1>5 DEF ParkedProcs, Sits, Good, Accounted, ParkedMatches
  <2>2. ~s.child[p].stale
    BY <1>1 DEF Current
  <2>3. QED BY <1>1, <1>2, <1>3, <2>1, <2>2 DEF ProcessForSession
<1>6. QED BY <1>4, <1>5 DEF Sits, InRotation

\* What the operators that stop processes leave: the sessions X are forgotten, and belonged to
\* what was stopped.
LEMMA RemovedStays ==
    ASSUME NEW s, Good(s), NEW t, NEW P \in SUBSET Procs, Removed(s, t, P),
           \A p \in P : t.child[p].life # "live", NEW X,
           \A x \in Sessions \ X : t.kernels[x] = s.kernels[x] /\ t.workspaces[x] = s.workspaces[x],
           \A x \in X, p \in Procs : Sits(s, p, x) => p \in P
    PROVE  Stays(s, t)
<1> SUFFICES ASSUME NEW p \in Procs, NEW x \in Sessions, Sits(s, p, x), t.child[p].life = "live"
             PROVE  Sits(t, p, x) /\ t.child[p].kernel = s.child[p].kernel
  BY DEF Stays
<1>1. p \notin P /\ x \notin X
  OBVIOUS
<1>2. KernelOf(t, x) = KernelOf(s, x) /\ t.workspaces[x] = s.workspaces[x]
  BY <1>1 DEF KernelOf
<1>3. t.child[p] = s.child[p]
  BY <1>1 DEF Removed
<1>4. p \in InRotation(t)
  BY <1>1 DEF Sits, Removed, InRotation, ActiveProcs, ParkedProcs
<1>5. QED BY <1>2, <1>3, <1>4 DEF Sits

\* stopParkedLocked.
LEMMA StopParkedAnchors ==
    ASSUME NEW s, Good(s), NEW K \in SUBSET Keys, \A key \in K : s.parked[key] # NoProc
    PROVE  /\ Anchors(s, StopParked(s, K))
           /\ \A key \in K : StopParked(s, K).child[s.parked[key]].life = "dead"
<1> DEFINE P == {s.parked[key] : key \in K}
           taken == TakeParked(s, K)
           t == Stop(taken, P)
           gone == {x \in s.sessions : <<KernelOf(s, x), s.workspaces[x]>> \in K}
           u == StopParked(s, K)
<1>1. s \in Supervisor /\ P \in SUBSET Procs
  BY DEF Good, Supervisor
<1>2. CASE K = {}
  BY <1>2, AnchorsRefl DEF StopParked
<1>3. CASE K # {}
  <2>1. u = Interrupt(t, gone)
    BY <1>3 DEF StopParked
  <2>2. taken \in Supervisor
    BY <1>1, TakeParkedType
  <2>3. t \in Supervisor /\ \A p \in P : t.child[p].life = "dead"
    <3> HIDE DEF P, taken
    <3>1. t \in Supervisor /\ \A p \in P : t.child[p] = [NoChild EXCEPT !.retired = TRUE, !.life = "dead"]
      BY <1>1, <2>2, StopType
    <3>2. QED BY <3>1 DEF NoChild
  <2>4. SameSessions(s, t)
    BY <1>1 DEF SameSessions, Stop, TakeParked, Supervisor
  <2>5. Removed(s, u, P)
    BY <1>1, StopParkedGood, ProcsAssumption
  <2> HIDE DEF t
  <2>6. \A p \in P : u.child[p].life = "dead"
    BY <2>1, <2>3, InterruptType DEF SamePlaces
  <2>7. ASSUME NEW x \in gone, NEW p \in Procs, Sits(s, p, x)
        PROVE  p \in P
    <3>1. PICK key \in K : key = <<s.child[p].kernel, s.child[p].workspace>>
      BY <2>7 DEF Sits
    <3>2. s.parked[key] \in InRotation(s)
      BY DEF InRotation, ParkedProcs
    <3>3. <<s.child[s.parked[key]].kernel, s.child[s.parked[key]].workspace>> = key
      BY DEF Good, Accounted, ParkedMatches
    <3>4. p = s.parked[key]
      BY <2>7, <3>1, <3>2, <3>3, OnePerKey DEF Sits
    <3>5. QED BY <3>4
  <2>8. \A x \in Sessions \ gone : u.kernels[x] = s.kernels[x] /\ u.workspaces[x] = s.workspaces[x]
    <3> HIDE DEF gone, u
    <3>1. QED BY <2>1, <2>3, <2>4 DEF Interrupt, ForgetSessions, Supervisor, SameSessions
  <2> HIDE DEF gone, P, u
  <2>9. Stays(s, u)
    BY <1>1, <2>5, <2>6, <2>7, <2>8, RemovedStays
  <2>10. Lasts(s, u)
    BY <2>5, <2>6 DEF Lasts, Removed
  <2>11. QED BY <2>6, <2>9, <2>10 DEF Anchors, P, u
<1>4. QED BY <1>2, <1>3

\* The active process of a kernel is stopped.
LEMMA StopActiveAnchors ==
    ASSUME NEW s, Good(s), NEW k \in Kernels, s.process[k] # NoProc
    PROVE  /\ Anchors(s, StopActive(s, {k}))
           /\ StopActive(s, {k}).child[s.process[k]].life = "dead"
<1> DEFINE p == s.process[k]
           taken == [s EXCEPT !.process = [l \in Kernels |-> IF l \in {k} THEN NoProc ELSE @[l]]]
           t == Stop(taken, {s.process[l] : l \in {k}})
           gone == UNION {ServedBy(s, l, {s.child[s.process[l]].workspace, NoWorkspace}) : l \in {k}}
           u == StopActive(s, {k})
<1>1. s \in Supervisor /\ p \in Procs /\ p \in InRotation(s) /\ s.child[p].kernel = k
  BY DEF Good, Supervisor, InRotation, ActiveProcs, Accounted, ActiveMatches
<1>2. u = Interrupt(t, gone)
  BY DEF StopActive
<1>3. taken \in Supervisor
  BY <1>1 DEF Supervisor
<1>4. SameSessions(s, t)
  BY <1>1 DEF SameSessions, Stop, Supervisor
<1>5. t \in Supervisor /\ t.child[p].life = "dead"
  <2> HIDE DEF taken
  <2>1. p \in {s.process[l] : l \in {k}}
    OBVIOUS
  <2> HIDE DEF p
  <2>2. t \in Supervisor /\ t.child[p] = [NoChild EXCEPT !.retired = TRUE, !.life = "dead"]
    BY <1>1, <1>3, <2>1, StopType
  <2>3. QED BY <2>2 DEF NoChild
<1>6. Removed(s, u, {p})
  <2>1. {s.process[l] : l \in {k}} \ {NoProc} = {p}
    OBVIOUS
  <2>2. QED BY <2>1, StopActiveGood
<1>7. gone = ServedBy(s, k, {s.child[p].workspace, NoWorkspace})
  OBVIOUS
<1> HIDE DEF t, gone
<1>8. u.child[p].life = "dead"
  BY <1>2, <1>5, InterruptType DEF SamePlaces
<1>9. ASSUME NEW x \in gone, NEW q \in Procs, Sits(s, q, x)
      PROVE  q \in {p}
  <2>1. s.child[q].kernel = k /\ s.child[q].workspace \in {s.child[p].workspace, NoWorkspace}
    BY <1>7, <1>9 DEF ServedBy, Sits
  <2>2. s.child[q].workspace # NoWorkspace /\ q \in InRotation(s)
    BY <1>9, WorkspacesAssumption DEF Sits, Good, Accounted, AllPlaced, Tracked, InRotation
  <2>3. QED BY <1>1, <2>1, <2>2, OnePerKey
<1> HIDE DEF p, u
<1>10. \A x \in Sessions \ gone : u.kernels[x] = s.kernels[x] /\ u.workspaces[x] = s.workspaces[x]
  BY <1>2, <1>4, <1>5 DEF Interrupt, ForgetSessions, Supervisor, SameSessions
<1>11. Stays(s, u)
  BY <1>1, <1>6, <1>8, <1>9, <1>10, RemovedStays
<1>12. Lasts(s, u)
  BY <1>6, <1>8 DEF Lasts, Removed
<1>13. QED BY <1>8, <1>11, <1>12 DEF Anchors, p, u

\* Processes move from place to place in rotation.
LEMMA InPlaceAnchors ==
    ASSUME NEW s, NEW t, SameSessions(s, t), InRotation(s) \subseteq InRotation(t),
           \A p \in Procs : /\ t.child[p].kernel = s.child[p].kernel
                            /\ t.child[p].workspace = s.child[p].workspace
                            /\ t.child[p].life = s.child[p].life
    PROVE  Anchors(s, t)
BY DEF Anchors, Stays, Lasts, Sits, SameSessions, KernelOf

\* The reapers of idle and parked processes.
LEMMA ReapsAnchor ==
    ASSUME NEW s, Good(s), NEW k \in Kernels
    PROVE  Anchors(s, ReapParked(s, k)) /\ Anchors(s, EvictOverLimit(s, k))
<1>1. IdleKeys(s, k) \subseteq Keys /\ \A key \in IdleKeys(s, k) : s.parked[key] # NoProc
  BY StopsIdle DEF IdleKeys, ParkedKeys
<1>2. ASSUME NEW K \in SUBSET IdleKeys(s, k)
      PROVE  Anchors(s, StopParked(s, K))
  BY <1>1, StopParkedAnchors
<1>3. QED BY <1>2, StopsIdle

\* parkCurrentLocked.
LEMMA ParkCurrentAnchors ==
    ASSUME NEW s, Good(s), NEW k \in Kernels, s.process[k] # NoProc
    PROVE  Anchors(s, ParkCurrent(s, k))
<1> DEFINE p == s.process[k]
           t == Put(s, k)
<1>1. s \in Supervisor /\ p \in Procs
  BY DEF Good, Supervisor
<1>2. /\ Good(t) /\ ActiveProcs(t) = ActiveProcs(s) \ {p}
      /\ ParkedProcs(t) = ParkedProcs(s) \cup {p}
      /\ t.child = [s.child EXCEPT ![p].idle = FALSE]
  BY PutGood
<1>3. SameSessions(s, t)
  BY DEF Put, SameSessions
<1>4. ParkCurrent(s, k) = EvictOverLimit(t, k)
  BY DEF ParkCurrent, Put
<1> HIDE DEF t, p
<1>5. \A q \in Procs : /\ t.child[q].kernel = s.child[q].kernel
                       /\ t.child[q].workspace = s.child[q].workspace
                       /\ t.child[q].life = s.child[q].life
  BY <1>1, <1>2 DEF Supervisor, Child
<1>6. InRotation(s) \subseteq InRotation(t)
  BY <1>2 DEF InRotation
<1>7. Anchors(s, t) /\ Anchors(t, EvictOverLimit(t, k))
  <2>1. Anchors(s, t)
    BY <1>3, <1>5, <1>6, InPlaceAnchors
  <2>2. QED BY <1>2, <2>1, ReapsAnchor
<1>8. QED BY <1>2, <1>4, <1>7, AnchorsTrans DEF Good

\* The current process is parked.
LEMMA SetAsideAnchors ==
    ASSUME NEW s, Good(s), Current(s), NEW k \in Kernels
    PROVE  Anchors(s, SetAside(s, k))
<1>1. CASE s.process[k] = NoProc
  BY <1>1, AnchorsRefl DEF SetAside
<1>2. CASE s.process[k] # NoProc
  <2>1. ~s.child[s.process[k]].stale
    BY <1>2 DEF Current, Tracked, ActiveProcs
  <2>2. QED BY <1>2, <2>1, ParkCurrentAnchors DEF SetAside
<1>3. QED BY <1>1, <1>2

\* The parked process of a workspace comes back.
LEMMA TakeBackAnchors ==
    ASSUME NEW s, Good(s), Current(s), NEW k \in Kernels, NEW w \in Workspaces, s.process[k] = NoProc
    PROVE  Anchors(s, TakeBack(s, k, w))
<1> DEFINE key == <<k, w>>
           p == s.parked[key]
           taken == TakeParked(s, {key})
           t == [taken EXCEPT !.process[k] = p, !.child[p].idle = FALSE]
<1>1. s \in Supervisor /\ key \in Keys
  BY DEF Good, Keys
<1>2. /\ taken \in Supervisor
      /\ taken.process = s.process /\ taken.retiring = s.retiring /\ taken.child = s.child
      /\ taken.parked = [other \in Keys |-> IF other \in {key} THEN NoProc ELSE s.parked[other]]
  BY <1>1, TakeParkedType
<1>3. SameSessions(s, taken)
  BY <1>1 DEF SameSessions, TakeParked, Supervisor
<1>4. CASE p = NoProc
  BY <1>4, AnchorsRefl DEF TakeBack
<1>5. CASE p # NoProc
  <2>1. p \in Procs /\ ~s.child[p].stale
    BY <1>1, <1>5 DEF Supervisor, Current, Tracked, ParkedProcs
  <2>2. TakeBack(s, k, w) = t
    BY <1>5, <2>1 DEF TakeBack
  <2> HIDE DEF taken
  <2>3. /\ t.process = [s.process EXCEPT ![k] = p] /\ t.parked = taken.parked
        /\ t.child = [s.child EXCEPT ![p].idle = FALSE] /\ SameSessions(s, t)
    BY <1>2, <1>3 DEF Supervisor, SameSessions
  <2> HIDE DEF t
  <2>4. \A q \in Procs : /\ t.child[q].kernel = s.child[q].kernel
                         /\ t.child[q].workspace = s.child[q].workspace
                         /\ t.child[q].life = s.child[q].life
    BY <1>1, <2>1, <2>3 DEF Supervisor, Child
  <2>5. ActiveProcs(s) \cup {p} \subseteq ActiveProcs(t)
    <3>1. \A l \in Kernels \ {k} : t.process[l] = s.process[l]
      BY <1>1, <2>3 DEF Supervisor
    <3>2. t.process[k] = p
      BY <1>1, <2>3 DEF Supervisor
    <3>3. QED BY <1>5, <3>1, <3>2 DEF ActiveProcs
  <2>6. ParkedProcs(s) \ {p} \subseteq ParkedProcs(t)
    BY <1>1, <1>2, <2>3 DEF ParkedProcs
  <2>7. InRotation(s) \subseteq InRotation(t)
    BY <2>5, <2>6 DEF InRotation
  <2>8. SameSessions(s, t)
    BY <2>3
  <2>9. Anchors(s, t)
    BY <2>4, <2>7, <2>8, InPlaceAnchors
  <2>10. QED BY <2>2, <2>9
<1>6. QED BY <1>4, <1>5

\* Everything ensureKernelProcessLocked does before it starts a process.
LEMMA PreparedAnchors ==
    ASSUME NEW s, Good(s), Current(s), NEW k \in Kernels, NEW w \in Workspaces
    PROVE  Anchors(s, Prepared(s, k, w))
<1> DEFINE reaped == ReapParked(s, k)
           swept == ReapStale(reaped)
           aside == SetAside(swept, k)
           back == TakeBack(aside, k, w)
<1>1. Good(reaped) /\ Current(reaped) /\ Anchors(s, reaped)
  BY ReapParkedGood, ReapsShed, ReapsAnchor, CurrentSheds
<1> HIDE DEF reaped
<1>2. swept = reaped
  <2>1. reaped.retiring = {}
    BY <1>1, CurrentServes
  <2>2. PICK P \in SUBSET reaped.retiring : swept = StopRetired(reaped, P)
    BY Zenon DEF ReapStale
  <2>3. P = {}
    BY <2>1, <2>2
  <2>4. QED BY <2>2, <2>3 DEF StopRetired
<1> HIDE DEF swept
<1>3. Good(aside) /\ Current(aside) /\ Anchors(swept, aside) /\ aside.process[k] = NoProc
  BY <1>1, <1>2, SetAsideGood, SetAsideSheds, SetAsideAnchors, CurrentSheds
<1> HIDE DEF aside
<1>4. Good(back) /\ Anchors(aside, back)
  BY <1>3, TakeBackGood, TakeBackAnchors
<1>5. Prepared(s, k, w) = swept \/ Prepared(s, k, w) = back
  BY DEF Prepared, swept, reaped, aside
<1> HIDE DEF back
<1>6. Anchors(s, aside)
  BY <1>1, <1>2, <1>3, AnchorsTrans DEF Good
<1>7. Anchors(s, back)
  BY <1>3, <1>4, <1>6, AnchorsTrans DEF Good
<1>8. QED BY <1>1, <1>2, <1>5, <1>7

\* A process is started where none was.
LEMMA SpawnAnchors ==
    ASSUME NEW s, Good(s), NEW k \in Kernels, NEW w \in Workspaces, s.process[k] = NoProc,
           Unused(s) # {}
    PROVE  Anchors(s, Spawn(s, k, w))
<1> DEFINE p == CHOOSE q \in Unused(s) : TRUE
           t == Spawn(s, k, w)
<1>1. s \in Supervisor /\ p \in Unused(s)
  BY DEF Good
<1> HIDE DEF p
<1>2. p \in Procs /\ p \notin Tracked(s) /\ s.child[p].life = "none"
  BY <1>1 DEF Good, Accounted, ActiveMatches, ParkedMatches, RetiringMatches, Tracked, ActiveProcs,
     ParkedProcs, Unused
<1>3. /\ t.process = [s.process EXCEPT ![k] = p] /\ t.parked = s.parked /\ SameSessions(s, t)
      /\ t.child = [s.child EXCEPT ![p] = [NoChild EXCEPT !.kernel = k, !.workspace = w,
                                                          !.life = "live"]]
  BY <1>1, <1>2 DEF Spawn, SameSessions, Supervisor, p
<1> HIDE DEF t
<1>4. t.child[p].life = "live" /\ \A q \in Procs \ {p} : t.child[q] = s.child[q]
  BY <1>1, <1>2, <1>3 DEF Supervisor, NoChild
<1>5. InRotation(s) \subseteq InRotation(t)
  <2>1. ActiveProcs(s) \subseteq ActiveProcs(t)
    BY <1>1, <1>3 DEF Supervisor, ActiveProcs
  <2>2. QED BY <1>3, <2>1 DEF InRotation, ParkedProcs
<1>6. \A q \in Procs, x \in Sessions : Sits(s, q, x) => Sits(t, q, x) /\ t.child[q] = s.child[q]
  BY <1>2, <1>3, <1>4, <1>5 DEF Sits, InRotation, Tracked, SameSessions, KernelOf
<1>7. Lasts(s, t)
  BY <1>2, <1>4 DEF Lasts
<1>8. QED BY <1>6, <1>7 DEF Anchors, Stays, t

\* ensureKernelProcessLocked keeps every living session where it is.
LEMMA EnsureAnchors ==
    ASSUME NEW s, Good(s), Current(s), NEW k \in Kernels, NEW w \in Workspaces, CanEnsure(s, k, w)
    PROVE  Anchors(s, EnsureKernelProcess(s, k, w))
<1> DEFINE t == Prepared(s, k, w)
<1>1. Good(t) /\ Anchors(s, t)
  BY PreparedGood, PreparedAnchors
<1>2. CASE NeedsSpawn(s, k, w)
  <2>1. t.process[k] = NoProc /\ Unused(t) # {}
    BY <1>2 DEF NeedsSpawn, CanEnsure
  <2>2. EnsureKernelProcess(s, k, w) = Spawn(t, k, w)
    BY <1>2 DEF EnsureKernelProcess
  <2> HIDE DEF t
  <2>3. Anchors(t, Spawn(t, k, w))
    BY <1>1, <2>1, SpawnAnchors
  <2>4. QED BY <1>1, <2>2, <2>3, AnchorsTrans DEF Good
<1>3. CASE ~NeedsSpawn(s, k, w)
  BY <1>1, <1>3 DEF EnsureKernelProcess
<1>4. QED BY <1>2, <1>3

\* RestartEngine: what the session belongs to is stopped.
LEMMA RestartedStays ==
    ASSUME NEW s, Good(s), Current(s), NEW x \in Sessions,
           NEW p \in InRotation(s), p = ProcessForSession(s, x)
    PROVE  Stays(s, Restarted(s, x, p))
<1> DEFINE k == KernelOf(s, x)
           key == <<k, s.child[p].workspace>>
           stopped == IF s.process[k] = p THEN StopActive(s, {k}) ELSE StopParked(s, {key})
           t == ForgetSessions(stopped, {x})
           u == [t EXCEPT !.notices = (@ \ {x}) \cup (s.notices \cap {x})]
<1>1. s \in Supervisor /\ p \in Procs /\ p \notin s.retiring /\ k \in Kernels /\ p # NoProc
  BY KernelOfType DEF Good, Supervisor, Accounted, PlacesDisjoint, InRotation, ActiveProcs, ParkedProcs
<1>2. key \in Keys
  BY <1>1 DEF Good, Accounted, AllPlaced, Tracked, InRotation, Keys
<1>3. s.process[k] = p \/ s.parked[key] = p
  <2> DEFINE w == s.workspaces[x]
             r == RetiringProcessForSession(s, x)
  <2>1. r # NoProc => r \in s.retiring
    BY DEF RetiringProcessForSession, Eldest
  <2>2. \/ p = r
        \/ w # NoWorkspace /\ p = s.parked[<<k, w>>]
        \/ p = s.process[k]
    BY DEF ProcessForSession
  <2>3. w # NoWorkspace => <<k, w>> \in Keys
    BY <1>1 DEF Supervisor, Keys
  <2>4. w # NoWorkspace /\ p = s.parked[<<k, w>>] => w = s.child[p].workspace
    BY <1>1, <2>3 DEF Good, Accounted, ParkedMatches
  <2> HIDE DEF r, w
  <2>5. QED BY <1>1, <2>1, <2>2, <2>4
<1>4. Restarted(s, x, p) = u
  BY <1>3 DEF Restarted
<1>5. Good(stopped) /\ Anchors(s, stopped) /\ stopped.child[p].life = "dead"
  <2>1. CASE s.process[k] = p
    <3>1. Good(StopActive(s, {k})) /\ Anchors(s, StopActive(s, {k}))
          /\ StopActive(s, {k}).child[s.process[k]].life = "dead"
      BY <1>1, <2>1, StopActiveGood, StopActiveAnchors
    <3>2. QED BY <2>1, <3>1
  <2>2. CASE s.process[k] # p
    <3>1. s.parked[key] = p /\ {key} \in SUBSET Keys
      BY <1>2, <1>3, <2>2
    <3> HIDE DEF key
    <3>2. Good(StopParked(s, {key})) /\ Anchors(s, StopParked(s, {key}))
          /\ StopParked(s, {key}).child[s.parked[key]].life = "dead"
      BY <1>1, <3>1, StopParkedGood, StopParkedAnchors
    <3>3. QED BY <2>2, <3>1, <3>2
  <2>3. QED BY <2>1, <2>2
<1> HIDE DEF stopped
<1>6. SamePlaces(stopped, t) /\ t \in Supervisor
  BY <1>5, ForgetSessionsType DEF Good
<1>7. SamePlaces(stopped, u) /\ u.kernels = t.kernels /\ u.workspaces = t.workspaces
  BY <1>6 DEF SamePlaces, Supervisor
<1>8. \A y \in Sessions \ {x} :
         t.kernels[y] = stopped.kernels[y] /\ t.workspaces[y] = stopped.workspaces[y]
  BY <1>5 DEF ForgetSessions, Good, Supervisor
<1> HIDE DEF t, u
<1>9. ASSUME NEW q \in Procs, NEW y \in Sessions, Sits(s, q, y), u.child[q].life = "live"
      PROVE  Sits(u, q, y) /\ u.child[q].kernel = s.child[q].kernel
  <2>1. q # p
    BY <1>5, <1>7, <1>9 DEF SamePlaces
  <2>2. y # x
    BY <1>9, <2>1, SitsFinds
  <2>3. Sits(stopped, q, y) /\ stopped.child[q].kernel = s.child[q].kernel
    BY <1>5, <1>7, <1>9 DEF Anchors, Stays, SamePlaces
  <2>4. QED BY <1>7, <1>8, <2>2, <2>3 DEF Sits, SamePlaces, InRotation, ActiveProcs, ParkedProcs,
     KernelOf
<1>10. QED BY <1>4, <1>9 DEF Stays

\* The clean-up of readEvents: what is forgotten belonged to the process that ended.
LEMMA ExitedStays ==
    ASSUME NEW s, Good(s), Current(s), NEW p \in Procs
    PROVE  Stays(s, Exited(s, p))
<1> DEFINE c == s.child[p]
           key == <<c.kernel, c.workspace>>
           served == ServedBy(s, c.kernel, {c.workspace, NoWorkspace})
           research == IF c.kernel = KernelPi THEN served \cap (s.workers \cup s.runs) ELSE {}
           cleared == [ForgetSessions(s, served) EXCEPT !.process[c.kernel] = NoProc,
                                                        !.notices = @ \cup research]
           parkedGone == ServedBy(s, c.kernel, {c.workspace})
           dropped == Interrupt(TakeParked(s, {key}), parkedGone)
           X == IF p \in InRotation(s) THEN served ELSE {}
           left == IF s.process[c.kernel] = p THEN cleared
                   ELSE IF p \in ParkedProcs(s) THEN dropped ELSE s
           t == Exited(s, p)
<1>1. s \in Supervisor /\ c.kernel \in Kernels /\ p # NoProc /\ s.retiring = {}
  BY ProcsAssumption, CurrentServes DEF Good, Supervisor, Child
<1>2. t = [left EXCEPT !.child[p] = NoChild]
  <2>1. s.process[c.kernel] = p => p \notin ParkedProcs(s)
    BY <1>1 DEF Good, Accounted, PlacesDisjoint, ActiveProcs
  <2>2. CASE s.process[c.kernel] = p
    <3>1. left = cleared
      BY <2>2
    <3>2. t = [cleared EXCEPT !.child[p] = NoChild]
      BY <1>1, <2>1, <2>2 DEF Exited
    <3> HIDE DEF left, cleared, t
    <3>3. QED BY <3>1, <3>2
  <2>3. CASE s.process[c.kernel] # p /\ p \in ParkedProcs(s)
    <3>1. left = dropped
      BY <2>3
    <3>2. t = [dropped EXCEPT !.child[p] = NoChild]
      BY <1>1, <2>3 DEF Exited
    <3> HIDE DEF left, dropped, t
    <3>3. QED BY <3>1, <3>2
  <2>4. CASE s.process[c.kernel] # p /\ p \notin ParkedProcs(s)
    BY <1>1, <2>4 DEF Exited
  <2>5. QED BY <2>2, <2>3, <2>4
<1>3. \A x \in Sessions \ X : left.kernels[x] = s.kernels[x] /\ left.workspaces[x] = s.workspaces[x]
  <2>1. CASE s.process[c.kernel] = p
    <3>1. p \in InRotation(s)
      BY <1>1, <2>1 DEF InRotation, ActiveProcs
    <3> HIDE DEF served, research
    <3>2. \A x \in Sessions \ served :
             cleared.kernels[x] = s.kernels[x] /\ cleared.workspaces[x] = s.workspaces[x]
      BY <1>1 DEF ForgetSessions, Supervisor
    <3>3. QED BY <2>1, <3>1, <3>2
  <2>2. CASE s.process[c.kernel] # p /\ p \in ParkedProcs(s)
    <3>1. TakeParked(s, {key}) \in Supervisor /\ SameSessions(s, TakeParked(s, {key}))
      BY <1>1, TakeParkedType DEF TakeParked, SameSessions, Supervisor
    <3>2. parkedGone \subseteq served /\ p \in InRotation(s)
      BY <2>2 DEF ServedBy, InRotation
    <3> HIDE DEF parkedGone, served
    <3>3. \A x \in Sessions \ parkedGone :
             dropped.kernels[x] = s.kernels[x] /\ dropped.workspaces[x] = s.workspaces[x]
      BY <3>1 DEF Interrupt, ForgetSessions, Supervisor, SameSessions
    <3>4. QED BY <2>2, <3>2, <3>3
  <2>3. CASE s.process[c.kernel] # p /\ p \notin ParkedProcs(s)
    BY <2>3
  <2>4. QED BY <2>1, <2>2, <2>3
<1>4. ASSUME NEW x \in X, NEW q \in Procs, Sits(s, q, x)
      PROVE  q \in {p}
  <2>1. p \in InRotation(s) /\ x \in served
    BY <1>4
  <2>2. s.child[q].kernel = c.kernel /\ s.child[q].workspace \in {c.workspace, NoWorkspace}
    BY <1>4, <2>1 DEF ServedBy, Sits
  <2>3. s.child[q].workspace # NoWorkspace /\ q \in InRotation(s)
    BY <1>4, WorkspacesAssumption DEF Sits, Good, Accounted, AllPlaced, Tracked, InRotation
  <2>4. QED BY <2>1, <2>2, <2>3, OnePerKey
<1>5. Removed(s, t, {p})
  BY ExitedGood
<1> HIDE DEF left, X
<1>6. \A x \in Sessions \ X : t.kernels[x] = s.kernels[x] /\ t.workspaces[x] = s.workspaces[x]
  BY <1>2, <1>3
<1>7. t.child[p].life # "live"
  <2>1. left.child = s.child
    BY DEF left, Interrupt, ForgetSessions, TakeParked
  <2>2. t.child = [s.child EXCEPT ![p] = NoChild]
    BY <1>2, <2>1
  <2>3. QED BY <1>1, <2>2 DEF Supervisor, NoChild
<1> HIDE DEF t
<1>8. Stays(s, t)
  BY <1>4, <1>5, <1>6, <1>7, RemovedStays
<1>9. QED BY <1>8 DEF t

\* A turn that goes on stays where its session belongs.
Remain ==
    \A p \in Procs, x \in Sessions : bridge[p].turns[x] > 0 /\ bridge'[p].turns[x] > 0 =>
        sup'.child[p].life = "live" /\ Sits(sup', p, x) /\ sup'.child[p].kernel = sup.child[p].kernel

\* Sessions that stay where they are keep their turns; so do the processes that live on.
LEMMA StaysRemain ==
    ASSUME HomeInv, Stays(sup, sup'),
           \A p \in Procs, x \in Sessions : bridge[p].turns[x] > 0 /\ bridge'[p].turns[x] > 0 =>
               sup'.child[p].life = "live"
    PROVE  Remain
BY DEF HomeInv, Seated, Stays, Remain

\* Only processes end.
LEMMA SurvivorsRemain ==
    ASSUME HomeInv, Stays(sup, sup'), bridge' = Survivors(sup')
    PROVE  Remain
<1>1. ASSUME NEW p \in Procs, NEW x \in Sessions, bridge'[p].turns[x] > 0
      PROVE  sup'.child[p].life = "live"
  BY <1>1 DEF Survivors, NewBridge
<1>2. QED BY <1>1, StaysRemain

\* No process moves or ends, and no session that has a turn.
LEMMA SamePlacesRemain ==
    ASSUME HomeInv, SamePlaces(sup, sup'),
           \A p \in Procs, x \in Sessions : bridge[p].turns[x] > 0 /\ bridge'[p].turns[x] > 0 =>
               KernelOf(sup', x) = KernelOf(sup, x) /\ sup'.workspaces[x] = sup.workspaces[x]
    PROVE  Remain
BY DEF HomeInv, Seated, SamePlaces, Remain, Sits, InRotation, ActiveProcs, ParkedProcs

\* What the invariant of homely executions has of the earlier ones.
LEMMA HomeParts ==
    ASSUME HomeInv
    PROVE  /\ SteadyInv /\ IInv /\ Good(sup) /\ sup \in Supervisor /\ bridge \in Bridges
           /\ Current(sup) /\ sup.retiring = {} /\ Seated
BY SteadyParts, CurrentServes DEF HomeInv

\* Binding a conversation leaves its turns where they are: they run on its kernel.
LEMMA BindRemain ==
    ASSUME HomeInv, NEW x \in Sessions, NEW w \in Workspaces, BindSessionKernel(x, w)
    PROVE  Remain
<1>1. /\ SamePlaces(sup, sup') /\ sup'.workspaces = sup.workspaces
      /\ sup'.kernels = [sup.kernels EXCEPT ![x] = IF @ = NoKernel THEN ConversationKernel[x] ELSE @]
  BY HomeParts, BindCares DEF BindSessionKernel, BindKernel, Supervisor
<1>2. ASSUME NEW p \in Procs, NEW y \in Sessions, bridge[p].turns[y] > 0
      PROVE  KernelOf(sup', y) = KernelOf(sup, y)
  <2>1. KernelOf(sup, y) = ConversationKernel[y]
    BY <1>2, HomeParts DEF Seated, Sits
  <2>2. sup.kernels \in [Sessions -> Kernels \cup {NoKernel}] /\ ConversationKernel[x] \in Kernels
    BY HomeParts, ConversationsAssumption DEF Supervisor
  <2>3. CASE y # x
    BY <1>1, <2>2, <2>3 DEF KernelOf
  <2>4. CASE y = x
    BY <1>1, <2>1, <2>2, <2>4, KernelsAssumption DEF KernelOf
  <2>5. QED BY <2>3, <2>4
<1>3. QED BY <1>1, <1>2, SamePlacesRemain

\* A message is sent: its session has moved only if no turn of it runs.
LEMMA SendRemain ==
    ASSUME HomeInv, MovesIdle, NEW x \in Sessions, NEW w \in Workspaces, SendMessage(x, w)
    PROVE  Remain
<1> DEFINE k == KernelOf(sup, x)
           e == Ensured(x, w)
           ready == Ready(x, w)
           q == ProcessForSession(ready, x)
<1>1. /\ CanEnsure(sup, k, w) /\ Good(e) /\ Good(ready)
      /\ SamePlaces(e, ready) /\ SamePlaces(ready, sup')
      /\ sup'.kernels = ready.kernels /\ sup'.workspaces = ready.workspaces
  BY HomeParts, SendReady
<1>2. /\ ready.kernels = e.kernels /\ ready.workspaces = [e.workspaces EXCEPT ![x] = w]
      /\ e.workspaces \in [Sessions -> Workspaces \cup {NoWorkspace}]
  BY <1>1 DEF Ready, Good, Supervisor
<1>3. \/ Reaches(ready, q) /\ bridge' = Prompted(Survivors(ready), q, x)
      \/ bridge' = Survivors(ready)
  BY DEF SendMessage, Ready, Ensured
<1> SUFFICES ASSUME NEW p \in Procs, NEW y \in Sessions, bridge[p].turns[y] > 0,
                    bridge'[p].turns[y] > 0
             PROVE  /\ sup'.child[p].life = "live" /\ Sits(sup', p, y)
                    /\ sup'.child[p].kernel = sup.child[p].kernel
  BY DEF Remain
<1>4. ready.child[p].life = "live"
  <2>1. CASE p = q /\ Reaches(ready, q)
    BY <2>1 DEF Reaches
  <2>2. CASE p # q \/ bridge' = Survivors(ready)
    <3> HIDE DEF ready, q
    <3>1. bridge'[p] = Survivors(ready)[p]
      BY <1>3, <2>2 DEF Prompted, Says, Survivors
    <3>2. QED BY <3>1 DEF Survivors, NewBridge
  <2>3. QED BY <1>3, <2>1, <2>2
<1>5. Sits(sup, p, y) /\ k \in Kernels /\ Good(sup) /\ Current(sup)
  BY HomeParts, KernelOfType DEF Seated
<1>6. Anchors(sup, e)
  BY <1>1, <1>5, EnsureAnchors DEF Ensured
<1>7. \E start \in Procs \cup {NoProc} : Rotates(sup, e, start)
  BY <1>1, <1>5, EnsureServes DEF Ensured
<1> HIDE DEF k, e, ready, q
<1>8. Sits(e, p, y) /\ e.child[p].kernel = sup.child[p].kernel
  BY <1>1, <1>4, <1>5, <1>6 DEF Anchors, Stays, SamePlaces
<1>9. e.child[p].workspace = sup.child[p].workspace
  <2>1. PICK start \in Procs \cup {NoProc} : Rotates(sup, e, start)
    BY <1>7
  <2>2. p \in Tracked(sup) /\ p \in Tracked(e) /\ p # NoProc
    BY <1>5, <1>8, ProcsAssumption DEF Sits, Tracked, InRotation
  <2>3. p # start
    BY <2>1, <2>2 DEF Rotates
  <2>4. QED BY <1>5, <2>1, <2>2, <2>3 DEF Rotates
<1>10. sup'.workspaces[y] = e.child[p].workspace
  <2>1. CASE y # x
    BY <1>1, <1>2, <1>8, <2>1 DEF Sits
  <2>2. CASE y = x
    <3>1. sup'.workspaces[x] = w /\ w # NoWorkspace
      BY <1>1, <1>2, WorkspacesAssumption
    <3>2. Runs(p, x) /\ sup.workspaces[x] = sup.child[p].workspace
      BY <2>2, HomeParts DEF Seated, Runs, Live, Sits
    <3>3. QED BY <1>9, <2>2, <3>1, <3>2 DEF MovesIdle
  <2>3. QED BY <2>1, <2>2
<1>11. QED BY <1>1, <1>2, <1>4, <1>8, <1>10 DEF Sits, SamePlaces, InRotation, ActiveProcs,
       ParkedProcs, KernelOf

\* So it is when the process cannot be started, and for a refresh.
LEMMA DispatchRemain ==
    ASSUME HomeInv, NEW x \in Sessions, NEW w \in Workspaces,
           SendMessageSpawnFails(x, w) \/ RefreshBackgroundTasks(x, w)
    PROVE  Remain
<1>1. CASE SendMessageSpawnFails(x, w)
  <2> DEFINE k == KernelOf(sup, x)
  <2>1. sup' = Prepared(sup, k, w) /\ bridge' = Survivors(sup')
    BY <1>1 DEF SendMessageSpawnFails
  <2>2. k \in Kernels /\ Good(sup) /\ Current(sup)
    BY HomeParts, KernelOfType
  <2>3. Stays(sup, sup')
    BY <2>1, <2>2, PreparedAnchors DEF Anchors
  <2>4. QED BY <2>1, <2>3, SurvivorsRemain
<1>2. CASE RefreshBackgroundTasks(x, w)
  <2>1. KernelOf(sup, x) \in Kernels
    BY HomeParts, KernelOfType
  <2>2. Anchors(sup, sup') /\ bridge' = Survivors(sup')
    BY <1>2, <2>1, HomeParts, EnsureAnchors DEF RefreshBackgroundTasks
  <2>3. QED BY <2>2, SurvivorsRemain DEF Anchors
<1>3. QED BY <1>1, <1>2

\* Nothing retires or is stale that these could stop; a restart stops what it finds.
LEMMA StopsRemain ==
    ASSUME HomeInv, Unrestarted(sup'),
           \/ StopStaleSidecars
           \/ \E x \in Sessions : RestartEngine(x)
           \/ \E p \in Procs : ProcessExits(p)
    PROVE  Remain
<1>1. CASE StopStaleSidecars
  BY <1>1, HomeParts DEF StopStaleSidecars, Current
<1>2. ASSUME NEW x \in Sessions, RestartEngine(x) PROVE Remain
  <2> DEFINE p == ProcessForSession(sup, x)
  <2>1. p \in InRotation(sup) /\ sup' = Restarted(sup, x, p) /\ bridge' = Survivors(sup')
    BY <1>2, HomeParts, RestartInRotation
  <2>2. Stays(sup, sup')
    BY <2>1, HomeParts, RestartedStays
  <2>3. QED BY <2>1, <2>2, SurvivorsRemain
<1>3. ASSUME NEW p \in Procs, ProcessExits(p) PROVE Remain
  <2>1. /\ sup' = Exited(sup, p) /\ bridge' = bridge /\ sup.child[p].life = "dead"
    BY <1>3 DEF ProcessExits
  <2>2. Stays(sup, sup')
    BY <2>1, HomeParts, ExitedStays
  <2>3. \A q \in Procs \ {p} : sup'.child[q] = sup.child[q]
    <3>1. Removed(sup, sup', {p})
      BY <2>1, HomeParts, ExitedGood
    <3>2. QED BY <3>1 DEF Removed
  <2>4. ASSUME NEW q \in Procs, NEW x \in Sessions, bridge[q].turns[x] > 0
        PROVE  sup'.child[q].life = "live"
    <3>1. sup.child[q].life = "live"
      BY <2>4, HomeParts DEF Seated
    <3>2. q # p
      BY <2>1, <3>1
    <3>3. QED BY <2>3, <3>1, <3>2
  <2>5. QED BY <2>2, <2>4, StaysRemain
<1>4. QED BY <1>1, <1>2, <1>3

\* Timers move nothing; a crash takes its turns along.
LEMMA MarksRemain ==
    ASSUME HomeInv, \E p \in Procs : Crash(p) \/ IdleTimeout(p) \/ BusyCeiling(p)
    PROVE  Remain
<1>1. Marks(sup, sup') /\ InRotation(sup') = InRotation(sup)
  BY HomeParts, MarksAll DEF Marks, Marked, InRotation, ActiveProcs, ParkedProcs
<1>2. Stays(sup, sup')
  BY <1>1 DEF Stays, Sits, Marks, Marked, SameSessions, KernelOf
<1>3. ASSUME NEW p \in Procs, Crash(p) PROVE Remain
  BY <1>2, <1>3, SurvivorsRemain DEF Crash
<1>4. ASSUME NEW p \in Procs, IdleTimeout(p) \/ BusyCeiling(p) PROVE Remain
  <2>1. \A q \in Procs : sup'.child[q].life = sup.child[q].life
    BY <1>4, HomeParts DEF IdleTimeout, BusyCeiling, Supervisor, Child
  <2>2. QED BY <1>2, <2>1, HomeParts, StaysRemain DEF Seated
<1>5. QED BY <1>3, <1>4

\* A conversation that is removed has no turn left: the command finds the process that runs it.
LEMMA RemovalRemain ==
    ASSUME HomeInv, NEW x \in Sessions, DetachSession(x) \/ DestroySession(x) \/ EndProbe(x)
    PROVE  Remain
<1> DEFINE p == ProcessForSession(sup, x)
           t == ForgetSessions(sup, {x})
<1>1. t \in Supervisor /\ SamePlaces(sup, t)
      /\ \A y \in Sessions \ {x} : t.kernels[y] = sup.kernels[y] /\ t.workspaces[y] = sup.workspaces[y]
  BY HomeParts, ForgottenSession
<1>2. sup' = t \/ sup' = [t EXCEPT !.waiters = @ \ {x}]
  BY DEF DetachSession, DestroySession, EndProbe
<1> HIDE DEF t
<1>3. SamePlaces(sup, sup')
      /\ \A y \in Sessions \ {x} :
            sup'.kernels[y] = sup.kernels[y] /\ sup'.workspaces[y] = sup.workspaces[y]
  BY <1>1, <1>2 DEF SamePlaces, Supervisor
<1>4. ASSUME NEW q \in Procs, bridge[q].turns[x] > 0
      PROVE  bridge'[q].turns[x] = 0
  <2>1. Sits(sup, q, x) /\ sup.child[q].life = "live"
    BY <1>4, HomeParts DEF Seated
  <2>2. p = q /\ q # NoProc
    BY <2>1, HomeParts, SitsFinds, ProcsAssumption
  <2>3. bridge' = Destroyed(bridge, q, x)
    BY <2>1, <2>2 DEF DetachSession, DestroySession, EndProbe, Dispose, Reaches
  <2>4. QED BY <2>3, HomeParts DEF Destroyed, Says, Bridges, Bridge
<1>5. QED BY <1>3, <1>4, SamePlacesRemain DEF KernelOf

\* A fork that is answered moves no turn.
LEMMA ForkRemain ==
    ASSUME HomeInv, MovesIdle, Matched(sup'), NEW x \in Sessions, NEW y \in Sessions,
           ForkAnswered(x, y)
    PROVE  Remain
<1>1. /\ SamePlaces(sup, sup') /\ y \in sup'.sessions
      /\ sup'.workspaces[y] \in {sup.workspaces[y], sup.workspaces[x]}
      /\ sup'.workspaces[y] = NoWorkspace => sup'.workspaces[y] = sup.workspaces[y]
      /\ \A z \in Sessions \ {y} :
            sup'.kernels[z] = sup.kernels[z] /\ sup'.workspaces[z] = sup.workspaces[z]
  BY HomeParts DEF ForkAnswered, SamePlaces, Supervisor
<1>2. ASSUME NEW p \in Procs, bridge[p].turns[y] > 0
      PROVE  KernelOf(sup', y) = KernelOf(sup, y) /\ sup'.workspaces[y] = sup.workspaces[y]
  <2>1. /\ Runs(p, y) /\ KernelOf(sup, y) = ConversationKernel[y]
    BY <1>2, HomeParts DEF Seated, Runs, Live, Sits
  <2>2. KernelOf(sup', y) = ConversationKernel[y]
    BY <1>1 DEF Matched
  <2>3. QED BY <1>1, <2>1, <2>2 DEF MovesIdle
<1>3. QED BY <1>1, <1>2, SamePlacesRemain DEF KernelOf

\* What moves neither processes nor sessions.
LEMMA BookkeepingRemain ==
    ASSUME HomeInv, NEW x \in Sessions,
           \/ TrackResearchRun(x) \/ UntrackResearchRun(x) \/ RecoveryEnds(x) \/ StartProbe(x)
           \/ DeliverNotice(x) \/ \E w \in Workspaces : RecoverSession(x, w)
           \/ \E y \in Sessions : ForkSession(x, y) \/ ForkTimesOut(x, y)
           \/ AbortMessage(x) \/ ForceStop(x) \/ ContinueBusy(x) \/ RelayMessage(x)
           \/ \E p \in Procs : \/ TurnWorks(p, x) \/ ModelCallFails(p, x) \/ TurnSettles(p, x)
                               \/ TurnFails(p, x) \/ WorkersStart(p, x) \/ WorkersEnd(p, x)
                               \/ ReadEvent(p)
    PROVE  Remain
<1>1. sup \in Supervisor
  BY HomeParts
<1>2. SamePlaces(sup, sup') /\ sup'.kernels = sup.kernels /\ sup'.workspaces = sup.workspaces
  <2>1. ASSUME NEW p \in Procs, ReadEvent(p)
        PROVE  SamePlaces(sup, sup') /\ sup'.kernels = sup.kernels /\ sup'.workspaces = sup.workspaces
    <3>1. sup' = Observed(sup, Head(bridge[p].out))
      BY <2>1 DEF ReadEvent
    <3>2. QED BY <1>1, <3>1 DEF Observed, SamePlaces, Supervisor
  <2>2. CASE sup' = sup
    BY <2>2 DEF SamePlaces
  <2>3. CASE \/ TrackResearchRun(x) \/ UntrackResearchRun(x) \/ RecoveryEnds(x) \/ StartProbe(x)
             \/ DeliverNotice(x) \/ RelayMessage(x) \/ \E w \in Workspaces : RecoverSession(x, w)
    BY <1>1, <2>3 DEF TrackResearchRun, UntrackResearchRun, RecoveryEnds, StartProbe, DeliverNotice,
       RelayMessage, RecoverSession, SamePlaces, Supervisor
  <2>4. QED BY <2>1, <2>2, <2>3 DEF ForkSession, ForkTimesOut, AbortMessage, ForceStop, ContinueBusy,
        TurnWorks, ModelCallFails, TurnSettles, TurnFails, TurnEnds, WorkersStart, WorkersEnd
<1>3. QED BY <1>2, SamePlacesRemain DEF KernelOf

\* In a homely execution every turn that goes on stays where its session belongs.
LEMMA HomelyRemain ==
    ASSUME HomeInv, Homely
    PROVE  Remain
<1>1. Next /\ ~Rotation /\ MovesIdle /\ Matched(sup') /\ Unrestarted(sup')
  BY DEF Homely, Steady
<1>2. CASE Sends \/ SpawnFailures
  BY <1>1, <1>2, SendRemain, DispatchRemain DEF Sends, SpawnFailures
<1>12. CASE Binds
  BY <1>12, BindRemain DEF Binds
<1>3. CASE Aborts \/ TurnEndings \/ Streams
  BY <1>3, BookkeepingRemain DEF Aborts, TurnEndings, Streams
<1>4. CASE Relays \/ Research
  BY <1>4, BookkeepingRemain DEF Relays, Research
<1>5. CASE Removals
  BY <1>5, RemovalRemain DEF Removals
<1>6. CASE Recovery
  BY <1>6, DispatchRemain, BookkeepingRemain DEF Recovery
<1>7. CASE ProbesAndForks
  BY <1>1, <1>7, BookkeepingRemain, RemovalRemain, ForkRemain DEF ProbesAndForks
<1>8. CASE Ceilings \/ Crashes \/ Idling
  BY <1>8, MarksRemain DEF Ceilings, Crashes, Idling
<1>9. CASE Revocation \/ Restarts
  BY <1>1, <1>9, StopsRemain DEF Revocation, Restarts
<1>10. CASE Readers
  <2>1. ASSUME NEW p \in Procs, ReadEvent(p) PROVE Remain
    <3>1. CASE Sessions = {}
      BY <3>1 DEF Remain
    <3>2. CASE Sessions # {}
      BY <2>1, <3>2, BookkeepingRemain
    <3>3. QED BY <3>1, <3>2
  <2>2. QED BY <1>1, <1>10, <2>1, StopsRemain, BookkeepingRemain DEF Readers
<1>11. QED BY <1>1, <1>2, <1>3, <1>4, <1>5, <1>6, <1>7, <1>8, <1>9, <1>10, <1>12 DEF Next

\* Credentials that are not replaced stay current.
LEMMA HomelyCurrent ==
    ASSUME HomeInv, Homely
    PROVE  Current(sup')
<1>1. IInv /\ Good(sup) /\ Current(sup) /\ KernelInv
  BY HomeParts DEF SteadyInv
<1>2. Next /\ ~Rotation
  BY DEF Homely, Steady
<1>3. Rotating
  BY <1>1, <1>2, NextRotating
<1>4. Good(sup')
  BY <1>1, <1>2, NextIInv, IInvPartsNext
<1>5. PICK start \in Procs \cup {NoProc} : Rotates(sup, sup', start)
  BY <1>3 DEF Rotating
<1>6. QED BY <1>1, <1>4, <1>5, CurrentRotates

\* A turn starts where its session belongs.
LEMMA HomelyStarts ==
    ASSUME HomeInv, Homely, NEW p \in Procs, NEW x \in Sessions, StartsTurn(p, x)
    PROVE  sup'.child[p].life = "live" /\ Sits(sup', p, x) /\ sup'.child[p].kernel = ConversationKernel[x]
<1>1. /\ IInv /\ SteadyInv /\ Good(sup') /\ sup'.retiring = {} /\ Next /\ Matched(sup') /\ RelaysInPlace
      /\ bridge \in Bridges /\ sup \in Supervisor
  <2>1. Good(sup')
    BY HomeParts, NextIInv, IInvPartsNext DEF Homely, Steady
  <2>2. QED BY <2>1, HomeParts, HomelyCurrent, CurrentServes DEF Homely, Steady
<1>2. ASSUME NEW w \in Workspaces, SendMessage(x, w), p = ProcessForSession(Ready(x, w), x)
      PROVE  Houses(sup', p, x) /\ x \in sup'.sessions /\ sup'.child[p].life = "live"
  <2> DEFINE ready == Ready(x, w)
  <2>1. Good(ready) /\ SamePlaces(ready, sup')
    BY <1>1, <1>2, SendReady
  <2>2. bridge' # Survivors(ready)
    <3>1. Quiet(bridge, Survivors(ready))
      BY <1>1, SurvivorsQuiet
    <3>2. bridge' = Survivors(ready) => bridge'[p].turns[x] \in Nat /\ bridge[p].turns[x] \in Nat
      BY <1>1, <2>1, SurvivorsType, TurnsNat DEF Good
    <3> HIDE DEF ready
    <3>3. QED BY <3>1, <3>2 DEF Quiet, StartsTurn
  <2>3. /\ Reaches(ready, p) /\ sup' = [ready EXCEPT !.sessions = @ \cup {x}, !.busy = @ \cup {x}]
    BY <1>2, <2>2 DEF SendMessage, Ready, Ensured
  <2> HIDE DEF ready
  <2>4. x \in sup'.sessions /\ sup'.child[p].life = "live"
    BY <2>1, <2>3 DEF Good, Supervisor, Reaches
  <2>5. KernelOf(sup', x) = ConversationKernel[x] /\ Carried(sup')
    BY <1>1, <2>4 DEF Matched, Carried
  <2>6. QED BY <1>1, <1>2, <2>4, <2>5, SentHouses
<1>3. ASSUME RelayMessage(x), p = ProcessForSession(sup, x)
      PROVE  Houses(sup', p, x) /\ x \in sup'.sessions /\ sup'.child[p].life = "live"
  BY <1>1, <1>3 DEF RelaysInPlace, RelayMessage, Reaches, Supervisor
<1>4. Houses(sup', p, x) /\ x \in sup'.sessions /\ sup'.child[p].life = "live"
  BY <1>1, <1>2, <1>3, WhoStarts
<1>5. QED BY <1>1, <1>4 DEF Houses, Sits, Matched

\* The invariant of homely executions is inductive.
LEMMA NextHomeInv == HomeInv /\ [Homely]_vars => HomeInv'
<1> SUFFICES ASSUME HomeInv, [Homely]_vars PROVE HomeInv'
  OBVIOUS
<1>1. SteadyInv'
  BY NextSteadyInv DEF HomeInv, Homely
<1>2. CASE Homely
  <2>1. Current(sup')
    BY <1>2, HomelyCurrent
  <2>2. ASSUME NEW p \in Procs, NEW x \in Sessions, bridge'[p].turns[x] > 0
        PROVE  /\ sup'.child[p].life = "live" /\ Sits(sup', p, x)
               /\ sup'.child[p].kernel = ConversationKernel[x]
    <3>1. bridge[p].turns[x] \in Nat /\ bridge'[p].turns[x] \in Nat
      BY <1>1, HomeParts, TurnsNat, IInvPartsNext DEF SteadyInv, KernelInv
    <3>2. CASE StartsTurn(p, x)
      BY <1>2, <3>2, HomelyStarts
    <3>3. CASE ~StartsTurn(p, x)
      <4>1. bridge[p].turns[x] > 0
        BY <2>2, <3>1, <3>3 DEF StartsTurn
      <4>2. QED BY <1>2, <2>2, <4>1, HomelyRemain, HomeParts DEF Remain, Seated
    <3>4. QED BY <3>2, <3>3
  <2>3. QED BY <1>1, <2>1, <2>2 DEF HomeInv, Seated
<1>3. CASE UNCHANGED vars
  BY <1>1, <1>3 DEF vars, HomeInv, Seated
<1>4. QED BY <1>2, <1>3

\* At first no turn runs.
LEMMA InitHomeInv == Init => HomeInv
<1> SUFFICES ASSUME Init PROVE HomeInv
  OBVIOUS
<1>1. Current(sup)
  BY DEF Init, NewSupervisor, Current, Tracked, ActiveProcs, ParkedProcs
<1>2. Seated
  BY DEF Init, NewBridge, Seated
<1>3. QED BY <1>1, <1>2, InitSteadyInv DEF HomeInv

\* Stop, steering and approvals go to the process that runs the turn, also while its workspace is
\* parked, in every execution whatever is sent, relayed, parked, evicted, restarted, forked,
\* recovered or removed, or crashes - as long as the execution is steady, credentials are not
\* replaced, and no conversation moves to another workspace while a turn of it runs.
THEOREM ControlAtHome == HomelySpec => []ControlReachesTurn
<1>1. HomeInv => ControlReachesTurn
  <2> SUFFICES ASSUME HomeInv, NEW p \in Procs, NEW x \in sup.busy, Runs(p, x)
               PROVE  ProcessForSession(sup, x) = p
    BY DEF ControlReachesTurn
  <2>1. x \in Sessions /\ Sits(sup, p, x)
    BY HomeParts DEF Seated, Runs, Supervisor
  <2>2. QED BY <2>1, HomeParts, SitsFinds
<1>2. QED BY InitHomeInv, NextHomeInv, <1>1, PTL DEF HomelySpec


-----------------------------------------------------------------------------
(* Processes that were started go on, or die.                                *)

Lingers(s, t) ==
    \A p \in Procs :
        s.child[p].life # "none" => t.child[p].life \in {s.child[p].life, "dead"}

LEMMA LingersTrans ==
    ASSUME NEW s, NEW t, NEW u, Lingers(s, t), Lingers(t, u)
    PROVE  Lingers(s, u)
BY DEF Lingers

\* No life changes.
LEMMA SameLifeLingers ==
    ASSUME NEW s, NEW t, \A p \in Procs : t.child[p].life = s.child[p].life
    PROVE  Lingers(s, t)
BY DEF Lingers

\* stopParkedLocked, stopRetiredProcessLocked and the slots of kernels that are cleared.
LEMMA StopsLinger ==
    ASSUME NEW s \in Supervisor
    PROVE  /\ \A K \in SUBSET Keys : Lingers(s, StopParked(s, K))
           /\ \A K \in SUBSET Kernels : Lingers(s, StopActive(s, K))
           /\ \A P \in SUBSET Procs : Lingers(s, StopRetired(s, P))
<1>1. ASSUME NEW t, t.child = s.child, NEW P, NEW X
      PROVE  Lingers(s, Interrupt(Stop(t, P), X))
  <2>1. Interrupt(Stop(t, P), X).child = Stop(t, P).child
    BY DEF Interrupt, ForgetSessions
  <2>2. \A p \in Procs : Stop(t, P).child[p] = IF p \in P
                            THEN [NoChild EXCEPT !.retired = TRUE, !.life = "dead"] ELSE s.child[p]
    BY <1>1 DEF Stop
  <2>3. QED BY <2>1, <2>2 DEF Lingers, NoChild
<1>2. Lingers(s, s)
  BY DEF Lingers
<1>3. ASSUME NEW K \in SUBSET Keys
      PROVE  Lingers(s, StopParked(s, K))
  <2>1. TakeParked(s, K).child = s.child
    BY DEF TakeParked
  <2>2. QED BY <1>1, <1>2, <2>1 DEF StopParked
<1>4. ASSUME NEW K \in SUBSET Kernels
      PROVE  Lingers(s, StopActive(s, K))
  <2> DEFINE t == [s EXCEPT !.process = [k \in Kernels |-> IF k \in K THEN NoProc ELSE @[k]]]
  <2>1. t.child = s.child
    OBVIOUS
  <2> HIDE DEF t
  <2>2. QED BY <1>1, <2>1 DEF StopActive, t
<1>5. ASSUME NEW P \in SUBSET Procs
      PROVE  Lingers(s, StopRetired(s, P))
  <2>1. TakeRetiring(s, P).child = s.child
    BY DEF TakeRetiring
  <2>2. QED BY <1>1, <1>2, <2>1 DEF StopRetired
<1>6. QED BY <1>3, <1>4, <1>5

\* The reapers and evictParkedOverLimitLocked.
LEMMA ReapsLinger ==
    ASSUME NEW s, Good(s), NEW k \in Kernels
    PROVE  /\ Lingers(s, ReapParked(s, k)) /\ Lingers(s, EvictOverLimit(s, k))
           /\ Lingers(s, ReapStale(s))
<1>1. s \in Supervisor /\ s.retiring \subseteq Procs
  BY DEF Good, Supervisor
<1>2. PICK P \in SUBSET s.retiring : ReapStale(s) = StopRetired(s, P)
  BY Zenon DEF ReapStale
<1>3. QED BY <1>1, <1>2, StopsIdle, StopsLinger

\* retireStaleProcessLocked.
LEMMA RetireLingers ==
    ASSUME NEW s, NEW t \in Supervisor, NEW p \in Procs, NEW unbound, t.child = s.child
    PROVE  Lingers(s, Retire(t, p, unbound))
<1>1. \A q \in Procs : Retire(t, p, unbound).child[q].life = t.child[q].life
  BY DEF Retire, Supervisor, Child
<1>2. QED BY <1>1, SameLifeLingers

LEMMA SetAsideLingers ==
    ASSUME NEW s, Good(s), NEW k \in Kernels
    PROVE  Lingers(s, SetAside(s, k))
<1> DEFINE p == s.process[k]
           t == [s EXCEPT !.process[k] = NoProc]
<1>1. CASE p = NoProc
  BY <1>1, SameLifeLingers DEF SetAside
<1>2. CASE p # NoProc /\ ~s.child[p].stale
  <2>1. SetAside(s, k) = EvictOverLimit(Put(s, k), k)
    BY <1>2 DEF SetAside, ParkCurrent, Put
  <2>2. Good(Put(s, k)) /\ Put(s, k).child = [s.child EXCEPT ![p].idle = FALSE]
    BY <1>2, PutGood
  <2>3. \A q \in Procs : Put(s, k).child[q].life = s.child[q].life
    BY <2>2 DEF Good, Supervisor, Child
  <2>4. Lingers(s, Put(s, k))
    BY <2>3, SameLifeLingers
  <2>5. QED BY <2>1, <2>2, <2>4, ReapsLinger, LingersTrans
<1>3. CASE p # NoProc /\ s.child[p].stale
  <2>1. SetAside(s, k) = Retire(t, p, {NoWorkspace})
    BY <1>3 DEF SetAside
  <2>2. p \in Procs /\ t \in Supervisor /\ t.child = s.child
    BY <1>3 DEF Good, Supervisor
  <2> HIDE DEF t, p
  <2>3. QED BY <2>1, <2>2, RetireLingers
<1>4. QED BY <1>1, <1>2, <1>3

LEMMA TakeBackLingers ==
    ASSUME NEW s, Good(s), NEW k \in Kernels, NEW w \in Workspaces
    PROVE  Lingers(s, TakeBack(s, k, w))
<1> DEFINE p == s.parked[<<k, w>>]
           taken == TakeParked(s, {<<k, w>>})
           t == [taken EXCEPT !.process[k] = p, !.child[p].idle = FALSE]
<1>1. taken \in Supervisor /\ taken.child = s.child
  BY TakeParkedType DEF Good, Keys
<1> HIDE DEF taken
<1>2. p # NoProc => p \in Procs
  BY DEF Good, Supervisor, Keys
<1>3. CASE p = NoProc
  BY <1>3, SameLifeLingers DEF TakeBack
<1>4. CASE p # NoProc /\ s.child[p].stale
  <2>1. TakeBack(s, k, w) = Retire(taken, p, {})
    BY <1>4 DEF TakeBack, taken
  <2> HIDE DEF p
  <2>2. QED BY <1>1, <1>2, <1>4, <2>1, RetireLingers
<1>5. CASE p # NoProc /\ ~s.child[p].stale
  <2>1. TakeBack(s, k, w) = t
    BY <1>5 DEF TakeBack, taken
  <2>2. t.child = [s.child EXCEPT ![p].idle = FALSE]
    BY <1>1 DEF Supervisor
  <2> HIDE DEF t, p
  <2>3. \A q \in Procs : t.child[q].life = s.child[q].life
    BY <2>2 DEF Good, Supervisor, Child
  <2>4. QED BY <2>1, <2>3, SameLifeLingers
<1>6. QED BY <1>3, <1>4, <1>5

\* ensureKernelProcessLocked, up to the spawn and with it.
LEMMA EnsureLingers ==
    ASSUME NEW s, Good(s), NEW k \in Kernels, NEW w \in Workspaces
    PROVE  /\ Lingers(s, Prepared(s, k, w))
           /\ CanEnsure(s, k, w) => Lingers(s, EnsureKernelProcess(s, k, w))
<1> DEFINE reaped == ReapParked(s, k)
           swept == ReapStale(reaped)
           aside == SetAside(swept, k)
           back == TakeBack(aside, k, w)
           t == Prepared(s, k, w)
<1>1. Good(reaped) /\ Lingers(s, reaped)
  BY ReapParkedGood, ReapsLinger
<1> HIDE DEF reaped
<1>2. Good(swept) /\ Lingers(s, swept)
  BY <1>1, ReapStaleGood, ReapsLinger, LingersTrans
<1> HIDE DEF swept
<1>3. Good(aside) /\ Lingers(s, aside)
  BY <1>2, SetAsideGood, SetAsideLingers, LingersTrans
<1> HIDE DEF aside
<1>4. Lingers(s, back)
  BY <1>3, TakeBackLingers, LingersTrans
<1>5. t = swept \/ t = back
  BY DEF Prepared, swept, reaped, aside
<1> HIDE DEF back
<1>6. Lingers(s, t) /\ Good(t)
  BY <1>2, <1>4, <1>5, PreparedGood
<1>7. ASSUME CanEnsure(s, k, w), NeedsSpawn(s, k, w)
      PROVE  Lingers(s, EnsureKernelProcess(s, k, w))
  <2> DEFINE p == CHOOSE q \in Unused(t) : TRUE
             u == Spawn(t, k, w)
             fresh == [NoChild EXCEPT !.kernel = k, !.workspace = w, !.life = "live"]
  <2>1. p \in Procs /\ t.child[p].life = "none"
    BY <1>7 DEF CanEnsure, Unused
  <2>2. EnsureKernelProcess(s, k, w) = u
    BY <1>7 DEF EnsureKernelProcess
  <2> HIDE DEF p, t, fresh
  <2>3. u.child = [t.child EXCEPT ![p] = fresh]
    BY <1>6 DEF Spawn, p, fresh, Good, Supervisor
  <2> HIDE DEF u
  <2>4. Lingers(t, u)
    BY <1>6, <2>1, <2>3 DEF Lingers, Good, Supervisor
  <2>5. QED BY <1>6, <2>2, <2>4, LingersTrans
<1>8. QED BY <1>6, <1>7 DEF EnsureKernelProcess, t

\* StopStaleSidecars and RestartEngine.
LEMMA KillsLinger ==
    ASSUME NEW s, Good(s)
    PROVE  /\ Lingers(s, StopStale(s))
           /\ \A x \in Sessions, p \in Tracked(s) : Lingers(s, Restarted(s, x, p))
<1>1. s \in Supervisor /\ s.retiring \subseteq Procs
      /\ \A x \in Sessions : KernelOf(s, x) \in Kernels
  BY KernelOfType DEF Good, Supervisor
<1>2. Lingers(s, StopStale(s))
  <2> DEFINE stale(p) == p # NoProc /\ s.child[p].stale
             active == {k \in Kernels : stale(s.process[k])}
             parked == {key \in Keys : stale(s.parked[key])}
             t == StopActive(s, active)
             u == StopParked(t, parked)
             P == {p \in s.retiring : stale(p)}
  <2>1. StopStale(s) = StopRetired(u, P)
    BY DEF StopStale
  <2>2. active \in SUBSET Kernels /\ parked \in SUBSET Keys /\ P \in SUBSET Procs
    BY <1>1
  <2> HIDE DEF active, parked, P
  <2>3. t \in Supervisor /\ Good(t) /\ Lingers(s, t)
    BY <1>1, <2>2, StopActiveGood, StopsLinger DEF Good
  <2> HIDE DEF t
  <2>4. u \in Supervisor /\ Lingers(t, u)
    BY <2>2, <2>3, StopParkedGood, StopsLinger DEF Good
  <2> HIDE DEF u
  <2>5. Lingers(u, StopRetired(u, P))
    BY <2>2, <2>4, StopsLinger
  <2>6. QED BY <2>1, <2>3, <2>4, <2>5, LingersTrans
<1>3. ASSUME NEW x \in Sessions, NEW p \in Tracked(s)
      PROVE  Lingers(s, Restarted(s, x, p))
  <2> DEFINE k == KernelOf(s, x)
             key == <<k, s.child[p].workspace>>
             carried == (s.child[p].retiredTurns \cap s.busy) \cup {x}
             killed == [ForgetSessions(s, carried) EXCEPT !.notices = @ \cup carried,
                                                          !.child[p].retired = TRUE,
                                                          !.child[p].life = "dead"]
  <2>1. PICK stopped : /\ stopped \in {StopActive(s, {k}), StopParked(s, {key}), killed}
                       /\ Restarted(s, x, p).child = stopped.child
    <3> DEFINE stopped == CASE s.process[k] = p -> StopActive(s, {k})
                            [] s.process[k] # p /\ s.parked[key] = p -> StopParked(s, {key})
                            [] OTHER -> killed
    <3>1. Restarted(s, x, p)
            = [ForgetSessions(stopped, {x}) EXCEPT !.notices = (@ \ {x}) \cup (s.notices \cap {x})]
      BY DEF Restarted
    <3>2. stopped \in {StopActive(s, {k}), StopParked(s, {key}), killed}
      <4> HIDE DEF killed
      <4>1. QED OBVIOUS
    <3> HIDE DEF stopped
    <3>3. ForgetSessions(stopped, {x}).child = stopped.child
      BY DEF ForgetSessions
    <3>4. Restarted(s, x, p).child = ForgetSessions(stopped, {x}).child
      BY <3>1
    <3>5. QED BY <3>2, <3>3, <3>4
  <2>2. p \in Procs /\ key \in Keys
    BY <1>1, <1>3, TrackedProcs DEF Good, Accounted, AllPlaced, Keys
  <2>3. Lingers(s, StopActive(s, {k})) /\ Lingers(s, StopParked(s, {key}))
    BY <1>1, <2>2, StopsLinger
  <2>4. Lingers(s, killed)
    <3>1. killed.child = [s.child EXCEPT ![p].retired = TRUE, ![p].life = "dead"]
      BY <1>1 DEF ForgetSessions, Supervisor
    <3> HIDE DEF killed
    <3>2. QED BY <1>1, <2>2, <3>1 DEF Lingers, Supervisor, Child
  <2> HIDE DEF killed, key, k
  <2>5. QED BY <2>1, <2>3, <2>4 DEF Lingers
<1>4. QED BY <1>2, <1>3

-----------------------------------------------------------------------------
(* Staffed executions: steady ones in which no conversation moves to another *)
(* workspace while workers of it are counted, and workers are counted only   *)
(* for a conversation that is at work in the process that reports them.      *)

WorkersStay == \A x \in sup.workers \cap sup'.workers : sup'.workspaces[x] = sup.workspaces[x]
HeardInPlace ==
    \A p \in Procs : ReadEvent(p) /\ Head(bridge[p].out).kind = "workers" =>
        LET x == Head(bridge[p].out).session IN x \in sup.sessions /\ Houses(sup, p, x)

Staffed == Steady /\ WorkersStay /\ HeardInPlace
StaffedSpec == Init /\ [][Staffed]_vars

\* p is where x is at work, and runs workers of it or is dead.
Employs(s, b, p, x) == Houses(s, p, x) /\ (s.child[p].life = "live" => x \in b[p].workers)
Employed(s, b, x) == (\E p \in Procs : Employs(s, b, p, x)) \/ Written(b, x, Dismissals)

\* A line that counts workers of x is about ones that run, or the line of their end follows it.
Honest(c, x) ==
    \A i \in DOMAIN c.out : c.out[i].kind = "workers" /\ c.out[i].session = x =>
        \/ x \in c.workers
        \/ \E j \in DOMAIN c.out : j > i /\ c.out[j].session = x /\ c.out[j].kind \in Dismissals

\* What holds of workers: those that are counted are employed, those that will be are honest.
Staff(s, b) ==
    /\ s.workers \subseteq s.sessions
    /\ \A x \in s.workers : Employed(s, b, x)
    /\ \A p \in Procs : /\ s.child[p].life = "none" => b[p].out = <<>>
                        /\ s.child[p].life = "live" => \A x \in Sessions : Honest(b[p], x)

StaffedInv == SteadyInv /\ Staff(sup, bridge)

\* The count of workers loses no session that is at work, and gets none.
Retains(s, t) ==
    /\ t.workers \subseteq s.workers /\ t.workers \subseteq t.sessions
    /\ \A x \in t.workers : Holds(s, t, x)

\* From b to c the sidecars that live in t report what becomes of workers.
Heeds(t, b, c) ==
    /\ \A p \in Procs :
          /\ t.child[p].life # "live" => c[p].out = b[p].out
          /\ t.child[p].life = "live" => \A x \in Sessions : Honest(b[p], x) => Honest(c[p], x)
    /\ \A x \in Sessions :
          \/ Written(c, x, Dismissals)
          \/ /\ ~Written(b, x, Dismissals)
             /\ \A p \in Procs : t.child[p].life = "live" /\ x \in b[p].workers => x \in c[p].workers

\* What an action has to do for its workers.
LEMMA HeedsStaff ==
    ASSUME NEW s \in Supervisor, NEW t, NEW b, NEW c, Staff(s, b),
           Retains(s, t), Lingers(s, t), Heeds(t, b, c)
    PROVE  Staff(t, c)
<1>1. ASSUME NEW x \in t.workers
      PROVE  Employed(t, c, x)
  <2>1. x \in Sessions /\ Employed(s, b, x) /\ Holds(s, t, x)
    BY <1>1 DEF Retains, Staff, Supervisor
  <2>2. QED BY <2>1 DEF Employed, Employs, Holds, Heeds
<1>2. ASSUME NEW p \in Procs
      PROVE  /\ t.child[p].life = "none" => c[p].out = <<>>
             /\ t.child[p].life = "live" => \A x \in Sessions : Honest(c[p], x)
  <2>1. CASE s.child[p].life = "none"
    <3>1. b[p].out = <<>> /\ \A x : Honest(b[p], x)
      BY <2>1 DEF Staff, Honest
    <3>2. QED BY <3>1 DEF Heeds
  <2>2. CASE s.child[p].life = "live"
    BY <2>2 DEF Staff, Lingers, Heeds
  <2>3. CASE s.child[p].life = "dead"
    BY <2>3 DEF Lingers
  <2>4. QED BY <2>1, <2>2, <2>3 DEF Supervisor, Child
<1>3. QED BY <1>1, <1>2 DEF Staff, Retains

LEMMA HeedsTrans ==
    ASSUME NEW t, NEW b, NEW c, NEW d, Heeds(t, b, c), Heeds(t, c, d)
    PROVE  Heeds(t, b, d)
BY DEF Heeds

\* No line and no worker changes.
LEMMA SameLinesHeed ==
    ASSUME NEW t, NEW b, NEW c,
           \A p \in Procs : c[p].out = b[p].out /\ c[p].workers = b[p].workers
    PROVE  Heeds(t, b, c)
BY DEF Heeds, Honest, Written

\* Those who are killed write nothing more, and what they wrote is read.
LEMMA SurvivorsHeed ==
    ASSUME NEW t, bridge \in Bridges
    PROVE  Heeds(t, bridge, Survivors(t))
<1>1. \A p \in Procs : /\ Survivors(t)[p].out = bridge[p].out
                       /\ t.child[p].life = "live" => Survivors(t)[p] = bridge[p]
  BY BridgeParts DEF Survivors, NewBridge
<1>2. QED BY <1>1 DEF Heeds, Written

\* Lines stay honest when the workers they are about run on, or the lines that follow say that
\* they do not.
LEMMA HonestAppend ==
    ASSUME NEW c, NEW d, NEW lines \in Seq(Events), c.out \in Seq(Events), d.out = c.out \o lines,
           NEW x, Honest(c, x),
           \/ x \in d.workers
           \/ /\ x \in c.workers => Spoken(lines, x, Dismissals)
              /\ \A i \in DOMAIN lines : ~(lines[i].kind = "workers" /\ lines[i].session = x)
    PROVE  Honest(d, x)
<1> DEFINE out == c.out
<1>1. SUFFICES ASSUME x \notin d.workers,
                      NEW i \in DOMAIN d.out, d.out[i].kind = "workers", d.out[i].session = x
               PROVE  \E j \in DOMAIN d.out :
                         j > i /\ d.out[j].session = x /\ d.out[j].kind \in Dismissals
  BY DEF Honest
<1>2. /\ \A j \in DOMAIN out : j \in DOMAIN d.out /\ d.out[j] = out[j] /\ j \in 1..Len(out)
      /\ \A j \in DOMAIN lines : /\ Len(out) + j \in DOMAIN d.out
                                 /\ d.out[Len(out) + j] = lines[j] /\ j \in Nat \ {0}
      /\ Len(out) \in Nat
  OBVIOUS
<1>3. i \in DOMAIN out
  <2>1. \/ i \in DOMAIN out
        \/ i - Len(out) \in DOMAIN lines /\ d.out[i] = lines[i - Len(out)]
    OBVIOUS
  <2>2. QED BY <1>1, <2>1
<1>4. CASE x \in c.workers
  <2>1. PICK j \in DOMAIN lines : lines[j].session = x /\ lines[j].kind \in Dismissals
    BY <1>1, <1>4 DEF Spoken
  <2>2. Len(out) + j \in DOMAIN d.out /\ d.out[Len(out) + j] = lines[j] /\ Len(out) + j > i
    BY <1>2, <1>3
  <2>3. QED BY <2>1, <2>2
<1>5. CASE x \notin c.workers
  <2>1. PICK j \in DOMAIN out : j > i /\ out[j].session = x /\ out[j].kind \in Dismissals
    BY <1>1, <1>2, <1>3, <1>5 DEF Honest
  <2>2. QED BY <1>2, <2>1
<1>6. QED BY <1>4, <1>5

\* A sidecar that does something about x heeds workers if those of x run on or start, or it says
\* that they have ended.
LEMMA DoesHeeds ==
    ASSUME NEW t, NEW b, NEW c, NEW p \in Procs, t.child[p].life = "live", NEW x \in Sessions,
           NEW lines, Does(b, c, p, x, lines), Reports(b, c, p, x, lines)
    PROVE  Heeds(t, b, c)
<1>1. /\ Wrote(b, c, p, lines) /\ \A q \in Procs \ {p} : c[q] = b[q]
      /\ lines \in Seq(Events) /\ b[p].out \in Seq(Events) /\ c[p].out = b[p].out \o lines
  BY BridgeParts DEF Does, Wrote
<1>2. ASSUME NEW y \in Sessions, Honest(b[p], y)
      PROVE  Honest(c[p], y)
  <2>1. \/ y \in c[p].workers
        \/ /\ y \in b[p].workers => Spoken(lines, y, Dismissals)
           /\ \A i \in DOMAIN lines : ~(lines[i].kind = "workers" /\ lines[i].session = y)
    BY DEF Does, Reports
  <2> DEFINE k == b[p]
             l == c[p]
  <2>2. k.out \in Seq(Events) /\ l.out = k.out \o lines /\ lines \in Seq(Events)
    BY <1>1
  <2>3. Honest(k, y)
    BY <1>2
  <2>4. \/ y \in l.workers
        \/ /\ y \in k.workers => Spoken(lines, y, Dismissals)
           /\ \A i \in DOMAIN lines : ~(lines[i].kind = "workers" /\ lines[i].session = y)
    BY <2>1
  <2> HIDE DEF k, l
  <2>5. Honest(l, y)
    BY <2>2, <2>3, <2>4, HonestAppend
  <2>6. QED BY <2>5 DEF l
<1>3. ASSUME NEW y \in Sessions
      PROVE  \/ Written(c, y, Dismissals)
             \/ /\ ~Written(b, y, Dismissals)
                /\ \A q \in Procs :
                      t.child[q].life = "live" /\ y \in b[q].workers => y \in c[q].workers
  <2>1. Written(c, y, Dismissals) <=> Written(b, y, Dismissals) \/ Spoken(lines, y, Dismissals)
    BY <1>1, WroteWritten
  <2>2. y # x => (y \in c[p].workers <=> y \in b[p].workers)
    BY DEF Does
  <2>3. QED BY <1>1, <2>1, <2>2 DEF Reports
<1>4. QED BY <1>1, <1>2, <1>3 DEF Heeds

\* An action that guards sessions retains their workers.
LEMMA GuardsRetain ==
    ASSUME NEW s, NEW t, s.workers \subseteq s.sessions, Guards(s, t)
    PROVE  Retains(s, t)
BY DEF Guards, Shelters, AtWork, Retains

\* So does one that moves no process and no session with workers.
LEMMA SamePlacesRetain ==
    ASSUME NEW s, NEW t, SamePlaces(s, t), t.workers \subseteq s.workers, t.workers \subseteq t.sessions,
           \A x \in t.workers : KernelOf(t, x) = KernelOf(s, x) /\ t.workspaces[x] = s.workspaces[x]
    PROVE  Retains(s, t) /\ Lingers(s, t)
BY SamePlacesHold, SameLifeLingers DEF Retains, SamePlaces

\* What the invariant of staffed executions has of the steady ones.
LEMMA StaffedParts ==
    ASSUME StaffedInv
    PROVE  /\ SteadyInv /\ Staff(sup, bridge) /\ Good(sup)
           /\ sup \in Supervisor /\ bridge \in Bridges
           /\ sup.workers \subseteq sup.sessions /\ sup.busy \subseteq sup.sessions
           /\ sup.sessions \subseteq Sessions
           /\ \A x \in sup.sessions : KernelOf(sup, x) = ConversationKernel[x]
BY SteadyParts DEF StaffedInv, Staff, SteadyInv, Matched

LEMMA RetainsTrans ==
    ASSUME NEW s, NEW t, NEW u, Retains(s, t), Retains(t, u)
    PROVE  Retains(s, u)
BY DEF Retains, Holds

\* Processes are stopped or started, and the sidecars go on or are killed.
LEMMA SurvivorsStaff ==
    ASSUME StaffedInv, Guards(sup, sup'), Lingers(sup, sup'), bridge' = Survivors(sup')
    PROVE  Staff(sup', bridge')
BY StaffedParts, GuardsRetain, SurvivorsHeed, HeedsStaff

\* No process moves.
LEMMA SamePlacesStaff ==
    ASSUME StaffedInv, SamePlaces(sup, sup'),
           sup'.workers \subseteq sup.workers, sup'.workers \subseteq sup'.sessions,
           \A x \in sup'.workers : /\ KernelOf(sup', x) = KernelOf(sup, x)
                                   /\ sup'.workspaces[x] = sup.workspaces[x],
           Heeds(sup', bridge, bridge')
    PROVE  Staff(sup', bridge')
BY StaffedParts, SamePlacesRetain, HeedsStaff

\* A sidecar does something, and the Supervisor does not know of it yet.
LEMMA DoesStaff ==
    ASSUME StaffedInv, sup' = sup, NEW p \in Procs, Live(p), NEW x \in Sessions, NEW lines,
           Does(bridge, bridge', p, x, lines), Reports(bridge, bridge', p, x, lines)
    PROVE  Staff(sup', bridge')
<1>1. Heeds(sup', bridge, bridge')
  BY DoesHeeds DEF Live
<1>2. SamePlaces(sup, sup') /\ sup'.workers = sup.workers /\ sup'.sessions = sup.sessions
  BY DEF SamePlaces
<1>3. QED BY <1>1, <1>2, StaffedParts, SamePlacesStaff

\* A message sent: whoever it parks, stops or replaces has no workers.
LEMMA SendStaff ==
    ASSUME StaffedInv, NEW x \in Sessions, NEW w \in Workspaces, SendMessage(x, w),
           Matched(sup'), WorkersStay
    PROVE  Staff(sup', bridge')
<1> DEFINE e == Ensured(x, w)
           ready == Ready(x, w)
           p == ProcessForSession(ready, x)
           k == KernelOf(sup, x)
<1>1. /\ IInv /\ SteadyInv /\ sup \in Supervisor /\ bridge \in Bridges
      /\ Good(sup) /\ k \in Kernels /\ CanEnsure(sup, k, w)
      /\ Good(e) /\ Good(ready) /\ SamePlaces(e, ready) /\ SamePlaces(ready, sup')
      /\ sup'.kernels = ready.kernels /\ sup'.workspaces = ready.workspaces
  BY StaffedParts, SteadyParts, SendReady
<1>2. Guards(sup, e)
  BY <1>1, EnsuredCares DEF Cares
<1>3. ready.sessions = e.sessions /\ ready.workers = e.workers
  BY <1>1 DEF Ready, Good, Supervisor
<1>4. \/ /\ Reaches(ready, p) /\ bridge[p].turns[x] < MaxTurns
         /\ sup' = [ready EXCEPT !.sessions = @ \cup {x}, !.busy = @ \cup {x}]
         /\ bridge' = Prompted(Survivors(ready), p, x)
      \/ /\ sup' = ready /\ bridge' = Survivors(ready)
  BY DEF SendMessage, Ready, Ensured
<1>5. Lingers(sup, sup')
  <2>1. Lingers(sup, e)
    BY <1>1, EnsureLingers DEF Ensured
  <2> HIDE DEF e, ready
  <2>2. \A q \in Procs : sup'.child[q].life = e.child[q].life
    BY <1>1 DEF SamePlaces
  <2>3. Lingers(e, sup')
    BY <2>2, SameLifeLingers
  <2>4. QED BY <2>1, <2>3, LingersTrans
<1>6. SamePlaces(e, sup') /\ Survivors(ready) = Survivors(sup') /\ Survivors(sup') \in Bridges
      /\ sup'.workers = e.workers /\ e.sessions \subseteq sup'.sessions
  <2>1. SamePlaces(e, sup') /\ Survivors(ready) = Survivors(sup')
    BY <1>1 DEF SamePlaces, Survivors
  <2>2. e \in Supervisor /\ Survivors(e) = Survivors(sup')
    BY <1>1, <2>1 DEF Good, SamePlaces, Survivors
  <2>3. Survivors(sup') \in Bridges
    BY <1>1, <2>2, SurvivorsType
  <2>4. ready \in Supervisor
    BY <1>1 DEF Good
  <2> HIDE DEF e, ready, p
  <2>5. sup'.workers = ready.workers /\ ready.sessions \subseteq sup'.sessions
    BY <1>4, <2>4 DEF Supervisor
  <2>6. QED BY <1>3, <2>1, <2>3, <2>5
<1>7. Retains(sup, sup')
  <2> HIDE DEF e, ready
  <2>1. Retains(sup, e)
    BY <1>2, StaffedParts, GuardsRetain
  <2>2. ASSUME NEW y \in sup'.workers
        PROVE  KernelOf(sup', y) = KernelOf(e, y) /\ sup'.workspaces[y] = e.workspaces[y]
    <3>1. y \in e.sessions /\ y \in sup'.sessions /\ y \in sup.workers /\ y \in sup.sessions
      BY <1>6, <2>1, StaffedParts DEF Retains
    <3>2. KernelOf(sup', y) = ConversationKernel[y] /\ KernelOf(sup, y) = ConversationKernel[y]
      BY <3>1, StaffedParts DEF Matched
    <3>3. KernelOf(e, y) = KernelOf(sup, y) /\ e.workspaces[y] = sup.workspaces[y]
      BY <1>2, <3>1 DEF Guards
    <3>4. sup'.workspaces[y] = sup.workspaces[y]
      BY <3>1 DEF WorkersStay
    <3>5. QED BY <3>2, <3>3, <3>4
  <2>3. sup'.workers \subseteq e.workers /\ sup'.workers \subseteq sup'.sessions
    BY <1>6, <2>1 DEF Retains
  <2>4. Retains(e, sup')
    BY <1>6, <2>2, <2>3, SamePlacesRetain
  <2>5. QED BY <2>1, <2>4, RetainsTrans
<1>8. Heeds(sup', bridge, bridge')
  <2>1. Heeds(sup', bridge, Survivors(sup'))
    BY <1>1, SurvivorsHeed
  <2>2. CASE bridge' = Survivors(ready)
    BY <1>6, <2>1, <2>2
  <2>3. CASE /\ Reaches(ready, p) /\ bridge[p].turns[x] < MaxTurns
             /\ bridge' = Prompted(Survivors(ready), p, x)
    <3>1. p \in Procs /\ ready.child[p].life = "live"
      BY <1>1, <2>3, ReachedIsProc DEF Good, Reaches
    <3> HIDE DEF p, ready
    <3>2. Survivors(ready)[p] = bridge[p] /\ sup'.child[p].life = "live"
      BY <1>1, <3>1 DEF Survivors, SamePlaces
    <3>3. PICK lines :
             /\ Does(Survivors(ready), bridge', p, x, lines)
             /\ bridge'[p].workers = Survivors(ready)[p].workers
             /\ lines = <<Event("settled", x)>> \/ lines = <<>>
      BY <1>6, <2>3, <3>1, <3>2, PromptedDoes
    <3>4. \A i \in DOMAIN lines : lines[i].kind # "workers"
      BY <3>3, OneLine DEF Event
    <3>5. Reports(Survivors(ready), bridge', p, x, lines)
      BY <3>3, <3>4 DEF Reports
    <3>6. Heeds(sup', Survivors(ready), bridge')
      BY <3>1, <3>2, <3>3, <3>5, DoesHeeds
    <3>7. QED BY <1>6, <2>1, <3>6, HeedsTrans
  <2>4. QED BY <1>4, <2>2, <2>3
<1>9. QED BY <1>1, <1>5, <1>7, <1>8, StaffedParts, HeedsStaff

\* The first half of a message.
LEMMA BindStaff ==
    ASSUME StaffedInv, NEW x \in Sessions, NEW w \in Workspaces, BindSessionKernel(x, w)
    PROVE  Staff(sup', bridge')
<1>1. /\ SamePlaces(sup, sup') /\ sup'.workers = sup.workers /\ sup'.sessions = sup.sessions
      /\ sup'.workspaces = sup.workspaces /\ bridge' = bridge
      /\ \A y \in sup.sessions : KernelOf(sup', y) = KernelOf(sup, y)
  BY StaffedParts, BindCares
<1>2. Heeds(sup', bridge, bridge')
  BY <1>1 DEF Heeds
<1>3. QED BY <1>1, <1>2, StaffedParts, SamePlacesStaff

\* The dispatches that send nothing.
LEMMA DispatchStaff ==
    ASSUME StaffedInv, NEW x \in Sessions, NEW w \in Workspaces,
           SendMessageSpawnFails(x, w) \/ RefreshBackgroundTasks(x, w)
    PROVE  Staff(sup', bridge')
<1>1. bridge' = Survivors(sup') /\ SteadyInv
  BY StaffedParts DEF SendMessageSpawnFails, RefreshBackgroundTasks
<1>2. CASE SendMessageSpawnFails(x, w)
  <2>1. sup' = Prepared(sup, KernelOf(sup, x), w) /\ KernelOf(sup, x) \in Kernels
    BY <1>2, StaffedParts, KernelOfType DEF SendMessageSpawnFails
  <2>2. Lingers(sup, sup')
    BY <2>1, StaffedParts, EnsureLingers
  <2>3. QED BY <1>1, <1>2, <2>2, UnspawnedCares, SurvivorsStaff DEF Cares
<1>3. CASE RefreshBackgroundTasks(x, w)
  <2> DEFINE k == KernelOf(sup, x)
  <2>1. k \in Kernels /\ sup' = EnsureKernelProcess(sup, k, w) /\ CanEnsure(sup, k, w)
    BY <1>3, StaffedParts, KernelOfType DEF RefreshBackgroundTasks
  <2> HIDE DEF k
  <2>2. Cares(sup, sup')
    BY <2>1, StaffedParts, EnsureCares
  <2>3. Lingers(sup, sup')
    BY <2>1, StaffedParts, EnsureLingers
  <2>4. QED BY <1>1, <2>2, <2>3, SurvivorsStaff DEF Cares
<1>4. QED BY <1>2, <1>3

\* The stops and the ends of processes.
LEMMA StopsStaff ==
    ASSUME StaffedInv, Unrestarted(sup'),
           \/ StopStaleSidecars
           \/ \E x \in Sessions : RestartEngine(x)
           \/ \E p \in Procs : ProcessExits(p)
    PROVE  Staff(sup', bridge')
<1>1. CASE StopStaleSidecars
  <2>1. sup' = StopStale(sup) /\ bridge' = Survivors(sup')
    BY <1>1 DEF StopStaleSidecars
  <2>2. Guards(sup, sup')
    BY <2>1, StaffedParts, StopStaleCares DEF Cares
  <2>3. Lingers(sup, sup')
    BY <2>1, StaffedParts, KillsLinger
  <2>4. QED BY <2>1, <2>2, <2>3, SurvivorsStaff
<1>2. ASSUME NEW x \in Sessions, RestartEngine(x)
      PROVE  Staff(sup', bridge')
  <2> DEFINE p == ProcessForSession(sup, x)
  <2>1. /\ p \in InRotation(sup) /\ sup' = Restarted(sup, x, p) /\ bridge' = Survivors(sup')
    BY <1>2, StaffedParts, RestartInRotation
  <2>2. p \in Tracked(sup)
    BY <2>1 DEF InRotation, Tracked
  <2>3. Guards(sup, sup')
    BY <2>1, StaffedParts, RestartedGuards
  <2>4. Lingers(sup, sup')
    BY <2>1, <2>2, StaffedParts, KillsLinger
  <2>5. QED BY <2>1, <2>3, <2>4, SurvivorsStaff
<1>3. ASSUME NEW p \in Procs, ProcessExits(p)
      PROVE  Staff(sup', bridge')
  <2>1. /\ sup' = Exited(sup, p) /\ bridge' = bridge /\ bridge[p].out = <<>>
        /\ Good(sup) /\ SteadyInv
    BY <1>3, StaffedParts DEF ProcessExits
  <2>2. Guards(sup, sup')
    BY <2>1, StaffedParts, ExitedGuards DEF SteadyInv, Unrestarted
  <2>3. Good(sup') /\ Removed(sup, sup', {p})
    BY <2>1, ExitedGood
  <2>4. \A q \in Procs \ {p} : sup'.child[q] = sup.child[q]
    BY <2>3 DEF Removed
  <2>5. \A x : Honest(bridge[p], x)
    BY <2>1 DEF Honest
  <2>6. Retains(sup, sup')
    BY <2>2, StaffedParts, GuardsRetain
  <2>7. ASSUME NEW x \in sup'.workers PROVE Employed(sup', bridge', x)
    <3>1. Employed(sup, bridge, x) /\ Holds(sup, sup', x)
      BY <2>6, <2>7, StaffedParts DEF Retains, Staff
    <3>2. QED BY <2>1, <3>1 DEF Employed, Employs, Holds
  <2>8. QED BY <2>1, <2>4, <2>5, <2>6, <2>7, StaffedParts DEF Staff, Retains
<1>4. QED BY <1>1, <1>2, <1>3

\* New credentials, crashes and timers.
LEMMA MarksStaff ==
    ASSUME StaffedInv, \/ InvalidateCredentials
                       \/ \E p \in Procs : Crash(p) \/ IdleTimeout(p) \/ BusyCeiling(p)
    PROVE  Staff(sup', bridge')
<1>1. IInv /\ Good(sup) /\ sup.busy \subseteq sup.sessions
  BY StaffedParts, SteadyParts
<1>2. Marks(sup, sup')
  BY <1>1, MarksAll
<1>3. Guards(sup, sup')
  BY <1>1, <1>2, MarksGuards
<1>4. sup' \in Supervisor
  <2>1. IInv'
    BY <1>1, NextIInv DEF Next, Rotation, Ceilings, Crashes, Idling
  <2>2. QED BY <2>1, IInvPartsNext DEF Good
<1>5. Lingers(sup, sup')
  BY <1>2, <1>4 DEF Marks, Marked, Lingers, Supervisor, Child
<1>6. bridge' = bridge \/ bridge' = Survivors(sup')
  BY DEF InvalidateCredentials, Crash, IdleTimeout, BusyCeiling
<1>7. CASE bridge' = bridge
  <2>1. Heeds(sup', bridge, bridge')
    BY <1>7, SameLinesHeed
  <2>2. Retains(sup, sup')
    BY <1>3, StaffedParts, GuardsRetain
  <2>3. QED BY <1>5, <2>1, <2>2, StaffedParts, HeedsStaff
<1>8. QED BY <1>3, <1>5, <1>6, <1>7, SurvivorsStaff

\* Bookkeeping: no worker, no line, no place.
LEMMA BookkeepingStaff ==
    ASSUME StaffedInv, NEW x \in Sessions,
           \/ TrackResearchRun(x) \/ UntrackResearchRun(x) \/ RecoveryEnds(x) \/ StartProbe(x)
           \/ DeliverNotice(x) \/ \E w \in Workspaces : RecoverSession(x, w)
           \/ \E y \in Sessions : ForkSession(x, y) \/ ForkTimesOut(x, y)
    PROVE  Staff(sup', bridge')
<1>1. sup \in Supervisor /\ bridge \in Bridges
  BY StaffedParts
<1>2. /\ SamePlaces(sup, sup') /\ sup'.workers = sup.workers /\ sup'.kernels = sup.kernels
      /\ sup'.workspaces = sup.workspaces /\ sup.sessions \subseteq sup'.sessions
  BY <1>1 DEF TrackResearchRun, UntrackResearchRun, RecoveryEnds, StartProbe, DeliverNotice,
     RecoverSession, ForkSession, ForkTimesOut, SamePlaces, Supervisor
<1>3. \A p \in Procs : bridge'[p].out = bridge[p].out /\ bridge'[p].workers = bridge[p].workers
  <2>1. \/ bridge' = bridge
        \/ \E q \in Procs : bridge' = [bridge EXCEPT ![q].known = @ \cup {x}]
    <3>1. ASSUME NEW w \in Workspaces, RecoverSession(x, w)
          PROVE  \E q \in Procs : bridge' = [bridge EXCEPT ![q].known = @ \cup {x}]
      BY <1>1, <3>1, KernelsAssumption DEF RecoverSession, Reaches, Supervisor
    <3>2. QED BY <3>1 DEF TrackResearchRun, UntrackResearchRun, RecoveryEnds, StartProbe,
          DeliverNotice, ForkSession, ForkTimesOut
  <2>2. ASSUME NEW q \in Procs, bridge' = [bridge EXCEPT ![q].known = @ \cup {x}]
        PROVE  \A p \in Procs :
                  bridge'[p].out = bridge[p].out /\ bridge'[p].workers = bridge[p].workers
    BY <1>1, <2>2 DEF Bridges, Bridge
  <2>3. QED BY <2>1, <2>2
<1>4. Heeds(sup', bridge, bridge')
  BY <1>3, SameLinesHeed
<1>5. sup'.workers \subseteq sup'.sessions
  BY <1>2, StaffedParts
<1>6. QED BY <1>2, <1>4, <1>5, SamePlacesStaff DEF KernelOf

\* An answered fork has no workers yet.
LEMMA ForkStaff ==
    ASSUME StaffedInv, NEW x \in Sessions, NEW y \in Sessions, ForkAnswered(x, y)
    PROVE  Staff(sup', bridge')
<1>1. sup \in Supervisor /\ sup.workers \subseteq sup.sessions
  BY StaffedParts
<1>2. y \notin sup.workers
  BY <1>1 DEF ForkAnswered, StaffedInv, SteadyInv, ForksPending
<1>3. /\ SamePlaces(sup, sup') /\ sup'.workers = sup.workers /\ bridge' = bridge
      /\ sup.sessions \subseteq sup'.sessions
      /\ \A z \in Sessions \ {y} :
            sup'.kernels[z] = sup.kernels[z] /\ sup'.workspaces[z] = sup.workspaces[z]
  BY <1>1 DEF ForkAnswered, SamePlaces, Supervisor
<1>4. sup.workers \subseteq Sessions \ {y}
  BY <1>1, <1>2 DEF Supervisor
<1>5. Heeds(sup', bridge, bridge')
  BY <1>3, SameLinesHeed
<1>6. QED BY <1>1, <1>3, <1>4, <1>5, SamePlacesStaff DEF KernelOf

\* Stops and follow-ups.
LEMMA CommandsStaff ==
    ASSUME StaffedInv, NEW x \in Sessions, AbortMessage(x) \/ ForceStop(x) \/ ContinueBusy(x)
    PROVE  Staff(sup', bridge')
<1>1. sup \in Supervisor /\ bridge \in Bridges
  BY StaffedParts
<1>2. CASE bridge' = bridge
  <2>1. sup' = sup
    BY <1>1, CommandsDo
  <2>2. QED BY <1>2, <2>1 DEF StaffedInv
<1>3. CASE bridge' # bridge
  BY <1>1, <1>3, CommandsDo, DoesStaff
<1>4. QED BY <1>2, <1>3

\* What the sidecars do by themselves.
LEMMA SidecarStaff ==
    ASSUME StaffedInv, NEW p \in Procs, NEW x \in Sessions,
           \/ TurnWorks(p, x) \/ ModelCallFails(p, x) \/ TurnSettles(p, x) \/ TurnFails(p, x)
           \/ WorkersStart(p, x) \/ WorkersEnd(p, x)
    PROVE  Staff(sup', bridge')
BY StaffedParts, SidecarDoes, DoesStaff

\* DetachSession, DestroySession and the end of a probe.
LEMMA RemovalStaff ==
    ASSUME StaffedInv, NEW x \in Sessions, DetachSession(x) \/ DestroySession(x) \/ EndProbe(x)
    PROVE  Staff(sup', bridge')
<1> DEFINE p == ProcessForSession(sup, x)
           t == ForgetSessions(sup, {x})
<1>1. sup \in Supervisor /\ bridge \in Bridges
  BY StaffedParts
<1>2. t \in Supervisor /\ SamePlaces(sup, t) /\ t.workers = sup.workers \ {x}
      /\ t.sessions = sup.sessions \ {x}
      /\ \A y \in Sessions \ {x} : t.kernels[y] = sup.kernels[y] /\ t.workspaces[y] = sup.workspaces[y]
  BY <1>1, ForgottenSession
<1>3. sup' = t \/ sup' = [t EXCEPT !.waiters = @ \ {x}]
  BY DEF DetachSession, DestroySession, EndProbe
<1> HIDE DEF t
<1>4. SamePlaces(sup, sup') /\ sup'.workers = sup.workers \ {x} /\ sup'.sessions = sup.sessions \ {x}
      /\ \A y \in Sessions \ {x} :
            sup'.kernels[y] = sup.kernels[y] /\ sup'.workspaces[y] = sup.workspaces[y]
  BY <1>2, <1>3 DEF SamePlaces, Supervisor
<1>5. Heeds(sup', bridge, bridge')
  <2>1. bridge' = bridge \/ (Reaches(sup, p) /\ bridge' = Destroyed(bridge, p, x))
    BY DEF DetachSession, DestroySession, EndProbe, Dispose
  <2>2. CASE bridge' = bridge
    BY <2>2, SameLinesHeed
  <2>3. CASE Reaches(sup, p) /\ bridge' = Destroyed(bridge, p, x)
    <3>1. p \in Procs /\ sup'.child[p].life = "live"
      BY <1>1, <1>4, <2>3, ReachedIsProc DEF Reaches, SamePlaces
    <3> HIDE DEF p
    <3>2. PICK lines : /\ Does(bridge, bridge', p, x, lines) /\ Spoken(lines, x, {"destroyed"})
                       /\ \A i \in DOMAIN lines : lines[i].kind \in {"settled", "destroyed"}
      BY <1>1, <2>3, <3>1, DestroyedDoes
    <3>3. Reports(bridge, bridge', p, x, lines)
      BY <3>2 DEF Reports, Spoken, Dismissals
    <3>4. QED BY <3>1, <3>2, <3>3, DoesHeeds
  <2>4. QED BY <2>1, <2>2, <2>3
<1>6. sup'.workers \subseteq Sessions \ {x} /\ sup'.workers \subseteq sup'.sessions
      /\ sup'.workers \subseteq sup.workers
  BY <1>1, <1>4, StaffedParts DEF Supervisor
<1>7. QED BY <1>4, <1>5, <1>6, SamePlacesStaff DEF KernelOf

\* SendRegisteredMessage.
LEMMA RelayStaff ==
    ASSUME StaffedInv, NEW x \in Sessions, RelayMessage(x)
    PROVE  Staff(sup', bridge')
<1> DEFINE p == ProcessForSession(sup, x)
<1>1. sup \in Supervisor /\ bridge \in Bridges
  BY StaffedParts
<1>2. p \in Procs /\ Reaches(sup, p)
  BY <1>1, ReachedIsProc DEF RelayMessage
<1>3. /\ SamePlaces(sup, sup') /\ sup'.workers = sup.workers /\ sup'.kernels = sup.kernels
      /\ sup'.workspaces = sup.workspaces /\ sup'.sessions = sup.sessions
  BY <1>1 DEF RelayMessage, SamePlaces, Supervisor
<1>4. \/ /\ x \in bridge[p].known /\ bridge[p].turns[x] < MaxTurns
         /\ bridge' = Prompted(bridge, p, x)
      \/ bridge' = Says(bridge, p, <<Event("error", x)>>)
  BY DEF RelayMessage
<1> HIDE DEF p
<1>5. PICK lines :
        /\ Does(bridge, bridge', p, x, lines) /\ bridge'[p].workers = bridge[p].workers
        /\ lines = <<>> \/ lines = <<Event("error", x)>> \/ lines = <<Event("settled", x)>>
  <2>1. CASE /\ x \in bridge[p].known /\ bridge[p].turns[x] < MaxTurns
             /\ bridge' = Prompted(bridge, p, x)
    BY <1>1, <1>2, <2>1, PromptedDoes
  <2>2. CASE bridge' = Says(bridge, p, <<Event("error", x)>>)
    BY <1>1, <1>2, <2>2, SaysDoes
  <2>3. QED BY <1>4, <2>1, <2>2
<1>6. \A i \in DOMAIN lines : lines[i].kind # "workers"
  BY <1>5 DEF Event
<1>7. Reports(bridge, bridge', p, x, lines)
  BY <1>5, <1>6 DEF Reports
<1>8. sup'.child[p].life = "live"
  BY <1>2, <1>3 DEF Reaches, SamePlaces
<1>9. Heeds(sup', bridge, bridge')
  BY <1>2, <1>5, <1>7, <1>8, DoesHeeds
<1>10. QED BY <1>3, <1>9, StaffedParts, SamePlacesStaff DEF KernelOf

\* Lines stay honest when the first one is read, and so was that one.
LEMMA HonestTail ==
    ASSUME NEW c, NEW d, c.out \in Seq(Events), c.out # <<>>, d.out = Tail(c.out),
           d.workers = c.workers, NEW x, Honest(c, x)
    PROVE  /\ Honest(d, x)
           /\ Head(c.out).kind = "workers" /\ Head(c.out).session = x =>
                 x \in c.workers \/ Spoken(d.out, x, Dismissals)
<1> DEFINE out == c.out
           rest == Tail(out)
<1>1. out \in Seq(Events) /\ out # <<>> /\ d.out = rest /\ Head(out) = out[1] /\ 1 \in DOMAIN out
  OBVIOUS
<1>2. \A i \in DOMAIN out :
         x \in c.workers \/ ~(out[i].kind = "workers" /\ out[i].session = x)
         \/ \E j \in DOMAIN out : j > i /\ out[j].session = x /\ out[j].kind \in Dismissals
  BY DEF Honest
<1> HIDE DEF out
<1>3. ASSUME NEW i \in DOMAIN rest
      PROVE  i + 1 \in DOMAIN out /\ rest[i] = out[i + 1] /\ i \in Nat
  BY <1>1
<1>4. ASSUME NEW j \in DOMAIN out, NEW i \in Nat, j > i + 1
      PROVE  j - 1 \in DOMAIN rest /\ j - 1 > i /\ rest[j - 1] = out[j]
  BY <1>1, <1>4
<1> HIDE DEF rest
<1>5. Honest(d, x)
  <2>1. SUFFICES ASSUME x \notin d.workers,
                        NEW i \in DOMAIN d.out, d.out[i].kind = "workers", d.out[i].session = x
                 PROVE  \E j \in DOMAIN d.out :
                           j > i /\ d.out[j].session = x /\ d.out[j].kind \in Dismissals
    BY DEF Honest
  <2>2. i \in Nat /\ i + 1 \in DOMAIN out /\ d.out[i] = out[i + 1]
    BY <1>1, <1>3
  <2>3. PICK j \in DOMAIN out : j > i + 1 /\ out[j].session = x /\ out[j].kind \in Dismissals
    BY <1>2, <2>1, <2>2
  <2>4. j - 1 \in DOMAIN d.out /\ j - 1 > i /\ d.out[j - 1] = out[j]
    BY <1>1, <1>4, <2>2, <2>3
  <2>5. QED BY <2>3, <2>4
<1>6. ASSUME Head(out).kind = "workers", Head(out).session = x, x \notin c.workers
      PROVE  Spoken(d.out, x, Dismissals)
  <2>1. PICK j \in DOMAIN out : j > 1 /\ out[j].session = x /\ out[j].kind \in Dismissals
    BY <1>1, <1>2, <1>6
  <2>2. j - 1 \in DOMAIN d.out /\ d.out[j - 1] = out[j]
    <3>1. j > 0 + 1 /\ 0 \in Nat
      BY <2>1
    <3>2. QED BY <1>1, <1>4, <3>1
  <2>3. QED BY <2>1, <2>2 DEF Spoken
<1>7. QED BY <1>5, <1>6 DEF out

\* One line of output: what it counts runs, or its end is written; what it takes off is gone.
LEMMA ReadStaff ==
    ASSUME StaffedInv, NEW p \in Procs, ReadEvent(p), HeardInPlace
    PROVE  Staff(sup', bridge')
<1> DEFINE e == Head(bridge[p].out)
<1>1. /\ sup \in Supervisor /\ bridge \in Bridges /\ Staff(sup, bridge)
      /\ Reads(bridge, bridge', p) /\ e \in Events /\ sup' = Observed(sup, e)
  BY StaffedParts, SteadyParts, ReadEventReads
<1>2. e.kind = "workers" => e.session \in sup.sessions /\ Houses(sup, p, e.session)
  BY DEF HeardInPlace
<1>3. /\ bridge[p].out \in Seq(Events) /\ bridge[p].out # <<>>
      /\ bridge'[p].out = Tail(bridge[p].out) /\ bridge'[p].workers = bridge[p].workers
  BY <1>1, BridgeParts DEF Reads
<1>4. ASSUME NEW y, Honest(bridge[p], y)
      PROVE  /\ Honest(bridge'[p], y)
             /\ e.kind = "workers" /\ e.session = y =>
                   y \in bridge[p].workers \/ Spoken(bridge'[p].out, y, Dismissals)
  <2> DEFINE c == bridge[p]
             d == bridge'[p]
  <2>1. c.out \in Seq(Events) /\ c.out # <<>> /\ d.out = Tail(c.out) /\ d.workers = c.workers
    BY <1>3
  <2>2. Honest(c, y)
    BY <1>4
  <2> HIDE DEF c, d
  <2>3. Honest(d, y) /\ (Head(c.out).kind = "workers" /\ Head(c.out).session = y =>
                            y \in c.workers \/ Spoken(d.out, y, Dismissals))
    BY <2>1, <2>2, HonestTail
  <2>4. QED BY <2>3 DEF c, d
<1> HIDE DEF e
<1>5. /\ SamePlaces(sup, sup') /\ sup'.kernels = sup.kernels /\ sup'.workspaces = sup.workspaces
      /\ \A y \in sup'.workers : \/ y \in sup.workers /\ ~(e.session = y /\ e.kind \in Dismissals)
                                 \/ e.kind = "workers" /\ y = e.session
      /\ \A y \in sup.sessions \ sup'.sessions : y \notin sup'.workers
  BY <1>1, <1>2 DEF Observed, SamePlaces, Supervisor, Dismissals, Events
<1>6. sup'.workers \subseteq sup'.sessions
  BY <1>1, <1>2, <1>5 DEF Staff
<1>7. \A q, y : Houses(sup', q, y) <=> Houses(sup, q, y)
  BY <1>5 DEF Houses, SamePlaces, InRotation, ActiveProcs, ParkedProcs, KernelOf
<1>8. \A q \in Procs : bridge'[q].workers = bridge[q].workers /\ sup'.child[q] = sup.child[q]
  BY <1>1, <1>5 DEF Reads, SamePlaces
<1>9. ASSUME NEW y \in sup'.workers
      PROVE  Employed(sup', bridge', y)
  <2>1. CASE y \in sup.workers /\ ~(e.session = y /\ e.kind \in Dismissals)
    <3>1. Employed(sup, bridge, y)
      BY <1>1, <2>1 DEF Staff
    <3>2. Written(bridge', y, Dismissals) <=> Written(bridge, y, Dismissals)
      BY <1>1, <2>1, ReadsWritten DEF e
    <3>3. \A q \in Procs : Employs(sup, bridge, q, y) => Employs(sup', bridge', q, y)
      BY <1>7, <1>8 DEF Employs
    <3>4. QED BY <3>1, <3>2, <3>3 DEF Employed
  <2>2. CASE e.kind = "workers" /\ y = e.session
    <3>1. Houses(sup', p, y) /\ y \in Sessions
      BY <1>1, <1>2, <1>7, <2>2 DEF Supervisor
    <3>2. CASE sup.child[p].life # "live"
      BY <1>8, <3>1, <3>2 DEF Employs, Employed
    <3>3. CASE sup.child[p].life = "live"
      <4>1. Honest(bridge[p], y)
        BY <1>1, <3>1, <3>3 DEF Staff
      <4>2. y \in bridge[p].workers \/ Spoken(bridge'[p].out, y, Dismissals)
        BY <1>4, <2>2, <4>1
      <4>3. QED BY <1>8, <3>1, <4>2 DEF Employs, Employed, Written
    <3>4. QED BY <3>2, <3>3
  <2>3. QED BY <1>5, <2>1, <2>2
<1>10. ASSUME NEW q \in Procs
       PROVE  /\ sup'.child[q].life = "none" => bridge'[q].out = <<>>
              /\ sup'.child[q].life = "live" => \A y \in Sessions : Honest(bridge'[q], y)
  <2>1. /\ sup.child[q].life = "none" => bridge[q].out = <<>>
        /\ sup.child[q].life = "live" => \A y \in Sessions : Honest(bridge[q], y)
    BY <1>1 DEF Staff
  <2>2. CASE q = p
    BY <1>3, <1>4, <1>8, <2>1, <2>2
  <2>3. CASE q # p
    BY <1>1, <1>8, <2>1, <2>3 DEF Reads
  <2>4. QED BY <2>2, <2>3
<1>11. QED BY <1>6, <1>9, <1>10 DEF Staff

-----------------------------------------------------------------------------
(* Every step of a staffed execution.                                       *)

LEMMA StaffedSteps ==
    ASSUME StaffedInv, Staffed
    PROVE  Staff(sup', bridge')
<1>1. Next /\ Matched(sup') /\ Unrestarted(sup') /\ WorkersStay /\ HeardInPlace
  BY DEF Staffed, Steady
<1>2. CASE Sends \/ SpawnFailures
  BY <1>1, <1>2, SendStaff, DispatchStaff DEF Sends, SpawnFailures
<1>13. CASE Binds
  BY <1>13, BindStaff DEF Binds
<1>3. CASE Aborts \/ TurnEndings \/ Streams
  BY <1>3, CommandsStaff, SidecarStaff DEF Aborts, TurnEndings, Streams
<1>4. CASE Relays
  BY <1>4, RelayStaff, CommandsStaff DEF Relays
<1>5. CASE Removals
  BY <1>5, RemovalStaff DEF Removals
<1>6. CASE Research
  BY <1>6, BookkeepingStaff, SidecarStaff DEF Research
<1>7. CASE Recovery
  BY <1>7, DispatchStaff, BookkeepingStaff DEF Recovery
<1>8. CASE ProbesAndForks
  BY <1>8, BookkeepingStaff, RemovalStaff, ForkStaff DEF ProbesAndForks
<1>9. CASE Rotation \/ Ceilings \/ Crashes \/ Idling
  BY <1>9, MarksStaff DEF Rotation, Ceilings, Crashes, Idling
<1>10. CASE Revocation \/ Restarts
  BY <1>1, <1>10, StopsStaff DEF Revocation, Restarts
<1>11. CASE Readers
  BY <1>1, <1>11, ReadStaff, StopsStaff, BookkeepingStaff DEF Readers
<1>12. QED BY <1>1, <1>2, <1>3, <1>4, <1>5, <1>6, <1>7, <1>8, <1>9, <1>10, <1>11, <1>13 DEF Next

\* The invariant of staffed executions is inductive.
LEMMA NextStaffedInv == StaffedInv /\ [Staffed]_vars => StaffedInv'
<1> SUFFICES ASSUME StaffedInv, [Staffed]_vars PROVE StaffedInv'
  OBVIOUS
<1>1. SteadyInv'
  BY NextSteadyInv DEF StaffedInv, Staffed
<1>2. CASE Staffed
  BY <1>1, <1>2, StaffedSteps DEF StaffedInv
<1>3. CASE UNCHANGED vars
  BY <1>1, <1>3 DEF vars, StaffedInv
<1>4. QED BY <1>2, <1>3

\* At first there are no workers and no lines.
LEMMA InitStaffedInv == Init => StaffedInv
<1> SUFFICES ASSUME Init PROVE StaffedInv
  OBVIOUS
<1>1. Staff(sup, bridge)
  BY DEF Init, NewSupervisor, NewBridge, NoChild, Staff, Honest
<1>2. QED BY <1>1, InitSteadyInv DEF StaffedInv

\* What the invariant is for.
LEMMA StaffIsAccountedFor ==
    ASSUME Good(sup), Staff(sup, bridge)
    PROVE  WorkersAreAccountedFor
<1> SUFFICES ASSUME NEW x \in sup.workers
             PROVE  \/ \E p \in Procs : RunsWorkers(p, x)
                    \/ WillBeRead(x, {"workersDone", "error", "destroyed"})
                    \/ EndOfFile(x)
  BY DEF WorkersAreAccountedFor
<1>1. CASE Written(bridge, x, Dismissals)
  BY <1>1 DEF Written, Spoken, Dismissals, WillBeRead
<1>2. ASSUME NEW p \in Procs, Employs(sup, bridge, p, x)
      PROVE  RunsWorkers(p, x) \/ EndOfFile(x)
  <2>1. p \in Tracked(sup)
    BY <1>2 DEF Employs, Houses, InRotation, Tracked
  <2>2. sup.child[p].life \in {"live", "dead"} /\ sup.child[p].workspace # NoWorkspace
    BY <2>1, TrackedStarted, WorkspacesAssumption
  <2>3. CASE sup.child[p].life = "live"
    BY <1>2, <2>3 DEF Employs, RunsWorkers, Live
  <2>4. CASE sup.child[p].life = "dead"
    BY <1>2, <2>1, <2>2, <2>4 DEF Employs, Houses, Serves, EndOfFile
  <2>5. QED BY <2>2, <2>3, <2>4
<1>3. QED BY <1>1, <1>2 DEF Staff, Employed

\* Workers that the Supervisor counts run, or the line or the end of file that takes them off
\* is under way, in every steady execution - as long as no conversation moves to another
\* workspace while workers of it are counted, and workers are counted only where their
\* conversation is at work.
THEOREM WorkersStaffed == StaffedSpec => []WorkersAreAccountedFor
<1>1. StaffedInv => WorkersAreAccountedFor
  BY StaffedParts, StaffIsAccountedFor DEF StaffedInv
<1>2. QED BY InitStaffedInv, NextStaffedInv, <1>1, PTL DEF StaffedSpec

-----------------------------------------------------------------------------
(* Dispatches kill no process with work.                                    *)

\* Of any retiring processes one was there before the others.
Queued(s) ==
    \A T \in SUBSET s.retiring : T # {} => \E p \in T : \A q \in T : <<q, p>> \notin s.order
\* No process has been stale for staleSidecarBusyCeiling.
Young(s) == (\A p \in Procs : ~s.child[p].pastCeiling) /\ Queued(s)

\* What is at work in s is at work in t, and no process that housed it is gone.
Spares(s, t) ==
    /\ s.busy \subseteq t.busy /\ s.workers \subseteq t.workers /\ AtWork(s) \subseteq t.sessions
    /\ \A p \in Procs : s.child[p].life = "live" /\ t.child[p].life # "live" =>
          \A x \in AtWork(s) : ~Houses(s, p, x)

\* What the operators of a dispatch do, as long as no process is past its ceiling.
Passes(s, t) == Guards(s, t) /\ (Young(s) => Spares(s, t) /\ Young(t))

LEMMA PassesTrans ==
    ASSUME NEW s, NEW t, NEW u, Passes(s, t), Passes(t, u)
    PROVE  Passes(s, u)
<1>1. Guards(s, u)
  BY GuardsTrans DEF Passes
<1>2. SUFFICES ASSUME Young(s) PROVE Spares(s, u) /\ Young(u)
  BY <1>1 DEF Passes
<1>3. Spares(s, t) /\ Spares(t, u) /\ Young(u)
  BY <1>2 DEF Passes
<1>4. AtWork(s) \subseteq AtWork(t)
  BY <1>3 DEF Spares, AtWork
<1>5. \A x \in AtWork(s) : Holds(s, t, x)
  BY <1>4 DEF Passes, Guards, Shelters
<1>6. QED BY <1>3, <1>4, <1>5 DEF Spares, Holds

\* No place gains a process, and no process gets old.
Ebbs(s, t) ==
    /\ t.retiring \subseteq s.retiring /\ t.order \subseteq s.order
    /\ \A p \in Procs : t.child[p].pastCeiling => s.child[p].pastCeiling

LEMMA EbbsYoung ==
    ASSUME NEW s, NEW t, Ebbs(s, t), Young(s)
    PROVE  Young(t)
<1>1. ASSUME NEW T \in SUBSET t.retiring, T # {}
      PROVE  \E p \in T : \A q \in T : <<q, p>> \notin t.order
  BY <1>1 DEF Ebbs, Young, Queued
<1>2. QED BY <1>1 DEF Ebbs, Young, Queued

LEMMA StopsEbb ==
    ASSUME NEW s \in Supervisor
    PROVE  /\ \A K : Ebbs(s, StopParked(s, K))
           /\ \A P : Ebbs(s, StopRetired(s, P))
<1>1. ASSUME NEW t, t.child = s.child, t.retiring \subseteq s.retiring, t.order \subseteq s.order,
             NEW P, NEW X
      PROVE  Ebbs(s, Interrupt(Stop(t, P), X))
  <2>1. /\ Interrupt(Stop(t, P), X).child = Stop(t, P).child
        /\ Interrupt(Stop(t, P), X).retiring = t.retiring
        /\ Interrupt(Stop(t, P), X).order = t.order
    BY DEF Interrupt, ForgetSessions, Stop
  <2>2. \A p \in Procs : Stop(t, P).child[p] = IF p \in P
                            THEN [NoChild EXCEPT !.retired = TRUE, !.life = "dead"] ELSE s.child[p]
    BY <1>1 DEF Stop
  <2>3. \A p \in Procs : Stop(t, P).child[p].pastCeiling => s.child[p].pastCeiling
    BY <2>2 DEF NoChild
  <2>4. QED BY <1>1, <2>1, <2>3 DEF Ebbs
<1>2. Ebbs(s, s)
  BY DEF Ebbs
<1>3. ASSUME NEW K
      PROVE  Ebbs(s, StopParked(s, K))
  <2>1. /\ TakeParked(s, K).child = s.child /\ TakeParked(s, K).retiring = s.retiring
        /\ TakeParked(s, K).order \subseteq s.order
    BY DEF TakeParked, Without
  <2>2. QED BY <1>1, <1>2, <2>1 DEF StopParked
<1>4. ASSUME NEW P
      PROVE  Ebbs(s, StopRetired(s, P))
  <2>1. /\ TakeRetiring(s, P).child = s.child /\ TakeRetiring(s, P).retiring \subseteq s.retiring
        /\ TakeRetiring(s, P).order \subseteq s.order
    BY DEF TakeRetiring, Without
  <2>2. QED BY <1>1, <1>2, <2>1 DEF StopRetired
<1>5. QED BY <1>3, <1>4

\* Processes are stopped that house nothing at work, and what is dropped is not at work.
LEMMA RemovedSpares ==
    ASSUME NEW s, NEW t, s.workers \subseteq s.sessions, s.busy \subseteq s.sessions,
           NEW P \in SUBSET Procs, Removed(s, t, P),
           NEW X, Dropped(s, t, X), X \cap AtWork(s) = {},
           \A p \in P, x \in AtWork(s) : ~Houses(s, p, x)
    PROVE  Spares(s, t)
<1>1. s.busy \subseteq AtWork(s) /\ s.workers \subseteq AtWork(s) /\ AtWork(s) \subseteq s.sessions
  BY DEF AtWork
<1>2. \A p \in Procs \ P : t.child[p] = s.child[p]
  BY DEF Removed
<1>3. QED BY <1>1, <1>2 DEF Spares, Dropped

\* What stopParkedLocked and stopRetiredProcessLocked forget.
LEMMA StopsForget ==
    ASSUME NEW s, Good(s)
    PROVE  /\ \A K \in SUBSET Keys : K # {} =>
                 Dropped(s, StopParked(s, K),
                         {x \in s.sessions : <<KernelOf(s, x), s.workspaces[x]>> \in K})
           /\ \A P \in SUBSET s.retiring : P # {} =>
                 Dropped(s, StopRetired(s, P),
                         (UNION {s.child[p].retiredTurns : p \in P}) \cap Working(s))
<1>1. s \in Supervisor
  BY DEF Good
<1>2. ASSUME NEW K \in SUBSET Keys, K # {}
      PROVE  Dropped(s, StopParked(s, K),
                     {x \in s.sessions : <<KernelOf(s, x), s.workspaces[x]>> \in K})
  <2> DEFINE taken == TakeParked(s, K)
             t == Stop(taken, {s.parked[key] : key \in K})
             gone == {x \in s.sessions : <<KernelOf(s, x), s.workspaces[x]>> \in K}
  <2>1. StopParked(s, K) = Interrupt(t, gone)
    BY <1>2 DEF StopParked
  <2>2. taken \in Supervisor
    BY <1>1, TakeParkedType
  <2>3. t \in Supervisor
    BY <2>2, StopType
  <2>4. SameSessions(s, t) /\ t.notices = s.notices
    BY <1>1 DEF SameSessions, Stop, TakeParked, Supervisor
  <2> HIDE DEF t, gone
  <2>5. Forgotten(s, StopParked(s, K), gone)
    BY <1>1, <2>1, <2>3, <2>4, InterruptForgotten
  <2>6. QED BY <2>5 DEF Forgotten, gone
<1>3. ASSUME NEW P \in SUBSET s.retiring, P # {}
      PROVE  Dropped(s, StopRetired(s, P),
                     (UNION {s.child[p].retiredTurns : p \in P}) \cap Working(s))
  <2> DEFINE taken == TakeRetiring(s, P)
             t == Stop(taken, P)
             gone == (UNION {s.child[p].retiredTurns : p \in P}) \cap Working(s)
  <2>1. StopRetired(s, P) = Interrupt(t, gone)
    BY <1>3 DEF StopRetired
  <2>2. taken \in Supervisor
    BY <1>1, TakeRetiringType
  <2>3. t \in Supervisor
    BY <2>2, StopType
  <2>4. SameSessions(s, t) /\ t.notices = s.notices
    BY <1>1 DEF SameSessions, Stop, TakeRetiring, Supervisor
  <2> HIDE DEF t, gone
  <2>5. Forgotten(s, StopRetired(s, P), gone)
    BY <1>1, <2>1, <2>3, <2>4, InterruptForgotten
  <2>6. QED BY <2>5 DEF Forgotten, gone
<1>4. QED BY <1>2, <1>3

\* Nothing is stopped.
LEMMA SparesRefl ==
    ASSUME NEW s, s.busy \subseteq s.sessions, s.workers \subseteq s.sessions
    PROVE  Spares(s, s)
BY DEF Spares, AtWork

\* The parked processes of workspaces without work.
LEMMA IdleSpares ==
    ASSUME NEW s, Good(s), s.busy \subseteq s.sessions, s.workers \subseteq s.sessions,
           NEW k \in Kernels, NEW K \in SUBSET IdleKeys(s, k)
    PROVE  Spares(s, StopParked(s, K))
<1> DEFINE P == {s.parked[key] : key \in K} \ {NoProc}
           gone == {x \in s.sessions : <<KernelOf(s, x), s.workspaces[x]>> \in K}
<1>1. s \in Supervisor /\ K \in SUBSET Keys /\ P \in SUBSET Procs
  <2>1. K \in SUBSET Keys
    BY StopsIdle
  <2>2. QED BY <2>1 DEF Good, Supervisor
<1>2. CASE K = {}
  BY <1>2, SparesRefl DEF StopParked
<1>3. CASE K # {}
  <2>1. Removed(s, StopParked(s, K), P) /\ Dropped(s, StopParked(s, K), gone)
    BY <1>1, <1>3, StopParkedGood, StopsForget
  <2>2. ASSUME NEW x \in AtWork(s) PROVE <<KernelOf(s, x), s.workspaces[x]>> \notin K
    <3>1. SUFFICES ASSUME <<KernelOf(s, x), s.workspaces[x]>> \in IdleKeys(s, k) PROVE FALSE
      OBVIOUS
    <3>2. KernelOf(s, x) = k /\ ~WorkspaceRunning(s, k, s.workspaces[x])
      BY <3>1 DEF IdleKeys, ParkedKeys
    <3>3. QED BY <2>2, <3>2 DEF WorkspaceRunning, AtWork
  <2>3. gone \cap AtWork(s) = {}
    BY <2>2
  <2>4. ASSUME NEW p \in P, NEW x \in AtWork(s) PROVE ~Houses(s, p, x)
    <3>1. PICK key \in K : p = s.parked[key]
      BY <2>4
    <3>2. p \notin s.retiring /\ <<s.child[p].kernel, s.child[p].workspace>> = key
      BY <1>1, <3>1, <2>4 DEF Good, Accounted, ParkedMatches, PlacesDisjoint, ParkedProcs
    <3>3. QED BY <2>2, <2>4, <3>1, <3>2 DEF Houses
  <2> HIDE DEF P, gone
  <2>5. QED BY <1>1, <2>1, <2>3, <2>4, RemovedSpares
<1>4. QED BY <1>2, <1>3

\* Retiring processes that carry no work.
LEMMA RetiredSpares ==
    ASSUME NEW s, Good(s), s.busy \subseteq s.sessions, s.workers \subseteq s.sessions,
           NEW P \in SUBSET s.retiring, \A p \in P : s.child[p].retiredTurns \cap Working(s) = {}
    PROVE  Spares(s, StopRetired(s, P))
<1> DEFINE gone == (UNION {s.child[p].retiredTurns : p \in P}) \cap Working(s)
<1>1. s \in Supervisor /\ P \in SUBSET Procs
  BY DEF Good, Supervisor
<1>2. CASE P = {}
  BY <1>2, SparesRefl DEF StopRetired
<1>3. CASE P # {}
  <2>1. Removed(s, StopRetired(s, P), P) /\ Dropped(s, StopRetired(s, P), gone)
    BY <1>3, StopRetiredGood, StopsForget
  <2>2. gone \cap AtWork(s) = {}
    BY DEF AtWork
  <2>3. ASSUME NEW p \in P, NEW x \in AtWork(s) PROVE ~Houses(s, p, x)
    <3>1. p \notin InRotation(s) /\ x \notin s.child[p].retiredTurns
      BY <2>3 DEF Good, Accounted, PlacesDisjoint, InRotation, Working, AtWork
    <3>2. QED BY <3>1 DEF Houses
  <2> HIDE DEF gone
  <2>4. QED BY <1>1, <2>1, <2>2, <2>3, RemovedSpares
<1>4. QED BY <1>2, <1>3

\* Forgetting nothing.
LEMMA ForgetNothing ==
    ASSUME NEW s \in Supervisor, NEW p
    PROVE  ProcessBusy(ForgetSessions(s, {}), p) <=> ProcessBusy(s, p)
<1> DEFINE t == ForgetSessions(s, {})
<1>1. /\ t.child = s.child /\ t.process = s.process /\ t.waiters = s.waiters
      /\ t.busy = s.busy /\ t.workers = s.workers /\ t.runs = s.runs /\ t.sessions = s.sessions
      /\ t.kernels = s.kernels /\ t.workspaces = s.workspaces
  BY DEF ForgetSessions, Supervisor
<1> HIDE DEF t
<1>2. Working(t) = Working(s) /\ \A x : Serves(t, p, x) <=> Serves(s, p, x)
  BY <1>1 DEF Working, Serves, KernelOf
<1>3. ProcessBusy(t, p) <=> ProcessBusy(s, p)
  BY <1>1, <1>2 DEF ProcessBusy
<1>4. QED BY <1>3 DEF t

\* What reapStaleProcessesLocked does on its walk, in what it has forgotten before p.
Before(s, stops, p) == {q \in s.retiring : <<q, p>> \in s.order /\ stops[q]}
Gone(s, stops, p) == (UNION {s.child[q].retiredTurns : q \in Before(s, stops, p)}) \cap Working(s)
Walk(s, stops) ==
    stops = [p \in Procs |-> \/ s.child[p].pastCeiling
                             \/ ~ProcessBusy(ForgetSessions(s, Gone(s, stops, p)), p)]

\* reapStaleProcessesLocked stops no process with work unless one is past its ceiling: only
\* what it forgets could leave a later process without work, and it forgets nothing.
LEMMA ReapStaleSpares ==
    ASSUME NEW s, Good(s), s.busy \subseteq s.sessions, s.workers \subseteq s.sessions, Young(s)
    PROVE  Spares(s, ReapStale(s))
<1> DEFINE stops == CHOOSE f : Walk(s, f)
           P == {p \in s.retiring : stops[p]}
           idle == [p \in Procs |-> ~ProcessBusy(s, p)]
<1>1. s \in Supervisor /\ s.retiring \subseteq Procs /\ \A p \in Procs : ~s.child[p].pastCeiling
  BY DEF Good, Supervisor, Young
<1>2. ReapStale(s) = StopRetired(s, P)
  BY Zenon DEF ReapStale, Walk, Gone, Before
<1>3. Walk(s, idle)
  <2>1. \A p : Gone(s, idle, p) = {}
    <3>1. \A q \in s.retiring : idle[q] => s.child[q].retiredTurns \cap Working(s) = {}
      BY <1>1 DEF ProcessBusy
    <3> HIDE DEF idle
    <3>2. QED BY <3>1 DEF Gone, Before
  <2>2. \A p : ProcessBusy(ForgetSessions(s, Gone(s, idle, p)), p) <=> ProcessBusy(s, p)
    BY <1>1, <2>1, ForgetNothing
  <2> DEFINE walked == [p \in Procs |-> \/ s.child[p].pastCeiling
                                        \/ ~ProcessBusy(ForgetSessions(s, Gone(s, idle, p)), p)]
  <2>3. \A p \in Procs : (s.child[p].pastCeiling \/ ~ProcessBusy(ForgetSessions(s, Gone(s, idle, p)), p))
                            = ~ProcessBusy(s, p)
    BY <1>1, <2>2
  <2>4. walked = idle
    BY <2>3, Zenon
  <2>5. QED BY <2>4 DEF Walk
<1>4. Walk(s, stops)
  BY <1>3
<1> HIDE DEF stops, idle
<1>5. \A p \in s.retiring : stops[p] => ~ProcessBusy(ForgetSessions(s, Gone(s, stops, p)), p)
  BY <1>1, <1>4, Zenon DEF Walk
<1> DEFINE T == {p \in s.retiring : stops[p] /\ s.child[p].retiredTurns \cap Working(s) # {}}
<1>6. T = {}
  <2>1. SUFFICES ASSUME T # {} PROVE FALSE
    OBVIOUS
  <2>2. PICK p \in T : \A q \in T : <<q, p>> \notin s.order
    <3>1. T \in SUBSET s.retiring
      OBVIOUS
    <3> HIDE DEF T
    <3>2. QED BY <2>1, <3>1 DEF Young, Queued
  <2>3. Gone(s, stops, p) = {}
    BY <2>2 DEF Gone, Before
  <2>4. ~ProcessBusy(s, p)
    BY <1>1, <1>5, <2>2, <2>3, ForgetNothing
  <2>5. QED BY <2>2, <2>4 DEF ProcessBusy
<1>7. P \in SUBSET s.retiring /\ \A p \in P : s.child[p].retiredTurns \cap Working(s) = {}
  BY <1>6
<1> HIDE DEF P
<1>8. QED BY <1>2, <1>7, RetiredSpares

\* What is at work is known.
Minded(s) == Good(s) /\ s.busy \subseteq s.sessions /\ s.workers \subseteq s.sessions

LEMMA PassesKnown ==
    ASSUME NEW s, Minded(s), NEW t, Good(t), Guards(s, t)
    PROVE  Minded(t)
BY DEF Minded, Guards, Shelters

\* The reapers and evictParkedOverLimitLocked.
LEMMA ReapsPass ==
    ASSUME NEW s, Minded(s), NEW k \in Kernels
    PROVE  /\ Passes(s, ReapParked(s, k)) /\ Passes(s, EvictOverLimit(s, k))
           /\ Passes(s, ReapStale(s))
<1>1. /\ Good(s) /\ s \in Supervisor
      /\ Guards(s, ReapParked(s, k)) /\ Guards(s, EvictOverLimit(s, k)) /\ Guards(s, ReapStale(s))
  BY ReapsCare DEF Minded, Good, Cares
<1>2. Spares(s, ReapParked(s, k)) /\ Spares(s, EvictOverLimit(s, k))
  BY StopsIdle, IdleSpares DEF Minded
<1>3. Young(s) => Spares(s, ReapStale(s))
  BY ReapStaleSpares DEF Minded
<1>4. Ebbs(s, ReapParked(s, k)) /\ Ebbs(s, EvictOverLimit(s, k))
  BY <1>1, StopsIdle, StopsEbb
<1>5. Ebbs(s, ReapStale(s))
  <2>1. PICK P \in SUBSET s.retiring : ReapStale(s) = StopRetired(s, P)
    BY Zenon DEF ReapStale
  <2>2. QED BY <1>1, <2>1, StopsEbb
<1>6. QED BY <1>1, <1>2, <1>3, <1>4, <1>5, EbbsYoung DEF Passes

\* Processes move, and all live on.
LEMMA MovedSpares ==
    ASSUME NEW s, Minded(s), NEW t, SameSessions(s, t),
           \A p \in Procs : t.child[p].life = s.child[p].life
    PROVE  Spares(s, t)
BY DEF Spares, Minded, SameSessions, AtWork

\* One joins the end of the line.
LEMMA JoinsYoung ==
    ASSUME NEW s, NEW t, NEW p, Young(s), t.retiring \subseteq s.retiring \cup {p},
           \A q, r : <<q, r>> \in t.order => q # p /\ (r = p \/ <<q, r>> \in s.order),
           \A q \in Procs : t.child[q].pastCeiling => s.child[q].pastCeiling
    PROVE  Young(t)
<1>1. ASSUME NEW T \in SUBSET t.retiring, T # {}
      PROVE  \E r \in T : \A q \in T : <<q, r>> \notin t.order
  <2>1. CASE T \subseteq {p}
    BY <1>1, <2>1
  <2>2. CASE ~(T \subseteq {p})
    <3> DEFINE U == T \ {p}
    <3>1. U \in SUBSET s.retiring /\ U # {}
      BY <2>2
    <3> HIDE DEF U
    <3>2. PICK r \in U : \A q \in U : <<q, r>> \notin s.order
      BY <3>1 DEF Young, Queued
    <3>3. QED BY <3>2 DEF U
  <2>3. QED BY <2>1, <2>2
<1>2. QED BY <1>1 DEF Young, Queued

\* parkCurrentLocked.
LEMMA ParkCurrentPasses ==
    ASSUME NEW s, Minded(s), NEW k \in Kernels, s.process[k] # NoProc
    PROVE  Passes(s, ParkCurrent(s, k))
<1> DEFINE p == s.process[k]
           t == Put(s, k)
<1>1. s \in Supervisor /\ p \in Procs
  BY DEF Minded, Good, Supervisor
<1>2. /\ Good(t) /\ t.retiring = s.retiring
      /\ ActiveProcs(t) = ActiveProcs(s) \ {p}
      /\ ParkedProcs(t) = ParkedProcs(s) \cup {p}
      /\ t.child = [s.child EXCEPT ![p].idle = FALSE]
  BY PutGood DEF Minded
<1>3. SameSessions(s, t) /\ t.notices = s.notices
      /\ t.order = Without(s.order, {p}) \cup {<<q, p>> : q \in ParkedProcs(s) \ {p}}
  BY <1>1 DEF SameSessions, Put, Supervisor
<1>4. ParkCurrent(s, k) = EvictOverLimit(t, k)
  BY DEF ParkCurrent, Put
<1>5. p \in ActiveProcs(s)
  BY DEF ActiveProcs
<1> HIDE DEF t, p
<1>6. \A q \in Procs : /\ t.child[q].kernel = s.child[q].kernel
                       /\ t.child[q].workspace = s.child[q].workspace
                       /\ t.child[q].life = s.child[q].life
                       /\ t.child[q].retired = s.child[q].retired
                       /\ t.child[q].retiredTurns = s.child[q].retiredTurns
                       /\ t.child[q].pastCeiling = s.child[q].pastCeiling
  BY <1>1, <1>2 DEF Supervisor, Child
<1>7. InRotation(t) = InRotation(s) /\ Tracked(t) = Tracked(s) /\ s.retiring \subseteq Procs
  BY <1>1, <1>2, <1>5 DEF InRotation, Tracked, Supervisor
<1>8. Guards(s, t)
  <2>1. Moved(s, t)
    BY <1>2, <1>3, <1>6, <1>7 DEF Moved
  <2>2. QED BY <1>2, <2>1, MovedCares DEF Good, Minded, Cares
<1>9. Spares(s, t)
  BY <1>3, <1>6, MovedSpares
<1>10. Young(s) => Young(t)
  <2>1. \A q, r : <<q, r>> \in t.order => q # p /\ (r = p \/ <<q, r>> \in s.order)
    BY <1>3 DEF Without
  <2>2. t.retiring \subseteq s.retiring \cup {p}
        /\ \A q \in Procs : t.child[q].pastCeiling => s.child[q].pastCeiling
    BY <1>2, <1>6
  <2>3. QED BY <2>1, <2>2, JoinsYoung
<1>11. Passes(s, t) /\ Minded(t)
  BY <1>2, <1>8, <1>9, <1>10, PassesKnown DEF Passes
<1>12. QED BY <1>4, <1>11, ReapsPass, PassesTrans

\* retireStaleProcessLocked.
LEMMA RetirePasses ==
    ASSUME NEW s, Minded(s), NEW p \in InRotation(s), s.child[p].stale,
           NEW t, Leaves(s, t, p), SameSessions(s, t), t.notices = s.notices,
           t.order \subseteq s.order, NEW unbound
    PROVE  Passes(s, Retire(t, p, unbound))
<1> DEFINE u == Retire(t, p, unbound)
           turns == RunningTurns(t, t.child[p].kernel, {t.child[p].workspace} \cup unbound)
<1>1. s \in Supervisor /\ p \in Procs /\ t \in Supervisor /\ t.child = s.child
  BY DEF Minded, Good, Supervisor, InRotation, ActiveProcs, ParkedProcs, Leaves
<1>2. /\ u.retiring = s.retiring \cup {p}
      /\ u.child = [s.child EXCEPT ![p].retiredTurns = turns, ![p].idle = FALSE]
      /\ u.order = Without(t.order, {p}) \cup {<<q, p>> : q \in s.retiring}
      /\ SameSessions(s, u)
  BY <1>1 DEF Retire, Leaves, SameSessions, Supervisor
<1>3. p \notin s.retiring
  BY DEF Minded, Good, Accounted, PlacesDisjoint, InRotation
<1>4. Guards(s, u)
  BY RetireCares DEF Minded, Cares
<1> HIDE DEF u, turns
<1>5. /\ \A q \in Procs : u.child[q].life = s.child[q].life
      /\ \A q \in Procs : u.child[q].pastCeiling => s.child[q].pastCeiling
  BY <1>1, <1>2 DEF Supervisor, Child
<1>6. Spares(s, u)
  BY <1>2, <1>5, MovedSpares
<1>7. Young(s) => Young(u)
  <2>1. \A q, r : <<q, r>> \in u.order => q # p /\ (r = p \/ <<q, r>> \in s.order)
    BY <1>2, <1>3 DEF Without
  <2>2. u.retiring \subseteq s.retiring \cup {p}
    BY <1>2
  <2>3. QED BY <1>5, <2>1, <2>2, JoinsYoung
<1>8. QED BY <1>4, <1>6, <1>7 DEF Passes, u

\* The current process retires or is parked.
LEMMA SetAsidePasses ==
    ASSUME NEW s, Minded(s), NEW k \in Kernels
    PROVE  Passes(s, SetAside(s, k))
<1> DEFINE p == s.process[k]
           t == [s EXCEPT !.process[k] = NoProc]
<1>1. CASE p = NoProc
  <2>1. SetAside(s, k) = s
    BY <1>1 DEF SetAside
  <2>2. Guards(s, s) /\ Spares(s, s)
    BY CaresRefl, SparesRefl DEF Minded, Cares
  <2>3. QED BY <2>1, <2>2 DEF Passes
<1>2. CASE p # NoProc /\ ~s.child[p].stale
  BY <1>2, ParkCurrentPasses DEF SetAside
<1>3. CASE p # NoProc /\ s.child[p].stale
  <2>1. s \in Supervisor /\ p \in InRotation(s)
    BY <1>3 DEF Minded, Good, ActiveProcs, InRotation
  <2>2. Leaves(s, t, p)
    BY <1>3, SetAsideLeaves DEF Minded
  <2>3. SameSessions(s, t) /\ t.notices = s.notices /\ t.order \subseteq s.order
    BY <2>1 DEF SameSessions, Supervisor
  <2>4. SetAside(s, k) = Retire(t, p, {NoWorkspace})
    BY <1>3 DEF SetAside
  <2> HIDE DEF t, p
  <2>5. QED BY <1>3, <2>1, <2>2, <2>3, <2>4, RetirePasses
<1>4. QED BY <1>1, <1>2, <1>3

\* The parked process of a workspace comes back, or retires.
LEMMA TakeBackPasses ==
    ASSUME NEW s, Minded(s), NEW k \in Kernels, NEW w \in Workspaces, s.process[k] = NoProc
    PROVE  Passes(s, TakeBack(s, k, w))
<1> DEFINE key == <<k, w>>
           p == s.parked[key]
           taken == TakeParked(s, {key})
           t == [taken EXCEPT !.process[k] = p, !.child[p].idle = FALSE]
<1>1. s \in Supervisor /\ key \in Keys
  BY DEF Minded, Good, Keys
<1>2. /\ taken \in Supervisor /\ taken.retiring = s.retiring /\ taken.child = s.child
      /\ taken.order \subseteq s.order
      /\ SameSessions(s, taken) /\ taken.notices = s.notices
  <2>1. taken \in Supervisor /\ taken.retiring = s.retiring /\ taken.child = s.child
    BY <1>1, TakeParkedType
  <2>2. taken.order \subseteq s.order /\ SameSessions(s, taken) /\ taken.notices = s.notices
    BY <1>1 DEF SameSessions, TakeParked, Without, Supervisor
  <2>3. QED BY <2>1, <2>2
<1>3. Guards(s, TakeBack(s, k, w))
  BY TakeBackCares DEF Minded, Cares
<1>4. CASE p = NoProc
  <2>1. TakeBack(s, k, w) = s
    BY <1>4 DEF TakeBack
  <2>2. Spares(s, s)
    BY SparesRefl DEF Minded
  <2>3. QED BY <1>3, <2>1, <2>2 DEF Passes
<1>5. CASE p # NoProc /\ s.child[p].stale
  <2>1. TakeBack(s, k, w) = Retire(taken, p, {})
    BY <1>5 DEF TakeBack
  <2>2. Leaves(s, taken, p)
    BY <1>1, <1>5, TakeBackLeaves DEF Minded
  <2>3. p \in InRotation(s)
    BY <1>1, <1>5 DEF Supervisor, ParkedProcs, InRotation
  <2> HIDE DEF taken, p
  <2>4. QED BY <1>2, <1>5, <2>1, <2>2, <2>3, RetirePasses
<1>6. CASE p # NoProc /\ ~s.child[p].stale
  <2>1. TakeBack(s, k, w) = t
    BY <1>6 DEF TakeBack
  <2>2. p \in Procs
    BY <1>1, <1>6 DEF Supervisor
  <2> HIDE DEF taken
  <2>3. /\ t.child = [s.child EXCEPT ![p].idle = FALSE]
        /\ t.retiring = s.retiring /\ t.order \subseteq s.order /\ SameSessions(s, t)
    BY <1>2 DEF Supervisor, SameSessions
  <2> HIDE DEF t, p
  <2>4. \A q \in Procs : t.child[q].life = s.child[q].life
    BY <1>1, <2>2, <2>3 DEF Supervisor, Child
  <2>5. Spares(s, t)
    <3>1. SameSessions(s, t)
      BY <2>3
    <3>2. QED BY <2>4, <3>1, MovedSpares
  <2>6. Ebbs(s, t)
    <3>1. \A q \in Procs : t.child[q].pastCeiling => s.child[q].pastCeiling
      BY <1>1, <2>2, <2>3 DEF Supervisor, Child
    <3>2. QED BY <2>3, <3>1 DEF Ebbs
  <2>7. QED BY <1>3, <2>1, <2>5, <2>6, EbbsYoung DEF Passes
<1>7. QED BY <1>4, <1>5, <1>6

\* Everything ensureKernelProcessLocked does before it starts a process.
LEMMA PreparedPasses ==
    ASSUME NEW s, Minded(s), NEW k \in Kernels, NEW w \in Workspaces
    PROVE  Passes(s, Prepared(s, k, w)) /\ Minded(Prepared(s, k, w))
<1> DEFINE reaped == ReapParked(s, k)
           swept == ReapStale(reaped)
           aside == SetAside(swept, k)
           back == TakeBack(aside, k, w)
<1>1. Minded(reaped) /\ Passes(s, reaped)
  <2>1. Good(reaped) /\ Passes(s, reaped)
    BY ReapParkedGood, ReapsPass DEF Minded
  <2> HIDE DEF reaped
  <2>2. QED BY <2>1, PassesKnown DEF Passes
<1> HIDE DEF reaped
<1>2. Minded(swept) /\ Passes(s, swept)
  <2>1. Good(swept) /\ Passes(reaped, swept)
    BY <1>1, ReapStaleGood, ReapsPass DEF Minded
  <2> HIDE DEF swept
  <2>2. QED BY <1>1, <2>1, PassesKnown, PassesTrans DEF Passes
<1> HIDE DEF swept
<1>3. Minded(aside) /\ Passes(s, aside) /\ aside.process[k] = NoProc
  <2>1. Good(aside) /\ Passes(swept, aside) /\ aside.process[k] = NoProc
    BY <1>2, SetAsideGood, SetAsidePasses DEF Minded
  <2> HIDE DEF aside
  <2>2. QED BY <1>2, <2>1, PassesKnown, PassesTrans DEF Passes
<1> HIDE DEF aside
<1>4. Minded(back) /\ Passes(s, back)
  <2>1. Good(back) /\ Passes(aside, back)
    BY <1>3, TakeBackGood, TakeBackPasses DEF Minded
  <2> HIDE DEF back
  <2>2. QED BY <1>3, <2>1, PassesKnown, PassesTrans DEF Passes
<1>5. Prepared(s, k, w) = swept \/ Prepared(s, k, w) = back
  BY DEF Prepared, swept, reaped, aside
<1> HIDE DEF back
<1>6. QED BY <1>2, <1>4, <1>5

\* ensureKernelProcessLocked, with the process it may start.
LEMMA EnsurePasses ==
    ASSUME NEW s, Minded(s), NEW k \in Kernels, NEW w \in Workspaces, CanEnsure(s, k, w)
    PROVE  Passes(s, EnsureKernelProcess(s, k, w))
<1> DEFINE t == Prepared(s, k, w)
           p == CHOOSE q \in Unused(t) : TRUE
           fresh == [NoChild EXCEPT !.kernel = k, !.workspace = w, !.life = "live"]
           u == Spawn(t, k, w)
<1>1. Minded(t) /\ Passes(s, t)
  BY PreparedPasses
<1>2. CASE NeedsSpawn(s, k, w)
  <2>1. p \in Procs /\ t.child[p].life = "none" /\ EnsureKernelProcess(s, k, w) = u
    BY <1>2 DEF CanEnsure, Unused, EnsureKernelProcess
  <2>2. Guards(t, u)
    <3>1. /\ Good(t) /\ t.busy \subseteq t.sessions /\ t.process[k] = NoProc
          /\ t.parked[<<k, w>>] = NoProc /\ Unused(t) # {}
      BY <1>1, <1>2, PreparedGood DEF NeedsSpawn, CanEnsure, Minded
    <3> HIDE DEF t
    <3>2. QED BY <3>1, SpawnCares DEF Cares
  <2>3. fresh.life = "live" /\ ~fresh.pastCeiling
    BY DEF NoChild
  <2> HIDE DEF p, t, fresh
  <2>4. /\ u.child = [t.child EXCEPT ![p] = fresh] /\ u.retiring = t.retiring
        /\ u.order = t.order /\ SameSessions(t, u)
    BY <1>1 DEF Spawn, SameSessions, p, fresh, Minded, Good, Supervisor
  <2> HIDE DEF u
  <2>5. \A q \in Procs : /\ t.child[q].life = "live" => u.child[q].life = "live"
                         /\ u.child[q].pastCeiling => t.child[q].pastCeiling
    BY <1>1, <2>1, <2>3, <2>4 DEF Minded, Good, Supervisor
  <2>6. Spares(t, u)
    BY <1>1, <2>4, <2>5 DEF Spares, Minded, SameSessions, AtWork
  <2>7. Ebbs(t, u)
    BY <2>4, <2>5 DEF Ebbs
  <2>8. Passes(t, u)
    BY <2>2, <2>6, <2>7, EbbsYoung DEF Passes
  <2>9. QED BY <1>1, <2>1, <2>8, PassesTrans
<1>3. CASE ~NeedsSpawn(s, k, w)
  BY <1>1, <1>3 DEF EnsureKernelProcess
<1>4. QED BY <1>2, <1>3

-----------------------------------------------------------------------------
(* Sparing executions: staffed ones in which only dispatches stop processes, *)
(* no conversation moves while a turn of it runs, workers are counted where  *)
(* they run, a turn of a conversation that ends is its last, and what is      *)
(* removed has no turn the command does not reach.                           *)

CountedInPlace ==
    \A p \in Procs : \A x \in sup'.workers \ sup.workers : RunsWorkers(p, x) => Houses(sup, p, x)
EndsInTime ==
    \A p \in Procs : ReadEvent(p) /\ Head(bridge[p].out).kind \in Ends =>
        \A q \in Procs : ~Runs(q, Head(bridge[p].out).session)
RemovesAll ==
    \A x \in Sessions : DetachSession(x) \/ DestroySession(x) \/ EndProbe(x) =>
        \A p \in Procs : Runs(p, x) => p = ProcessForSession(sup, x)

Sparing ==
    /\ Staffed /\ ~Crashes /\ ~Restarts /\ ~Revocation /\ ~Ceilings
    /\ MovesIdle /\ CountedInPlace /\ EndsInTime /\ RemovesAll
SparingSpec == Init /\ [][Sparing]_vars

\* Every turn is one of a busy session and runs where that is at work; so do counted workers.
Lodged ==
    \A p \in Procs, x \in Sessions :
        /\ bridge[p].turns[x] > 0 =>
              sup.child[p].life = "live" /\ x \in sup.busy /\ Houses(sup, p, x)
        /\ x \in bridge[p].workers =>
              sup.child[p].life = "live" /\ (x \in sup.workers => Houses(sup, p, x))

SparingInv == StaffedInv /\ AllLive(sup) /\ Young(sup) /\ Lodged

\* What of it goes on stays where it is.
Lodges ==
    \A p \in Procs, x \in Sessions :
        /\ bridge[p].turns[x] > 0 /\ bridge'[p].turns[x] > 0 =>
              sup'.child[p].life = "live" /\ x \in sup'.busy /\ Houses(sup', p, x)
        /\ x \in bridge[p].workers /\ x \in bridge'[p].workers =>
              sup'.child[p].life = "live" /\ (x \in sup'.workers => Houses(sup', p, x))

\* No process dies under work.
Kills ==
    \A p \in Procs : Dies(p) => \A x \in AtWork(sup) : ~Houses(sup, p, x)

\* What a step has to do.
Spared == AllLive(sup') /\ Young(sup') /\ Lodges /\ Kills

\* What the invariant of sparing executions has of the earlier ones.
LEMMA SparingParts ==
    ASSUME SparingInv
    PROVE  /\ StaffedInv /\ SteadyInv /\ IInv /\ Good(sup) /\ Minded(sup)
           /\ sup \in Supervisor /\ bridge \in Bridges
           /\ sup.busy \subseteq sup.sessions /\ sup.workers \subseteq sup.sessions
           /\ AtWork(sup) = sup.busy \cup sup.workers
           /\ AllLive(sup) /\ Young(sup) /\ Lodged
BY StaffedParts, SteadyParts DEF SparingInv, Minded, AtWork

\* Neither a process moves nor its place in line.
Unmoved(s, t) == SamePlaces(s, t) /\ t.order = s.order

LEMMA UnmovedSpared ==
    ASSUME SparingInv, Unmoved(sup, sup'),
           \A p \in Procs, x \in Sessions :
              /\ bridge[p].turns[x] > 0 /\ bridge'[p].turns[x] > 0 =>
                    /\ x \in sup'.busy
                    /\ KernelOf(sup', x) = KernelOf(sup, x) /\ sup'.workspaces[x] = sup.workspaces[x]
              /\ x \in bridge[p].workers /\ x \in sup'.workers =>
                    /\ x \in sup.workers \/ Houses(sup, p, x)
                    /\ KernelOf(sup', x) = KernelOf(sup, x) /\ sup'.workspaces[x] = sup.workspaces[x]
    PROVE  Spared
<1>1. SamePlaces(sup, sup') /\ sup'.order = sup.order /\ sup'.retiring = sup.retiring
      /\ sup'.child = sup.child
  BY DEF Unmoved, SamePlaces
<1>2. AllLive(sup')
  BY <1>1, SparingParts, SamePlacesLive
<1>3. Young(sup')
  BY <1>1, SparingParts DEF Young, Queued
<1>4. ASSUME NEW p \in Procs, NEW x \in Sessions, Houses(sup, p, x),
             KernelOf(sup', x) = KernelOf(sup, x), sup'.workspaces[x] = sup.workspaces[x]
      PROVE  Houses(sup', p, x)
  BY <1>1, <1>4 DEF Houses, SamePlaces, InRotation, ActiveProcs, ParkedProcs
<1>5. ASSUME NEW p \in Procs, NEW x \in Sessions, bridge[p].turns[x] > 0, bridge'[p].turns[x] > 0
      PROVE  sup'.child[p].life = "live" /\ x \in sup'.busy /\ Houses(sup', p, x)
  BY <1>1, <1>4, <1>5, SparingParts DEF Lodged
<1>6. ASSUME NEW p \in Procs, NEW x \in Sessions, x \in bridge[p].workers, x \in bridge'[p].workers
      PROVE  sup'.child[p].life = "live" /\ (x \in sup'.workers => Houses(sup', p, x))
  BY <1>1, <1>4, <1>6, SparingParts DEF Lodged
<1>7. Lodges
  BY <1>5, <1>6 DEF Lodges
<1>8. Kills
  BY <1>1 DEF Kills, Dies, Live
<1>9. QED BY <1>2, <1>3, <1>7, <1>8 DEF Spared

\* No record changes.
LEMMA SameSpared ==
    ASSUME SparingInv, sup' = sup
    PROVE  Spared
<1>1. Unmoved(sup, sup')
  BY DEF Unmoved, SamePlaces
<1>2. \A p \in Procs, x \in Sessions : bridge[p].turns[x] > 0 => x \in sup.busy
  BY SparingParts DEF Lodged
<1>3. QED BY <1>1, <1>2, UnmovedSpared DEF KernelOf

\* Dispatches that send nothing.
LEMMA PassesSpared ==
    ASSUME SparingInv, Passes(sup, sup'), AllLive(sup'), bridge' = Survivors(sup')
    PROVE  Spared
<1>1. Guards(sup, sup') /\ Spares(sup, sup') /\ Young(sup')
  BY SparingParts DEF Passes
<1>2. ASSUME NEW p \in Procs, NEW x \in AtWork(sup), Houses(sup, p, x), x \in AtWork(sup')
      PROVE  Houses(sup', p, x)
  BY <1>1, <1>2 DEF Guards, Shelters, Holds
<1>3. \A p \in Procs : sup'.child[p].life # "live" =>
         (\A x \in Sessions : bridge'[p].turns[x] = 0) /\ bridge'[p].workers = {}
  BY DEF Survivors, NewBridge
<1>4. ASSUME NEW p \in Procs, NEW x \in Sessions, bridge[p].turns[x] > 0, bridge'[p].turns[x] > 0
      PROVE  sup'.child[p].life = "live" /\ x \in sup'.busy /\ Houses(sup', p, x)
  <2>1. sup'.child[p].life = "live" /\ x \in sup.busy /\ Houses(sup, p, x)
    BY <1>3, <1>4, SparingParts DEF Lodged
  <2>2. x \in AtWork(sup) /\ x \in sup'.busy /\ x \in AtWork(sup')
    BY <1>1, <2>1, SparingParts DEF Spares, Guards, AtWork
  <2>3. QED BY <1>2, <2>1, <2>2
<1>5. ASSUME NEW p \in Procs, NEW x \in Sessions, x \in bridge[p].workers, x \in bridge'[p].workers
      PROVE  sup'.child[p].life = "live" /\ (x \in sup'.workers => Houses(sup', p, x))
  <2>1. sup'.child[p].life = "live"
    BY <1>3, <1>5
  <2>2. ASSUME x \in sup'.workers PROVE Houses(sup', p, x)
    <3>1. x \in sup.workers /\ Houses(sup, p, x)
      BY <1>1, <1>5, <2>2, SparingParts DEF Guards, Shelters, Lodged
    <3>2. x \in AtWork(sup) /\ x \in AtWork(sup')
      BY <1>1, <3>1, <2>2, SparingParts DEF Spares, AtWork
    <3>3. QED BY <1>2, <3>1, <3>2
  <2>3. QED BY <2>1, <2>2
<1>6. Lodges
  BY <1>4, <1>5 DEF Lodges
<1>7. Kills
  BY <1>1 DEF Kills, Dies, Live, Spares
<1>8. QED BY <1>1, <1>6, <1>7 DEF Spared

\* The first half of a message.
LEMMA BindSpared ==
    ASSUME SparingInv, NEW x \in Sessions, NEW w \in Workspaces, BindSessionKernel(x, w)
    PROVE  Spared
<1>1. /\ SamePlaces(sup, sup') /\ sup'.busy = sup.busy /\ sup'.workers = sup.workers
      /\ sup'.workspaces = sup.workspaces /\ sup'.order = sup.order
      /\ \A y \in sup.sessions : KernelOf(sup', y) = KernelOf(sup, y)
  BY SparingParts, BindCares
<1>2. Unmoved(sup, sup')
  BY <1>1 DEF Unmoved
<1>3. \A p \in Procs, y \in Sessions : bridge[p].turns[y] > 0 => y \in sup.busy
  BY SparingParts DEF Lodged
<1>4. QED BY <1>1, <1>2, <1>3, SparingParts, UnmovedSpared

\* The dispatches that send nothing.
LEMMA DispatchSpared ==
    ASSUME SparingInv, NEW x \in Sessions, NEW w \in Workspaces,
           SendMessageSpawnFails(x, w) \/ RefreshBackgroundTasks(x, w)
    PROVE  Spared
<1>1. bridge' = Survivors(sup')
  BY DEF SendMessageSpawnFails, RefreshBackgroundTasks
<1>2. CASE SendMessageSpawnFails(x, w)
  <2>1. sup' = Prepared(sup, KernelOf(sup, x), w) /\ KernelOf(sup, x) \in Kernels
    BY <1>2, SparingParts, KernelOfType DEF SendMessageSpawnFails
  <2>2. Passes(sup, sup')
    BY <2>1, SparingParts, PreparedPasses
  <2>3. AllLive(sup')
    BY <1>2, UnspawnedCares, SparingParts DEF Cares
  <2>4. QED BY <1>1, <2>2, <2>3, PassesSpared
<1>3. CASE RefreshBackgroundTasks(x, w)
  <2>1. KernelOf(sup, x) \in Kernels /\ CanEnsure(sup, KernelOf(sup, x), w)
        /\ sup' = EnsureKernelProcess(sup, KernelOf(sup, x), w)
    BY <1>3, SparingParts, KernelOfType DEF RefreshBackgroundTasks
  <2>2. Cares(sup, sup') /\ Passes(sup, sup')
    BY <2>1, SparingParts, EnsureCares, EnsurePasses
  <2>3. QED BY <1>1, <2>2, SparingParts, PassesSpared DEF Cares
<1>4. QED BY <1>2, <1>3

\* In a steady execution a turn starts where its session is at work.
LEMMA SteadyStarts ==
    ASSUME SteadyInv, Steady, NEW p \in Procs, NEW x \in Sessions, StartsTurn(p, x)
    PROVE  /\ sup'.child[p].life = "live" /\ Houses(sup', p, x)
           /\ x \in sup'.sessions /\ x \in sup'.busy
<1>1. /\ IInv /\ Next /\ Matched(sup') /\ Carried(sup') /\ RelaysInPlace
      /\ bridge \in Bridges /\ sup \in Supervisor
  BY SteadyParts, NextSteadyInv DEF SteadyInv, Steady
<1>2. ASSUME NEW w \in Workspaces, SendMessage(x, w), p = ProcessForSession(Ready(x, w), x)
      PROVE  /\ sup'.child[p].life = "live" /\ Houses(sup', p, x)
             /\ x \in sup'.sessions /\ x \in sup'.busy
  <2> DEFINE ready == Ready(x, w)
  <2>1. Good(ready) /\ SamePlaces(ready, sup')
    BY <1>1, <1>2, SendReady
  <2>2. bridge' # Survivors(ready)
    <3>1. Quiet(bridge, Survivors(ready))
      BY <1>1, SurvivorsQuiet
    <3>2. bridge' = Survivors(ready) => bridge'[p].turns[x] \in Nat /\ bridge[p].turns[x] \in Nat
      BY <1>1, <2>1, SurvivorsType, TurnsNat DEF Good
    <3> HIDE DEF ready
    <3>3. QED BY <3>1, <3>2 DEF Quiet, StartsTurn
  <2>3. /\ Reaches(ready, p) /\ sup' = [ready EXCEPT !.sessions = @ \cup {x}, !.busy = @ \cup {x}]
    BY <1>2, <2>2 DEF SendMessage, Ready, Ensured
  <2> HIDE DEF ready
  <2>4. x \in sup'.sessions /\ x \in sup'.busy /\ sup'.child[p].life = "live"
    BY <2>1, <2>3 DEF Good, Supervisor, Reaches
  <2>5. KernelOf(sup', x) = ConversationKernel[x]
    BY <1>1, <2>4 DEF Matched
  <2>6. QED BY <1>1, <1>2, <2>4, <2>5, SentHouses
<1>3. ASSUME RelayMessage(x), p = ProcessForSession(sup, x)
      PROVE  /\ sup'.child[p].life = "live" /\ Houses(sup', p, x)
             /\ x \in sup'.sessions /\ x \in sup'.busy
  BY <1>1, <1>3 DEF RelaysInPlace, RelayMessage, Reaches, Supervisor
<1>4. QED BY <1>1, <1>2, <1>3, WhoStarts

\* A message is sent.
LEMMA SendSpared ==
    ASSUME SparingInv, MovesIdle, WorkersStay,
           NEW x \in Sessions, NEW w \in Workspaces, SendMessage(x, w)
    PROVE  Spared
<1> DEFINE k == KernelOf(sup, x)
           e == Ensured(x, w)
           ready == Ready(x, w)
           q == ProcessForSession(ready, x)
<1>1. /\ k \in Kernels /\ CanEnsure(sup, k, w) /\ Good(e) /\ Good(ready)
      /\ SamePlaces(e, ready) /\ SamePlaces(ready, sup')
      /\ sup'.kernels = ready.kernels /\ sup'.workspaces = ready.workspaces
  BY SparingParts, SendReady
<1>2. /\ ready.kernels = e.kernels /\ ready.workspaces = [e.workspaces EXCEPT ![x] = w]
      /\ e.workspaces \in [Sessions -> Workspaces \cup {NoWorkspace}]
      /\ ready.sessions = e.sessions /\ ready.busy = e.busy /\ ready.workers = e.workers
      /\ ready.order = e.order
  BY <1>1 DEF Ready, Good, Supervisor
<1>3. \/ /\ Reaches(ready, q) /\ bridge' = Prompted(Survivors(ready), q, x)
         /\ sup' = [ready EXCEPT !.sessions = @ \cup {x}, !.busy = @ \cup {x}]
      \/ bridge' = Survivors(ready) /\ sup' = ready
  BY DEF SendMessage, Ready, Ensured
<1>4. SamePlaces(e, sup') /\ sup'.order = e.order /\ sup'.workers = e.workers
      /\ e.busy \subseteq sup'.busy /\ e.sessions \subseteq sup'.sessions
  <2>1. SamePlaces(e, sup')
    BY <1>1 DEF SamePlaces
  <2>2. ready \in Supervisor
    BY <1>1 DEF Good
  <2> HIDE DEF ready, e
  <2>3. /\ sup'.order = ready.order /\ sup'.workers = ready.workers
        /\ ready.busy \subseteq sup'.busy /\ ready.sessions \subseteq sup'.sessions
    BY <1>3, <2>2 DEF Supervisor
  <2>4. QED BY <1>2, <2>1, <2>3
<1>5. Cares(sup, e)
  BY <1>1, SparingParts, EnsuredCares
<1>6. Passes(sup, e)
  BY <1>1, SparingParts, EnsurePasses DEF Ensured
<1>7. \A p \in Procs : sup'.child[p].life # "live" =>
         (\A y \in Sessions : bridge'[p].turns[y] = 0) /\ bridge'[p].workers = {}
  <2>1. \A p \in Procs : ready.child[p].life # "live" =>
           (\A y \in Sessions : Survivors(ready)[p].turns[y] = 0) /\ Survivors(ready)[p].workers = {}
    BY DEF Survivors, NewBridge
  <2>2. ASSUME NEW p \in Procs, ready.child[p].life # "live"
        PROVE  bridge'[p] = Survivors(ready)[p]
    <3> HIDE DEF ready, q
    <3>1. Reaches(ready, q) => p # q
      BY <2>2 DEF Reaches
    <3>2. QED BY <1>3, <3>1 DEF Prompted, Says, Survivors
  <2>3. sup'.child = ready.child
    BY <1>1 DEF SamePlaces
  <2>4. QED BY <2>1, <2>2, <2>3
<1> HIDE DEF k, e, ready, q
<1>9. Guards(sup, e) /\ Spares(sup, e) /\ Young(e) /\ AllLive(e)
  BY <1>5, <1>6, SparingParts DEF Passes, Cares
<1>10. AllLive(sup') /\ Young(sup')
  <2>1. AllLive(sup')
    BY <1>4, <1>9, SamePlacesLive
  <2>2. sup'.child = e.child /\ sup'.retiring = e.retiring /\ sup'.order = e.order
    BY <1>4 DEF SamePlaces
  <2>3. Young(sup')
    BY <1>9, <2>2 DEF Young, Queued
  <2>4. QED BY <2>1, <2>3
<1>11. ASSUME NEW p \in Procs, NEW y \in Sessions, Houses(sup, p, y), y \in AtWork(sup),
              y \in AtWork(e), sup'.workspaces[y] = e.workspaces[y]
       PROVE  Houses(sup', p, y)
  <2>1. Houses(e, p, y)
    BY <1>9, <1>11 DEF Guards, Shelters, Holds
  <2>2. KernelOf(sup', y) = KernelOf(e, y)
    BY <1>1, <1>2 DEF KernelOf
  <2>3. QED BY <1>4, <1>11, <2>1, <2>2 DEF Houses, SamePlaces, InRotation, ActiveProcs, ParkedProcs
<1>12. ASSUME NEW y \in AtWork(sup), y \in AtWork(e), y \in Sessions,
              (y \in sup.workers /\ y \in sup'.workers) \/ \E p \in Procs : Runs(p, y)
       PROVE  sup'.workspaces[y] = e.workspaces[y]
  <2>1. CASE y # x
    BY <1>1, <1>2, <2>1
  <2>2. CASE y = x
    <3>1. e.workspaces[x] = sup.workspaces[x]
      BY <1>9, <1>12, <2>2 DEF Guards, AtWork
    <3>2. sup'.workspaces[x] = w /\ w # NoWorkspace
      BY <1>1, <1>2, WorkspacesAssumption
    <3>3. sup'.workspaces[x] = sup.workspaces[x]
      BY <1>12, <2>2, <3>2 DEF MovesIdle, WorkersStay
    <3>4. QED BY <2>2, <3>1, <3>3
  <2>3. QED BY <2>1, <2>2
<1>13. ASSUME NEW p \in Procs, NEW y \in Sessions, bridge[p].turns[y] > 0, bridge'[p].turns[y] > 0
       PROVE  sup'.child[p].life = "live" /\ y \in sup'.busy /\ Houses(sup', p, y)
  <2>1. sup'.child[p].life = "live"
    BY <1>7, <1>13
  <2>2. Runs(p, y) /\ y \in sup.busy /\ Houses(sup, p, y)
    BY <1>13, SparingParts DEF Lodged, Runs, Live
  <2>3. y \in AtWork(sup) /\ y \in e.busy /\ y \in AtWork(e)
    BY <1>9, <2>2, SparingParts DEF Spares, Guards, AtWork
  <2>4. y \in sup'.busy
    BY <1>4, <2>3
  <2>5. Houses(sup', p, y)
    BY <1>11, <1>12, <2>2, <2>3
  <2>6. QED BY <2>1, <2>4, <2>5
<1>14. ASSUME NEW p \in Procs, NEW y \in Sessions, y \in bridge[p].workers, y \in bridge'[p].workers
       PROVE  sup'.child[p].life = "live" /\ (y \in sup'.workers => Houses(sup', p, y))
  <2>1. sup'.child[p].life = "live"
    BY <1>7, <1>14
  <2>2. ASSUME y \in sup'.workers PROVE Houses(sup', p, y)
    <3>1. y \in sup.workers /\ Houses(sup, p, y) /\ y \in e.workers
      BY <1>4, <1>9, <1>14, <2>2, SparingParts DEF Guards, Shelters, Lodged
    <3>2. y \in AtWork(sup) /\ y \in AtWork(e)
      BY <1>9, <3>1, SparingParts DEF Spares, AtWork
    <3>3. QED BY <1>11, <1>12, <2>2, <3>1, <3>2
  <2>3. QED BY <2>1, <2>2
<1>15. Lodges
  BY <1>13, <1>14 DEF Lodges
<1>16. Kills
  <2>1. sup'.child = e.child
    BY <1>4 DEF SamePlaces
  <2>2. QED BY <1>9, <2>1 DEF Kills, Dies, Live, Spares
<1>17. QED BY <1>10, <1>15, <1>16 DEF Spared

\* Nothing that is tracked is dead: the process that exits has been forgotten.
LEMMA ExitSpared ==
    ASSUME SparingInv, NEW p \in Procs, ProcessExits(p)
    PROVE  Spared
<1>1. /\ sup' = Exited(sup, p) /\ bridge' = bridge /\ sup.child[p].life = "dead"
      /\ sup \in Supervisor
  BY SparingParts DEF ProcessExits
<1>2. p \notin Tracked(sup)
  BY <1>1, SparingParts DEF AllLive
<1>3. sup.child[p].kernel \in Kernels /\ p # NoProc
  BY <1>1, ProcsAssumption DEF Supervisor, Child
<1>4. p \notin sup.retiring /\ sup.process[sup.child[p].kernel] # p /\ p \notin ParkedProcs(sup)
  BY <1>2, <1>3 DEF Tracked, ActiveProcs
<1>5. sup' = [sup EXCEPT !.child[p] = NoChild]
  BY <1>1, <1>4 DEF Exited
<1>6. /\ SameSessions(sup, sup') /\ sup'.process = sup.process /\ sup'.parked = sup.parked
      /\ sup'.retiring = sup.retiring /\ sup'.order = sup.order
  BY <1>1, <1>5 DEF SameSessions, Supervisor
<1>7. (\A q \in Procs \ {p} : sup'.child[q] = sup.child[q]) /\ sup'.child[p] = NoChild
  BY <1>1, <1>5 DEF Supervisor
<1>8. InRotation(sup') = InRotation(sup) /\ Tracked(sup') = Tracked(sup)
      /\ Tracked(sup) \subseteq Procs
  BY <1>1, <1>6, TrackedProcs DEF InRotation, Tracked, ActiveProcs, ParkedProcs
<1>9. AllLive(sup')
  BY <1>2, <1>7, <1>8, SparingParts DEF AllLive
<1>10. Young(sup')
  <2>1. Ebbs(sup, sup')
    BY <1>6, <1>7 DEF Ebbs, NoChild
  <2>2. QED BY <2>1, SparingParts, EbbsYoung
<1>11. \A q \in Procs, x \in Sessions : Houses(sup, q, x) => Houses(sup', q, x)
  <2>1. \A q, x : Houses(sup, q, x) => q \in Tracked(sup)
    BY DEF Houses, InRotation, Tracked
  <2>2. QED BY <1>2, <1>6, <1>7, <1>8, <2>1 DEF Houses, SameSessions, KernelOf
<1>12. \A q \in Procs : sup.child[q].life = "live" => sup'.child[q].life = "live"
  BY <1>1, <1>7
<1>13. Lodges
  BY <1>6, <1>11, <1>12, SparingParts DEF Lodges, Lodged, SameSessions
<1>14. Kills
  BY <1>12 DEF Kills, Dies, Live
<1>15. QED BY <1>9, <1>10, <1>13, <1>14 DEF Spared

\* New credentials and timers.
LEMMA MarksSpared ==
    ASSUME SparingInv, InvalidateCredentials \/ \E p \in Procs : IdleTimeout(p)
    PROVE  Spared
<1>1. sup \in Supervisor /\ Marks(sup, sup') /\ bridge' = bridge
  BY SparingParts, MarksAll DEF InvalidateCredentials, IdleTimeout
<1>2. /\ sup'.order = sup.order
      /\ \A p \in Procs : /\ sup'.child[p].life = sup.child[p].life
                          /\ sup'.child[p].retired = sup.child[p].retired
                          /\ sup'.child[p].pastCeiling = sup.child[p].pastCeiling
  <2>1. CASE InvalidateCredentials
    BY <1>1, <2>1 DEF InvalidateCredentials, Supervisor, Child
  <2>2. ASSUME NEW p \in Procs, IdleTimeout(p)
        PROVE  /\ sup'.order = sup.order
               /\ \A q \in Procs : /\ sup'.child[q].life = sup.child[q].life
                                   /\ sup'.child[q].retired = sup.child[q].retired
                                   /\ sup'.child[q].pastCeiling = sup.child[q].pastCeiling
    BY <1>1, <2>2 DEF IdleTimeout, Supervisor, Child
  <2>3. QED BY <2>1, <2>2
<1>3. /\ InRotation(sup') = InRotation(sup) /\ Tracked(sup') = Tracked(sup)
      /\ sup'.retiring = sup.retiring /\ Tracked(sup) \subseteq Procs
  BY <1>1, TrackedProcs DEF Marks, Marked, InRotation, Tracked, ActiveProcs, ParkedProcs
<1>4. AllLive(sup')
  BY <1>2, <1>3, SparingParts DEF AllLive
<1>5. Young(sup')
  BY <1>2, <1>3, SparingParts DEF Young, Queued
<1>6. \A p \in Procs, x \in Sessions : Houses(sup, p, x) => Houses(sup', p, x)
  BY <1>1, <1>3 DEF Houses, Marks, Marked, SameSessions, KernelOf
<1>7. Lodges
  BY <1>1, <1>2, <1>6, SparingParts DEF Lodges, Lodged, Marks, SameSessions
<1>8. Kills
  BY <1>2 DEF Kills, Dies, Live
<1>9. QED BY <1>4, <1>5, <1>7, <1>8 DEF Spared

\* One line of output: a turn that it ends has ended, and workers it counts are at work here.
LEMMA ReadSpared ==
    ASSUME SparingInv, NEW p \in Procs, ReadEvent(p), EndsInTime, CountedInPlace
    PROVE  Spared
<1> DEFINE e == Head(bridge[p].out)
<1>1. /\ sup \in Supervisor /\ e \in Events /\ sup' = Observed(sup, e)
      /\ \A q \in Procs : bridge'[q].turns = bridge[q].turns /\ bridge'[q].workers = bridge[q].workers
  BY SparingParts, ReadEventReads DEF Reads
<1>2. /\ Unmoved(sup, sup') /\ sup'.kernels = sup.kernels /\ sup'.workspaces = sup.workspaces
      /\ \A x \in sup.busy : x \in sup'.busy \/ (x = e.session /\ e.kind \in Ends)
  BY <1>1 DEF Observed, Unmoved, SamePlaces, Supervisor, Ends, Events
<1>3. ASSUME NEW q \in Procs, NEW x \in Sessions, bridge[q].turns[x] > 0
      PROVE  x \in sup'.busy
  <2>1. Runs(q, x) /\ x \in sup.busy
    BY <1>3, SparingParts DEF Lodged, Runs, Live
  <2>2. QED BY <1>2, <2>1 DEF EndsInTime
<1>4. ASSUME NEW q \in Procs, NEW x \in Sessions, x \in bridge[q].workers, x \in sup'.workers
      PROVE  x \in sup.workers \/ Houses(sup, q, x)
  <2>1. RunsWorkers(q, x)
    BY <1>4, SparingParts DEF Lodged, RunsWorkers, Live
  <2>2. QED BY <1>4, <2>1 DEF CountedInPlace
<1>5. QED BY <1>2, <1>3, <1>4, UnmovedSpared DEF KernelOf

\* A conversation that is removed has no turn left.
LEMMA RemovalSpared ==
    ASSUME SparingInv, RemovesAll,
           NEW x \in Sessions, DetachSession(x) \/ DestroySession(x) \/ EndProbe(x)
    PROVE  Spared
<1> DEFINE p == ProcessForSession(sup, x)
           t == ForgetSessions(sup, {x})
<1>1. /\ sup \in Supervisor /\ bridge \in Bridges
      /\ t \in Supervisor /\ SamePlaces(sup, t) /\ t.busy = sup.busy \ {x}
      /\ t.workers = sup.workers \ {x}
      /\ \A y \in Sessions \ {x} : t.kernels[y] = sup.kernels[y] /\ t.workspaces[y] = sup.workspaces[y]
  BY SparingParts, ForgottenSession
<1>2. t.order = sup.order
  BY <1>1 DEF ForgetSessions, Supervisor
<1>3. sup' = t \/ sup' = [t EXCEPT !.waiters = @ \ {x}]
  BY DEF DetachSession, DestroySession, EndProbe
<1> HIDE DEF t
<1>4. Unmoved(sup, sup') /\ sup'.busy = sup.busy \ {x} /\ sup'.workers = sup.workers \ {x}
      /\ \A y \in Sessions \ {x} :
            sup'.kernels[y] = sup.kernels[y] /\ sup'.workspaces[y] = sup.workspaces[y]
  BY <1>1, <1>2, <1>3 DEF Unmoved, SamePlaces, Supervisor
<1>5. ASSUME NEW q \in Procs, bridge[q].turns[x] > 0
      PROVE  bridge'[q].turns[x] = 0
  <2>1. Runs(q, x)
    BY <1>5, SparingParts DEF Lodged, Runs, Live
  <2>2. p = q /\ Reaches(sup, q)
    BY <2>1, ProcsAssumption DEF RemovesAll, Reaches, Runs, Live
  <2>3. bridge' = Destroyed(bridge, q, x)
    BY <2>2 DEF DetachSession, DestroySession, EndProbe, Dispose
  <2>4. QED BY <1>1, <2>3 DEF Destroyed, Says, Bridges, Bridge
<1>6. \A q \in Procs, y \in Sessions : bridge[q].turns[y] > 0 => y \in sup.busy
  BY SparingParts DEF Lodged
<1>7. QED BY <1>4, <1>5, <1>6, UnmovedSpared DEF KernelOf

\* A fork that is answered has neither turns nor workers yet.
LEMMA ForkSpared ==
    ASSUME SparingInv, NEW x \in Sessions, NEW y \in Sessions, ForkAnswered(x, y)
    PROVE  Spared
<1>1. sup \in Supervisor
  BY SparingParts
<1>2. y \notin sup.busy /\ y \notin sup.workers
  BY SparingParts DEF ForkAnswered, SteadyInv, ForksPending
<1>3. /\ Unmoved(sup, sup') /\ sup'.busy = sup.busy /\ sup'.workers = sup.workers
      /\ \A z \in Sessions \ {y} :
            sup'.kernels[z] = sup.kernels[z] /\ sup'.workspaces[z] = sup.workspaces[z]
  BY <1>1 DEF ForkAnswered, Unmoved, SamePlaces, Supervisor
<1>4. \A q \in Procs, z \in Sessions : bridge[q].turns[z] > 0 => z \in sup.busy
  BY SparingParts DEF Lodged
<1>5. QED BY <1>2, <1>3, <1>4, UnmovedSpared DEF KernelOf

\* What moves nothing, and what the sidecars do.
LEMMA BookkeepingSpared ==
    ASSUME SparingInv, NEW x \in Sessions,
           \/ TrackResearchRun(x) \/ UntrackResearchRun(x) \/ RecoveryEnds(x) \/ StartProbe(x)
           \/ DeliverNotice(x) \/ RelayMessage(x) \/ \E w \in Workspaces : RecoverSession(x, w)
    PROVE  Spared
<1>1. /\ Unmoved(sup, sup') /\ sup.busy \subseteq sup'.busy /\ sup'.workers = sup.workers
      /\ sup'.kernels = sup.kernels /\ sup'.workspaces = sup.workspaces
  BY SparingParts DEF TrackResearchRun, UntrackResearchRun, RecoveryEnds, StartProbe, DeliverNotice,
     RelayMessage, RecoverSession, Unmoved, SamePlaces, Supervisor
<1>2. \A q \in Procs, z \in Sessions : bridge[q].turns[z] > 0 => z \in sup.busy
  BY SparingParts DEF Lodged
<1>3. QED BY <1>1, <1>2, UnmovedSpared DEF KernelOf

-----------------------------------------------------------------------------
(* Every step of a sparing execution.                                       *)

LEMMA SparingSteps ==
    ASSUME SparingInv, Sparing
    PROVE  Spared
<1>1. /\ Next /\ WorkersStay /\ MovesIdle /\ CountedInPlace /\ EndsInTime /\ RemovesAll
      /\ ~Crashes /\ ~Restarts /\ ~Revocation /\ ~Ceilings
  BY DEF Sparing, Staffed, Steady
<1>2. CASE Sends \/ SpawnFailures
  BY <1>1, <1>2, SendSpared, DispatchSpared DEF Sends, SpawnFailures
<1>12. CASE Binds
  BY <1>12, BindSpared DEF Binds
<1>3. CASE Aborts \/ TurnEndings \/ Streams
  BY <1>3, SameSpared DEF Aborts, TurnEndings, Streams, AbortMessage, ForceStop, ModelCallFails,
     TurnSettles, TurnFails, TurnEnds, TurnWorks
<1>4. CASE Relays
  BY <1>4, BookkeepingSpared, SameSpared DEF Relays, ContinueBusy
<1>5. CASE Removals
  BY <1>1, <1>5, RemovalSpared DEF Removals
<1>6. CASE Research
  <2>1. ASSUME NEW p \in Procs, NEW x \in Sessions, WorkersStart(p, x) \/ WorkersEnd(p, x)
        PROVE  Spared
    BY <2>1, SameSpared DEF WorkersStart, WorkersEnd
  <2>2. QED BY <1>6, <2>1, BookkeepingSpared DEF Research
<1>7. CASE Recovery
  BY <1>7, DispatchSpared, BookkeepingSpared DEF Recovery
<1>8. CASE ProbesAndForks
  <2>1. ASSUME NEW x \in Sessions, NEW y \in Sessions, ForkSession(x, y) \/ ForkTimesOut(x, y)
        PROVE  Spared
    BY <2>1, SameSpared DEF ForkSession, ForkTimesOut
  <2>2. QED BY <1>1, <1>8, <2>1, BookkeepingSpared, RemovalSpared, ForkSpared DEF ProbesAndForks
<1>9. CASE Rotation \/ Idling
  BY <1>9, MarksSpared DEF Rotation, Idling
<1>10. CASE Readers
  BY <1>1, <1>10, ReadSpared, ExitSpared, BookkeepingSpared DEF Readers
<1>11. QED BY <1>1, <1>2, <1>3, <1>4, <1>5, <1>6, <1>7, <1>8, <1>9, <1>10, <1>12 DEF Next

-----------------------------------------------------------------------------
(* Who starts workers.                                                      *)

Hires(b, c) == \E p \in Procs : ~(c[p].workers \subseteq b[p].workers)

\* No command and no line starts workers.
LEMMA OperatorsHireNobody ==
    ASSUME NEW b \in Bridges, NEW p \in Procs, NEW x \in Sessions
    PROVE  /\ \A lines : ~Hires(b, Says(b, p, lines))
           /\ ~Hires(b, Prompted(b, p, x)) /\ ~Hires(b, Aborted(b, p, x))
           /\ ~Hires(b, Destroyed(b, p, x))
           /\ \A n, lines : ~Hires(b, Says([b EXCEPT ![p].turns[x] = n], p, lines))
<1>1. ASSUME NEW lines PROVE ~Hires(b, Says(b, p, lines))
  BY DEF Hires, Says, Bridges, Bridge
<1>2. ~Hires(b, Prompted(b, p, x))
  <2>1. CASE x \in b[p].refused \ b[p].known
    BY <2>1 DEF Hires, Prompted, Says, Bridges, Bridge
  <2>2. CASE x \notin b[p].refused \ b[p].known
    BY <2>2 DEF Hires, Prompted, Bridges, Bridge
  <2>3. QED BY <2>1, <2>2
<1>3. ~Hires(b, Aborted(b, p, x))
  <2> DEFINE c == [b EXCEPT ![p].turns[x] = 0, ![p].refused = @ \cup ({x} \ b[p].known)]
  <2>1. PICK lines : Aborted(b, p, x) = Says(c, p, lines)
    BY DEF Aborted
  <2>2. \A q \in Procs : c[q].workers = b[q].workers
    BY DEF Bridges, Bridge
  <2>3. \A q \in Procs : Says(c, p, lines)[q].workers = c[q].workers
    BY DEF Says, Bridges, Bridge
  <2> HIDE DEF c
  <2>4. QED BY <2>1, <2>2, <2>3 DEF Hires
<1>4. ~Hires(b, Destroyed(b, p, x))
  <2> DEFINE c == [b EXCEPT ![p].known = @ \ {x}, ![p].turns[x] = 0, ![p].workers = @ \ {x},
                            ![p].refused = @ \ {x}]
  <2>1. PICK lines : Destroyed(b, p, x) = Says(c, p, lines)
    BY DEF Destroyed
  <2>2. \A q \in Procs : c[q].workers \subseteq b[q].workers
    BY DEF Bridges, Bridge
  <2>3. \A q \in Procs : Says(c, p, lines)[q].workers = c[q].workers
    BY DEF Says, Bridges, Bridge
  <2> HIDE DEF c
  <2>4. QED BY <2>1, <2>2, <2>3 DEF Hires
<1>5. ASSUME NEW n, NEW lines PROVE ~Hires(b, Says([b EXCEPT ![p].turns[x] = n], p, lines))
  <2> DEFINE c == [b EXCEPT ![p].turns[x] = n]
  <2>1. \A q \in Procs : c[q].workers = b[q].workers
    BY DEF Bridges, Bridge
  <2>2. \A q \in Procs : Says(c, p, lines)[q].workers = c[q].workers
    BY DEF Says, Bridges, Bridge
  <2> HIDE DEF c
  <2>3. ~Hires(b, Says(c, p, lines))
    BY <2>1, <2>2 DEF Hires
  <2>4. QED BY <2>3 DEF c
<1>6. QED BY <1>1, <1>2, <1>3, <1>4, <1>5

\* Stopped sidecars have none.
LEMMA SurvivorsHireNobody ==
    ASSUME NEW s, bridge \in Bridges
    PROVE  ~Hires(bridge, Survivors(s))
BY DEF Hires, Survivors, NewBridge

\* A message to a session starts no workers of its.
LEMMA SendHiresNobody ==
    ASSUME IInv, NEW x \in Sessions, NEW w \in Workspaces, SendMessage(x, w)
    PROVE  ~Hires(bridge, bridge')
<1> DEFINE ready == Ready(x, w)
           q == ProcessForSession(ready, x)
<1>1. bridge \in Bridges /\ Survivors(ready) \in Bridges
  BY IInvParts, SendReady, SurvivorsType DEF Good
<1>2. \/ Reaches(ready, q) /\ bridge' = Prompted(Survivors(ready), q, x)
      \/ bridge' = Survivors(ready)
  BY DEF SendMessage, Ready, Ensured
<1>3. Reaches(ready, q) => q \in Procs
  BY SendReady, ReachedIsProc DEF Good
<1> HIDE DEF ready, q
<1>4. ~Hires(bridge, Survivors(ready))
  BY <1>1, SurvivorsHireNobody
<1>5. CASE q \in Procs /\ bridge' = Prompted(Survivors(ready), q, x)
  <2>1. ~Hires(Survivors(ready), bridge')
    BY <1>1, <1>5, OperatorsHireNobody
  <2>2. QED BY <1>4, <2>1 DEF Hires
<1>6. QED BY <1>2, <1>3, <1>4, <1>5

\* Nor does any other step but the one in which a turn starts them.
LEMMA WhoHires ==
    ASSUME IInv, Next, NEW p \in Procs, NEW x \in Sessions,
           x \notin bridge[p].workers, x \in bridge'[p].workers
    PROVE  WorkersStart(p, x)
<1>1. bridge \in Bridges /\ Hires(bridge, bridge')
  BY IInvParts DEF Hires
<1>2. bridge' # bridge /\ \A s : bridge' # Survivors(s)
  BY <1>1, SurvivorsHireNobody DEF Hires
<1>3. ASSUME NEW y \in Sessions, AbortMessage(y) \/ ForceStop(y) \/ ContinueBusy(y) \/ RelayMessage(y)
                                 \/ DetachSession(y) \/ DestroySession(y) \/ EndProbe(y)
      PROVE  FALSE
  <2> DEFINE q == ProcessForSession(sup, y)
  <2>1. \/ bridge' = bridge
        \/ /\ Reaches(sup, q)
           /\ \/ bridge' = Aborted(bridge, q, y) \/ bridge' = Destroyed(bridge, q, y)
              \/ bridge' = Prompted(bridge, q, y) \/ \E lines : bridge' = Says(bridge, q, lines)
    BY <1>3 DEF AbortMessage, ForceStop, ContinueBusy, RelayMessage, DetachSession, DestroySession,
       EndProbe, Dispose
  <2>2. Reaches(sup, q) => q \in Procs
    BY IInvParts, ReachedIsProc DEF Good
  <2> HIDE DEF q
  <2>3. QED BY <1>1, <1>2, <2>1, <2>2, OperatorsHireNobody
<1>4. ASSUME NEW q \in Procs, NEW y \in Sessions,
             \/ TurnWorks(q, y) \/ ModelCallFails(q, y) \/ TurnSettles(q, y) \/ TurnFails(q, y)
      PROVE  FALSE
  <2>1. \/ \E lines : bridge' = Says(bridge, q, lines)
        \/ \E n, lines : bridge' = Says([bridge EXCEPT ![q].turns[y] = n], q, lines)
    <3>1. [bridge EXCEPT ![q].turns[y] = @ - 1] = [bridge EXCEPT ![q].turns[y] = bridge[q].turns[y] - 1]
      BY <1>1 DEF Bridges, Bridge
    <3>2. QED BY <1>4, <3>1 DEF TurnWorks, ModelCallFails, TurnSettles, TurnFails, TurnEnds
  <2>2. CASE \E lines : bridge' = Says(bridge, q, lines)
    <3>1. PICK lines : bridge' = Says(bridge, q, lines)
      BY <2>2
    <3>2. ~Hires(bridge, Says(bridge, q, lines))
      BY <1>1, OperatorsHireNobody
    <3>3. QED BY <1>1, <3>1, <3>2
  <2>3. CASE \E n, lines : bridge' = Says([bridge EXCEPT ![q].turns[y] = n], q, lines)
    <3>1. PICK n, lines : bridge' = Says([bridge EXCEPT ![q].turns[y] = n], q, lines)
      BY <2>3
    <3>2. ~Hires(bridge, Says([bridge EXCEPT ![q].turns[y] = n], q, lines))
      BY <1>1, OperatorsHireNobody
    <3>3. QED BY <1>1, <3>1, <3>2
  <2>4. QED BY <2>1, <2>2, <2>3
<1>5. ASSUME NEW q \in Procs, NEW y \in Sessions, WorkersEnd(q, y)
      PROVE  FALSE
  <2> DEFINE c == [bridge EXCEPT ![q].workers = @ \ {y}]
  <2>1. \A r \in Procs : c[r].workers \subseteq bridge[r].workers
    BY <1>1 DEF Bridges, Bridge
  <2>2. \A lines : \A r \in Procs : Says(c, q, lines)[r].workers = c[r].workers
    BY <1>1 DEF Says, Bridges, Bridge
  <2>3. \E lines : bridge' = Says(c, q, lines)
    BY <1>5 DEF WorkersEnd
  <2> HIDE DEF c
  <2>4. QED BY <1>1, <2>1, <2>2, <2>3 DEF Hires
<1>6. ASSUME NEW q \in Procs, NEW y \in Sessions, WorkersStart(q, y)
      PROVE  WorkersStart(p, x)
  <2> DEFINE c == [bridge EXCEPT ![q].workers = @ \cup {y}]
  <2>1. \A r \in Procs : c[r].workers \subseteq bridge[r].workers \cup (IF r = q THEN {y} ELSE {})
    BY <1>1 DEF Bridges, Bridge
  <2>2. \A lines : \A r \in Procs : Says(c, q, lines)[r].workers = c[r].workers
    BY <1>1 DEF Says, Bridges, Bridge
  <2>3. \E lines : bridge' = Says(c, q, lines)
    BY <1>6 DEF WorkersStart
  <2> HIDE DEF c
  <2>4. p = q /\ x = y
    BY <2>1, <2>2, <2>3
  <2>5. QED BY <1>6, <2>4
<1>7. ASSUME NEW q \in Procs, ReadEvent(q) PROVE FALSE
  <2>1. \A r \in Procs : bridge'[r].workers = bridge[r].workers
    BY <1>7, ReadEventReads DEF Reads
  <2>2. QED BY <1>1, <2>1 DEF Hires
<1>8. ASSUME NEW y \in Sessions, NEW w \in Workspaces, RecoverSession(y, w) PROVE FALSE
  <2>1. \A r \in Procs : bridge'[r].workers = bridge[r].workers
    BY <1>1, <1>8 DEF RecoverSession, Bridges, Bridge
  <2>2. QED BY <1>1, <2>1 DEF Hires
<1>9. CASE Sends
  BY <1>1, <1>9, SendHiresNobody DEF Sends
<1>10. CASE Binds \/ SpawnFailures \/ Rotation \/ Ceilings \/ Revocation \/ Restarts \/ Crashes
             \/ Idling
  BY <1>2, <1>10 DEF Binds, BindSessionKernel, SpawnFailures, SendMessageSpawnFails, Rotation, InvalidateCredentials, Ceilings,
     BusyCeiling, Revocation, StopStaleSidecars, Restarts, RestartEngine, Crashes, Crash, Idling,
     IdleTimeout
<1>11. CASE Aborts \/ Streams \/ TurnEndings \/ Relays \/ Removals
  BY <1>3, <1>4, <1>11 DEF Aborts, Streams, TurnEndings, Relays, Removals
<1>12. CASE ProbesAndForks
  BY <1>2, <1>3, <1>12 DEF ProbesAndForks, StartProbe, ForkSession, ForkAnswered, ForkTimesOut
<1>13. CASE Research
  BY <1>2, <1>5, <1>6, <1>13 DEF Research, TrackResearchRun, UntrackResearchRun
<1>14. CASE Recovery
  BY <1>2, <1>8, <1>14 DEF Recovery, RefreshBackgroundTasks, RecoveryEnds
<1>15. CASE Readers
  BY <1>2, <1>7, <1>15 DEF Readers, ProcessExits, DeliverNotice
<1>16. QED BY <1>9, <1>10, <1>11, <1>12, <1>13, <1>14, <1>15 DEF Next

\* The invariant of sparing executions is inductive.
LEMMA NextSparingInv == SparingInv /\ [Sparing]_vars => SparingInv'
<1> SUFFICES ASSUME SparingInv, [Sparing]_vars PROVE SparingInv'
  OBVIOUS
<1>1. StaffedInv'
  BY NextStaffedInv DEF SparingInv, Sparing
<1>2. CASE Sparing
  <2>1. Spared
    BY <1>2, SparingSteps
  <2>2. ASSUME NEW p \in Procs, NEW x \in Sessions, bridge'[p].turns[x] > 0
        PROVE  sup'.child[p].life = "live" /\ x \in sup'.busy /\ Houses(sup', p, x)
    <3>1. bridge[p].turns[x] \in Nat /\ bridge'[p].turns[x] \in Nat
      BY <1>1, SparingParts, TurnsNat, IInvPartsNext DEF StaffedInv, SteadyInv, KernelInv
    <3>2. CASE StartsTurn(p, x)
      BY <1>2, <3>2, SparingParts, SteadyStarts DEF Sparing, Staffed
    <3>3. CASE ~StartsTurn(p, x)
      <4>1. bridge[p].turns[x] > 0
        BY <2>2, <3>1, <3>3 DEF StartsTurn
      <4>2. QED BY <2>1, <2>2, <4>1 DEF Spared, Lodges
    <3>4. QED BY <3>2, <3>3
  <2>3. ASSUME NEW p \in Procs, NEW x \in Sessions, x \in bridge'[p].workers
        PROVE  sup'.child[p].life = "live" /\ (x \in sup'.workers => Houses(sup', p, x))
    <3>1. CASE x \in bridge[p].workers
      BY <2>1, <2>3, <3>1 DEF Spared, Lodges
    <3>2. CASE x \notin bridge[p].workers
      <4>1. WorkersStart(p, x)
        BY <1>2, <2>3, <3>2, SparingParts, WhoHires DEF Sparing, Staffed, Steady
      <4>2. sup' = sup /\ bridge[p].turns[x] > 0
        BY <4>1 DEF WorkersStart, Runs
      <4>3. QED BY <4>2, SparingParts DEF Lodged
    <3>3. QED BY <3>1, <3>2
  <2>4. Lodged'
    BY <2>2, <2>3 DEF Lodged
  <2>5. QED BY <1>1, <2>1, <2>4 DEF SparingInv, Spared
<1>3. CASE UNCHANGED vars
  BY <1>1, <1>3 DEF vars, SparingInv, Lodged
<1>4. QED BY <1>2, <1>3

\* At first there are no turns, no workers and no processes.
LEMMA InitSparingInv == Init => SparingInv
<1> SUFFICES ASSUME Init PROVE SparingInv
  OBVIOUS
<1>1. AllLive(sup)
  BY DEF Init, NewSupervisor, AllLive, Tracked, ActiveProcs, ParkedProcs
<1>2. Young(sup)
  BY DEF Init, NewSupervisor, NoChild, Young, Queued
<1>3. Lodged
  BY DEF Init, NewBridge, Lodged
<1>4. QED BY <1>1, <1>2, <1>3, InitStaffedInv DEF SparingInv

\* What the invariant is for.
LEMMA SparingSparesWork ==
    ASSUME SparingInv, Sparing
    PROVE  SparesWork
<1> SUFFICES ASSUME NEW p \in Procs, NEW x \in Sessions, Dies(p),
                    Runs(p, x) \/ (RunsWorkers(p, x) /\ x \in sup.workers)
             PROVE  FALSE
  BY DEF SparesWork
<1>1. x \in AtWork(sup) /\ Houses(sup, p, x)
  BY SparingParts DEF Runs, RunsWorkers, Lodged
<1>2. Kills
  BY SparingSteps DEF Spared
<1>3. QED BY <1>1, <1>2 DEF Kills

\* Parking, eviction, idle reaping and rotation kill no process that runs a turn, or workers that
\* are counted, in every sparing execution: no dispatch does, whatever is sent, relayed, parked,
\* evicted, retired, recovered, forked or removed.
THEOREM WorkSpared == SparingSpec => WorkIsSpared
<1>1. SparingInv /\ [Sparing]_vars => [SparesWork]_vars
  BY SparingSparesWork
<1>2. QED BY InitSparingInv, NextSparingInv, <1>1, PTL DEF SparingSpec, WorkIsSpared
=============================================================================
