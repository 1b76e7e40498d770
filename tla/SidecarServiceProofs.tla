------------------------ MODULE SidecarServiceProofs ------------------------
(***************************************************************************)
(* How the Supervisor's processes serve, for any kernels, workspaces,       *)
(* sessions and processes: they enter and leave rotation the way            *)
(* SidecarRotation allows; a message starts its turn in its workspace, on   *)
(* its kernel, with current credentials; the limit of parked processes is   *)
(* kept for each kernel by itself.                                          *)
(*                                                                         *)
(* A critical section is a chain of operators of SidecarState.  Sheds says  *)
(* what every link but the start of a process can do, and is transitive;    *)
(* so one lemma per operator is enough for all of them.                     *)
(***************************************************************************)
EXTENDS SidecarSupervisorProofs, FiniteSetTheorems

InRotation(s) == ActiveProcs(s) \cup ParkedProcs(s)
Known(s) == s.sessions \cup Working(s)

\* t knows of no more sessions and work than s, and has bound none; a session is not forgotten
\* while its turn or its run is counted.
Forgets(s, t) ==
    /\ t.sessions \subseteq s.sessions /\ t.busy \subseteq s.busy
    /\ t.workers \subseteq s.workers /\ t.runs \subseteq s.runs
    /\ (t.busy \cup t.runs) \cap s.sessions \subseteq t.sessions
    /\ \A x \in Sessions : t.kernels[x] \in {s.kernels[x], NoKernel}

\* What a process that starts to retire carries are turns of its kernel.
Carries(s, t) ==
    \A p \in t.retiring : \A x \in t.child[p].retiredTurns :
        \/ p \in s.retiring /\ x \in s.child[p].retiredTurns
        \/ s.child[p].kernel \in {KernelPi, s.kernels[x]}

\* No process enters rotation from s to t; one that starts to retire was stale.
Sheds(s, t) ==
    /\ Forgets(s, t)
    /\ InRotation(t) \subseteq InRotation(s)
    /\ t.retiring \subseteq s.retiring \cup {p \in InRotation(s) : s.child[p].stale}
    /\ \A p \in Tracked(t) : /\ t.child[p].kernel = s.child[p].kernel
                             /\ t.child[p].workspace = s.child[p].workspace
                             /\ t.child[p].stale = s.child[p].stale
    /\ Carries(s, t)

\* No process id comes free - only the reader of a process forgets it - and no kernel of a
\* session that s did not know is forgotten.
Keeps(s, t) ==
    /\ Unused(t) \subseteq Unused(s)
    /\ \A x \in Sessions \ Known(s) : t.kernels[x] = s.kernels[x]

-----------------------------------------------------------------------------

\* Nothing happens.
LEMMA ShedsRefl ==
    ASSUME NEW s
    PROVE  Sheds(s, s) /\ Keeps(s, s)
BY DEF Sheds, Forgets, Carries, Keeps, InRotation, Tracked

\* One operator after another.
LEMMA ShedsTrans ==
    ASSUME NEW s \in Supervisor, NEW t \in Supervisor, NEW u \in Supervisor, Sheds(s, t), Sheds(t, u)
    PROVE  Sheds(s, u)
<1>1. Tracked(u) \subseteq Tracked(t) /\ u.retiring \subseteq Tracked(u)
  BY DEF Sheds, InRotation, Tracked
<1>2. InRotation(t) \subseteq Tracked(t) /\ t.retiring \subseteq Tracked(t)
  BY DEF InRotation, Tracked
<1>3. Forgets(s, u)
  BY DEF Sheds, Forgets
<1>4. InRotation(u) \subseteq InRotation(s)
  BY DEF Sheds
<1>5. u.retiring \subseteq s.retiring \cup {p \in InRotation(s) : s.child[p].stale}
  BY <1>1, <1>2 DEF Sheds
<1>6. \A p \in Tracked(u) : /\ u.child[p].kernel = s.child[p].kernel
                            /\ u.child[p].workspace = s.child[p].workspace
                            /\ u.child[p].stale = s.child[p].stale
  BY <1>1 DEF Sheds
<1>7. ASSUME NEW p \in u.retiring, NEW x \in u.child[p].retiredTurns
      PROVE  \/ p \in s.retiring /\ x \in s.child[p].retiredTurns
             \/ s.child[p].kernel \in {KernelPi, s.kernels[x]}
  <2>1. p \in Procs /\ p \in Tracked(t) /\ x \in Sessions
    BY <1>1 DEF Supervisor, Child
  <2>2. CASE p \in t.retiring /\ x \in t.child[p].retiredTurns
    BY <2>2 DEF Sheds, Carries
  <2>3. CASE t.child[p].kernel \in {KernelPi, t.kernels[x]}
    <3>1. t.child[p].kernel = s.child[p].kernel /\ s.child[p].kernel # NoKernel
      BY <2>1, KernelsAssumption DEF Sheds, Supervisor, Child
    <3>2. t.kernels[x] \in {s.kernels[x], NoKernel}
      BY <2>1 DEF Sheds, Forgets
    <3>3. QED BY <2>3, <3>1, <3>2
  <2>4. QED BY <2>2, <2>3 DEF Sheds, Carries
<1>8. QED BY <1>3, <1>4, <1>5, <1>6, <1>7 DEF Sheds, Carries

LEMMA KeepsTrans ==
    ASSUME NEW s, NEW t, NEW u, Sheds(s, t), Keeps(s, t), Keeps(t, u)
    PROVE  Keeps(s, u)
BY DEF Sheds, Forgets, Keeps, Known, Working

\* forgetSessionLocked forgets what it is told to, with the kernel.
LEMMA ForgetSessionsForgets ==
    ASSUME NEW s \in Supervisor, NEW X
    PROVE  /\ Forgets(s, ForgetSessions(s, X)) /\ Forgets(s, Interrupt(s, X))
           /\ \A x \in Sessions \ X : /\ ForgetSessions(s, X).kernels[x] = s.kernels[x]
                                      /\ Interrupt(s, X).kernels[x] = s.kernels[x]
BY DEF ForgetSessions, Interrupt, Forgets, Supervisor

\* Forgetting sessions moves no process.
LEMMA SamePlacesSheds ==
    ASSUME NEW s \in Supervisor, NEW t, SamePlaces(s, t), Forgets(s, t)
    PROVE  Sheds(s, t)
BY DEF SamePlaces, Sheds, Carries, InRotation, Tracked, ActiveProcs, ParkedProcs

\* Nor does taking processes out of all their places bring one in.
LEMMA RemovedSheds ==
    ASSUME NEW s \in Supervisor, NEW t \in Supervisor, NEW P \in SUBSET Procs, Removed(s, t, P),
           Forgets(s, t)
    PROVE  Sheds(s, t)
<1>1. NoProc \notin P
  BY ProcsAssumption
<1>2. /\ ActiveProcs(t) = ActiveProcs(s) \ P
      /\ ParkedProcs(t) = ParkedProcs(s) \ P
      /\ t.retiring = s.retiring \ P
  BY <1>1 DEF Removed, ActiveProcs, ParkedProcs
<1>3. \A p \in Tracked(t) : t.child[p] = s.child[p]
  BY <1>2, TrackedProcs DEF Removed, Tracked
<1>4. QED BY <1>2, <1>3 DEF Sheds, Carries, InRotation, Tracked

\* The same, when sessions are forgotten after something that touches none of them.
SameSessions(s, t) ==
    /\ t.sessions = s.sessions /\ t.busy = s.busy /\ t.workers = s.workers
    /\ t.runs = s.runs /\ t.kernels = s.kernels /\ t.workspaces = s.workspaces

LEMMA InterruptForgets ==
    ASSUME NEW s \in Supervisor, NEW t \in Supervisor, SameSessions(s, t),
           NEW X
    PROVE  /\ Forgets(s, Interrupt(t, X))
           /\ \A x \in Sessions \ X : Interrupt(t, X).kernels[x] = s.kernels[x]
BY ForgetSessionsForgets DEF Forgets, SameSessions

\* stopChildProcess leaves a process that is dead, not one that never was.
LEMMA StopKeeps ==
    ASSUME NEW s \in Supervisor, NEW t \in Supervisor, t.child = s.child, SameSessions(s, t),
           NEW P, NEW X, X \subseteq Known(s)
    PROVE  Keeps(s, Interrupt(Stop(t, P), X))
<1>1. Stop(t, P) \in Supervisor
      /\ \A p \in Procs : Stop(t, P).child[p] =
            IF p \in P THEN [NoChild EXCEPT !.retired = TRUE, !.life = "dead"] ELSE s.child[p]
  BY StopType
<1>2. Interrupt(Stop(t, P), X).child = Stop(t, P).child
  BY <1>1, InterruptType DEF SamePlaces
<1>3. SameSessions(s, Stop(t, P))
  BY DEF SameSessions, Stop, Supervisor
<1>4. \A x \in Sessions \ X : Interrupt(Stop(t, P), X).kernels[x] = s.kernels[x]
  BY <1>1, <1>3, InterruptForgets
<1>5. QED BY <1>1, <1>2, <1>4 DEF Keeps, Unused, NoChild

\* stopParkedLocked.
LEMMA StopParkedSheds ==
    ASSUME NEW s, Good(s), NEW K \in SUBSET Keys
    PROVE  Sheds(s, StopParked(s, K)) /\ Keeps(s, StopParked(s, K))
<1> DEFINE P == {s.parked[key] : key \in K}
           taken == TakeParked(s, K)
           t == Stop(taken, P)
           gone == {x \in s.sessions : <<KernelOf(s, x), s.workspaces[x]>> \in K}
<1>1. s \in Supervisor
  BY DEF Good
<1>2. CASE K = {}
  BY <1>2, ShedsRefl DEF StopParked
<1>3. CASE K # {}
  <2>1. StopParked(s, K) = Interrupt(t, gone)
    BY <1>3 DEF StopParked
  <2>2. taken \in Supervisor /\ taken.child = s.child
    BY <1>1, TakeParkedType
  <2>3. t \in Supervisor
    BY <2>2, StopType
  <2>4. SameSessions(s, t) /\ SameSessions(s, taken)
    BY <1>1 DEF SameSessions, Stop, TakeParked, Supervisor
  <2>5. gone \subseteq Known(s)
    BY DEF Known
  <2>6. Keeps(s, Interrupt(t, gone))
    BY <1>1, <2>2, <2>4, <2>5, StopKeeps
  <2> HIDE DEF t, gone
  <2>7. Forgets(s, StopParked(s, K))
    BY <1>1, <2>1, <2>3, <2>4, InterruptForgets
  <2>8. P \ {NoProc} \in SUBSET Procs
    BY <1>1 DEF Supervisor
  <2>9. Good(StopParked(s, K)) /\ Removed(s, StopParked(s, K), P \ {NoProc})
    BY StopParkedGood
  <2> HIDE DEF P
  <2>10. QED BY <1>1, <2>1, <2>6, <2>7, <2>8, <2>9, RemovedSheds DEF Good
<1>4. QED BY <1>2, <1>3

\* The active processes of some kernels are stopped.
LEMMA StopActiveSheds ==
    ASSUME NEW s, Good(s), NEW K \in SUBSET Kernels
    PROVE  Sheds(s, StopActive(s, K))
<1> DEFINE P == {s.process[k] : k \in K}
           taken == [s EXCEPT !.process = [k \in Kernels |-> IF k \in K THEN NoProc ELSE @[k]]]
           t == Stop(taken, P)
           gone == UNION {ServedBy(s, k, {s.child[s.process[k]].workspace, NoWorkspace}) : k \in K}
<1>1. s \in Supervisor
  BY DEF Good
<1>2. StopActive(s, K) = Interrupt(t, gone)
  BY DEF StopActive
<1>3. taken \in Supervisor
  BY <1>1 DEF Supervisor
<1>4. SameSessions(s, t)
  BY <1>1 DEF SameSessions, Stop, Supervisor
<1>5. t \in Supervisor
  BY <1>3, StopType
<1> HIDE DEF t, gone
<1>7. Forgets(s, StopActive(s, K))
  BY <1>1, <1>2, <1>4, <1>5, InterruptForgets
<1>8. P \ {NoProc} \in SUBSET Procs
  BY <1>1 DEF Supervisor
<1>9. Good(StopActive(s, K)) /\ Removed(s, StopActive(s, K), P \ {NoProc})
  BY StopActiveGood
<1> HIDE DEF P
<1>10. QED BY <1>1, <1>7, <1>8, <1>9, RemovedSheds DEF Good

\* stopRetiredProcessLocked.
LEMMA StopRetiredSheds ==
    ASSUME NEW s, Good(s), NEW P \in SUBSET s.retiring
    PROVE  Sheds(s, StopRetired(s, P)) /\ Keeps(s, StopRetired(s, P))
<1> DEFINE taken == TakeRetiring(s, P)
           t == Stop(taken, P)
           gone == (UNION {s.child[p].retiredTurns : p \in P}) \cap Working(s)
<1>1. s \in Supervisor /\ P \in SUBSET Procs
  BY DEF Good, Supervisor
<1>2. CASE P = {}
  BY <1>2, ShedsRefl DEF StopRetired
<1>3. CASE P # {}
  <2>1. StopRetired(s, P) = Interrupt(t, gone)
    BY <1>3 DEF StopRetired
  <2>2. taken \in Supervisor /\ taken.child = s.child
    BY <1>1, TakeRetiringType
  <2>3. t \in Supervisor
    BY <2>2, StopType
  <2>4. SameSessions(s, t) /\ SameSessions(s, taken)
    BY <1>1 DEF SameSessions, Stop, TakeRetiring, Supervisor
  <2>5. gone \subseteq Known(s)
    BY DEF Known
  <2>6. Keeps(s, Interrupt(t, gone))
    BY <1>1, <2>2, <2>4, <2>5, StopKeeps
  <2> HIDE DEF t, gone
  <2>7. Forgets(s, StopRetired(s, P))
    BY <1>1, <2>1, <2>3, <2>4, InterruptForgets
  <2>8. Good(StopRetired(s, P)) /\ Removed(s, StopRetired(s, P), P)
    BY StopRetiredGood
  <2>9. QED BY <1>1, <2>1, <2>6, <2>7, <2>8, RemovedSheds DEF Good
<1>4. QED BY <1>2, <1>3

\* reapParkedLocked and evictParkedOverLimitLocked stop parked processes of one kernel.
LEMMA StopsIdle ==
    ASSUME NEW s, NEW k \in Kernels
    PROVE  /\ \E K \in SUBSET IdleKeys(s, k) : ReapParked(s, k) = StopParked(s, K)
           /\ \E K \in SUBSET IdleKeys(s, k) : EvictOverLimit(s, k) = StopParked(s, K)
           /\ IdleKeys(s, k) \subseteq Keys /\ \A key \in IdleKeys(s, k) : key[1] = k
<1>1. \E K \in SUBSET IdleKeys(s, k) : ReapParked(s, k) = StopParked(s, K)
  BY DEF ReapParked
<1>2. \E K \in SUBSET IdleKeys(s, k) : EvictOverLimit(s, k) = StopParked(s, K)
  BY DEF EvictOverLimit
<1>3. IdleKeys(s, k) \subseteq Keys /\ \A key \in IdleKeys(s, k) : key[1] = k
  BY DEF IdleKeys, ParkedKeys, Keys
<1>4. QED BY <1>1, <1>2, <1>3

LEMMA ReapsShed ==
    ASSUME NEW s, Good(s), NEW k \in Kernels
    PROVE  /\ Sheds(s, ReapParked(s, k)) /\ Keeps(s, ReapParked(s, k))
           /\ Sheds(s, EvictOverLimit(s, k)) /\ Keeps(s, EvictOverLimit(s, k))
           /\ Sheds(s, ReapStale(s)) /\ Keeps(s, ReapStale(s))
<1>1. PICK P \in SUBSET s.retiring : ReapStale(s) = StopRetired(s, P)
  BY Zenon DEF ReapStale
<1>2. QED BY <1>1, StopsIdle, StopParkedSheds, StopRetiredSheds

\* parkCurrentLocked.
LEMMA ParkCurrentSheds ==
    ASSUME NEW s, Good(s), NEW k \in Kernels, s.process[k] # NoProc
    PROVE  Sheds(s, ParkCurrent(s, k)) /\ Keeps(s, ParkCurrent(s, k))
<1> DEFINE p == s.process[k]
           t == Put(s, k)
<1>1. s \in Supervisor /\ p \in Procs /\ p \in ActiveProcs(s)
  BY DEF Good, Supervisor, ActiveProcs
<1>2. /\ Good(t) /\ t.retiring = s.retiring
      /\ ActiveProcs(t) = ActiveProcs(s) \ {p}
      /\ ParkedProcs(t) = ParkedProcs(s) \cup {p}
      /\ t.child = [s.child EXCEPT ![p].idle = FALSE]
  BY PutGood
<1>3. SameSessions(s, t)
  BY <1>1 DEF SameSessions, Put, Supervisor
<1>4. ParkCurrent(s, k) = EvictOverLimit(t, k)
  BY DEF ParkCurrent, Put
<1> HIDE DEF t, p
<1>5. \A q \in Procs : /\ t.child[q].kernel = s.child[q].kernel
                       /\ t.child[q].workspace = s.child[q].workspace
                       /\ t.child[q].life = s.child[q].life
                       /\ t.child[q].stale = s.child[q].stale
                       /\ t.child[q].retiredTurns = s.child[q].retiredTurns
  BY <1>1, <1>2 DEF Supervisor, Child
<1>6. Sheds(s, t) /\ Keeps(s, t)
  <2>1. InRotation(t) = InRotation(s) /\ Tracked(t) \subseteq Procs /\ t.retiring \subseteq Procs
    BY <1>1, <1>2, TrackedProcs DEF InRotation, Good, Supervisor
  <2>2. Forgets(s, t)
    BY <1>3 DEF SameSessions, Forgets
  <2>3. Keeps(s, t)
    BY <1>3, <1>5 DEF Keeps, Unused, SameSessions
  <2>4. QED BY <1>2, <1>5, <2>1, <2>2, <2>3 DEF Sheds, Carries
<1>7. Good(EvictOverLimit(t, k)) /\ Sheds(t, EvictOverLimit(t, k)) /\ Keeps(t, EvictOverLimit(t, k))
  BY <1>2, ReapsShed, EvictOverLimitGood
<1>8. QED BY <1>1, <1>2, <1>4, <1>6, <1>7, ShedsTrans, KeepsTrans DEF Good

\* retireStaleProcessLocked: the process carries the running turns of its kernel.
LEMMA RetireSheds ==
    ASSUME NEW s, Good(s), NEW p \in InRotation(s), s.child[p].stale,
           NEW t, Leaves(s, t, p), SameSessions(s, t), NEW unbound
    PROVE  Sheds(s, Retire(t, p, unbound)) /\ Keeps(s, Retire(t, p, unbound))
<1> DEFINE c == t.child[p]
           carried == RunningTurns(t, c.kernel, {c.workspace} \cup unbound)
           u == Retire(t, p, unbound)
<1>1. s \in Supervisor /\ p \in Procs /\ t \in Supervisor /\ t.child = s.child
  BY DEF Good, Supervisor, InRotation, ActiveProcs, ParkedProcs, Leaves
<1>2. \A x \in carried : s.child[p].kernel \in {KernelPi, s.kernels[x]}
  BY <1>1 DEF RunningTurns, KernelOf, SameSessions
<1>3. /\ u.process = t.process /\ u.parked = t.parked
      /\ u.retiring = s.retiring \cup {p}
      /\ u.child = [s.child EXCEPT ![p].retiredTurns = carried, ![p].idle = FALSE]
      /\ SameSessions(s, u)
  BY <1>1 DEF Retire, Leaves, SameSessions, Supervisor
<1> HIDE DEF carried, u
<1>4. \A q \in Procs : /\ u.child[q].kernel = s.child[q].kernel
                       /\ u.child[q].workspace = s.child[q].workspace
                       /\ u.child[q].life = s.child[q].life
                       /\ u.child[q].stale = s.child[q].stale
                       /\ u.child[q].retiredTurns = IF q = p THEN carried ELSE s.child[q].retiredTurns
  BY <1>1, <1>3 DEF Supervisor, Child
<1>5. ActiveProcs(u) \subseteq ActiveProcs(s) /\ ParkedProcs(u) \subseteq ParkedProcs(s)
  BY <1>3 DEF Leaves, ActiveProcs, ParkedProcs
<1>6. Tracked(u) \subseteq Procs /\ u.retiring \subseteq Procs
  BY <1>1, <1>3, <1>5, TrackedProcs DEF Tracked, Supervisor
<1>7. Forgets(s, u)
  BY <1>3 DEF SameSessions, Forgets
<1>8. InRotation(u) \subseteq InRotation(s)
  BY <1>5 DEF InRotation
<1>9. u.retiring \subseteq s.retiring \cup {q \in InRotation(s) : s.child[q].stale}
  BY <1>3
<1>10. \A q \in u.retiring : \A x \in u.child[q].retiredTurns :
          \/ q \in s.retiring /\ x \in s.child[q].retiredTurns
          \/ s.child[q].kernel \in {KernelPi, s.kernels[x]}
  BY <1>2, <1>3, <1>4, <1>6
<1>11. Sheds(s, u)
  BY <1>4, <1>6, <1>7, <1>8, <1>9, <1>10 DEF Sheds, Carries
<1>12. Keeps(s, u)
  BY <1>3, <1>4 DEF Keeps, Unused, SameSessions
<1>13. QED BY <1>11, <1>12 DEF u

\* The current process retires or is parked.
LEMMA SetAsideSheds ==
    ASSUME NEW s, Good(s), NEW k \in Kernels
    PROVE  Sheds(s, SetAside(s, k)) /\ Keeps(s, SetAside(s, k))
<1> DEFINE p == s.process[k]
           t == [s EXCEPT !.process[k] = NoProc]
<1>1. CASE p = NoProc
  BY <1>1, ShedsRefl DEF SetAside
<1>2. CASE p # NoProc /\ ~s.child[p].stale
  BY <1>2, ParkCurrentSheds DEF SetAside
<1>3. CASE p # NoProc /\ s.child[p].stale
  <2>1. s \in Supervisor /\ p \in InRotation(s)
    BY <1>3 DEF Good, ActiveProcs, InRotation
  <2>2. Leaves(s, t, p)
    BY <1>3, SetAsideLeaves
  <2>3. SameSessions(s, t)
    BY <2>1 DEF SameSessions, Supervisor
  <2>4. SetAside(s, k) = Retire(t, p, {NoWorkspace})
    BY <1>3 DEF SetAside
  <2> HIDE DEF t, p
  <2>5. QED BY <1>3, <2>1, <2>2, <2>3, <2>4, RetireSheds
<1>4. QED BY <1>1, <1>2, <1>3

\* The parked process of a workspace comes back, or retires.
LEMMA TakeBackSheds ==
    ASSUME NEW s, Good(s), NEW k \in Kernels, NEW w \in Workspaces, s.process[k] = NoProc
    PROVE  Sheds(s, TakeBack(s, k, w)) /\ Keeps(s, TakeBack(s, k, w))
<1> DEFINE key == <<k, w>>
           p == s.parked[key]
           taken == TakeParked(s, {key})
<1>1. s \in Supervisor /\ key \in Keys
  BY DEF Good, Keys
<1>2. /\ taken \in Supervisor
      /\ taken.process = s.process /\ taken.retiring = s.retiring /\ taken.child = s.child
      /\ taken.parked = [other \in Keys |-> IF other \in {key} THEN NoProc ELSE s.parked[other]]
  BY <1>1, TakeParkedType
<1>3. SameSessions(s, taken)
  BY <1>1 DEF SameSessions, TakeParked, Supervisor
<1>4. CASE p = NoProc
  BY <1>4, ShedsRefl DEF TakeBack
<1>5. ASSUME p # NoProc PROVE p \in Procs /\ p \in ParkedProcs(s) /\ p \in InRotation(s)
  BY <1>1, <1>5 DEF Supervisor, ParkedProcs, InRotation
<1>6. CASE p # NoProc /\ s.child[p].stale
  <2>1. TakeBack(s, k, w) = Retire(taken, p, {})
    BY <1>6 DEF TakeBack
  <2>2. Leaves(s, taken, p)
    BY <1>1, <1>6, TakeBackLeaves
  <2> HIDE DEF taken
  <2> HIDE DEF p
  <2>3. QED BY <1>3, <1>5, <1>6, <2>1, <2>2, RetireSheds
<1>7. CASE p # NoProc /\ ~s.child[p].stale
  <2> DEFINE t == [taken EXCEPT !.process[k] = p, !.child[p].idle = FALSE]
  <2>1. TakeBack(s, k, w) = t
    BY <1>7 DEF TakeBack
  <2> HIDE DEF taken
  <2>2. /\ t.process = [s.process EXCEPT ![k] = p] /\ t.parked = taken.parked
        /\ t.retiring = s.retiring /\ t.child = [s.child EXCEPT ![p].idle = FALSE]
        /\ SameSessions(s, t)
    BY <1>2, <1>3 DEF Supervisor, SameSessions
  <2> HIDE DEF t
  <2>3. \A q \in Procs : /\ t.child[q].kernel = s.child[q].kernel
                         /\ t.child[q].workspace = s.child[q].workspace
                         /\ t.child[q].life = s.child[q].life
                         /\ t.child[q].stale = s.child[q].stale
                         /\ t.child[q].retiredTurns = s.child[q].retiredTurns
    BY <1>1, <2>2 DEF Supervisor, Child
  <2>4. ActiveProcs(t) \subseteq ActiveProcs(s) \cup {p} /\ ParkedProcs(t) \subseteq ParkedProcs(s)
    BY <1>1, <1>2, <2>2 DEF ActiveProcs, ParkedProcs, Supervisor
  <2> HIDE DEF p
  <2>5. InRotation(t) \subseteq InRotation(s) /\ Tracked(t) \subseteq Procs /\ t.retiring \subseteq Procs
    BY <1>1, <1>5, <1>7, <2>2, <2>4, TrackedProcs DEF InRotation, Tracked, Supervisor
  <2>6. Forgets(s, t)
    BY <2>2 DEF SameSessions, Forgets
  <2>7. Sheds(s, t) /\ Keeps(s, t)
    BY <2>2, <2>3, <2>5, <2>6 DEF Sheds, Carries, Keeps, Unused, SameSessions
  <2>8. QED BY <2>1, <2>7
<1>8. QED BY <1>4, <1>6, <1>7

\* Everything ensureKernelProcessLocked does before it starts a process.
LEMMA PreparedSheds ==
    ASSUME NEW s, Good(s), NEW k \in Kernels, NEW w \in Workspaces
    PROVE  Sheds(s, Prepared(s, k, w)) /\ Keeps(s, Prepared(s, k, w))
<1> DEFINE reaped == ReapParked(s, k)
           swept == ReapStale(reaped)
           aside == SetAside(swept, k)
           back == TakeBack(aside, k, w)
<1>1. Good(reaped) /\ Sheds(s, reaped) /\ Keeps(s, reaped)
  BY ReapParkedGood, ReapsShed
<1> HIDE DEF reaped
<1>2. Good(swept) /\ Sheds(reaped, swept) /\ Keeps(reaped, swept)
  BY <1>1, ReapStaleGood, ReapsShed
<1> HIDE DEF swept
<1>3. Good(aside) /\ Sheds(swept, aside) /\ Keeps(swept, aside) /\ aside.process[k] = NoProc
  BY <1>2, SetAsideGood, SetAsideSheds
<1> HIDE DEF aside
<1>4. Good(back) /\ Sheds(aside, back) /\ Keeps(aside, back)
  BY <1>3, TakeBackGood, TakeBackSheds
<1>5. Prepared(s, k, w) = swept \/ Prepared(s, k, w) = back
  BY DEF Prepared, swept, reaped, aside
<1> HIDE DEF back
<1>6. Sheds(s, swept) /\ Keeps(s, swept)
  BY <1>1, <1>2, ShedsTrans, KeepsTrans DEF Good
<1>7. Sheds(s, aside) /\ Keeps(s, aside)
  BY <1>2, <1>3, <1>6, ShedsTrans, KeepsTrans DEF Good
<1>8. Sheds(s, back) /\ Keeps(s, back)
  BY <1>3, <1>4, <1>7, ShedsTrans, KeepsTrans DEF Good
<1>9. QED BY <1>5, <1>6, <1>8

\* If it leaves a process in the slot, that one is right for the workspace.
LEMMA PreparedServes ==
    ASSUME NEW s, Good(s), NEW k \in Kernels, NEW w \in Workspaces, Prepared(s, k, w).process[k] # NoProc
    PROVE  LET t == Prepared(s, k, w)
           IN  t.child[t.process[k]].workspace = w /\ ~t.child[t.process[k]].stale
<1> DEFINE swept == ReapStale(ReapParked(s, k))
           aside == SetAside(swept, k)
           back == TakeBack(aside, k, w)
           p == aside.parked[<<k, w>>]
           taken == TakeParked(aside, {<<k, w>>})
<1>1. Good(swept)
  BY ReapParkedGood, ReapStaleGood
<1>2. CASE ServesNow(swept, k, w)
  BY <1>2 DEF Prepared, ServesNow
<1>3. CASE ~ServesNow(swept, k, w)
  <2>1. Prepared(s, k, w) = back
    BY <1>3 DEF Prepared
  <2> HIDE DEF swept
  <2>2. Good(aside) /\ aside.process[k] = NoProc
    BY <1>1, SetAsideGood
  <2> HIDE DEF aside
  <2>3. aside \in Supervisor /\ <<k, w>> \in Keys
    BY <2>2 DEF Good, Keys
  <2>4. taken \in Supervisor /\ taken.process = aside.process /\ taken.child = aside.child
    BY <2>3, TakeParkedType
  <2>5. Retire(taken, p, {}).process = taken.process
    BY DEF Retire
  <2>6. p # NoProc /\ ~aside.child[p].stale
    BY <2>1, <2>2, <2>4, <2>5 DEF TakeBack
  <2>7. p \in Procs /\ aside.child[p].workspace = w
    BY <2>2, <2>3, <2>6 DEF Good, Accounted, ParkedMatches, Supervisor
  <2>8. back = [taken EXCEPT !.process[k] = p, !.child[p].idle = FALSE]
    BY <2>6 DEF TakeBack
  <2> HIDE DEF taken, p
  <2>9. back.process[k] = p /\ back.child[p].workspace = w /\ ~back.child[p].stale
    BY <2>3, <2>4, <2>6, <2>7, <2>8 DEF Supervisor, Child
  <2>10. QED BY <2>1, <2>9
<1>4. QED BY <1>2, <1>3

-----------------------------------------------------------------------------
(* The refinement of SidecarRotation.                                       *)

\* What the mapping shows of a record.
Serving(s) == [key \in Keys |-> ServingProcess(s, key)]
Revoked(s) == {p \in Tracked(s) : s.child[p].stale}

\* Where a process in rotation serves.
KeyOf(s, p) == <<s.child[p].kernel, s.child[p].workspace>>

\* A process in rotation serves its own key and no other; another place is free.
LEMMA ServingIs ==
    ASSUME NEW s, Good(s)
    PROVE  /\ \A p \in InRotation(s) : KeyOf(s, p) \in Keys /\ Serving(s)[KeyOf(s, p)] = p
           /\ \A key \in Keys : Serving(s)[key] # NoProc =>
                 Serving(s)[key] \in InRotation(s) /\ KeyOf(s, Serving(s)[key]) = key
<1>1. s \in Supervisor /\ Accounted(s) /\ InRotation(s) \subseteq Procs /\ NoProc \notin InRotation(s)
  BY ProcsAssumption DEF Good, InRotation, ActiveProcs, ParkedProcs, Supervisor
<1>2. ASSUME NEW p \in InRotation(s)
      PROVE  KeyOf(s, p) \in Keys
  BY <1>1, <1>2 DEF InRotation, Tracked, Accounted, AllPlaced, KeyOf, Keys, Supervisor, Child
<1>3. ASSUME NEW p \in ActiveProcs(s)
      PROVE  Serving(s)[KeyOf(s, p)] = p
  <2>1. p \in InRotation(s) /\ p # NoProc
    BY DEF InRotation, ActiveProcs
  <2>2. s.process[s.child[p].kernel] = p
    BY <1>1 DEF ActiveProcs, Accounted, ActiveMatches
  <2>3. QED BY <1>2, <2>1, <2>2 DEF Serving, ServingProcess, KeyOf
<1>4. ASSUME NEW p \in ParkedProcs(s)
      PROVE  Serving(s)[KeyOf(s, p)] = p
  <2> DEFINE key == KeyOf(s, p)
             q == s.process[key[1]]
  <2>1. key \in Keys /\ p # NoProc /\ key[1] \in Kernels
    BY <1>2 DEF InRotation, ParkedProcs, Keys
  <2>2. s.parked[key] = p
    BY <1>1 DEF ParkedProcs, Accounted, ParkedMatches, KeyOf
  <2>3. ~(q # NoProc /\ s.child[q].workspace = key[2])
    BY <1>1, <2>1, <2>2 DEF Accounted, ActiveNotParked, KeyOf
  <2>4. QED BY <2>1, <2>2, <2>3 DEF Serving, ServingProcess
<1>5. ASSUME NEW key \in Keys, Serving(s)[key] # NoProc
      PROVE  Serving(s)[key] \in InRotation(s) /\ KeyOf(s, Serving(s)[key]) = key
  <2> DEFINE q == s.process[key[1]]
  <2>1. key[1] \in Kernels /\ key = <<key[1], key[2]>>
    BY DEF Keys
  <2>2. CASE q # NoProc /\ s.child[q].workspace = key[2]
    <3>1. Serving(s)[key] = q
      BY <2>2 DEF Serving, ServingProcess
    <3>2. q \in ActiveProcs(s) /\ s.child[q].kernel = key[1]
      BY <1>1, <2>1, <2>2 DEF ActiveProcs, Accounted, ActiveMatches
    <3>3. QED BY <2>1, <2>2, <3>1, <3>2 DEF InRotation, KeyOf
  <2>3. CASE ~(q # NoProc /\ s.child[q].workspace = key[2])
    <3>1. Serving(s)[key] = s.parked[key]
      BY <2>3 DEF Serving, ServingProcess
    <3>2. QED BY <1>1, <1>5, <3>1 DEF InRotation, ParkedProcs, Accounted, ParkedMatches, KeyOf
  <2>4. QED BY <2>2, <2>3
<1>6. QED BY <1>2, <1>3, <1>4, <1>5 DEF InRotation

\* Rotates(s, t, start): Sheds, without the sessions, but for a process that starts.
Rotates(s, t, start) ==
    /\ start # NoProc => start \in InRotation(t) \ Tracked(s) /\ ~t.child[start].stale
    /\ InRotation(t) \ {start} \subseteq InRotation(s)
    /\ t.retiring \subseteq s.retiring \cup {p \in InRotation(s) : s.child[p].stale}
    /\ \A p \in Tracked(t) \ {start} : /\ t.child[p].kernel = s.child[p].kernel
                                       /\ t.child[p].workspace = s.child[p].workspace
                                       /\ t.child[p].stale = s.child[p].stale

\* Such a step is a step of the abstract specification: what is not tracked any more has
\* ended, what retires now has left.
LEMMA RotatesMaps ==
    ASSUME NEW s, Good(s), NEW t, Good(t), NEW start \in Procs \cup {NoProc}, Rotates(s, t, start),
           NEW key \in Keys, start # NoProc => key = KeyOf(t, start)
    PROVE  LET ended == Tracked(s) \ Tracked(t)
               left == t.retiring \ s.retiring
               stays == [k \in Keys |-> IF Serving(s)[k] \in ended \cup left THEN NoProc
                                        ELSE Serving(s)[k]]
           IN  /\ left \subseteq (InRotation(s) \cap Revoked(s)) \ ended
               /\ start # NoProc => stays[key] = NoProc
               /\ Serving(t) = [stays EXCEPT ![key] = IF start = NoProc THEN @ ELSE start]
               /\ t.retiring = (s.retiring \ ended) \cup left
               /\ Revoked(t) = Revoked(s) \ ended
<1> DEFINE ended == Tracked(s) \ Tracked(t)
           left == t.retiring \ s.retiring
           stays == [k \in Keys |-> IF Serving(s)[k] \in ended \cup left THEN NoProc
                                    ELSE Serving(s)[k]]
<1>1. /\ Tracked(s) = InRotation(s) \cup s.retiring /\ Tracked(t) = InRotation(t) \cup t.retiring
      /\ InRotation(s) \cap s.retiring = {} /\ InRotation(t) \cap t.retiring = {}
      /\ NoProc \notin Tracked(s) \cup Tracked(t)
  BY TrackedProcs, ProcsAssumption DEF Good, Accounted, PlacesDisjoint, InRotation, Tracked
<1>2. left \subseteq (InRotation(s) \cap Revoked(s)) \ ended
  BY <1>1 DEF Rotates, Revoked
<1>3. t.retiring = (s.retiring \ ended) \cup left
  BY <1>1 DEF Rotates
<1>4. Revoked(t) = Revoked(s) \ ended
  BY <1>1 DEF Rotates, Revoked
<1>5. \A p \in InRotation(s) \ (ended \cup left) : p \in InRotation(t) /\ KeyOf(t, p) = KeyOf(s, p)
  BY <1>1 DEF Rotates, KeyOf
<1>6. \A p \in InRotation(t) \ {start} :
         p \in InRotation(s) \ (ended \cup left) /\ KeyOf(t, p) = KeyOf(s, p)
  BY <1>1 DEF Rotates, KeyOf
<1> HIDE DEF ended, left
<1>7. start # NoProc => stays[key] = NoProc
  <2> SUFFICES ASSUME start # NoProc, stays[key] # NoProc PROVE FALSE
    OBVIOUS
  <2>1. /\ Serving(s)[key] \in InRotation(s) \ (ended \cup left)
        /\ KeyOf(s, Serving(s)[key]) = key
    BY ServingIs
  <2>2. Serving(t)[key] = Serving(s)[key]
    BY <1>5, <2>1, ServingIs
  <2>3. Serving(t)[key] = start
    BY ServingIs DEF Rotates
  <2>4. QED BY <1>1, <2>1, <2>2, <2>3 DEF Rotates
<1>8. ASSUME NEW k \in Keys
      PROVE  Serving(t)[k] = IF k = key /\ start # NoProc THEN start ELSE stays[k]
  <2>1. CASE k = key /\ start # NoProc
    BY <2>1, ServingIs DEF Rotates
  <2>2. CASE ~(k = key /\ start # NoProc)
    <3>1. start # NoProc => Serving(t)[k] # start
      BY <2>2, ServingIs
    <3>2. CASE Serving(t)[k] # NoProc
      <4>1. Serving(t)[k] \in InRotation(t) \ {start} /\ KeyOf(t, Serving(t)[k]) = k
        BY <3>1, <3>2, ServingIs
      <4>2. Serving(s)[k] = Serving(t)[k] /\ Serving(t)[k] \notin ended \cup left
        BY <1>6, <4>1, ServingIs
      <4>3. QED BY <2>2, <4>2
    <3>3. CASE Serving(t)[k] = NoProc
      <4>1. ASSUME Serving(s)[k] # NoProc, Serving(s)[k] \notin ended \cup left PROVE FALSE
        <5>1. Serving(s)[k] \in InRotation(s) /\ KeyOf(s, Serving(s)[k]) = k
          BY <4>1, ServingIs
        <5>2. Serving(t)[k] = Serving(s)[k]
          BY <1>5, <4>1, <5>1, ServingIs
        <5>3. QED BY <3>3, <4>1, <5>2
      <4>2. QED BY <2>2, <3>3, <4>1
    <3>4. QED BY <3>2, <3>3
  <2>3. QED BY <2>1, <2>2
<1>9. Serving(t) = [stays EXCEPT ![key] = IF start = NoProc THEN @ ELSE start]
  <2>1. DOMAIN Serving(t) = Keys /\ Serving(t) = [k \in Keys |-> Serving(t)[k]]
    BY DEF Serving
  <2> HIDE DEF stays
  <2>2. stays = [k \in Keys |-> stays[k]]
    BY DEF stays
  <2>3. QED BY <1>8, <2>1, <2>2
<1>10. QED BY <1>2, <1>3, <1>4, <1>7, <1>9 DEF ended, left

\* A step of the Supervisor that rotates so, is one of the abstract specification.
LEMMA RotatesStep ==
    ASSUME Good(sup), Good(sup'), NEW start \in Procs \cup {NoProc}, Rotates(sup, sup', start)
    PROVE  [Abstract!Next]_Abstract!vars
<1>1. /\ Abstract!Serving = InRotation(sup)
      /\ Tracked(sup) = InRotation(sup) \cup sup.retiring
  <2>1. Abstract!Serving = {Serving(sup)[key] : key \in Keys} \ {NoProc}
    BY DEF Abstract!Serving, Serving
  <2>2. QED BY <2>1, ServingIs, TrackedProcs, ProcsAssumption DEF InRotation, Tracked, Good
<1>2. CASE Keys = {}
  <2>1. Tracked(sup) = {} /\ Tracked(sup') = {}
    <3>1. \A w \in Workspaces : <<KernelPi, w>> \in Keys
      BY KernelsAssumption DEF Keys
    <3>2. QED BY <1>2, <3>1 DEF Good, Accounted, AllPlaced
  <2>2. Serving(sup) = Serving(sup') /\ sup.retiring = sup'.retiring /\ Revoked(sup) = Revoked(sup')
    BY <1>2, <2>1 DEF Serving, Revoked, Tracked
  <2>3. QED BY <2>2 DEF Abstract!vars, Serving, Revoked
<1>3. CASE Keys # {}
  <2>1. PICK key \in Keys : start # NoProc => key = KeyOf(sup', start)
    BY <1>3, ServingIs DEF Rotates
  <2> DEFINE ended == Tracked(sup) \ Tracked(sup')
             left == sup'.retiring \ sup.retiring
             stays == [k \in Keys |-> IF Serving(sup)[k] \in ended \cup left THEN NoProc
                                      ELSE Serving(sup)[k]]
  <2>2. /\ left \subseteq (InRotation(sup) \cap Revoked(sup)) \ ended
        /\ start # NoProc => stays[key] = NoProc
        /\ Serving(sup') = [stays EXCEPT ![key] = IF start = NoProc THEN @ ELSE start]
        /\ sup'.retiring = (sup.retiring \ ended) \cup left
        /\ Revoked(sup') = Revoked(sup) \ ended
    BY <2>1, RotatesMaps
  <2>3. ended \in SUBSET (Abstract!Serving \cup sup.retiring)
    BY <1>1
  <2>4. left \in SUBSET ((Abstract!Serving \cap Revoked(sup)) \ ended)
    BY <1>1, <2>2
  <2>5. start \in (Procs \ (Abstract!Serving \cup sup.retiring)) \cup {NoProc}
    BY <1>1 DEF Rotates
  <2> HIDE DEF ended, left
  <2>6. /\ start # NoProc => stays[key] = NoProc
        /\ Serving(sup)' = [stays EXCEPT ![key] = IF start = NoProc THEN @ ELSE start]
        /\ sup.retiring' = (sup.retiring \ ended) \cup left
        /\ Revoked(sup)' = Revoked(sup) \ ended
    BY <2>2
  <2>7. Abstract!Rotate
    BY <2>3, <2>4, <2>5, <2>6, Zenon DEF Abstract!Rotate, Serving, Revoked
  <2>8. QED BY <2>7 DEF Abstract!Next
<1>4. QED BY <1>2, <1>3

-----------------------------------------------------------------------------
(* What each critical section does to the processes.                        *)

\* A chain without a start, and what neither touches a process before and after it.
LEMMA ShedsRotates ==
    ASSUME NEW s \in Supervisor, NEW t \in Supervisor, Sheds(s, t)
    PROVE  Rotates(s, t, NoProc)
BY TrackedProcs, ProcsAssumption DEF Sheds, Rotates

LEMMA RotatesPlaces ==
    ASSUME NEW s, NEW t, NEW u, NEW v, NEW start,
           SamePlaces(s, t), Rotates(t, u, start), SamePlaces(u, v)
    PROVE  Rotates(s, v, start)
BY DEF SamePlaces, Rotates, InRotation, Tracked, ActiveProcs, ParkedProcs

\* ensureKernelProcessLocked: one process of the kernel is current and serves the workspace
\* with current credentials; the rest is shed.
LEMMA EnsureServes ==
    ASSUME NEW s, Good(s), NEW k \in Kernels, NEW w \in Workspaces, CanEnsure(s, k, w)
    PROVE  LET u == EnsureKernelProcess(s, k, w)
           IN  /\ \E start \in Procs \cup {NoProc} : Rotates(s, u, start)
               /\ Forgets(s, u) /\ Carries(s, u)
               /\ \A x \in Sessions \ Known(s) : u.kernels[x] = s.kernels[x]
               /\ u.process[k] # NoProc
               /\ u.child[u.process[k]].workspace = w /\ ~u.child[u.process[k]].stale
<1> DEFINE t == Prepared(s, k, w)
           u == EnsureKernelProcess(s, k, w)
<1>1. /\ Good(t) /\ Sheds(s, t) /\ Keeps(s, t)
      /\ t.process[k] # NoProc =>
            t.child[t.process[k]].workspace = w /\ ~t.child[t.process[k]].stale
  BY PreparedGood, PreparedSheds, PreparedServes
<1>2. s \in Supervisor /\ t \in Supervisor /\ Accounted(s)
  BY <1>1 DEF Good
<1>3. CASE t.process[k] # NoProc
  <2>1. u = t
    BY <1>3 DEF EnsureKernelProcess, NeedsSpawn
  <2> HIDE DEF t, u
  <2>2. Rotates(s, t, NoProc)
    BY <1>1, <1>2, ShedsRotates
  <2>3. QED BY <1>1, <1>3, <2>1, <2>2 DEF Sheds, Keeps, u
<1>4. CASE t.process[k] = NoProc
  <2> DEFINE p == CHOOSE q \in Unused(t) : TRUE
             fresh == [NoChild EXCEPT !.kernel = k, !.workspace = w, !.life = "live"]
  <2>1. u = [t EXCEPT !.process[k] = p, !.child[p] = fresh]
    BY <1>4 DEF EnsureKernelProcess, NeedsSpawn, Spawn
  <2>2. p \in Unused(t)
    BY <1>4 DEF CanEnsure, NeedsSpawn
  <2>3. fresh.workspace = w /\ ~fresh.stale
    BY DEF NoChild
  <2> HIDE DEF t, u, p, fresh
  <2>4. p \in Procs /\ p # NoProc /\ s.child[p].life = "none" /\ t.child[p].life = "none"
    BY <1>1, <2>2, ProcsAssumption DEF Keeps, Unused
  <2>5. p \notin Tracked(s)
    BY <1>2, <2>4 DEF Tracked, ActiveProcs, ParkedProcs, Accounted, ActiveMatches, ParkedMatches,
       RetiringMatches
  <2>6. p \notin t.retiring
    BY <1>1, <2>4 DEF Good, Accounted, RetiringMatches
  <2>7. /\ u.process = [t.process EXCEPT ![k] = p] /\ u.child = [t.child EXCEPT ![p] = fresh]
        /\ u.parked = t.parked /\ u.retiring = t.retiring /\ SameSessions(t, u)
    BY <1>2, <2>1 DEF Supervisor, SameSessions
  <2>8. u.process[k] = p /\ u.child[p] = fresh /\ \A q \in Procs \ {p} : u.child[q] = t.child[q]
    BY <1>2, <2>4, <2>7 DEF Supervisor
  <2>9. InRotation(u) = InRotation(t) \cup {p}
    BY <1>2, <1>4, <2>4, <2>7 DEF InRotation, ActiveProcs, ParkedProcs, Supervisor
  <2>10. Tracked(u) = Tracked(t) \cup {p} /\ Tracked(t) \subseteq Procs
    BY <1>2, <2>7, <2>9, TrackedProcs DEF Tracked, InRotation
  <2>11. Rotates(s, u, p)
    BY <1>1, <2>3, <2>4, <2>5, <2>7, <2>8, <2>9, <2>10 DEF Sheds, Rotates
  <2>12. Carries(s, u)
    BY <1>1, <1>2, <2>6, <2>7, <2>8 DEF Sheds, Carries, Supervisor
  <2>13. Forgets(s, u) /\ \A x \in Sessions \ Known(s) : u.kernels[x] = s.kernels[x]
    BY <1>1, <2>7 DEF Sheds, Keeps, Forgets, SameSessions
  <2>14. QED BY <2>3, <2>4, <2>8, <2>11, <2>12, <2>13 DEF u
<1>5. QED BY <1>3, <1>4

\* StopStaleSidecars.
LEMMA StopStaleSheds ==
    ASSUME NEW s, Good(s)
    PROVE  Sheds(s, StopStale(s))
<1> DEFINE stale(p) == p # NoProc /\ s.child[p].stale
           active == {k \in Kernels : stale(s.process[k])}
           parked == {key \in Keys : stale(s.parked[key])}
           t == StopActive(s, active)
           u == StopParked(t, parked)
           P == {p \in s.retiring : stale(p)}
<1>1. Good(t) /\ Sheds(s, t) /\ t.retiring = s.retiring
  <2>1. Good(t) /\ Sheds(s, t)
    BY StopActiveGood, StopActiveSheds
  <2>2. t.retiring = s.retiring
    BY DEF StopActive, Stop, Interrupt, ForgetSessions
  <2>3. QED BY <2>1, <2>2
<1>2. u.retiring = t.retiring
  BY DEF StopParked, Stop, Interrupt, ForgetSessions, TakeParked
<1> HIDE DEF t
<1>3. Good(u) /\ Sheds(t, u)
  BY <1>1, StopParkedGood, StopParkedSheds
<1>4. P \in SUBSET u.retiring
  BY <1>1, <1>2
<1>5. StopStale(s) = StopRetired(u, P)
  BY DEF StopStale, t
<1> HIDE DEF u, P
<1>6. Good(StopRetired(u, P)) /\ Sheds(u, StopRetired(u, P))
  BY <1>3, <1>4, StopRetiredGood, StopRetiredSheds
<1>7. Sheds(s, u)
  BY <1>1, <1>3, ShedsTrans DEF Good
<1>8. QED BY <1>3, <1>5, <1>6, <1>7, ShedsTrans DEF Good

\* RestartEngine.
LEMMA RestartedSheds ==
    ASSUME NEW s, Good(s), NEW x \in Sessions, NEW p \in Tracked(s)
    PROVE  Sheds(s, Restarted(s, x, p))
<1> DEFINE k == KernelOf(s, x)
           key == <<k, s.child[p].workspace>>
           carried == (s.child[p].retiredTurns \cap s.busy) \cup {x}
           forgotten == ForgetSessions(s, carried)
           killed == [forgotten EXCEPT !.notices = @ \cup carried,
                                       !.child[p].retired = TRUE,
                                       !.child[p].life = "dead"]
           stopped == CASE s.process[k] = p -> StopActive(s, {k})
                        [] s.process[k] # p /\ s.parked[key] = p -> StopParked(s, {key})
                        [] OTHER -> killed
           t == ForgetSessions(stopped, {x})
           u == [t EXCEPT !.notices = (@ \ {x}) \cup (s.notices \cap {x})]
<1>1. s \in Supervisor /\ p \in Procs /\ k \in Kernels /\ key \in Keys /\ Tracked(s) \subseteq Procs
  BY TrackedProcs, KernelOfType DEF Good, Accounted, AllPlaced, Keys
<1>2. Restarted(s, x, p) = u
  BY DEF Restarted
<1>3. Sheds(s, killed)
  <2>1. forgotten \in Supervisor /\ SamePlaces(s, forgotten) /\ Forgets(s, forgotten)
    BY <1>1, ForgetSessionsType, ForgetSessionsForgets
  <2> HIDE DEF forgotten, carried
  <2>2. /\ killed.process = s.process /\ killed.parked = s.parked /\ killed.retiring = s.retiring
        /\ killed.child = [s.child EXCEPT ![p].retired = TRUE, ![p].life = "dead"]
        /\ SameSessions(forgotten, killed)
    BY <2>1 DEF SamePlaces, SameSessions, Supervisor
  <2> HIDE DEF killed
  <2>3. \A q \in Procs : /\ killed.child[q].kernel = s.child[q].kernel
                         /\ killed.child[q].workspace = s.child[q].workspace
                         /\ killed.child[q].stale = s.child[q].stale
                         /\ killed.child[q].retiredTurns = s.child[q].retiredTurns
    BY <1>1, <2>2 DEF Supervisor, Child
  <2>4. InRotation(killed) = InRotation(s) /\ Tracked(killed) = Tracked(s)
    BY <2>2 DEF InRotation, Tracked, ActiveProcs, ParkedProcs
  <2>5. Forgets(s, killed)
    BY <2>1, <2>2 DEF Forgets, SameSessions
  <2>6. Carries(s, killed)
    BY <1>1, <2>2, <2>3 DEF Carries, Supervisor
  <2>7. QED BY <1>1, <2>2, <2>3, <2>4, <2>5, <2>6 DEF Sheds
<1>4. Sheds(s, stopped) /\ stopped \in Supervisor
  <2>1. CASE s.process[k] = p
    <3>1. stopped = StopActive(s, {k})
      BY <2>1
    <3> HIDE DEF stopped
    <3>2. QED BY <1>1, <3>1, StopActiveSheds, StopActiveGood DEF Good
  <2>2. CASE s.process[k] # p /\ s.parked[key] = p
    <3>1. stopped = StopParked(s, {key})
      BY <2>2
    <3> HIDE DEF stopped, key
    <3>2. QED BY <1>1, <3>1, StopParkedSheds, StopParkedGood DEF Good
  <2>3. CASE s.process[k] # p /\ s.parked[key] # p
    <3>1. stopped = killed
      BY <2>3
    <3>2. carried \in SUBSET Sessions
      BY <1>1 DEF Supervisor
    <3>3. killed \in Supervisor
      BY <3>2, KilledGood DEF Killed, Good
    <3> HIDE DEF stopped, killed
    <3>4. QED BY <1>3, <3>1, <3>3
  <2>4. QED BY <2>1, <2>2, <2>3
<1> HIDE DEF stopped
<1>5. t \in Supervisor /\ SamePlaces(stopped, t) /\ Forgets(stopped, t)
  BY <1>4, ForgetSessionsType, ForgetSessionsForgets
<1> HIDE DEF t
<1>6. u \in Supervisor /\ SamePlaces(stopped, u) /\ Forgets(stopped, u)
  BY <1>1, <1>5 DEF Supervisor, SamePlaces, Forgets
<1> HIDE DEF u
<1>7. Sheds(stopped, u)
  BY <1>4, <1>6, SamePlacesSheds
<1>8. QED BY <1>1, <1>2, <1>4, <1>6, <1>7, ShedsTrans

\* readEvents, after the end of file.
LEMMA ExitedSheds ==
    ASSUME NEW s, Good(s), NEW p \in Procs
    PROVE  Sheds(s, Exited(s, p))
<1>1. s \in Supervisor /\ Good(Exited(s, p)) /\ Removed(s, Exited(s, p), {p})
  BY ExitedGood DEF Good
<1> DEFINE c == s.child[p]
           key == <<c.kernel, c.workspace>>
           served == ServedBy(s, c.kernel, {c.workspace, NoWorkspace})
           research == IF c.kernel = KernelPi THEN served \cap (s.workers \cup s.runs) ELSE {}
           carried == {x \in c.retiredTurns \cap s.sessions : KernelOf(s, x) = c.kernel}
           told == IF c.retired THEN {} ELSE carried \cap Working(s)
           retired == Interrupt(TakeRetiring(s, {p}), told)
           cleared == [ForgetSessions(s, served) EXCEPT !.process[c.kernel] = NoProc,
                                                        !.notices = @ \cup research]
           gone == ServedBy(s, c.kernel, {c.workspace})
           dropped == Interrupt(TakeParked(s, {key}), gone)
           left == CASE p \in s.retiring -> retired
                     [] p \notin s.retiring /\ s.process[c.kernel] = p -> cleared
                     [] p \in ParkedProcs(s) -> dropped
                     [] OTHER -> s
<1>2. Exited(s, p) = [left EXCEPT !.child[p] = NoChild]
  BY DEF Exited
<1> HIDE DEF served, research, told, gone
<1>3. Forgets(s, retired)
  BY DEF Interrupt, ForgetSessions, TakeRetiring, Forgets
<1>4. Forgets(s, cleared)
  <2>1. Forgets(s, ForgetSessions(s, served))
    BY <1>1, ForgetSessionsForgets
  <2> DEFINE forgotten == ForgetSessions(s, served)
  <2>2. SameSessions(forgotten, cleared)
    BY DEF SameSessions, ForgetSessions
  <2>3. QED BY <2>1, <2>2 DEF SameSessions, Forgets
<1>5. Forgets(s, dropped)
  BY DEF Interrupt, ForgetSessions, TakeParked, Forgets
<1>6. Forgets(s, s)
  BY DEF Forgets
<1> HIDE DEF retired, cleared, dropped
<1>7. Forgets(s, left)
  BY <1>3, <1>4, <1>5, <1>6
<1> HIDE DEF left
<1>8. Forgets(s, Exited(s, p))
  BY <1>2, <1>7 DEF Forgets
<1>9. QED BY <1>1, <1>8, RemovedSheds DEF Good

-----------------------------------------------------------------------------
(* Every step rotates as promised.                                          *)

\* The record of a dispatch: with a sidecar for the workspace, ready to send.
Ensured(x, w) == EnsureKernelProcess(sup, KernelOf(sup, x), w)
Ready(x, w) == [Ensured(x, w) EXCEPT !.workspaces[x] = w]

\* SendMessage, taken apart: whether it is delivered or not, the record is the ready one but
\* for the sessions.
LEMMA SendReady ==
    ASSUME IInv, NEW x \in Sessions, NEW w \in Workspaces, SendMessage(x, w)
    PROVE  /\ Good(sup) /\ KernelOf(sup, x) \in Kernels /\ CanEnsure(sup, KernelOf(sup, x), w)
           /\ Good(Ensured(x, w)) /\ Good(Ready(x, w)) /\ SamePlaces(Ensured(x, w), Ready(x, w))
           /\ SamePlaces(Ready(x, w), sup') /\ sup' \in Supervisor
           /\ sup'.kernels = Ready(x, w).kernels /\ sup'.workspaces = Ready(x, w).workspaces
<1>1. Good(sup)
  BY IInvParts
<1>3. KernelOf(sup, x) \in Kernels /\ CanEnsure(sup, KernelOf(sup, x), w)
  BY <1>1, KernelOfType DEF Good, SendMessage
<1>4. Good(Ensured(x, w))
  BY <1>1, <1>3, EnsureKernelProcessGood DEF Ensured
<1>5. Ready(x, w) \in Supervisor /\ SamePlaces(Ensured(x, w), Ready(x, w))
  BY <1>4 DEF Good, Supervisor, SamePlaces, Ready
<1>6. Good(Ready(x, w))
  BY <1>4, <1>5, SamePlacesGood
<1>7. \/ sup' = [Ready(x, w) EXCEPT !.sessions = @ \cup {x}, !.busy = @ \cup {x}]
      \/ sup' = Ready(x, w)
  BY DEF SendMessage, Ready, Ensured
<1>8. /\ SamePlaces(Ready(x, w), sup') /\ sup' \in Supervisor
      /\ sup'.kernels = Ready(x, w).kernels /\ sup'.workspaces = Ready(x, w).workspaces
  <2> DEFINE ready == Ready(x, w)
             sent == [ready EXCEPT !.sessions = @ \cup {x}, !.busy = @ \cup {x}]
  <2> HIDE DEF ready
  <2>1. ready \in Supervisor
    BY <1>5 DEF ready
  <2>2. sent \in Supervisor
    BY <2>1 DEF Supervisor
  <2>3. /\ SamePlaces(ready, sent) /\ sent.kernels = ready.kernels
        /\ sent.workspaces = ready.workspaces
    BY <2>1 DEF SamePlaces, Supervisor
  <2>4. SamePlaces(ready, ready)
    BY DEF SamePlaces
  <2> HIDE DEF sent
  <2>5. sup' = sent \/ sup' = ready
    BY <1>7 DEF sent, ready
  <2>6. QED BY <2>1, <2>2, <2>3, <2>4, <2>5 DEF ready
<1>9. QED BY <1>1, <1>3, <1>4, <1>5, <1>6, <1>8

\* No process starts twice in a critical section.
Rotating == \E start \in Procs \cup {NoProc} : Rotates(sup, sup', start)

\* Only the sessions change.
LEMMA SamePlacesRotates ==
    ASSUME Good(sup), SamePlaces(sup, sup')
    PROVE  Rotating
<1>1. Rotates(sup, sup', NoProc)
  BY TrackedProcs, ProcsAssumption
     DEF Good, SamePlaces, Rotates, InRotation, Tracked, ActiveProcs, ParkedProcs
<1>2. QED BY <1>1 DEF Rotating

\* SendMessage, SendMessage without a process, RefreshBackgroundTasks.
LEMMA DispatchRotates ==
    ASSUME IInv, NEW x \in Sessions, NEW w \in Workspaces,
           SendMessage(x, w) \/ SendMessageSpawnFails(x, w) \/ RefreshBackgroundTasks(x, w)
    PROVE  Rotating
<1>1. Good(sup)
  BY IInvParts
<1>2. CASE SendMessage(x, w)
  <2>1. PICK start \in Procs \cup {NoProc} : Rotates(sup, Ensured(x, w), start)
    BY <1>2, SendReady, EnsureServes DEF Ensured
  <2>2. SamePlaces(Ensured(x, w), sup') /\ SamePlaces(sup, sup)
    BY <1>2, SendReady DEF SamePlaces
  <2>3. Rotates(sup, sup', start)
    BY <1>2, <2>1, <2>2, SendReady, RotatesPlaces
  <2>4. QED BY <2>3 DEF Rotating
<1>3. CASE SendMessageSpawnFails(x, w)
  <2> DEFINE k == KernelOf(sup, x)
  <2>1. sup' = Prepared(sup, k, w)
    BY <1>3 DEF SendMessageSpawnFails
  <2>2. k \in Kernels
    BY <1>1, KernelOfType DEF Good
  <2> HIDE DEF k
  <2>3. Rotates(sup, sup', NoProc)
    BY <1>1, <2>1, <2>2, PreparedGood, PreparedSheds, ShedsRotates DEF Good
  <2>4. QED BY <2>3 DEF Rotating
<1>4. CASE RefreshBackgroundTasks(x, w)
  <2> DEFINE k == KernelOf(sup, x)
  <2>1. k \in Kernels /\ CanEnsure(sup, k, w) /\ sup' = EnsureKernelProcess(sup, k, w)
    BY <1>1, <1>4, KernelOfType DEF Good, RefreshBackgroundTasks
  <2>2. QED BY <1>1, <2>1, EnsureServes DEF Rotating
<1>5. QED BY <1>2, <1>3, <1>4

\* A chain of operators that starts nothing.
LEMMA ShedsRotating ==
    ASSUME Good(sup), sup' \in Supervisor, Sheds(sup, sup')
    PROVE  Rotating
BY ShedsRotates DEF Good, Rotating

\* StopStaleSidecars, RestartEngine and the end of file.
LEMMA StopsRotate ==
    ASSUME IInv, \/ StopStaleSidecars
                 \/ \E x \in Sessions : RestartEngine(x)
                 \/ \E p \in Procs : ProcessExits(p)
    PROVE  Rotating
<1>1. Good(sup)
  BY IInvParts
<1>2. CASE StopStaleSidecars
  BY <1>1, <1>2, StopStaleGood, StopStaleSheds, ShedsRotating DEF StopStaleSidecars, Good
<1>3. ASSUME NEW x \in Sessions, RestartEngine(x)
      PROVE  Rotating
  <2> DEFINE p == ProcessForSession(sup, x)
  <2>1. p \in Tracked(sup) /\ sup' = Restarted(sup, x, p)
    BY <1>1, <1>3, ProcessForSessionTracked DEF RestartEngine, Good
  <2> HIDE DEF p
  <2>2. QED BY <1>1, <2>1, RestartedGood, RestartedSheds, ShedsRotating DEF Good
<1>4. ASSUME NEW p \in Procs, ProcessExits(p)
      PROVE  Rotating
  BY <1>1, <1>4, ExitedGood, ExitedSheds, ShedsRotating DEF ProcessExits, Good
<1>5. QED BY <1>2, <1>3, <1>4

\* A crash and the clock leave a process where it is.
LEMMA ClockRotates ==
    ASSUME IInv, NEW p \in Procs, Crash(p) \/ IdleTimeout(p) \/ BusyCeiling(p)
    PROVE  Rotating
<1>1. Good(sup)
  BY IInvParts
<1>2. /\ sup'.process = sup.process /\ sup'.parked = sup.parked /\ sup'.retiring = sup.retiring
      /\ \A q \in Procs : /\ sup'.child[q].kernel = sup.child[q].kernel
                          /\ sup'.child[q].workspace = sup.child[q].workspace
                          /\ sup'.child[q].stale = sup.child[q].stale
  <2>1. PICK c \in {[sup.child[p] EXCEPT !.life = "dead"], [sup.child[p] EXCEPT !.idle = TRUE],
                    [sup.child[p] EXCEPT !.pastCeiling = TRUE]} :
              sup' = [sup EXCEPT !.child = [sup.child EXCEPT ![p] = c]]
    BY <1>1 DEF Crash, IdleTimeout, BusyCeiling, Good, Supervisor
  <2>2. /\ c.kernel = sup.child[p].kernel /\ c.workspace = sup.child[p].workspace
        /\ c.stale = sup.child[p].stale
    BY <1>1, <2>1 DEF Good, Supervisor, Child
  <2>3. QED BY <1>1, <2>1, <2>2 DEF Good, Supervisor
<1>3. InRotation(sup') = InRotation(sup) /\ Tracked(sup') = Tracked(sup) /\ Tracked(sup) \subseteq Procs
  BY <1>1, <1>2, TrackedProcs DEF Good, InRotation, Tracked, ActiveProcs, ParkedProcs
<1>4. Rotates(sup, sup', NoProc)
  BY <1>2, <1>3 DEF Rotates
<1>5. QED BY <1>4 DEF Rotating

\* What changes the sessions only.
LEMMA SessionsRotate ==
    ASSUME IInv, NEW x \in Sessions, NEW y \in Sessions,
           \/ \E w \in Workspaces : BindSessionKernel(x, w)
           \/ RelayMessage(x) \/ DetachSession(x) \/ DestroySession(x) \/ EndProbe(x)
           \/ TrackResearchRun(x) \/ UntrackResearchRun(x) \/ RecoveryEnds(x) \/ StartProbe(x)
           \/ (\E w \in Workspaces : RecoverSession(x, w)) \/ ForkAnswered(x, y) \/ DeliverNotice(x)
    PROVE  Rotating
<1>1. sup \in Supervisor
  BY IInvParts DEF Good
<1>2. SamePlaces(sup, sup')
  <2>1. CASE RelayMessage(x) \/ TrackResearchRun(x) \/ UntrackResearchRun(x) \/ RecoveryEnds(x)
    BY <1>1, <2>1
       DEF RelayMessage, TrackResearchRun, UntrackResearchRun, RecoveryEnds, SamePlaces, Supervisor
  <2>2. CASE DetachSession(x) \/ DestroySession(x) \/ EndProbe(x)
    BY <1>1, <2>2 DEF DetachSession, DestroySession, EndProbe, ForgetSessions, SamePlaces, Supervisor
  <2>3. CASE StartProbe(x) \/ (\E w \in Workspaces : RecoverSession(x, w))
              \/ ForkAnswered(x, y) \/ DeliverNotice(x)
    BY <1>1, <2>3 DEF StartProbe, RecoverSession, ForkAnswered, DeliverNotice, SamePlaces, Supervisor
  <2>4. CASE \E w \in Workspaces : BindSessionKernel(x, w)
    BY <1>1, <2>4 DEF BindSessionKernel, BindKernel, SamePlaces, Supervisor
  <2>5. QED BY <2>1, <2>2, <2>3, <2>4
<1>3. QED BY <1>2, SamePlacesRotates, IInvParts

\* A line of output changes what is known of its session.
LEMMA ReadRotates ==
    ASSUME IInv, NEW p \in Procs, ReadEvent(p)
    PROVE  Rotating
<1> DEFINE e == Head(bridge[p].out)
<1>1. sup \in Supervisor /\ sup' = Observed(sup, e)
  BY IInvParts DEF Good, ReadEvent
<1> HIDE DEF e
<1>2. SamePlaces(sup, sup')
  BY <1>1 DEF Observed, SamePlaces, Supervisor
<1>3. QED BY <1>2, SamePlacesRotates, IInvParts

\* What the sidecars do by themselves, and the commands the Supervisor only passes on.
LEMMA SidecarsRotate ==
    ASSUME IInv, NEW x \in Sessions,
           \/ AbortMessage(x) \/ ForceStop(x) \/ ContinueBusy(x)
           \/ \E y \in Sessions : ForkSession(x, y) \/ ForkTimesOut(x, y)
           \/ \E p \in Procs : \/ ModelCallFails(p, x) \/ WorkersStart(p, x) \/ WorkersEnd(p, x)
                             \/ TurnWorks(p, x) \/ TurnSettles(p, x) \/ TurnFails(p, x)
    PROVE  Rotating
<1>1. sup' = sup
  BY DEF AbortMessage, ForceStop, ModelCallFails, ContinueBusy, ForkSession, ForkTimesOut,
     WorkersStart, WorkersEnd, TurnWorks, TurnSettles, TurnFails, TurnEnds
<1>2. SamePlaces(sup, sup')
  BY <1>1 DEF SamePlaces
<1>3. QED BY <1>2, SamePlacesRotates, IInvParts

\* InvalidateCredentials is the other action of the abstract specification.
LEMMA InvalidateRevokes ==
    ASSUME IInv, InvalidateCredentials
    PROVE  Abstract!Revoke
<1> DEFINE child == [p \in Procs |-> [sup.child[p] EXCEPT !.stale = @ \/ p \in Tracked(sup)]]
<1>1. Good(sup) /\ sup \in Supervisor /\ sup' = [sup EXCEPT !.child = child]
  BY IInvParts DEF Good, InvalidateCredentials
<1>2. \A p \in Procs : /\ child[p].workspace = sup.child[p].workspace
                       /\ child[p].stale <=> sup.child[p].stale \/ p \in Tracked(sup)
  <2> TAKE p \in Procs
  <2>1. sup.child[p] \in Child
    BY <1>1 DEF Supervisor
  <2>2. QED BY <2>1 DEF Child
<1> HIDE DEF child
<1>3. /\ sup'.process = sup.process /\ sup'.parked = sup.parked /\ sup'.retiring = sup.retiring
      /\ sup'.child = child /\ Tracked(sup) \subseteq Procs
  BY <1>1, TrackedProcs DEF Supervisor
<1>4. Tracked(sup') = Tracked(sup)
  BY <1>3 DEF Tracked, ActiveProcs, ParkedProcs
<1>5. Revoked(sup') = InRotation(sup) \cup sup.retiring
  BY <1>2, <1>3, <1>4 DEF Revoked, InRotation, Tracked
<1>6. Serving(sup') = Serving(sup)
  <2>1. ASSUME NEW key \in Keys
        PROVE  ServingProcess(sup', key) = ServingProcess(sup, key)
    <3>1. sup.process[key[1]] \in Procs \cup {NoProc}
      BY <1>1 DEF Supervisor, Keys
    <3>2. QED BY <1>2, <1>3, <3>1 DEF ServingProcess
  <2>2. QED BY <2>1 DEF Serving
<1>7. Abstract!Serving = InRotation(sup)
  <2>1. Abstract!Serving = {Serving(sup)[key] : key \in Keys} \ {NoProc}
    BY DEF Abstract!Serving, Serving
  <2>2. QED BY <1>1, <2>1, ServingIs, ProcsAssumption, TrackedProcs DEF InRotation, Tracked
<1>8. Serving(sup)' = Serving(sup) /\ sup.retiring' = sup.retiring
      /\ Revoked(sup)' = Abstract!Serving \cup sup.retiring
  BY <1>3, <1>5, <1>6, <1>7
<1>9. QED BY <1>8, Zenon DEF Abstract!Revoke, Serving, Revoked

\* No other step invalidates credentials.
LEMMA NextRotating ==
    ASSUME IInv, [Next]_vars, ~Rotation
    PROVE  Rotating
<1>1. CASE Sends \/ SpawnFailures
  BY <1>1, DispatchRotates DEF Sends, SpawnFailures
<1>2. CASE Aborts \/ Streams \/ TurnEndings
  BY <1>2, SidecarsRotate DEF Aborts, Streams, TurnEndings
<1>3. CASE Binds \/ Relays \/ Removals
  BY <1>3, SessionsRotate, SidecarsRotate DEF Binds, Relays, Removals
<1>4. CASE Research \/ Recovery
  <2>1. CASE Research
    BY <2>1, SessionsRotate, SidecarsRotate DEF Research
  <2>2. CASE Recovery
    BY <2>2, SessionsRotate, DispatchRotates DEF Recovery
  <2>3. QED BY <1>4, <2>1, <2>2
<1>5. CASE ProbesAndForks
  BY <1>5, SessionsRotate, SidecarsRotate DEF ProbesAndForks
<1>6. CASE Ceilings \/ Crashes \/ Idling
  BY <1>6, ClockRotates DEF Ceilings, Crashes, Idling
<1>7. CASE Revocation \/ Restarts
  BY <1>7, StopsRotate DEF Revocation, Restarts
<1>8. CASE Readers
  BY <1>8, ReadRotates, StopsRotate, SessionsRotate DEF Readers
<1>9. CASE UNCHANGED vars
  <2>1. SamePlaces(sup, sup')
    BY <1>9 DEF vars, SamePlaces
  <2>2. QED BY <2>1, SamePlacesRotates, IInvParts
<1>10. QED BY <1>1, <1>2, <1>3, <1>4, <1>5, <1>6, <1>7, <1>8, <1>9 DEF Next

\* Every step maps to a step of the abstract specification, or to none.
LEMMA NextRotates ==
    ASSUME IInv, IInv', [Next]_vars
    PROVE  [Abstract!Next]_Abstract!vars
<1>1. CASE Rotation
  BY <1>1, InvalidateRevokes DEF Rotation, Abstract!Next
<1>2. CASE ~Rotation
  <2>1. PICK start \in Procs \cup {NoProc} : Rotates(sup, sup', start)
    BY <1>2, NextRotating DEF Rotating
  <2>2. QED BY <2>1, RotatesStep, IInvParts, IInvPartsNext
<1>3. QED BY <1>1, <1>2

\* The Supervisor's processes enter and leave rotation as SidecarRotation allows: in each
\* critical section at most one process starts, in a place that is free then; a process that
\* retires had replaced credentials, and none that retires or ended serves again.
THEOREM RotationImplemented == Spec => RotatesAsPromised
<1>1. Init => Abstract!Init
  <2> SUFFICES ASSUME Init PROVE Abstract!Init
    OBVIOUS
  <2>1. sup = NewSupervisor /\ Tracked(sup) = {}
    BY DEF Init, NewSupervisor, Tracked, ActiveProcs, ParkedProcs
  <2>2. \A key \in Keys : ServingProcess(sup, key) = NoProc
    BY <2>1 DEF ServingProcess, NewSupervisor, Keys
  <2>3. QED BY <2>1, <2>2 DEF Abstract!Init, NewSupervisor
<1>2. IInv /\ [Next]_vars => IInv'
  BY NextIInv
<1>3. IInv /\ IInv' /\ [Next]_vars => [Abstract!Next]_Abstract!vars
  BY NextRotates
<1>4. QED BY InitIInv, <1>1, <1>2, <1>3, PTL DEF Spec, RotatesAsPromised, Abstract!Spec

-----------------------------------------------------------------------------
(* The kernel of a conversation.                                            *)

\* Turns and runs are of known sessions; only research sessions have workers.
SessionsKept(s) == s.busy \cup s.runs \subseteq s.sessions /\ s.workers \subseteq Researchers

\* A session is bound to the kernel of its conversation, or forks from a Pi session.
KernelsKept(s) ==
    \A x \in Sessions : \/ s.kernels[x] \in {NoKernel, ConversationKernel[x]}
                        \/ x \in Forks /\ s.kernels[x] = KernelPi

\* So is what a retiring process carries, unless the session was forgotten before it retired.
TurnsKept(s) ==
    \A p \in s.retiring : \A x \in s.child[p].retiredTurns :
        s.child[p].kernel \in {KernelPi, ConversationKernel[x]}

OnKernel(s) == SessionsKept(s) /\ KernelsKept(s) /\ TurnsKept(s)

\* A fork asks for its own kernel, and is no origin of others before it is answered.
ForksKept ==
    \A fork \in forks : /\ fork[2] \in Forks /\ fork[1] \notin Forks
                        /\ ConversationKernel[fork[2]] = ConversationKernel[fork[1]]

KernelInv == IInv /\ OnKernel(sup) /\ ForksKept

\* What is on its way is no probe.
SendsKept == \A send \in sends : send[1] \notin Probes

\* A chain of operators keeps it.
LEMMA RotatesOnKernel ==
    ASSUME NEW s, Good(s), OnKernel(s), NEW t, Good(t), NEW start \in Procs \cup {NoProc},
           Rotates(s, t, start), Forgets(s, t), Carries(s, t)
    PROVE  OnKernel(t)
<1>1. SessionsKept(t)
  BY DEF OnKernel, SessionsKept, Forgets
<1>2. KernelsKept(t)
  BY DEF OnKernel, KernelsKept, Forgets
<1>3. ASSUME NEW p \in t.retiring, NEW x \in t.child[p].retiredTurns
      PROVE  t.child[p].kernel \in {KernelPi, ConversationKernel[x]}
  <2>1. p \in Tracked(t) \ {start} /\ p \in Procs
    <3>1. p \in Procs /\ p \notin InRotation(t)
      BY DEF Good, Supervisor, Accounted, PlacesDisjoint, InRotation
    <3>2. start # NoProc => start \in InRotation(t)
      BY DEF Rotates
    <3>3. QED BY <3>1, <3>2, ProcsAssumption DEF Tracked
  <2>2. t.child[p].kernel = s.child[p].kernel
    BY <2>1 DEF Rotates
  <2>3. x \in Sessions /\ s.child[p].kernel \in Kernels
    BY <2>1 DEF Good, Supervisor, Child
  <2>4. CASE p \in s.retiring /\ x \in s.child[p].retiredTurns
    BY <2>2, <2>4 DEF OnKernel, TurnsKept
  <2>5. CASE s.child[p].kernel \in {KernelPi, s.kernels[x]}
    BY <2>2, <2>3, <2>5, KernelsAssumption DEF OnKernel, KernelsKept
  <2>6. QED BY <2>4, <2>5 DEF Carries
<1>4. QED BY <1>1, <1>2, <1>3 DEF OnKernel, TurnsKept

LEMMA ShedsOnKernel ==
    ASSUME NEW s, Good(s), OnKernel(s), NEW t, Good(t), Sheds(s, t)
    PROVE  OnKernel(t)
BY ShedsRotates, RotatesOnKernel DEF Good, Sheds

\* Only the places matter to what retires.
LEMMA SamePlacesOnKernel ==
    ASSUME NEW s, OnKernel(s), NEW t, SamePlaces(s, t), SessionsKept(t), KernelsKept(t)
    PROVE  OnKernel(t)
BY DEF OnKernel, TurnsKept, SamePlaces

\* The first half of a message: afterwards the conversation has a kernel.
LEMMA BindOnKernel ==
    ASSUME sup \in Supervisor, OnKernel(sup), NEW x \in Sessions, NEW w \in Workspaces,
           BindSessionKernel(x, w)
    PROVE  /\ OnKernel(sup') /\ sup'.kernels[x] # NoKernel
           /\ \A y \in Sessions \ {x} : sup'.kernels[y] = sup.kernels[y]
<1>1. /\ SamePlaces(sup, sup') /\ sup'.sessions = sup.sessions
      /\ sup'.busy = sup.busy /\ sup'.runs = sup.runs /\ sup'.workers = sup.workers
      /\ sup'.kernels = [sup.kernels EXCEPT ![x] = IF @ = NoKernel THEN ConversationKernel[x]
                                                   ELSE @]
  BY DEF BindSessionKernel, BindKernel, SamePlaces, Supervisor
<1>2. /\ sup'.kernels[x] # NoKernel
      /\ sup'.kernels[x] \in {sup.kernels[x], ConversationKernel[x]}
      /\ \A y \in Sessions \ {x} : sup'.kernels[y] = sup.kernels[y]
  BY <1>1, ConversationsAssumption, KernelsAssumption DEF Supervisor
<1>3. SessionsKept(sup') /\ KernelsKept(sup')
  BY <1>1, <1>2 DEF OnKernel, SessionsKept, KernelsKept
<1>4. QED BY <1>1, <1>2, <1>3, SamePlacesOnKernel

\* The dispatches.
LEMMA DispatchOnKernel ==
    ASSUME IInv, OnKernel(sup), IInv', NEW x \in Sessions, NEW w \in Workspaces,
           SendMessage(x, w) \/ SendMessageSpawnFails(x, w) \/ RefreshBackgroundTasks(x, w)
    PROVE  OnKernel(sup')
<1>1. Good(sup) /\ Good(sup')
  BY IInvParts, IInvPartsNext
<1>2. CASE SendMessage(x, w)
  <2>1. OnKernel(Ensured(x, w))
    BY <1>1, <1>2, SendReady, EnsureServes, RotatesOnKernel DEF Ensured
  <2>2. /\ Ready(x, w).sessions = Ensured(x, w).sessions /\ Ready(x, w).busy = Ensured(x, w).busy
        /\ Ready(x, w).runs = Ensured(x, w).runs /\ Ready(x, w).workers = Ensured(x, w).workers
        /\ Ready(x, w).kernels = Ensured(x, w).kernels
    BY <1>2, SendReady DEF Ready, Good, Supervisor
  <2>3. \/ sup' = [Ready(x, w) EXCEPT !.sessions = @ \cup {x}, !.busy = @ \cup {x}]
        \/ sup' = Ready(x, w)
    BY <1>2 DEF SendMessage, Ready, Ensured
  <2>4. Ready(x, w) \in Supervisor /\ SamePlaces(Ensured(x, w), sup')
    BY <1>2, SendReady DEF Good, SamePlaces
  <2>5. SessionsKept(sup')
    <3>1. SessionsKept(Ready(x, w))
      BY <2>1, <2>2 DEF OnKernel, SessionsKept
    <3> DEFINE ready == Ready(x, w)
               sent == [ready EXCEPT !.sessions = @ \cup {x}, !.busy = @ \cup {x}]
    <3> HIDE DEF ready
    <3>2. /\ sent.sessions = ready.sessions \cup {x} /\ sent.busy = ready.busy \cup {x}
          /\ sent.runs = ready.runs /\ sent.workers = ready.workers
      BY <2>4 DEF Supervisor, ready
    <3> HIDE DEF sent
    <3>3. SessionsKept(sent) /\ SessionsKept(ready)
      BY <3>1, <3>2 DEF SessionsKept, ready
    <3>4. QED BY <2>3, <3>3 DEF sent, ready
  <2>6. KernelsKept(sup')
    BY <1>2, <2>1, <2>2, SendReady DEF OnKernel, KernelsKept
  <2>7. QED BY <2>1, <2>4, <2>5, <2>6, SamePlacesOnKernel
<1>3. CASE SendMessageSpawnFails(x, w)
  <2> DEFINE k == KernelOf(sup, x)
  <2>1. sup' = Prepared(sup, k, w)
    BY <1>3 DEF SendMessageSpawnFails
  <2>2. k \in Kernels
    BY <1>1, KernelOfType DEF Good
  <2> HIDE DEF k
  <2>3. QED BY <1>1, <2>1, <2>2, PreparedSheds, ShedsOnKernel
<1>4. CASE RefreshBackgroundTasks(x, w)
  <2> DEFINE k == KernelOf(sup, x)
  <2>1. k \in Kernels /\ CanEnsure(sup, k, w) /\ sup' = EnsureKernelProcess(sup, k, w)
    BY <1>1, <1>4, KernelOfType DEF Good, RefreshBackgroundTasks
  <2> HIDE DEF k
  <2>2. QED BY <1>1, <2>1, EnsureServes, RotatesOnKernel
<1>5. QED BY <1>2, <1>3, <1>4

\* The stops, and the marks on processes.
LEMMA StopsOnKernel ==
    ASSUME IInv, OnKernel(sup), IInv',
           \/ StopStaleSidecars \/ InvalidateCredentials
           \/ \E x \in Sessions : RestartEngine(x)
           \/ \E p \in Procs : ProcessExits(p) \/ Crash(p) \/ IdleTimeout(p) \/ BusyCeiling(p)
    PROVE  OnKernel(sup')
<1>1. Good(sup) /\ Good(sup') /\ sup \in Supervisor
  BY IInvParts, IInvPartsNext DEF Good
<1>2. CASE StopStaleSidecars
  BY <1>1, <1>2, StopStaleSheds, ShedsOnKernel DEF StopStaleSidecars
<1>3. ASSUME NEW x \in Sessions, RestartEngine(x)
      PROVE  OnKernel(sup')
  <2> DEFINE p == ProcessForSession(sup, x)
  <2>1. p \in Tracked(sup) /\ sup' = Restarted(sup, x, p)
    BY <1>1, <1>3, ProcessForSessionTracked DEF RestartEngine
  <2> HIDE DEF p
  <2>2. QED BY <1>1, <2>1, RestartedSheds, ShedsOnKernel
<1>4. ASSUME NEW p \in Procs, ProcessExits(p)
      PROVE  OnKernel(sup')
  BY <1>1, <1>4, ExitedSheds, ShedsOnKernel DEF ProcessExits
<1>5. CASE InvalidateCredentials \/ \E p \in Procs : Crash(p) \/ IdleTimeout(p) \/ BusyCeiling(p)
  <2>1. /\ sup'.retiring = sup.retiring /\ sup'.kernels = sup.kernels /\ sup'.busy = sup.busy
        /\ sup'.sessions = sup.sessions /\ sup'.runs = sup.runs /\ sup'.workers = sup.workers
    BY <1>1, <1>5 DEF InvalidateCredentials, Crash, IdleTimeout, BusyCeiling, Supervisor
  <2>2. \A p \in Procs : /\ sup'.child[p].kernel = sup.child[p].kernel
                         /\ sup'.child[p].retiredTurns = sup.child[p].retiredTurns
    <3>1. CASE InvalidateCredentials
      BY <1>1, <3>1 DEF InvalidateCredentials, Supervisor, Child
    <3>2. ASSUME NEW p \in Procs, Crash(p) \/ IdleTimeout(p) \/ BusyCeiling(p)
          PROVE  \A q \in Procs : /\ sup'.child[q].kernel = sup.child[q].kernel
                                  /\ sup'.child[q].retiredTurns = sup.child[q].retiredTurns
      <4>1. PICK c \in {[sup.child[p] EXCEPT !.life = "dead"], [sup.child[p] EXCEPT !.idle = TRUE],
                        [sup.child[p] EXCEPT !.pastCeiling = TRUE]} :
                  sup' = [sup EXCEPT !.child = [sup.child EXCEPT ![p] = c]]
        BY <1>1, <3>2 DEF Crash, IdleTimeout, BusyCeiling, Supervisor
      <4>2. c.kernel = sup.child[p].kernel /\ c.retiredTurns = sup.child[p].retiredTurns
        BY <1>1, <4>1 DEF Supervisor, Child
      <4>3. QED BY <1>1, <4>1, <4>2 DEF Supervisor
    <3>3. QED BY <1>5, <3>1, <3>2
  <2>3. QED BY <1>1, <2>1, <2>2 DEF OnKernel, SessionsKept, KernelsKept, TurnsKept, Supervisor
<1>6. QED BY <1>2, <1>3, <1>4, <1>5

\* The sessions.
LEMMA SessionsOnKernel ==
    ASSUME IInv, OnKernel(sup), IInv', NEW x \in Sessions,
           \/ RelayMessage(x) \/ DetachSession(x) \/ DestroySession(x) \/ EndProbe(x)
           \/ TrackResearchRun(x) \/ UntrackResearchRun(x) \/ RecoveryEnds(x) \/ StartProbe(x)
           \/ (\E w \in Workspaces : RecoverSession(x, w)) \/ DeliverNotice(x)
    PROVE  OnKernel(sup')
<1>1. sup \in Supervisor
  BY IInvParts DEF Good
<1>2. SamePlaces(sup, sup') /\ SessionsKept(sup') /\ KernelsKept(sup')
  <2>1. CASE DetachSession(x) \/ DestroySession(x) \/ EndProbe(x)
    <3> DEFINE t == ForgetSessions(sup, {x})
    <3>1. t \in Supervisor /\ SamePlaces(sup, t) /\ Forgets(sup, t)
      BY <1>1, ForgetSessionsType, ForgetSessionsForgets
    <3>2. sup' = t \/ sup' = [t EXCEPT !.waiters = @ \ {x}]
      BY <2>1 DEF DetachSession, DestroySession, EndProbe
    <3> HIDE DEF t
    <3>3. SamePlaces(sup, sup') /\ Forgets(sup, sup')
      BY <3>1, <3>2 DEF Supervisor, SamePlaces, Forgets
    <3>4. QED BY <3>3 DEF Forgets, OnKernel, SessionsKept, KernelsKept
  <2>2. CASE RelayMessage(x) \/ TrackResearchRun(x) \/ UntrackResearchRun(x)
    <3>1. PICK t \in {[sup EXCEPT !.busy = @ \cup {x}], [sup EXCEPT !.runs = @ \cup {x}],
                      [sup EXCEPT !.runs = @ \ {x}]} : sup' = t
      BY <2>2 DEF RelayMessage, TrackResearchRun, UntrackResearchRun
    <3>2. UntrackResearchRun(x) \/ x \in sup.sessions
      BY <2>2 DEF RelayMessage, TrackResearchRun, OnKernel, SessionsKept
    <3>3. SamePlaces(sup, sup') /\ sup'.sessions = sup.sessions /\ sup'.workers = sup.workers
          /\ sup'.kernels = sup.kernels
      BY <1>1, <3>1 DEF SamePlaces, Supervisor
    <3>4. sup'.busy \cup sup'.runs \subseteq sup.busy \cup sup.runs \cup {x}
      BY <1>1, <3>1 DEF Supervisor
    <3>5. UntrackResearchRun(x) => sup'.busy \cup sup'.runs \subseteq sup.busy \cup sup.runs
      BY <1>1 DEF UntrackResearchRun, Supervisor
    <3>6. QED BY <3>2, <3>3, <3>4, <3>5 DEF OnKernel, SessionsKept, KernelsKept
  <2>3. CASE RecoveryEnds(x) \/ StartProbe(x) \/ (\E w \in Workspaces : RecoverSession(x, w))
             \/ DeliverNotice(x)
    <3>1. sup' \in {[sup EXCEPT !.waiters = @ \ {x}], [sup EXCEPT !.waiters = @ \cup {x}],
                   [sup EXCEPT !.sessions = @ \cup {x}, !.waiters = @ \cup {x}],
                   [sup EXCEPT !.notices = @ \ {x}]}
      BY <2>3 DEF RecoveryEnds, StartProbe, RecoverSession, DeliverNotice
    <3>2. SamePlaces(sup, sup') /\ sup.sessions \subseteq sup'.sessions
      BY <1>1, <3>1 DEF SamePlaces, Supervisor
    <3>3. /\ sup'.workers = sup.workers /\ sup'.kernels = sup.kernels
          /\ sup'.busy = sup.busy /\ sup'.runs = sup.runs
      BY <1>1, <3>1 DEF Supervisor
    <3>4. QED BY <3>2, <3>3 DEF OnKernel, SessionsKept, KernelsKept
  <2>4. QED BY <2>1, <2>2, <2>3
<1>3. QED BY <1>2, SamePlacesOnKernel

\* rememberForkedSessionLocked: the fork is on the kernel of its origin.
LEMMA ForkOnKernel ==
    ASSUME KernelInv, NEW x \in Sessions, NEW y \in Sessions, ForkAnswered(x, y)
    PROVE  OnKernel(sup')
<1>1. sup \in Supervisor
  BY IInvParts DEF KernelInv, Good
<1>2. y \in Forks /\ x \notin Forks /\ ConversationKernel[y] = ConversationKernel[x]
  BY DEF ForkAnswered, KernelInv, ForksKept
<1>3. KernelOf(sup, x) \in {KernelPi, ConversationKernel[y]}
  BY <1>2 DEF KernelInv, OnKernel, KernelsKept, KernelOf
<1>4. SamePlaces(sup, sup') /\ SessionsKept(sup')
  BY <1>1 DEF ForkAnswered, SamePlaces, Supervisor, KernelInv, OnKernel, SessionsKept
<1>5. sup'.kernels = [sup.kernels EXCEPT ![y] = KernelOf(sup, x)]
  BY <1>1 DEF ForkAnswered, Supervisor
<1>6. KernelsKept(sup')
  BY <1>1, <1>2, <1>3, <1>5 DEF KernelInv, OnKernel, KernelsKept, Supervisor
<1>7. QED BY <1>4, <1>6, SamePlacesOnKernel DEF KernelInv

\* One line of output: only those of research sessions speak of workers.
LEMMA ReadOnKernel ==
    ASSUME IInv, OnKernel(sup), NEW p \in Procs, ReadEvent(p)
    PROVE  OnKernel(sup')
<1> DEFINE e == Head(bridge[p].out)
<1>1. sup \in Supervisor /\ sup' = Observed(sup, e)
  BY IInvParts DEF Good, ReadEvent
<1>2. e \in Events
  <2>1. bridge[p].out \in Seq(Events) /\ bridge[p].out # <<>>
    BY IInvParts, BridgeParts DEF ReadEvent
  <2>2. QED BY <2>1
<1> HIDE DEF e
<1>3. e.kind = "workers" => e.session \in Researchers
  BY <1>2 DEF Events
<1>4. SamePlaces(sup, sup')
  BY <1>1 DEF Observed, SamePlaces, Supervisor
<1>5. SessionsKept(sup') /\ KernelsKept(sup')
  BY <1>1, <1>3 DEF Observed, Supervisor, OnKernel, SessionsKept, KernelsKept
<1>6. QED BY <1>4, <1>5, SamePlacesOnKernel

\* Every step keeps it.
LEMMA NextKernelInv == KernelInv /\ [Next]_vars => KernelInv'
<1> SUFFICES ASSUME KernelInv, [Next]_vars PROVE KernelInv'
  OBVIOUS
<1>1. IInv /\ OnKernel(sup) /\ IInv'
  BY NextIInv DEF KernelInv
<1>2. OnKernel(sup')
  <2>1. CASE Sends \/ SpawnFailures
    BY <1>1, <2>1, DispatchOnKernel DEF Sends, SpawnFailures
  <2>2. CASE Recovery
    BY <1>1, <2>2, DispatchOnKernel, SessionsOnKernel DEF Recovery
  <2>3. CASE Rotation \/ Ceilings \/ Revocation \/ Restarts \/ Crashes \/ Idling
    BY <1>1, <2>3, StopsOnKernel DEF Rotation, Ceilings, Revocation, Restarts, Crashes, Idling
  <2>4. CASE Readers
    BY <1>1, <2>4, ReadOnKernel, StopsOnKernel, SessionsOnKernel DEF Readers
  <2>5. CASE Aborts \/ Streams \/ TurnEndings
    <3>1. sup' = sup
      BY <2>5 DEF Aborts, Streams, TurnEndings, AbortMessage, ForceStop, ModelCallFails, TurnWorks,
         TurnSettles, TurnFails, TurnEnds
    <3>2. QED BY <1>1, <3>1
  <2>6. CASE Relays \/ Removals
    <3>1. ASSUME NEW x \in Sessions, ContinueBusy(x) PROVE sup' = sup
      BY <3>1 DEF ContinueBusy
    <3>2. QED BY <1>1, <2>6, <3>1, SessionsOnKernel DEF Relays, Removals
  <2>7. CASE Research
    <3>1. ASSUME NEW p \in Procs, NEW x \in Sessions, WorkersStart(p, x) \/ WorkersEnd(p, x)
          PROVE  sup' = sup
      BY <3>1 DEF WorkersStart, WorkersEnd
    <3>2. QED BY <1>1, <2>7, <3>1, SessionsOnKernel DEF Research
  <2>8. CASE ProbesAndForks
    <3>1. ASSUME NEW x \in Sessions, NEW y \in Sessions, ForkSession(x, y) \/ ForkTimesOut(x, y)
          PROVE  sup' = sup
      BY <3>1 DEF ForkSession, ForkTimesOut
    <3>2. QED BY <1>1, <2>8, <3>1, SessionsOnKernel, ForkOnKernel DEF ProbesAndForks
  <2>9. CASE UNCHANGED vars
    <3>1. sup' = sup
      BY <2>9 DEF vars
    <3>2. QED BY <1>1, <3>1
  <2>10. CASE Binds
    <3>1. sup \in Supervisor
      BY <1>1, IInvParts DEF Good
    <3>2. QED BY <1>1, <2>10, <3>1, BindOnKernel DEF Binds
  <2>11. QED BY <2>1, <2>2, <2>3, <2>4, <2>5, <2>6, <2>7, <2>8, <2>9, <2>10 DEF Next
<1>3. ForksKept'
  <2>1. CASE ProbesAndForks
    <3>1. ASSUME NEW x \in Sessions, NEW y \in Sessions, ForkSession(x, y)
          PROVE  ForksKept'
      BY <3>1 DEF ForkSession, KernelInv, ForksKept
    <3>2. ASSUME NEW x \in Sessions, NEW y \in Sessions, ForkAnswered(x, y) \/ ForkTimesOut(x, y)
          PROVE  ForksKept'
      BY <3>2 DEF ForkAnswered, ForkTimesOut, KernelInv, ForksKept
    <3>3. ASSUME NEW x \in Sessions, StartProbe(x) \/ EndProbe(x)
          PROVE  ForksKept'
      BY <3>3 DEF StartProbe, EndProbe, Dispose, KernelInv, ForksKept
    <3>4. QED BY <2>1, <3>1, <3>2, <3>3 DEF ProbesAndForks
  <2>2. CASE ~ProbesAndForks
    <3>1. CASE Binds \/ Sends \/ SpawnFailures \/ Aborts \/ Relays \/ Removals \/ Research \/ Recovery
      BY <3>1 DEF Binds, BindSessionKernel, Sends, SendMessage, SpawnFailures,
         SendMessageSpawnFails, Aborts, AbortMessage, ForceStop, ModelCallFails, Relays, RelayMessage, ContinueBusy, Removals, DetachSession,
         DestroySession, Dispose, Research, TrackResearchRun, UntrackResearchRun, WorkersStart,
         WorkersEnd, Recovery, RefreshBackgroundTasks, RecoverSession, RecoveryEnds, KernelInv,
         ForksKept
    <3>2. CASE Rotation \/ Ceilings \/ Revocation \/ Restarts \/ Streams \/ TurnEndings \/ Crashes
               \/ Idling \/ Readers \/ UNCHANGED vars
      BY <3>2 DEF Rotation, InvalidateCredentials, Ceilings, BusyCeiling, Revocation,
         StopStaleSidecars, Restarts, RestartEngine, Streams, TurnWorks, TurnEndings, TurnSettles,
         TurnFails, TurnEnds, Crashes, Crash, Idling, IdleTimeout, Readers, ReadEvent, ProcessExits,
         DeliverNotice, vars, KernelInv, ForksKept
    <3>3. QED BY <2>2, <3>1, <3>2 DEF Next
  <2>3. QED BY <2>1, <2>2
<1>4. QED BY <1>1, <1>2, <1>3 DEF KernelInv

\* At first nothing is bound.
LEMMA InitKernelInv == Init => KernelInv
<1> SUFFICES ASSUME Init PROVE KernelInv
  OBVIOUS
<1>1. OnKernel(sup)
  BY DEF Init, NewSupervisor, OnKernel, SessionsKept, KernelsKept, TurnsKept
<1>2. QED BY <1>1, InitIInv DEF Init, KernelInv, ForksKept

-----------------------------------------------------------------------------
(* Which steps start turns.                                                 *)

\* c runs no turn that b does not.
Quiet(b, c) == \A p \in Procs, x \in Sessions : c[p].turns[x] <= b[p].turns[x]

\* Turns are counted in natural numbers.
LEMMA TurnsNat ==
    ASSUME NEW b \in Bridges, NEW p \in Procs, NEW x \in Sessions
    PROVE  b[p].turns[x] \in Nat
BY BridgeParts, BoundsAssumption

\* Lines, what a sidecar knows and its workers are not turns; a stopped one runs none.
LEMMA QuietOperators ==
    ASSUME NEW b \in Bridges, NEW p \in Procs, NEW x \in Sessions
    PROVE  /\ Quiet(b, b)
           /\ \A lines : Quiet(b, Says(b, p, lines))
           /\ Quiet(b, Aborted(b, p, x)) /\ Quiet(b, Destroyed(b, p, x))
<1>1. Quiet(b, b)
  BY TurnsNat DEF Quiet
<1>2. ASSUME NEW lines PROVE Quiet(b, Says(b, p, lines))
  BY TurnsNat DEF Quiet, Says, Bridges, Bridge
<1>3. Quiet(b, Aborted(b, p, x))
  <2> DEFINE c == [b EXCEPT ![p].turns[x] = 0, ![p].refused = @ \cup ({x} \ b[p].known)]
  <2>1. PICK lines : Aborted(b, p, x) = Says(c, p, lines)
    BY DEF Aborted
  <2>2. \A q \in Procs, y \in Sessions : c[q].turns[y] \in {b[q].turns[y], 0}
    BY DEF Bridges, Bridge
  <2>3. \A q \in Procs : Says(c, p, lines)[q].turns = c[q].turns
    BY DEF Says, Bridges, Bridge
  <2> HIDE DEF c
  <2>4. \A q \in Procs, y \in Sessions :
           Says(c, p, lines)[q].turns[y] \in {b[q].turns[y], 0} /\ b[q].turns[y] \in Nat
    BY <2>2, <2>3, TurnsNat
  <2>5. QED BY <2>1, <2>4 DEF Quiet
<1>4. Quiet(b, Destroyed(b, p, x))
  <2> DEFINE c == [b EXCEPT ![p].known = @ \ {x}, ![p].turns[x] = 0, ![p].workers = @ \ {x},
                            ![p].refused = @ \ {x}]
  <2>1. PICK lines : Destroyed(b, p, x) = Says(c, p, lines)
    BY DEF Destroyed
  <2>2. \A q \in Procs, y \in Sessions : c[q].turns[y] \in {b[q].turns[y], 0}
    BY DEF Bridges, Bridge
  <2>3. \A q \in Procs : Says(c, p, lines)[q].turns = c[q].turns
    BY DEF Says, Bridges, Bridge
  <2> HIDE DEF c
  <2>4. \A q \in Procs, y \in Sessions :
           Says(c, p, lines)[q].turns[y] \in {b[q].turns[y], 0} /\ b[q].turns[y] \in Nat
    BY <2>2, <2>3, TurnsNat
  <2>5. QED BY <2>1, <2>4 DEF Quiet
<1>5. QED BY <1>1, <1>2, <1>3, <1>4

\* Killed sidecars run no turns.
LEMMA SurvivorsQuiet ==
    ASSUME NEW s, bridge \in Bridges
    PROVE  Quiet(bridge, Survivors(s))
<1>1. \A p \in Procs, x \in Sessions : Survivors(s)[p].turns[x] \in {bridge[p].turns[x], 0}
  BY DEF Survivors, NewBridge
<1>2. QED BY <1>1, TurnsNat DEF Quiet

\* A prompt is no turn of another session or another sidecar.
LEMMA PromptedStarts ==
    ASSUME NEW b \in Bridges, NEW p \in Procs, NEW x \in Sessions,
           NEW q \in Procs, NEW y \in Sessions, b[q].turns[y] < Prompted(b, p, x)[q].turns[y]
    PROVE  q = p /\ y = x
<1>1. CASE x \in b[p].refused \ b[p].known
  <2> DEFINE c == [b EXCEPT ![p].refused = @ \ {x}]
  <2>1. Prompted(b, p, x) = Says(c, p, <<Event("settled", x)>>)
    BY <1>1 DEF Prompted
  <2>2. c[q].turns = b[q].turns
    BY DEF Bridges, Bridge
  <2>3. Says(c, p, <<Event("settled", x)>>)[q].turns = c[q].turns
    BY DEF Says, Bridges, Bridge
  <2>4. QED BY <2>1, <2>2, <2>3, TurnsNat
<1>2. CASE x \notin b[p].refused \ b[p].known
  <2>1. ASSUME q # p \/ y # x PROVE Prompted(b, p, x)[q].turns[y] = b[q].turns[y]
    BY <1>2, <2>1 DEF Prompted, Bridges, Bridge
  <2>2. QED BY <2>1, TurnsNat
<1>3. QED BY <1>1, <1>2

\* What only sup, forks or ui change, and what the Supervisor kills.
LEMMA SupervisorQuiet ==
    ASSUME IInv, bridge' = bridge \/ \E s : bridge' = Survivors(s)
    PROVE  Quiet(bridge, bridge')
<1>1. bridge \in Bridges
  BY IInvParts
<1>2. Quiet(bridge, bridge)
  BY <1>1, TurnsNat DEF Quiet
<1>3. QED BY <1>1, <1>2, SurvivorsQuiet

\* The commands that start nothing.
LEMMA CommandsQuiet ==
    ASSUME IInv, NEW x \in Sessions,
           \/ AbortMessage(x) \/ ForceStop(x) \/ ContinueBusy(x) \/ Dispose(x)
           \/ \E w \in Workspaces : RecoverSession(x, w)
    PROVE  Quiet(bridge, bridge')
<1> DEFINE p == ProcessForSession(sup, x)
<1>1. bridge \in Bridges /\ sup \in Supervisor
  BY IInvParts DEF Good
<1>2. Reaches(sup, p) => p \in Procs
  BY <1>1, ReachedIsProc
<1>3. CASE AbortMessage(x) \/ ForceStop(x) \/ ContinueBusy(x) \/ Dispose(x)
  <2>1. \/ bridge' = bridge
        \/ /\ Reaches(sup, p)
           /\ \/ bridge' = Aborted(bridge, p, x) \/ bridge' = Destroyed(bridge, p, x)
              \/ bridge' = Says(bridge, p, <<Event("error", x)>>)
    BY <1>3 DEF AbortMessage, ForceStop, ContinueBusy, Dispose
  <2> HIDE DEF p
  <2>2. QED BY <1>1, <1>2, <2>1, QuietOperators, SupervisorQuiet
<1>4. ASSUME NEW w \in Workspaces, RecoverSession(x, w)
      PROVE  Quiet(bridge, bridge')
  <2> DEFINE q == sup.process[KernelPi]
  <2>1. bridge' = [bridge EXCEPT ![q].known = @ \cup {x}]
    BY <1>4 DEF RecoverSession
  <2> HIDE DEF q
  <2>2. \A r \in Procs : bridge'[r].turns = bridge[r].turns
    BY <1>1, <2>1 DEF Bridges, Bridge
  <2>3. QED BY <1>1, <2>2, TurnsNat DEF Quiet
<1>5. QED BY <1>3, <1>4

\* A line after fewer turns, or after a change of workers.
LEMMA FewerTurnsQuiet ==
    ASSUME NEW b \in Bridges, NEW p \in Procs, NEW x \in Sessions, NEW n \in Nat,
           n <= b[p].turns[x], NEW lines
    PROVE  Quiet(b, Says([b EXCEPT ![p].turns[x] = n], p, lines))
<1> DEFINE c == [b EXCEPT ![p].turns[x] = n]
<1>1. \A q \in Procs : Says(c, p, lines)[q].turns = c[q].turns
  BY DEF Says, Bridges, Bridge
<1>2. \A q \in Procs, y \in Sessions :
         c[q].turns[y] = IF q = p /\ y = x THEN n ELSE b[q].turns[y]
  BY DEF Bridges, Bridge
<1> HIDE DEF c
<1>3. \A q \in Procs, y \in Sessions : Says(c, p, lines)[q].turns[y] <= b[q].turns[y]
  BY <1>1, <1>2, TurnsNat
<1>4. Quiet(b, Says(c, p, lines))
  BY <1>3 DEF Quiet
<1>5. QED BY <1>4 DEF c

LEMMA WorkersQuiet ==
    ASSUME NEW b \in Bridges, NEW p \in Procs, NEW W, NEW lines
    PROVE  Quiet(b, Says([b EXCEPT ![p].workers = W], p, lines))
<1> DEFINE c == [b EXCEPT ![p].workers = W]
<1>1. \A q \in Procs : Says(c, p, lines)[q].turns = c[q].turns /\ c[q].turns = b[q].turns
  BY DEF Says, Bridges, Bridge
<1> HIDE DEF c
<1>2. Quiet(b, Says(c, p, lines))
  BY <1>1, TurnsNat DEF Quiet
<1>3. QED BY <1>2 DEF c

\* The sidecars by themselves start nothing either.
LEMMA SidecarsQuiet ==
    ASSUME IInv, NEW p \in Procs, NEW x \in Sessions,
           \/ TurnWorks(p, x) \/ ModelCallFails(p, x) \/ TurnSettles(p, x) \/ TurnFails(p, x)
           \/ WorkersStart(p, x) \/ WorkersEnd(p, x)
    PROVE  Quiet(bridge, bridge')
<1>1. bridge \in Bridges
  BY IInvParts
<1>2. CASE TurnWorks(p, x)
  BY <1>1, <1>2, QuietOperators DEF TurnWorks
<1>3. CASE ModelCallFails(p, x)
  <2>1. 0 <= bridge[p].turns[x]
    BY <1>1, TurnsNat
  <2>2. QED BY <1>1, <1>3, <2>1, FewerTurnsQuiet DEF ModelCallFails
<1>4. CASE TurnSettles(p, x) \/ TurnFails(p, x)
  <2> DEFINE n == bridge[p].turns[x] - 1
  <2>1. n \in Nat /\ n <= bridge[p].turns[x]
    BY <1>1, <1>4, TurnsNat DEF TurnSettles, TurnFails, TurnEnds, Runs
  <2>2. PICK lines : bridge' = Says([bridge EXCEPT ![p].turns[x] = n], p, lines)
    BY <1>4 DEF TurnSettles, TurnFails, TurnEnds
  <2> HIDE DEF n
  <2>3. QED BY <1>1, <2>1, <2>2, FewerTurnsQuiet
<1>5. CASE WorkersStart(p, x) \/ WorkersEnd(p, x)
  BY <1>1, <1>5, WorkersQuiet DEF WorkersStart, WorkersEnd
<1>6. QED BY <1>2, <1>3, <1>4, <1>5

\* Nor do the readers.
LEMMA ReadQuiet ==
    ASSUME IInv, NEW p \in Procs, ReadEvent(p)
    PROVE  Quiet(bridge, bridge')
<1>1. bridge \in Bridges /\ bridge' = [bridge EXCEPT ![p].out = Tail(@)]
  BY IInvParts DEF ReadEvent
<1>2. \A q \in Procs : bridge'[q].turns = bridge[q].turns
  BY <1>1 DEF Bridges, Bridge
<1>3. QED BY <1>1, <1>2, TurnsNat DEF Quiet

\* SendMessage starts a turn of its session on the process processForSession finds once the
\* dispatch is ready.
LEMMA SendStarts ==
    ASSUME IInv, NEW x \in Sessions, NEW w \in Workspaces, SendMessage(x, w),
           NEW p \in Procs, NEW y \in Sessions, StartsTurn(p, y)
    PROVE  y = x /\ p = ProcessForSession(Ready(x, w), x)
<1> DEFINE ready == Ready(x, w)
           q == ProcessForSession(ready, x)
<1>1. bridge \in Bridges /\ Survivors(ready) \in Bridges
  BY IInvParts, SendReady, SurvivorsType DEF Good
<1>2. \/ Reaches(ready, q) /\ bridge' = Prompted(Survivors(ready), q, x)
      \/ bridge' = Survivors(ready)
  BY DEF SendMessage, Ready, Ensured
<1>3. Reaches(ready, q) => q \in Procs
  BY SendReady, ReachedIsProc DEF Good
<1> HIDE DEF ready, q
<1>4. /\ bridge[p].turns[y] \in Nat /\ bridge'[p].turns[y] > bridge[p].turns[y]
      /\ Survivors(ready)[p].turns[y] <= bridge[p].turns[y]
  BY <1>1, SurvivorsQuiet, TurnsNat DEF Quiet, StartsTurn
<1>5. bridge' = Prompted(Survivors(ready), q, x) /\ q \in Procs
  <2>1. Survivors(ready)[p].turns[y] \in Nat
    BY <1>1, TurnsNat
  <2>2. bridge' # Survivors(ready)
    BY <1>4, <2>1
  <2>3. QED BY <1>2, <1>3, <2>2
<1>6. Survivors(ready)[p].turns[y] < Prompted(Survivors(ready), q, x)[p].turns[y]
  <2>1. q \in Procs /\ x \in Sessions /\ Survivors(ready)[p].turns[y] \in Nat
    BY <1>1, <1>5, TurnsNat
  <2>2. Prompted(Survivors(ready), q, x)[p].turns[y] = bridge'[p].turns[y]
    BY <1>5
  <2>3. bridge'[p].turns[y] \in Nat
    BY IInvPartsNext, NextIInv, SendStep, TurnsNat
  <2>4. QED BY <1>4, <2>1, <2>2, <2>3
<1>7. QED BY <1>1, <1>5, <1>6, PromptedStarts DEF ready, q

\* SendRegisteredMessage starts one on the process it finds as things are.
LEMMA RelayStarts ==
    ASSUME IInv, NEW x \in Sessions, RelayMessage(x),
           NEW p \in Procs, NEW y \in Sessions, StartsTurn(p, y)
    PROVE  y = x /\ p = ProcessForSession(sup, x)
<1> DEFINE q == ProcessForSession(sup, x)
<1>1. bridge \in Bridges /\ q \in Procs
  BY IInvParts, ReachedIsProc DEF RelayMessage, Good
<1>2. bridge' = Prompted(bridge, q, x) \/ bridge' = Says(bridge, q, <<Event("error", x)>>)
  BY DEF RelayMessage
<1> HIDE DEF q
<1>3. Quiet(bridge, Says(bridge, q, <<Event("error", x)>>))
  BY <1>1, QuietOperators
<1>4. bridge[p].turns[y] \in Nat /\ bridge'[p].turns[y] \in Nat
  BY <1>1, IInvPartsNext, RelayStep, TurnsNat
<1>5. bridge' # Says(bridge, q, <<Event("error", x)>>)
  BY <1>3, <1>4 DEF Quiet, StartsTurn
<1>6. QED BY <1>1, <1>2, <1>5, PromptedStarts DEF StartsTurn, q

\* Nothing else starts a turn.
LEMMA WhoStarts ==
    ASSUME IInv, [Next]_vars, NEW p \in Procs, NEW x \in Sessions, StartsTurn(p, x)
    PROVE  \/ \E w \in Workspaces : SendMessage(x, w) /\ p = ProcessForSession(Ready(x, w), x)
           \/ RelayMessage(x) /\ p = ProcessForSession(sup, x)
<1>1. ASSUME Quiet(bridge, bridge') PROVE FALSE
  <2>1. bridge[p].turns[x] \in Nat /\ bridge'[p].turns[x] \in Nat
    BY IInvParts, IInvPartsNext, NextIInv, TurnsNat
  <2>2. QED BY <1>1, <2>1 DEF Quiet, StartsTurn
<1>2. CASE Sends
  BY <1>2, SendStarts DEF Sends
<1>3. CASE Relays
  BY <1>1, <1>3, RelayStarts, CommandsQuiet DEF Relays
<1>4. CASE Binds \/ SpawnFailures \/ Rotation \/ Ceilings \/ Revocation \/ Restarts \/ Crashes
           \/ Idling \/ UNCHANGED vars
  <2>1. bridge' = bridge \/ \E s : bridge' = Survivors(s)
    BY <1>4 DEF Binds, BindSessionKernel, SpawnFailures, SendMessageSpawnFails, Rotation, InvalidateCredentials, Ceilings,
       BusyCeiling, Revocation, StopStaleSidecars, Restarts, RestartEngine, Crashes, Crash, Idling,
       IdleTimeout, vars
  <2>2. QED BY <1>1, <2>1, SupervisorQuiet
<1>5. CASE Aborts \/ Streams \/ TurnEndings
  BY <1>1, <1>5, CommandsQuiet, SidecarsQuiet DEF Aborts, Streams, TurnEndings
<1>6. CASE Removals \/ ProbesAndForks
  <2>1. ASSUME NEW y \in Sessions, DetachSession(y) \/ DestroySession(y) \/ EndProbe(y)
        PROVE  Quiet(bridge, bridge')
    BY <2>1, CommandsQuiet DEF DetachSession, DestroySession, EndProbe
  <2>2. ASSUME NEW y \in Sessions, NEW z \in Sessions,
               StartProbe(y) \/ ForkSession(y, z) \/ ForkAnswered(y, z) \/ ForkTimesOut(y, z)
        PROVE  Quiet(bridge, bridge')
    BY <2>2, SupervisorQuiet DEF StartProbe, ForkSession, ForkAnswered, ForkTimesOut
  <2>3. QED BY <1>1, <1>6, <2>1, <2>2 DEF Removals, ProbesAndForks
<1>7. CASE Research \/ Recovery
  <2>1. ASSUME NEW y \in Sessions, TrackResearchRun(y) \/ UntrackResearchRun(y) \/ RecoveryEnds(y)
        PROVE  Quiet(bridge, bridge')
    BY <2>1, SupervisorQuiet DEF TrackResearchRun, UntrackResearchRun, RecoveryEnds
  <2>2. ASSUME NEW y \in Sessions, NEW w \in Workspaces, RefreshBackgroundTasks(y, w)
        PROVE  Quiet(bridge, bridge')
    BY <2>2, SupervisorQuiet DEF RefreshBackgroundTasks
  <2>3. CASE Research
    BY <1>1, <2>1, <2>3, SidecarsQuiet DEF Research
  <2>4. CASE Recovery
    BY <1>1, <2>1, <2>2, <2>4, CommandsQuiet DEF Recovery
  <2>5. QED BY <1>7, <2>3, <2>4
<1>8. CASE Readers
  <2>1. ASSUME NEW q \in Procs, ProcessExits(q) PROVE Quiet(bridge, bridge')
    BY <2>1, SupervisorQuiet DEF ProcessExits
  <2>2. ASSUME NEW y \in Sessions, DeliverNotice(y) PROVE Quiet(bridge, bridge')
    BY <2>2, SupervisorQuiet DEF DeliverNotice
  <2>3. QED BY <1>1, <1>8, <2>1, <2>2, ReadQuiet DEF Readers
<1>9. QED BY <1>2, <1>3, <1>4, <1>5, <1>6, <1>7, <1>8 DEF Next

-----------------------------------------------------------------------------
(* Where a turn starts.                                                     *)

\* processForSession in a good record: a retiring process that carries the working session,
\* the process parked for the session's kernel and workspace, or the kernel's current one.
LEMMA FoundProcess ==
    ASSUME NEW s, Good(s), NEW x \in Sessions, NEW p \in Procs, p = ProcessForSession(s, x)
    PROVE  \/ p \in s.retiring /\ x \in Working(s) \cap s.child[p].retiredTurns
           \/ /\ s.child[p].kernel = KernelOf(s, x)
              /\ \/ s.child[p].workspace = s.workspaces[x] /\ ~s.child[p].stale
                 \/ p = s.process[KernelOf(s, x)]
<1> DEFINE k == KernelOf(s, x)
           w == s.workspaces[x]
           carriers == {q \in s.retiring : x \in s.child[q].retiredTurns}
           r == RetiringProcessForSession(s, x)
<1>1. p # NoProc /\ k \in Kernels /\ s \in Supervisor /\ Accounted(s)
      /\ (w # NoWorkspace => <<k, w>> \in Keys)
  BY ProcsAssumption, KernelOfType DEF Good, Supervisor, Keys
<1>2. r # NoProc => r \in carriers /\ x \in Working(s)
  BY DEF RetiringProcessForSession, Eldest
<1>3. \/ p = r
      \/ w # NoWorkspace /\ p = s.parked[<<k, w>>] /\ ~s.child[p].stale
      \/ p = s.process[k]
  BY DEF ProcessForSession
<1> HIDE DEF k, w, r
<1>4. CASE p = r
  BY <1>1, <1>2, <1>4
<1>5. CASE w # NoWorkspace /\ p = s.parked[<<k, w>>] /\ ~s.child[p].stale
  BY <1>1, <1>5 DEF Accounted, ParkedMatches, k, w
<1>6. CASE p = s.process[k]
  BY <1>1, <1>6 DEF Accounted, ActiveMatches, k
<1>7. QED BY <1>3, <1>4, <1>5, <1>6

\* The process a message goes to.
LEMMA SentProcess ==
    ASSUME KernelInv, NEW x \in Sessions, NEW w \in Workspaces, SendMessage(x, w),
           NEW p \in Procs, p = ProcessForSession(Ready(x, w), x)
    PROVE  \/ GoesOn(p, x)
           \/ /\ sup'.child[p].kernel = KernelOf(sup', x)
              /\ KernelOf(sup', x) = ConversationKernel[x] =>
                    sup'.child[p].workspace = sup'.workspaces[x] /\ ~sup'.child[p].stale
<1> DEFINE ready == Ready(x, w)
           k == KernelOf(sup, x)
<1>1. /\ Good(sup) /\ OnKernel(sup) /\ Good(ready) /\ SamePlaces(ready, sup')
      /\ sup'.kernels = ready.kernels /\ sup'.workspaces = ready.workspaces
  BY SendReady DEF KernelInv
<1>2. /\ ready.kernels = Ensured(x, w).kernels /\ ready.workspaces[x] = w
      /\ Working(ready) = Working(Ensured(x, w)) /\ SamePlaces(Ensured(x, w), ready)
  <2>1. Ensured(x, w) \in Supervisor /\ SamePlaces(Ensured(x, w), ready)
    BY SendReady DEF KernelInv, Good
  <2>2. /\ ready.kernels = Ensured(x, w).kernels /\ ready.workspaces[x] = w
        /\ ready.busy = Ensured(x, w).busy /\ ready.workers = Ensured(x, w).workers
        /\ ready.runs = Ensured(x, w).runs
    BY <2>1 DEF Ready, Supervisor
  <2>3. QED BY <2>1, <2>2 DEF Working
<1>3. /\ Forgets(sup, Ensured(x, w))
      /\ Ensured(x, w).process[k] # NoProc
      /\ Ensured(x, w).child[Ensured(x, w).process[k]].workspace = w
      /\ ~Ensured(x, w).child[Ensured(x, w).process[k]].stale
  BY SendReady, EnsureServes DEF KernelInv, Ensured
<1>5. KernelOf(sup', x) = KernelOf(ready, x)
  BY <1>1 DEF KernelOf
<1> HIDE DEF ready
<1>6. CASE p \in ready.retiring /\ x \in Working(ready) \cap ready.child[p].retiredTurns
  <2>1. x \in Working(sup)
    BY <1>2, <1>3, <1>6 DEF Forgets, Working
  <2>2. QED BY <1>1, <1>6, <2>1 DEF GoesOn, SamePlaces
<1>7. CASE /\ ready.child[p].kernel = KernelOf(ready, x)
           /\ \/ ready.child[p].workspace = ready.workspaces[x] /\ ~ready.child[p].stale
              \/ p = ready.process[KernelOf(ready, x)]
  <2>1. KernelOf(ready, x) = ConversationKernel[x] => KernelOf(ready, x) = k
    <3>1. ready.kernels[x] \in {sup.kernels[x], NoKernel}
      BY <1>2, <1>3 DEF Forgets
    <3>2. sup.kernels[x] \in {NoKernel, ConversationKernel[x], KernelPi}
      BY <1>1 DEF OnKernel, KernelsKept
    <3>3. QED BY <3>1, <3>2 DEF KernelOf
  <2>2. p = ready.process[k] => ready.child[p].workspace = ready.workspaces[x] /\ ~ready.child[p].stale
    BY <1>2, <1>3 DEF SamePlaces
  <2> HIDE DEF k
  <2>3. QED BY <1>1, <1>5, <1>7, <2>1, <2>2 DEF SamePlaces
<1>8. QED BY <1>1, <1>6, <1>7, FoundProcess DEF ready

\* The kernel of a message when its turn starts: its own, unless it was forgotten before the
\* dispatch or by it; what a dispatch does not know of, it does not forget.
LEMMA SentKernel ==
    ASSUME KernelInv, NEW x \in Sessions, NEW w \in Workspaces, SendMessage(x, w)
    PROVE  \/ sup'.kernels[x] = ConversationKernel[x] \/ x \in Forks \/ Unbound(x)
           \/ x \in sup.sessions /\ sup'.kernels[x] = NoKernel
           \/ sup'.kernels[x] = NoKernel /\ ConversationKernel[x] = KernelPi
<1>1. /\ OnKernel(sup) /\ sup'.kernels = Ready(x, w).kernels
      /\ Ready(x, w).kernels = Ensured(x, w).kernels
  BY SendReady DEF KernelInv, Ready, Good, Supervisor
<1>2. /\ Forgets(sup, Ensured(x, w))
      /\ x \notin Known(sup) => Ensured(x, w).kernels[x] = sup.kernels[x]
  BY SendReady, EnsureServes DEF KernelInv, Ensured
<1>3. sup'.kernels[x] \in {sup.kernels[x], NoKernel}
  BY <1>1, <1>2 DEF Forgets
<1>4. CASE sup.kernels[x] = NoKernel
  <2>1. Sending(x) \/ ConversationKernel[x] = KernelPi
    BY PiOnlyAssumption DEF SendMessage, Dispatchable, Sending
  <2>2. QED BY <1>3, <1>4, <2>1 DEF Unbound
<1>5. CASE sup.kernels[x] # NoKernel /\ sup'.kernels[x] = sup.kernels[x]
  BY <1>1, <1>5 DEF OnKernel, KernelsKept
<1>6. CASE sup.kernels[x] # NoKernel /\ sup'.kernels[x] = NoKernel
  <2>1. x \in Known(sup)
    BY <1>1, <1>2, <1>6
  <2>2. x \in sup.sessions \/ x \in Researchers
    BY <1>1, <2>1 DEF Known, Working, OnKernel, SessionsKept
  <2>3. QED BY <1>6, <2>2, PiOnlyAssumption
<1>7. QED BY <1>3, <1>4, <1>5, <1>6

-----------------------------------------------------------------------------
(* What is forgotten while a message is on its way.                         *)

\* No kernel of a session that s did not know is forgotten.
Overlooks(s, t) == \A x \in Sessions \ Known(s) : t.kernels[x] = s.kernels[x]

LEMMA OverlooksTrans ==
    ASSUME NEW s, NEW t, NEW u, Overlooks(s, t), Forgets(s, t), Overlooks(t, u)
    PROVE  Overlooks(s, u)
BY DEF Overlooks, Forgets, Known, Working

LEMMA InterruptOverlooks ==
    ASSUME NEW s, NEW t, NEW X, SameSessions(s, t), X \subseteq Known(s)
    PROVE  Overlooks(s, Interrupt(t, X)) /\ Overlooks(s, ForgetSessions(t, X))
BY DEF Overlooks, Interrupt, ForgetSessions, SameSessions

\* The operators that stop processes forget what the Supervisor knew.
LEMMA StopsOverlook ==
    ASSUME NEW s, Good(s)
    PROVE  /\ \A K \in SUBSET Kernels : Overlooks(s, StopActive(s, K))
           /\ \A K \in SUBSET Keys : Overlooks(s, StopParked(s, K))
           /\ \A P \in SUBSET s.retiring : Overlooks(s, StopRetired(s, P))
<1>1. ASSUME NEW K \in SUBSET Kernels PROVE Overlooks(s, StopActive(s, K))
  <2> DEFINE gone == UNION {ServedBy(s, k, {s.child[s.process[k]].workspace, NoWorkspace}) : k \in K}
             t == Stop([s EXCEPT !.process = [k \in Kernels |-> IF k \in K THEN NoProc ELSE @[k]]],
                       {s.process[k] : k \in K})
  <2>1. StopActive(s, K) = Interrupt(t, gone)
    BY DEF StopActive
  <2>2. gone \subseteq Known(s)
    BY DEF ServedBy, Known
  <2>3. SameSessions(s, t)
    BY DEF SameSessions, Stop
  <2> HIDE DEF gone, t
  <2>4. QED BY <2>1, <2>2, <2>3, InterruptOverlooks
<1>2. ASSUME NEW K \in SUBSET Keys PROVE Overlooks(s, StopParked(s, K))
  BY StopParkedSheds DEF Keeps, Overlooks
<1>3. ASSUME NEW P \in SUBSET s.retiring PROVE Overlooks(s, StopRetired(s, P))
  BY StopRetiredSheds DEF Keeps, Overlooks
<1>4. QED BY <1>1, <1>2, <1>3

LEMMA StopStaleOverlooks ==
    ASSUME NEW s, Good(s)
    PROVE  Overlooks(s, StopStale(s))
<1> DEFINE stale(p) == p # NoProc /\ s.child[p].stale
           active == {k \in Kernels : stale(s.process[k])}
           parked == {key \in Keys : stale(s.parked[key])}
           t == StopActive(s, active)
           u == StopParked(t, parked)
           P == {p \in s.retiring : stale(p)}
<1>1. Good(t) /\ Sheds(s, t) /\ t.retiring = s.retiring /\ Overlooks(s, t)
  <2>1. Good(t) /\ Sheds(s, t) /\ Overlooks(s, t)
    BY StopActiveGood, StopActiveSheds, StopsOverlook
  <2>2. t.retiring = s.retiring
    BY DEF StopActive, Stop, Interrupt, ForgetSessions
  <2>3. QED BY <2>1, <2>2
<1>2. u.retiring = t.retiring
  BY DEF StopParked, Stop, Interrupt, ForgetSessions, TakeParked
<1> HIDE DEF t
<1>3. Good(u) /\ Sheds(t, u) /\ Overlooks(t, u)
  BY <1>1, StopParkedGood, StopParkedSheds, StopsOverlook
<1>4. P \in SUBSET u.retiring
  BY <1>1, <1>2
<1>5. StopStale(s) = StopRetired(u, P)
  BY DEF StopStale, t
<1> HIDE DEF u, P
<1>6. Overlooks(u, StopRetired(u, P))
  BY <1>3, <1>4, StopsOverlook
<1>7. Overlooks(s, u) /\ Forgets(s, u)
  BY <1>1, <1>3, OverlooksTrans, ShedsTrans DEF Good, Sheds
<1>8. QED BY <1>5, <1>6, <1>7, OverlooksTrans

\* The restart of an engine forgets its own conversation also when it was not known.
LEMMA RestartedOverlooks ==
    ASSUME NEW s, Good(s), NEW x \in Sessions, NEW p \in Tracked(s),
           NEW y \in Sessions \ (Known(s) \cup {x})
    PROVE  Restarted(s, x, p).kernels[y] = s.kernels[y]
<1> DEFINE k == KernelOf(s, x)
           key == <<k, s.child[p].workspace>>
           carried == (s.child[p].retiredTurns \cap s.busy) \cup {x}
           killed == [ForgetSessions(s, carried) EXCEPT !.notices = @ \cup carried,
                                                        !.child[p].retired = TRUE,
                                                        !.child[p].life = "dead"]
           stopped == CASE s.process[k] = p -> StopActive(s, {k})
                        [] s.process[k] # p /\ s.parked[key] = p -> StopParked(s, {key})
                        [] OTHER -> killed
<1>1. k \in Kernels /\ key \in Keys
  BY KernelOfType DEF Good, Accounted, AllPlaced, Keys
<1>2. Restarted(s, x, p).kernels[y] = stopped.kernels[y]
  BY DEF Restarted, ForgetSessions
<1>3. killed.kernels[y] = s.kernels[y]
  BY DEF ForgetSessions, Known, Working
<1>4. Overlooks(s, StopActive(s, {k})) /\ Overlooks(s, StopParked(s, {key}))
  BY <1>1, StopsOverlook
<1>5. stopped.kernels[y] = s.kernels[y]
  BY <1>3, <1>4 DEF Overlooks
<1>6. QED BY <1>2, <1>5

LEMMA ExitedOverlooks ==
    ASSUME NEW s, NEW p \in Procs
    PROVE  Overlooks(s, Exited(s, p))
<1> DEFINE c == s.child[p]
           key == <<c.kernel, c.workspace>>
           served == ServedBy(s, c.kernel, {c.workspace, NoWorkspace})
           research == IF c.kernel = KernelPi THEN served \cap (s.workers \cup s.runs) ELSE {}
           carried == {x \in c.retiredTurns \cap s.sessions : KernelOf(s, x) = c.kernel}
           told == IF c.retired THEN {} ELSE carried \cap Working(s)
           retired == Interrupt(TakeRetiring(s, {p}), told)
           cleared == [ForgetSessions(s, served) EXCEPT !.process[c.kernel] = NoProc,
                                                        !.notices = @ \cup research]
           gone == ServedBy(s, c.kernel, {c.workspace})
           dropped == Interrupt(TakeParked(s, {key}), gone)
           left == CASE p \in s.retiring -> retired
                     [] p \notin s.retiring /\ s.process[c.kernel] = p -> cleared
                     [] p \in ParkedProcs(s) -> dropped
                     [] OTHER -> s
<1>1. Exited(s, p) = [left EXCEPT !.child[p] = NoChild]
  BY DEF Exited
<1>2. told \subseteq Known(s) /\ served \subseteq Known(s) /\ gone \subseteq Known(s)
  BY DEF ServedBy, Known
<1> HIDE DEF served, research, told, gone
<1>3. SameSessions(s, TakeRetiring(s, {p})) /\ SameSessions(s, TakeParked(s, {key}))
      /\ SameSessions(s, s)
  BY DEF SameSessions, TakeRetiring, TakeParked
<1>4. Overlooks(s, retired) /\ Overlooks(s, dropped) /\ Overlooks(s, ForgetSessions(s, served))
  BY <1>2, <1>3, InterruptOverlooks
<1>5. cleared.kernels = ForgetSessions(s, served).kernels
  BY DEF ForgetSessions
<1>6. Overlooks(s, cleared) /\ Overlooks(s, s)
  BY <1>4, <1>5 DEF Overlooks
<1> HIDE DEF retired, cleared, dropped
<1>7. Overlooks(s, left)
  BY <1>4, <1>6
<1> HIDE DEF left
<1>8. QED BY <1>1, <1>7 DEF Overlooks

\* Only BindSessionKernel puts a message on its way.
LEMMA WhoSends ==
    ASSUME [Next]_vars, ~Binds
    PROVE  sends' \subseteq sends
<1>1. CASE Sends \/ SpawnFailures
  BY <1>1 DEF Sends, SendMessage, SpawnFailures, SendMessageSpawnFails
<1>2. CASE Aborts \/ Relays \/ Removals \/ Research \/ Recovery \/ ProbesAndForks
  BY <1>2 DEF Aborts, AbortMessage, ForceStop, ModelCallFails, Relays, RelayMessage, ContinueBusy,
     Removals, DetachSession, DestroySession, Dispose, Research, TrackResearchRun,
     UntrackResearchRun, WorkersStart, WorkersEnd, Recovery, RefreshBackgroundTasks, RecoverSession,
     RecoveryEnds, ProbesAndForks, StartProbe, EndProbe, ForkSession, ForkAnswered, ForkTimesOut
<1>3. CASE Rotation \/ Ceilings \/ Revocation \/ Restarts \/ Streams \/ TurnEndings \/ Crashes
           \/ Idling \/ Readers \/ UNCHANGED vars
  BY <1>3 DEF Rotation, InvalidateCredentials, Ceilings, BusyCeiling, Revocation, StopStaleSidecars,
     Restarts, RestartEngine, Streams, TurnWorks, TurnEndings, TurnSettles, TurnFails, TurnEnds,
     Crashes, Crash, Idling, IdleTimeout, Readers, ReadEvent, ProcessExits, DeliverNotice, vars
<1>4. QED BY <1>1, <1>2, <1>3 DEF Next

\* Nobody binds the session of a probe.
LEMMA NextSendsInv == SendsKept /\ [Next]_vars => SendsKept'
<1> SUFFICES ASSUME SendsKept, [Next]_vars PROVE SendsKept'
  OBVIOUS
<1>1. CASE Binds
  BY <1>1 DEF Binds, BindSessionKernel, SendsKept
<1>2. CASE ~Binds
  BY <1>2, WhoSends DEF SendsKept
<1>3. QED BY <1>1, <1>2

\* A dispatch forgets no kernel of a session it did not know.
LEMMA DispatchOverlooks ==
    ASSUME IInv, NEW x \in Sessions, NEW w \in Workspaces,
           SendMessage(x, w) \/ SendMessageSpawnFails(x, w) \/ RefreshBackgroundTasks(x, w)
    PROVE  Overlooks(sup, sup')
<1> DEFINE k == KernelOf(sup, x)
<1>1. Good(sup) /\ k \in Kernels
  BY IInvParts, KernelOfType DEF Good
<1> HIDE DEF k
<1>2. CASE SendMessage(x, w)
  <2>1. CanEnsure(sup, k, w) /\ Ensured(x, w) = EnsureKernelProcess(sup, k, w)
    BY <1>2 DEF SendMessage, Ensured, k
  <2>2. Overlooks(sup, Ensured(x, w))
    BY <1>1, <2>1, EnsureServes DEF Overlooks
  <2>3. sup'.kernels = Ensured(x, w).kernels
    BY <1>2, SendReady DEF Ready, Good, Supervisor
  <2>4. QED BY <2>2, <2>3 DEF Overlooks
<1>3. CASE SendMessageSpawnFails(x, w)
  BY <1>1, <1>3, PreparedSheds DEF SendMessageSpawnFails, Keeps, Overlooks, k
<1>4. CASE RefreshBackgroundTasks(x, w)
  <2>1. CanEnsure(sup, k, w) /\ sup' = EnsureKernelProcess(sup, k, w)
    BY <1>4 DEF RefreshBackgroundTasks, k
  <2>2. QED BY <1>1, <2>1, EnsureServes DEF Overlooks
<1>5. QED BY <1>2, <1>3, <1>4

\* The sessions that lose their kernel are known, or removed, or those of probes.
LEMMA WhoForgets ==
    ASSUME IInv, [Next]_vars, NEW x \in Sessions, sup.kernels[x] # NoKernel,
           sup'.kernels[x] = NoKernel
    PROVE  x \in Known(sup) \/ Removes(x) \/ x \in Probes
<1>1. Good(sup) /\ sup \in Supervisor
  BY IInvParts DEF Good
<1>2. Overlooks(sup, sup') => x \in Known(sup)
  BY DEF Overlooks
<1>3. sup'.kernels # sup.kernels
  OBVIOUS
<1>4. CASE Binds
  BY <1>1, <1>4 DEF Binds, BindSessionKernel, BindKernel, Supervisor
<1>5. CASE Sends \/ SpawnFailures
  BY <1>2, <1>5, DispatchOverlooks DEF Sends, SpawnFailures
<1>6. CASE Recovery
  <2>1. ASSUME NEW y \in Sessions, NEW w \in Workspaces, RecoverSession(y, w) \/ RecoveryEnds(y)
        PROVE  FALSE
    BY <1>1, <1>3, <2>1 DEF RecoverSession, RecoveryEnds, Supervisor
  <2>2. ASSUME NEW y \in Sessions, RecoveryEnds(y) PROVE FALSE
    BY <1>1, <1>3, <2>2 DEF RecoveryEnds, Supervisor
  <2>3. QED BY <1>2, <1>6, <2>1, <2>2, DispatchOverlooks DEF Recovery
<1>7. CASE Revocation
  BY <1>1, <1>2, <1>7, StopStaleOverlooks DEF Revocation, StopStaleSidecars
<1>8. CASE Restarts
  <2>1. PICK y \in Sessions : RestartEngine(y)
    BY <1>8 DEF Restarts
  <2> DEFINE p == ProcessForSession(sup, y)
  <2>2. p \in Tracked(sup) /\ sup' = Restarted(sup, y, p)
    BY <1>1, <2>1, ProcessForSessionTracked DEF RestartEngine
  <2> HIDE DEF p
  <2>3. x \in Known(sup) \/ x = y
    BY <1>1, <2>2, RestartedOverlooks
  <2>4. QED BY <2>1, <2>3 DEF Removes
<1>9. CASE Removals \/ \E y \in Sessions : EndProbe(y)
  <2>1. PICK y \in Sessions : DetachSession(y) \/ DestroySession(y) \/ EndProbe(y)
    BY <1>9 DEF Removals
  <2> DEFINE t == ForgetSessions(sup, {y})
  <2>2. sup' = t \/ sup' = [t EXCEPT !.waiters = @ \ {y}]
    BY <2>1 DEF DetachSession, DestroySession, EndProbe
  <2>3. sup'.kernels = [z \in Sessions |-> IF z \in {y} THEN NoKernel ELSE sup.kernels[z]]
    BY <1>1, <2>2 DEF ForgetSessions, Supervisor
  <2>4. x = y
    BY <2>3
  <2>5. QED BY <2>1, <2>4 DEF Removes, EndProbe
<1>10. CASE \E y \in Sessions, z \in Sessions : ForkAnswered(y, z)
  <2>1. PICK y \in Sessions, z \in Sessions : ForkAnswered(y, z)
    BY <1>10
  <2>2. sup'.kernels = [sup.kernels EXCEPT ![z] = KernelOf(sup, y)] /\ KernelOf(sup, y) # NoKernel
    BY <1>1, <2>1, KernelsAssumption DEF ForkAnswered, KernelOf, Supervisor
  <2>3. QED BY <1>1, <2>2 DEF Supervisor
<1>11. CASE Readers
  <2>1. ASSUME NEW p \in Procs, ReadEvent(p) PROVE FALSE
    <3> DEFINE e == Head(bridge[p].out)
    <3>1. sup' = Observed(sup, e)
      BY <2>1 DEF ReadEvent
    <3> HIDE DEF e
    <3>2. QED BY <1>1, <1>3, <3>1 DEF Observed, Supervisor
  <2>2. ASSUME NEW p \in Procs, ProcessExits(p) PROVE x \in Known(sup)
    BY <1>2, <2>2, ExitedOverlooks DEF ProcessExits
  <2>3. ASSUME NEW y \in Sessions, DeliverNotice(y) PROVE FALSE
    BY <1>1, <1>3, <2>3 DEF DeliverNotice, Supervisor
  <2>4. QED BY <1>11, <2>1, <2>2, <2>3 DEF Readers
<1>12. CASE Aborts \/ Streams \/ TurnEndings \/ UNCHANGED vars
  BY <1>3, <1>12 DEF Aborts, AbortMessage, ForceStop, ModelCallFails, Streams, TurnWorks,
     TurnEndings, TurnSettles, TurnFails, TurnEnds, vars
<1>13. CASE Relays \/ Research
  <2>1. sup' = sup \/ \E y \in Sessions : RelayMessage(y) \/ TrackResearchRun(y) \/ UntrackResearchRun(y)
    BY <1>13 DEF Relays, ContinueBusy, Research, WorkersStart, WorkersEnd
  <2>2. QED BY <1>1, <1>3, <2>1 DEF RelayMessage, TrackResearchRun, UntrackResearchRun, Supervisor
<1>14. CASE Rotation \/ Ceilings \/ Crashes \/ Idling
  BY <1>1, <1>3, <1>14 DEF Rotation, InvalidateCredentials, Ceilings, BusyCeiling, Crashes, Crash,
     Idling, IdleTimeout, Supervisor
<1>15. CASE ProbesAndForks
  <2>1. ASSUME NEW y \in Sessions, NEW z \in Sessions,
               StartProbe(y) \/ ForkSession(y, z) \/ ForkTimesOut(y, z)
        PROVE  FALSE
    BY <1>1, <1>3, <2>1 DEF StartProbe, ForkSession, ForkTimesOut, Supervisor
  <2>2. QED BY <1>9, <1>10, <1>15, <2>1 DEF ProbesAndForks
<1>16. QED BY <1>4, <1>5, <1>6, <1>7, <1>8, <1>9, <1>11, <1>12, <1>13, <1>14, <1>15 DEF Next

\* A message starts its turn in the workspace it was sent for, unless the conversation goes on
\* in a retiring process or the dispatch itself forgot its kernel.
THEOREM TurnsInTheirWorkspace == Spec => TurnsStartInTheirWorkspace
<1>1. ASSUME KernelInv, [Next]_vars, NEW p \in Procs, NEW x \in Sessions, StartsTurn(p, x),
             KernelOf(sup', x) = ConversationKernel[x]
      PROVE  sup'.child[p].workspace = sup'.workspaces[x] \/ GoesOn(p, x) \/ Relayed(x)
  <2>1. CASE Relayed(x)
    BY <2>1
  <2>2. ASSUME NEW w \in Workspaces, SendMessage(x, w) PROVE sup'.child[p].workspace = sup'.workspaces[x] \/ GoesOn(p, x)
    <3>1. p = ProcessForSession(Ready(x, w), x)
      BY <1>1, <2>2, SendStarts DEF KernelInv
    <3>2. QED BY <1>1, <2>2, <3>1, SentProcess
  <2>3. QED BY <2>1, <2>2 DEF Relayed
<1>2. KernelInv /\ [Next]_vars =>
          [\A p \in Procs, x \in Sessions :
              StartsTurn(p, x) /\ KernelOf(sup', x) = ConversationKernel[x] =>
                  sup'.child[p].workspace = sup'.workspaces[x] \/ GoesOn(p, x) \/ Relayed(x)]_vars
  BY <1>1
<1>3. QED BY <1>2, InitKernelInv, NextKernelInv, PTL DEF Spec, TurnsStartInTheirWorkspace

\* And on current credentials.
THEOREM TurnsOnFreshCredentials == Spec => TurnsStartOnFreshCredentials
<1>1. ASSUME KernelInv, [Next]_vars, NEW p \in Procs, NEW x \in Sessions, StartsTurn(p, x),
             KernelOf(sup', x) = ConversationKernel[x]
      PROVE  ~sup'.child[p].stale \/ GoesOn(p, x) \/ Relayed(x)
  <2>1. CASE Relayed(x)
    BY <2>1
  <2>2. ASSUME NEW w \in Workspaces, SendMessage(x, w) PROVE ~sup'.child[p].stale \/ GoesOn(p, x)
    <3>1. p = ProcessForSession(Ready(x, w), x)
      BY <1>1, <2>2, SendStarts DEF KernelInv
    <3>2. QED BY <1>1, <2>2, <3>1, SentProcess
  <2>3. QED BY <2>1, <2>2 DEF Relayed
<1>2. KernelInv /\ [Next]_vars =>
          [\A p \in Procs, x \in Sessions :
              StartsTurn(p, x) /\ KernelOf(sup', x) = ConversationKernel[x] =>
                  ~sup'.child[p].stale \/ GoesOn(p, x) \/ Relayed(x)]_vars
  BY <1>1
<1>3. QED BY <1>2, InitKernelInv, NextKernelInv, PTL DEF Spec, TurnsStartOnFreshCredentials

\* The two halves of a message fit together.  A turn, sent or relayed, runs on the kernel of
\* its conversation, unless it was forgotten or a retiring process carries it on; and what was
\* bound for a message on its way is forgotten only with a session that was known, or removed.
THEOREM TurnsOnTheirKernel == Spec => TurnsKeepTheirKernel
<1> DEFINE Kept(p, x) == \/ sup'.child[p].kernel = ConversationKernel[x]
                         \/ x \in Forks
                         \/ Unbound(x)
                         \/ x \in sup.sessions /\ (sup'.kernels[x] = NoKernel \/ GoesOn(p, x))
           Lost(x) == \/ Unbound(x)
                      \/ x \in sup.sessions \cup Working(sup)
                      \/ Removes(x)
<1>1. ASSUME KernelInv, [Next]_vars, NEW p \in Procs, NEW x \in Sessions, StartsTurn(p, x)
      PROVE  Kept(p, x)
  <2>1. Good(sup) /\ OnKernel(sup) /\ KernelInv'
    BY <1>1, NextKernelInv, IInvParts DEF KernelInv
  <2>2. ASSUME GoesOn(p, x), x \notin sup.sessions PROVE Kept(p, x)
    <3>1. x \in Researchers
      BY <2>1, <2>2 DEF GoesOn, Working, OnKernel, SessionsKept
    <3>2. sup'.child[p].kernel \in {KernelPi, ConversationKernel[x]}
      BY <2>1, <2>2 DEF GoesOn, KernelInv, OnKernel, TurnsKept
    <3>3. QED BY <3>1, <3>2, PiOnlyAssumption
  <2>3. ASSUME NEW w \in Workspaces, SendMessage(x, w), p = ProcessForSession(Ready(x, w), x),
               ~GoesOn(p, x)
        PROVE  Kept(p, x)
    <3>1. sup'.child[p].kernel = KernelOf(sup', x)
      BY <1>1, <2>3, SentProcess
    <3>2. \/ sup'.kernels[x] = ConversationKernel[x] \/ x \in Forks \/ Unbound(x)
          \/ x \in sup.sessions /\ sup'.kernels[x] = NoKernel
          \/ sup'.kernels[x] = NoKernel /\ ConversationKernel[x] = KernelPi
      BY <1>1, <2>3, SentKernel
    <3>3. ConversationKernel[x] # NoKernel
      BY ConversationsAssumption, KernelsAssumption
    <3>4. QED BY <3>1, <3>2, <3>3 DEF KernelOf
  <2>4. ASSUME RelayMessage(x), p = ProcessForSession(sup, x)
        PROVE  Kept(p, x)
    <3>1. SamePlaces(sup, sup') /\ sup'.kernels = sup.kernels /\ x \in sup.sessions
      BY <2>1, <2>4 DEF RelayMessage, SamePlaces, Good, Supervisor
    <3>2. CASE p \in sup.retiring /\ x \in Working(sup) \cap sup.child[p].retiredTurns
      BY <3>1, <3>2 DEF GoesOn, SamePlaces
    <3>3. CASE sup.child[p].kernel = KernelOf(sup, x)
      BY <2>1, <3>1, <3>3 DEF SamePlaces, KernelOf, OnKernel, KernelsKept
    <3>4. QED BY <2>1, <2>4, <3>2, <3>3, FoundProcess
  <2>5. CASE GoesOn(p, x) /\ x \in sup.sessions
    BY <2>5
  <2> HIDE DEF Kept
  <2>6. QED BY <1>1, <2>2, <2>3, <2>4, <2>5, WhoStarts DEF KernelInv
<1>2. ASSUME KernelInv, SendsKept, [Next]_vars, NEW x \in Sessions, Unbound(x)'
      PROVE  Lost(x)
  <2>1. CASE Binds
    <3>1. PICK y \in Sessions, w \in Workspaces : BindSessionKernel(y, w)
      BY <2>1 DEF Binds
    <3>2. sup'.kernels[y] # NoKernel /\ \A z \in Sessions \ {y} : sup'.kernels[z] = sup.kernels[z]
      BY <1>2, <3>1, BindOnKernel, IInvParts DEF KernelInv, Good
    <3>3. x # y /\ sup.kernels[x] = NoKernel
      BY <1>2, <3>2 DEF Unbound
    <3>4. Sending(x)
      BY <1>2, <3>1, <3>3 DEF Unbound, Sending, BindSessionKernel
    <3>5. QED BY <3>3, <3>4 DEF Unbound
  <2>2. CASE ~Binds
    <3>1. Sending(x) /\ x \notin Probes
      BY <1>2, <2>2, WhoSends DEF Unbound, Sending, SendsKept
    <3>2. sup'.kernels[x] = NoKernel
      BY <1>2 DEF Unbound
    <3>3. CASE sup.kernels[x] = NoKernel
      BY <3>1, <3>3 DEF Unbound
    <3>4. CASE sup.kernels[x] # NoKernel
      BY <1>2, <3>1, <3>2, <3>4, WhoForgets DEF KernelInv, Known
    <3>5. QED BY <3>3, <3>4
  <2>3. QED BY <2>1, <2>2
<1>3. KernelInv /\ SendsKept /\ [Next]_vars => [\A x \in Sessions :
          /\ \A p \in Procs : StartsTurn(p, x) => Kept(p, x)
          /\ Unbound(x)' => Lost(x)]_vars
  <2> HIDE DEF Kept, Lost
  <2>1. QED BY <1>1, <1>2
<1>4. Init => SendsKept
  BY DEF Init, SendsKept
<1>5. QED BY <1>3, <1>4, InitKernelInv, NextKernelInv, NextSendsInv, PTL
          DEF Spec, TurnsKeepTheirKernel

-----------------------------------------------------------------------------
(* The kernels do not disturb each other.                                   *)

\* From s to t only the slot of kernel k is written, and only sidecars of that kernel, or with
\* replaced credentials, stop.
Within(s, t, k) ==
    /\ \A l \in Kernels \ {k} : t.process[l] = s.process[l]
    /\ \A p \in Procs : s.child[p].life = "live" =>
          \/ s.child[p].stale \/ s.child[p].kernel = k
          \/ /\ t.child[p].life = "live" /\ t.child[p].stale = s.child[p].stale
             /\ t.child[p].kernel = s.child[p].kernel

LEMMA WithinTrans ==
    ASSUME NEW s, NEW t, NEW u, NEW k, Within(s, t, k), Within(t, u, k)
    PROVE  Within(s, u, k)
BY DEF Within

\* Nothing stops.
LEMMA MovesWithin ==
    ASSUME NEW s, NEW t, NEW k, \A l \in Kernels \ {k} : t.process[l] = s.process[l],
           \A p \in Procs : /\ t.child[p].life = s.child[p].life
                            /\ t.child[p].stale = s.child[p].stale
                            /\ t.child[p].kernel = s.child[p].kernel
    PROVE  Within(s, t, k)
BY DEF Within

\* What is removed is of that kernel, or stale.
LEMMA RemovedWithin ==
    ASSUME NEW s, NEW t, NEW P, NEW k, Removed(s, t, P),
           \A l \in Kernels \ {k} : t.process[l] = s.process[l],
           \A p \in P \cap Procs : s.child[p].stale \/ s.child[p].kernel = k
    PROVE  Within(s, t, k)
BY DEF Removed, Within

\* The reapers and evictParkedOverLimitLocked.
LEMMA ReapsWithin ==
    ASSUME NEW s, Good(s), NEW k \in Kernels
    PROVE  /\ Within(s, ReapParked(s, k), k) /\ Within(s, EvictOverLimit(s, k), k)
           /\ Within(s, ReapStale(s), k)
<1>1. ASSUME NEW K \in SUBSET IdleKeys(s, k)
      PROVE  Within(s, StopParked(s, K), k)
  <2> DEFINE P == {s.parked[key] : key \in K} \ {NoProc}
  <2>1. K \in SUBSET Keys /\ \A key \in K : key[1] = k
    BY StopsIdle
  <2>2. \A p \in P : s.child[p].kernel = k
    BY <2>1 DEF Good, Accounted, ParkedMatches
  <2>3. Removed(s, StopParked(s, K), P) /\ StopParked(s, K).process = s.process
    BY <2>1, StopParkedGood
  <2> HIDE DEF P
  <2>4. QED BY <2>2, <2>3, RemovedWithin
<1>2. Within(s, ReapStale(s), k)
  <2>1. PICK P \in SUBSET s.retiring : ReapStale(s) = StopRetired(s, P)
    BY Zenon DEF ReapStale
  <2>2. \A p \in P : s.child[p].stale
    BY DEF Good, Accounted, RetiringMatches
  <2>3. Removed(s, ReapStale(s), P) /\ ReapStale(s).process = s.process
    BY <2>1, StopRetiredGood
  <2>4. QED BY <2>2, <2>3, RemovedWithin
<1>3. QED BY <1>1, <1>2, StopsIdle

\* retireStaleProcessLocked stops nothing.
LEMMA RetireWithin ==
    ASSUME NEW s, NEW t \in Supervisor, NEW k, NEW p \in Procs, NEW unbound, t.child = s.child,
           \A l \in Kernels \ {k} : t.process[l] = s.process[l]
    PROVE  Within(s, Retire(t, p, unbound), k)
<1>1. Retire(t, p, unbound).process = t.process
  BY DEF Retire
<1>2. \A q \in Procs : /\ Retire(t, p, unbound).child[q].life = t.child[q].life
                       /\ Retire(t, p, unbound).child[q].stale = t.child[q].stale
                       /\ Retire(t, p, unbound).child[q].kernel = t.child[q].kernel
  BY DEF Retire, Supervisor, Child
<1>3. QED BY <1>1, <1>2, MovesWithin

LEMMA SetAsideWithin ==
    ASSUME NEW s, Good(s), NEW k \in Kernels
    PROVE  Within(s, SetAside(s, k), k)
<1> DEFINE p == s.process[k]
           t == [s EXCEPT !.process[k] = NoProc]
<1>1. CASE p = NoProc
  BY <1>1, MovesWithin DEF SetAside
<1>2. CASE p # NoProc /\ ~s.child[p].stale
  <2>1. SetAside(s, k) = EvictOverLimit(Put(s, k), k)
    BY <1>2 DEF SetAside, ParkCurrent, Put
  <2>2. /\ Good(Put(s, k)) /\ Put(s, k).process = [s.process EXCEPT ![k] = NoProc]
        /\ Put(s, k).child = [s.child EXCEPT ![p].idle = FALSE]
    BY <1>2, PutGood
  <2>3. \A q \in Procs : /\ Put(s, k).child[q].life = s.child[q].life
                         /\ Put(s, k).child[q].stale = s.child[q].stale
                         /\ Put(s, k).child[q].kernel = s.child[q].kernel
    BY <2>2 DEF Good, Supervisor, Child
  <2>4. \A l \in Kernels \ {k} : Put(s, k).process[l] = s.process[l]
    BY <2>2 DEF Good, Supervisor
  <2>5. Within(s, Put(s, k), k)
    BY <2>3, <2>4, MovesWithin
  <2>6. QED BY <2>1, <2>2, <2>5, ReapsWithin, WithinTrans
<1>3. CASE p # NoProc /\ s.child[p].stale
  <2>1. SetAside(s, k) = Retire(t, p, {NoWorkspace})
    BY <1>3 DEF SetAside
  <2>2. p \in Procs /\ t \in Supervisor /\ t.child = s.child
        /\ \A l \in Kernels \ {k} : t.process[l] = s.process[l]
    BY <1>3 DEF Good, Supervisor
  <2> HIDE DEF t, p
  <2>3. QED BY <2>1, <2>2, RetireWithin
<1>4. QED BY <1>1, <1>2, <1>3

LEMMA TakeBackWithin ==
    ASSUME NEW s, Good(s), NEW k \in Kernels, NEW w \in Workspaces
    PROVE  Within(s, TakeBack(s, k, w), k)
<1> DEFINE key == <<k, w>>
           p == s.parked[key]
           taken == TakeParked(s, {key})
           t == [taken EXCEPT !.process[k] = p, !.child[p].idle = FALSE]
<1>1. /\ taken \in Supervisor /\ taken.process = s.process /\ taken.child = s.child
  BY TakeParkedType DEF Good, Keys
<1> HIDE DEF taken
<1>2. p # NoProc => p \in Procs
  BY DEF Good, Supervisor, Keys
<1>3. CASE p = NoProc
  BY <1>3, MovesWithin DEF TakeBack
<1>4. CASE p # NoProc /\ s.child[p].stale
  <2>1. TakeBack(s, k, w) = Retire(taken, p, {})
    BY <1>4 DEF TakeBack, taken
  <2> HIDE DEF p
  <2>2. QED BY <1>1, <1>2, <1>4, <2>1, RetireWithin
<1>5. CASE p # NoProc /\ ~s.child[p].stale
  <2>1. TakeBack(s, k, w) = t
    BY <1>5 DEF TakeBack, taken
  <2>2. t.process = [s.process EXCEPT ![k] = p] /\ t.child = [s.child EXCEPT ![p].idle = FALSE]
    BY <1>1 DEF Supervisor
  <2> HIDE DEF t, p
  <2>3. \A q \in Procs : /\ t.child[q].life = s.child[q].life /\ t.child[q].stale = s.child[q].stale
                         /\ t.child[q].kernel = s.child[q].kernel
    BY <2>2 DEF Good, Supervisor, Child
  <2>4. \A l \in Kernels \ {k} : t.process[l] = s.process[l]
    BY <2>2 DEF Good, Supervisor
  <2>5. QED BY <2>1, <2>3, <2>4, MovesWithin
<1>6. QED BY <1>3, <1>4, <1>5

\* ensureKernelProcessLocked, up to the spawn and with it.
LEMMA EnsureWithin ==
    ASSUME NEW s, Good(s), NEW k \in Kernels, NEW w \in Workspaces
    PROVE  /\ Within(s, Prepared(s, k, w), k)
           /\ CanEnsure(s, k, w) => Within(s, EnsureKernelProcess(s, k, w), k)
<1> DEFINE reaped == ReapParked(s, k)
           swept == ReapStale(reaped)
           aside == SetAside(swept, k)
           back == TakeBack(aside, k, w)
           t == Prepared(s, k, w)
<1>1. Good(reaped) /\ Within(s, reaped, k)
  BY ReapParkedGood, ReapsWithin
<1> HIDE DEF reaped
<1>2. Good(swept) /\ Within(s, swept, k)
  BY <1>1, ReapStaleGood, ReapsWithin, WithinTrans
<1> HIDE DEF swept
<1>3. Good(aside) /\ Within(s, aside, k)
  BY <1>2, SetAsideGood, SetAsideWithin, WithinTrans
<1> HIDE DEF aside
<1>4. Within(s, back, k)
  BY <1>3, TakeBackWithin, WithinTrans
<1>5. t = swept \/ t = back
  BY DEF Prepared, swept, reaped, aside
<1> HIDE DEF back
<1>6. Within(s, t, k) /\ Good(t)
  BY <1>2, <1>4, <1>5, PreparedGood
<1>7. ASSUME CanEnsure(s, k, w), NeedsSpawn(s, k, w)
      PROVE  Within(s, EnsureKernelProcess(s, k, w), k)
  <2> DEFINE p == CHOOSE q \in Unused(t) : TRUE
             u == Spawn(t, k, w)
             fresh == [NoChild EXCEPT !.kernel = k, !.workspace = w, !.life = "live"]
  <2>1. p \in Procs /\ t.child[p].life = "none"
    BY <1>7 DEF CanEnsure, Unused
  <2>2. EnsureKernelProcess(s, k, w) = u
    BY <1>7 DEF EnsureKernelProcess
  <2> HIDE DEF p, t, fresh
  <2>3. u.process = [t.process EXCEPT ![k] = p] /\ u.child = [t.child EXCEPT ![p] = fresh]
    BY <1>6 DEF Spawn, p, fresh, Good, Supervisor
  <2> HIDE DEF u
  <2>4. Within(t, u, k)
    BY <1>6, <2>1, <2>3 DEF Within, Good, Supervisor
  <2>5. QED BY <1>6, <2>2, <2>4, WithinTrans
<1>8. QED BY <1>6, <1>7 DEF EnsureKernelProcess, t

\* A step that stays within a kernel leaves the others alone.
Apart == \A p \in Procs, k \in Kernels :
            Dies(p) /\ ~sup.child[p].stale /\ sup.child[p].kernel # k
                => sup'.process[k] = sup.process[k]

LEMMA WithinApart ==
    ASSUME NEW k \in Kernels, NEW s, NEW t, SamePlaces(sup, s), Within(s, t, k), SamePlaces(t, sup')
    PROVE  Apart
BY DEF SamePlaces, Within, Apart, Dies, Live

\* So does one that writes no slot,
LEMMA SlotsApart ==
    ASSUME sup'.process = sup.process
    PROVE  Apart
BY DEF Apart

\* or kills nothing but stale processes.
LEMMA StaleApart ==
    ASSUME \A p \in Procs : Dies(p) => sup.child[p].stale
    PROVE  Apart
BY DEF Apart

\* SendMessage, SendMessage without a process, RefreshBackgroundTasks.
LEMMA DispatchApart ==
    ASSUME IInv, NEW x \in Sessions, NEW w \in Workspaces,
           SendMessage(x, w) \/ SendMessageSpawnFails(x, w) \/ RefreshBackgroundTasks(x, w)
    PROVE  Apart
<1> DEFINE k == KernelOf(sup, x)
<1>1. Good(sup) /\ SamePlaces(sup, sup)
  BY IInvParts DEF SamePlaces
<1>2. CASE SendMessage(x, w)
  <2>1. k \in Kernels /\ CanEnsure(sup, k, w)
    BY <1>2, SendReady
  <2>2. SamePlaces(Ensured(x, w), sup')
    BY <1>2, SendReady DEF SamePlaces
  <2> HIDE DEF k
  <2>3. Within(sup, EnsureKernelProcess(sup, k, w), k)
    BY <1>1, <2>1, EnsureWithin
  <2>4. Within(sup, Ensured(x, w), k)
    BY <2>3 DEF Ensured, k
  <2>5. QED BY <1>1, <2>1, <2>2, <2>4, WithinApart
<1>3. CASE SendMessageSpawnFails(x, w)
  <2>1. sup' = Prepared(sup, k, w)
    BY <1>3 DEF SendMessageSpawnFails
  <2>2. k \in Kernels
    BY <1>1, KernelOfType DEF Good
  <2> HIDE DEF k
  <2>3. Within(sup, sup', k)
    BY <1>1, <2>1, <2>2, EnsureWithin
  <2>4. SamePlaces(sup', sup')
    BY DEF SamePlaces
  <2>5. QED BY <1>1, <2>2, <2>3, <2>4, WithinApart
<1>4. CASE RefreshBackgroundTasks(x, w)
  <2> DEFINE l == KernelOf(sup, x)
  <2>1. l \in Kernels /\ CanEnsure(sup, l, w) /\ sup' = EnsureKernelProcess(sup, l, w)
    BY <1>1, <1>4, KernelOfType DEF Good, RefreshBackgroundTasks
  <2> HIDE DEF l
  <2>2. Within(sup, sup', l)
    BY <1>1, <2>1, EnsureWithin
  <2>3. SamePlaces(sup, sup) /\ SamePlaces(sup', sup')
    BY DEF SamePlaces
  <2>4. QED BY <2>1, <2>2, <2>3, WithinApart
<1>5. QED BY <1>2, <1>3, <1>4

\* StopStaleSidecars stops stale processes.
LEMMA RevocationApart ==
    ASSUME IInv, StopStaleSidecars
    PROVE  Apart
<1> DEFINE stale(p) == p # NoProc /\ sup.child[p].stale
           active == {k \in Kernels : stale(sup.process[k])}
           parked == {key \in Keys : stale(sup.parked[key])}
           t == StopActive(sup, active)
           u == StopParked(t, parked)
           P == {p \in sup.retiring : stale(p)}
<1>1. Good(sup) /\ sup' = StopStale(sup)
  BY IInvParts DEF StopStaleSidecars
<1>2. /\ Good(t) /\ t.retiring = sup.retiring /\ t.parked = sup.parked
      /\ \A p \in Procs : t.child[p] = sup.child[p] \/ sup.child[p].stale
  <2>1. Good(t) /\ Removed(sup, t, {sup.process[k] : k \in active} \ {NoProc})
    BY <1>1, StopActiveGood
  <2>2. t.retiring = sup.retiring /\ t.parked = sup.parked
    BY DEF StopActive, Stop, Interrupt, ForgetSessions
  <2> HIDE DEF t
  <2>3. QED BY <2>1, <2>2 DEF Removed
<1>3. u.retiring = t.retiring
  BY DEF StopParked, Stop, Interrupt, ForgetSessions, TakeParked
<1>4. sup' = StopRetired(u, P)
  BY <1>1 DEF StopStale
<1> HIDE DEF t
<1>5. Good(u) /\ \A p \in Procs : u.child[p] = t.child[p] \/ sup.child[p].stale
  <2>1. Good(u) /\ Removed(t, u, {t.parked[key] : key \in parked} \ {NoProc})
    BY <1>2, StopParkedGood
  <2>2. \A p \in {t.parked[key] : key \in parked} \ {NoProc} : sup.child[p].stale
    BY <1>2
  <2> HIDE DEF u, parked
  <2>3. \A p \in Procs : p \in {t.parked[key] : key \in parked} \ {NoProc} \/ u.child[p] = t.child[p]
    BY <2>1 DEF Removed
  <2>4. QED BY <2>1, <2>2, <2>3
<1> HIDE DEF u
<1>6. \A p \in Procs : sup'.child[p] = u.child[p] \/ sup.child[p].stale
  <2>1. Removed(u, sup', P)
    BY <1>2, <1>3, <1>4, <1>5, StopRetiredGood
  <2>2. QED BY <2>1 DEF Removed
<1>7. QED BY <1>2, <1>5, <1>6, StaleApart DEF Dies, Live

\* RestartEngine writes the slot of the kernel whose process it stops.
LEMMA RestartApart ==
    ASSUME IInv, NEW x \in Sessions, RestartEngine(x)
    PROVE  Apart
<1> DEFINE p == ProcessForSession(sup, x)
           k == KernelOf(sup, x)
           key == <<k, sup.child[p].workspace>>
           carried == (sup.child[p].retiredTurns \cap sup.busy) \cup {x}
           stopped == CASE sup.process[k] = p -> StopActive(sup, {k})
                        [] sup.process[k] # p /\ sup.parked[key] = p -> StopParked(sup, {key})
                        [] OTHER -> Killed(sup, carried, p)
<1>1. /\ Good(sup) /\ sup \in Supervisor /\ k \in Kernels
      /\ p \in Tracked(sup) /\ sup' = Restarted(sup, x, p)
  BY IInvParts, KernelOfType, ProcessForSessionTracked DEF RestartEngine, Good
<1>2. p \in Procs /\ key \in Keys
  BY <1>1, TrackedProcs DEF Good, Accounted, AllPlaced, Keys
<1>3. SamePlaces(stopped, sup')
  <2>1. stopped \in Supervisor
    <3>1. carried \in SUBSET Sessions
      BY <1>1, <1>2 DEF Supervisor, Child
    <3>2. StopActive(sup, {k}) \in Supervisor /\ StopParked(sup, {key}) \in Supervisor
      BY <1>1, <1>2, StopActiveGood, StopParkedGood DEF Good
    <3>3. Killed(sup, carried, p) \in Supervisor
      BY <1>1, <3>1, KilledGood DEF Good
    <3>4. QED BY <3>2, <3>3
  <2>2. sup' = [ForgetSessions(stopped, {x}) EXCEPT !.notices = (@ \ {x}) \cup (sup.notices \cap {x})]
    BY <1>1 DEF Restarted, Killed
  <2> HIDE DEF stopped
  <2>3. ForgetSessions(stopped, {x}) \in Supervisor /\ SamePlaces(stopped, ForgetSessions(stopped, {x}))
    BY <2>1, ForgetSessionsType
  <2>4. QED BY <2>2, <2>3 DEF SamePlaces, Supervisor
<1>4. CASE sup.process[k] = p
  <2>1. stopped = StopActive(sup, {k})
    BY <1>4
  <2>2. Removed(sup, stopped, {sup.process[l] : l \in {k}} \ {NoProc})
    BY <1>1, <2>1, StopActiveGood
  <2>3. sup.child[p].kernel = k
    BY <1>1, <1>2, <1>4, ProcsAssumption DEF Good, Accounted, ActiveMatches
  <2> HIDE DEF stopped
  <2>4. \A l \in Kernels \ {k} : stopped.process[l] = sup.process[l]
    <3>1. \A l \in Kernels : sup.process[l] = p => l = k
      BY <1>1, <1>2, <2>3, ProcsAssumption DEF Good, Accounted, ActiveMatches
    <3>2. QED BY <1>4, <2>2, <3>1 DEF Removed
  <2>5. Within(sup, stopped, k)
    BY <1>4, <2>2, <2>3, <2>4, RemovedWithin
  <2>6. SamePlaces(sup, sup)
    BY DEF SamePlaces
  <2>7. QED BY <1>1, <1>3, <2>5, <2>6, WithinApart
<1>5. CASE sup.process[k] # p
  <2>1. stopped.process = sup.process
    <3>1. Killed(sup, carried, p).process = sup.process
      BY <1>1 DEF Killed, ForgetSessions, Supervisor
    <3>2. StopParked(sup, {key}).process = sup.process
      BY <1>1, <1>2, StopParkedGood
    <3>3. QED BY <1>5, <3>1, <3>2
  <2> HIDE DEF stopped
  <2>2. QED BY <1>3, <2>1, SlotsApart DEF SamePlaces
<1>6. QED BY <1>4, <1>5

\* The end of file is that of a process which is dead already.
LEMMA ExitApart ==
    ASSUME IInv, NEW p \in Procs, ProcessExits(p)
    PROVE  Apart
<1>1. Removed(sup, sup', {p})
  BY IInvParts, ExitedGood DEF ProcessExits
<1>2. \A q \in Procs : ~Dies(q)
  BY <1>1 DEF Removed, Dies, Live, ProcessExits
<1>3. QED BY <1>2, StaleApart

\* Opening or restarting a workspace's sidecar never disturbs another kernel's.
THEOREM KernelsApart == Spec => KernelsParkApart
<1>1. ASSUME IInv, Next PROVE Apart
  <2>0. sup \in Supervisor
    BY <1>1, IInvParts DEF Good
  <2>1. CASE Sends \/ SpawnFailures
    BY <1>1, <2>1, DispatchApart DEF Sends, SpawnFailures
  <2>2. CASE Recovery
    <3>1. ASSUME NEW x \in Sessions,
                 (\E w \in Workspaces : RecoverSession(x, w)) \/ RecoveryEnds(x)
          PROVE  Apart
      BY <2>0, <3>1, SlotsApart DEF RecoverSession, RecoveryEnds, Supervisor
    <3>2. QED BY <1>1, <2>2, <3>1, DispatchApart DEF Recovery
  <2>3. CASE Revocation \/ Restarts
    BY <1>1, <2>3, RevocationApart, RestartApart DEF Revocation, Restarts
  <2>4. CASE Readers
    <3>1. ASSUME NEW q \in Procs, ReadEvent(q) PROVE Apart
      BY <2>0, <3>1, SlotsApart DEF ReadEvent, Observed, Supervisor
    <3>2. ASSUME NEW x \in Sessions, DeliverNotice(x) PROVE Apart
      BY <2>0, <3>2, SlotsApart DEF DeliverNotice, Supervisor
    <3>3. QED BY <1>1, <2>4, <3>1, <3>2, ExitApart DEF Readers
  <2>5. CASE Binds \/ Aborts \/ Streams \/ TurnEndings \/ Relays \/ Removals
    <3>1. sup'.process = sup.process
      BY <2>0, <2>5 DEF Supervisor, Binds, BindSessionKernel, BindKernel, Aborts, Streams, TurnEndings, AbortMessage, ForceStop, ModelCallFails, TurnWorks,
         TurnSettles, TurnFails, TurnEnds, Relays, RelayMessage, ContinueBusy, Removals,
         DetachSession, DestroySession, ForgetSessions
    <3>2. QED BY <3>1, SlotsApart
  <2>6. CASE Research \/ ProbesAndForks
    <3>1. sup'.process = sup.process
      BY <2>0, <2>6 DEF Supervisor, Research, TrackResearchRun, UntrackResearchRun, WorkersStart, WorkersEnd,
         ProbesAndForks, StartProbe, EndProbe, ForkSession, ForkAnswered, ForkTimesOut,
         ForgetSessions
    <3>2. QED BY <3>1, SlotsApart
  <2>7. CASE Rotation \/ Ceilings \/ Crashes \/ Idling
    <3>1. sup'.process = sup.process
      BY <2>0, <2>7 DEF Supervisor, Rotation, InvalidateCredentials, Ceilings, BusyCeiling, Crashes, Crash, Idling,
         IdleTimeout
    <3>2. QED BY <3>1, SlotsApart
  <2>8. QED BY <1>1, <2>1, <2>2, <2>3, <2>4, <2>5, <2>6, <2>7 DEF Next
<1>2. IInv /\ [Next]_vars => [\A p \in Procs, k \in Kernels :
                                Dies(p) /\ ~sup.child[p].stale /\ sup.child[p].kernel # k
                                    => sup'.process[k] = sup.process[k]]_vars
  BY <1>1 DEF Apart
<1>3. QED BY <1>2, InitIInv, NextIInv, PTL DEF Spec, KernelsParkApart

-----------------------------------------------------------------------------
(* The limit of parked processes.                                           *)

\* The times of parkedAt, and the places in the slice of retiring processes, are strict orders.
Ordered(s) ==
    /\ \A p, q \in Procs : <<p, q>> \in s.order =>
          {p, q} \subseteq ParkedProcs(s) \/ {p, q} \subseteq s.retiring
    /\ \A p \in Procs : <<p, p>> \notin s.order
    /\ \A p, q, r \in Procs :
          <<p, q>> \in s.order /\ <<q, r>> \in s.order => <<p, r>> \in s.order

\* evictParkedOverLimitLocked keeps more than the limit only if all it keeps are busy: an idle
\* one that is kept, of those the one with the fewest older ones, has no older one that is
\* kept, so as many went as had to.
LEMMA KeptAreBusy ==
    ASSUME NEW s, Good(s), Ordered(s), NEW k \in Kernels,
           Cardinality(ParkedKeys(EvictOverLimit(s, k), k)) > maxParkedSidecars,
           NEW key \in ParkedKeys(EvictOverLimit(s, k), k)
    PROVE  WorkspaceRunning(s, k, key[2])
<1> DEFINE parked == ParkedKeys(s, k)
           idle == IdleKeys(s, k)
           older(one) == {other \in idle : <<s.parked[other], s.parked[one]>> \in s.order}
           gone == {one \in idle : Cardinality(older(one)) + maxParkedSidecars < Cardinality(parked)}
           t == EvictOverLimit(s, k)
<1>1. s \in Supervisor /\ ParkedMatches(s)
  BY DEF Good, Accounted
<1>2. idle \subseteq parked /\ gone \subseteq idle /\ parked \subseteq Keys
  BY DEF IdleKeys, ParkedKeys, Keys
<1>3. IsFiniteSet(parked)
  <2>1. IsFiniteSet({k} \X Workspaces)
    BY WorkspacesAssumption, FS_Singleton, FS_Product
  <2>2. QED BY <2>1, FS_Subset DEF ParkedKeys
<1>4. ParkedKeys(t, k) = parked \ gone
  <2>1. t = StopParked(s, gone)
    BY DEF EvictOverLimit
  <2> HIDE DEF t, gone
  <2>2. Removed(s, t, {s.parked[one] : one \in gone} \ {NoProc})
    BY <1>2, <2>1, StopParkedGood
  <2>3. ASSUME NEW one \in {k} \X Workspaces
        PROVE  t.parked[one] # NoProc <=> s.parked[one] # NoProc /\ one \notin gone
    <3>1. one \in Keys
      BY DEF Keys
    <3>2. s.parked[one] # NoProc /\ one \notin gone =>
              s.parked[one] \notin {s.parked[other] : other \in gone}
      BY <1>1, <1>2, <3>1 DEF ParkedMatches, IdleKeys, ParkedKeys
    <3>3. QED BY <2>2, <3>1, <3>2 DEF Removed
  <2>4. QED BY <2>3 DEF ParkedKeys
<1>5. ASSUME NEW kept \in idle \ gone
      PROVE  Cardinality(parked \ gone) <= maxParkedSidecars
  <2> DEFINE R == StrictSubsetOrdering(parked)
             T == {older(one) : one \in idle \ gone}
  <2>1. \A one \in idle : older(one) \in FiniteSubsetsOf(parked)
    <3>1. \A one \in idle : older(one) \in SUBSET parked
      BY <1>2
    <3>2. QED BY <1>3, <3>1, FS_FiniteSubsetsOfFinite
  <2>2. T \subseteq FiniteSubsetsOf(parked) /\ T # {}
    <3>1. older(kept) \in T
      OBVIOUS
    <3> HIDE DEF older, idle, gone
    <3>2. QED BY <2>1, <3>1
  <2>3. IsWellFoundedOn(R, FiniteSubsetsOf(parked))
    BY FS_StrictSubsetOrderingWellFounded
  <2>4. \E X \in T : \A Y \in T : ~ (<<Y, X>> \in R)
    <3> HIDE DEF T, R
    <3>1. QED BY <2>2, <2>3, WFMin
  <2>5. PICK first \in idle \ gone : \A one \in idle \ gone : ~ (<<older(one), older(first)>> \in R)
    BY <2>4
  <2>6. older(first) \subseteq gone
    <3> SUFFICES ASSUME NEW other \in older(first), other \notin gone PROVE FALSE
      OBVIOUS
    <3>1. s.parked[first] \in Procs /\ s.parked[other] \in Procs /\ other \in idle
      BY <1>1, <1>2 DEF Supervisor, IdleKeys, ParkedKeys
    <3>2. \A one \in older(other) : s.parked[one] \in Procs
      BY <1>1, <1>2 DEF Supervisor, IdleKeys, ParkedKeys
    <3>3. older(other) \subseteq older(first)
      BY <3>1, <3>2 DEF Ordered
    <3>4. other \notin older(other)
      BY <3>1 DEF Ordered
    <3>5. <<older(other), older(first)>> \in R
      <4>1. older(other) \in SUBSET parked /\ older(first) \in SUBSET parked
        BY <1>2
      <4>2. older(other) # older(first)
        BY <3>4
      <4> HIDE DEF older
      <4>3. QED BY <3>3, <4>1, <4>2 DEF StrictSubsetOrdering
    <3>6. QED BY <2>5, <3>1, <3>5
  <2>7. /\ IsFiniteSet(gone) /\ Cardinality(older(first)) <= Cardinality(gone)
        /\ Cardinality(older(first)) \in Nat /\ Cardinality(gone) \in Nat
    <3>1. IsFiniteSet(gone)
      BY <1>2, <1>3, FS_Subset
    <3> HIDE DEF gone, older
    <3>2. IsFiniteSet(older(first)) /\ Cardinality(older(first)) <= Cardinality(gone)
      BY <2>6, <3>1, FS_Subset
    <3>3. QED BY <3>1, <3>2, FS_CardinalityType
  <2>8. ~ (Cardinality(older(first)) + maxParkedSidecars < Cardinality(parked))
    BY <2>5
  <2>9. Cardinality(parked \ gone) = Cardinality(parked) - Cardinality(gone)
    <3>1. parked \cap gone = gone
      BY <1>2
    <3> HIDE DEF gone, parked
    <3>2. QED BY <1>3, <3>1, FS_Difference
  <2>10. Cardinality(parked) \in Nat
    BY <1>3, FS_CardinalityType
  <2> HIDE DEF gone, parked, older
  <2>11. QED BY <2>7, <2>8, <2>9, <2>10, LimitAssumption
<1>6. Cardinality(parked \ gone) \in Nat /\ Cardinality(parked \ gone) > maxParkedSidecars
  <2>1. IsFiniteSet(parked \ gone)
    BY <1>3, FS_Difference
  <2>2. QED BY <1>4, <2>1, FS_CardinalityType
<1>7. key \in parked \ gone
  BY <1>4
<1>8. idle \ gone = {}
  <2> HIDE DEF gone, parked, idle
  <2>1. QED BY <1>5, <1>6, LimitAssumption
<1>9. QED BY <1>7, <1>8 DEF IdleKeys

\* Processes leave the orders with their place.
Thins(s, t, P) ==
    /\ t.order = Without(s.order, P)
    /\ ParkedProcs(s) \ P \subseteq ParkedProcs(t)
    /\ s.retiring \ P \subseteq t.retiring

LEMMA ThinsOrdered ==
    ASSUME NEW s, NEW t, NEW P, Ordered(s), Thins(s, t, P)
    PROVE  Ordered(t)
BY DEF Thins, Ordered, Without

\* Nothing leaves.
SameOrder(s, t) == t.order = s.order /\ t.parked = s.parked /\ t.retiring = s.retiring

LEMMA SameOrderOrdered ==
    ASSUME NEW s, NEW t, Ordered(s), SameOrder(s, t)
    PROVE  Ordered(t)
BY DEF SameOrder, Ordered, ParkedProcs

\* A process is put behind all the parked, or all the retiring, ones.
LEMMA BehindOrdered ==
    ASSUME NEW s \in Supervisor, Ordered(s), s.retiring \cap ParkedProcs(s) = {},
           NEW t, NEW p \in Procs, NEW B,
           \/ B = ParkedProcs(s) \ {p} /\ p \in ParkedProcs(t)
           \/ B = s.retiring \ {p} /\ p \in t.retiring,
           t.order = Without(s.order, {p}) \cup {<<q, p>> : q \in B},
           ParkedProcs(s) \ {p} \subseteq ParkedProcs(t), s.retiring \ {p} \subseteq t.retiring
    PROVE  Ordered(t)
<1>1. B \subseteq Procs
  BY DEF Supervisor, ParkedProcs
<1>2. \A q, r \in Procs : <<q, r>> \in t.order <=>
          \/ <<q, r>> \in s.order /\ q # p /\ r # p
          \/ q \in B /\ r = p
  BY <1>1 DEF Without
<1>3. \A q, r \in Procs : <<q, r>> \in t.order =>
          {q, r} \subseteq ParkedProcs(t) \/ {q, r} \subseteq t.retiring
  <2> TAKE q \in Procs, r \in Procs
  <2>1. CASE <<q, r>> \in s.order /\ q # p /\ r # p
    BY <2>1 DEF Ordered
  <2>2. CASE q \in B /\ r = p
    BY <2>2
  <2>3. QED BY <1>2, <2>1, <2>2
<1>4. \A q \in Procs : <<q, q>> \notin t.order
  BY <1>2 DEF Ordered
<1>5. ASSUME NEW q \in Procs, NEW r \in Procs, NEW o \in Procs,
             <<q, r>> \in t.order, <<r, o>> \in t.order
      PROVE  <<q, o>> \in t.order
  <2>1. <<q, r>> \in s.order /\ q # p /\ r # p
    BY <1>2, <1>5
  <2>2. CASE <<r, o>> \in s.order /\ o # p
    BY <1>2, <2>1, <2>2 DEF Ordered
  <2>3. CASE r \in B /\ o = p
    <3>1. {q, r} \subseteq ParkedProcs(s) \/ {q, r} \subseteq s.retiring
      BY <2>1 DEF Ordered
    <3>2. q \in B
      BY <2>1, <2>3, <3>1
    <3>3. QED BY <1>2, <2>3, <3>2
  <2>4. QED BY <1>2, <1>5, <2>2, <2>3
<1>6. QED BY <1>3, <1>4, <1>5 DEF Ordered

\* The stops.
LEMMA StopParkedOrdered ==
    ASSUME NEW s, Good(s), Ordered(s), NEW K \in SUBSET Keys
    PROVE  Ordered(StopParked(s, K))
<1> DEFINE P == {s.parked[key] : key \in K}
           t == StopParked(s, K)
<1>1. CASE K = {}
  BY <1>1 DEF StopParked
<1>2. CASE K # {}
  <2>1. /\ t.order = Without(s.order, P) /\ t.retiring = s.retiring
        /\ t.parked = [key \in Keys |-> IF key \in K THEN NoProc ELSE s.parked[key]]
    BY <1>2 DEF StopParked, Interrupt, ForgetSessions, Stop, TakeParked, Good, Supervisor
  <2> HIDE DEF t
  <2>2. ParkedProcs(s) \ P \subseteq ParkedProcs(t)
    BY <2>1 DEF ParkedProcs
  <2>3. Thins(s, t, P)
    BY <2>1, <2>2 DEF Thins
  <2> HIDE DEF P
  <2>4. Ordered(t)
    BY <2>3, ThinsOrdered
  <2>5. QED BY <2>4 DEF t
<1>3. QED BY <1>1, <1>2

LEMMA StopRetiredOrdered ==
    ASSUME NEW s, Good(s), Ordered(s), NEW P \in SUBSET s.retiring
    PROVE  Ordered(StopRetired(s, P))
<1> DEFINE t == StopRetired(s, P)
<1>1. CASE P = {}
  BY <1>1 DEF StopRetired
<1>2. CASE P # {}
  <2>1. t.order = Without(s.order, P) /\ t.retiring = s.retiring \ P /\ t.parked = s.parked
    BY <1>2 DEF StopRetired, Interrupt, ForgetSessions, Stop, TakeRetiring, Good, Supervisor
  <2>2. Thins(s, t, P)
    BY <2>1 DEF Thins, ParkedProcs
  <2>3. QED BY <2>2, ThinsOrdered
<1>3. QED BY <1>1, <1>2

LEMMA ReapsOrdered ==
    ASSUME NEW s, Good(s), Ordered(s), NEW k \in Kernels
    PROVE  /\ Ordered(ReapParked(s, k)) /\ Ordered(EvictOverLimit(s, k))
           /\ Ordered(ReapStale(s))
<1>1. PICK P \in SUBSET s.retiring : ReapStale(s) = StopRetired(s, P)
  BY Zenon DEF ReapStale
<1>2. QED BY <1>1, StopsIdle, StopParkedOrdered, StopRetiredOrdered

\* parkCurrentLocked, before it looks at the limit.
LEMMA PutOrdered ==
    ASSUME NEW s, Good(s), Ordered(s), NEW k \in Kernels, s.process[k] # NoProc
    PROVE  Ordered(Put(s, k))
<1> DEFINE p == s.process[k]
           t == Put(s, k)
           B == ParkedProcs(s) \ {p}
<1>1. s \in Supervisor /\ p \in Procs /\ s.retiring \cap ParkedProcs(s) = {}
  BY DEF Good, Supervisor, Accounted, PlacesDisjoint
<1>2. t.order = Without(s.order, {p}) \cup {<<q, p>> : q \in B}
  BY <1>1 DEF Put, Supervisor
<1>3. t.retiring = s.retiring /\ ParkedProcs(t) = ParkedProcs(s) \cup {p}
  BY PutGood
<1> HIDE DEF t, p
<1>4. Ordered(t)
  <2>1. /\ ParkedProcs(s) \ {p} \subseteq ParkedProcs(t) /\ s.retiring \ {p} \subseteq t.retiring
        /\ p \in ParkedProcs(t)
    BY <1>3 DEF p
  <2>2. QED BY <1>1, <1>2, <2>1, BehindOrdered
<1>5. QED BY <1>4 DEF t

\* retireStaleProcessLocked.
LEMMA RetireOrdered ==
    ASSUME NEW t \in Supervisor, Ordered(t), NEW p \in Procs \ t.retiring,
           t.retiring \cap ParkedProcs(t) = {}, NEW unbound
    PROVE  Ordered(Retire(t, p, unbound))
<1> DEFINE u == Retire(t, p, unbound)
           B == t.retiring \ {p}
<1>1. /\ u.order = Without(t.order, {p}) \cup {<<q, p>> : q \in B}
      /\ u.retiring = t.retiring \cup {p} /\ u.parked = t.parked
  <2>1. B = t.retiring
    OBVIOUS
  <2>2. QED BY <2>1 DEF Retire, Supervisor
<1>2. ParkedProcs(u) = ParkedProcs(t)
  BY <1>1 DEF ParkedProcs
<1> HIDE DEF u
<1>3. Ordered(u)
  BY <1>1, <1>2, BehindOrdered
<1>4. QED BY <1>3 DEF u

LEMMA SetAsideOrdered ==
    ASSUME NEW s, Good(s), Ordered(s), NEW k \in Kernels
    PROVE  Ordered(SetAside(s, k))
<1> DEFINE p == s.process[k]
           t == [s EXCEPT !.process[k] = NoProc]
<1>1. CASE p = NoProc
  BY <1>1 DEF SetAside
<1>2. CASE p # NoProc /\ ~s.child[p].stale
  <2>1. SetAside(s, k) = EvictOverLimit(Put(s, k), k)
    BY <1>2 DEF SetAside, ParkCurrent, Put
  <2>2. Good(Put(s, k)) /\ Ordered(Put(s, k))
    BY <1>2, PutGood, PutOrdered
  <2>3. QED BY <2>1, <2>2, ReapsOrdered
<1>3. CASE p # NoProc /\ s.child[p].stale
  <2>1. SetAside(s, k) = Retire(t, p, {NoWorkspace})
    BY <1>3 DEF SetAside
  <2>2. p \in Procs \ s.retiring /\ s.retiring \cap ParkedProcs(s) = {}
    BY <1>3 DEF Good, Supervisor, Accounted, PlacesDisjoint, ActiveProcs
  <2>3. t \in Supervisor /\ SameOrder(s, t)
    BY DEF Good, Supervisor, SameOrder
  <2> HIDE DEF t, p
  <2>4. Ordered(t)
    BY <2>3, SameOrderOrdered
  <2>5. t.retiring = s.retiring /\ ParkedProcs(t) = ParkedProcs(s)
    BY <2>3 DEF SameOrder, ParkedProcs
  <2>6. QED BY <2>1, <2>2, <2>3, <2>4, <2>5, RetireOrdered
<1>4. QED BY <1>1, <1>2, <1>3

LEMMA TakeBackOrdered ==
    ASSUME NEW s, Good(s), Ordered(s), NEW k \in Kernels, NEW w \in Workspaces
    PROVE  Ordered(TakeBack(s, k, w))
<1> DEFINE key == <<k, w>>
           p == s.parked[key]
           taken == TakeParked(s, {key})
<1>1. s \in Supervisor /\ key \in Keys
  BY DEF Good, Keys
<1>2. /\ taken \in Supervisor /\ taken.retiring = s.retiring
      /\ taken.parked = [other \in Keys |-> IF other \in {key} THEN NoProc ELSE s.parked[other]]
  BY <1>1, TakeParkedType
<1>3. taken.order = Without(s.order, {p})
  <2>1. {s.parked[one] : one \in {key}} = {p}
    OBVIOUS
  <2>2. QED BY <1>1, <2>1 DEF TakeParked, Supervisor
<1> HIDE DEF taken
<1>4. /\ ParkedProcs(s) \ {p} \subseteq ParkedProcs(taken)
      /\ ParkedProcs(taken) \subseteq ParkedProcs(s)
  BY <1>2 DEF ParkedProcs
<1>5. Thins(s, taken, {p})
  BY <1>2, <1>3, <1>4 DEF Thins
<1> HIDE DEF p
<1>6. Ordered(taken)
  BY <1>5, ThinsOrdered
<1>7. CASE p = NoProc
  BY <1>7 DEF TakeBack, p
<1>8. CASE p # NoProc /\ s.child[p].stale
  <2>1. TakeBack(s, k, w) = Retire(taken, p, {})
    BY <1>8 DEF TakeBack, taken, p
  <2>2. p \in Procs \ s.retiring /\ s.retiring \cap ParkedProcs(s) = {}
    BY <1>1, <1>8 DEF p, Good, Supervisor, Accounted, PlacesDisjoint, ParkedProcs
  <2>3. QED BY <1>2, <1>4, <1>6, <2>1, <2>2, RetireOrdered
<1>9. CASE p # NoProc /\ ~s.child[p].stale
  <2>1. TakeBack(s, k, w) = [taken EXCEPT !.process[k] = p, !.child[p].idle = FALSE]
    BY <1>9 DEF TakeBack, taken, p
  <2>2. SameOrder(taken, TakeBack(s, k, w))
    BY <1>2, <2>1 DEF SameOrder, Supervisor
  <2>3. QED BY <1>6, <2>2, SameOrderOrdered
<1>10. QED BY <1>7, <1>8, <1>9

\* ensureKernelProcessLocked, up to the spawn and with it.
LEMMA EnsureOrdered ==
    ASSUME NEW s, Good(s), Ordered(s), NEW k \in Kernels, NEW w \in Workspaces
    PROVE  /\ Ordered(Prepared(s, k, w))
           /\ CanEnsure(s, k, w) => Ordered(EnsureKernelProcess(s, k, w))
<1> DEFINE reaped == ReapParked(s, k)
           swept == ReapStale(reaped)
           aside == SetAside(swept, k)
           back == TakeBack(aside, k, w)
           t == Prepared(s, k, w)
<1>1. Good(reaped) /\ Ordered(reaped)
  BY ReapParkedGood, ReapsOrdered
<1> HIDE DEF reaped
<1>2. Good(swept) /\ Ordered(swept)
  <2>1. Ordered(swept)
    BY <1>1, ReapsOrdered, KernelsAssumption
  <2>2. QED BY <1>1, <2>1, ReapStaleGood
<1> HIDE DEF swept
<1>3. Good(aside) /\ Ordered(aside)
  BY <1>2, SetAsideGood, SetAsideOrdered
<1> HIDE DEF aside
<1>4. Ordered(back)
  BY <1>3, TakeBackOrdered
<1>5. t = swept \/ t = back
  BY DEF Prepared, swept, reaped, aside
<1> HIDE DEF back
<1>6. Ordered(t) /\ Good(t)
  BY <1>2, <1>4, <1>5, PreparedGood
<1>7. SameOrder(t, Spawn(t, k, w))
  BY <1>6 DEF Spawn, SameOrder, Good, Supervisor
<1>8. EnsureKernelProcess(s, k, w) \in {t, Spawn(t, k, w)}
  BY DEF EnsureKernelProcess
<1>9. QED BY <1>6, <1>7, <1>8, SameOrderOrdered

LEMMA DispatchOrdered ==
    ASSUME IInv, Ordered(sup), NEW x \in Sessions, NEW w \in Workspaces,
           SendMessage(x, w) \/ SendMessageSpawnFails(x, w) \/ RefreshBackgroundTasks(x, w)
    PROVE  Ordered(sup')
<1> DEFINE k == KernelOf(sup, x)
<1>1. Good(sup) /\ sup \in Supervisor
  BY IInvParts DEF Good
<1>2. k \in Kernels
  BY <1>1, KernelOfType
<1>3. CASE SendMessage(x, w)
  <2>1. CanEnsure(sup, k, w) /\ Good(Ensured(x, w)) /\ Good(Ready(x, w))
    BY <1>3, SendReady
  <2>2. \/ sup' = [Ready(x, w) EXCEPT !.sessions = @ \cup {x}, !.busy = @ \cup {x}]
        \/ sup' = Ready(x, w)
    BY <1>3 DEF SendMessage, Ready, Ensured
  <2>3. SameOrder(Ensured(x, w), Ready(x, w))
    BY <2>1 DEF Ready, SameOrder, Good, Supervisor
  <2>4. SameOrder(Ready(x, w), sup')
    BY <2>1, <2>2 DEF SameOrder, Good, Supervisor
  <2> HIDE DEF k
  <2>5. Ordered(EnsureKernelProcess(sup, k, w))
    BY <1>1, <1>2, <2>1, EnsureOrdered
  <2>6. Ordered(Ensured(x, w))
    BY <2>5 DEF Ensured, k
  <2>7. QED BY <2>3, <2>4, <2>6, SameOrderOrdered
<1>4. CASE SendMessageSpawnFails(x, w)
  <2>1. sup' = Prepared(sup, k, w)
    BY <1>4 DEF SendMessageSpawnFails
  <2> HIDE DEF k
  <2>2. QED BY <1>1, <1>2, <2>1, EnsureOrdered
<1>5. CASE RefreshBackgroundTasks(x, w)
  <2>1. CanEnsure(sup, k, w) /\ sup' = EnsureKernelProcess(sup, k, w)
    BY <1>5 DEF RefreshBackgroundTasks
  <2> HIDE DEF k
  <2>2. QED BY <1>1, <1>2, <2>1, EnsureOrdered
<1>6. QED BY <1>3, <1>4, <1>5

\* StopStaleSidecars.
LEMMA StopStaleOrdered ==
    ASSUME NEW s, Good(s), Ordered(s)
    PROVE  Ordered(StopStale(s))
<1> DEFINE stale(p) == p # NoProc /\ s.child[p].stale
           active == {k \in Kernels : stale(s.process[k])}
           parked == {key \in Keys : stale(s.parked[key])}
           t == StopActive(s, active)
           u == StopParked(t, parked)
           P == {p \in s.retiring : stale(p)}
<1>1. Good(t) /\ SameOrder(s, t)
  <2>1. SameOrder(s, t)
    BY DEF StopActive, Stop, Interrupt, ForgetSessions, SameOrder, Good, Supervisor
  <2>2. QED BY <2>1, StopActiveGood
<1>2. u.retiring = t.retiring
  BY DEF StopParked, Stop, Interrupt, ForgetSessions, TakeParked
<1>3. StopStale(s) = StopRetired(u, P)
  BY DEF StopStale
<1> HIDE DEF t
<1>4. Good(u) /\ Ordered(u)
  BY <1>1, SameOrderOrdered, StopParkedGood, StopParkedOrdered
<1>5. P \in SUBSET u.retiring
  BY <1>1, <1>2 DEF SameOrder
<1> HIDE DEF u, P
<1>6. QED BY <1>3, <1>4, <1>5, StopRetiredOrdered

\* RestartEngine.
LEMMA RestartedOrdered ==
    ASSUME NEW s, Good(s), Ordered(s), NEW x \in Sessions, NEW p \in Tracked(s)
    PROVE  Ordered(Restarted(s, x, p))
<1> DEFINE k == KernelOf(s, x)
           key == <<k, s.child[p].workspace>>
           carried == (s.child[p].retiredTurns \cap s.busy) \cup {x}
           stopped == CASE s.process[k] = p -> StopActive(s, {k})
                        [] s.process[k] # p /\ s.parked[key] = p -> StopParked(s, {key})
                        [] OTHER -> Killed(s, carried, p)
<1>1. s \in Supervisor /\ p \in Procs /\ k \in Kernels /\ key \in Keys
  BY TrackedProcs, KernelOfType DEF Good, Accounted, AllPlaced, Keys
<1>2. Ordered(StopActive(s, {k})) /\ StopActive(s, {k}) \in Supervisor
  <2>1. SameOrder(s, StopActive(s, {k}))
    BY <1>1 DEF StopActive, Stop, Interrupt, ForgetSessions, SameOrder, Supervisor
  <2>2. QED BY <1>1, <2>1, SameOrderOrdered, StopActiveGood DEF Good
<1>3. Ordered(StopParked(s, {key})) /\ StopParked(s, {key}) \in Supervisor
  BY <1>1, StopParkedOrdered, StopParkedGood DEF Good
<1>4. Ordered(Killed(s, carried, p)) /\ Killed(s, carried, p) \in Supervisor
  <2>1. SameOrder(s, Killed(s, carried, p))
    BY <1>1 DEF Killed, ForgetSessions, SameOrder, Supervisor
  <2>2. carried \in SUBSET Sessions
    BY <1>1 DEF Supervisor, Child
  <2>3. QED BY <2>1, <2>2, SameOrderOrdered, KilledGood DEF Good
<1>5. Ordered(stopped) /\ stopped \in Supervisor
  BY <1>2, <1>3, <1>4
<1>6. Restarted(s, x, p) =
          [ForgetSessions(stopped, {x}) EXCEPT !.notices = (@ \ {x}) \cup (s.notices \cap {x})]
  BY DEF Restarted, Killed
<1> HIDE DEF stopped
<1>7. SameOrder(stopped, Restarted(s, x, p))
  BY <1>5, <1>6 DEF ForgetSessions, SameOrder, Supervisor
<1>8. QED BY <1>5, <1>7, SameOrderOrdered

\* readEvents, after the end of file.
LEMMA ExitedOrdered ==
    ASSUME NEW s, Good(s), Ordered(s), NEW p \in Procs
    PROVE  Ordered(Exited(s, p))
<1> DEFINE c == s.child[p]
           key == <<c.kernel, c.workspace>>
           served == ServedBy(s, c.kernel, {c.workspace, NoWorkspace})
           research == IF c.kernel = KernelPi THEN served \cap (s.workers \cup s.runs) ELSE {}
           carried == {x \in c.retiredTurns \cap s.sessions : KernelOf(s, x) = c.kernel}
           told == IF c.retired THEN {} ELSE carried \cap Working(s)
           retired == Interrupt(TakeRetiring(s, {p}), told)
           cleared == [ForgetSessions(s, served) EXCEPT !.process[c.kernel] = NoProc,
                                                        !.notices = @ \cup research]
           gone == ServedBy(s, c.kernel, {c.workspace})
           dropped == Interrupt(TakeParked(s, {key}), gone)
           left == CASE p \in s.retiring -> retired
                     [] p \notin s.retiring /\ s.process[c.kernel] = p -> cleared
                     [] p \in ParkedProcs(s) -> dropped
                     [] OTHER -> s
<1>1. s \in Supervisor
  BY DEF Good
<1>2. Exited(s, p) = [left EXCEPT !.child[p] = NoChild]
  BY DEF Exited
<1> HIDE DEF served, research, told, gone
<1>3. Ordered(retired)
  <2>1. /\ retired.order = Without(s.order, {p}) /\ retired.retiring = s.retiring \ {p}
        /\ retired.parked = s.parked
    BY <1>1 DEF Interrupt, ForgetSessions, TakeRetiring, Supervisor
  <2> HIDE DEF retired
  <2>2. Thins(s, retired, {p})
    BY <2>1 DEF Thins, ParkedProcs
  <2>3. QED BY <2>2, ThinsOrdered
<1>4. Ordered(cleared)
  <2>1. SameOrder(s, cleared)
    BY <1>1 DEF ForgetSessions, SameOrder, Supervisor
  <2>2. QED BY <2>1, SameOrderOrdered
<1>5. Ordered(dropped)
  <2> DEFINE P == {s.parked[one] : one \in {key}}
  <2>1. /\ dropped.order = Without(s.order, P) /\ dropped.retiring = s.retiring
        /\ dropped.parked = [one \in Keys |-> IF one \in {key} THEN NoProc ELSE s.parked[one]]
    BY <1>1 DEF Interrupt, ForgetSessions, TakeParked, Supervisor
  <2> HIDE DEF dropped, key
  <2>2. ParkedProcs(s) \ P \subseteq ParkedProcs(dropped)
    BY <2>1 DEF ParkedProcs
  <2>3. Thins(s, dropped, P)
    BY <2>1, <2>2 DEF Thins
  <2>4. QED BY <2>3, ThinsOrdered
<1> HIDE DEF retired, cleared, dropped
<1>6. Ordered(left)
  BY <1>3, <1>4, <1>5
<1> HIDE DEF left
<1>7. SameOrder(left, Exited(s, p))
  BY <1>2 DEF SameOrder
<1>8. QED BY <1>6, <1>7, SameOrderOrdered

\* The orders are strict in every state.
OrderInv == IInv /\ Ordered(sup)

LEMMA NextOrderInv == OrderInv /\ [Next]_vars => OrderInv'
<1> SUFFICES ASSUME OrderInv, [Next]_vars PROVE OrderInv'
  OBVIOUS
<1>1. IInv /\ IInv' /\ Ordered(sup) /\ Good(sup) /\ sup \in Supervisor
  BY NextIInv, IInvParts DEF OrderInv, Good
<1>2. SameOrder(sup, sup') => Ordered(sup')
  BY <1>1, SameOrderOrdered
<1>3. Ordered(sup')
  <2>1. CASE Sends \/ SpawnFailures
    BY <1>1, <2>1, DispatchOrdered DEF Sends, SpawnFailures
  <2>2. CASE Recovery
    <3>1. ASSUME NEW x \in Sessions,
                 (\E w \in Workspaces : RecoverSession(x, w)) \/ RecoveryEnds(x)
          PROVE  SameOrder(sup, sup')
      BY <1>1, <3>1 DEF RecoverSession, RecoveryEnds, SameOrder, Supervisor
    <3>2. QED BY <1>1, <1>2, <2>2, <3>1, DispatchOrdered DEF Recovery
  <2>3. CASE Revocation
    BY <1>1, <2>3, StopStaleOrdered DEF Revocation, StopStaleSidecars
  <2>4. CASE Restarts
    BY <1>1, <2>4, ProcessForSessionTracked, RestartedOrdered DEF Restarts, RestartEngine
  <2>5. CASE Readers
    <3>1. ASSUME NEW p \in Procs, ReadEvent(p) PROVE SameOrder(sup, sup')
      BY <1>1, <3>1 DEF ReadEvent, Observed, SameOrder, Supervisor
    <3>2. ASSUME NEW p \in Procs, ProcessExits(p) PROVE Ordered(sup')
      BY <1>1, <3>2, ExitedOrdered DEF ProcessExits
    <3>3. ASSUME NEW x \in Sessions, DeliverNotice(x) PROVE SameOrder(sup, sup')
      BY <1>1, <3>3 DEF DeliverNotice, SameOrder, Supervisor
    <3>4. QED BY <1>2, <2>5, <3>1, <3>2, <3>3 DEF Readers
  <2>6. CASE Aborts \/ Streams \/ TurnEndings \/ Relays \/ Removals
    <3>1. CASE Aborts \/ Streams \/ TurnEndings
      BY <1>2, <3>1 DEF Aborts, Streams, TurnEndings, AbortMessage, ForceStop, ModelCallFails,
         TurnWorks, TurnSettles, TurnFails, TurnEnds, SameOrder
    <3>2. CASE Relays \/ Removals
      <4>1. ASSUME NEW x \in Sessions, RelayMessage(x) \/ ContinueBusy(x)
            PROVE  SameOrder(sup, sup')
        <5>1. sup' = [sup EXCEPT !.busy = @ \cup {x}] \/ sup' = sup
          BY <4>1 DEF RelayMessage, ContinueBusy
        <5>2. QED BY <1>1, <5>1 DEF SameOrder, Supervisor
      <4>2. ASSUME NEW x \in Sessions, DetachSession(x) \/ DestroySession(x)
            PROVE  SameOrder(sup, sup')
        <5>1. sup' = ForgetSessions(sup, {x})
          BY <4>2 DEF DetachSession, DestroySession
        <5>2. QED BY <1>1, <5>1 DEF ForgetSessions, SameOrder, Supervisor
      <4>3. QED BY <1>2, <3>2, <4>1, <4>2 DEF Relays, Removals
    <3>3. QED BY <2>6, <3>1, <3>2
  <2>7. CASE Research \/ ProbesAndForks
    <3>1. CASE Research
      <4>1. SameOrder(sup, sup')
        BY <1>1, <3>1 DEF Research, TrackResearchRun, UntrackResearchRun, WorkersStart, WorkersEnd,
           SameOrder, Supervisor
      <4>2. QED BY <1>2, <4>1
    <3>2. CASE ProbesAndForks
      <4>1. ASSUME NEW x \in Sessions, StartProbe(x) \/ EndProbe(x)
            PROVE  SameOrder(sup, sup')
        BY <1>1, <4>1 DEF StartProbe, EndProbe, ForgetSessions, SameOrder, Supervisor
      <4>2. ASSUME NEW x \in Sessions, NEW y \in Sessions,
                   ForkSession(x, y) \/ ForkAnswered(x, y) \/ ForkTimesOut(x, y)
            PROVE  SameOrder(sup, sup')
        BY <1>1, <4>2 DEF ForkSession, ForkAnswered, ForkTimesOut, SameOrder, Supervisor
      <4>3. QED BY <1>2, <3>2, <4>1, <4>2 DEF ProbesAndForks
    <3>3. QED BY <2>7, <3>1, <3>2
  <2>8. CASE Rotation \/ Ceilings \/ Crashes \/ Idling \/ UNCHANGED vars
    <3>1. SameOrder(sup, sup')
      BY <1>1, <2>8 DEF Rotation, InvalidateCredentials, Ceilings, BusyCeiling, Crashes, Crash,
         Idling, IdleTimeout, vars, SameOrder, Supervisor
    <3>2. QED BY <1>2, <3>1
  <2>9. CASE Binds
    <3>1. SameOrder(sup, sup')
      BY <1>1, <2>9 DEF Binds, BindSessionKernel, BindKernel, SameOrder, Supervisor
    <3>2. QED BY <1>2, <3>1
  <2>10. QED BY <2>1, <2>2, <2>3, <2>4, <2>5, <2>6, <2>7, <2>8, <2>9 DEF Next
<1>4. QED BY <1>1, <1>3 DEF OrderInv

LEMMA InitOrderInv == Init => OrderInv
<1>1. ASSUME Init PROVE sup.order = {}
  BY <1>1 DEF Init, NewSupervisor
<1>2. QED BY <1>1, InitIInv DEF OrderInv, Ordered

\* From s to t no process is parked.
Unparks(s, t) == \A key \in Keys : t.parked[key] # NoProc => s.parked[key] # NoProc

\* Nor is there work in t that s does not know of, there and on that kernel.
Drops(s, t) ==
    /\ t.busy \subseteq s.busy /\ t.workers \subseteq s.workers
    /\ \A x \in Sessions : \/ t.workspaces[x] = NoWorkspace
                           \/ t.workspaces[x] = s.workspaces[x] /\ t.kernels[x] = s.kernels[x]

LEMMA UnparksTrans ==
    ASSUME NEW s, NEW t, NEW u, Unparks(s, t), Unparks(t, u)
    PROVE  Unparks(s, u)
BY DEF Unparks

LEMMA DropsTrans ==
    ASSUME NEW s, NEW t, NEW u, Drops(s, t), Drops(t, u)
    PROVE  Drops(s, u)
BY DEF Drops

LEMMA RemovedUnparks ==
    ASSUME NEW s, NEW t, NEW P, Removed(s, t, P)
    PROVE  Unparks(s, t)
BY DEF Removed, Unparks

\* The number of parked processes does not grow then.
LEMMA UnparksFewer ==
    ASSUME NEW s, NEW t, Unparks(s, t), NEW k \in Kernels
    PROVE  /\ Cardinality(ParkedKeys(t, k)) <= Cardinality(ParkedKeys(s, k))
           /\ ParkedKeys(t, k) \subseteq ParkedKeys(s, k)
           /\ Cardinality(ParkedKeys(t, k)) \in Nat /\ Cardinality(ParkedKeys(s, k)) \in Nat
<1>1. IsFiniteSet({k} \X Workspaces)
  BY WorkspacesAssumption, FS_Singleton, FS_Product
<1>2. IsFiniteSet(ParkedKeys(s, k)) /\ IsFiniteSet(ParkedKeys(t, k))
  BY <1>1, FS_Subset DEF ParkedKeys
<1>3. ParkedKeys(t, k) \subseteq ParkedKeys(s, k)
  BY DEF Unparks, ParkedKeys, Keys
<1>4. QED BY <1>2, <1>3, FS_Subset, FS_CardinalityType

LEMMA ReapsDrop ==
    ASSUME NEW s, Good(s), NEW k \in Kernels
    PROVE  /\ Unparks(s, ReapParked(s, k)) /\ Drops(s, ReapParked(s, k))
           /\ Unparks(s, ReapStale(s)) /\ Drops(s, ReapStale(s))
           /\ Unparks(s, EvictOverLimit(s, k))
<1>1. ASSUME NEW K \in SUBSET IdleKeys(s, k)
      PROVE  Unparks(s, StopParked(s, K)) /\ Drops(s, StopParked(s, K))
  <2>1. K \in SUBSET Keys
    BY StopsIdle
  <2> DEFINE P == {s.parked[key] : key \in K} \ {NoProc}
  <2>2. Removed(s, StopParked(s, K), P)
    BY <2>1, StopParkedGood
  <2> HIDE DEF P
  <2>3. Unparks(s, StopParked(s, K))
    BY <2>2, RemovedUnparks
  <2>4. Drops(s, StopParked(s, K))
    BY DEF StopParked, Interrupt, ForgetSessions, Stop, TakeParked, Drops, Good, Supervisor
  <2>5. QED BY <2>3, <2>4
<1>2. ASSUME NEW P \in SUBSET s.retiring
      PROVE  Unparks(s, StopRetired(s, P)) /\ Drops(s, StopRetired(s, P))
  <2>1. Unparks(s, StopRetired(s, P))
    BY StopRetiredGood, RemovedUnparks
  <2>2. Drops(s, StopRetired(s, P))
    BY DEF StopRetired, Interrupt, ForgetSessions, Stop, TakeRetiring, Drops, Good, Supervisor
  <2>3. QED BY <2>1, <2>2
<1>3. \E P \in SUBSET s.retiring : ReapStale(s) = StopRetired(s, P)
  BY Zenon DEF ReapStale
<1>4. QED BY <1>1, <1>2, <1>3, StopsIdle

LEMMA TakeBackUnparks ==
    ASSUME NEW s, Good(s), NEW k \in Kernels, NEW w \in Workspaces
    PROVE  Unparks(s, TakeBack(s, k, w))
<1> DEFINE taken == TakeParked(s, {<<k, w>>})
           p == s.parked[<<k, w>>]
<1>1. /\ taken \in Supervisor
      /\ taken.parked = [key \in Keys |-> IF key \in {<<k, w>>} THEN NoProc ELSE s.parked[key]]
  BY TakeParkedType DEF Good
<1>2. TakeBack(s, k, w) \in {s, Retire(taken, p, {}),
                             [taken EXCEPT !.process[k] = p, !.child[p].idle = FALSE]}
  BY DEF TakeBack
<1> HIDE DEF taken, p
<1>3. TakeBack(s, k, w).parked \in {s.parked, taken.parked}
  BY <1>1, <1>2 DEF Retire, Supervisor
<1>4. QED BY <1>1, <1>3 DEF Unparks

\* There are more parked processes of a kernel after ensureKernelProcessLocked, and more than the
\* limit, only if all of them have work.
Crowded(s, t) ==
    \A k \in Kernels :
        Cardinality(ParkedKeys(t, k)) > maxParkedSidecars
        /\ Cardinality(ParkedKeys(t, k)) > Cardinality(ParkedKeys(s, k))
            => \A key \in ParkedKeys(t, k) : WorkspaceRunning(s, k, key[2])

LEMMA UnparksCrowded ==
    ASSUME NEW s, NEW t, Unparks(s, t)
    PROVE  Crowded(s, t)
<1>1. \A k \in Kernels :
          ~(Cardinality(ParkedKeys(t, k)) > Cardinality(ParkedKeys(s, k)))
  BY UnparksFewer
<1>2. QED BY <1>1 DEF Crowded

\* What is running after work was dropped was running before.
LEMMA DropsRunning ==
    ASSUME NEW s, NEW t \in Supervisor, Drops(s, t), NEW k \in Kernels, NEW w \in Workspaces,
           WorkspaceRunning(t, k, w)
    PROVE  WorkspaceRunning(s, k, w)
<1>1. PICK x \in t.busy \cup t.workers : KernelOf(t, x) = k /\ t.workspaces[x] = w
  BY DEF WorkspaceRunning
<1>2. x \in Sessions
  BY DEF Supervisor
<1>3. t.workspaces[x] = s.workspaces[x] /\ t.kernels[x] = s.kernels[x]
  BY <1>1, <1>2, WorkspacesAssumption DEF Drops
<1>4. QED BY <1>1, <1>3 DEF Drops, WorkspaceRunning, KernelOf

LEMMA PutDrops ==
    ASSUME NEW s, Good(s), NEW k \in Kernels, s.process[k] # NoProc
    PROVE  /\ Drops(s, Put(s, k))
           /\ \A key \in Keys : key[1] # k => Put(s, k).parked[key] = s.parked[key]
<1>1. Drops(s, Put(s, k))
  BY DEF Put, Drops, Good, Supervisor
<1>2. \A key \in Keys : key[1] # k => Put(s, k).parked[key] = s.parked[key]
  BY DEF Put, Good, Supervisor
<1>3. QED BY <1>1, <1>2

LEMMA PreparedCrowded ==
    ASSUME NEW s, Good(s), Ordered(s), NEW k \in Kernels, NEW w \in Workspaces
    PROVE  Crowded(s, Prepared(s, k, w))
<1> DEFINE reaped == ReapParked(s, k)
           swept == ReapStale(reaped)
           aside == SetAside(swept, k)
           t == Prepared(s, k, w)
           put == Put(swept, k)
           p == swept.process[k]
<1>1. Good(reaped) /\ Ordered(reaped) /\ Unparks(s, reaped) /\ Drops(s, reaped)
  BY ReapParkedGood, ReapsOrdered, ReapsDrop
<1> HIDE DEF reaped
<1>2. Good(swept) /\ Ordered(swept) /\ Unparks(s, swept) /\ Drops(s, swept)
  <2>1. Good(swept) /\ Ordered(swept) /\ Unparks(reaped, swept) /\ Drops(reaped, swept)
    BY <1>1, ReapStaleGood, ReapsOrdered, ReapsDrop
  <2> HIDE DEF swept
  <2>2. QED BY <1>1, <2>1, UnparksTrans, DropsTrans
<1>3. t = IF ServesNow(swept, k, w) THEN swept ELSE TakeBack(aside, k, w)
  BY DEF Prepared, swept, reaped
<1> HIDE DEF swept, t
<1>4. Good(aside) /\ Unparks(aside, TakeBack(aside, k, w))
  BY <1>2, SetAsideGood, TakeBackUnparks
<1>5. CASE ServesNow(swept, k, w)
  BY <1>2, <1>3, <1>5, UnparksCrowded DEF t
<1>6. CASE ~ServesNow(swept, k, w) /\ (p = NoProc \/ swept.child[p].stale)
  <2>1. aside.parked = swept.parked
    BY <1>2, <1>6 DEF SetAside, Retire, Good, Supervisor
  <2> HIDE DEF aside
  <2>2. Unparks(swept, aside)
    BY <2>1 DEF Unparks
  <2>3. Unparks(s, t)
    BY <1>2, <1>3, <1>4, <1>6, <2>2, UnparksTrans
  <2>4. QED BY <2>3, UnparksCrowded DEF t
<1>7. CASE ~ServesNow(swept, k, w) /\ p # NoProc /\ ~swept.child[p].stale
  <2>1. aside = EvictOverLimit(put, k)
    BY <1>7 DEF SetAside, ParkCurrent, Put
  <2>2. /\ Good(put) /\ Ordered(put) /\ Drops(swept, put)
        /\ \A key \in Keys : key[1] # k => put.parked[key] = swept.parked[key]
    <3>1. swept.process[k] # NoProc
      BY <1>7
    <3> HIDE DEF p
    <3>2. Good(put) /\ Ordered(put)
      BY <1>2, <3>1, PutGood, PutOrdered
    <3>3. Drops(swept, put) /\ \A key \in Keys : key[1] # k => put.parked[key] = swept.parked[key]
      BY <1>2, <3>1, PutDrops
    <3>4. QED BY <3>2, <3>3
  <2> HIDE DEF put, aside, p
  <2>3. Drops(s, put) /\ put \in Supervisor
    BY <1>2, <2>2, DropsTrans DEF Good
  <2>4. Unparks(put, aside) /\ Unparks(aside, t)
    BY <1>3, <1>4, <1>7, <2>1, <2>2, ReapsDrop
  <2> SUFFICES ASSUME NEW l \in Kernels,
                      Cardinality(ParkedKeys(t, l)) > maxParkedSidecars,
                      Cardinality(ParkedKeys(t, l)) > Cardinality(ParkedKeys(s, l)),
                      NEW key \in ParkedKeys(t, l)
               PROVE  WorkspaceRunning(s, l, key[2])
    BY DEF Crowded, t
  <2>5. CASE l # k
    <3>1. ParkedKeys(t, l) \subseteq ParkedKeys(s, l)
      <4>1. \A one \in ParkedKeys(t, l) : one \in Keys /\ one[1] = l /\ put.parked[one] # NoProc
        BY <2>4 DEF Unparks, ParkedKeys, Keys
      <4>2. QED BY <1>2, <2>2, <2>5, <4>1 DEF Unparks, ParkedKeys, Keys
    <3>2. IsFiniteSet(ParkedKeys(s, l))
      <4>1. IsFiniteSet({l} \X Workspaces)
        BY WorkspacesAssumption, FS_Singleton, FS_Product
      <4>2. QED BY <4>1, FS_Subset DEF ParkedKeys
    <3>3. /\ Cardinality(ParkedKeys(t, l)) <= Cardinality(ParkedKeys(s, l))
          /\ Cardinality(ParkedKeys(t, l)) \in Nat /\ Cardinality(ParkedKeys(s, l)) \in Nat
      BY <3>1, <3>2, FS_Subset, FS_CardinalityType
    <3>4. QED BY <3>3
  <2>6. CASE l = k
    <3>1. /\ ParkedKeys(t, k) \subseteq ParkedKeys(aside, k)
          /\ Cardinality(ParkedKeys(aside, k)) > maxParkedSidecars
      BY <2>4, <2>6, UnparksFewer, LimitAssumption
    <3>2. WorkspaceRunning(put, k, key[2])
      BY <2>1, <2>2, <2>6, <3>1, KeptAreBusy
    <3>3. key[2] \in Workspaces
      BY DEF ParkedKeys
    <3>4. QED BY <2>3, <2>6, <3>2, <3>3, DropsRunning
  <2>7. QED BY <2>5, <2>6
<1>8. QED BY <1>5, <1>6, <1>7 DEF t

\* A process that starts is not parked.
LEMMA EnsureCrowded ==
    ASSUME NEW s, Good(s), Ordered(s), NEW k \in Kernels, NEW w \in Workspaces
    PROVE  Crowded(s, EnsureKernelProcess(s, k, w))
<1> DEFINE t == Prepared(s, k, w)
           u == EnsureKernelProcess(s, k, w)
<1>1. Good(t) /\ Crowded(s, t)
  BY PreparedGood, PreparedCrowded
<1>2. u = t \/ u = Spawn(t, k, w)
  BY DEF EnsureKernelProcess
<1> HIDE DEF t, u
<1>3. u.parked = t.parked
  BY <1>1, <1>2 DEF Spawn, Good, Supervisor
<1>4. \A l \in Kernels : ParkedKeys(u, l) = ParkedKeys(t, l)
  BY <1>3 DEF ParkedKeys
<1>5. QED BY <1>1, <1>4 DEF Crowded, u

\* The step has parked one too many only if all of them were at work.
OverLimitBusy == \A k \in Kernels :
    Cardinality(ParkedKeys(sup', k)) > maxParkedSidecars
    /\ Cardinality(ParkedKeys(sup', k)) > Cardinality(ParkedKeys(sup, k))
        => \A key \in ParkedKeys(sup', k) : WorkspaceRunning(sup, k, key[2])

LEMMA UnparksOverLimit ==
    ASSUME Unparks(sup, sup')
    PROVE  OverLimitBusy
BY UnparksFewer DEF OverLimitBusy

LEMMA DispatchOverLimit ==
    ASSUME OrderInv, NEW x \in Sessions, NEW w \in Workspaces,
           SendMessage(x, w) \/ SendMessageSpawnFails(x, w) \/ RefreshBackgroundTasks(x, w)
    PROVE  OverLimitBusy
<1> DEFINE k == KernelOf(sup, x)
<1>1. Good(sup) /\ sup \in Supervisor /\ Ordered(sup) /\ IInv /\ k \in Kernels
  BY IInvParts, KernelOfType DEF Good, OrderInv
<1> HIDE DEF k
<1>2. ASSUME NEW t, Crowded(sup, t), t.parked = sup'.parked
      PROVE  OverLimitBusy
  <2>1. \A m \in Kernels : ParkedKeys(t, m) = ParkedKeys(sup', m)
    BY <1>2 DEF ParkedKeys
  <2>2. QED BY <1>2, <2>1 DEF Crowded, OverLimitBusy
<1>3. CASE SendMessage(x, w)
  <2>1. Ensured(x, w).parked = sup'.parked
    BY <1>1, <1>3, SendReady DEF SamePlaces
  <2>2. Crowded(sup, EnsureKernelProcess(sup, k, w))
    BY <1>1, EnsureCrowded
  <2>3. Crowded(sup, Ensured(x, w))
    BY <2>2 DEF Ensured, k
  <2>4. QED BY <1>2, <2>1, <2>3
<1>4. CASE SendMessageSpawnFails(x, w)
  <2>1. sup' = Prepared(sup, k, w)
    BY <1>4 DEF SendMessageSpawnFails, k
  <2>2. QED BY <1>1, <1>2, <2>1, PreparedCrowded
<1>5. CASE RefreshBackgroundTasks(x, w)
  <2>1. sup' = EnsureKernelProcess(sup, k, w)
    BY <1>5 DEF RefreshBackgroundTasks, k
  <2>2. QED BY <1>1, <1>2, <2>1, EnsureCrowded
<1>6. QED BY <1>3, <1>4, <1>5

\* Stopping processes parks none.
LEMMA StopStaleUnparks ==
    ASSUME NEW s, Good(s)
    PROVE  Unparks(s, StopStale(s))
<1> DEFINE stale(p) == p # NoProc /\ s.child[p].stale
           active == {k \in Kernels : stale(s.process[k])}
           parked == {key \in Keys : stale(s.parked[key])}
           t == StopActive(s, active)
           u == StopParked(t, parked)
           P == {p \in s.retiring : stale(p)}
<1>1. Good(t) /\ t.parked = s.parked /\ t.retiring = s.retiring
  <2>1. t.parked = s.parked /\ t.retiring = s.retiring
    BY DEF StopActive, Stop, Interrupt, ForgetSessions, Good, Supervisor
  <2>2. QED BY <2>1, StopActiveGood
<1>2. u.retiring = t.retiring
  BY DEF StopParked, Stop, Interrupt, ForgetSessions, TakeParked
<1>3. StopStale(s) = StopRetired(u, P)
  BY DEF StopStale
<1> HIDE DEF t
<1>4. Good(u) /\ Unparks(t, u)
  <2> DEFINE Q == {t.parked[key] : key \in parked} \ {NoProc}
  <2>1. Good(u) /\ Removed(t, u, Q)
    BY <1>1, StopParkedGood
  <2> HIDE DEF Q, u
  <2>2. QED BY <2>1, RemovedUnparks
<1> HIDE DEF u
<1>5. Unparks(u, StopStale(s))
  <2>1. Removed(u, StopRetired(u, P), P)
    BY <1>1, <1>2, <1>4, StopRetiredGood
  <2> HIDE DEF P
  <2>2. QED BY <1>3, <2>1, RemovedUnparks
<1>6. QED BY <1>1, <1>4, <1>5 DEF Unparks

LEMMA RestartedUnparks ==
    ASSUME NEW s, Good(s), NEW x \in Sessions, NEW p \in Tracked(s)
    PROVE  Unparks(s, Restarted(s, x, p))
<1> DEFINE k == KernelOf(s, x)
           key == <<k, s.child[p].workspace>>
           carried == (s.child[p].retiredTurns \cap s.busy) \cup {x}
           stopped == CASE s.process[k] = p -> StopActive(s, {k})
                        [] s.process[k] # p /\ s.parked[key] = p -> StopParked(s, {key})
                        [] OTHER -> Killed(s, carried, p)
<1>1. s \in Supervisor /\ p \in Procs /\ k \in Kernels /\ key \in Keys
  BY TrackedProcs, KernelOfType DEF Good, Accounted, AllPlaced, Keys
<1>2. Unparks(s, StopActive(s, {k})) /\ StopActive(s, {k}) \in Supervisor
  <2>1. StopActive(s, {k}).parked = s.parked
    BY <1>1 DEF StopActive, Stop, Interrupt, ForgetSessions, Supervisor
  <2>2. QED BY <1>1, <2>1, StopActiveGood DEF Good, Unparks
<1>3. Unparks(s, StopParked(s, {key})) /\ StopParked(s, {key}) \in Supervisor
  BY <1>1, StopParkedGood, RemovedUnparks DEF Good
<1>4. Unparks(s, Killed(s, carried, p)) /\ Killed(s, carried, p) \in Supervisor
  <2>1. Killed(s, carried, p).parked = s.parked
    BY <1>1 DEF Killed, ForgetSessions, Supervisor
  <2>2. carried \in SUBSET Sessions
    BY <1>1 DEF Supervisor, Child
  <2>3. QED BY <2>1, <2>2, KilledGood DEF Good, Unparks
<1>5. Unparks(s, stopped) /\ stopped \in Supervisor
  BY <1>2, <1>3, <1>4
<1>6. Restarted(s, x, p) =
          [ForgetSessions(stopped, {x}) EXCEPT !.notices = (@ \ {x}) \cup (s.notices \cap {x})]
  BY DEF Restarted, Killed
<1> HIDE DEF stopped
<1>7. Restarted(s, x, p).parked = stopped.parked
  BY <1>5, <1>6 DEF ForgetSessions, Supervisor
<1>8. QED BY <1>5, <1>7 DEF Unparks

\* The limit of parked sidecars is exceeded for the sake of running work, and of nothing else.
THEOREM LimitHolds == Spec => ParkedBeyondLimitAreBusy
<1>1. ASSUME OrderInv, Next PROVE OverLimitBusy
  <2>1. Good(sup) /\ sup \in Supervisor /\ IInv
    BY <1>1, IInvParts DEF OrderInv, Good
  <2>2. sup'.parked = sup.parked => OverLimitBusy
    BY UnparksOverLimit DEF Unparks
  <2>3. CASE Sends \/ SpawnFailures
    BY <1>1, <2>3, DispatchOverLimit DEF Sends, SpawnFailures
  <2>4. CASE Recovery
    <3>1. ASSUME NEW x \in Sessions,
                 (\E w \in Workspaces : RecoverSession(x, w)) \/ RecoveryEnds(x)
          PROVE  sup'.parked = sup.parked
      BY <2>1, <3>1 DEF RecoverSession, RecoveryEnds, Supervisor
    <3>2. QED BY <1>1, <2>2, <2>4, <3>1, DispatchOverLimit DEF Recovery
  <2>5. CASE Revocation
    <3>1. sup' = StopStale(sup)
      BY <2>5 DEF Revocation, StopStaleSidecars
    <3>2. Unparks(sup, sup')
      BY <2>1, <3>1, StopStaleUnparks
    <3>3. QED BY <3>2, UnparksOverLimit
  <2>6. CASE Restarts
    BY <2>1, <2>6, ProcessForSessionTracked, RestartedUnparks, UnparksOverLimit
       DEF Restarts, RestartEngine
  <2>7. CASE Readers
    <3>1. ASSUME NEW p \in Procs, ReadEvent(p) PROVE sup'.parked = sup.parked
      BY <2>1, <3>1 DEF ReadEvent, Observed, Supervisor
    <3>2. ASSUME NEW p \in Procs, ProcessExits(p) PROVE Unparks(sup, sup')
      BY <2>1, <3>2, ExitedGood, RemovedUnparks DEF ProcessExits
    <3>3. ASSUME NEW x \in Sessions, DeliverNotice(x) PROVE sup'.parked = sup.parked
      BY <2>1, <3>3 DEF DeliverNotice, Supervisor
    <3>4. QED BY <2>2, <2>7, <3>1, <3>2, <3>3, UnparksOverLimit DEF Readers
  <2>8. CASE Aborts \/ Streams \/ TurnEndings \/ Relays \/ Removals
    <3>1. CASE Aborts \/ Streams \/ TurnEndings
      BY <2>2, <3>1 DEF Aborts, Streams, TurnEndings, AbortMessage, ForceStop, ModelCallFails,
         TurnWorks, TurnSettles, TurnFails, TurnEnds
    <3>2. CASE Relays \/ Removals
      <4>1. sup'.parked = sup.parked
        BY <2>1, <3>2 DEF Relays, RelayMessage, ContinueBusy, Removals, DetachSession,
           DestroySession, ForgetSessions, Supervisor
      <4>2. QED BY <2>2, <4>1
    <3>3. QED BY <2>8, <3>1, <3>2
  <2>9. CASE Research \/ ProbesAndForks
    <3>1. sup'.parked = sup.parked
      BY <2>1, <2>9 DEF Research, TrackResearchRun, UntrackResearchRun, WorkersStart, WorkersEnd,
         ProbesAndForks, StartProbe, EndProbe, ForkSession, ForkAnswered, ForkTimesOut,
         ForgetSessions, Supervisor
    <3>2. QED BY <2>2, <3>1
  <2>10. CASE Rotation \/ Ceilings \/ Crashes \/ Idling
    <3>1. sup'.parked = sup.parked
      BY <2>1, <2>10 DEF Rotation, InvalidateCredentials, Ceilings, BusyCeiling, Crashes, Crash,
         Idling, IdleTimeout, Supervisor
    <3>2. QED BY <2>2, <3>1
  <2>11. CASE Binds
    <3>1. sup'.parked = sup.parked
      BY <2>1, <2>11 DEF Binds, BindSessionKernel, BindKernel, Supervisor
    <3>2. QED BY <2>2, <3>1
  <2>12. QED BY <1>1, <2>3, <2>4, <2>5, <2>6, <2>7, <2>8, <2>9, <2>10, <2>11 DEF Next
<1>2. OrderInv /\ [Next]_vars => [\A k \in Kernels :
          Cardinality(ParkedKeys(sup', k)) > maxParkedSidecars
          /\ Cardinality(ParkedKeys(sup', k)) > Cardinality(ParkedKeys(sup, k))
              => \A key \in ParkedKeys(sup', k) : WorkspaceRunning(sup, k, key[2])]_vars
  BY <1>1 DEF OverLimitBusy
<1>3. QED BY <1>2, InitOrderInv, NextOrderInv, PTL DEF Spec, ParkedBeyondLimitAreBusy

=============================================================================
