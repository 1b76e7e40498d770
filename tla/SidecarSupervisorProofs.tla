---------------------- MODULE SidecarSupervisorProofs ----------------------
(***************************************************************************)
(* For any kernels, workspaces, sessions and processes: the Supervisor's    *)
(* record stays well typed and every child process is accounted for.        *)
(*                                                                         *)
(* Good(s) is inductive.  The actions of SidecarSupervisor are built from    *)
(* the operators of SidecarState, so there is one lemma per operator - it    *)
(* takes a good record to a good record - and an action's step follows       *)
(* from the lemmas of the operators it is composed of.                       *)
(***************************************************************************)
EXTENDS SidecarSupervisor, TLAPS

Good(s) == s \in Supervisor /\ Accounted(s)

\* What forgetting, waiting and reporting leave alone.
SamePlaces(s, t) ==
    /\ t.process = s.process /\ t.parked = s.parked
    /\ t.retiring = s.retiring /\ t.child = s.child

-----------------------------------------------------------------------------

\* A fresh Supervisor is good.
LEMMA NewSupervisorGood == Good(NewSupervisor)
<1>1. NewSupervisor \in Supervisor
  BY KernelsAssumption DEF NewSupervisor, Supervisor, NoChild, Child
<1>2. Tracked(NewSupervisor) = {}
  BY DEF NewSupervisor, Tracked, ActiveProcs, ParkedProcs
<1>3. Accounted(NewSupervisor)
  BY <1>2 DEF Accounted, ActiveMatches, ParkedMatches, RetiringMatches, PlacesDisjoint, NoneLost,
     AllPlaced, ActiveNotParked, Tracked, NewSupervisor, NoChild
<1>4. QED BY <1>1, <1>3 DEF Good

\* Only the places of processes and what is known of them matter to Accounted.
LEMMA SamePlacesGood ==
    ASSUME NEW s, NEW t, Good(s), t \in Supervisor, SamePlaces(s, t)
    PROVE  Good(t)
<1>1. Tracked(t) = Tracked(s) /\ ActiveProcs(t) = ActiveProcs(s) /\ ParkedProcs(t) = ParkedProcs(s)
  BY DEF SamePlaces, Tracked, ActiveProcs, ParkedProcs
<1>2. Accounted(t)
  BY <1>1 DEF Good, SamePlaces, Accounted, ActiveMatches, ParkedMatches, RetiringMatches,
     PlacesDisjoint, NoneLost, AllPlaced, ActiveNotParked
<1>3. QED BY <1>2 DEF Good

\* Every place holds processes.
LEMMA TrackedProcs ==
    ASSUME NEW s \in Supervisor
    PROVE  Tracked(s) \subseteq Procs
BY DEF Tracked, ActiveProcs, ParkedProcs, Supervisor

\* forgetSessionLocked, for any set of sessions.
LEMMA ForgetSessionsType ==
    ASSUME NEW s \in Supervisor, NEW X
    PROVE  ForgetSessions(s, X) \in Supervisor /\ SamePlaces(s, ForgetSessions(s, X))
BY DEF ForgetSessions, Supervisor, SamePlaces

\* Interrupting sessions moves no process.
LEMMA InterruptType ==
    ASSUME NEW s \in Supervisor, NEW X
    PROVE  Interrupt(s, X) \in Supervisor /\ SamePlaces(s, Interrupt(s, X))
<1>1. ForgetSessions(s, X) \in Supervisor /\ SamePlaces(s, ForgetSessions(s, X))
  BY ForgetSessionsType
<1>2. Working(s) \subseteq Sessions
  BY DEF Working, Supervisor
<1> DEFINE t == ForgetSessions(s, X)
<1> HIDE DEF t
<1>3. QED BY <1>1, <1>2 DEF t, Interrupt, Supervisor, SamePlaces

-----------------------------------------------------------------------------
(* Stopping processes.                                                      *)

\* stopChildProcess, for any set of processes: each is left retired and dead.
LEMMA StopType ==
    ASSUME NEW s \in Supervisor, NEW P
    PROVE  /\ Stop(s, P) \in Supervisor
           /\ Stop(s, P).process = s.process /\ Stop(s, P).parked = s.parked
           /\ Stop(s, P).retiring = s.retiring
           /\ \A p \in Procs : Stop(s, P).child[p] =
                 IF p \in P THEN [NoChild EXCEPT !.retired = TRUE, !.life = "dead"]
                 ELSE s.child[p]
<1>1. [NoChild EXCEPT !.retired = TRUE, !.life = "dead"] \in Child
  BY KernelsAssumption DEF NoChild, Child
<1>2. QED BY <1>1 DEF Stop, Supervisor

\* Without keeps a relation of processes one.
LEMMA WithoutType ==
    ASSUME NEW order \in SUBSET (Procs \X Procs), NEW P
    PROVE  Without(order, P) \in SUBSET (Procs \X Procs)
BY DEF Without

\* Taking keys out of parked empties them and moves nothing else.
LEMMA TakeParkedType ==
    ASSUME NEW s \in Supervisor, NEW K
    PROVE  LET t == TakeParked(s, K)
           IN  /\ t \in Supervisor
               /\ t.process = s.process /\ t.retiring = s.retiring /\ t.child = s.child
               /\ t.parked = [key \in Keys |-> IF key \in K THEN NoProc ELSE s.parked[key]]
BY WithoutType DEF TakeParked, Supervisor

\* Removed(s, t, P): t is s with the processes of P out of every place, dead and disowned.
Removed(s, t, P) ==
    /\ t.process = [k \in Kernels |-> IF s.process[k] \in P THEN NoProc ELSE s.process[k]]
    /\ t.parked = [key \in Keys |-> IF s.parked[key] \in P THEN NoProc ELSE s.parked[key]]
    /\ t.retiring = s.retiring \ P
    /\ \A p \in Procs : IF p \in P THEN t.child[p].life = "none" \/ t.child[p].retired
                                   ELSE t.child[p] = s.child[p]

\* Removing nothing changes nothing.
LEMMA RemovedNone ==
    ASSUME NEW s, Good(s)
    PROVE  /\ Removed(s, s, {})
           /\ Removed(s, s, {s.parked[key] : key \in {}} \ {NoProc})
BY DEF Removed, Good, Supervisor

\* Sessions forgotten on the way make no difference to what is removed.
LEMMA SamePlacesRemoved ==
    ASSUME NEW s, NEW t, NEW u, NEW P, Removed(s, t, P), SamePlaces(t, u)
    PROVE  Removed(s, u, P)
BY DEF Removed, SamePlaces

\* Taking processes out of all their places keeps a record good.
LEMMA RemovedGood ==
    ASSUME NEW s, Good(s), NEW t \in Supervisor, NEW P \in SUBSET Procs, Removed(s, t, P)
    PROVE  Good(t)
<1>1. s \in Supervisor /\ Accounted(s) /\ NoProc \notin P
  BY ProcsAssumption DEF Good
<1>2. /\ ActiveProcs(t) = ActiveProcs(s) \ P
      /\ ParkedProcs(t) = ParkedProcs(s) \ P
      /\ Tracked(t) = Tracked(s) \ P
  BY <1>1 DEF Removed, Tracked, ActiveProcs, ParkedProcs
<1>3. ActiveProcs(t) \subseteq Procs /\ ParkedProcs(t) \subseteq Procs /\ t.retiring \subseteq Procs
  BY DEF ActiveProcs, ParkedProcs, Supervisor
<1>4. ActiveMatches(t)
  BY <1>1 DEF Accounted, ActiveMatches, Removed, Supervisor
<1>5. ParkedMatches(t)
  BY <1>1 DEF Accounted, ParkedMatches, Removed, Supervisor
<1>6. RetiringMatches(t)
  BY <1>1 DEF Accounted, RetiringMatches, Removed, Supervisor
<1>7. PlacesDisjoint(t)
  BY <1>1, <1>2 DEF Accounted, PlacesDisjoint, Removed
<1>8. NoneLost(t)
  BY <1>1, <1>2 DEF Accounted, NoneLost, Removed
<1>9. AllPlaced(t)
  BY <1>1, <1>2, <1>3 DEF Accounted, AllPlaced, Removed, Tracked
<1>10. ActiveNotParked(t)
  <2> SUFFICES ASSUME NEW k \in Kernels, t.process[k] # NoProc
               PROVE  t.parked[<<k, t.child[t.process[k]].workspace>>] = NoProc
    BY DEF ActiveNotParked
  <2> DEFINE p == s.process[k]
  <2>1. p \in Procs /\ p \in Tracked(s) /\ p \notin P /\ t.process[k] = p
    BY <1>1 DEF Supervisor, Tracked, ActiveProcs, Removed
  <2>2. t.child[p].workspace = s.child[p].workspace
    BY <2>1 DEF Removed
  <2>3. <<k, s.child[p].workspace>> \in Keys
    BY <1>1, <2>1 DEF Accounted, AllPlaced, Keys
  <2>4. s.parked[<<k, s.child[p].workspace>>] = NoProc
    BY <1>1, <2>1 DEF Accounted, ActiveNotParked
  <2>5. QED BY <1>1, <2>1, <2>2, <2>3, <2>4 DEF Removed
<1>11. QED BY <1>4, <1>5, <1>6, <1>7, <1>8, <1>9, <1>10 DEF Good, Accounted

\* stopParkedLocked takes the parked processes of its keys away and touches no other.
LEMMA StopParkedGood ==
    ASSUME NEW s, Good(s), NEW K \in SUBSET Keys
    PROVE  /\ Good(StopParked(s, K)) /\ StopParked(s, K).process = s.process
           /\ Removed(s, StopParked(s, K), {s.parked[key] : key \in K} \ {NoProc})
<1> DEFINE P == {s.parked[key] : key \in K}
           taken == TakeParked(s, K)
           t == Stop(taken, P)
           gone == {x \in s.sessions : <<KernelOf(s, x), s.workspaces[x]>> \in K}
<1>1. s \in Supervisor /\ Accounted(s)
  BY DEF Good
<1>2. /\ taken \in Supervisor
      /\ taken.process = s.process /\ taken.retiring = s.retiring /\ taken.child = s.child
      /\ taken.parked = [key \in Keys |-> IF key \in K THEN NoProc ELSE s.parked[key]]
  BY <1>1, TakeParkedType
<1> HIDE DEF taken
<1>3. /\ t \in Supervisor
      /\ t.process = s.process /\ t.retiring = s.retiring /\ t.parked = taken.parked
      /\ \A p \in Procs : t.child[p] = IF p \in P THEN [NoChild EXCEPT !.retired = TRUE, !.life = "dead"]
                                       ELSE s.child[p]
  BY <1>2, StopType
<1> HIDE DEF t
<1> HIDE DEF gone
<1>5. \A k \in Kernels : s.process[k] \notin P \/ s.process[k] = NoProc
  BY <1>1 DEF Accounted, PlacesDisjoint, ActiveProcs, ParkedProcs
<1>6. \A key \in Keys \ K : s.parked[key] \notin P \/ s.parked[key] = NoProc
  BY <1>1 DEF Accounted, ParkedMatches
<1>7. s.retiring \cap P = {}
  BY <1>1, ProcsAssumption DEF Accounted, PlacesDisjoint, ParkedProcs, Supervisor
<1>8. P \ {NoProc} \in SUBSET Procs
  BY <1>1 DEF Supervisor
<1>9. Removed(s, t, P \ {NoProc})
  <2>1. t.process = [k \in Kernels |-> IF s.process[k] \in P \ {NoProc} THEN NoProc ELSE s.process[k]]
    BY <1>1, <1>3, <1>5 DEF Supervisor
  <2>2. t.parked = [key \in Keys |-> IF s.parked[key] \in P \ {NoProc} THEN NoProc ELSE s.parked[key]]
    BY <1>1, <1>2, <1>3, <1>6 DEF Supervisor
  <2>3. t.retiring = s.retiring \ (P \ {NoProc})
    BY <1>3, <1>7
  <2>4. \A p \in Procs : IF p \in P \ {NoProc} THEN t.child[p].retired ELSE t.child[p] = s.child[p]
    BY <1>3, ProcsAssumption DEF NoChild
  <2>5. QED BY <2>1, <2>2, <2>3, <2>4 DEF Removed
<1>10. Good(t)
  BY <1>3, <1>8, <1>9, RemovedGood DEF Good
<1>11. CASE K = {}
  BY <1>11, RemovedNone DEF StopParked
<1>12. CASE K # {}
  <2>1. StopParked(s, K) = Interrupt(t, gone)
    BY <1>12 DEF StopParked, t, taken, gone
  <2>2. Interrupt(t, gone) \in Supervisor /\ SamePlaces(t, Interrupt(t, gone))
    BY <1>3, InterruptType
  <2>3. QED BY <1>3, <1>9, <1>10, <2>1, <2>2, SamePlacesGood, SamePlacesRemoved DEF SamePlaces
<1>13. QED BY <1>11, <1>12

\* Stopping the active processes of some kernels.
LEMMA StopActiveGood ==
    ASSUME NEW s, Good(s), NEW K \in SUBSET Kernels
    PROVE  /\ Good(StopActive(s, K))
           /\ Removed(s, StopActive(s, K), {s.process[k] : k \in K} \ {NoProc})
<1> DEFINE P == {s.process[k] : k \in K}
           taken == [s EXCEPT !.process = [k \in Kernels |-> IF k \in K THEN NoProc ELSE @[k]]]
           t == Stop(taken, P)
           gone == UNION {ServedBy(s, k, {s.child[s.process[k]].workspace, NoWorkspace}) : k \in K}
<1>1. s \in Supervisor /\ Accounted(s)
  BY DEF Good
<1>2. /\ taken \in Supervisor
      /\ taken.parked = s.parked /\ taken.retiring = s.retiring /\ taken.child = s.child
      /\ taken.process = [k \in Kernels |-> IF k \in K THEN NoProc ELSE s.process[k]]
  BY <1>1 DEF Supervisor
<1> HIDE DEF taken
<1>3. /\ t \in Supervisor
      /\ t.process = taken.process /\ t.retiring = s.retiring /\ t.parked = s.parked
      /\ \A p \in Procs : t.child[p] = IF p \in P THEN [NoChild EXCEPT !.retired = TRUE, !.life = "dead"]
                                       ELSE s.child[p]
  BY <1>2, StopType
<1> HIDE DEF t
<1>4. StopActive(s, K) = Interrupt(t, gone)
  BY DEF StopActive, t, taken
<1> HIDE DEF gone
<1>5. \A k \in Kernels \ K : s.process[k] \notin P \/ s.process[k] = NoProc
  BY <1>1 DEF Accounted, ActiveMatches
<1>6. \A key \in Keys : s.parked[key] \notin P \/ s.parked[key] = NoProc
  BY <1>1 DEF Accounted, PlacesDisjoint, ActiveProcs, ParkedProcs
<1>7. s.retiring \cap P = {}
  BY <1>1, ProcsAssumption DEF Accounted, PlacesDisjoint, ActiveProcs, Supervisor
<1>8. P \ {NoProc} \in SUBSET Procs
  BY <1>1 DEF Supervisor
<1>9. Removed(s, t, P \ {NoProc})
  <2>1. t.process = [k \in Kernels |-> IF s.process[k] \in P \ {NoProc} THEN NoProc ELSE s.process[k]]
    BY <1>1, <1>2, <1>3, <1>5 DEF Supervisor
  <2>2. t.parked = [key \in Keys |-> IF s.parked[key] \in P \ {NoProc} THEN NoProc ELSE s.parked[key]]
    BY <1>1, <1>3, <1>6 DEF Supervisor
  <2>3. t.retiring = s.retiring \ (P \ {NoProc})
    BY <1>3, <1>7
  <2>4. \A p \in Procs : IF p \in P \ {NoProc} THEN t.child[p].retired ELSE t.child[p] = s.child[p]
    BY <1>3, ProcsAssumption DEF NoChild
  <2>5. QED BY <2>1, <2>2, <2>3, <2>4 DEF Removed
<1>10. Good(t)
  BY <1>3, <1>8, <1>9, RemovedGood DEF Good
<1>11. Interrupt(t, gone) \in Supervisor /\ SamePlaces(t, Interrupt(t, gone))
  BY <1>3, InterruptType
<1>12. QED BY <1>4, <1>9, <1>10, <1>11, SamePlacesGood, SamePlacesRemoved

\* Taking processes out of the retiring slice moves no other.
LEMMA TakeRetiringType ==
    ASSUME NEW s \in Supervisor, NEW P
    PROVE  LET t == TakeRetiring(s, P)
           IN  /\ t \in Supervisor
               /\ t.process = s.process /\ t.parked = s.parked /\ t.child = s.child
               /\ t.retiring = s.retiring \ P
BY WithoutType DEF TakeRetiring, Supervisor

\* stopRetiredProcessLocked drops retiring processes and touches no other.
LEMMA StopRetiredGood ==
    ASSUME NEW s, Good(s), NEW P \in SUBSET s.retiring
    PROVE  /\ Good(StopRetired(s, P)) /\ StopRetired(s, P).process = s.process
           /\ Removed(s, StopRetired(s, P), P)
<1> DEFINE taken == TakeRetiring(s, P)
           t == Stop(taken, P)
           gone == (UNION {s.child[p].retiredTurns : p \in P}) \cap Working(s)
<1>1. s \in Supervisor /\ Accounted(s) /\ P \subseteq Procs
  BY DEF Good, Supervisor
<1>2. /\ taken \in Supervisor
      /\ taken.process = s.process /\ taken.parked = s.parked /\ taken.child = s.child
      /\ taken.retiring = s.retiring \ P
  BY <1>1, TakeRetiringType
<1> HIDE DEF taken
<1>3. /\ t \in Supervisor
      /\ t.process = s.process /\ t.retiring = s.retiring \ P /\ t.parked = s.parked
      /\ \A p \in Procs : t.child[p] = IF p \in P THEN [NoChild EXCEPT !.retired = TRUE, !.life = "dead"]
                                       ELSE s.child[p]
  BY <1>2, StopType
<1> HIDE DEF t
<1> HIDE DEF gone
<1>5. \A k \in Kernels : s.process[k] \notin P
  BY <1>1, ProcsAssumption DEF Accounted, PlacesDisjoint, ActiveProcs
<1>6. \A key \in Keys : s.parked[key] \notin P
  BY <1>1, ProcsAssumption DEF Accounted, PlacesDisjoint, ParkedProcs
<1>7. Removed(s, t, P)
  <2>1. t.process = [k \in Kernels |-> IF s.process[k] \in P THEN NoProc ELSE s.process[k]]
    BY <1>1, <1>3, <1>5 DEF Supervisor
  <2>2. t.parked = [key \in Keys |-> IF s.parked[key] \in P THEN NoProc ELSE s.parked[key]]
    BY <1>1, <1>3, <1>6 DEF Supervisor
  <2>3. \A p \in Procs : IF p \in P THEN t.child[p].retired ELSE t.child[p] = s.child[p]
    BY <1>3 DEF NoChild
  <2>4. QED BY <1>3, <2>1, <2>2, <2>3 DEF Removed
<1>8. Good(t)
  BY <1>1, <1>3, <1>7, RemovedGood
<1>9. CASE P = {}
  BY <1>9, RemovedNone DEF StopRetired
<1>10. CASE P # {}
  <2>1. StopRetired(s, P) = Interrupt(t, gone)
    BY <1>10 DEF StopRetired, t, taken, gone
  <2>2. Interrupt(t, gone) \in Supervisor /\ SamePlaces(t, Interrupt(t, gone))
    BY <1>3, InterruptType
  <2>3. QED BY <1>3, <1>7, <1>8, <2>1, <2>2, SamePlacesGood, SamePlacesRemoved DEF SamePlaces
<1>11. QED BY <1>9, <1>10

\* reapParkedLocked.
LEMMA ReapParkedGood ==
    ASSUME NEW s, Good(s), NEW k \in Kernels
    PROVE  Good(ReapParked(s, k)) /\ ReapParked(s, k).process = s.process
<1> DEFINE K == {key \in IdleKeys(s, k) : s.child[s.parked[key]].idle}
<1>1. K \in SUBSET Keys
  BY DEF IdleKeys, ParkedKeys, Keys
<1>2. ReapParked(s, k) = StopParked(s, K)
  BY DEF ReapParked
<1> HIDE DEF K
<1>3. QED BY <1>1, <1>2, StopParkedGood

\* evictParkedOverLimitLocked.
LEMMA EvictOverLimitGood ==
    ASSUME NEW s, Good(s), NEW k \in Kernels
    PROVE  Good(EvictOverLimit(s, k)) /\ EvictOverLimit(s, k).process = s.process
<1> DEFINE older(key) == {other \in IdleKeys(s, k) : <<s.parked[other], s.parked[key]>> \in s.order}
           K == {key \in IdleKeys(s, k) :
                    Cardinality(older(key)) + maxParkedSidecars < Cardinality(ParkedKeys(s, k))}
<1>1. K \in SUBSET Keys
  BY DEF IdleKeys, ParkedKeys, Keys
<1>2. EvictOverLimit(s, k) = StopParked(s, K)
  BY DEF EvictOverLimit
<1> HIDE DEF K
<1>3. QED BY <1>1, <1>2, StopParkedGood

\* reapStaleProcessesLocked: whichever processes it decides to stop are retiring.
LEMMA ReapStaleGood ==
    ASSUME NEW s, Good(s)
    PROVE  Good(ReapStale(s)) /\ ReapStale(s).process = s.process
<1>1. PICK P \in SUBSET s.retiring : ReapStale(s) = StopRetired(s, P)
  BY Zenon DEF ReapStale
<1>2. QED BY <1>1, StopRetiredGood

-----------------------------------------------------------------------------
(* Setting processes aside and taking them back.                            *)

\* What parkCurrentLocked does before it looks at the limit.
Put(s, k) ==
    LET p == s.process[k]
    IN  [s EXCEPT !.process[k] = NoProc, !.parked[<<k, s.child[p].workspace>>] = p,
                  !.order = Without(@, {p}) \cup {<<q, p>> : q \in ParkedProcs(s) \ {p}},
                  !.child[p].idle = FALSE]

\* The current process becomes a parked one; the slot of the kernel is empty afterwards.
LEMMA PutGood ==
    ASSUME NEW s, Good(s), NEW k \in Kernels, s.process[k] # NoProc
    PROVE  /\ Good(Put(s, k)) /\ Put(s, k).process = [s.process EXCEPT ![k] = NoProc]
           /\ Put(s, k).retiring = s.retiring
           /\ ActiveProcs(Put(s, k)) = ActiveProcs(s) \ {s.process[k]}
           /\ ParkedProcs(Put(s, k)) = ParkedProcs(s) \cup {s.process[k]}
           /\ Put(s, k).child = [s.child EXCEPT ![s.process[k]].idle = FALSE]
<1> DEFINE p == s.process[k]
           place == <<k, s.child[p].workspace>>
           later == {<<q, p>> : q \in ParkedProcs(s) \ {p}}
           t == [s EXCEPT !.process[k] = NoProc, !.parked[place] = p,
                          !.order = Without(@, {p}) \cup later, !.child[p].idle = FALSE]
<1>1. s \in Supervisor /\ Accounted(s) /\ p \in Procs /\ p # NoProc
  BY DEF Good, Supervisor
<1>2. p \in ActiveProcs(s) /\ p \in Tracked(s) /\ p \notin ParkedProcs(s) /\ p \notin s.retiring
  BY <1>1 DEF Accounted, PlacesDisjoint, ActiveProcs, Tracked
<1>3. place \in Keys /\ s.parked[place] = NoProc /\ s.child[p].kernel = k /\ s.child[p].life # "none"
  BY <1>1, <1>2 DEF Accounted, AllPlaced, ActiveNotParked, ActiveMatches, Keys
<1>4. \A l \in Kernels \ {k} : s.process[l] # p
  BY <1>1 DEF Accounted, ActiveMatches
<1>5. /\ t \in Supervisor
      /\ t.process = [s.process EXCEPT ![k] = NoProc] /\ t.parked = [s.parked EXCEPT ![place] = p]
      /\ t.retiring = s.retiring
      /\ t.child = [s.child EXCEPT ![p].idle = FALSE]
  <2>1. later \in SUBSET (Procs \X Procs) /\ Without(s.order, {p}) \in SUBSET (Procs \X Procs)
    BY <1>1, WithoutType DEF ParkedProcs, Supervisor
  <2>2. [s.child EXCEPT ![p].idle = FALSE] \in [Procs -> Child]
    <3>1. s.child \in [Procs -> Child] /\ s.child[p] \in Child
      BY <1>1 DEF Supervisor
    <3>2. [s.child[p] EXCEPT !.idle = FALSE] \in Child
      BY <3>1 DEF Child
    <3>3. QED BY <1>1, <3>1, <3>2
  <2> HIDE DEF later, place
  <2>3. [s.process EXCEPT ![k] = NoProc] \in [Kernels -> Procs \cup {NoProc}]
    BY <1>1 DEF Supervisor
  <2>4. [s.parked EXCEPT ![place] = p] \in [Keys -> Procs \cup {NoProc}]
    BY <1>1 DEF Supervisor
  <2>5. QED BY <1>1, <2>1, <2>2, <2>3, <2>4 DEF Supervisor
<1>6. Put(s, k) = t
  BY DEF Put
<1> HIDE DEF t, later
<1>7. \A q \in Procs : /\ t.child[q].kernel = s.child[q].kernel
                       /\ t.child[q].workspace = s.child[q].workspace
                       /\ t.child[q].life = s.child[q].life
                       /\ t.child[q].stale = s.child[q].stale
                       /\ t.child[q].retired = s.child[q].retired
  BY <1>1, <1>5 DEF Supervisor, Child
<1>8. ActiveProcs(t) = ActiveProcs(s) \ {p}
  BY <1>1, <1>4, <1>5 DEF ActiveProcs, Supervisor
<1>9. ParkedProcs(t) = ParkedProcs(s) \cup {p}
  BY <1>1, <1>3, <1>5 DEF ParkedProcs, Supervisor
<1>10. Tracked(t) = Tracked(s) /\ Tracked(s) \subseteq Procs
  BY <1>1, <1>2, <1>5, <1>8, <1>9, TrackedProcs DEF Tracked
<1>11. Accounted(t)
  <2>1. ActiveMatches(t)
    BY <1>1, <1>5, <1>7 DEF Accounted, ActiveMatches, Supervisor
  <2>2. ParkedMatches(t)
    <3>1. ASSUME NEW key \in Keys, t.parked[key] # NoProc
          PROVE  /\ t.child[t.parked[key]].life # "none"
                 /\ <<t.child[t.parked[key]].kernel, t.child[t.parked[key]].workspace>> = key
      <4>1. CASE key = place
        <5>1. t.parked[key] = p /\ p \in Procs
          <6> HIDE DEF place, p
          <6>1. QED BY <1>1, <1>3, <1>5, <4>1 DEF Supervisor
        <5>2. /\ t.child[p].life # "none" /\ t.child[p].kernel = k
              /\ t.child[p].workspace = s.child[p].workspace
          BY <1>3, <1>7, <5>1
        <5>3. QED BY <4>1, <5>1, <5>2
      <4>2. CASE key # place
        <5> DEFINE q == s.parked[key]
        <5>1. t.parked[key] = q
          <6> HIDE DEF place, p
          <6>1. QED BY <1>3, <1>5, <4>2, <3>1 DEF Supervisor
        <5>2. q \in Procs /\ q # NoProc
          BY <1>1, <3>1, <5>1 DEF Supervisor
        <5>3. s.child[q].life # "none" /\ <<s.child[q].kernel, s.child[q].workspace>> = key
          BY <1>1, <5>2 DEF Accounted, ParkedMatches
        <5> HIDE DEF q
        <5>4. QED BY <1>7, <5>1, <5>2, <5>3
      <4>3. QED BY <4>1, <4>2
    <3>2. QED BY <3>1 DEF ParkedMatches
  <2>3. RetiringMatches(t)
    BY <1>1, <1>5, <1>7 DEF Accounted, RetiringMatches, Supervisor
  <2>4. PlacesDisjoint(t)
    BY <1>1, <1>2, <1>5, <1>8, <1>9 DEF Accounted, PlacesDisjoint
  <2>5. NoneLost(t)
    BY <1>1, <1>7, <1>10 DEF Accounted, NoneLost
  <2>6. AllPlaced(t)
    BY <1>1, <1>7, <1>10 DEF Accounted, AllPlaced
  <2>7. ActiveNotParked(t)
    BY <1>1, <1>3, <1>5, <1>7 DEF Accounted, ActiveNotParked, Supervisor
  <2>8. QED BY <2>1, <2>2, <2>3, <2>4, <2>5, <2>6, <2>7 DEF Accounted
<1>12. QED BY <1>5, <1>6, <1>8, <1>9, <1>11 DEF Good

\* parkCurrentLocked.
LEMMA ParkCurrentGood ==
    ASSUME NEW s, Good(s), NEW k \in Kernels, s.process[k] # NoProc
    PROVE  Good(ParkCurrent(s, k)) /\ ParkCurrent(s, k).process[k] = NoProc
<1>1. ParkCurrent(s, k) = EvictOverLimit(Put(s, k), k)
  BY DEF ParkCurrent, Put
<1>2. Good(Put(s, k)) /\ Put(s, k).process = [s.process EXCEPT ![k] = NoProc]
  BY PutGood
<1>3. Put(s, k).process[k] = NoProc
  BY <1>2 DEF Good, Supervisor
<1> HIDE DEF Put
<1>4. QED BY <1>1, <1>2, <1>3, EvictOverLimitGood

\* Leaves(s, t, p): t is s with p taken out of its slot or its key, otherwise unchanged.
Leaves(s, t, p) ==
    /\ t \in Supervisor
    /\ t.process = [k \in Kernels |-> IF s.process[k] = p THEN NoProc ELSE s.process[k]]
    /\ t.parked = [key \in Keys |-> IF s.parked[key] = p THEN NoProc ELSE s.parked[key]]
    /\ t.retiring = s.retiring /\ t.child = s.child

\* retireStaleProcessLocked, for a stale process that was active or parked.
LEMMA RetireGood ==
    ASSUME NEW s, Good(s), NEW p \in ActiveProcs(s) \cup ParkedProcs(s), s.child[p].stale,
           NEW t, Leaves(s, t, p), NEW unbound
    PROVE  Good(Retire(t, p, unbound)) /\ Retire(t, p, unbound).process = t.process
<1> DEFINE c == t.child[p]
           carried == RunningTurns(t, c.kernel, {c.workspace} \cup unbound)
           behind == {<<q, p>> : q \in t.retiring}
           u == [t EXCEPT !.child[p].retiredTurns = carried,
                          !.child[p].idle = FALSE,
                          !.retiring = @ \cup {p},
                          !.order = Without(@, {p}) \cup behind]
<1>1. /\ s \in Supervisor /\ Accounted(s) /\ p \in Procs /\ p # NoProc /\ p \in Tracked(s)
      /\ p \notin s.retiring
  BY DEF Good, Supervisor, ActiveProcs, ParkedProcs, Tracked, Accounted, PlacesDisjoint
<1>2. s.child[p].life # "none"
  BY <1>1 DEF ActiveProcs, ParkedProcs, Accounted, ActiveMatches, ParkedMatches
<1>3. t \in Supervisor
  BY DEF Leaves
<1>4. carried \in SUBSET Sessions
  BY <1>3 DEF RunningTurns, Supervisor
<1>5. behind \in SUBSET (Procs \X Procs) /\ Without(t.order, {p}) \in SUBSET (Procs \X Procs)
  BY <1>1, <1>3, WithoutType DEF Supervisor
<1>6. Retire(t, p, unbound) = u
  BY DEF Retire
<1> HIDE DEF carried, behind
<1>7. /\ u \in Supervisor /\ u.process = t.process /\ u.parked = t.parked
      /\ u.retiring = s.retiring \cup {p}
      /\ u.child = [t.child EXCEPT ![p].retiredTurns = carried, ![p].idle = FALSE]
  <2>1. [t.child EXCEPT ![p].retiredTurns = carried, ![p].idle = FALSE] \in [Procs -> Child]
    <3>1. t.child \in [Procs -> Child] /\ t.child[p] \in Child
      BY <1>1, <1>3 DEF Supervisor
    <3>2. [t.child[p] EXCEPT !.retiredTurns = carried, !.idle = FALSE] \in Child
      BY <1>4, <3>1 DEF Child
    <3>3. QED BY <1>1, <3>1, <3>2
  <2>2. QED BY <1>1, <1>3, <1>5, <2>1 DEF Leaves, Supervisor
<1> HIDE DEF u
<1>8. \A q \in Procs : /\ u.child[q].kernel = s.child[q].kernel
                       /\ u.child[q].workspace = s.child[q].workspace
                       /\ u.child[q].life = s.child[q].life
                       /\ u.child[q].stale = s.child[q].stale
                       /\ u.child[q].retired = s.child[q].retired
  BY <1>1, <1>3, <1>7 DEF Leaves, Supervisor, Child
<1>9. ActiveProcs(u) = ActiveProcs(s) \ {p} /\ ParkedProcs(u) = ParkedProcs(s) \ {p}
  BY <1>1, <1>7 DEF Leaves, ActiveProcs, ParkedProcs
<1>10. Tracked(u) = Tracked(s) /\ Tracked(s) \subseteq Procs
  BY <1>1, <1>7, <1>9, TrackedProcs DEF Tracked
<1>11. Accounted(u)
  <2>1. ActiveMatches(u)
    BY <1>1, <1>7, <1>8 DEF Accounted, ActiveMatches, Leaves, Supervisor
  <2>2. ParkedMatches(u)
    BY <1>1, <1>7, <1>8 DEF Accounted, ParkedMatches, Leaves, Supervisor
  <2>3. RetiringMatches(u)
    BY <1>1, <1>2, <1>7, <1>8 DEF Accounted, RetiringMatches, Supervisor
  <2>4. PlacesDisjoint(u)
    BY <1>1, <1>7, <1>9 DEF Accounted, PlacesDisjoint
  <2>5. NoneLost(u)
    BY <1>1, <1>8, <1>10 DEF Accounted, NoneLost
  <2>6. AllPlaced(u)
    BY <1>1, <1>8, <1>10 DEF Accounted, AllPlaced
  <2>7. ActiveNotParked(u)
    <3> SUFFICES ASSUME NEW k \in Kernels, u.process[k] # NoProc
                 PROVE  u.parked[<<k, u.child[u.process[k]].workspace>>] = NoProc
      BY DEF ActiveNotParked
    <3> DEFINE q == s.process[k]
    <3>1. q \in Procs /\ q \in Tracked(s) /\ u.process[k] = q
      BY <1>1, <1>7 DEF Leaves, Supervisor, Tracked, ActiveProcs
    <3>2. <<k, s.child[q].workspace>> \in Keys
      BY <1>1, <3>1 DEF Accounted, AllPlaced, Keys
    <3>3. s.parked[<<k, s.child[q].workspace>>] = NoProc
      BY <1>1, <1>7, <3>1 DEF Accounted, ActiveNotParked
    <3>4. QED BY <1>1, <1>7, <1>8, <3>1, <3>2, <3>3 DEF Leaves
  <2>8. QED BY <2>1, <2>2, <2>3, <2>4, <2>5, <2>6, <2>7 DEF Accounted
<1>12. QED BY <1>6, <1>7, <1>11 DEF Good

\* Clearing its slot is all it takes for an active process to leave,
LEMMA SetAsideLeaves ==
    ASSUME NEW s, Good(s), NEW k \in Kernels, s.process[k] # NoProc
    PROVE  Leaves(s, [s EXCEPT !.process[k] = NoProc], s.process[k])
<1> DEFINE p == s.process[k]
           t == [s EXCEPT !.process[k] = NoProc]
<1>1. s \in Supervisor /\ Accounted(s) /\ p \in ActiveProcs(s)
  BY DEF Good, ActiveProcs
<1>2. t \in Supervisor /\ t.process = [s.process EXCEPT ![k] = NoProc]
      /\ t.parked = s.parked /\ t.retiring = s.retiring /\ t.child = s.child
  BY <1>1 DEF Supervisor
<1> HIDE DEF t
<1>3. \A l \in Kernels \ {k} : s.process[l] # p
  BY <1>1 DEF Accounted, ActiveMatches
<1>4. \A key \in Keys : s.parked[key] # p
  BY <1>1 DEF Accounted, PlacesDisjoint, ParkedProcs
<1>5. t.process = [l \in Kernels |-> IF s.process[l] = p THEN NoProc ELSE s.process[l]]
  BY <1>1, <1>2, <1>3 DEF Supervisor
<1>6. t.parked = [key \in Keys |-> IF s.parked[key] = p THEN NoProc ELSE s.parked[key]]
  BY <1>1, <1>2, <1>4 DEF Supervisor
<1>7. QED BY <1>2, <1>5, <1>6 DEF Leaves, t

\* and clearing its key for a parked one.
LEMMA TakeBackLeaves ==
    ASSUME NEW s, Good(s), NEW key \in Keys, s.parked[key] # NoProc
    PROVE  Leaves(s, TakeParked(s, {key}), s.parked[key])
<1> DEFINE p == s.parked[key]
           taken == TakeParked(s, {key})
<1>1. s \in Supervisor /\ Accounted(s)
  BY DEF Good
<1>2. /\ taken \in Supervisor
      /\ taken.process = s.process /\ taken.retiring = s.retiring /\ taken.child = s.child
      /\ taken.parked = [other \in Keys |-> IF other \in {key} THEN NoProc ELSE s.parked[other]]
  BY <1>1, TakeParkedType
<1> HIDE DEF taken
<1>3. p \notin ActiveProcs(s) /\ \A other \in Keys : s.parked[other] = p <=> other = key
  BY <1>1 DEF ParkedProcs, Accounted, PlacesDisjoint, ParkedMatches
<1>4. taken.process = [l \in Kernels |-> IF s.process[l] = p THEN NoProc ELSE s.process[l]]
  BY <1>1, <1>2, <1>3 DEF Supervisor, ActiveProcs
<1>5. taken.parked = [other \in Keys |-> IF s.parked[other] = p THEN NoProc ELSE s.parked[other]]
  BY <1>2, <1>3
<1>6. QED BY <1>2, <1>4, <1>5 DEF Leaves, taken

\* The current process, stale or not, leaves an empty slot.
LEMMA SetAsideGood ==
    ASSUME NEW s, Good(s), NEW k \in Kernels
    PROVE  Good(SetAside(s, k)) /\ SetAside(s, k).process[k] = NoProc
<1> DEFINE p == s.process[k]
           t == [s EXCEPT !.process[k] = NoProc]
<1>1. CASE p = NoProc
  BY <1>1 DEF SetAside
<1>2. CASE p # NoProc /\ ~s.child[p].stale
  BY <1>2, ParkCurrentGood DEF SetAside
<1>3. CASE p # NoProc /\ s.child[p].stale
  <2>1. s \in Supervisor /\ p \in ActiveProcs(s)
    BY <1>3 DEF Good, ActiveProcs
  <2>2. t.process = [s.process EXCEPT ![k] = NoProc]
    BY <2>1 DEF Supervisor
  <2>3. Leaves(s, t, p)
    BY <1>3, SetAsideLeaves
  <2> HIDE DEF t
  <2>4. SetAside(s, k) = Retire(t, p, {NoWorkspace})
    BY <1>3 DEF SetAside, t
  <2>5. t.process[k] = NoProc
    BY <2>1, <2>2 DEF Supervisor
  <2> HIDE DEF p
  <2>6. Good(Retire(t, p, {NoWorkspace})) /\ Retire(t, p, {NoWorkspace}).process = t.process
    BY <1>3, <2>1, <2>3, RetireGood
  <2>7. QED BY <2>4, <2>5, <2>6
<1>4. QED BY <1>1, <1>2, <1>3

\* A parked process comes back into an empty slot, or retires if it is stale: if the slot
\* stays empty, nothing is parked for the workspace any more.
LEMMA TakeBackGood ==
    ASSUME NEW s, Good(s), NEW k \in Kernels, NEW w \in Workspaces, s.process[k] = NoProc
    PROVE  LET t == TakeBack(s, k, w)
           IN  Good(t) /\ (t.process[k] = NoProc => t.parked[<<k, w>>] = NoProc)
<1> DEFINE key == <<k, w>>
           p == s.parked[key]
           taken == TakeParked(s, {key})
<1>1. s \in Supervisor /\ Accounted(s) /\ key \in Keys
  BY DEF Good, Keys
<1>2. /\ taken \in Supervisor
      /\ taken.process = s.process /\ taken.retiring = s.retiring /\ taken.child = s.child
      /\ taken.parked = [other \in Keys |-> IF other \in {key} THEN NoProc ELSE s.parked[other]]
  BY <1>1, TakeParkedType
<1>3. CASE p = NoProc
  BY <1>3 DEF TakeBack
<1>4. ASSUME p # NoProc
      PROVE  /\ p \in Procs /\ p \in ParkedProcs(s) /\ p \in Tracked(s)
             /\ p \notin ActiveProcs(s) /\ p \notin s.retiring
             /\ s.child[p].kernel = k /\ s.child[p].workspace = w /\ s.child[p].life # "none"
             /\ \A other \in Keys : s.parked[other] = p <=> other = key
  BY <1>1, <1>4 DEF Supervisor, ParkedProcs, Accounted, PlacesDisjoint, ParkedMatches, Tracked
<1>5. CASE p # NoProc /\ s.child[p].stale
  <2>1. TakeBack(s, k, w) = Retire(taken, p, {})
    BY <1>5 DEF TakeBack
  <2>2. Leaves(s, taken, p)
    BY <1>1, <1>5, TakeBackLeaves
  <2> HIDE DEF taken
  <2>3. Good(Retire(taken, p, {}))
    BY <1>4, <1>5, <2>2, RetireGood
  <2>4. Retire(taken, p, {}).parked = taken.parked
    BY <1>2 DEF Retire, Supervisor
  <2>5. QED BY <1>1, <1>2, <2>1, <2>3, <2>4
<1>6. CASE p # NoProc /\ ~s.child[p].stale
  <2> DEFINE t == [taken EXCEPT !.process[k] = p, !.child[p].idle = FALSE]
  <2>1. TakeBack(s, k, w) = t
    BY <1>6 DEF TakeBack
  <2> HIDE DEF taken
  <2>2. [s.child EXCEPT ![p].idle = FALSE] \in [Procs -> Child]
    <3>1. s.child \in [Procs -> Child] /\ s.child[p] \in Child
      BY <1>1, <1>4, <1>6 DEF Supervisor
    <3>2. [s.child[p] EXCEPT !.idle = FALSE] \in Child
      BY <3>1 DEF Child
    <3>3. QED BY <1>4, <1>6, <3>1, <3>2
  <2>3. [s.process EXCEPT ![k] = p] \in [Kernels -> Procs \cup {NoProc}]
    BY <1>1, <1>4, <1>6 DEF Supervisor
  <2>4. /\ t \in Supervisor
        /\ t.process = [s.process EXCEPT ![k] = p] /\ t.parked = taken.parked
        /\ t.retiring = s.retiring /\ t.child = [s.child EXCEPT ![p].idle = FALSE]
    BY <1>2, <2>2, <2>3 DEF Supervisor
  <2> HIDE DEF t
  <2>5. \A q \in Procs : /\ t.child[q].kernel = s.child[q].kernel
                         /\ t.child[q].workspace = s.child[q].workspace
                         /\ t.child[q].life = s.child[q].life
                         /\ t.child[q].stale = s.child[q].stale
                         /\ t.child[q].retired = s.child[q].retired
    BY <1>1, <2>4 DEF Supervisor, Child
  <2>6. ActiveProcs(t) = ActiveProcs(s) \cup {p}
    BY <1>1, <1>6, <2>4 DEF ActiveProcs, Supervisor
  <2>7. ParkedProcs(t) = ParkedProcs(s) \ {p}
    BY <1>1, <1>2, <1>4, <1>6, <2>4 DEF ParkedProcs
  <2>8. Tracked(t) = Tracked(s) /\ Tracked(s) \subseteq Procs
    BY <1>1, <1>4, <1>6, <2>4, <2>6, <2>7, TrackedProcs DEF Tracked
  <2>9. Accounted(t)
    <3>1. ActiveMatches(t)
      BY <1>1, <1>4, <1>6, <2>4, <2>5 DEF Accounted, ActiveMatches, Supervisor
    <3>2. ParkedMatches(t)
      BY <1>1, <1>2, <2>4, <2>5 DEF Accounted, ParkedMatches, Supervisor
    <3>3. RetiringMatches(t)
      BY <1>1, <2>4, <2>5 DEF Accounted, RetiringMatches, Supervisor
    <3>4. PlacesDisjoint(t)
      BY <1>1, <1>4, <1>6, <2>4, <2>6, <2>7 DEF Accounted, PlacesDisjoint
    <3>5. NoneLost(t)
      BY <1>1, <2>5, <2>8 DEF Accounted, NoneLost
    <3>6. AllPlaced(t)
      BY <1>1, <2>5, <2>8 DEF Accounted, AllPlaced
    <3>7. ActiveNotParked(t)
      <4> SUFFICES ASSUME NEW l \in Kernels, t.process[l] # NoProc
                   PROVE  t.parked[<<l, t.child[t.process[l]].workspace>>] = NoProc
        BY DEF ActiveNotParked
      <4>1. CASE l = k
        <5>1. t.process[k] = p
          BY <1>1, <2>4 DEF Supervisor
        <5>2. t.child[p].workspace = w
          BY <1>4, <1>6, <2>5
        <5>3. t.parked[key] = NoProc
          BY <1>1, <1>2, <2>4
        <5>4. QED BY <4>1, <5>1, <5>2, <5>3
      <4>2. CASE l # k
        <5> DEFINE q == s.process[l]
        <5>1. q \in Procs /\ q \in Tracked(s) /\ t.process[l] = q
          BY <1>1, <2>4, <4>2 DEF Supervisor, Tracked, ActiveProcs
        <5>2. <<l, s.child[q].workspace>> \in Keys
          BY <1>1, <5>1 DEF Accounted, AllPlaced, Keys
        <5>3. s.parked[<<l, s.child[q].workspace>>] = NoProc
          BY <1>1, <5>1 DEF Accounted, ActiveNotParked
        <5>4. QED BY <1>2, <2>4, <2>5, <5>1, <5>2, <5>3
      <4>3. QED BY <4>1, <4>2
    <3>8. QED BY <3>1, <3>2, <3>3, <3>4, <3>5, <3>6, <3>7 DEF Accounted
  <2>10. t.process[k] # NoProc
    BY <1>1, <1>6, <2>4 DEF Supervisor
  <2>11. QED BY <2>1, <2>4, <2>9, <2>10 DEF Good
<1>7. QED BY <1>3, <1>5, <1>6

\* Everything ensureKernelProcessLocked does before it starts a process: if one is needed,
\* nothing is parked where it goes.
LEMMA PreparedGood ==
    ASSUME NEW s, Good(s), NEW k \in Kernels, NEW w \in Workspaces
    PROVE  LET t == Prepared(s, k, w)
           IN  Good(t) /\ (t.process[k] = NoProc => t.parked[<<k, w>>] = NoProc)
<1> DEFINE swept == ReapStale(ReapParked(s, k))
<1>1. Good(swept)
  BY ReapParkedGood, ReapStaleGood
<1> HIDE DEF swept
<1>2. CASE ServesNow(swept, k, w)
  BY <1>1, <1>2 DEF Prepared, swept, ServesNow
<1>3. CASE ~ServesNow(swept, k, w)
  <2>1. Good(SetAside(swept, k)) /\ SetAside(swept, k).process[k] = NoProc
    BY <1>1, SetAsideGood
  <2>2. Prepared(s, k, w) = TakeBack(SetAside(swept, k), k, w)
    BY <1>3 DEF Prepared, swept
  <2>3. QED BY <2>1, <2>2, TakeBackGood
<1>4. QED BY <1>2, <1>3

\* A new process goes where no process is.
LEMMA SpawnGood ==
    ASSUME NEW s, Good(s), NEW k \in Kernels, NEW w \in Workspaces,
           s.process[k] = NoProc, s.parked[<<k, w>>] = NoProc, Unused(s) # {}
    PROVE  Good(Spawn(s, k, w))
<1> DEFINE p == CHOOSE q \in Unused(s) : TRUE
           fresh == [NoChild EXCEPT !.kernel = k, !.workspace = w, !.life = "live"]
           t == [s EXCEPT !.process[k] = p, !.child[p] = fresh]
<1>1. s \in Supervisor /\ Accounted(s) /\ p \in Unused(s)
  BY DEF Good
<1>2. Spawn(s, k, w) = t
  BY DEF Spawn
<1> HIDE DEF p
<1>3. p \in Procs /\ p # NoProc /\ s.child[p].life = "none"
  BY <1>1, ProcsAssumption DEF Unused
<1>4. p \notin Tracked(s)
  BY <1>1, <1>3 DEF Tracked, ActiveProcs, ParkedProcs, Accounted, ActiveMatches, ParkedMatches,
     RetiringMatches
<1>5. /\ fresh \in Child
      /\ fresh.kernel = k /\ fresh.workspace = w /\ fresh.life = "live"
      /\ fresh.retired = FALSE
  BY DEF NoChild, Child
<1> HIDE DEF fresh
<1>6. /\ t \in Supervisor
      /\ t.process = [s.process EXCEPT ![k] = p] /\ t.child = [s.child EXCEPT ![p] = fresh]
      /\ t.parked = s.parked /\ t.retiring = s.retiring
  <2>1. [s.process EXCEPT ![k] = p] \in [Kernels -> Procs \cup {NoProc}]
    BY <1>1, <1>3 DEF Supervisor
  <2>2. [s.child EXCEPT ![p] = fresh] \in [Procs -> Child]
    BY <1>1, <1>3, <1>5 DEF Supervisor
  <2>3. QED BY <1>1, <2>1, <2>2 DEF Supervisor
<1> HIDE DEF t
<1>7. t.child[p] = fresh /\ \A q \in Procs \ {p} : t.child[q] = s.child[q]
  BY <1>1, <1>3, <1>6 DEF Supervisor
<1>8. /\ ActiveProcs(t) = ActiveProcs(s) \cup {p}
      /\ ParkedProcs(t) = ParkedProcs(s)
      /\ Tracked(t) = Tracked(s) \cup {p} /\ Tracked(s) \subseteq Procs
  <2>1. ActiveProcs(t) = ActiveProcs(s) \cup {p}
    BY <1>1, <1>3, <1>6 DEF ActiveProcs, Supervisor
  <2>2. ParkedProcs(t) = ParkedProcs(s)
    BY <1>6 DEF ParkedProcs
  <2>3. QED BY <1>1, <1>6, <2>1, <2>2, TrackedProcs DEF Tracked
<1>9. p \notin ActiveProcs(s) /\ p \notin ParkedProcs(s) /\ p \notin s.retiring
  BY <1>4 DEF Tracked
<1>10. Accounted(t)
  <2>1. ActiveMatches(t)
    BY <1>1, <1>3, <1>5, <1>6, <1>7, <1>9 DEF Accounted, ActiveMatches, ActiveProcs, Supervisor
  <2>2. ParkedMatches(t)
    BY <1>1, <1>6, <1>7, <1>9 DEF Accounted, ParkedMatches, ParkedProcs, Supervisor
  <2>3. RetiringMatches(t)
    BY <1>1, <1>6, <1>7, <1>9 DEF Accounted, RetiringMatches, Supervisor
  <2>4. PlacesDisjoint(t)
    BY <1>1, <1>6, <1>8, <1>9 DEF Accounted, PlacesDisjoint
  <2>5. NoneLost(t)
    BY <1>1, <1>7, <1>8 DEF Accounted, NoneLost
  <2>6. AllPlaced(t)
    BY <1>1, <1>4, <1>5, <1>7, <1>8 DEF Accounted, AllPlaced
  <2>7. ActiveNotParked(t)
    BY <1>1, <1>3, <1>5, <1>6, <1>7, <1>9 DEF Accounted, ActiveNotParked, ActiveProcs, Supervisor
  <2>8. QED BY <2>1, <2>2, <2>3, <2>4, <2>5, <2>6, <2>7 DEF Accounted
<1>11. QED BY <1>2, <1>6, <1>10 DEF Good

\* ensureKernelProcessLocked.
LEMMA EnsureKernelProcessGood ==
    ASSUME NEW s, Good(s), NEW k \in Kernels, NEW w \in Workspaces, CanEnsure(s, k, w)
    PROVE  Good(EnsureKernelProcess(s, k, w))
<1>1. LET t == Prepared(s, k, w)
      IN  Good(t) /\ (t.process[k] = NoProc => t.parked[<<k, w>>] = NoProc)
  BY PreparedGood
<1>2. CASE NeedsSpawn(s, k, w)
  BY <1>1, <1>2, SpawnGood DEF EnsureKernelProcess, NeedsSpawn, CanEnsure
<1>3. CASE ~NeedsSpawn(s, k, w)
  BY <1>1, <1>3 DEF EnsureKernelProcess
<1>4. QED BY <1>2, <1>3

-----------------------------------------------------------------------------
(* The other critical sections.                                             *)

\* A session always has a kernel that runs it.
LEMMA KernelOfType ==
    ASSUME NEW s \in Supervisor, NEW x \in Sessions
    PROVE  KernelOf(s, x) \in Kernels
BY KernelsAssumption DEF KernelOf, Supervisor

\* processForSessionLocked returns a process it tracks, or none.
LEMMA ProcessForSessionTracked ==
    ASSUME NEW s \in Supervisor, NEW x \in Sessions, ProcessForSession(s, x) # NoProc
    PROVE  ProcessForSession(s, x) \in Tracked(s)
<1> DEFINE k == KernelOf(s, x)
           w == s.workspaces[x]
           r == RetiringProcessForSession(s, x)
<1>1. r # NoProc => r \in s.retiring
  BY DEF RetiringProcessForSession, Eldest
<1>2. k \in Kernels /\ (w # NoWorkspace => <<k, w>> \in Keys)
  BY KernelOfType DEF Supervisor, Keys
<1>3. \/ ProcessForSession(s, x) = r
      \/ w # NoWorkspace /\ ProcessForSession(s, x) = s.parked[<<k, w>>]
      \/ ProcessForSession(s, x) = s.process[k]
  BY DEF ProcessForSession
<1> HIDE DEF k, w, r
<1>4. QED BY <1>1, <1>2, <1>3 DEF Tracked, ActiveProcs, ParkedProcs

\* Marked(s, t): every process of t is where it was in s, and what the Supervisor notes of
\* it only ever moves towards stale and retired.
Marked(s, t) ==
    /\ t.process = s.process /\ t.parked = s.parked /\ t.retiring = s.retiring
    /\ \A p \in Procs : /\ t.child[p].kernel = s.child[p].kernel
                        /\ t.child[p].workspace = s.child[p].workspace
                        /\ t.child[p].life = "none" <=> s.child[p].life = "none"
                        /\ s.child[p].stale => t.child[p].stale
                        /\ s.child[p].retired => t.child[p].retired

\* Marking processes keeps a record good.
LEMMA MarkedGood ==
    ASSUME NEW s, Good(s), NEW t \in Supervisor, Marked(s, t)
    PROVE  Good(t)
<1>1. s \in Supervisor /\ Accounted(s)
  BY DEF Good
<1>2. /\ ActiveProcs(t) = ActiveProcs(s) /\ ParkedProcs(t) = ParkedProcs(s)
      /\ Tracked(t) = Tracked(s) /\ Tracked(s) \subseteq Procs
  BY <1>1, TrackedProcs DEF Marked, Tracked, ActiveProcs, ParkedProcs
<1>3. ActiveMatches(t)
  BY <1>1 DEF Marked, Accounted, ActiveMatches, Supervisor
<1>4. ParkedMatches(t)
  BY <1>1 DEF Marked, Accounted, ParkedMatches, Supervisor
<1>5. RetiringMatches(t)
  BY <1>1 DEF Marked, Accounted, RetiringMatches, Supervisor
<1>6. PlacesDisjoint(t)
  BY <1>1, <1>2 DEF Marked, Accounted, PlacesDisjoint
<1>7. NoneLost(t)
  BY <1>1, <1>2 DEF Marked, Accounted, NoneLost
<1>8. AllPlaced(t)
  BY <1>1, <1>2 DEF Marked, Accounted, AllPlaced
<1>9. ActiveNotParked(t)
  BY <1>1 DEF Marked, Accounted, ActiveNotParked, Supervisor
<1>10. QED BY <1>3, <1>4, <1>5, <1>6, <1>7, <1>8, <1>9 DEF Good, Accounted

\* BindSessionKernel only writes the kernel of a session.
LEMMA BindKernelGood ==
    ASSUME NEW s, Good(s), NEW x \in Sessions
    PROVE  Good(BindKernel(s, x))
<1>1. s \in Supervisor
  BY DEF Good
<1>2. BindKernel(s, x) \in Supervisor /\ SamePlaces(s, BindKernel(s, x))
  BY <1>1, ConversationsAssumption DEF BindKernel, Supervisor, SamePlaces
<1>3. QED BY <1>2, SamePlacesGood

\* StopStaleSidecars.
LEMMA StopStaleGood ==
    ASSUME NEW s, Good(s)
    PROVE  Good(StopStale(s))
<1> DEFINE stale(p) == p # NoProc /\ s.child[p].stale
           active == {k \in Kernels : stale(s.process[k])}
           parked == {key \in Keys : stale(s.parked[key])}
           t == StopActive(s, active)
           u == StopParked(t, parked)
           P == {p \in s.retiring : stale(p)}
<1>1. Good(t) /\ t.retiring = s.retiring
  <2>1. Good(t)
    BY StopActiveGood
  <2>2. t.retiring = s.retiring
    BY DEF StopActive, Stop, Interrupt, ForgetSessions
  <2>3. QED BY <2>1, <2>2
<1>2. u.retiring = t.retiring
  BY DEF StopParked, Stop, Interrupt, ForgetSessions, TakeParked
<1>3. Good(u)
  BY <1>1, StopParkedGood
<1>4. P \in SUBSET u.retiring
  BY <1>1, <1>2
<1>5. StopStale(s) = StopRetired(u, P)
  BY DEF StopStale
<1> HIDE DEF u, P
<1>6. QED BY <1>3, <1>4, <1>5, StopRetiredGood

\* A retiring process is told to stop and stays in the slice until its reader is done.
Killed(s, X, p) ==
    [ForgetSessions(s, X) EXCEPT !.notices = @ \cup X, !.child[p].retired = TRUE,
                                 !.child[p].life = "dead"]

LEMMA KilledGood ==
    ASSUME NEW s, Good(s), NEW X \in SUBSET Sessions, NEW p \in Tracked(s)
    PROVE  Good(Killed(s, X, p))
<1> DEFINE forgotten == ForgetSessions(s, X)
           c == [s.child[p] EXCEPT !.retired = TRUE, !.life = "dead"]
           killed == Killed(s, X, p)
<1>1. s \in Supervisor /\ Accounted(s) /\ p \in Procs
  BY TrackedProcs DEF Good
<1>2. s.child[p].life # "none" /\ s.child[p] \in Child
  BY <1>1 DEF Tracked, ActiveProcs, ParkedProcs, Accounted, ActiveMatches, ParkedMatches,
     RetiringMatches, Supervisor
<1>3. forgotten \in Supervisor /\ SamePlaces(s, forgotten)
  BY <1>1, ForgetSessionsType
<1>4. c \in Child /\ c.kernel = s.child[p].kernel /\ c.workspace = s.child[p].workspace
      /\ c.life # "none" /\ c.stale = s.child[p].stale /\ c.retired
  BY <1>2 DEF Child
<1> HIDE DEF forgotten
<1>5. killed = [forgotten EXCEPT !.notices = @ \cup X, !.child = [s.child EXCEPT ![p] = c]]
  BY <1>3, <1>1 DEF SamePlaces, Supervisor, Killed, forgotten
<1> HIDE DEF c, killed
<1>6. [s.child EXCEPT ![p] = c] \in [Procs -> Child]
  BY <1>1, <1>4 DEF Supervisor
<1>7. killed \in Supervisor /\ killed.child = [s.child EXCEPT ![p] = c]
      /\ killed.process = s.process /\ killed.parked = s.parked /\ killed.retiring = s.retiring
  BY <1>3, <1>5, <1>6 DEF SamePlaces, Supervisor
<1>8. Marked(s, killed)
  BY <1>1, <1>2, <1>4, <1>7 DEF Marked, Supervisor
<1>9. QED BY <1>7, <1>8, MarkedGood DEF killed

\* RestartEngine, whichever place the process of the session has.
LEMMA RestartedGood ==
    ASSUME NEW s, Good(s), NEW x \in Sessions, NEW p \in Tracked(s)
    PROVE  Good(Restarted(s, x, p))
<1> DEFINE k == KernelOf(s, x)
           key == <<k, s.child[p].workspace>>
           carried == (s.child[p].retiredTurns \cap s.busy) \cup {x}
           forgotten == ForgetSessions(s, carried)
           killed == [forgotten EXCEPT !.notices = @ \cup carried,
                                       !.child[p].retired = TRUE,
                                       !.child[p].life = "dead"]
           stopped == CASE s.process[k] = p -> StopActive(s, {k})
                        [] s.process[k] # p /\ s.parked[key] = p -> StopParked(s, {key})
                        [] OTHER -> killed
           t == ForgetSessions(stopped, {x})
           u == [t EXCEPT !.notices = (@ \ {x}) \cup (s.notices \cap {x})]
<1>1. s \in Supervisor /\ Accounted(s) /\ p \in Procs /\ k \in Kernels /\ key \in Keys
  BY TrackedProcs, KernelOfType DEF Good, Accounted, AllPlaced, Keys
<1>2. carried \in SUBSET Sessions
  BY <1>1 DEF Supervisor
<1>4. Good(killed)
  BY <1>2, KilledGood DEF Killed
<1>5. Good(StopActive(s, {k})) /\ Good(StopParked(s, {key}))
  BY <1>1, StopActiveGood, StopParkedGood
<1>6. Good(stopped)
  BY <1>4, <1>5
<1> HIDE DEF stopped
<1>7. t \in Supervisor /\ SamePlaces(stopped, t)
  BY <1>6, ForgetSessionsType DEF Good
<1>8. Restarted(s, x, p) = u
  BY DEF Restarted, stopped
<1> HIDE DEF t
<1>9. u \in Supervisor /\ SamePlaces(stopped, u)
  BY <1>1, <1>7 DEF Supervisor, SamePlaces
<1> HIDE DEF u
<1>10. QED BY <1>6, <1>8, <1>9, SamePlacesGood

\* The clean-up of readEvents: a process whose output ended leaves whatever place it had.
LEMMA ExitedGood ==
    ASSUME NEW s, Good(s), NEW p \in Procs
    PROVE  Good(Exited(s, p)) /\ Removed(s, Exited(s, p), {p})
<1> DEFINE c == s.child[p]
           k == c.kernel
           key == <<c.kernel, c.workspace>>
           served == ServedBy(s, k, {c.workspace, NoWorkspace})
           research == IF k = KernelPi THEN served \cap (s.workers \cup s.runs) ELSE {}
           carried == {x \in c.retiredTurns \cap s.sessions : KernelOf(s, x) = k}
           told == IF c.retired THEN {} ELSE carried \cap Working(s)
           retired == Interrupt(TakeRetiring(s, {p}), told)
           cleared == [ForgetSessions(s, served) EXCEPT !.process[k] = NoProc,
                                                        !.notices = @ \cup research]
           dropped == Interrupt(TakeParked(s, {key}), ServedBy(s, k, {c.workspace}))
           left == CASE p \in s.retiring -> retired
                     [] p \notin s.retiring /\ s.process[k] = p -> cleared
                     [] p \in ParkedProcs(s) -> dropped
                     [] OTHER -> s
           t == [left EXCEPT !.child[p] = NoChild]
<1>1. s \in Supervisor /\ Accounted(s) /\ k \in Kernels /\ p # NoProc
  BY ProcsAssumption DEF Good, Supervisor, Child
<1>2. research \in SUBSET Sessions
  BY <1>1 DEF Supervisor
<1>3. Exited(s, p) = t
  BY DEF Exited
<1> HIDE DEF research, told, carried, served, retired, cleared, dropped
\* What each case leaves of the places of processes.
<1> DEFINE Left(u) ==
             /\ u \in Supervisor
             /\ u.process = [l \in Kernels |-> IF s.process[l] = p THEN NoProc ELSE s.process[l]]
             /\ u.parked = [other \in Keys |-> IF s.parked[other] = p THEN NoProc ELSE s.parked[other]]
             /\ u.retiring = s.retiring \ {p}
             /\ u.child = s.child
<1>4. ASSUME \A l \in Kernels : s.process[l] # p PROVE
        s.process = [l \in Kernels |-> IF s.process[l] = p THEN NoProc ELSE s.process[l]]
  BY <1>1, <1>4 DEF Supervisor
<1>5. ASSUME \A other \in Keys : s.parked[other] # p PROVE
        s.parked = [other \in Keys |-> IF s.parked[other] = p THEN NoProc ELSE s.parked[other]]
  BY <1>1, <1>5 DEF Supervisor
<1>6. ASSUME p \in s.retiring
      PROVE  Left(left)
  <2>1. (\A l \in Kernels : s.process[l] # p) /\ \A other \in Keys : s.parked[other] # p
    BY <1>1, <1>6 DEF Accounted, PlacesDisjoint, ActiveProcs, ParkedProcs
  <2> DEFINE taken == TakeRetiring(s, {p})
  <2>2. /\ taken \in Supervisor
        /\ taken.process = s.process /\ taken.parked = s.parked /\ taken.child = s.child
        /\ taken.retiring = s.retiring \ {p}
    BY <1>1, TakeRetiringType
  <2> HIDE DEF taken
  <2>3. Interrupt(taken, told) \in Supervisor /\ SamePlaces(taken, Interrupt(taken, told))
    BY <2>2, InterruptType
  <2>4. left = Interrupt(taken, told)
    <3>1. p \notin ParkedProcs(s)
      BY <1>1, <1>6 DEF Accounted, PlacesDisjoint
    <3>2. left = retired
      BY <1>6, <3>1
    <3>3. QED BY <3>2 DEF taken, retired
  <2> HIDE DEF left
  <2>5. Left(left)
    BY <1>4, <1>5, <2>1, <2>2, <2>3, <2>4 DEF SamePlaces
  <2>6. QED BY <2>5
<1>7. ASSUME p \notin s.retiring /\ s.process[k] = p
      PROVE  Left(left)
  <2>1. \A other \in Keys : s.parked[other] # p
    BY <1>1, <1>7 DEF Accounted, PlacesDisjoint, ActiveProcs, ParkedProcs
  <2>2. \A l \in Kernels \ {k} : s.process[l] # p
    BY <1>1 DEF Accounted, ActiveMatches
  <2> DEFINE forgotten == ForgetSessions(s, served)
  <2>3. forgotten \in Supervisor /\ SamePlaces(s, forgotten)
    BY <1>1, ForgetSessionsType
  <2>4. left = [forgotten EXCEPT !.process[k] = NoProc, !.notices = @ \cup research]
    <3>1. p \notin ParkedProcs(s)
      BY <1>1, <1>7 DEF Accounted, PlacesDisjoint, ActiveProcs
    <3>2. left = cleared
      BY <1>7, <3>1
    <3>3. QED BY <3>2 DEF cleared
  <2> HIDE DEF forgotten, left
  <2>5. [s.process EXCEPT ![k] = NoProc] \in [Kernels -> Procs \cup {NoProc}]
    BY <1>1 DEF Supervisor
  <2>6. /\ left \in Supervisor
        /\ left.process = [s.process EXCEPT ![k] = NoProc]
        /\ left.parked = s.parked /\ left.retiring = s.retiring /\ left.child = s.child
    BY <1>2, <2>3, <2>4, <2>5 DEF SamePlaces, Supervisor
  <2>7. left.process = [l \in Kernels |-> IF s.process[l] = p THEN NoProc ELSE s.process[l]]
    BY <1>1, <1>7, <2>2, <2>6 DEF Supervisor
  <2>8. Left(left)
    BY <1>5, <1>7, <2>1, <2>6, <2>7
  <2>9. QED BY <2>8
<1>8. ASSUME p \notin s.retiring /\ s.process[k] # p /\ p \in ParkedProcs(s)
      PROVE  Left(left)
  <2>1. (\A l \in Kernels : s.process[l] # p) /\ key \in Keys
        /\ \A other \in Keys : s.parked[other] = p <=> other = key
    BY <1>1, <1>8 DEF Accounted, PlacesDisjoint, ActiveProcs, ParkedProcs, ParkedMatches
  <2> DEFINE taken == TakeParked(s, {key})
             gone == ServedBy(s, k, {c.workspace})
  <2>2. /\ taken \in Supervisor
        /\ taken.process = s.process /\ taken.retiring = s.retiring /\ taken.child = s.child
        /\ taken.parked = [other \in Keys |-> IF other \in {key} THEN NoProc ELSE s.parked[other]]
    BY <1>1, TakeParkedType
  <2>3. left = Interrupt(taken, gone)
    BY <1>8 DEF dropped
  <2> HIDE DEF taken, gone, left
  <2>4. left \in Supervisor /\ SamePlaces(taken, left)
    BY <2>2, <2>3, InterruptType
  <2>5. taken.parked = [other \in Keys |-> IF s.parked[other] = p THEN NoProc ELSE s.parked[other]]
    BY <2>1, <2>2
  <2>6. Left(left)
    BY <1>4, <1>8, <2>1, <2>2, <2>4, <2>5 DEF SamePlaces
  <2>7. QED BY <2>6
<1>9. ASSUME p \notin s.retiring /\ s.process[k] # p /\ p \notin ParkedProcs(s)
      PROVE  Left(left)
  <2>1. (\A l \in Kernels : s.process[l] # p) /\ \A other \in Keys : s.parked[other] # p
    BY <1>1, <1>9 DEF Accounted, ActiveMatches, ParkedProcs
  <2>2. left = s
    BY <1>9
  <2> HIDE DEF left
  <2>3. Left(left)
    BY <1>1, <1>4, <1>5, <1>9, <2>1, <2>2
  <2>4. QED BY <2>3
<1> HIDE DEF left
<1>10. Left(left)
  BY <1>6, <1>7, <1>8, <1>9
<1>11. /\ t \in Supervisor
       /\ t.process = left.process /\ t.parked = left.parked /\ t.retiring = left.retiring
       /\ t.child = [s.child EXCEPT ![p] = NoChild]
  <2>1. NoChild \in Child
    BY KernelsAssumption DEF NoChild, Child
  <2>2. [s.child EXCEPT ![p] = NoChild] \in [Procs -> Child]
    BY <1>1, <2>1 DEF Supervisor
  <2>3. QED BY <1>10, <2>2 DEF Supervisor
<1> HIDE DEF t
<1>12. \A q \in Procs : IF q \in {p} THEN t.child[q].life = "none" ELSE t.child[q] = s.child[q]
  BY <1>1, <1>11 DEF NoChild, Supervisor
<1>13. Removed(s, t, {p})
  BY <1>10, <1>11, <1>12 DEF Removed
<1>14. Good(t)
  BY <1>11, <1>13, RemovedGood
<1>15. QED BY <1>3, <1>13, <1>14

-----------------------------------------------------------------------------
(* What the sidecars do, and what they write, stays well typed.             *)

\* What TypeOK asks of bridge.
Bridges == [Procs -> Bridge]

\* A sidecar's record has well typed parts.
LEMMA BridgeParts ==
    ASSUME NEW b \in Bridges, NEW p \in Procs
    PROVE  /\ b[p].known \subseteq Sessions /\ b[p].turns \in [Sessions -> 0..MaxTurns]
           /\ b[p].workers \subseteq Sessions /\ b[p].refused \subseteq Sessions
           /\ b[p].out \in Seq(Events)
BY DEF Bridges, Bridge

\* The lines a sidecar writes.
LEMMA EventType ==
    ASSUME NEW x \in Sessions,
           NEW kind \in {"activity", "settled", "error", "destroyed", "workers", "workersDone"},
           kind = "workers" => x \in Researchers
    PROVE  Event(kind, x) \in Events
BY DEF Event, Events

\* A sidecar that was killed does nothing any more.
LEMMA SurvivorsType ==
    ASSUME NEW s \in Supervisor, bridge \in Bridges
    PROVE  Survivors(s) \in Bridges
<1>1. \A p \in Procs : Survivors(s)[p] \in Bridge
  <2> TAKE p \in Procs
  <2>1. CASE s.child[p].life = "live"
    BY <2>1 DEF Survivors, Bridges
  <2>2. CASE s.child[p].life # "live"
    <3>1. bridge[p].out \in Seq(Events)
      BY BridgeParts
    <3>2. [NewBridge EXCEPT !.out = bridge[p].out] \in Bridge
      BY <3>1, BoundsAssumption DEF NewBridge, Bridge
    <3>3. QED BY <2>2, <3>2 DEF Survivors
  <2>3. QED BY <2>1, <2>2
<1>2. QED BY <1>1 DEF Survivors, Bridges

\* Lines are appended to what the sidecar has written.
LEMMA SaysType ==
    ASSUME NEW b \in Bridges, NEW p \in Procs, NEW lines \in Seq(Events)
    PROVE  Says(b, p, lines) \in Bridges
<1> DEFINE c == [b[p] EXCEPT !.out = @ \o lines]
<1>1. b[p] \in Bridge /\ b[p].out \in Seq(Events)
  BY DEF Bridges, Bridge
<1>2. b[p].out \o lines \in Seq(Events)
  BY <1>1
<1>3. c \in Bridge
  BY <1>1, <1>2 DEF Bridge
<1>4. Says(b, p, lines) = [b EXCEPT ![p] = c]
  BY DEF Says, Bridges, Bridge
<1>5. QED BY <1>3, <1>4 DEF Bridges

\* Setting the turns of a session within the bound, and the workers.
LEMMA TurnsType ==
    ASSUME NEW b \in Bridges, NEW p \in Procs, NEW x \in Sessions, NEW n \in 0..MaxTurns
    PROVE  [b EXCEPT ![p].turns[x] = n] \in Bridges
<1> DEFINE c == [b[p] EXCEPT !.turns[x] = n]
<1>1. b[p] \in Bridge /\ b[p].turns \in [Sessions -> 0..MaxTurns]
  BY DEF Bridges, Bridge
<1>2. [b[p].turns EXCEPT ![x] = n] \in [Sessions -> 0..MaxTurns]
  BY <1>1
<1>3. c \in Bridge
  BY <1>1, <1>2 DEF Bridge
<1>4. [b EXCEPT ![p].turns[x] = n] = [b EXCEPT ![p] = c]
  BY DEF Bridges, Bridge
<1>5. QED BY <1>3, <1>4 DEF Bridges

\* The sessions whose next prompt is dropped.
LEMMA RefusedType ==
    ASSUME NEW b \in Bridges, NEW p \in Procs, NEW X \in SUBSET Sessions
    PROVE  [b EXCEPT ![p].refused = X] \in Bridges
<1>1. [b[p] EXCEPT !.refused = X] \in Bridge
  BY DEF Bridges, Bridge
<1>2. [b EXCEPT ![p].refused = X] = [b EXCEPT ![p] = [b[p] EXCEPT !.refused = X]]
  BY DEF Bridges, Bridge
<1>3. QED BY <1>1, <1>2 DEF Bridges

\* A prompt adds a turn as long as the bound allows one, or is dropped with a line.
LEMMA PromptedType ==
    ASSUME NEW b \in Bridges, NEW p \in Procs, NEW x \in Sessions, b[p].turns[x] < MaxTurns
    PROVE  Prompted(b, p, x) \in Bridges
<1>1. CASE x \in b[p].refused \ b[p].known
  <2> DEFINE d == [b EXCEPT ![p].refused = @ \ {x}]
  <2>1. b[p].refused \ {x} \in SUBSET Sessions
    BY BridgeParts
  <2>2. d \in Bridges
    BY <2>1, RefusedType
  <2>3. <<Event("settled", x)>> \in Seq(Events)
    BY EventType
  <2>4. Prompted(b, p, x) = Says(d, p, <<Event("settled", x)>>)
    BY <1>1 DEF Prompted
  <2> HIDE DEF d
  <2>5. QED BY <2>2, <2>3, <2>4, SaysType
<1>2. CASE x \notin b[p].refused \ b[p].known
  <2> DEFINE c == [b[p] EXCEPT !.known = @ \cup {x}, !.turns[x] = @ + 1]
  <2>1. /\ b[p].known \subseteq Sessions /\ b[p].turns \in [Sessions -> 0..MaxTurns]
        /\ b[p] \in Bridge
    BY DEF Bridges, Bridge
  <2>2. [b[p].turns EXCEPT ![x] = @ + 1] \in [Sessions -> 0..MaxTurns]
    BY <2>1, BoundsAssumption
  <2>3. c \in Bridge
    BY <2>1, <2>2 DEF Bridge
  <2>4. Prompted(b, p, x) = [b EXCEPT ![p] = c]
    BY <1>2 DEF Prompted, Bridges, Bridge
  <2>5. QED BY <2>3, <2>4 DEF Bridges
<1>3. QED BY <1>1, <1>2

\* abort_session.
LEMMA AbortedType ==
    ASSUME NEW b \in Bridges, NEW p \in Procs, NEW x \in Sessions
    PROVE  Aborted(b, p, x) \in Bridges
<1> DEFINE a == [b EXCEPT ![p].turns[x] = 0]
           c == [b EXCEPT ![p].turns[x] = 0, ![p].refused = @ \cup ({x} \ b[p].known)]
           lines == IF b[p].turns[x] > 0 THEN <<Event("settled", x), Event("settled", x)>>
                                         ELSE <<Event("settled", x)>>
<1>1. c \in Bridges
  <2>1. a \in Bridges
    BY TurnsType, BoundsAssumption
  <2>2. a[p].refused = b[p].refused
    BY DEF Bridges, Bridge
  <2>3. a[p].refused \cup ({x} \ b[p].known) \in SUBSET Sessions
    BY <2>2, BridgeParts
  <2>4. c = [a EXCEPT ![p].refused = a[p].refused \cup ({x} \ b[p].known)]
    OBVIOUS
  <2> HIDE DEF a, c
  <2>5. QED BY <2>1, <2>3, <2>4, RefusedType
<1>2. lines \in Seq(Events)
  BY EventType
<1>3. Aborted(b, p, x) = Says(c, p, lines)
  BY DEF Aborted
<1> HIDE DEF c, lines
<1>4. QED BY <1>1, <1>2, <1>3, SaysType

\* destroy_session.
LEMMA DestroyedType ==
    ASSUME NEW b \in Bridges, NEW p \in Procs, NEW x \in Sessions
    PROVE  Destroyed(b, p, x) \in Bridges
<1> DEFINE c == [b[p] EXCEPT !.known = @ \ {x}, !.turns[x] = 0, !.workers = @ \ {x},
                             !.refused = @ \ {x}]
           d == [b EXCEPT ![p].known = @ \ {x}, ![p].turns[x] = 0, ![p].workers = @ \ {x},
                          ![p].refused = @ \ {x}]
           lines == IF b[p].turns[x] > 0 THEN <<Event("settled", x), Event("destroyed", x)>>
                                         ELSE <<Event("destroyed", x)>>
<1>1. b[p] \in Bridge /\ b[p].turns \in [Sessions -> 0..MaxTurns]
  BY DEF Bridges, Bridge
<1>2. [b[p].turns EXCEPT ![x] = 0] \in [Sessions -> 0..MaxTurns]
  BY <1>1, BoundsAssumption
<1>3. c \in Bridge
  BY <1>1, <1>2 DEF Bridge
<1>4. d = [b EXCEPT ![p] = c]
  BY DEF Bridges, Bridge
<1>5. d \in Bridges
  BY <1>3, <1>4 DEF Bridges
<1>6. lines \in Seq(Events)
  BY EventType
<1>7. Destroyed(b, p, x) = Says(d, p, lines)
  BY DEF Destroyed
<1> HIDE DEF d, lines
<1>8. QED BY <1>5, <1>6, <1>7, SaysType

\* A sidecar's workers.
LEMMA WorkersType ==
    ASSUME NEW b \in Bridges, NEW p \in Procs, NEW W \in SUBSET Sessions
    PROVE  [b EXCEPT ![p].workers = W] \in Bridges
<1>1. [b[p] EXCEPT !.workers = W] \in Bridge
  BY DEF Bridges, Bridge
<1>2. [b EXCEPT ![p].workers = W] = [b EXCEPT ![p] = [b[p] EXCEPT !.workers = W]]
  BY DEF Bridges, Bridge
<1>3. QED BY <1>1, <1>2 DEF Bridges

\* The sessions a sidecar knows.
LEMMA KnownType ==
    ASSUME NEW b \in Bridges, NEW p \in Procs, NEW X \in SUBSET Sessions
    PROVE  [b EXCEPT ![p].known = X] \in Bridges
<1>1. [b[p] EXCEPT !.known = X] \in Bridge
  BY DEF Bridges, Bridge
<1>2. [b EXCEPT ![p].known = X] = [b EXCEPT ![p] = [b[p] EXCEPT !.known = X]]
  BY DEF Bridges, Bridge
<1>3. QED BY <1>1, <1>2 DEF Bridges

-----------------------------------------------------------------------------
(* Each action preserves the invariant.                                     *)

\* Inductive as it stands: a place that says what its process runs is what keeps the next
\* step from putting the process in a second one.
IInv == TypeOK /\ SidecarsAccountedFor

\* The invariant, as the lemmas speak of it.
LEMMA IInvParts ==
    IInv <=> /\ Good(sup) /\ bridge \in Bridges /\ forks \subseteq Sessions \X Sessions
             /\ sends \subseteq Sessions \X Workspaces /\ ui \subseteq Sessions
BY DEF IInv, TypeOK, SidecarsAccountedFor, Good, Bridges, Supervisor

\* The parts again, for the next state.
LEMMA IInvPartsNext ==
    IInv' <=> /\ Good(sup') /\ bridge' \in Bridges
              /\ forks' \subseteq Sessions \X Sessions
              /\ sends' \subseteq Sessions \X Workspaces /\ ui' \subseteq Sessions
BY DEF IInv, TypeOK, SidecarsAccountedFor, Good, Bridges

\* A reached process is one of the processes.
LEMMA ReachedIsProc ==
    ASSUME NEW s \in Supervisor, NEW x \in Sessions, Reaches(s, ProcessForSession(s, x))
    PROVE  ProcessForSession(s, x) \in Procs /\ ProcessForSession(s, x) \in Tracked(s)
BY ProcessForSessionTracked, TrackedProcs DEF Reaches

\* Initially there is no process.
LEMMA InitIInv == Init => IInv
<1> SUFFICES ASSUME Init PROVE IInv
  OBVIOUS
<1>1. NewBridge \in Bridge
  BY BoundsAssumption DEF NewBridge, Bridge
<1>2. bridge \in Bridges
  BY <1>1 DEF Init, Bridges
<1>3. Good(sup)
  BY NewSupervisorGood DEF Init
<1>4. forks \subseteq Sessions \X Sessions /\ sends \subseteq Sessions \X Workspaces /\ ui \subseteq Sessions
  BY DEF Init
<1>5. QED BY <1>2, <1>3, <1>4, IInvParts

\* BindSessionKernel.
LEMMA BindStep ==
    ASSUME IInv, NEW x \in Sessions, NEW w \in Workspaces, BindSessionKernel(x, w)
    PROVE  IInv'
<1>1. /\ Good(sup) /\ bridge \in Bridges
      /\ forks \subseteq Sessions \X Sessions /\ sends \subseteq Sessions \X Workspaces /\ ui \subseteq Sessions
  BY IInvParts
<1>2. /\ sup' = BindKernel(sup, x) /\ bridge' = bridge /\ forks' = forks
      /\ sends' = sends \cup {<<x, w>>} /\ ui' = ui \cup {x}
  BY DEF BindSessionKernel
<1>3. Good(sup')
  BY <1>1, <1>2, BindKernelGood
<1>4. QED BY <1>1, <1>2, <1>3, IInvPartsNext

\* SendMessage, delivered or not.
LEMMA SendStep ==
    ASSUME IInv, NEW x \in Sessions, NEW w \in Workspaces, SendMessage(x, w)
    PROVE  IInv'
<1> DEFINE k == KernelOf(sup, x)
           ensured == EnsureKernelProcess(sup, k, w)
           ready == [ensured EXCEPT !.workspaces[x] = w]
           p == ProcessForSession(ready, x)
<1>1. /\ Good(sup) /\ bridge \in Bridges
      /\ forks \subseteq Sessions \X Sessions /\ sends \subseteq Sessions \X Workspaces /\ ui \subseteq Sessions
  BY IInvParts
<1>3. k \in Kernels /\ CanEnsure(sup, k, w)
  BY <1>1, KernelOfType DEF Good, SendMessage
<1> HIDE DEF k
<1>4. Good(ensured)
  BY <1>1, <1>3, EnsureKernelProcessGood
<1> HIDE DEF ensured
<1>5. Good(ready)
  <2>1. [ensured.workspaces EXCEPT ![x] = w] \in [Sessions -> Workspaces \cup {NoWorkspace}]
    BY <1>4 DEF Good, Supervisor
  <2>2. ready \in Supervisor /\ SamePlaces(ensured, ready)
    BY <1>4, <2>1 DEF Good, Supervisor, SamePlaces
  <2> HIDE DEF ready
  <2>3. QED BY <1>4, <2>2, SamePlacesGood
<1>6. Survivors(ready) \in Bridges
  BY <1>1, <1>5, SurvivorsType DEF Good
<1>7. \/ /\ Reaches(ready, p) /\ bridge[p].turns[x] < MaxTurns
         /\ sup' = [ready EXCEPT !.sessions = @ \cup {x}, !.busy = @ \cup {x}]
         /\ bridge' = Prompted(Survivors(ready), p, x)
         /\ ui' = ui
      \/ sup' = ready /\ bridge' = Survivors(ready) /\ ui' = ui \ {x}
  BY DEF SendMessage, ready, ensured, k
<1>8. forks' = forks /\ sends' \subseteq sends
  BY DEF SendMessage
<1> HIDE DEF ready
<1>9. CASE /\ Reaches(ready, p) /\ bridge[p].turns[x] < MaxTurns
           /\ sup' = [ready EXCEPT !.sessions = @ \cup {x}, !.busy = @ \cup {x}]
           /\ bridge' = Prompted(Survivors(ready), p, x)
           /\ ui' = ui
  <2>1. p \in Procs
    BY <1>5, <1>9, ReachedIsProc DEF Good
  <2>2. sup' \in Supervisor /\ SamePlaces(ready, sup')
    BY <1>5, <1>9 DEF Good, Supervisor, SamePlaces
  <2>3. Good(sup')
    BY <1>5, <2>2, SamePlacesGood
  <2>4. Survivors(ready)[p].turns[x] < MaxTurns
    BY <1>9, <2>1 DEF Survivors, Reaches
  <2>5. bridge' \in Bridges
    BY <1>6, <1>9, <2>1, <2>4, PromptedType
  <2>6. QED BY <1>1, <1>8, <1>9, <2>3, <2>5, IInvPartsNext
<1>10. CASE sup' = ready /\ bridge' = Survivors(ready) /\ ui' = ui \ {x}
  BY <1>1, <1>5, <1>6, <1>8, <1>10, IInvPartsNext
<1>11. QED BY <1>7, <1>9, <1>10

\* SendMessage when no process can be started.
LEMMA SpawnFailsStep ==
    ASSUME IInv, NEW x \in Sessions, NEW w \in Workspaces, SendMessageSpawnFails(x, w)
    PROVE  IInv'
<1> DEFINE k == KernelOf(sup, x)
<1>1. /\ Good(sup) /\ bridge \in Bridges
      /\ forks \subseteq Sessions \X Sessions /\ sends \subseteq Sessions \X Workspaces /\ ui \subseteq Sessions
  BY IInvParts
<1>3. k \in Kernels
  BY <1>1, KernelOfType DEF Good
<1>4. /\ sup' = Prepared(sup, k, w)
      /\ bridge' = Survivors(sup') /\ ui' = ui \ {x} /\ forks' = forks /\ sends' \subseteq sends
  BY DEF SendMessageSpawnFails
<1> HIDE DEF k
<1>5. Good(sup')
  BY <1>1, <1>3, <1>4, PreparedGood
<1>6. bridge' \in Bridges
  BY <1>1, <1>4, <1>5, SurvivorsType DEF Good
<1>7. QED BY <1>1, <1>4, <1>5, <1>6, IInvPartsNext

\* The stop button, and the renderer's own stop.
LEMMA AbortStep ==
    ASSUME IInv, NEW x \in Sessions, AbortMessage(x) \/ ForceStop(x)
    PROVE  IInv'
<1> DEFINE p == ProcessForSession(sup, x)
<1>1. /\ Good(sup) /\ bridge \in Bridges
      /\ forks \subseteq Sessions \X Sessions /\ sends \subseteq Sessions \X Workspaces /\ ui \subseteq Sessions
  BY IInvParts
<1>2. /\ sup' = sup /\ forks' = forks /\ sends' = sends /\ ui' \in {ui, ui \ {x}}
      /\ \/ Reaches(sup, p) /\ bridge' = Aborted(bridge, p, x)
         \/ bridge' = bridge
  BY DEF AbortMessage, ForceStop
<1>3. Reaches(sup, p) => p \in Procs
  BY <1>1, ReachedIsProc DEF Good
<1> HIDE DEF p
<1>4. bridge' \in Bridges
  BY <1>1, <1>2, <1>3, AbortedType
<1>5. QED BY <1>1, <1>2, <1>4, IInvPartsNext

\* A relayed message, or a follow-up for a busy session.
LEMMA RelayStep ==
    ASSUME IInv, NEW x \in Sessions, RelayMessage(x) \/ ContinueBusy(x)
    PROVE  IInv'
<1> DEFINE p == ProcessForSession(sup, x)
<1>1. /\ Good(sup) /\ bridge \in Bridges
      /\ forks \subseteq Sessions \X Sessions /\ sends \subseteq Sessions \X Workspaces /\ ui \subseteq Sessions
  BY IInvParts
<1>2. p \in Procs
  BY <1>1, ReachedIsProc DEF Good, RelayMessage, ContinueBusy
<1>3. /\ forks' = forks /\ sends' = sends /\ ui' \in {ui, ui \cup {x}}
      /\ sup' \in {sup, [sup EXCEPT !.busy = @ \cup {x}]}
      /\ \/ bridge[p].turns[x] < MaxTurns /\ bridge' = Prompted(bridge, p, x)
         \/ bridge' = Says(bridge, p, <<Event("error", x)>>)
  BY DEF RelayMessage, ContinueBusy
<1> HIDE DEF p
<1>4. sup' \in Supervisor /\ SamePlaces(sup, sup')
  BY <1>1, <1>3 DEF Good, Supervisor, SamePlaces
<1>5. Good(sup')
  BY <1>1, <1>4, SamePlacesGood
<1>6. <<Event("error", x)>> \in Seq(Events)
  BY EventType
<1>7. bridge' \in Bridges
  BY <1>1, <1>2, <1>3, <1>6, PromptedType, SaysType
<1>8. QED BY <1>1, <1>3, <1>5, <1>7, IInvPartsNext

\* destroy_session reaches the sidecar of the session, or nothing happens to a sidecar.
LEMMA DisposeType ==
    ASSUME IInv, NEW x \in Sessions, Dispose(x)
    PROVE  bridge' \in Bridges /\ forks' = forks /\ sends' = sends
<1> DEFINE p == ProcessForSession(sup, x)
<1>1. Good(sup) /\ bridge \in Bridges
  BY IInvParts
<1>2. forks' = forks /\ sends' = sends /\ ((Reaches(sup, p) /\ bridge' = Destroyed(bridge, p, x)) \/ bridge' = bridge)
  BY DEF Dispose
<1>3. Reaches(sup, p) => p \in Procs
  BY <1>1, ReachedIsProc DEF Good
<1> HIDE DEF p
<1>4. QED BY <1>1, <1>2, <1>3, DestroyedType

\* Archiving, deleting, and the end of a probe.
LEMMA RemovalStep ==
    ASSUME IInv, NEW x \in Sessions, DetachSession(x) \/ DestroySession(x) \/ EndProbe(x)
    PROVE  IInv'
<1> DEFINE t == ForgetSessions(sup, {x})
<1>1. /\ Good(sup) /\ bridge \in Bridges
      /\ forks \subseteq Sessions \X Sessions /\ sends \subseteq Sessions \X Workspaces /\ ui \subseteq Sessions
  BY IInvParts
<1>2. /\ sup' = t \/ sup' = [t EXCEPT !.waiters = @ \ {x}]
      /\ ui' \in {ui, ui \ {x}} /\ Dispose(x)
  BY DEF DetachSession, DestroySession, EndProbe
<1>3. t \in Supervisor /\ SamePlaces(sup, t)
  BY <1>1, ForgetSessionsType DEF Good
<1> HIDE DEF t
<1>4. sup' \in Supervisor /\ SamePlaces(sup, sup')
  BY <1>2, <1>3 DEF Supervisor, SamePlaces
<1>5. Good(sup')
  BY <1>1, <1>4, SamePlacesGood
<1>6. bridge' \in Bridges /\ forks' = forks /\ sends' = sends
  BY <1>2, DisposeType
<1>7. QED BY <1>1, <1>2, <1>5, <1>6, IInvPartsNext

\* What only writes the session sets of the Supervisor, or what is waited for.
LEMMA BookkeepingStep ==
    ASSUME IInv, NEW x \in Sessions, NEW y \in Sessions,
           \/ TrackResearchRun(x) \/ UntrackResearchRun(x) \/ RecoveryEnds(x) \/ StartProbe(x)
           \/ ForkSession(x, y) \/ ForkTimesOut(x, y) \/ DeliverNotice(x)
    PROVE  IInv'
<1>1. /\ Good(sup) /\ bridge \in Bridges
      /\ forks \subseteq Sessions \X Sessions /\ sends \subseteq Sessions \X Workspaces /\ ui \subseteq Sessions
  BY IInvParts
<1>2. /\ bridge' = bridge /\ sends' = sends
      /\ forks' \subseteq Sessions \X Sessions /\ ui' \in {ui, ui \ {x}}
      /\ sup' \in {sup, [sup EXCEPT !.runs = @ \cup {x}], [sup EXCEPT !.runs = @ \ {x}],
                   [sup EXCEPT !.waiters = @ \ {x}], [sup EXCEPT !.waiters = @ \cup {x}],
                   [sup EXCEPT !.notices = @ \ {x}]}
  BY <1>1 DEF TrackResearchRun, UntrackResearchRun, RecoveryEnds, StartProbe, ForkSession,
     ForkTimesOut, DeliverNotice
<1>3. sup' \in Supervisor /\ SamePlaces(sup, sup')
  BY <1>1, <1>2 DEF Good, Supervisor, SamePlaces
<1>4. Good(sup')
  BY <1>1, <1>3, SamePlacesGood
<1>5. QED BY <1>1, <1>2, <1>4, IInvPartsNext

\* An answered fork inherits the kernel and the workspace of its source.
LEMMA ForkAnsweredStep ==
    ASSUME IInv, NEW x \in Sessions, NEW y \in Sessions, ForkAnswered(x, y)
    PROVE  IInv'
<1>1. /\ Good(sup) /\ bridge \in Bridges
      /\ forks \subseteq Sessions \X Sessions /\ sends \subseteq Sessions \X Workspaces /\ ui \subseteq Sessions
  BY IInvParts
<1> DEFINE w == IF sup.workspaces[x] = NoWorkspace THEN sup.workspaces[y] ELSE sup.workspaces[x]
           k == KernelOf(sup, x)
<1>2. k \in Kernels /\ w \in Workspaces \cup {NoWorkspace}
  BY <1>1, KernelOfType DEF Good, Supervisor
<1>3. /\ sup' = [sup EXCEPT !.sessions = @ \cup {y}, !.kernels[y] = k, !.workspaces[y] = w]
      /\ bridge' = bridge /\ ui' = ui /\ sends' = sends /\ forks' \subseteq forks
  BY DEF ForkAnswered
<1> HIDE DEF k, w
<1>4. /\ [sup.kernels EXCEPT ![y] = k] \in [Sessions -> Kernels \cup {NoKernel}]
      /\ [sup.workspaces EXCEPT ![y] = w] \in [Sessions -> Workspaces \cup {NoWorkspace}]
  BY <1>1, <1>2 DEF Good, Supervisor
<1>5. sup' \in Supervisor /\ SamePlaces(sup, sup')
  BY <1>1, <1>3, <1>4 DEF Good, Supervisor, SamePlaces
<1>6. Good(sup')
  BY <1>1, <1>5, SamePlacesGood
<1>7. QED BY <1>1, <1>3, <1>6, IInvPartsNext

\* Background task recovery.
LEMMA RecoveryStep ==
    ASSUME IInv, NEW x \in Sessions, NEW w \in Workspaces,
           RefreshBackgroundTasks(x, w) \/ RecoverSession(x, w)
    PROVE  IInv'
<1>1. /\ Good(sup) /\ bridge \in Bridges
      /\ forks \subseteq Sessions \X Sessions /\ sends \subseteq Sessions \X Workspaces /\ ui \subseteq Sessions
  BY IInvParts
<1>2. CASE RefreshBackgroundTasks(x, w)
  <2> DEFINE k == KernelOf(sup, x)
  <2>1. k \in Kernels
    BY <1>1, KernelOfType DEF Good
  <2>2. /\ CanEnsure(sup, k, w) /\ sup' = EnsureKernelProcess(sup, k, w)
        /\ bridge' = Survivors(sup') /\ forks' = forks /\ sends' = sends /\ ui' = ui
    BY <1>2 DEF RefreshBackgroundTasks
  <2> HIDE DEF k
  <2>3. Good(sup')
    BY <1>1, <2>1, <2>2, EnsureKernelProcessGood
  <2>4. bridge' \in Bridges
    BY <1>1, <2>2, <2>3, SurvivorsType DEF Good
  <2>5. QED BY <1>1, <2>2, <2>3, <2>4, IInvPartsNext
<1>3. CASE RecoverSession(x, w)
  <2> DEFINE p == sup.process[KernelPi]
  <2>1. /\ sup' = [sup EXCEPT !.sessions = @ \cup {x}, !.waiters = @ \cup {x}]
        /\ bridge' = [bridge EXCEPT ![p].known = @ \cup {x}] /\ forks' = forks /\ sends' = sends /\ ui' = ui
        /\ p # NoProc
    BY <1>3 DEF RecoverSession, Reaches
  <2>2. p \in Procs
    BY <1>1, <2>1, KernelsAssumption DEF Good, Supervisor
  <2>3. sup' \in Supervisor /\ SamePlaces(sup, sup')
    BY <1>1, <2>1 DEF Good, Supervisor, SamePlaces
  <2>4. Good(sup')
    BY <1>1, <2>3, SamePlacesGood
  <2> HIDE DEF p
  <2>5. bridge[p].known \cup {x} \in SUBSET Sessions
    BY <1>1, <2>2, BridgeParts
  <2>6. bridge' \in Bridges
    BY <1>1, <2>1, <2>2, <2>5, KnownType
  <2>7. QED BY <1>1, <2>1, <2>4, <2>6, IInvPartsNext
<1>4. QED BY <1>2, <1>3

\* What the clock, the credentials and a crash do to the notes on a process.
LEMMA MarkStep ==
    ASSUME IInv, \/ InvalidateCredentials
                 \/ \E p \in Procs : Crash(p) \/ IdleTimeout(p) \/ BusyCeiling(p)
    PROVE  IInv'
<1>1. /\ Good(sup) /\ bridge \in Bridges
      /\ forks \subseteq Sessions \X Sessions /\ sends \subseteq Sessions \X Workspaces /\ ui \subseteq Sessions
  BY IInvParts
<1>2. forks' = forks /\ sends' = sends /\ ui' = ui /\ bridge' \in {bridge, Survivors(sup')}
  BY DEF InvalidateCredentials, Crash, IdleTimeout, BusyCeiling
<1>3. sup' \in Supervisor /\ Marked(sup, sup')
  <2>1. CASE InvalidateCredentials
    <3> DEFINE child == [p \in Procs |-> [sup.child[p] EXCEPT !.stale = @ \/ p \in Tracked(sup)]]
    <3>1. \A p \in Procs : child[p] \in Child
      <4> TAKE p \in Procs
      <4>1. sup.child[p] \in Child
        BY <1>1 DEF Good, Supervisor
      <4>2. (sup.child[p].stale \/ p \in Tracked(sup)) \in BOOLEAN
        OBVIOUS
      <4>3. QED BY <4>1, <4>2 DEF Child
    <3>2. sup' = [sup EXCEPT !.child = child]
      BY <2>1 DEF InvalidateCredentials
    <3>3. child \in [Procs -> Child]
      BY <3>1
    <3>4. \A p \in Procs : /\ child[p].kernel = sup.child[p].kernel
                           /\ child[p].workspace = sup.child[p].workspace
                           /\ child[p].life = sup.child[p].life
                           /\ sup.child[p].stale => child[p].stale
                           /\ child[p].retired = sup.child[p].retired
      BY <1>1 DEF Good, Supervisor, Child
    <3> HIDE DEF child
    <3>5. QED BY <1>1, <3>2, <3>3, <3>4 DEF Good, Supervisor, Marked
  <2>2. ASSUME NEW p \in Procs, Crash(p) \/ IdleTimeout(p) \/ BusyCeiling(p)
        PROVE  sup' \in Supervisor /\ Marked(sup, sup')
    <3>1. PICK c : /\ c \in {[sup.child[p] EXCEPT !.life = "dead"], [sup.child[p] EXCEPT !.idle = TRUE],
                             [sup.child[p] EXCEPT !.pastCeiling = TRUE]}
                   /\ c.life = "none" <=> sup.child[p].life = "none"
                   /\ sup' = [sup EXCEPT !.child = [sup.child EXCEPT ![p] = c]]
      <4>1. CASE Crash(p)
        <5>1. sup' = [sup EXCEPT !.child = [sup.child EXCEPT
                                              ![p] = [sup.child[p] EXCEPT !.life = "dead"]]]
          BY <1>1, <4>1 DEF Crash, Good, Supervisor
        <5>2. [sup.child[p] EXCEPT !.life = "dead"].life = "dead" /\ sup.child[p].life = "live"
          BY <1>1, <4>1 DEF Crash, Live, Good, Supervisor, Child
        <5>3. QED BY <5>1, <5>2
      <4>2. CASE IdleTimeout(p)
        <5>1. sup' = [sup EXCEPT !.child = [sup.child EXCEPT
                                              ![p] = [sup.child[p] EXCEPT !.idle = TRUE]]]
          BY <1>1, <4>2 DEF IdleTimeout, Good, Supervisor
        <5>2. [sup.child[p] EXCEPT !.idle = TRUE].life = sup.child[p].life
          BY <1>1 DEF Good, Supervisor, Child
        <5>3. QED BY <5>1, <5>2
      <4>3. CASE BusyCeiling(p)
        <5>1. sup' = [sup EXCEPT !.child = [sup.child EXCEPT
                                              ![p] = [sup.child[p] EXCEPT !.pastCeiling = TRUE]]]
          BY <1>1, <4>3 DEF BusyCeiling, Good, Supervisor
        <5>2. [sup.child[p] EXCEPT !.pastCeiling = TRUE].life = sup.child[p].life
          BY <1>1 DEF Good, Supervisor, Child
        <5>3. QED BY <5>1, <5>2
      <4>4. QED BY <2>2, <4>1, <4>2, <4>3
    <3>2. sup.child \in [Procs -> Child] /\ sup.child[p] \in Child
      BY <1>1 DEF Good, Supervisor
    <3>3. /\ c \in Child /\ c.kernel = sup.child[p].kernel /\ c.workspace = sup.child[p].workspace
          /\ c.stale = sup.child[p].stale /\ c.retired = sup.child[p].retired
      BY <3>1, <3>2 DEF Child
    <3>4. [sup.child EXCEPT ![p] = c] \in [Procs -> Child]
      BY <3>2, <3>3
    <3>5. sup' \in Supervisor
      BY <1>1, <3>1, <3>4 DEF Good, Supervisor
    <3>6. Marked(sup, sup')
      BY <1>1, <3>1, <3>2, <3>3 DEF Good, Supervisor, Marked
    <3>7. QED BY <3>5, <3>6
  <2>3. QED BY <2>1, <2>2
<1>4. Good(sup')
  BY <1>1, <1>3, MarkedGood
<1>5. bridge' \in Bridges
  BY <1>1, <1>2, <1>3, SurvivorsType
<1>6. QED BY <1>1, <1>2, <1>4, <1>5, IInvPartsNext

\* What the renderer or the product stops.
LEMMA StopStep ==
    ASSUME IInv, StopStaleSidecars \/ \E x \in Sessions : RestartEngine(x)
    PROVE  IInv'
<1>1. /\ Good(sup) /\ bridge \in Bridges
      /\ forks \subseteq Sessions \X Sessions /\ sends \subseteq Sessions \X Workspaces /\ ui \subseteq Sessions
  BY IInvParts
<1>2. Good(sup') /\ bridge' = Survivors(sup') /\ ui' \subseteq ui /\ forks' = forks /\ sends' = sends
  <2>1. CASE StopStaleSidecars
    BY <1>1, <2>1, StopStaleGood DEF StopStaleSidecars
  <2>2. ASSUME NEW x \in Sessions, RestartEngine(x)
        PROVE  Good(sup') /\ bridge' = Survivors(sup') /\ ui' \subseteq ui /\ forks' = forks /\ sends' = sends
    <3> DEFINE p == ProcessForSession(sup, x)
    <3>1. p \in Tracked(sup)
      BY <1>1, <2>2, ProcessForSessionTracked DEF RestartEngine, Good
    <3>2. /\ sup' = Restarted(sup, x, p)
          /\ bridge' = Survivors(sup') /\ ui' = ui \ {x} /\ forks' = forks /\ sends' = sends
      BY <2>2 DEF RestartEngine
    <3> HIDE DEF p
    <3>3. QED BY <1>1, <3>1, <3>2, RestartedGood
  <2>3. QED BY <2>1, <2>2
<1>3. bridge' \in Bridges
  BY <1>1, <1>2, SurvivorsType DEF Good
<1>4. QED BY <1>1, <1>2, <1>3, IInvPartsNext

\* What a sidecar does by itself.
LEMMA SidecarStep ==
    ASSUME IInv, NEW p \in Procs, NEW x \in Sessions,
           \/ TurnWorks(p, x) \/ ModelCallFails(p, x) \/ TurnSettles(p, x) \/ TurnFails(p, x)
           \/ WorkersStart(p, x) \/ WorkersEnd(p, x)
    PROVE  IInv'
<1>1. /\ Good(sup) /\ bridge \in Bridges
      /\ forks \subseteq Sessions \X Sessions /\ sends \subseteq Sessions \X Workspaces /\ ui \subseteq Sessions
  BY IInvParts
<1>2. sup' = sup /\ forks' = forks /\ sends' = sends /\ ui' = ui
  BY DEF TurnWorks, ModelCallFails, TurnSettles, TurnFails, TurnEnds, WorkersStart, WorkersEnd
<1>3. bridge' \in Bridges
  <2>1. /\ <<Event("activity", x)>> \in Seq(Events) /\ <<Event("settled", x)>> \in Seq(Events)
        /\ <<Event("error", x)>> \in Seq(Events) /\ <<Event("workersDone", x)>> \in Seq(Events)
        /\ x \in Researchers => <<Event("workers", x)>> \in Seq(Events)
    BY EventType
  <2>2. CASE TurnWorks(p, x)
    BY <1>1, <2>1, <2>2, SaysType DEF TurnWorks
  <2>3. CASE TurnSettles(p, x) \/ TurnFails(p, x)
    <3> DEFINE b == [bridge EXCEPT ![p].turns[x] = @ - 1]
    <3>1. /\ bridge[p].turns[x] > 0
          /\ bridge' = Says(b, p, <<Event("settled", x)>>) \/ bridge' = Says(b, p, <<Event("error", x)>>)
      BY <2>3 DEF TurnSettles, TurnFails, TurnEnds, Runs
    <3>2. bridge[p].turns[x] - 1 \in 0..MaxTurns
      <4>1. bridge[p].turns[x] \in 0..MaxTurns
        BY <1>1, BridgeParts
      <4>2. QED BY <3>1, <4>1, BoundsAssumption
    <3>3. b \in Bridges
      BY <1>1, <3>2, TurnsType
    <3> HIDE DEF b
    <3>4. QED BY <2>1, <3>1, <3>3, SaysType
  <2>4. CASE WorkersStart(p, x)
    <3> DEFINE b == [bridge EXCEPT ![p].workers = @ \cup {x}]
    <3>1. bridge[p].workers \cup {x} \in SUBSET Sessions
      BY <1>1, BridgeParts
    <3>2. b \in Bridges
      BY <1>1, <3>1, WorkersType
    <3>3. x \in Researchers /\ bridge' = Says(b, p, <<Event("workers", x)>>)
      BY <2>4 DEF WorkersStart
    <3> HIDE DEF b
    <3>4. QED BY <2>1, <3>2, <3>3, SaysType
  <2>5. CASE WorkersEnd(p, x)
    <3> DEFINE b == [bridge EXCEPT ![p].workers = @ \ {x}]
    <3>1. bridge[p].workers \ {x} \in SUBSET Sessions
      BY <1>1, BridgeParts
    <3>2. b \in Bridges
      BY <1>1, <3>1, WorkersType
    <3>3. bridge' = Says(b, p, <<Event("workersDone", x)>>)
      BY <2>5 DEF WorkersEnd
    <3> HIDE DEF b
    <3>4. QED BY <2>1, <3>2, <3>3, SaysType
  <2>6. CASE ModelCallFails(p, x)
    <3> DEFINE b == [bridge EXCEPT ![p].turns[x] = 0]
               lines == <<Event("error", x), Event("settled", x)>>
    <3>1. b \in Bridges
      BY <1>1, TurnsType, BoundsAssumption
    <3>2. lines \in Seq(Events)
      BY EventType
    <3>3. bridge' = Says(b, p, lines)
      BY <2>6 DEF ModelCallFails
    <3> HIDE DEF b, lines
    <3>4. QED BY <3>1, <3>2, <3>3, SaysType
  <2>7. QED BY <2>2, <2>3, <2>4, <2>5, <2>6
<1>4. QED BY <1>1, <1>2, <1>3, IInvPartsNext

\* The reader takes one line.
LEMMA ReadStep ==
    ASSUME IInv, NEW p \in Procs, ReadEvent(p)
    PROVE  IInv'
<1> DEFINE e == Head(bridge[p].out)
<1>1. /\ Good(sup) /\ bridge \in Bridges
      /\ forks \subseteq Sessions \X Sessions /\ sends \subseteq Sessions \X Workspaces /\ ui \subseteq Sessions
  BY IInvParts
<1>2. bridge[p] \in Bridge /\ bridge[p].out \in Seq(Events) /\ bridge[p].out # <<>>
  BY <1>1 DEF ReadEvent, Bridges, Bridge
<1>3. e \in Events /\ Tail(bridge[p].out) \in Seq(Events)
  BY <1>2
<1>4. /\ sup' = Observed(sup, e) /\ forks' = forks /\ sends' = sends
      /\ ui' \in {ui, ui \cup {e.session}, ui \ {e.session}}
      /\ bridge' = [bridge EXCEPT ![p].out = Tail(@)]
  BY DEF ReadEvent
<1>5. e.session \in Sessions
  BY <1>3 DEF Events
<1> HIDE DEF e
<1>6. sup' \in Supervisor /\ SamePlaces(sup, sup')
  <2> DEFINE x == {e.session}
             Same(t) == t \in Supervisor /\ SamePlaces(sup, t)
  <2>1. sup \in Supervisor /\ x \in SUBSET Sessions
    BY <1>1, <1>5 DEF Good
  <2> HIDE DEF x
  <2>2. Same(sup)
    BY <2>1 DEF SamePlaces
  <2>3. Same([sup EXCEPT !.workers = @ \cup x]) /\ Same([sup EXCEPT !.workers = @ \ x])
    BY <2>1 DEF Supervisor, SamePlaces
  <2>4. Same([sup EXCEPT !.busy = @ \ x])
    BY <2>1 DEF Supervisor, SamePlaces
  <2>5. Same([sup EXCEPT !.busy = @ \ x, !.sessions = @ \ x, !.workers = @ \ x, !.runs = @ \ x])
    BY <2>1 DEF Supervisor, SamePlaces
  <2> HIDE DEF Same
  <2>6. Same(Observed(sup, e))
    BY <2>2, <2>3, <2>4, <2>5 DEF Observed, x
  <2>7. QED BY <1>4, <2>6 DEF Same
<1>7. Good(sup')
  BY <1>1, <1>6, SamePlacesGood
<1>8. bridge' \in Bridges
  <2>1. [bridge[p] EXCEPT !.out = Tail(@)] \in Bridge
    BY <1>2, <1>3 DEF Bridge
  <2>2. bridge' = [bridge EXCEPT ![p] = [bridge[p] EXCEPT !.out = Tail(@)]]
    BY <1>1, <1>4 DEF Bridges, Bridge
  <2>3. QED BY <1>1, <2>1, <2>2 DEF Bridges
<1>9. QED BY <1>1, <1>4, <1>5, <1>7, <1>8, IInvPartsNext

\* The reader reaches the end of file.
LEMMA ExitStep ==
    ASSUME IInv, NEW p \in Procs, ProcessExits(p)
    PROVE  IInv'
<1>1. /\ Good(sup) /\ bridge \in Bridges
      /\ forks \subseteq Sessions \X Sessions /\ sends \subseteq Sessions \X Workspaces /\ ui \subseteq Sessions
  BY IInvParts
<1>2. sup' = Exited(sup, p) /\ bridge' = bridge /\ forks' = forks /\ sends' = sends /\ ui' = ui
  BY DEF ProcessExits
<1>3. QED BY <1>1, <1>2, ExitedGood, IInvPartsNext

\* Every step preserves the invariant.
LEMMA NextIInv == IInv /\ [Next]_vars => IInv'
<1> SUFFICES ASSUME IInv, [Next]_vars PROVE IInv'
  OBVIOUS
<1>0. CASE Binds
  BY <1>0, BindStep DEF Binds
<1>1. CASE Sends
  BY <1>1, SendStep DEF Sends
<1>2. CASE SpawnFailures
  BY <1>2, SpawnFailsStep DEF SpawnFailures
<1>3. CASE Aborts
  BY <1>3, AbortStep, SidecarStep DEF Aborts
<1>4. CASE Relays
  BY <1>4, RelayStep DEF Relays
<1>5. CASE Removals
  BY <1>5, RemovalStep DEF Removals
<1>6. CASE Research
  BY <1>6, BookkeepingStep, SidecarStep DEF Research
<1>7. CASE Recovery
  BY <1>7, RecoveryStep, BookkeepingStep DEF Recovery
<1>8. CASE ProbesAndForks
  BY <1>8, BookkeepingStep, RemovalStep, ForkAnsweredStep DEF ProbesAndForks
<1>9. CASE Rotation \/ Ceilings \/ Crashes \/ Idling
  BY <1>9, MarkStep DEF Rotation, Ceilings, Crashes, Idling
<1>10. CASE Revocation \/ Restarts
  BY <1>10, StopStep DEF Revocation, Restarts
<1>11. CASE Streams \/ TurnEndings
  BY <1>11, SidecarStep DEF Streams, TurnEndings
<1>12. CASE Readers
  BY <1>12, ReadStep, ExitStep, BookkeepingStep DEF Readers
<1>13. CASE UNCHANGED vars
  <2>1. sup' = sup /\ bridge' = bridge /\ forks' = forks /\ sends' = sends /\ ui' = ui
    BY <1>13 DEF vars
  <2>2. QED BY <2>1, IInvParts, IInvPartsNext
<1>14. QED BY <1>0, <1>1, <1>2, <1>3, <1>4, <1>5, <1>6, <1>7, <1>8, <1>9, <1>10, <1>11, <1>12, <1>13 DEF Next

-----------------------------------------------------------------------------

\* Whatever happens - crashes, races of readers, revocations - the Supervisor's record and
\* what the sidecars hold stay in their domains.
THEOREM TypeCorrect == Spec => []TypeOK
<1>1. IInv => TypeOK
  BY DEF IInv
<1>2. QED BY InitIInv, NextIInv, <1>1, PTL DEF Spec

\* No child process is ever lost or held twice, for any number of kernels, workspaces,
\* sessions and processes.
THEOREM NoSidecarLost == Spec => []SidecarsAccountedFor
<1>1. IInv => SidecarsAccountedFor
  BY DEF IInv
<1>2. QED BY InitIInv, NextIInv, <1>1, PTL DEF Spec

\* A (kernel, workspace) pair never has two sidecars in rotation.
THEOREM NoSecondSidecar == Spec => []OneSidecarPerWorkspace
<1>1. IInv => OneSidecarPerWorkspace
  <2> SUFFICES ASSUME IInv,
                      NEW p \in ActiveProcs(sup) \cup ParkedProcs(sup),
                      NEW q \in ActiveProcs(sup) \cup ParkedProcs(sup),
                      sup.child[p].kernel = sup.child[q].kernel,
                      sup.child[p].workspace = sup.child[q].workspace
               PROVE  p = q
    BY DEF OneSidecarPerWorkspace
  <2>1. Accounted(sup)
    BY DEF IInv, SidecarsAccountedFor
  <2>2. CASE p \in ActiveProcs(sup) /\ q \in ActiveProcs(sup)
    BY <2>1, <2>2 DEF ActiveProcs, Accounted, ActiveMatches
  <2>3. CASE p \in ParkedProcs(sup) /\ q \in ParkedProcs(sup)
    BY <2>1, <2>3 DEF ParkedProcs, Accounted, ParkedMatches
  <2>4. CASE p \in ActiveProcs(sup) /\ q \in ParkedProcs(sup)
    BY <2>1, <2>4 DEF ActiveProcs, ParkedProcs, Accounted, ActiveMatches, ParkedMatches, ActiveNotParked
  <2>5. CASE p \in ParkedProcs(sup) /\ q \in ActiveProcs(sup)
    BY <2>1, <2>5 DEF ActiveProcs, ParkedProcs, Accounted, ActiveMatches, ParkedMatches, ActiveNotParked
  <2>6. QED BY <2>2, <2>3, <2>4, <2>5
<1>2. QED BY InitIInv, NextIInv, <1>1, PTL DEF Spec
=============================================================================
