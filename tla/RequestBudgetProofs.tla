------------------------- MODULE RequestBudgetProofs -------------------------
(***************************************************************************)
(* What the guard of a model request guarantees, for any thresholds that    *)
(* satisfy the constraint the code states, and any number of requests.      *)
(***************************************************************************)
EXTENDS StallSign, SequenceTheorems, TLAPS

\* The alarms of a request agree with what is known of it: none outlives it, and the hard
\* one is set only after a warning, with what is left of the grace.
AlarmsFit ==
    \A r \in Requests :
        /\ call[r] # "open" => warnTimer[r] = Off /\ killTimer[r] = Off
        /\ killTimer[r] # Off => r \in warned /\ sinceWarning[r] + killTimer[r] >= KillGrace

BudgetInv == TypeOK /\ AlarmsFit

\* The soft alarm of a request leaves room for the whole grace under killMaxMs.
LEMMA SoftFits ==
    ASSUME TypeOK, NEW r \in Requests
    PROVE  Soft(r) \in Nat /\ Soft(r) + KillGrace <= KillMax
<1> DEFINE size == payload[r] * TtfbPerMb
<1>1. payload[r] \in Nat /\ TtfbPerMb \in Nat
  BY BudgetAssumption DEF TypeOK
<1>2. size \in Nat
  BY <1>1
<1>. HIDE DEF size
<1>3. AtMost(TtfbBase + size, TtfbMax) \in Nat /\ AtMost(TtfbBase + size, TtfbMax) <= TtfbMax
  BY <1>2, BudgetAssumption DEF AtMost
<1>4. Soft(r) = IF stage[r] = "stream" THEN Stall ELSE AtMost(TtfbBase + size, TtfbMax)
  BY DEF Soft, size
<1>. QED
  BY <1>3, <1>4, BudgetAssumption

\* What Warn leaves until the hard deadline is the grace.
LEMMA GraceIsWhole ==
    ASSUME TypeOK, NEW r \in Requests
    PROVE  AtLeast(1, HardDeadline(Soft(r)) - Soft(r)) = KillGrace
BY SoftFits, BudgetAssumption DEF HardDeadline, AtMost, AtLeast

LEMMA InvInit == Init => BudgetInv
<1> SUFFICES ASSUME Init PROVE BudgetInv
  OBVIOUS
<1>1. payload \in [Requests -> Nat]
  BY BudgetAssumption DEF Init
<1>2. /\ cut = {} /\ expired = {} /\ warned = {}
      /\ sinceWarning \in [Requests -> 0..KillGrace]
  BY BudgetAssumption DEF Init
<1>3. TypeOK
  BY <1>1, <1>2 DEF Init, TypeOK, Timers
<1>. QED
  BY <1>3 DEF Init, BudgetInv, AlarmsFit

LEMMA InvNext == BudgetInv /\ [Next]_vars => BudgetInv'
<1> SUFFICES ASSUME BudgetInv, [Next]_vars PROVE BudgetInv'
  OBVIOUS
<1>. USE BudgetAssumption DEF BudgetInv, TypeOK, AlarmsFit, Timers, Off
<1>1. CASE Tick
  <2>1. \A r \in Requests :
           /\ warnTimer'[r] = IF warnTimer[r] > 0 THEN warnTimer[r] - 1 ELSE warnTimer[r]
           /\ killTimer'[r] = IF killTimer[r] > 0 THEN killTimer[r] - 1 ELSE killTimer[r]
           /\ sinceWarning'[r] = IF r \in warned
                                 THEN AtMost(sinceWarning[r] + 1, KillGrace) ELSE 0
    BY <1>1 DEF Tick, Sooner
  <2>2. TypeOK'
    <3>1. warnTimer' \in [Requests -> Timers] /\ killTimer' \in [Requests -> Timers]
      BY <1>1 DEF Tick, Sooner
    <3>2. sinceWarning' \in [Requests -> 0..KillGrace]
      BY <1>1 DEF Tick, AtMost
    <3>. QED
      BY <1>1, <3>1, <3>2 DEF Tick
  <2>3. AlarmsFit'
    BY <1>1, <2>1 DEF Tick, AtMost
  <2>. QED
    BY <2>2, <2>3
<1>2. ASSUME NEW r \in Requests, StartRequest(r) PROVE BudgetInv'
  BY <1>2, SoftFits DEF StartRequest
<1>3. ASSUME NEW r \in Requests, StartFails(r) PROVE BudgetInv'
  BY <1>3 DEF StartFails, guardVars
<1>4. ASSUME NEW r \in Requests, Note(r) PROVE BudgetInv'
  BY <1>4 DEF Note
<1>5. ASSUME NEW r \in Requests, Warn(r) PROVE BudgetInv'
  <2>1. killTimer' = [killTimer EXCEPT ![r] = KillGrace]
    BY <1>5, GraceIsWhole DEF Warn
  <2>. QED
    BY <1>5, <2>1 DEF Warn
<1>6. ASSUME NEW r \in Requests, Expire(r) PROVE BudgetInv'
  BY <1>6 DEF Expire
<1>7. ASSUME NEW r \in Requests, ServiceSends(r) PROVE BudgetInv'
  BY <1>7 DEF ServiceSends, guardVars
<1>8. ASSUME NEW r \in Requests, EndRequest(r) PROVE BudgetInv'
  BY <1>8 DEF EndRequest
<1>9. ASSUME NEW r \in Requests, Cut(r) PROVE BudgetInv'
  BY <1>9 DEF Cut, guardVars
<1>10. CASE UNCHANGED vars
  BY <1>10 DEF vars, guardVars
<1>. QED
  BY <1>1, <1>2, <1>3, <1>4, <1>5, <1>6, <1>7, <1>8, <1>9, <1>10 DEF Next

LEMMA Invariance == Spec => []BudgetInv
BY InvInit, InvNext, PTL DEF Spec

\* The state of the guards is well typed, for all thresholds and sizes of requests.
THEOREM BudgetTypeCorrect == Spec => []TypeOK
BY Invariance, PTL DEF BudgetInv

\* A request is aborted only after a warning and the whole grace without an event, for all
\* thresholds the code's constraint allows and however late the alarms go off.
THEOREM KillsOnlyAfterGrace == Spec => KilledAfterGrace
<1> DEFINE Fair == \A r \in Requests :
                     r \in expired' \ expired => r \in warned /\ sinceWarning[r] >= KillGrace
<1>1. BudgetInv /\ [Next]_vars => [Fair]_vars
  <2> SUFFICES ASSUME BudgetInv, Next, NEW r \in Requests, r \in expired' \ expired
               PROVE  r \in warned /\ sinceWarning[r] >= KillGrace
    OBVIOUS
  <2>1. Expire(r)
    BY DEF Next, Tick, StartRequest, StartFails, Note, Warn, Expire, ServiceSends, EndRequest, Cut
  <2>2. killTimer[r] = 0
    BY <2>1 DEF Expire
  <2>. QED
    BY <2>2, BudgetAssumption DEF BudgetInv, TypeOK, AlarmsFit, Off
<1>. QED
  BY <1>1, Invariance, PTL DEF Spec, KilledAfterGrace

\* No alarm of a request that is over goes off.
THEOREM NoLateAlarms == Spec => DeadRequestsStaySilent
<1> DEFINE Silent == \A r \in Requests :
              (r \in expired' \ expired) \/ (r \in warned' \ warned) => call[r] = "open"
<1>1. BudgetInv /\ [Next]_vars => [Silent]_vars
  <2> SUFFICES ASSUME BudgetInv, Next, NEW r \in Requests,
                      (r \in expired' \ expired) \/ (r \in warned' \ warned)
               PROVE  call[r] = "open"
    OBVIOUS
  <2>1. CASE r \in expired' \ expired
    BY <2>1 DEF Next, Tick, StartRequest, StartFails, Note, Warn, Expire, ServiceSends,
                EndRequest, Cut, BudgetInv, AlarmsFit, Off
  <2>2. CASE r \in warned' \ warned
    <3>1. Warn(r)
      BY <2>2 DEF Next, Tick, StartRequest, StartFails, Note, Warn, Expire, ServiceSends,
                  EndRequest, Cut, guardVars
    <3>. QED
      BY <3>1 DEF Warn, BudgetInv, AlarmsFit, Off
  <2>. QED
    BY <2>1, <2>2
<1>. QED
  BY <1>1, Invariance, PTL DEF Spec, DeadRequestsStaySilent

-----------------------------------------------------------------------------
(* The turns and the renderer composed with the guard. *)

\* Requests are made one after the other, so one at most is open.
InTurn == \A q, r \in Requests : q < r /\ call[r] # "new" => call[q] = "over"

\* A request that is not made yet is neither warned about nor killed.
NewAreQuiet == \A r \in Requests : call[r] = "new" => r \notin warned \cup expired

\* When the first n lines that wait are read, a warning is read and no end after it.
Announced(n) ==
    \/ \E j \in 1..n : lines[j] = "warning" /\ \A k \in (j + 1)..n : lines[k] \notin Ends
    \/ heard /\ \A k \in 1..n : lines[k] \notin Ends

\* A request that was warned about or killed and has not ended, and a line that tells of
\* such an end, have their warning before them.
EndsAreAnnounced ==
    /\ \A i \in 1..Len(lines) : lines[i] = "expired" => Announced(i - 1)
    /\ \A r \in Requests :
          call[r] = "open" /\ r \in warned \cup expired => Announced(Len(lines))

SignInv == BudgetInv /\ InTurn /\ NewAreQuiet /\ lines \in Seq(Kinds) /\ EndsAreAnnounced

\* A step of the composed system is a step of the guards, or none of them moves.
LEMMA SignStep == InTurn /\ [SignNext]_signVars => [Next]_vars
<1> SUFFICES ASSUME InTurn, [SignNext]_signVars PROVE [Next]_vars
  OBVIOUS
<1>1. ASSUME StopTurn PROVE [Next]_vars
  <2>1. CASE \E r \in Requests : call[r] = "open"
    <3>1. PICK r \in Requests : call[r] = "open"
      BY <2>1
    <3>2. \A q \in Requests : call[q] = "open" => q = r
      BY <3>1, BudgetAssumption DEF InTurn, Requests
    <3>3. cut' = cut \cup {r}
      BY <1>1, <3>1, <3>2 DEF StopTurn
    <3>. QED
      BY <1>1, <3>1, <3>3 DEF StopTurn, Cut, Next
  <2>2. CASE ~\E r \in Requests : call[r] = "open"
    BY <1>1, <2>2 DEF StopTurn, vars
  <2>. QED
    BY <2>1, <2>2
<1>2. CASE Abort \/ ForceStop \/ Retry
  BY <1>1, <1>2 DEF Abort, ForceStop, Retry
<1>3. CASE BeginTurn \/ TurnSettles \/ BackgroundLine \/ SendTurn \/ ReadLine
  BY <1>3 DEF BeginTurn, TurnSettles, BackgroundLine, SendTurn, ReadLine
<1>4. ASSUME NEW r \in Requests,
             MakeRequest(r) \/ RefusedRequest(r) \/ StreamEvent(r) \/ WarnReader(r)
             \/ RequestOver(r) \/ Quietly(Expire(r)) \/ Quietly(ServiceSends(r))
      PROVE  Next
  BY <1>4 DEF MakeRequest, RefusedRequest, StreamEvent, WarnReader, RequestOver, Quietly, Next
<1>5. CASE Quietly(Tick)
  BY <1>5 DEF Quietly, Next
<1>6. CASE UNCHANGED signVars
  BY <1>6 DEF signVars
<1>. QED
  BY <1>2, <1>3, <1>4, <1>5, <1>6 DEF SignNext

\* Whatever a step of a guard does, one request at most is open after it.
LEMMA InTurnNext == BudgetInv /\ InTurn /\ [Next]_vars => InTurn'
<1> SUFFICES ASSUME BudgetInv, InTurn, [Next]_vars PROVE InTurn'
  OBVIOUS
<1>1. call \in [Requests -> {"new", "open", "over"}]
  BY DEF BudgetInv, TypeOK
<1>2. CASE UNCHANGED call
  BY <1>2 DEF InTurn
<1>3. ASSUME NEW r \in Requests, StartRequest(r) \/ StartFails(r) PROVE InTurn'
  <2>1. \A q \in 1..(r - 1) : call[q] = "over"
    BY <1>3 DEF StartRequest, StartFails
  <2>2. \A q \in Requests : q # r => call'[q] = call[q]
    BY <1>1, <1>3 DEF StartRequest, StartFails
  <2>3. call[r] = "new" /\ \A q \in Requests : r < q => call[q] = "new"
    <3>1. call[r] = "new"
      BY <1>3 DEF StartRequest, StartFails
    <3>. QED
      BY <3>1 DEF InTurn
  <2>. QED
    BY <2>1, <2>2, <2>3, BudgetAssumption DEF InTurn, Requests
<1>4. ASSUME NEW r \in Requests, EndRequest(r) PROVE InTurn'
  BY <1>1, <1>4 DEF EndRequest, InTurn
<1>5. ASSUME NEW r \in Requests,
             Note(r) \/ Warn(r) \/ Expire(r) \/ ServiceSends(r) \/ Cut(r)
      PROVE  UNCHANGED call
  BY <1>5 DEF Note, Warn, Expire, ServiceSends, Cut
<1>6. CASE Tick \/ UNCHANGED vars
  BY <1>2, <1>6 DEF Tick, vars
<1>. QED
  BY <1>2, <1>3, <1>4, <1>5, <1>6 DEF Next

LEMMA NewAreQuietNext == BudgetInv /\ NewAreQuiet /\ [Next]_vars => NewAreQuiet'
<1> SUFFICES ASSUME BudgetInv, NewAreQuiet, [Next]_vars, NEW r \in Requests, call'[r] = "new"
             PROVE  r \notin warned' \cup expired'
  BY DEF NewAreQuiet
<1>1. call[r] = "new"
  BY DEF Next, Tick, StartRequest, StartFails, Note, Warn, Expire, ServiceSends, EndRequest, Cut,
         vars, BudgetInv, TypeOK
<1>2. warnTimer[r] # 0 /\ killTimer[r] # 0
  BY <1>1 DEF BudgetInv, AlarmsFit, Off
<1>3. r \notin warned \cup expired
  BY <1>1 DEF NewAreQuiet
<1>. QED
  BY <1>2, <1>3 DEF Next, Tick, StartRequest, StartFails, Note, Warn, Expire, ServiceSends,
                    EndRequest, Cut, vars, guardVars

\* The requests that may yet be told of as killed.
Pending == {r \in Requests : call[r] = "open" /\ r \in warned \cup expired}

\* Nothing is written.
LEMMA NothingSaid ==
    ASSUME EndsAreAnnounced, UNCHANGED <<lines, heard>>, Pending' \subseteq Pending
    PROVE  EndsAreAnnounced'
<1>1. \A n : Announced(n)' <=> Announced(n)
  BY DEF Announced
<1>. QED
  BY <1>1 DEF EndsAreAnnounced, Pending

\* A line is written: what is announced stays so, unless the line tells of an end, and a
\* warning announces.
LEMMA LineSaid ==
    ASSUME EndsAreAnnounced, lines \in Seq(Kinds), NEW kind \in Kinds,
           lines' = Append(lines, kind), heard' = heard,
           kind = "expired" => Pending # {},
           kind \in Ends => Pending' = {},
           kind # "warning" => Pending' \subseteq Pending
    PROVE  EndsAreAnnounced'
<1> DEFINE len == Len(lines)
<1>1. /\ len \in Nat /\ Len(lines') = len + 1 /\ lines'[len + 1] = kind
      /\ \A i \in 1..len : lines'[i] = lines[i]
  BY AppendProperties, LenProperties
<1>2. \A n \in 0..len : Announced(n) => Announced(n)'
  BY <1>1 DEF Announced
<1>3. Pending # {} => Announced(len)
  BY DEF EndsAreAnnounced, Pending
<1>4. ASSUME NEW i \in 1..(len + 1), lines'[i] = "expired" PROVE Announced(i - 1)'
  <2>1. CASE i = len + 1
    BY <1>1, <1>2, <1>3, <1>4, <2>1
  <2>2. CASE i \in 1..len
    BY <1>1, <1>2, <1>4, <2>2 DEF EndsAreAnnounced
  <2>. QED
    BY <1>1, <2>1, <2>2
<1>5. ASSUME Pending' # {}, NEW n \in Nat, n = len + 1 PROVE Announced(n)'
  <2>1. CASE kind = "warning"
    <3>1. n \in 1..n /\ lines'[n] = "warning" /\ \A k \in (n + 1)..n : FALSE
      BY <1>1, <1>5, <2>1
    <3>. QED
      BY <3>1 DEF Announced
  <2>2. CASE kind # "warning"
    <3>1. Announced(len) /\ kind \notin Ends
      BY <1>3, <1>5, <2>2
    <3>2. ASSUME NEW j \in 1..len, lines[j] = "warning",
                 \A k \in (j + 1)..len : lines[k] \notin Ends
          PROVE  Announced(n)'
      <4>1. j \in 1..n /\ lines'[j] = "warning"
        BY <1>1, <1>5, <3>2
      <4>2. \A k \in (j + 1)..n : lines'[k] \notin Ends
        BY <1>1, <1>5, <3>1, <3>2
      <4>. QED
        BY <4>1, <4>2 DEF Announced, Ends
    <3>3. ASSUME heard, \A k \in 1..len : lines[k] \notin Ends
          PROVE  Announced(n)'
      <4>1. \A k \in 1..n : lines'[k] \notin Ends
        BY <1>1, <1>5, <3>1, <3>3
      <4>. QED
        BY <3>3, <4>1 DEF Announced, Ends
    <3>. QED
      BY <3>1, <3>2, <3>3 DEF Announced
  <2>. QED
    BY <2>1, <2>2
<1>6. Len(lines') = len + 1 /\ Ends' = Ends
  BY <1>1 DEF Ends
<1>. QED
  BY <1>4, <1>5, <1>6 DEF EndsAreAnnounced, Pending

\* A line is read: what it announced is heard.
LEMMA LineRead ==
    ASSUME EndsAreAnnounced, lines \in Seq(Kinds), ReadLine
    PROVE  EndsAreAnnounced'
<1> DEFINE len == Len(lines)
<1>1. /\ len \in Nat \ {0} /\ Len(lines') = len - 1
      /\ \A i \in 1..(len - 1) : lines'[i] = lines[i + 1]
      /\ Head(lines) = lines[1]
  BY HeadTailProperties, LenProperties DEF ReadLine
<1>2. heard' = ((heard \/ lines[1] = "warning") /\ lines[1] \notin Ends)
  BY <1>1 DEF ReadLine
<1>3. ASSUME NEW n \in 1..len, Announced(n) PROVE Announced(n - 1)'
  <2>1. CASE heard /\ \A k \in 1..n : lines[k] \notin Ends
    <3>1. \A k \in 1..(n - 1) : lines'[k] \notin Ends
      BY <1>1, <2>1
    <3>2. heard'
      <4>1. lines[1] \notin Ends
        BY <1>1, <2>1
      <4>. QED
        BY <1>2, <2>1, <4>1, Zenon
    <3>. QED
      BY <3>1, <3>2 DEF Announced, Ends
  <2>2. ASSUME NEW j \in 1..n, lines[j] = "warning", \A k \in (j + 1)..n : lines[k] \notin Ends
        PROVE  Announced(n - 1)'
    <3>1. \A k \in j..(n - 1) : lines'[k] \notin Ends
      BY <1>1, <2>2
    <3>2. CASE j = 1
      BY <1>2, <2>2, <3>1, <3>2 DEF Announced, Ends
    <3>3. CASE j # 1
      <4>1. j - 1 \in 1..(n - 1) /\ lines'[j - 1] = "warning"
        BY <1>1, <2>2, <3>3
      <4>. QED
        BY <3>1, <4>1 DEF Announced
    <3>. QED
      BY <3>2, <3>3
  <2>. QED
    BY <1>3, <2>1, <2>2 DEF Announced
<1>4. UNCHANGED <<call, warned, expired>>
  BY DEF ReadLine, vars, guardVars
<1>. QED
  BY <1>1, <1>3, <1>4 DEF EndsAreAnnounced

\* Only the end of a request that was killed is told as such, and no other is open then.
LEMMA AnnouncedNext ==
    ASSUME SignInv, [SignNext]_signVars
    PROVE  EndsAreAnnounced' /\ (lines \in Seq(Kinds))'
<1>. USE DEF Emit
<1>0. /\ EndsAreAnnounced /\ lines \in Seq(Kinds)
      /\ \A q, r \in Requests : call[q] = "open" /\ call[r] = "open" => q = r
      /\ call \in [Requests -> {"new", "open", "over"}]
  <2>1. \A q, r \in Requests : q = r \/ q < r \/ r < q
    BY BudgetAssumption DEF Requests
  <2>. QED
    BY <2>1 DEF SignInv, BudgetInv, TypeOK, InTurn
<1>1. ASSUME UNCHANGED <<lines, heard>>, Pending' \subseteq Pending
      PROVE  EndsAreAnnounced' /\ (lines \in Seq(Kinds))'
  BY <1>0, <1>1, NothingSaid
<1>2. ASSUME NEW kind \in Kinds, lines' = Append(lines, kind), heard' = heard,
             kind = "expired" => Pending # {},
             kind \in Ends => Pending' = {},
             kind # "warning" => Pending' \subseteq Pending
      PROVE  EndsAreAnnounced' /\ (lines \in Seq(Kinds))'
  BY <1>0, <1>2, LineSaid
<1>3. CASE ReadLine
  <2>1. lines' \in Seq(Kinds)
    BY <1>0, <1>3, HeadTailProperties DEF ReadLine
  <2>. QED
    BY <1>0, <1>3, <2>1, LineRead
<1>4. CASE BeginTurn \/ SendTurn \/ Abort \/ ForceStop \/ Retry \/ UNCHANGED signVars
  <2>1. UNCHANGED <<lines, heard, call, warned, expired>>
    BY <1>4 DEF BeginTurn, SendTurn, Abort, ForceStop, Retry, StopTurn, signVars, vars,
                guardVars, rendererVars
  <2>. QED
    BY <1>1, <2>1 DEF Pending
<1>5. CASE Quietly(Tick)
  BY <1>1, <1>5 DEF Quietly, Tick, Pending, rendererVars
<1>6. CASE TurnSettles
  <2>1. Pending' = {}
    BY <1>6 DEF TurnSettles, vars, guardVars, Pending
  <2>. QED
    BY <1>2, <1>6, <2>1 DEF TurnSettles, rendererVars, Kinds, Ends
<1>7. CASE BackgroundLine
  <2>1. Pending' = Pending
    BY <1>7 DEF BackgroundLine, vars, guardVars, Pending
  <2>. QED
    BY <1>2, <1>7, <2>1 DEF BackgroundLine, rendererVars, Kinds, Ends
<1>8. ASSUME NEW r \in Requests, MakeRequest(r)
      PROVE  EndsAreAnnounced' /\ (lines \in Seq(Kinds))'
  <2>1. Pending' \subseteq Pending
    BY <1>0, <1>8 DEF MakeRequest, StartRequest, Pending, SignInv, NewAreQuiet
  <2>. QED
    BY <1>1, <1>8, <2>1 DEF MakeRequest, rendererVars
<1>9. ASSUME NEW r \in Requests, RefusedRequest(r)
      PROVE  EndsAreAnnounced' /\ (lines \in Seq(Kinds))'
  <2>1. Pending' = {}
    <3>1. \A q \in Requests : call'[q] # "open"
      <4>1. \A q \in Requests : q < r \/ q = r \/ r < q
        BY BudgetAssumption DEF Requests
      <4>2. \A q \in Requests : q < r => call[q] = "over"
        BY <1>9, BudgetAssumption DEF RefusedRequest, StartFails, Requests
      <4>3. \A q \in Requests : r < q => call[q] = "new"
        BY <1>0, <1>9 DEF RefusedRequest, StartFails, SignInv, InTurn
      <4>4. call' = [call EXCEPT ![r] = "over"]
        BY <1>9 DEF RefusedRequest, StartFails
      <4>. QED
        BY <1>0, <4>1, <4>2, <4>3, <4>4
    <3>. QED
      BY <3>1 DEF Pending
  <2>. QED
    BY <1>2, <1>9, <2>1 DEF RefusedRequest, rendererVars, Kinds, Ends
<1>10. ASSUME NEW r \in Requests, StreamEvent(r)
       PROVE  EndsAreAnnounced' /\ (lines \in Seq(Kinds))'
  <2>1. Pending' \subseteq Pending
    BY <1>10 DEF StreamEvent, Note, Pending
  <2>. QED
    BY <1>1, <1>2, <1>10, <2>1 DEF StreamEvent, rendererVars, Kinds, Ends
<1>11. ASSUME NEW r \in Requests, WarnReader(r)
       PROVE  EndsAreAnnounced' /\ (lines \in Seq(Kinds))'
  BY <1>2, <1>11 DEF WarnReader, rendererVars, Kinds, Ends
<1>12. ASSUME NEW r \in Requests, RequestOver(r)
       PROVE  EndsAreAnnounced' /\ (lines \in Seq(Kinds))'
  <2>1. call[r] = "open" /\ Pending' = {}
    BY <1>0, <1>12 DEF RequestOver, EndRequest, Pending
  <2>2. r \in expired => Pending # {}
    BY <2>1 DEF Pending
  <2>3. \E kind \in {"answered", "settled", "expired", "failed"} :
           lines' = Append(lines, kind) /\ (kind = "expired" => r \in expired)
    BY <1>12 DEF RequestOver
  <2>. QED
    BY <1>2, <1>12, <2>1, <2>2, <2>3 DEF RequestOver, rendererVars, Kinds
<1>13. ASSUME NEW r \in Requests, Quietly(Expire(r))
       PROVE  EndsAreAnnounced' /\ (lines \in Seq(Kinds))'
  <2>1. r \in warned
    BY <1>13 DEF Quietly, Expire, SignInv, BudgetInv, AlarmsFit, Off
  <2>2. Pending' = Pending
    BY <1>13, <2>1 DEF Quietly, Expire, Pending
  <2>. QED
    BY <1>1, <1>13, <2>2 DEF Quietly, rendererVars
<1>14. ASSUME NEW r \in Requests, Quietly(ServiceSends(r))
       PROVE  EndsAreAnnounced' /\ (lines \in Seq(Kinds))'
  <2>1. Pending' = Pending
    BY <1>14 DEF Quietly, ServiceSends, Pending, guardVars
  <2>. QED
    BY <1>1, <1>14, <2>1 DEF Quietly, rendererVars
<1>. QED
  BY <1>3, <1>4, <1>5, <1>6, <1>7, <1>8, <1>9, <1>10, <1>11, <1>12, <1>13, <1>14 DEF SignNext

LEMMA SignInvariance == SignSpec => []SignInv
<1>1. SignInit => SignInv
  <2> SUFFICES ASSUME SignInit PROVE SignInv
    OBVIOUS
  <2>1. BudgetInv
    BY InvInit DEF SignInit
  <2>2. lines = <<>> /\ InTurn /\ NewAreQuiet
    BY DEF SignInit, Init, InTurn, NewAreQuiet
  <2>3. \A r \in Requests : call[r] # "open"
    BY DEF SignInit, Init
  <2>4. lines \in Seq(Kinds) /\ EndsAreAnnounced
    BY <2>2, <2>3, EmptySeq DEF EndsAreAnnounced
  <2>. QED
    BY <2>1, <2>2, <2>4 DEF SignInv
<1>2. SignInv /\ [SignNext]_signVars => SignInv'
  <2> SUFFICES ASSUME SignInv, [SignNext]_signVars PROVE SignInv'
    OBVIOUS
  <2>1. [Next]_vars
    BY SignStep DEF SignInv
  <2>. QED
    BY <2>1, InvNext, InTurnNext, NewAreQuietNext, AnnouncedNext DEF SignInv
<1>. QED
  BY <1>1, <1>2, PTL DEF SignSpec

\* The turns, the renderer and its retries leave the guards what they are: what is proved of
\* RequestBudget is true of the composed system.
THEOREM TurnsKeepTheGuards == SignSpec => Spec
<1>1. SignInit => Init
  BY DEF SignInit
<1>2. SignInv /\ [SignNext]_signVars => [Next]_vars
  BY SignStep DEF SignInv
<1>. QED
  BY <1>1, <1>2, SignInvariance, PTL DEF SignSpec, Spec

\* The renderer reads that a request was killed only after it read a warning of it, for any
\* number of turns, requests and lines and whatever is stopped, retried or written beside.
THEOREM KillsAreAnnounced == SignSpec => ExpiryIsAnnounced
<1> DEFINE Told == lines # <<>> /\ lines' = Tail(lines) /\ Head(lines) = "expired" => heard
<1>1. SignInv => (lines # <<>> /\ Head(lines) = "expired" => heard)
  <2> SUFFICES ASSUME SignInv, lines # <<>>, Head(lines) = "expired" PROVE heard
    OBVIOUS
  <2>1. 1 \in 1..Len(lines) /\ lines[1] = "expired"
    BY LenProperties, HeadTailProperties DEF SignInv
  <2>2. Announced(1 - 1)
    BY <2>1 DEF SignInv, EndsAreAnnounced
  <2>3. \A j \in 1..(1 - 1) : FALSE
    OBVIOUS
  <2>. QED
    BY <2>2, <2>3 DEF Announced
<1>2. SignInv /\ [SignNext]_signVars => [Told]_signVars
  BY <1>1
<1>. QED
  BY <1>2, SignInvariance, PTL DEF SignSpec, ExpiryIsAnnounced

=============================================================================
