---------------------------- MODULE RequestBudget ----------------------------
(***************************************************************************)
(* The guard the Pi bridge puts on every model request                      *)
(* (src/sidecar/pi/bridge-request-budget.js and -stream.js).                *)
(*                                                                         *)
(* A guard has two alarms.  The soft one only warns, and arms the hard one, *)
(* which aborts the request; each event of the model's stream clears both.  *)
(* Time passes in ticks, and may pass while an alarm is due: the thread is   *)
(* busy.  Events wait in the stream until the thread takes them.            *)
(*                                                                         *)
(* The model's service is external: it may send events at any time, fall    *)
(* silent, and end its stream at any time.                                  *)
(***************************************************************************)
EXTENDS Integers

CONSTANTS
    MaxRequests,     \* bound: requests, made one after the other
    MaxEvents,       \* bound: events of one stream
    Payloads,        \* sizes of a request
    TtfbBase, TtfbPerMb, TtfbMax, Stall, KillGrace, KillMax   \* the thresholds, in ticks

\* The last conjunct is the constraint the defaults state for killMaxMs.
ASSUME BudgetAssumption ==
    /\ MaxRequests \in Nat /\ MaxEvents \in Nat /\ Payloads \subseteq Nat
    /\ {TtfbBase, TtfbPerMb, TtfbMax, Stall, KillGrace, KillMax} \subseteq Nat \ {0}
    /\ KillMax >= TtfbMax + KillGrace /\ KillMax >= Stall + KillGrace

Requests == 1..MaxRequests
Off == -1      \* an alarm that is not set; 0 is one that is due

AtMost(a, b) == IF a <= b THEN a ELSE b
AtLeast(a, b) == IF a >= b THEN a ELSE b

VARIABLES
    call,        \* each request: "new", "open", "over"
    payload,     \* its size
    inbox,       \* events the stream holds for the thread
    sent,        \* events the service has sent
    cut,         \* requests whose caller gave up: parentSignal
    expired,     \* requests the guard aborted
    stage,       \* "ttfb" until the first event, then "stream"
    warnTimer, killTimer,
    warned,      \* requests warned about since their last event
    sinceWarning \* history: ticks since the warning of a warned request

guardVars == <<stage, warnTimer, killTimer, warned, sinceWarning>>
vars == <<call, payload, inbox, sent, cut, expired, guardVars>>

Init ==
    /\ call = [r \in Requests |-> "new"]
    /\ payload \in [Requests -> Payloads]
    /\ inbox = [r \in Requests |-> 0] /\ sent = [r \in Requests |-> 0]
    /\ cut = {} /\ expired = {} /\ warned = {}
    /\ stage = [r \in Requests |-> "ttfb"]
    /\ warnTimer = [r \in Requests |-> Off] /\ killTimer = [r \in Requests |-> Off]
    /\ sinceWarning = [r \in Requests |-> 0]

-----------------------------------------------------------------------------
(* resolveRequestBudget *)

Soft(r) ==
    IF stage[r] = "stream" THEN Stall
    ELSE AtMost(TtfbBase + payload[r] * TtfbPerMb, TtfbMax)

HardDeadline(soft) == AtMost(soft + KillGrace, KillMax)

-----------------------------------------------------------------------------
(* The guard *)

StartRequest(r) ==
    /\ call[r] = "new" /\ \A q \in 1..(r - 1) : call[q] = "over"
    /\ call' = [call EXCEPT ![r] = "open"]
    /\ warnTimer' = [warnTimer EXCEPT ![r] = Soft(r)]
    /\ UNCHANGED <<payload, inbox, sent, cut, expired, stage, killTimer, warned, sinceWarning>>

\* The service refuses the request before there is a stream.
StartFails(r) ==
    /\ call[r] = "new" /\ \A q \in 1..(r - 1) : call[q] = "over"
    /\ call' = [call EXCEPT ![r] = "over"]
    /\ UNCHANGED <<payload, inbox, sent, cut, expired, guardVars>>

\* Mutant: the hard alarm is left running.
Note_KeepsKill(r) ==
    /\ call[r] = "open" /\ inbox[r] > 0
    /\ inbox' = [inbox EXCEPT ![r] = @ - 1]
    /\ stage' = [stage EXCEPT ![r] = "stream"]
    /\ warnTimer' = [warnTimer EXCEPT ![r] = Stall]
    /\ warned' = warned \ {r}
    /\ UNCHANGED <<call, payload, sent, cut, expired, killTimer, sinceWarning>>

\* The thread takes an event from the stream.
Note(r) ==
    /\ call[r] = "open" /\ inbox[r] > 0
    /\ inbox' = [inbox EXCEPT ![r] = @ - 1]
    /\ stage' = [stage EXCEPT ![r] = "stream"]
    /\ warnTimer' = [warnTimer EXCEPT ![r] = Stall]
    /\ killTimer' = [killTimer EXCEPT ![r] = Off]
    /\ warned' = warned \ {r}
    /\ UNCHANGED <<call, payload, sent, cut, expired, sinceWarning>>

\* Mutant: the hard alarm is not set.
Warn_OnlyWarns(r) ==
    /\ warnTimer[r] = 0
    /\ warnTimer' = [warnTimer EXCEPT ![r] = Off]
    /\ warned' = warned \cup {r}
    /\ sinceWarning' = [sinceWarning EXCEPT ![r] = 0]
    /\ UNCHANGED <<call, payload, inbox, sent, cut, expired, stage, killTimer>>

Warn(r) ==
    /\ warnTimer[r] = 0
    /\ warnTimer' = [warnTimer EXCEPT ![r] = Off]
    /\ killTimer' =
         [killTimer EXCEPT ![r] = AtLeast(1, HardDeadline(Soft(r)) - Soft(r))]
    /\ warned' = warned \cup {r}
    /\ sinceWarning' = [sinceWarning EXCEPT ![r] = 0]
    /\ UNCHANGED <<call, payload, inbox, sent, cut, expired, stage>>

Expire(r) ==
    /\ killTimer[r] = 0
    /\ killTimer' = [killTimer EXCEPT ![r] = Off]
    /\ expired' = expired \cup {r}
    /\ UNCHANGED <<call, payload, inbox, sent, cut, stage, warnTimer, warned, sinceWarning>>

-----------------------------------------------------------------------------
(* The request *)

ServiceSends(r) ==
    /\ call[r] = "open" /\ sent[r] < MaxEvents
    /\ sent' = [sent EXCEPT ![r] = @ + 1]
    /\ inbox' = [inbox EXCEPT ![r] = @ + 1]
    /\ UNCHANGED <<call, payload, cut, expired, guardVars>>

\* Mutant: a warned request that ends keeps its hard alarm.
EndRequest_KeepsKill(r) ==
    /\ call[r] = "open" /\ inbox[r] = 0
    /\ call' = [call EXCEPT ![r] = "over"]
    /\ warnTimer' = [warnTimer EXCEPT ![r] = Off]
    /\ UNCHANGED <<payload, inbox, sent, cut, expired, stage, killTimer, warned, sinceWarning>>

\* The stream ends, well or not: whatever happened, the guard stops.
EndRequest(r) ==
    /\ call[r] = "open" /\ inbox[r] = 0
    /\ call' = [call EXCEPT ![r] = "over"]
    /\ warnTimer' = [warnTimer EXCEPT ![r] = Off]
    /\ killTimer' = [killTimer EXCEPT ![r] = Off]
    /\ UNCHANGED <<payload, inbox, sent, cut, expired, stage, warned, sinceWarning>>

\* The caller's own abort is not the guard's.
Cut(r) ==
    /\ call[r] = "open"
    /\ cut' = cut \cup {r}
    /\ UNCHANGED <<call, payload, inbox, sent, expired, guardVars>>

Sooner(timer) == [r \in Requests |-> IF timer[r] > 0 THEN timer[r] - 1 ELSE timer[r]]

Tick ==
    /\ warnTimer' = Sooner(warnTimer) /\ killTimer' = Sooner(killTimer)
    /\ sinceWarning' = [r \in Requests |->
            IF r \in warned THEN AtMost(sinceWarning[r] + 1, KillGrace) ELSE 0]
    /\ UNCHANGED <<call, payload, inbox, sent, cut, expired, stage, warned>>

Next ==
    \/ Tick
    \/ \E r \in Requests :
          \/ StartRequest(r) \/ StartFails(r) \/ Note(r) \/ Warn(r) \/ Expire(r)
          \/ ServiceSends(r) \/ EndRequest(r) \/ Cut(r)

Spec == Init /\ [][Next]_vars

-----------------------------------------------------------------------------
(* Properties *)

Timers == {Off} \cup 0..KillMax

TypeOK ==
    /\ call \in [Requests -> {"new", "open", "over"}]
    /\ payload \in [Requests -> Nat]
    /\ inbox \in [Requests -> Nat] /\ sent \in [Requests -> Nat]
    /\ {cut, expired, warned} \subseteq SUBSET Requests
    /\ stage \in [Requests -> {"ttfb", "stream"}]
    /\ warnTimer \in [Requests -> Timers] /\ killTimer \in [Requests -> Timers]
    /\ sinceWarning \in [Requests -> 0..KillGrace]

\* The guard aborts only a request it warned about, and none of whose events it saw for the
\* whole grace since: the user had the time to decide.
KilledAfterGrace ==
    [][\A r \in Requests :
          r \in expired' \ expired => r \in warned /\ sinceWarning[r] >= KillGrace]_vars

\* The guard of a request that is over does nothing any more: neither a warning nor an
\* abort comes for it, however it ended and however late its alarms are.
DeadRequestsStaySilent ==
    [][\A r \in Requests :
          (r \in expired' \ expired) \/ (r \in warned' \ warned) => call[r] = "open"]_vars

\* A request that was made ends, even if the service never sends anything, provided that
\* it ends the stream when it is told to.
RequestsEnd == \A r \in Requests : call[r] = "open" ~> call[r] = "over"
=============================================================================
