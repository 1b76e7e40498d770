------------------------------ MODULE StallSign ------------------------------
(***************************************************************************)
(* The model requests of one conversation's turns, the lines the bridge     *)
(* writes about them, and the sign "stalled" the renderer shows:            *)
(* RequestBudget, subscribeSession of src/sidecar/pi/bridge.js, and the     *)
(* stall handling of src/app/src/composables/useConversations.ts.           *)
(*                                                                         *)
(* Lines name the conversation and no turn.  The reader's Retry sends the    *)
(* next turn while the old one may still be ending.                         *)
(***************************************************************************)
EXTENDS RequestBudget, Sequences

CONSTANTS MaxTurns,   \* bound: turns sent
          MaxLines    \* bound: lines written and not read

VARIABLES
    turn,          \* a turn runs in the sidecar
    queued,        \* turns sent and not begun
    turnsSent,
    stopped,       \* the turn that runs was told to stop
    lines,         \* written by the bridge, not read by the renderer
    running,       \* runningIds has the conversation
    engineWarned,  \* engineWarnedAtByConversation has it
    heard          \* history: a warning was read since a request was last seen to end

rendererVars == <<running, engineWarned, heard>>
turnVars == <<turn, queued, turnsSent, stopped>>
signVars == <<vars, turnVars, lines, rendererVars>>

SignInit ==
    /\ Init
    /\ turn = FALSE /\ queued = 0 /\ turnsSent = 0 /\ stopped = FALSE /\ lines = <<>>
    /\ running = FALSE /\ engineWarned = FALSE /\ heard = FALSE

Kinds == {"warning", "progress", "other", "answered", "failed", "expired", "settled"}

Emit(kind) == Len(lines) < MaxLines /\ lines' = Append(lines, kind)

-----------------------------------------------------------------------------
(* The sidecar *)

BeginTurn ==
    /\ ~turn /\ queued > 0
    /\ turn' = TRUE /\ queued' = queued - 1 /\ stopped' = FALSE
    /\ UNCHANGED <<vars, turnsSent, lines, rendererVars>>

MakeRequest(r) ==
    /\ turn /\ ~stopped
    /\ StartRequest(r)
    /\ UNCHANGED <<turnVars, lines, rendererVars>>

RefusedRequest(r) ==
    /\ turn /\ ~stopped
    /\ StartFails(r)
    /\ turn' = FALSE /\ Emit("failed")
    /\ UNCHANGED <<queued, turnsSent, stopped, rendererVars>>

\* Text and thinking are written; the pieces of a tool call are not.
StreamEvent(r) ==
    /\ Note(r)
    /\ Emit("progress") \/ UNCHANGED lines
    /\ UNCHANGED <<turnVars, rendererVars>>

\* Mutant: a stream that had begun is not warned about.
WarnReader_FirstByteOnly(r) ==
    /\ Warn(r)
    /\ IF stage[r] = "ttfb" THEN Emit("warning") ELSE UNCHANGED lines
    /\ UNCHANGED <<turnVars, rendererVars>>

WarnReader(r) ==
    /\ Warn(r) /\ Emit("warning")
    /\ UNCHANGED <<turnVars, rendererVars>>

\* An answer may lead to tools and another request, or end the turn; a failure ends it, and
\* is told as the guard's if the guard aborted the request.
RequestOver(r) ==
    /\ EndRequest(r)
    /\ \/ ~stopped /\ Emit("answered") /\ UNCHANGED turn
       \/ turn' = FALSE /\ (Emit("settled") \/ Emit(IF r \in expired THEN "expired" ELSE "failed"))
    /\ UNCHANGED <<queued, turnsSent, stopped, rendererVars>>

\* The turn ends between two requests.
TurnSettles ==
    /\ turn /\ \A r \in Requests : call[r] # "open"
    /\ turn' = FALSE /\ Emit("settled")
    /\ UNCHANGED <<vars, queued, turnsSent, stopped, rendererVars>>

\* Background tasks and subagents write lines whenever they change.  (Bound: one place is
\* left to the turn.)
BackgroundLine ==
    /\ turn /\ Len(lines) + 1 < MaxLines /\ Emit("other")
    /\ UNCHANGED <<vars, turnVars, rendererVars>>

\* session.abort reaches the request as its parentSignal.
StopTurn ==
    /\ stopped' = turn
    /\ cut' = cut \cup {r \in Requests : call[r] = "open"}
    /\ UNCHANGED <<call, payload, inbox, sent, expired, guardVars, turn>>

-----------------------------------------------------------------------------
(* The renderer *)

SendTurn ==
    /\ ~running /\ turnsSent < MaxTurns
    /\ turnsSent' = turnsSent + 1 /\ queued' = queued + 1
    /\ running' = TRUE
    /\ UNCHANGED <<vars, turn, stopped, lines, engineWarned, heard>>

Abort ==
    /\ running
    /\ StopTurn
    /\ UNCHANGED <<queued, turnsSent, lines, rendererVars>>

\* decideTurnStall, for an engine whose heartbeat is heard.
Stalled == running /\ engineWarned

\* forceStopConversation: the run is settled here before the engine is told.
ForceStop ==
    /\ Stalled
    /\ running' = FALSE /\ engineWarned' = FALSE
    /\ StopTurn
    /\ UNCHANGED <<queued, turnsSent, lines, heard>>

\* wakeStuckTurn: the same, and the last prompt is sent again.
Retry ==
    /\ Stalled /\ turnsSent < MaxTurns
    /\ engineWarned' = FALSE
    /\ StopTurn
    /\ turnsSent' = turnsSent + 1 /\ queued' = queued + 1
    /\ UNCHANGED <<lines, running, heard>>

Ends == {"answered", "failed", "expired", "settled"}

\* Every line but a warning is progress; those of a turn show it as running, its end does not.
ReadLine ==
    /\ lines # <<>> /\ lines' = Tail(lines)
    /\ LET kind == Head(lines)
       IN  /\ engineWarned' = (kind = "warning")
           /\ running' = CASE kind \in {"progress", "answered"} -> TRUE
                           [] kind \in {"failed", "expired", "settled"} -> FALSE
                           [] OTHER -> running
           /\ heard' = ((heard \/ kind = "warning") /\ kind \notin Ends)
    /\ UNCHANGED <<vars, turnVars>>

-----------------------------------------------------------------------------
(* The specification *)

Quietly(A) == A /\ UNCHANGED <<turnVars, lines, rendererVars>>

SignNext ==
    \/ BeginTurn \/ TurnSettles \/ BackgroundLine
    \/ SendTurn \/ Abort \/ ForceStop \/ Retry \/ ReadLine
    \/ Quietly(Tick)
    \/ \E r \in Requests :
          \/ MakeRequest(r) \/ RefusedRequest(r) \/ StreamEvent(r) \/ WarnReader(r)
          \/ RequestOver(r) \/ Quietly(Expire(r)) \/ Quietly(ServiceSends(r))

\* The renderer reads what there is to read.
SignFairness ==
    /\ WF_signVars(Quietly(Tick)) /\ WF_signVars(ReadLine)
    /\ \A r \in Requests :
          /\ WF_signVars(WarnReader(r)) /\ WF_signVars(Quietly(Expire(r)))
          /\ WF_signVars(StreamEvent(r))
          /\ WF_signVars(r \in cut \cup expired /\ RequestOver(r))

SignSpec == SignInit /\ [][SignNext]_signVars /\ SignFairness

-----------------------------------------------------------------------------
(* Properties *)

\* The reader never learns that a request was killed for its silence without having been
\* warned of it first, whatever else is written and whatever he stopped or retried before.
ExpiryIsAnnounced ==
    [][lines # <<>> /\ lines' = Tail(lines) /\ Head(lines) = "expired" => heard]_signVars

\* A conversation is shown as stalled, when every line is read, only while one of its
\* requests is over its budget.
StallSignIsTrue ==
    lines = <<>> /\ Stalled => \E r \in Requests : call[r] = "open" /\ r \in warned
=============================================================================
