------------------------------ MODULE PiBridge ------------------------------
(***************************************************************************)
(* The Pi bridge (src/sidecar/pi/bridge.js): one process that runs the      *)
(* conversations of a workspace on one JavaScript thread.                   *)
(*                                                                         *)
(* Commands arrive as lines on stdin.  Most wait in `commandQueue` and are  *)
(* handled one after the other; stops, answers to approval cards and        *)
(* compactions are handled when their line arrives, whatever the queue is   *)
(* doing.  A handler runs without interruption from one await to the next,  *)
(* which is what an action is here.  The prompt itself is detached into a   *)
(* queue per conversation.                                                  *)
(*                                                                         *)
(* The agent of a session is Pi's and external: it is modelled by what the  *)
(* bridge relies on.                                                        *)
(***************************************************************************)
EXTENDS Naturals, Sequences, FiniteSets

CONSTANTS Conversations,
          MaxPrompts,      \* bound: prompts sent to one conversation
          MaxCompactions   \* bound: compactions requested of one conversation

ASSUME BoundsAssumption == MaxPrompts \in Nat /\ MaxCompactions \in Nat

Prompts == 1..MaxPrompts
Requests == 1..MaxCompactions

\* "new" prompts have not been sent; "sent" ones are in commandQueue; the task of a
\* "queued" one has not begun; "waiting" awaits a manual compaction, "tidying" one of its
\* own, "ready" and "prepared" what else is done before session.prompt, "running"
\* session.prompt itself, "closing" what comes after it.
\* "lost" ones belong to a session that was disposed of, "dropped" ones were never run.
Starting == {"ready", "prepared"}
Tasks == Starting \cup {"queued", "waiting", "tidying", "running", "closing"}
Over == {"lost", "dropped", "done"}
Stages == {"new", "sent"} \cup Tasks \cup Over

NoPrompt == 0
NoRequest == 0
Commands == [do : {"send", "relay", "destroy"}, conv : Conversations, prompt : 0..MaxPrompts]

VARIABLES
    commandQueue,         \* commands whose handler has not ended
    step,                 \* the await the handler of the first one is at
    sessions,             \* conversations with a Pi session
    prompt,               \* the stage of each prompt
    abortedSessions,      \* the marks left by stops and by failed model calls
    stopping,             \* the await abortSession is at
    agent,                \* Pi: "idle", "running", or "asking" in a tool's hook
    signalled,            \* Pi: its agent was told to abort
    pending,              \* conversations with a card the approval broker waits for
    late,                 \* conversations with a cancelled card the user may still answer
    compacting,           \* Pi: the compaction of the session
    compactionRuns,       \* the manual compaction whose promise has not settled
    compactionRequestIds, \* the request its end is to be reported to
    requested,            \* number of compactions requested
    answers,              \* history: number of compaction_end lines per request
    shown                 \* the conversation runs, by the lines and commands so far

vars == <<commandQueue, step, sessions, prompt, abortedSessions, stopping, agent, signalled,
          pending, late, compacting, compactionRuns, compactionRequestIds, requested, answers,
          shown>>

queueVars == <<commandQueue, step>>
agentVars == <<agent, signalled>>
cardVars == <<pending, late>>
compactionVars == <<compacting, compactionRuns, compactionRequestIds, requested, answers>>

Steps == {"next", "creating", "configuring", "halting", "disposing", "relaying",
          "removing", "closing"}

Init ==
    /\ commandQueue = <<>> /\ step = "next"
    /\ sessions = {} /\ abortedSessions = {}
    /\ prompt = [c \in Conversations |-> [n \in Prompts |-> "new"]]
    /\ stopping = [c \in Conversations |-> "no"]
    /\ agent = [c \in Conversations |-> "idle"]
    /\ signalled = {} /\ pending = {} /\ late = {}
    /\ compacting = [c \in Conversations |-> "no"]
    /\ compactionRuns = [c \in Conversations |-> NoRequest]
    /\ compactionRequestIds = [c \in Conversations |-> NoRequest]
    /\ requested = [c \in Conversations |-> 0]
    /\ answers = [c \in Conversations |-> [r \in Requests |-> 0]]
    /\ shown = [c \in Conversations |-> FALSE]

-----------------------------------------------------------------------------
(* Helpers *)

\* turn_settled, error and session_destroyed end the run of a conversation for the desktop;
\* turn_started begins it.
Line(c, kind) == shown' = [shown EXCEPT ![c] = kind = "turn_started"]

Stage(c, n, s) == prompt' = [prompt EXCEPT ![c][n] = s]

\* The handler of the first command ends, or goes on to another await.
Handled == commandQueue' = Tail(commandQueue) /\ step' = "next"
GoesOn(s) == step' = s /\ UNCHANGED commandQueue

Handling(do, c, n, s) ==
    /\ commandQueue # <<>>
    /\ Head(commandQueue) = [do |-> do, conv |-> c, prompt |-> n]
    /\ step = s

\* session.abort() tells a busy agent to end.
Signal(c) ==
    /\ signalled' = IF agent[c] = "idle" THEN signalled ELSE signalled \cup {c}
    /\ UNCHANGED agent

\* Mutant: the card goes, the tool that waits for it is not told.
CancelConversation_CardsOnly(c) ==
    /\ pending' = pending \ {c}
    /\ late' = IF c \in pending THEN late \cup {c} ELSE late
    /\ UNCHANGED agent

\* What pending cards resolve to when the conversation is cancelled: the hook of the tool is
\* told no, and the agent goes on.
CancelConversation(c) ==
    /\ pending' = pending \ {c}
    /\ late' = IF c \in pending THEN late \cup {c} ELSE late
    /\ agent' = IF c \in pending THEN [agent EXCEPT ![c] = "running"] ELSE agent

\* The prompts of a session that is disposed of can no longer run.
Abandoned(c) ==
    [prompt EXCEPT ![c] = [n \in Prompts |-> IF @[n] \in Tasks THEN "lost" ELSE @[n]]]

\* One more compaction_end line for request r.
Answered(c, r) ==
    IF r = NoRequest THEN answers ELSE [answers EXCEPT ![c][r] = @ + 1]

\* Prompts that await the conversation's manual compaction go on when its promise settles.
Awakened(c) ==
    [prompt EXCEPT ![c] = [n \in Prompts |-> IF @[n] = "waiting" THEN "ready" ELSE @[n]]]

-----------------------------------------------------------------------------
(* Lines that wait in commandQueue *)

\* Mutant: the command names the next prompt.
SendMessage_NextPrompt(c, n) ==
    /\ prompt[c][n] = "new" /\ \A m \in 1..(n - 1) : prompt[c][m] # "new"
    /\ (~shown[c] \/ stopping[c] # "no")
    /\ commandQueue' = Append(commandQueue, [do |-> "send", conv |-> c, prompt |-> n + 1])
    /\ Stage(c, n, "sent")
    /\ shown' = [shown EXCEPT ![c] = TRUE]
    /\ UNCHANGED <<step, sessions, abortedSessions, stopping, agentVars, cardVars,
                   compactionVars>>

\* The desktop sends to a conversation that does not run, or that it is stopping.
SendMessage(c, n) ==
    /\ prompt[c][n] = "new" /\ \A m \in 1..(n - 1) : prompt[c][m] # "new"
    /\ (~shown[c] \/ stopping[c] # "no")
    /\ commandQueue' = Append(commandQueue, [do |-> "send", conv |-> c, prompt |-> n])
    /\ Stage(c, n, "sent")
    /\ shown' = [shown EXCEPT ![c] = TRUE]
    /\ UNCHANGED <<step, sessions, abortedSessions, stopping, agentVars, cardVars,
                   compactionVars>>

InQueue(c) == \E i \in 1..Len(commandQueue) : commandQueue[i].conv = c

Other(do, c) ==
    /\ ~InQueue(c)
    /\ commandQueue' = Append(commandQueue, [do |-> do, conv |-> c, prompt |-> NoPrompt])
    /\ UNCHANGED <<step, sessions, prompt, abortedSessions, stopping, agentVars, cardVars,
                   compactionVars>>

RelayMessage(c) ==
    /\ ~shown[c] /\ c \in sessions /\ \A n \in Prompts : prompt[c][n] \notin Tasks
    /\ Other("relay", c)
    /\ shown' = [shown EXCEPT ![c] = TRUE]

DestroySession(c) == c \in sessions /\ Other("destroy", c) /\ UNCHANGED shown

-----------------------------------------------------------------------------
(* sendMessage and createSession *)

\* Mutant: a dropped message is not reported as settled.
SendBegins_Silent(c, n) ==
    /\ Handling("send", c, n, "next")
    /\ abortedSessions' = abortedSessions \ {c}
    /\ IF c \in sessions
       THEN /\ \E reload \in BOOLEAN : GoesOn(IF reload THEN "halting" ELSE "configuring")
            /\ UNCHANGED prompt
       ELSE IF c \in abortedSessions
       THEN Handled /\ Stage(c, n, "dropped")
       ELSE GoesOn("creating") /\ UNCHANGED prompt
    /\ UNCHANGED <<sessions, stopping, agentVars, cardVars, compactionVars, shown>>

\* dropSendAfterAbort takes the mark away whether or not it drops the message.
SendBegins(c, n) ==
    /\ Handling("send", c, n, "next")
    /\ abortedSessions' = abortedSessions \ {c}
    /\ IF c \in sessions
       THEN /\ \E reload \in BOOLEAN : GoesOn(IF reload THEN "halting" ELSE "configuring")
            /\ UNCHANGED <<prompt, shown>>
       ELSE IF c \in abortedSessions
       THEN Handled /\ Stage(c, n, "dropped") /\ Line(c, "turn_settled")
       ELSE GoesOn("creating") /\ UNCHANGED <<prompt, shown>>
    /\ UNCHANGED <<sessions, stopping, agentVars, cardVars, compactionVars>>

\* A changed policy: the subagents are halted, then the session is disposed of.
ReloadHalted(c, n) ==
    /\ Handling("send", c, n, "halting")
    /\ GoesOn("disposing") /\ Signal(c)
    /\ UNCHANGED <<sessions, prompt, abortedSessions, stopping, cardVars, compactionVars,
                   shown>>

\* Mutant: the session is disposed of before its agent ended.
ReloadDisposed_Early(c, n) ==
    /\ Handling("send", c, n, "disposing")
    /\ GoesOn("creating")
    /\ sessions' = sessions \ {c} /\ prompt' = Abandoned(c)
    /\ compacting' = [compacting EXCEPT ![c] = "no"]
    /\ UNCHANGED <<abortedSessions, stopping, agentVars, cardVars, compactionRuns,
                   compactionRequestIds, requested, answers, shown>>

ReloadDisposed(c, n) ==
    /\ Handling("send", c, n, "disposing") /\ agent[c] = "idle"
    /\ GoesOn("creating")
    /\ sessions' = sessions \ {c} /\ prompt' = Abandoned(c)
    /\ compacting' = [compacting EXCEPT ![c] = "no"]
    /\ UNCHANGED <<abortedSessions, stopping, agentVars, cardVars, compactionRuns,
                   compactionRequestIds, requested, answers, shown>>

\* A stop that arrived meanwhile is found as a mark.
CreateSucceeds(c, n) ==
    /\ Handling("send", c, n, "creating")
    /\ Handled
    /\ sessions' = sessions \cup {c} /\ abortedSessions' = abortedSessions \ {c}
    /\ IF c \in abortedSessions
       THEN Stage(c, n, "dropped") /\ Line(c, "turn_settled")
       ELSE Stage(c, n, "queued") /\ UNCHANGED shown
    /\ UNCHANGED <<stopping, agentVars, cardVars, compactionVars>>

\* Configuring a reused session: its policy, tools and model.
ConfigureSucceeds(c, n) ==
    /\ Handling("send", c, n, "configuring")
    /\ Handled /\ Stage(c, n, "queued")
    /\ UNCHANGED <<sessions, abortedSessions, stopping, agentVars, cardVars, compactionVars,
                   shown>>

SendFails(c, n) ==
    /\ (Handling("send", c, n, "creating") \/ Handling("send", c, n, "configuring"))
    /\ Handled /\ Stage(c, n, "done") /\ Line(c, "error")
    /\ UNCHANGED <<sessions, abortedSessions, stopping, agentVars, cardVars, compactionVars>>

-----------------------------------------------------------------------------
(* relaySession: the turn is awaited in the queue. *)

RelayBegins(c) ==
    /\ Handling("relay", c, NoPrompt, "next")
    /\ IF c \in sessions /\ agent[c] = "idle"
       THEN /\ GoesOn("relaying") /\ Line(c, "turn_started")
            /\ agent' = [agent EXCEPT ![c] = "running"]
       ELSE Handled /\ Line(c, "error") /\ UNCHANGED agent
    /\ UNCHANGED <<sessions, prompt, abortedSessions, stopping, signalled, cardVars,
                   compactionVars>>

RelayEnds(c) ==
    /\ Handling("relay", c, NoPrompt, "relaying") /\ agent[c] = "idle"
    /\ Handled
    /\ (Line(c, "error") \/ UNCHANGED shown)
    /\ UNCHANGED <<sessions, prompt, abortedSessions, stopping, agentVars, cardVars,
                   compactionVars>>

-----------------------------------------------------------------------------
(* destroySession *)

\* Mutant: the compaction is answered for, and its request is kept.
DestroyBegins_RequestKept(c) ==
    /\ Handling("destroy", c, NoPrompt, "next")
    /\ GoesOn("removing")
    /\ answers' = Answered(c, compactionRequestIds[c])
    /\ compactionRuns' = [compactionRuns EXCEPT ![c] = NoRequest]
    /\ CancelConversation(c)
    /\ UNCHANGED <<sessions, prompt, abortedSessions, stopping, signalled, compacting,
                   compactionRequestIds, requested, shown>>

\* Up to the first await: the compaction is answered for, cards are cancelled.
DestroyBegins(c) ==
    /\ Handling("destroy", c, NoPrompt, "next")
    /\ GoesOn("removing")
    /\ answers' = Answered(c, compactionRequestIds[c])
    /\ compactionRequestIds' = [compactionRequestIds EXCEPT ![c] = NoRequest]
    /\ compactionRuns' = [compactionRuns EXCEPT ![c] = NoRequest]
    /\ CancelConversation(c)
    /\ UNCHANGED <<sessions, prompt, abortedSessions, stopping, signalled, compacting,
                   requested, shown>>

DestroyHalted(c) ==
    /\ Handling("destroy", c, NoPrompt, "removing")
    /\ GoesOn("closing") /\ Signal(c)
    /\ UNCHANGED <<sessions, prompt, abortedSessions, stopping, cardVars, compactionVars,
                   shown>>

DestroyDisposes(c) ==
    /\ Handling("destroy", c, NoPrompt, "closing") /\ agent[c] = "idle"
    /\ Handled
    /\ sessions' = sessions \ {c} /\ prompt' = Abandoned(c)
    /\ abortedSessions' = abortedSessions \ {c}
    /\ compacting' = [compacting EXCEPT ![c] = "no"]
    /\ Line(c, "session_destroyed")
    /\ UNCHANGED <<stopping, agentVars, cardVars, compactionRuns, compactionRequestIds,
                   requested, answers>>

-----------------------------------------------------------------------------
(* The prompt queue of a conversation *)

\* Mutant: tasks do not wait for one another.
PromptTakesTurn_AtOnce(c, n) ==
    /\ prompt[c][n] = "queued"
    /\ abortedSessions' = abortedSessions \ {c}
    /\ IF c \in abortedSessions
       THEN Stage(c, n, "dropped") /\ Signal(c)
       ELSE /\ Stage(c, n, IF compactionRuns[c] # NoRequest THEN "waiting" ELSE "ready")
            /\ UNCHANGED agentVars
    /\ UNCHANGED <<queueVars, sessions, stopping, cardVars, compactionVars, shown>>

\* The task of a prompt begins when those before it have ended.  A mark cancels it.
PromptTakesTurn(c, n) ==
    /\ prompt[c][n] = "queued" /\ \A m \in 1..(n - 1) : prompt[c][m] \notin Tasks
    /\ abortedSessions' = abortedSessions \ {c}
    /\ IF c \in abortedSessions
       THEN Stage(c, n, "dropped") /\ Signal(c)
       ELSE /\ Stage(c, n, IF compactionRuns[c] # NoRequest THEN "waiting" ELSE "ready")
            /\ UNCHANGED agentVars
    /\ UNCHANGED <<queueVars, sessions, stopping, cardVars, compactionVars, shown>>

\* compactIfContextNearLimit, when the context is large or a compaction was asked for.
PromptTidies(c, n) ==
    /\ prompt[c][n] = "ready" /\ compacting[c] = "no"
    /\ compacting' = [compacting EXCEPT ![c] = "auto"]
    /\ Stage(c, n, "tidying")
    /\ UNCHANGED <<queueVars, sessions, abortedSessions, stopping, agentVars, cardVars,
                   compactionRuns, compactionRequestIds, requested, answers, shown>>

\* It succeeded, failed, timed out or was cancelled: the prompt goes on.
PromptTidied(c, n) ==
    /\ prompt[c][n] = "tidying"
    /\ compacting' = [compacting EXCEPT ![c] = "no"]
    /\ Stage(c, n, "prepared")
    /\ UNCHANGED <<queueVars, sessions, abortedSessions, stopping, agentVars, cardVars,
                   compactionRuns, compactionRequestIds, requested, answers, shown>>

PromptStarts(c, n) ==
    /\ prompt[c][n] \in Starting /\ agent[c] = "idle"
    /\ Stage(c, n, "running")
    /\ agent' = [agent EXCEPT ![c] = "running"]
    /\ Line(c, "turn_started")
    /\ UNCHANGED <<queueVars, sessions, abortedSessions, stopping, signalled, cardVars,
                   compactionVars>>

\* session.prompt returns, or throws like anything before it may.
PromptReturns(c, n) ==
    /\ prompt[c][n] = "running" /\ agent[c] = "idle"
    /\ Stage(c, n, "closing")
    /\ UNCHANGED <<queueVars, sessions, abortedSessions, stopping, agentVars, cardVars,
                   compactionVars, shown>>

PromptThrows(c, n) ==
    /\ \/ prompt[c][n] \in Starting
       \/ prompt[c][n] = "running" /\ agent[c] = "idle"
    /\ Stage(c, n, "done")
    /\ abortedSessions' = abortedSessions \ {c}
    /\ IF c \in abortedSessions THEN UNCHANGED shown ELSE Line(c, "error")
    /\ UNCHANGED <<queueVars, sessions, stopping, agentVars, cardVars, compactionVars>>

\* The end of the task leaves the mark of a stop where it is.
PromptCloses(c, n) ==
    /\ prompt[c][n] = "closing"
    /\ Stage(c, n, "done")
    /\ UNCHANGED <<queueVars, sessions, abortedSessions, stopping, agentVars, cardVars,
                   compactionVars, shown>>

\* The task of a prompt whose session was disposed of still runs to its end.
LostPromptEnds(c, n) ==
    /\ prompt[c][n] = "lost"
    /\ Stage(c, n, "done")
    /\ \/ UNCHANGED <<abortedSessions, shown>>
       \/ /\ abortedSessions' = abortedSessions \ {c}
          /\ IF c \in abortedSessions THEN UNCHANGED shown ELSE Line(c, "error")
    /\ UNCHANGED <<queueVars, sessions, stopping, agentVars, cardVars, compactionVars>>

-----------------------------------------------------------------------------
(* The agent of a session, and its approval cards *)

\* The hook of a tool asks the user.  A signalled agent calls no more tools.
AgentAsks(c) ==
    /\ agent[c] = "running" /\ c \notin signalled
    /\ agent' = [agent EXCEPT ![c] = "asking"] /\ pending' = pending \cup {c}
    /\ UNCHANGED <<queueVars, sessions, prompt, abortedSessions, stopping, signalled, late,
                   compactionVars, shown>>

Respond(c) ==
    /\ c \in pending
    /\ pending' = pending \ {c} /\ agent' = [agent EXCEPT ![c] = "running"]
    /\ UNCHANGED <<queueVars, sessions, prompt, abortedSessions, stopping, signalled, late,
                   compactionVars, shown>>

\* The answer to a card that was cancelled meanwhile is an error of the conversation.
RespondLate(c) ==
    /\ c \in late
    /\ late' = late \ {c} /\ Line(c, "error")
    /\ UNCHANGED <<queueVars, sessions, prompt, abortedSessions, stopping, agentVars, pending,
                   compactionVars>>

\* A failed model call is reported, marked like a stop, and aborted.
ModelFails(c) ==
    /\ agent[c] = "running" /\ c \notin signalled
    /\ Line(c, "error")
    /\ abortedSessions' = abortedSessions \cup {c}
    /\ Signal(c)
    /\ UNCHANGED <<queueVars, sessions, prompt, stopping, cardVars, compactionVars>>

AgentSettles(c) ==
    /\ agent[c] = "running"
    /\ agent' = [agent EXCEPT ![c] = "idle"] /\ signalled' = signalled \ {c}
    /\ Line(c, "turn_settled")
    /\ stopping' = [stopping EXCEPT ![c] = IF @ = "aborting" THEN "settling" ELSE @]
    /\ UNCHANGED <<queueVars, sessions, prompt, abortedSessions, cardVars, compactionVars>>

-----------------------------------------------------------------------------
(* abortSession, handled as soon as its line arrives *)

AbortSession(c) ==
    /\ stopping[c] = "no" /\ (shown[c] \/ c \in sessions)
    /\ abortedSessions' = abortedSessions \cup {c}
    /\ CancelConversation(c)
    /\ stopping' = [stopping EXCEPT ![c] = IF c \in sessions THEN "halting" ELSE "settling"]
    /\ UNCHANGED <<queueVars, sessions, prompt, signalled, compactionVars, shown>>

\* Mutant: the end of the agent is awaited also when it is idle.
AbortHalted_Awaits(c) ==
    /\ stopping[c] = "halting"
    /\ stopping' = [stopping EXCEPT ![c] = "aborting"]
    /\ Signal(c)
    /\ UNCHANGED <<queueVars, sessions, prompt, abortedSessions, cardVars, compactionVars,
                   shown>>

\* The subagents are halted, which may take a while; then the session is aborted.
AbortHalted(c) ==
    /\ stopping[c] = "halting"
    /\ stopping' = [stopping EXCEPT ![c] = IF agent[c] = "idle" THEN "settling" ELSE "aborting"]
    /\ Signal(c)
    /\ UNCHANGED <<queueVars, sessions, prompt, abortedSessions, cardVars, compactionVars,
                   shown>>

AbortSettles(c) ==
    /\ stopping[c] = "settling"
    /\ stopping' = [stopping EXCEPT ![c] = "no"] /\ Line(c, "turn_settled")
    /\ UNCHANGED <<queueVars, sessions, prompt, abortedSessions, agentVars, cardVars,
                   compactionVars>>

-----------------------------------------------------------------------------
(* compactSessionCommand, handled as soon as its line arrives *)

\* A request that cannot be served is answered at once.
CompactSession(c) ==
    /\ requested[c] < MaxCompactions
    /\ requested' = [requested EXCEPT ![c] = @ + 1]
    /\ IF compactionRuns[c] # NoRequest \/ c \notin sessions \/ compacting[c] # "no"
       THEN /\ answers' = Answered(c, requested'[c])
            /\ UNCHANGED <<compacting, compactionRuns, compactionRequestIds, agentVars>>
       ELSE /\ compacting' = [compacting EXCEPT ![c] = "manual"]
            /\ compactionRuns' = [compactionRuns EXCEPT ![c] = requested'[c]]
            /\ compactionRequestIds' = [compactionRequestIds EXCEPT ![c] = requested'[c]]
            /\ Signal(c)
            /\ UNCHANGED answers
    /\ UNCHANGED <<queueVars, sessions, prompt, abortedSessions, stopping, cardVars, shown>>

Reported(c) ==
    /\ answers' = Answered(c, compactionRequestIds[c])
    /\ compactionRequestIds' = [compactionRequestIds EXCEPT ![c] = NoRequest]

\* Pi ends the compaction, and reports it to the request if there still is one.
CompactionEnds(c) ==
    /\ compacting[c] = "manual"
    /\ compacting' = [compacting EXCEPT ![c] = "no"]
    /\ Reported(c)
    /\ compactionRuns' = [compactionRuns EXCEPT ![c] = NoRequest]
    /\ prompt' = Awakened(c)
    /\ UNCHANGED <<queueVars, sessions, abortedSessions, stopping, agentVars, cardVars,
                   requested, shown>>

\* Mutant: the request is left to Pi's event.
CompactionFails_Unreported(c) ==
    /\ compactionRuns[c] # NoRequest
    /\ UNCHANGED <<answers, compactionRequestIds>>
    /\ compactionRuns' = [compactionRuns EXCEPT ![c] = NoRequest]
    /\ prompt' = Awakened(c)
    /\ compacting' \in {compacting, [compacting EXCEPT ![c] = "no"]}
    /\ UNCHANGED <<queueVars, sessions, abortedSessions, stopping, agentVars, cardVars,
                   requested, shown>>

\* Mutant: the promise the prompts wait for does not settle.
CompactionFails_Unsettled(c) ==
    /\ compactionRuns[c] # NoRequest
    /\ IF compactionRequestIds[c] = compactionRuns[c]
       THEN Reported(c) ELSE UNCHANGED <<answers, compactionRequestIds>>
    /\ compactionRuns' = [compactionRuns EXCEPT ![c] = NoRequest]
    /\ compacting' \in {compacting, [compacting EXCEPT ![c] = "no"]}
    /\ UNCHANGED <<queueVars, sessions, prompt, abortedSessions, stopping, agentVars,
                   cardVars, requested, shown>>

\* The run gives up first: its time is over while Pi is still at it, its session was
\* disposed of, or Pi failed without saying so.
CompactionFails(c) ==
    /\ compactionRuns[c] # NoRequest
    /\ IF compactionRequestIds[c] = compactionRuns[c]
       THEN Reported(c) ELSE UNCHANGED <<answers, compactionRequestIds>>
    /\ compactionRuns' = [compactionRuns EXCEPT ![c] = NoRequest]
    /\ prompt' = Awakened(c)
    /\ compacting' \in {compacting, [compacting EXCEPT ![c] = "no"]}
    /\ UNCHANGED <<queueVars, sessions, abortedSessions, stopping, agentVars, cardVars,
                   requested, shown>>

-----------------------------------------------------------------------------
(* The specification *)

Arrivals(c) ==
    \/ RelayMessage(c) \/ DestroySession(c) \/ AbortSession(c) \/ CompactSession(c)
    \/ \E n \in Prompts : SendMessage(c, n)

\* What the handler of the first command does next.
Handler(c) ==
    \/ RelayBegins(c) \/ RelayEnds(c)
    \/ DestroyBegins(c) \/ DestroyHalted(c) \/ DestroyDisposes(c)
    \/ \E n \in Prompts : \/ SendBegins(c, n) \/ ReloadHalted(c, n) \/ ReloadDisposed(c, n)
                         \/ CreateSucceeds(c, n) \/ ConfigureSucceeds(c, n) \/ SendFails(c, n)

PromptTask(c, n) ==
    \/ PromptTakesTurn(c, n) \/ PromptTidied(c, n) \/ PromptStarts(c, n)
    \/ PromptReturns(c, n) \/ PromptThrows(c, n) \/ PromptCloses(c, n)

Stop(c) == AbortHalted(c) \/ AbortSettles(c)

Acts(c) ==
    \/ Arrivals(c) \/ Handler(c) \/ Stop(c) \/ CompactionEnds(c) \/ CompactionFails(c)
    \/ AgentAsks(c) \/ Respond(c) \/ RespondLate(c) \/ ModelFails(c) \/ AgentSettles(c)
    \/ \E n \in Prompts : PromptTask(c, n) \/ PromptTidies(c, n) \/ LostPromptEnds(c, n)

Next == \E c \in Conversations : Acts(c)

\* The thread goes on with whatever is ready; cards are answered; compactions have a time
\* limit; and an agent that could settle over and over does: its requests and its tools are
\* bounded by the budget and the guards of the bridge.
Fairness ==
    /\ WF_vars(\E c \in Conversations : Handler(c))
    /\ \A c \in Conversations :
        /\ WF_vars(\E n \in Prompts : PromptTask(c, n))
        /\ WF_vars(Stop(c)) /\ WF_vars(CompactionFails(c))
        /\ WF_vars(Respond(c)) /\ SF_vars(AgentSettles(c))

Spec == Init /\ [][Next]_vars
FairSpec == Spec /\ Fairness

-----------------------------------------------------------------------------
(* Properties *)

TypeOK ==
    /\ commandQueue \in Seq(Commands) /\ step \in Steps
    /\ sessions \subseteq Conversations /\ abortedSessions \subseteq Conversations
    /\ prompt \in [Conversations -> [Prompts -> Stages]]
    /\ stopping \in [Conversations -> {"no", "halting", "aborting", "settling"}]
    /\ agent \in [Conversations -> {"idle", "running", "asking"}]
    /\ signalled \subseteq Conversations
    /\ pending \subseteq Conversations /\ late \subseteq Conversations
    /\ compacting \in [Conversations -> {"no", "manual", "auto"}]
    /\ compactionRuns \in [Conversations -> 0..MaxCompactions]
    /\ compactionRequestIds \in [Conversations -> 0..MaxCompactions]
    /\ requested \in [Conversations -> 0..MaxCompactions]
    /\ answers \in [Conversations -> [Requests -> Nat]]
    /\ shown \in [Conversations -> BOOLEAN]

\* A card the broker waits for has a tool that waits for it, and a tool that waits has a
\* card the user can answer: no stop or destroy takes the one without the other.
CardsHaveAWaiter == \A c \in Conversations : c \in pending <=> agent[c] = "asking"

\* Every compaction request is answered by one compaction_end line, and one only, whichever
\* of Pi's event, the time limit, the destruction of the session or a refusal comes first.
CompactionsAnsweredOnce ==
    \A c \in Conversations : \A r \in 1..requested[c] :
        answers[c][r] = IF r = compactionRequestIds[c] THEN 0 ELSE 1

\* Pi works only in a session the bridge holds, for a prompt or a relay that waits for it.
TurnsHaveASession ==
    \A c \in Conversations : agent[c] # "idle" =>
        /\ c \in sessions
        /\ \/ \E n \in Prompts : prompt[c][n] = "running"
           \/ Handling("relay", c, NoPrompt, "relaying")

\* The desktop does not show a conversation as running when nothing of it is left to run.
QuietMeansSettled ==
    \A c \in Conversations :
        \/ ~shown[c] \/ InQueue(c) \/ stopping[c] # "no"
        \/ \E n \in Prompts : prompt[c][n] \in Tasks

\* Prompts of a conversation run one at a time, in order, at most once each.
Phase(s) ==
    CASE s = "new" -> "new"
      [] s \in {"sent", "queued", "waiting", "tidying"} \cup Starting -> "accepted"
      [] s = "running" -> "running"
      [] s \in {"closing"} \cup Over -> "over"

PromptPhases == [c \in Conversations |-> [n \in Prompts |-> Phase(prompt[c][n])]]

Lifecycle == INSTANCE PromptLifecycle WITH phase <- PromptPhases

PromptsRunInTurn == Lifecycle!Spec

\* A message that was sent comes to an end, whatever stops, compactions and failures of its
\* and of other conversations do to the queue it waits in.
PromptsEnd ==
    \A c \in Conversations, n \in Prompts : prompt[c][n] = "sent" ~> prompt[c][n] \in Over

\* A stop is answered.
StopsAreAnswered == \A c \in Conversations : stopping[c] # "no" ~> stopping[c] = "no"

\* A compaction request is answered, so that the supervisor does not wait for ever.
CompactionsAreAnswered ==
    \A c \in Conversations : compactionRequestIds[c] # NoRequest
                               ~> compactionRequestIds[c] = NoRequest
=============================================================================
