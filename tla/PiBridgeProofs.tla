---------------------------- MODULE PiBridgeProofs ----------------------------
(***************************************************************************)
(* What the Pi bridge keeps in every order of commands, continuations and   *)
(* answers, for any number of conversations, messages and compactions; and   *)
(* how it runs the prompts of a conversation.                                *)
(***************************************************************************)
EXTENDS PiBridge, TLAPS

\* The conjuncts of TypeOK, by the variables that actions change together.
QueueTyped == commandQueue \in Seq(Commands) /\ step \in Steps
PromptTyped == prompt \in [Conversations -> [Prompts -> Stages]]
AgentTyped ==
    /\ agent \in [Conversations -> {"idle", "running", "asking"}]
    /\ signalled \subseteq Conversations
    /\ pending \subseteq Conversations /\ late \subseteq Conversations
CompactionTyped ==
    /\ compacting \in [Conversations -> {"no", "manual", "auto"}]
    /\ compactionRuns \in [Conversations -> 0..MaxCompactions]
    /\ compactionRequestIds \in [Conversations -> 0..MaxCompactions]
    /\ requested \in [Conversations -> 0..MaxCompactions]
    /\ answers \in [Conversations -> [Requests -> Nat]]
RestTyped ==
    /\ sessions \subseteq Conversations /\ abortedSessions \subseteq Conversations
    /\ stopping \in [Conversations -> {"no", "halting", "aborting", "settling"}]
    /\ shown \in [Conversations -> BOOLEAN]

\* A request that is to be reported to is that of the run, has been made, and the requests
\* not made have no answers.
RequestsFit ==
    \A c \in Conversations :
        /\ compactionRequestIds[c] # NoRequest =>
              /\ compactionRequestIds[c] = compactionRuns[c]
              /\ compactionRequestIds[c] <= requested[c]
        /\ \A r \in Requests : r > requested[c] => answers[c][r] = 0

\* The handler that configures a session holds it, and there is no handler without a command.
HandlerInv ==
    IF commandQueue = <<>> THEN step = "next"
    ELSE step = "configuring" => Head(commandQueue).conv \in sessions

\* A message waits in the queue once, and has not been taken up.
SentOnce ==
    \A i \in 1..Len(commandQueue) : commandQueue[i].do = "send" =>
        /\ commandQueue[i].prompt \in Prompts
        /\ prompt[commandQueue[i].conv][commandQueue[i].prompt] = "sent"
        /\ \A j \in 1..Len(commandQueue) :
              commandQueue[j].do = "send" /\ j # i =>
                  commandQueue[j].conv # commandQueue[i].conv
                  \/ commandQueue[j].prompt # commandQueue[i].prompt

\* A prompt whose task goes on has a session.
TasksHaveASession ==
    \A c \in Conversations : \A n \in Prompts : prompt[c][n] \in Tasks => c \in sessions

QueueInv == QueueTyped /\ HandlerInv
CompactionInv == CompactionTyped /\ RequestsFit /\ CompactionsAnsweredOnce
AgentInv == AgentTyped /\ CardsHaveAWaiter
SessionInv == TasksHaveASession /\ TurnsHaveASession

BridgeInv ==
    /\ QueueInv /\ PromptTyped /\ RestTyped
    /\ SentOnce /\ AgentInv /\ CompactionInv /\ SessionInv

LEMMA TypedParts ==
    TypeOK <=> QueueTyped /\ PromptTyped /\ AgentTyped /\ CompactionTyped /\ RestTyped
BY DEF TypeOK, QueueTyped, PromptTyped, AgentTyped, CompactionTyped, RestTyped

-----------------------------------------------------------------------------
(* What is kept where nothing changes *)

LEMMA CompactionsKept ==
    CompactionInv /\ UNCHANGED compactionVars => CompactionInv'
BY DEF CompactionInv, CompactionTyped, RequestsFit, CompactionsAnsweredOnce, compactionVars

LEMMA CompactingChanges ==
    ASSUME CompactionInv, NEW c \in Conversations, NEW s \in {"no", "manual", "auto"},
           compacting' = [compacting EXCEPT ![c] = s],
           UNCHANGED <<compactionRuns, compactionRequestIds, requested, answers>>
    PROVE  CompactionInv'
BY DEF CompactionInv, CompactionTyped, RequestsFit, CompactionsAnsweredOnce

LEMMA AgentsKept == AgentInv /\ UNCHANGED <<agentVars, cardVars>> => AgentInv'
BY DEF AgentInv, AgentTyped, CardsHaveAWaiter, agentVars, cardVars

LEMMA AgentsSignalled ==
    ASSUME AgentInv, NEW c \in Conversations, Signal(c), UNCHANGED cardVars
    PROVE  AgentInv'
BY DEF AgentInv, AgentTyped, CardsHaveAWaiter, Signal, cardVars

LEMMA CardsCancelled ==
    ASSUME AgentInv, NEW c \in Conversations, CancelConversation(c), UNCHANGED signalled
    PROVE  AgentInv'
BY DEF AgentInv, AgentTyped, CardsHaveAWaiter, CancelConversation
-----------------------------------------------------------------------------
(* Prompts: what each way of changing them does to any one of them *)

LEMMA PromptStaged ==
    ASSUME PromptTyped, NEW c \in Conversations, NEW n \in Prompts, NEW s \in Stages,
           Stage(c, n, s)
    PROVE  /\ PromptTyped'
           /\ \A d \in Conversations, m \in Prompts :
                 prompt'[d][m] = IF d = c /\ m = n THEN s ELSE prompt[d][m]
BY DEF PromptTyped, Stage

LEMMA PromptsAbandoned ==
    ASSUME PromptTyped, NEW c \in Conversations, prompt' = Abandoned(c)
    PROVE  /\ PromptTyped'
           /\ \A d \in Conversations, m \in Prompts :
                 prompt'[d][m] = IF d = c /\ prompt[d][m] \in Tasks THEN "lost"
                                 ELSE prompt[d][m]
BY DEF PromptTyped, Abandoned, Stages, Over

LEMMA PromptsAwakened ==
    ASSUME PromptTyped, NEW c \in Conversations, prompt' = Awakened(c)
    PROVE  /\ PromptTyped'
           /\ \A d \in Conversations, m \in Prompts :
                 prompt'[d][m] = IF d = c /\ prompt[d][m] = "waiting" THEN "ready"
                                 ELSE prompt[d][m]
BY DEF PromptTyped, Awakened, Stages, Tasks, Starting

LEMMA StageNames ==
    /\ Tasks \subseteq Stages /\ Over \subseteq Stages /\ "sent" \in Stages
    /\ {"queued", "waiting", "tidying"} \subseteq Tasks
    /\ {"ready", "prepared", "running", "closing"} \subseteq Tasks
    /\ {"lost", "dropped", "done"} \subseteq Stages \ Tasks /\ "sent" \notin Tasks
    /\ Starting \subseteq Tasks /\ "running" \notin Starting /\ "queued" \notin Starting
BY DEF Stages, Tasks, Over, Starting

-----------------------------------------------------------------------------
(* Types of the prompts and of what has no invariant of its own *)

LEMMA PromptTypeStep ==
    ASSUME PromptTyped, NEW c \in Conversations, Acts(c) PROVE PromptTyped'
<1>1. \A n \in Prompts, s \in Stages : Stage(c, n, s) => PromptTyped'
  BY PromptStaged
<1>2. UNCHANGED prompt => PromptTyped'
  BY DEF PromptTyped
<1>3. CASE Arrivals(c)
  BY <1>1, <1>2, <1>3, StageNames
     DEF Arrivals, RelayMessage, DestroySession, Other, AbortSession, CompactSession, SendMessage
<1>4. CASE Handler(c)
  BY <1>1, <1>2, <1>4, PromptsAbandoned, StageNames
     DEF Handler, RelayBegins, RelayEnds, DestroyBegins, DestroyHalted, DestroyDisposes,
         SendBegins, ReloadHalted, ReloadDisposed, CreateSucceeds, ConfigureSucceeds, SendFails
<1>5. CASE Stop(c)
  BY <1>2, <1>5 DEF Stop, AbortHalted, AbortSettles
<1>6. CASE CompactionEnds(c) \/ CompactionFails(c)
  BY <1>6, PromptsAwakened DEF CompactionEnds, CompactionFails
<1>7. CASE AgentAsks(c) \/ Respond(c) \/ RespondLate(c) \/ ModelFails(c) \/ AgentSettles(c)
  BY <1>2, <1>7 DEF AgentAsks, Respond, RespondLate, ModelFails, AgentSettles
<1>8. ASSUME NEW n \in Prompts, PromptTask(c, n) \/ PromptTidies(c, n) \/ LostPromptEnds(c, n)
      PROVE  PromptTyped'
  BY <1>1, <1>8, StageNames
     DEF PromptTask, PromptTakesTurn, PromptTidied, PromptStarts, PromptReturns, PromptThrows,
         PromptCloses, PromptTidies, LostPromptEnds
<1> QED
  BY <1>3, <1>4, <1>5, <1>6, <1>7, <1>8 DEF Acts

LEMMA RestTypeStep ==
    ASSUME RestTyped, NEW c \in Conversations, Acts(c) PROVE RestTyped'
<1>1. \A k : Line(c, k) => shown' \in [Conversations -> BOOLEAN]
  BY DEF Line, RestTyped
<1>2. CASE Arrivals(c)
  BY <1>2
     DEF RestTyped, Arrivals, RelayMessage, DestroySession, Other, AbortSession,
         CompactSession, SendMessage
<1>3. CASE RelayBegins(c) \/ RelayEnds(c) \/ DestroyBegins(c) \/ DestroyHalted(c)
           \/ DestroyDisposes(c)
  BY <1>1, <1>3
     DEF RestTyped, RelayBegins, RelayEnds, DestroyBegins, DestroyHalted, DestroyDisposes
<1>4. ASSUME NEW n \in Prompts, SendBegins(c, n) \/ ReloadHalted(c, n) \/ ReloadDisposed(c, n)
             \/ CreateSucceeds(c, n) \/ ConfigureSucceeds(c, n) \/ SendFails(c, n)
      PROVE  RestTyped'
  BY <1>1, <1>4
     DEF RestTyped, SendBegins, ReloadHalted, ReloadDisposed, CreateSucceeds,
         ConfigureSucceeds, SendFails
<1>5. CASE Stop(c) \/ CompactionEnds(c) \/ CompactionFails(c)
  BY <1>1, <1>5
     DEF RestTyped, Stop, AbortHalted, AbortSettles, CompactionEnds, CompactionFails
<1>6. CASE AgentAsks(c) \/ Respond(c) \/ RespondLate(c) \/ ModelFails(c) \/ AgentSettles(c)
  BY <1>1, <1>6 DEF RestTyped, AgentAsks, Respond, RespondLate, ModelFails, AgentSettles
<1>7. ASSUME NEW n \in Prompts, PromptTask(c, n) \/ PromptTidies(c, n) \/ LostPromptEnds(c, n)
      PROVE  RestTyped'
  BY <1>1, <1>7
     DEF RestTyped, PromptTask, PromptTakesTurn, PromptTidied, PromptStarts, PromptReturns,
         PromptThrows, PromptCloses, PromptTidies, LostPromptEnds
<1> QED
  BY <1>2, <1>3, <1>4, <1>5, <1>6, <1>7 DEF Acts, Handler

-----------------------------------------------------------------------------
(* The command queue *)

LEMMA CommandArrives ==
    ASSUME QueueInv, NEW x \in Commands, commandQueue' = Append(commandQueue, x),
           UNCHANGED <<step, sessions>>
    PROVE  QueueInv' /\ (commandQueue # <<>> => Head(commandQueue') = Head(commandQueue))
<1>1. /\ commandQueue' \in Seq(Commands) /\ commandQueue' # <<>>
      /\ commandQueue # <<>> => Head(commandQueue') = Head(commandQueue)
  BY DEF QueueInv, QueueTyped
<1> QED
  BY <1>1 DEF QueueInv, QueueTyped, HandlerInv

LEMMA CommandHandled ==
    ASSUME QueueInv, commandQueue # <<>>, Handled
    PROVE  QueueInv'
<1>1. commandQueue' \in Seq(Commands)
  BY DEF QueueInv, QueueTyped, Handled
<1> QED
  BY <1>1 DEF QueueInv, QueueTyped, HandlerInv, Handled, Steps

LEMMA CommandGoesOn ==
    ASSUME QueueInv, commandQueue # <<>>, NEW s \in Steps, GoesOn(s),
           s = "configuring" => Head(commandQueue).conv \in sessions'
    PROVE  QueueInv'
BY DEF QueueInv, QueueTyped, HandlerInv, GoesOn

LEMMA QueueKept ==
    ASSUME QueueInv, UNCHANGED <<queueVars, sessions>>
    PROVE  QueueInv'
BY DEF QueueInv, QueueTyped, HandlerInv, queueVars

LEMMA QueueStep ==
    ASSUME QueueInv, NEW c \in Conversations, Acts(c) PROVE QueueInv'
<1>1. CASE Arrivals(c)
  <2>1. \A n \in Prompts : SendMessage(c, n) => QueueInv'
    BY CommandArrives, BoundsAssumption DEF SendMessage, Commands, Prompts
  <2>2. \A do \in {"relay", "destroy"} : Other(do, c) => QueueInv'
    BY CommandArrives, BoundsAssumption DEF Other, Commands, NoPrompt
  <2>3. AbortSession(c) \/ CompactSession(c) => QueueInv'
    BY QueueKept DEF AbortSession, CompactSession
  <2> QED
    BY <1>1, <2>1, <2>2, <2>3 DEF Arrivals, RelayMessage, DestroySession
<1>2. CASE Handler(c)
  <2>1. \A s \in Steps \ {"configuring"} : commandQueue # <<>> /\ GoesOn(s) => QueueInv'
    BY CommandGoesOn
  <2>2. RelayBegins(c) \/ RelayEnds(c) \/ DestroyBegins(c) \/ DestroyHalted(c)
        \/ DestroyDisposes(c) => QueueInv'
    BY <2>1, CommandHandled
       DEF RelayBegins, RelayEnds, DestroyBegins, DestroyHalted, DestroyDisposes, Handling, Steps
  <2>3. \A n \in Prompts : SendBegins(c, n) => QueueInv'
    BY <2>1, CommandHandled, CommandGoesOn DEF SendBegins, Handling, Steps
  <2>4. \A n \in Prompts : ReloadHalted(c, n) \/ ReloadDisposed(c, n) \/ CreateSucceeds(c, n)
                           \/ ConfigureSucceeds(c, n) \/ SendFails(c, n) => QueueInv'
    BY <2>1, CommandHandled
       DEF ReloadHalted, ReloadDisposed, CreateSucceeds, ConfigureSucceeds, SendFails,
           Handling, Steps
  <2> QED
    BY <1>2, <2>2, <2>3, <2>4 DEF Handler
<1>3. CASE Stop(c) \/ CompactionEnds(c) \/ CompactionFails(c)
  BY <1>3, QueueKept DEF Stop, AbortHalted, AbortSettles, CompactionEnds, CompactionFails
<1>4. CASE AgentAsks(c) \/ Respond(c) \/ RespondLate(c) \/ ModelFails(c) \/ AgentSettles(c)
  BY <1>4, QueueKept DEF AgentAsks, Respond, RespondLate, ModelFails, AgentSettles
<1>5. ASSUME NEW n \in Prompts, PromptTask(c, n) \/ PromptTidies(c, n) \/ LostPromptEnds(c, n)
      PROVE  QueueInv'
  BY <1>5, QueueKept
     DEF PromptTask, PromptTakesTurn, PromptTidied, PromptStarts, PromptReturns, PromptThrows,
         PromptCloses, PromptTidies, LostPromptEnds
<1> QED
  BY <1>1, <1>2, <1>3, <1>4, <1>5 DEF Acts
-----------------------------------------------------------------------------
(* Messages in the queue *)

LEMMA SentKept ==
    ASSUME QueueTyped, SentOnce, UNCHANGED commandQueue,
           \A d \in Conversations, m \in Prompts :
              prompt[d][m] = "sent" => prompt'[d][m] = "sent"
    PROVE  SentOnce'
<1>1. \A i \in 1..Len(commandQueue) : commandQueue[i] \in Commands
  BY DEF QueueTyped
<1> QED
  BY <1>1 DEF SentOnce, Commands

LEMMA SentHandled ==
    ASSUME QueueTyped, SentOnce, commandQueue # <<>>, commandQueue' = Tail(commandQueue),
           NEW c \in Conversations, NEW n \in 0..MaxPrompts,
           Head(commandQueue).conv = c, Head(commandQueue).prompt = n,
           \A d \in Conversations, m \in Prompts :
              prompt[d][m] = "sent"
              /\ (Head(commandQueue).do = "send" => d # c \/ m # n)
                  => prompt'[d][m] = "sent"
    PROVE  SentOnce'
<1>1. \A i \in 1..Len(commandQueue) : commandQueue[i] \in Commands
  BY DEF QueueTyped
<1>2. /\ Len(commandQueue') = Len(commandQueue) - 1 /\ Len(commandQueue) \in Nat \ {0}
      /\ \A i \in 1..Len(commandQueue') : /\ commandQueue'[i] = commandQueue[i + 1]
                                          /\ i + 1 \in 1..Len(commandQueue) /\ i + 1 # 1
      /\ Head(commandQueue) = commandQueue[1] /\ 1 \in 1..Len(commandQueue)
  BY DEF QueueTyped
<1> SUFFICES ASSUME NEW i \in 1..Len(commandQueue'), commandQueue'[i].do = "send"
             PROVE  /\ commandQueue'[i].prompt \in Prompts
                    /\ prompt'[commandQueue'[i].conv][commandQueue'[i].prompt] = "sent"
                    /\ \A j \in 1..Len(commandQueue') :
                          commandQueue'[j].do = "send" /\ j # i =>
                              commandQueue'[j].conv # commandQueue'[i].conv
                              \/ commandQueue'[j].prompt # commandQueue'[i].prompt
  BY DEF SentOnce
<1>3. /\ commandQueue[i + 1].do = "send" /\ commandQueue[i + 1].conv \in Conversations
      /\ commandQueue'[i] = commandQueue[i + 1] /\ i + 1 \in 1..Len(commandQueue)
      /\ i + 1 # 1
  BY <1>1, <1>2 DEF Commands
<1>4. /\ commandQueue[i + 1].prompt \in Prompts
      /\ prompt[commandQueue[i + 1].conv][commandQueue[i + 1].prompt] = "sent"
      /\ \A j \in 1..Len(commandQueue) :
            commandQueue[j].do = "send" /\ j # i + 1 =>
                commandQueue[j].conv # commandQueue[i + 1].conv
                \/ commandQueue[j].prompt # commandQueue[i + 1].prompt
  BY <1>3 DEF SentOnce
<1>5. /\ commandQueue'[i].prompt \in Prompts
      /\ prompt'[commandQueue'[i].conv][commandQueue'[i].prompt] = "sent"
  BY <1>2, <1>3, <1>4
<1>6. ASSUME NEW j \in 1..Len(commandQueue'), commandQueue'[j].do = "send", j # i
      PROVE  commandQueue'[j].conv # commandQueue'[i].conv
             \/ commandQueue'[j].prompt # commandQueue'[i].prompt
  <2>1. /\ commandQueue'[j] = commandQueue[j + 1] /\ j + 1 \in 1..Len(commandQueue)
        /\ j + 1 # i + 1
    BY <1>2, <1>6
  <2> QED
    BY <1>3, <1>4, <1>6, <2>1
<1> QED
  BY <1>5, <1>6

LEMMA SentArrives ==
    ASSUME QueueTyped, PromptTyped, SentOnce, NEW x \in Commands,
           commandQueue' = Append(commandQueue, x),
           \A d \in Conversations, m \in Prompts :
              prompt[d][m] = "sent" => prompt'[d][m] = "sent",
           x.do = "send" => /\ x.prompt \in Prompts /\ prompt[x.conv][x.prompt] # "sent"
                            /\ prompt'[x.conv][x.prompt] = "sent"
    PROVE  SentOnce'
<1>1. \A i \in 1..Len(commandQueue) : commandQueue[i] \in Commands
  BY DEF QueueTyped
<1>2. /\ Len(commandQueue') = Len(commandQueue) + 1 /\ Len(commandQueue) \in Nat
      /\ \A i \in 1..Len(commandQueue') :
            \/ i \in 1..Len(commandQueue) /\ commandQueue'[i] = commandQueue[i]
            \/ i = Len(commandQueue) + 1 /\ commandQueue'[i] = x
  BY DEF QueueTyped
<1>3. ASSUME NEW i \in 1..Len(commandQueue), commandQueue[i].do = "send"
      PROVE  /\ commandQueue[i].prompt \in Prompts /\ commandQueue[i].conv \in Conversations
             /\ prompt[commandQueue[i].conv][commandQueue[i].prompt] = "sent"
             /\ prompt'[commandQueue[i].conv][commandQueue[i].prompt] = "sent"
  BY <1>1, <1>3 DEF SentOnce, Commands
<1>4. ASSUME NEW i \in 1..Len(commandQueue'), commandQueue'[i].do = "send"
      PROVE  /\ commandQueue'[i].prompt \in Prompts
             /\ prompt'[commandQueue'[i].conv][commandQueue'[i].prompt] = "sent"
  BY <1>2, <1>3, <1>4
<1>5. ASSUME NEW i \in 1..Len(commandQueue'), commandQueue'[i].do = "send",
             NEW j \in 1..Len(commandQueue'), commandQueue'[j].do = "send", j # i
      PROVE  commandQueue'[j].conv # commandQueue'[i].conv
             \/ commandQueue'[j].prompt # commandQueue'[i].prompt
  BY <1>2, <1>3, <1>5 DEF SentOnce
<1> QED
  BY <1>4, <1>5 DEF SentOnce

LEMMA HandledIsSent ==
    ASSUME QueueTyped, SentOnce, NEW c \in Conversations, NEW n \in Prompts, NEW s \in Steps,
           Handling("send", c, n, s)
    PROVE  prompt[c][n] = "sent"
<1>1. Head(commandQueue) = commandQueue[1] /\ 1 \in 1..Len(commandQueue)
  BY DEF QueueTyped, Handling
<1> QED
  BY <1>1 DEF SentOnce, Handling

LEMMA SentStep ==
    ASSUME QueueTyped, PromptTyped, SentOnce, NEW c \in Conversations, Acts(c)
    PROVE  SentOnce'
<1>1. UNCHANGED <<commandQueue, prompt>> => SentOnce'
  BY DEF SentOnce
<1>2. ASSUME UNCHANGED commandQueue, NEW n \in Prompts, prompt[c][n] # "sent",
             NEW s \in Stages, Stage(c, n, s)
      PROVE  SentOnce'
  BY <1>2, PromptStaged, SentKept
<1>3. UNCHANGED commandQueue /\ prompt' = Abandoned(c) => SentOnce'
  BY PromptsAbandoned, SentKept, StageNames
<1>4. CASE Arrivals(c)
  <2>1. ASSUME NEW n \in Prompts, SendMessage(c, n) PROVE SentOnce'
    <3> DEFINE x == [do |-> "send", conv |-> c, prompt |-> n]
    <3>1. /\ x \in Commands /\ x.prompt \in Prompts /\ x.conv = c /\ x.prompt = n
          /\ commandQueue' = Append(commandQueue, x)
      BY <2>1, BoundsAssumption DEF SendMessage, Commands, Prompts
    <3>2. /\ prompt[c][n] # "sent" /\ prompt'[c][n] = "sent"
          /\ \A d \in Conversations, m \in Prompts :
                prompt[d][m] = "sent" => prompt'[d][m] = "sent"
      BY <2>1, PromptStaged, StageNames DEF SendMessage
    <3> QED
      BY <3>1, <3>2, SentArrives
  <2>2. ASSUME NEW do \in {"relay", "destroy"}, Other(do, c) PROVE SentOnce'
    <3> DEFINE x == [do |-> do, conv |-> c, prompt |-> NoPrompt]
    <3>1. /\ x \in Commands /\ x.do # "send" /\ commandQueue' = Append(commandQueue, x)
          /\ UNCHANGED prompt
      BY <2>2, BoundsAssumption DEF Other, Commands, NoPrompt
    <3> QED
      BY <3>1, SentArrives
  <2>3. AbortSession(c) \/ CompactSession(c) => SentOnce'
    BY <1>1 DEF AbortSession, CompactSession, queueVars
  <2> QED
    BY <1>4, <2>1, <2>2, <2>3 DEF Arrivals, RelayMessage, DestroySession
<1>5. CASE RelayBegins(c) \/ RelayEnds(c) \/ DestroyBegins(c) \/ DestroyHalted(c)
           \/ DestroyDisposes(c)
  <2>1. CASE UNCHANGED <<commandQueue, prompt>>
    BY <1>1, <2>1
  <2>2. CASE Handled /\ (UNCHANGED prompt \/ prompt' = Abandoned(c))
    <3>1. commandQueue # <<>> /\ Head(commandQueue).conv = c
          /\ Head(commandQueue).prompt = NoPrompt
      BY <1>5
         DEF RelayBegins, RelayEnds, DestroyBegins, DestroyHalted, DestroyDisposes, Handling
    <3>2. \A d \in Conversations, m \in Prompts :
             prompt[d][m] = "sent" => prompt'[d][m] = "sent"
      BY <2>2, PromptsAbandoned, StageNames
    <3> QED
      BY <2>2, <3>1, <3>2, SentHandled, BoundsAssumption DEF Handled, NoPrompt
  <2> QED
    BY <1>5, <2>1, <2>2
       DEF RelayBegins, RelayEnds, DestroyBegins, DestroyHalted, DestroyDisposes, GoesOn
<1>6. ASSUME NEW n \in Prompts, SendBegins(c, n) \/ ReloadHalted(c, n) \/ ReloadDisposed(c, n)
                                \/ CreateSucceeds(c, n) \/ ConfigureSucceeds(c, n)
                                \/ SendFails(c, n)
      PROVE  SentOnce'
  <2>1. CASE UNCHANGED <<commandQueue, prompt>>
    BY <1>1, <2>1
  <2>2. CASE UNCHANGED commandQueue /\ prompt' = Abandoned(c)
    BY <1>3, <2>2
  <2>3. ASSUME Handled, NEW s \in Stages, Stage(c, n, s) PROVE SentOnce'
    <3>1. /\ commandQueue # <<>> /\ Head(commandQueue).conv = c
          /\ Head(commandQueue).do = "send"
          /\ Head(commandQueue).prompt = n /\ n \in 0..MaxPrompts
      BY <1>6, BoundsAssumption
         DEF SendBegins, ReloadHalted, ReloadDisposed, CreateSucceeds, ConfigureSucceeds,
             SendFails, Handling, Prompts
    <3>2. \A d \in Conversations, m \in Prompts :
              prompt[d][m] = "sent" /\ (d # c \/ m # n) => prompt'[d][m] = "sent"
      BY <2>3, PromptStaged
    <3> QED
      BY <2>3, <3>1, <3>2, SentHandled DEF Handled
  <2> QED
    BY <1>6, <2>1, <2>2, <2>3, StageNames
       DEF SendBegins, ReloadHalted, ReloadDisposed, CreateSucceeds, ConfigureSucceeds,
           SendFails, GoesOn
<1>7. CASE Stop(c)
  BY <1>1, <1>7 DEF Stop, AbortHalted, AbortSettles, queueVars
<1>8. CASE CompactionEnds(c) \/ CompactionFails(c)
  BY <1>8, PromptsAwakened, SentKept DEF CompactionEnds, CompactionFails, queueVars
<1>9. CASE AgentAsks(c) \/ Respond(c) \/ RespondLate(c) \/ ModelFails(c) \/ AgentSettles(c)
  BY <1>1, <1>9 DEF AgentAsks, Respond, RespondLate, ModelFails, AgentSettles, queueVars
<1>10. ASSUME NEW n \in Prompts, PromptTask(c, n) \/ PromptTidies(c, n) \/ LostPromptEnds(c, n)
       PROVE  SentOnce'
  BY <1>2, <1>10, StageNames
     DEF PromptTask, PromptTakesTurn, PromptTidied, PromptStarts, PromptReturns, PromptThrows,
         PromptCloses, PromptTidies, LostPromptEnds, queueVars, Starting
<1> QED
  BY <1>4, <1>5, <1>6, <1>7, <1>8, <1>9, <1>10 DEF Acts, Handler

-----------------------------------------------------------------------------
(* Approval cards and the agents that wait for them *)

LEMMA AgentStep ==
    ASSUME AgentInv, NEW c \in Conversations, Acts(c) PROVE AgentInv'
<1>1. CASE Arrivals(c)
  <2>1. AbortSession(c) => AgentInv'
    BY CardsCancelled DEF AbortSession
  <2>2. CompactSession(c) => AgentInv'
    BY AgentsKept, AgentsSignalled DEF CompactSession
  <2> QED
    BY <1>1, <2>1, <2>2, AgentsKept
       DEF Arrivals, RelayMessage, DestroySession, Other, SendMessage
<1>2. CASE Handler(c)
  <2>1. RelayBegins(c) => AgentInv'
    BY AgentsKept DEF RelayBegins, AgentInv, AgentTyped, CardsHaveAWaiter, cardVars, agentVars
  <2>2. RelayEnds(c) \/ DestroyDisposes(c) => AgentInv'
    BY AgentsKept DEF RelayEnds, DestroyDisposes
  <2>3. DestroyBegins(c) => AgentInv'
    BY CardsCancelled DEF DestroyBegins
  <2>4. DestroyHalted(c) => AgentInv'
    BY AgentsSignalled DEF DestroyHalted
  <2>5. \A n \in Prompts : ReloadHalted(c, n) => AgentInv'
    BY AgentsSignalled DEF ReloadHalted
  <2>6. \A n \in Prompts : SendBegins(c, n) \/ ReloadDisposed(c, n) \/ CreateSucceeds(c, n)
                           \/ ConfigureSucceeds(c, n) \/ SendFails(c, n) => AgentInv'
    BY AgentsKept
       DEF SendBegins, ReloadDisposed, CreateSucceeds, ConfigureSucceeds, SendFails
  <2> QED
    BY <1>2, <2>1, <2>2, <2>3, <2>4, <2>5, <2>6 DEF Handler
<1>3. CASE Stop(c)
  BY <1>3, AgentsSignalled, AgentsKept DEF Stop, AbortHalted, AbortSettles
<1>4. CASE CompactionEnds(c) \/ CompactionFails(c)
  BY <1>4, AgentsKept DEF CompactionEnds, CompactionFails
<1>5. CASE AgentAsks(c) \/ Respond(c) \/ RespondLate(c) \/ AgentSettles(c)
  BY <1>5
     DEF AgentAsks, Respond, RespondLate, AgentSettles, AgentInv, AgentTyped, CardsHaveAWaiter,
         agentVars, cardVars
<1>6. CASE ModelFails(c)
  BY <1>6, AgentsSignalled DEF ModelFails
<1>7. ASSUME NEW n \in Prompts, PromptTask(c, n) \/ PromptTidies(c, n) \/ LostPromptEnds(c, n)
      PROVE  AgentInv'
  <2>1. CASE PromptTakesTurn(c, n)
    BY <2>1, AgentsKept, AgentsSignalled DEF PromptTakesTurn
  <2>2. CASE PromptStarts(c, n)
    BY <2>2 DEF PromptStarts, AgentInv, AgentTyped, CardsHaveAWaiter, cardVars
  <2> QED
    BY <1>7, <2>1, <2>2, AgentsKept
       DEF PromptTask, PromptTidied, PromptReturns, PromptThrows, PromptCloses, PromptTidies,
           LostPromptEnds
<1> QED
  BY <1>1, <1>2, <1>3, <1>4, <1>5, <1>6, <1>7 DEF Acts

-----------------------------------------------------------------------------
(* Manual compactions and their answers *)

\* The request of c is reported to, or there was none; its run is over.
LEMMA RequestReported ==
    ASSUME CompactionInv, NEW c \in Conversations, Reported(c),
           compactionRuns' = [compactionRuns EXCEPT ![c] = NoRequest],
           compacting' \in {compacting, [compacting EXCEPT ![c] = "no"]}, UNCHANGED requested
    PROVE  CompactionInv'
<1>1. CASE compactionRequestIds[c] = NoRequest
  BY <1>1 DEF CompactionInv, CompactionTyped, RequestsFit, CompactionsAnsweredOnce, Reported,
              Answered, NoRequest
<1>2. CASE compactionRequestIds[c] # NoRequest
  <2>1. compactionRequestIds[c] \in Requests /\ compactionRequestIds[c] <= requested[c]
    BY <1>2, BoundsAssumption
       DEF CompactionInv, CompactionTyped, RequestsFit, Requests, NoRequest
  <2>2. answers' = [answers EXCEPT ![c][compactionRequestIds[c]] = @ + 1]
    BY <1>2 DEF Reported, Answered
  <2>3. CompactionTyped'
    BY <2>1, <2>2, BoundsAssumption DEF CompactionInv, CompactionTyped, Reported, NoRequest
  <2>4. \A d \in Conversations, r \in Requests :
            answers'[d][r] = IF d = c /\ r = compactionRequestIds[c] THEN answers[d][r] + 1
                             ELSE answers[d][r]
    BY <2>1, <2>2 DEF CompactionInv, CompactionTyped
  <2>5. ASSUME NEW d \in Conversations
        PROVE  /\ compactionRequestIds'[d] # NoRequest =>
                    /\ compactionRequestIds'[d] = compactionRuns'[d]
                    /\ compactionRequestIds'[d] <= requested'[d]
               /\ \A r \in Requests : r > requested'[d] => answers'[d][r] = 0
    <3>1. /\ compactionRequestIds'[d] = IF d = c THEN NoRequest ELSE compactionRequestIds[d]
          /\ compactionRuns'[d] = IF d = c THEN NoRequest ELSE compactionRuns[d]
          /\ requested'[d] = requested[d]
      BY DEF CompactionInv, CompactionTyped, Reported
    <3>2. ASSUME NEW r \in Requests, r > requested[d] PROVE answers'[d][r] = 0
      <4>1. ~(d = c /\ r = compactionRequestIds[c])
        BY <2>1, <3>2 DEF CompactionInv, CompactionTyped, Requests
      <4> QED
        BY <2>4, <3>2, <4>1 DEF CompactionInv, RequestsFit
    <3> QED
      BY <3>1, <3>2 DEF CompactionInv, RequestsFit
  <2>6. ASSUME NEW d \in Conversations, NEW r \in 1..requested'[d]
        PROVE  answers'[d][r] = IF r = compactionRequestIds'[d] THEN 0 ELSE 1
    <3>1. r \in Requests /\ r \in 1..requested[d] /\ r # NoRequest
      BY BoundsAssumption DEF CompactionInv, CompactionTyped, Requests, NoRequest
    <3>2. answers[d][r] = IF r = compactionRequestIds[d] THEN 0 ELSE 1
      BY <3>1 DEF CompactionInv, CompactionsAnsweredOnce
    <3>3. compactionRequestIds'[d] = IF d = c THEN NoRequest ELSE compactionRequestIds[d]
      BY DEF CompactionInv, CompactionTyped, Reported
    <3> QED
      BY <2>4, <3>1, <3>2, <3>3
  <2> QED
    BY <2>3, <2>5, <2>6 DEF CompactionInv, RequestsFit, CompactionsAnsweredOnce
<1> QED
  BY <1>1, <1>2

LEMMA CompactionRequested ==
    ASSUME CompactionInv, NEW c \in Conversations, CompactSession(c) PROVE CompactionInv'
<1>1. PICK q \in Requests : q = requested[c] + 1
  BY BoundsAssumption DEF CompactionInv, CompactionTyped, CompactSession, Requests
<1>2. /\ requested' = [requested EXCEPT ![c] = q] /\ requested'[c] = q
      /\ \A d \in Conversations : requested'[d] = IF d = c THEN q ELSE requested[d]
      /\ q \in 0..MaxCompactions /\ q # NoRequest
  BY <1>1, BoundsAssumption DEF CompactionInv, CompactionTyped, CompactSession, Requests, NoRequest
<1>3. \A d \in Conversations : \A r \in Requests :
          /\ r \in 1..requested'[d] => r \in 1..requested[d] \/ (d = c /\ r = q)
          /\ r > requested'[d] => r > requested[d] /\ ~(d = c /\ r = q)
  BY <1>1, <1>2, BoundsAssumption DEF CompactionInv, CompactionTyped, Requests
<1>4. answers[c][q] = 0 /\ compactionRequestIds[c] # q
  <2>1. q > requested[c] /\ ~(q <= requested[c])
    BY <1>1, BoundsAssumption DEF CompactionInv, CompactionTyped, Requests
  <2> QED
    BY <1>2, <2>1 DEF CompactionInv, RequestsFit
<1>5. \A d \in Conversations : \A r \in Nat : r <= requested[d] => r <= requested'[d]
  BY <1>1, <1>2, BoundsAssumption DEF CompactionInv, CompactionTyped
<1>6. CASE compactionRuns[c] # NoRequest \/ c \notin sessions \/ compacting[c] # "no"
  \* The request is refused, which answers it.
  <2>1. /\ answers' = [answers EXCEPT ![c][q] = @ + 1]
        /\ UNCHANGED <<compacting, compactionRuns, compactionRequestIds>>
    BY <1>2, <1>6 DEF CompactSession, Answered
  <2>2. CompactionTyped'
    BY <1>2, <2>1, BoundsAssumption DEF CompactionInv, CompactionTyped
  <2>3. \A d \in Conversations, r \in Requests :
            answers'[d][r] = IF d = c /\ r = q THEN 1 ELSE answers[d][r]
    BY <1>4, <2>1 DEF CompactionInv, CompactionTyped
  <2>4. RequestsFit'
    <3> SUFFICES ASSUME NEW d \in Conversations
                 PROVE  /\ compactionRequestIds[d] # NoRequest =>
                              /\ compactionRequestIds[d] = compactionRuns[d]
                              /\ compactionRequestIds[d] <= requested'[d]
                        /\ \A r \in Requests : r > requested'[d] => answers'[d][r] = 0
      BY <2>1 DEF RequestsFit
    <3>1. compactionRequestIds[d] \in Nat
      BY BoundsAssumption DEF CompactionInv, CompactionTyped
    <3> QED
      BY <1>3, <1>5, <2>3, <3>1 DEF CompactionInv, RequestsFit
  <2>5. CompactionsAnsweredOnce'
    <3> SUFFICES ASSUME NEW d \in Conversations, NEW r \in 1..requested'[d]
                 PROVE  answers'[d][r] = IF r = compactionRequestIds[d] THEN 0 ELSE 1
      BY <2>1 DEF CompactionsAnsweredOnce
    <3>1. r \in Requests
      BY <2>2, BoundsAssumption DEF CompactionTyped, Requests
    <3> QED
      BY <1>3, <1>4, <2>3, <3>1 DEF CompactionInv, CompactionsAnsweredOnce
  <2> QED
    BY <2>2, <2>4, <2>5 DEF CompactionInv
<1>7. CASE ~(compactionRuns[c] # NoRequest \/ c \notin sessions \/ compacting[c] # "no")
  <2>1. /\ compacting' = [compacting EXCEPT ![c] = "manual"]
        /\ compactionRuns' = [compactionRuns EXCEPT ![c] = q]
        /\ compactionRequestIds' = [compactionRequestIds EXCEPT ![c] = q]
        /\ UNCHANGED answers
    BY <1>2, <1>7 DEF CompactSession
  <2>2. CompactionTyped'
    BY <1>2, <2>1 DEF CompactionInv, CompactionTyped
  <2>3. \A d \in Conversations :
            /\ compactionRuns'[d] = IF d = c THEN q ELSE compactionRuns[d]
            /\ compactionRequestIds'[d] = IF d = c THEN q ELSE compactionRequestIds[d]
    BY <2>1 DEF CompactionInv, CompactionTyped
  <2>4. RequestsFit'
    <3> SUFFICES ASSUME NEW d \in Conversations
                 PROVE  /\ compactionRequestIds'[d] # NoRequest =>
                              /\ compactionRequestIds'[d] = compactionRuns'[d]
                              /\ compactionRequestIds'[d] <= requested'[d]
                        /\ \A r \in Requests : r > requested'[d] => answers[d][r] = 0
      BY <2>1 DEF RequestsFit
    <3>1. compactionRequestIds[d] \in Nat /\ q <= q
      BY <1>2, BoundsAssumption DEF CompactionInv, CompactionTyped
    <3> QED
      BY <1>2, <1>3, <1>5, <2>3, <3>1 DEF CompactionInv, RequestsFit
  <2>5. compactionRequestIds[c] = NoRequest
    BY <1>7 DEF CompactionInv, RequestsFit
  <2>6. CompactionsAnsweredOnce'
    <3> SUFFICES ASSUME NEW d \in Conversations, NEW r \in 1..requested'[d]
                 PROVE  answers[d][r] = IF r = compactionRequestIds'[d] THEN 0 ELSE 1
      BY <2>1 DEF CompactionsAnsweredOnce
    <3>1. r \in Requests /\ r # NoRequest
      BY <2>2, BoundsAssumption DEF CompactionTyped, Requests, NoRequest
    <3>2. CASE d = c /\ r = q
      BY <1>4, <2>3, <3>2
    <3>3. CASE ~(d = c /\ r = q)
      <4>1. answers[d][r] = IF r = compactionRequestIds[d] THEN 0 ELSE 1
        BY <1>3, <3>1, <3>3 DEF CompactionInv, CompactionsAnsweredOnce
      <4> QED
        BY <2>3, <2>5, <3>1, <3>3, <4>1
    <3> QED
      BY <3>2, <3>3
  <2> QED
    BY <2>2, <2>4, <2>6 DEF CompactionInv
<1> QED
  BY <1>6, <1>7

LEMMA CompactionStep ==
    ASSUME CompactionInv, NEW c \in Conversations, Acts(c) PROVE CompactionInv'
<1>1. CASE Arrivals(c)
  BY <1>1, CompactionRequested, CompactionsKept
     DEF Arrivals, RelayMessage, DestroySession, Other, AbortSession, SendMessage
<1>2. CASE DestroyBegins(c)
  <2>1. /\ Reported(c) /\ compactionRuns' = [compactionRuns EXCEPT ![c] = NoRequest]
        /\ UNCHANGED <<compacting, requested>>
    BY <1>2 DEF DestroyBegins, Reported
  <2> QED
    BY <2>1, RequestReported
<1>3. CASE DestroyDisposes(c)
  BY <1>3, CompactingChanges DEF DestroyDisposes
<1>4. CASE RelayBegins(c) \/ RelayEnds(c) \/ DestroyHalted(c)
  BY <1>4, CompactionsKept DEF RelayBegins, RelayEnds, DestroyHalted
<1>5. ASSUME NEW n \in Prompts, ReloadDisposed(c, n) PROVE CompactionInv'
  BY <1>5, CompactingChanges DEF ReloadDisposed
<1>6. ASSUME NEW n \in Prompts, SendBegins(c, n) \/ ReloadHalted(c, n) \/ CreateSucceeds(c, n)
                                \/ ConfigureSucceeds(c, n) \/ SendFails(c, n)
      PROVE  CompactionInv'
  BY <1>6, CompactionsKept
     DEF SendBegins, ReloadHalted, CreateSucceeds, ConfigureSucceeds, SendFails
<1>7. CASE Stop(c)
  BY <1>7, CompactionsKept DEF Stop, AbortHalted, AbortSettles
<1>8. CASE CompactionEnds(c)
  BY <1>8, RequestReported DEF CompactionEnds
<1>9. CASE CompactionFails(c)
  \* The request is that of the run, or it has been reported to.
  <2>1. Reported(c)
    <3>1. CASE compactionRequestIds[c] = compactionRuns[c]
      BY <1>9, <3>1 DEF CompactionFails
    <3>2. CASE compactionRequestIds[c] # compactionRuns[c]
      <4>1. compactionRequestIds[c] = NoRequest
        BY <3>2 DEF CompactionInv, RequestsFit
      <4>2. UNCHANGED <<answers, compactionRequestIds>>
        BY <1>9, <3>2 DEF CompactionFails
      <4> QED
        BY <4>1, <4>2 DEF Reported, Answered, CompactionInv, CompactionTyped
    <3> QED
      BY <3>1, <3>2
  <2> QED
    BY <1>9, <2>1, RequestReported DEF CompactionFails
<1>10. CASE AgentAsks(c) \/ Respond(c) \/ RespondLate(c) \/ ModelFails(c) \/ AgentSettles(c)
  BY <1>10, CompactionsKept DEF AgentAsks, Respond, RespondLate, ModelFails, AgentSettles
<1>11. ASSUME NEW n \in Prompts, PromptTidied(c, n) \/ PromptTidies(c, n)
       PROVE  CompactionInv'
  BY <1>11, CompactingChanges DEF PromptTidied, PromptTidies
<1>12. ASSUME NEW n \in Prompts,
              PromptTakesTurn(c, n) \/ PromptStarts(c, n) \/ PromptReturns(c, n)
              \/ PromptThrows(c, n) \/ PromptCloses(c, n) \/ LostPromptEnds(c, n)
       PROVE  CompactionInv'
  BY <1>12, CompactionsKept
     DEF PromptTakesTurn, PromptStarts, PromptReturns, PromptThrows, PromptCloses,
         LostPromptEnds
<1> QED
  BY <1>1, <1>2, <1>3, <1>4, <1>5, <1>6, <1>7, <1>8, <1>9, <1>10, <1>11, <1>12
     DEF Acts, Handler, PromptTask

-----------------------------------------------------------------------------
(* Sessions: the tasks and the agents that need them *)

LEMMA TasksStep ==
    ASSUME PromptTyped, QueueInv, TasksHaveASession, NEW c \in Conversations, Acts(c)
    PROVE  TasksHaveASession'
<1>1. UNCHANGED <<sessions, prompt>> => TasksHaveASession'
  BY DEF TasksHaveASession
<1>2. ASSUME NEW n \in Prompts, NEW s \in Stages, Stage(c, n, s), sessions \subseteq sessions',
             s \in Tasks => c \in sessions'
      PROVE  TasksHaveASession'
  BY <1>2, PromptStaged DEF TasksHaveASession
<1>3. sessions' = sessions \ {c} /\ prompt' = Abandoned(c) => TasksHaveASession'
  BY PromptsAbandoned, StageNames DEF TasksHaveASession
<1>4. CASE Arrivals(c)
  BY <1>1, <1>2, <1>4, StageNames
     DEF Arrivals, RelayMessage, DestroySession, Other, AbortSession, CompactSession, SendMessage
<1>5. CASE RelayBegins(c) \/ RelayEnds(c) \/ DestroyBegins(c) \/ DestroyHalted(c)
           \/ DestroyDisposes(c)
  BY <1>1, <1>3, <1>5
     DEF RelayBegins, RelayEnds, DestroyBegins, DestroyHalted, DestroyDisposes
<1>6. ASSUME NEW n \in Prompts, SendBegins(c, n) \/ ReloadHalted(c, n) \/ ReloadDisposed(c, n)
                                \/ CreateSucceeds(c, n) \/ SendFails(c, n)
      PROVE  TasksHaveASession'
  BY <1>1, <1>2, <1>3, <1>6, StageNames
     DEF SendBegins, ReloadHalted, ReloadDisposed, CreateSucceeds, SendFails
<1>7. ASSUME NEW n \in Prompts, ConfigureSucceeds(c, n) PROVE TasksHaveASession'
  <2>1. c \in sessions
    BY <1>7 DEF ConfigureSucceeds, Handling, QueueInv, HandlerInv
  <2> QED
    BY <1>2, <1>7, <2>1, StageNames DEF ConfigureSucceeds
<1>8. CASE Stop(c)
  BY <1>1, <1>8 DEF Stop, AbortHalted, AbortSettles
<1>9. CASE CompactionEnds(c) \/ CompactionFails(c)
  <2>1. prompt' = Awakened(c) /\ UNCHANGED sessions
    BY <1>9 DEF CompactionEnds, CompactionFails
  <2> QED
    BY <2>1, PromptsAwakened, StageNames DEF TasksHaveASession
<1>10. CASE AgentAsks(c) \/ Respond(c) \/ RespondLate(c) \/ ModelFails(c) \/ AgentSettles(c)
  BY <1>1, <1>10 DEF AgentAsks, Respond, RespondLate, ModelFails, AgentSettles
<1>11. ASSUME NEW n \in Prompts, PromptTask(c, n) \/ PromptTidies(c, n) \/ LostPromptEnds(c, n)
       PROVE  TasksHaveASession'
  <2>1. prompt[c][n] \in Tasks => c \in sessions
    BY DEF TasksHaveASession
  <2> QED
    BY <1>2, <1>11, <2>1, StageNames
       DEF PromptTask, PromptTakesTurn, PromptTidied, PromptStarts, PromptReturns, PromptThrows,
           PromptCloses, PromptTidies, LostPromptEnds
<1> QED
  BY <1>4, <1>5, <1>6, <1>7, <1>8, <1>9, <1>10, <1>11 DEF Acts, Handler
\* An agent that works after a step has worked before it, in a session that is kept, and what
\* waits for it is kept: a running prompt, or the handler of a relay.
WorkKept ==
    \A d \in Conversations : agent'[d] # "idle" =>
        agent[d] # "idle" /\ (d \in sessions => d \in sessions')
RunningKept ==
    \A d \in Conversations : \A n \in Prompts :
        agent'[d] # "idle" /\ prompt[d][n] = "running" => prompt'[d][n] = "running"
RelaysKept ==
    \A d \in Conversations :
        agent'[d] # "idle" /\ Handling("relay", d, NoPrompt, "relaying")
            => Handling("relay", d, NoPrompt, "relaying")'

LEMMA TurnsKept ==
    TurnsHaveASession /\ WorkKept /\ RunningKept /\ RelaysKept => TurnsHaveASession'
BY DEF TurnsHaveASession, WorkKept, RunningKept, RelaysKept

LEMMA RelaysKeptInQueue ==
    /\ UNCHANGED queueVars => RelaysKept
    /\ step # "relaying" => RelaysKept
    /\ QueueInv => \A x \in Commands :
          commandQueue' = Append(commandQueue, x) /\ UNCHANGED <<step, sessions>> => RelaysKept
<1>1. UNCHANGED queueVars => RelaysKept
  BY DEF queueVars, RelaysKept, Handling
<1>2. step # "relaying" => RelaysKept
  BY DEF RelaysKept, Handling
<1>3. ASSUME QueueInv, NEW x \in Commands, commandQueue' = Append(commandQueue, x),
             UNCHANGED <<step, sessions>>
      PROVE  RelaysKept
  <2>1. commandQueue # <<>> => commandQueue' # <<>> /\ Head(commandQueue') = Head(commandQueue)
    BY <1>3, CommandArrives DEF QueueInv, QueueTyped
  <2> QED
    BY <1>3, <2>1 DEF RelaysKept, Handling
<1> QED
  BY <1>1, <1>2, <1>3

LEMMA RunningIsKept ==
    /\ UNCHANGED prompt => RunningKept
    /\ PromptTyped => \A c \in Conversations, n \in Prompts, s \in Stages :
          Stage(c, n, s) /\ (prompt[c][n] # "running" \/ agent'[c] = "idle") => RunningKept
    /\ PromptTyped => \A c \in Conversations :
          prompt' = Abandoned(c) /\ agent'[c] = "idle" => RunningKept
    /\ PromptTyped => \A c \in Conversations : prompt' = Awakened(c) => RunningKept
<1>1. UNCHANGED prompt => RunningKept
  BY DEF RunningKept
<1>2. ASSUME PromptTyped, NEW c \in Conversations, NEW n \in Prompts, NEW s \in Stages,
             Stage(c, n, s), prompt[c][n] # "running" \/ agent'[c] = "idle"
      PROVE  RunningKept
  BY <1>2, PromptStaged DEF RunningKept
<1>3. ASSUME PromptTyped, NEW c \in Conversations, prompt' = Abandoned(c), agent'[c] = "idle"
      PROVE  RunningKept
  BY <1>3, PromptsAbandoned DEF RunningKept
<1>4. ASSUME PromptTyped, NEW c \in Conversations, prompt' = Awakened(c)
      PROVE  RunningKept
  BY <1>4, PromptsAwakened DEF RunningKept
<1> QED
  BY <1>1, <1>2, <1>3, <1>4
LEMMA WorkIsKept ==
    /\ UNCHANGED agent /\ sessions \subseteq sessions' => WorkKept
    /\ \A c \in Conversations :
          UNCHANGED agent /\ agent[c] = "idle" /\ sessions' = sessions \ {c} => WorkKept
    /\ AgentInv => \A c \in Conversations :
          CancelConversation(c) /\ UNCHANGED sessions => WorkKept
<1>1. UNCHANGED agent /\ sessions \subseteq sessions' => WorkKept
  BY DEF WorkKept
<1>2. ASSUME NEW c \in Conversations, UNCHANGED agent, agent[c] = "idle",
             sessions' = sessions \ {c}
      PROVE  WorkKept
  BY <1>2 DEF WorkKept
<1>3. ASSUME AgentInv, NEW c \in Conversations, CancelConversation(c), UNCHANGED sessions
      PROVE  WorkKept
  BY <1>3 DEF WorkKept, AgentInv, AgentTyped, CardsHaveAWaiter, CancelConversation
<1> QED
  BY <1>1, <1>2, <1>3

LEMMA TurnsStep ==
    ASSUME PromptTyped, QueueInv, SentOnce, AgentInv, SessionInv,
           NEW c \in Conversations, Acts(c)
    PROVE  TurnsHaveASession'
<1> USE DEF SessionInv
<1>1. CASE Arrivals(c)
  <2>1. ASSUME NEW n \in Prompts, SendMessage(c, n) PROVE TurnsHaveASession'
    <3>1. RelaysKept
      BY <2>1, RelaysKeptInQueue, BoundsAssumption DEF SendMessage, Commands, Prompts
    <3>2. RunningKept
      BY <2>1, RunningIsKept, StageNames DEF SendMessage
    <3> QED
      BY <2>1, <3>1, <3>2, WorkIsKept, TurnsKept DEF SendMessage, agentVars
  <2>2. ASSUME NEW do \in {"relay", "destroy"}, Other(do, c) PROVE TurnsHaveASession'
    <3>1. RelaysKept
      BY <2>2, RelaysKeptInQueue, BoundsAssumption DEF Other, Commands, NoPrompt
    <3> QED
      BY <2>2, <3>1, RunningIsKept, WorkIsKept, TurnsKept DEF Other, agentVars
  <2>3. CASE AbortSession(c)
    BY <2>3, RelaysKeptInQueue, RunningIsKept, WorkIsKept, TurnsKept DEF AbortSession
  <2>4. CASE CompactSession(c)
    BY <2>4, RelaysKeptInQueue, RunningIsKept, WorkIsKept, TurnsKept
       DEF CompactSession, Signal, agentVars
  <2> QED
    BY <1>1, <2>1, <2>2, <2>3, <2>4 DEF Arrivals, RelayMessage, DestroySession
<1>2. CASE RelayBegins(c)
  <2>1. CASE UNCHANGED agent
    BY <1>2, <2>1, RelaysKeptInQueue, RunningIsKept, WorkIsKept, TurnsKept
       DEF RelayBegins, Handling
  <2>2. CASE ~UNCHANGED agent
    <3>1. /\ c \in sessions /\ step' = "relaying" /\ UNCHANGED <<commandQueue, sessions, prompt>>
          /\ Handling("relay", c, NoPrompt, "next")
          /\ agent' = [agent EXCEPT ![c] = "running"]
      BY <1>2, <2>2 DEF RelayBegins, GoesOn
    <3>2. Handling("relay", c, NoPrompt, "relaying")'
      BY <3>1 DEF Handling
    <3>3. ASSUME NEW d \in Conversations, d # c
          PROVE  agent'[d] = agent[d] /\ ~Handling("relay", d, NoPrompt, "relaying")
      BY <3>1, <3>3 DEF AgentInv, AgentTyped, Handling
    <3> QED
      BY <3>1, <3>2, <3>3 DEF TurnsHaveASession
  <2> QED
    BY <2>1, <2>2
<1>3. CASE RelayEnds(c)
  <2>1. RelaysKept
    BY <1>3 DEF RelayEnds, RelaysKept, Handling, agentVars
  <2> QED
    BY <1>3, <2>1, RunningIsKept, WorkIsKept, TurnsKept DEF RelayEnds, agentVars
<1>4. CASE DestroyBegins(c)
  BY <1>4, RelaysKeptInQueue, RunningIsKept, WorkIsKept, TurnsKept DEF DestroyBegins, Handling
<1>5. CASE DestroyHalted(c)
  BY <1>5, RelaysKeptInQueue, RunningIsKept, WorkIsKept, TurnsKept
     DEF DestroyHalted, Handling, Signal
<1>6. CASE DestroyDisposes(c)
  BY <1>6, RelaysKeptInQueue, RunningIsKept, WorkIsKept, TurnsKept
     DEF DestroyDisposes, Handling, agentVars
<1>7. ASSUME NEW n \in Prompts, SendBegins(c, n) \/ CreateSucceeds(c, n)
                                \/ ConfigureSucceeds(c, n) \/ SendFails(c, n)
      PROVE  TurnsHaveASession'
  <2>1. RelaysKept /\ prompt[c][n] = "sent"
    <3>1. PICK s \in Steps \ {"relaying"} : Handling("send", c, n, s)
      BY <1>7 DEF SendBegins, CreateSucceeds, ConfigureSucceeds, SendFails, Steps
    <3>2. prompt[c][n] = "sent"
      BY <3>1, HandledIsSent DEF QueueInv
    <3> QED
      BY <3>1, <3>2, RelaysKeptInQueue DEF Handling
  <2>2. RunningKept
    BY <1>7, <2>1, RunningIsKept, StageNames
       DEF SendBegins, CreateSucceeds, ConfigureSucceeds, SendFails
  <2> QED
    BY <1>7, <2>1, <2>2, WorkIsKept, TurnsKept
       DEF SendBegins, CreateSucceeds, ConfigureSucceeds, SendFails, agentVars
<1>8. ASSUME NEW n \in Prompts, ReloadHalted(c, n) PROVE TurnsHaveASession'
  BY <1>8, RelaysKeptInQueue, RunningIsKept, WorkIsKept, TurnsKept
     DEF ReloadHalted, Handling, Signal
<1>9. ASSUME NEW n \in Prompts, ReloadDisposed(c, n) PROVE TurnsHaveASession'
  BY <1>9, RelaysKeptInQueue, RunningIsKept, WorkIsKept, TurnsKept
     DEF ReloadDisposed, Handling, agentVars
<1>10. CASE Stop(c)
  BY <1>10, RelaysKeptInQueue, RunningIsKept, WorkIsKept, TurnsKept
     DEF Stop, AbortHalted, AbortSettles, Signal, agentVars
<1>11. CASE CompactionEnds(c) \/ CompactionFails(c)
  BY <1>11, RelaysKeptInQueue, RunningIsKept, WorkIsKept, TurnsKept
     DEF CompactionEnds, CompactionFails, agentVars
<1>12. CASE AgentAsks(c) \/ Respond(c) \/ RespondLate(c) \/ ModelFails(c) \/ AgentSettles(c)
  <2>1. WorkKept
    BY <1>12
       DEF AgentAsks, Respond, RespondLate, ModelFails, AgentSettles, Signal, WorkKept, AgentInv,
           AgentTyped, CardsHaveAWaiter, agentVars
  <2> QED
    BY <1>12, <2>1, RelaysKeptInQueue, RunningIsKept, TurnsKept
       DEF AgentAsks, Respond, RespondLate, ModelFails, AgentSettles
<1>13. ASSUME NEW n \in Prompts, PromptStarts(c, n) PROVE TurnsHaveASession'
  <2>1. /\ c \in sessions /\ sessions' = sessions /\ UNCHANGED queueVars
        /\ agent' = [agent EXCEPT ![c] = "running"] /\ Stage(c, n, "running")
    BY <1>13, StageNames DEF PromptStarts, TasksHaveASession
  <2>2. prompt'[c][n] = "running"
    BY <2>1, PromptStaged, StageNames
  <2>3. ASSUME NEW d \in Conversations, d # c
        PROVE  /\ agent'[d] = agent[d] /\ \A m \in Prompts : prompt'[d][m] = prompt[d][m]
               /\ Handling("relay", d, NoPrompt, "relaying")'
                    = Handling("relay", d, NoPrompt, "relaying")
    BY <2>1, <2>3, PromptStaged, StageNames DEF AgentInv, AgentTyped, queueVars, Handling
  <2> QED
    BY <2>1, <2>2, <2>3 DEF TurnsHaveASession
<1>14. ASSUME NEW n \in Prompts,
              PromptTakesTurn(c, n) \/ PromptTidied(c, n) \/ PromptReturns(c, n)
              \/ PromptThrows(c, n) \/ PromptCloses(c, n) \/ PromptTidies(c, n)
              \/ LostPromptEnds(c, n)
       PROVE  TurnsHaveASession'
  <2>1. UNCHANGED <<agent, sessions>> /\ UNCHANGED queueVars
    BY <1>14
       DEF PromptTakesTurn, PromptTidied, PromptReturns, PromptThrows, PromptCloses,
           PromptTidies, LostPromptEnds, Signal, agentVars
  <2>2. RunningKept
    BY <1>14, <2>1, RunningIsKept, StageNames
       DEF PromptTakesTurn, PromptTidied, PromptReturns, PromptThrows, PromptCloses,
           PromptTidies, LostPromptEnds, Starting
  <2> QED
    BY <2>1, <2>2, RelaysKeptInQueue, WorkIsKept, TurnsKept
<1> QED
  BY <1>1, <1>2, <1>3, <1>4, <1>5, <1>6, <1>7, <1>8, <1>9, <1>10, <1>11, <1>12, <1>13, <1>14
     DEF Acts, Handler, PromptTask

-----------------------------------------------------------------------------
(* The invariant of the specification *)

LEMMA BridgeInvInit == Init => BridgeInv
<1> SUFFICES ASSUME Init PROVE BridgeInv
  OBVIOUS
<1>1. QueueInv /\ SentOnce
  BY DEF Init, QueueInv, QueueTyped, HandlerInv, SentOnce, Steps
<1>2. PromptTyped /\ RestTyped
  BY DEF Init, PromptTyped, RestTyped, Stages
<1>3. AgentInv
  BY DEF Init, AgentInv, AgentTyped, CardsHaveAWaiter
<1>4. CompactionInv
  BY BoundsAssumption
     DEF Init, CompactionInv, CompactionTyped, RequestsFit, CompactionsAnsweredOnce, NoRequest
<1>5. SessionInv
  BY DEF Init, SessionInv, TasksHaveASession, TurnsHaveASession, Tasks, Starting
<1> QED
  BY <1>1, <1>2, <1>3, <1>4, <1>5 DEF BridgeInv

LEMMA BridgeInvNext == BridgeInv /\ [Next]_vars => BridgeInv'
<1> SUFFICES ASSUME BridgeInv, [Next]_vars PROVE BridgeInv'
  OBVIOUS
<1>1. ASSUME NEW c \in Conversations, Acts(c) PROVE BridgeInv'
  <2>1. QueueInv' /\ SentOnce'
    BY <1>1, QueueStep, SentStep DEF BridgeInv, QueueInv
  <2>2. PromptTyped' /\ RestTyped'
    BY <1>1, PromptTypeStep, RestTypeStep DEF BridgeInv
  <2>3. AgentInv'
    BY <1>1, AgentStep DEF BridgeInv
  <2>4. CompactionInv'
    BY <1>1, CompactionStep DEF BridgeInv
  <2>5. SessionInv'
    BY <1>1, TasksStep, TurnsStep DEF BridgeInv, SessionInv
  <2> QED
    BY <2>1, <2>2, <2>3, <2>4, <2>5 DEF BridgeInv
<1>2. CASE UNCHANGED vars
  <2>1. QueueInv' /\ SentOnce'
    BY <1>2, QueueKept DEF vars, queueVars, BridgeInv, SentOnce
  <2>2. PromptTyped' /\ RestTyped'
    BY <1>2 DEF vars, BridgeInv, PromptTyped, RestTyped
  <2>3. AgentInv' /\ CompactionInv'
    BY <1>2, AgentsKept, CompactionsKept
       DEF vars, agentVars, cardVars, compactionVars, BridgeInv
  <2>4. SessionInv'
    BY <1>2
       DEF vars, queueVars, agentVars, BridgeInv, SessionInv, TasksHaveASession,
           TurnsHaveASession, Handling
  <2> QED
    BY <2>1, <2>2, <2>3, <2>4 DEF BridgeInv
<1> QED
  BY <1>1, <1>2 DEF Next

\* All of the parts together are inductive: the next theorems read them off.
THEOREM BridgeInvariant == Spec => []BridgeInv
BY BridgeInvInit, BridgeInvNext, PTL DEF Spec

\* The bridge's variables keep their types, for any number of conversations, prompts and
\* compactions.
THEOREM BridgeTypeCorrect == Spec => []TypeOK
<1>1. BridgeInv => TypeOK
  BY TypedParts DEF BridgeInv, QueueInv, AgentInv, CompactionInv
<1> QED
  BY <1>1, BridgeInvariant, PTL

\* A pending approval card has a tool that waits for its answer and a waiting tool has a card,
\* whatever stops and destructions do in between (approval broker, cancelConversation).
THEOREM CardsAlwaysHaveAWaiter == Spec => []CardsHaveAWaiter
<1>1. BridgeInv => CardsHaveAWaiter
  BY DEF BridgeInv, AgentInv
<1> QED
  BY <1>1, BridgeInvariant, PTL

\* No compaction request is answered twice, and one without an answer is one that the bridge
\* still knows (compactSessionCommand, destroySession).
THEOREM CompactionsAlwaysAnsweredOnce == Spec => []CompactionsAnsweredOnce
<1>1. BridgeInv => CompactionsAnsweredOnce
  BY DEF BridgeInv, CompactionInv
<1> QED
  BY <1>1, BridgeInvariant, PTL

\* No agent works in a session that was disposed of, or with nobody who waits for its end
\* (sendMessage, destroySession).
THEOREM TurnsAlwaysHaveASession == Spec => []TurnsHaveASession
<1>1. BridgeInv => TurnsHaveASession
  BY DEF BridgeInv, SessionInv
<1> QED
  BY <1>1, BridgeInvariant, PTL

-----------------------------------------------------------------------------
(* How the bridge runs the prompts of a conversation.  First, it implements  *)
(* PromptLifecycle: they start one at a time, in the order they were sent,   *)
(* each at most once.  Second, the desktop does not show a conversation as   *)
(* running when nothing of it is left to run.                               *)


Untaken == {"new", "sent"}

\* Prompts are sent in order, and a later one is not taken up before an earlier one.
SentInOrder ==
    \A c \in Conversations : \A n \in Prompts : \A m \in 1..(n - 1) :
        /\ prompt[c][n] # "new" => prompt[c][m] # "new"
        /\ prompt[c][n] \notin Untaken => prompt[c][m] \notin Untaken

\* The queue holds every message that waits, in the order of its conversation.
SendAt(i, c, n) ==
    /\ i \in 1..Len(commandQueue)
    /\ commandQueue[i].do = "send" /\ commandQueue[i].conv = c /\ commandQueue[i].prompt = n

QueueHoldsSent ==
    \A c \in Conversations : \A n \in Prompts :
        prompt[c][n] = "sent" => \E i \in 1..Len(commandQueue) : SendAt(i, c, n)

QueueInOrder ==
    \A c \in Conversations : \A m, n \in Prompts :
        \A i, j \in 1..Len(commandQueue) : SendAt(i, c, m) /\ SendAt(j, c, n) /\ i < j => m < n

\* The prompt whose task has begun is the only one: those before it are over.
Begun == Tasks \ {"queued"}

TasksInTurn ==
    \A c \in Conversations : \A n \in Prompts : prompt[c][n] \in Begun =>
        \A m \in 1..(n - 1) : prompt[c][m] \in Over

OrderInv == SentInOrder /\ QueueHoldsSent /\ QueueInOrder /\ TasksInTurn

LEMMA StageKinds ==
    /\ Stages = Untaken \cup Tasks \cup Over /\ Tasks = Begun \cup {"queued"}
    /\ Untaken \cap Tasks = {} /\ Untaken \cap Over = {} /\ Tasks \cap Over = {}
    /\ "queued" \notin Begun /\ "queued" \in Tasks
    /\ {"waiting", "tidying", "ready", "prepared", "running", "closing"} \subseteq Begun
    /\ {"lost", "dropped", "done"} \subseteq Over /\ Starting \subseteq Begun
    /\ Untaken = {"new", "sent"}
BY DEF Stages, Tasks, Over, Starting, Begun, Untaken

-----------------------------------------------------------------------------
(* The phase of one prompt *)

LEMMA PhaseOfStage ==
    /\ Phase("new") = "new" /\ Phase("sent") = "accepted" /\ Phase("queued") = "accepted"
    /\ Phase("waiting") = "accepted" /\ Phase("tidying") = "accepted"
    /\ \A s \in Starting : Phase(s) = "accepted"
    /\ Phase("running") = "running" /\ Phase("closing") = "over"
    /\ \A s \in Over : Phase(s) = "over"
BY DEF Phase, Starting, Over

LEMMA PhasesOfPrompts ==
    \A c \in Conversations, n \in Prompts : PromptPhases[c][n] = Phase(prompt[c][n])
BY DEF PromptPhases
-----------------------------------------------------------------------------
(* The order of the prompts *)

\* A prompt that has been taken up goes on or ends.
LEMMA OrderKept ==
    ASSUME SentInOrder, TasksInTurn,
           \A c \in Conversations, n \in Prompts :
              \/ prompt'[c][n] = prompt[c][n]
              \/ /\ prompt[c][n] \notin Untaken /\ prompt'[c][n] \notin Untaken
                 /\ prompt'[c][n] \in Begun => prompt[c][n] \in Begun
                 /\ prompt[c][n] \in Over => prompt'[c][n] \in Over
    PROVE  SentInOrder' /\ TasksInTurn'
<1>1. \A n \in Prompts : 1..(n - 1) \subseteq Prompts
  BY BoundsAssumption DEF Prompts
<1>2. SentInOrder'
  BY <1>1, StageKinds DEF SentInOrder
<1>3. TasksInTurn'
  BY <1>1, StageKinds DEF TasksInTurn
<1> QED
  BY <1>2, <1>3

LEMMA OrderWhenBegun ==
    ASSUME PromptTyped, SentInOrder, TasksInTurn, NEW c \in Conversations, NEW n \in Prompts,
           prompt[c][n] = "queued", \A m \in 1..(n - 1) : prompt[c][m] \notin Tasks,
           NEW s \in Begun, Stage(c, n, s)
    PROVE  SentInOrder' /\ TasksInTurn'
<1>1. \A m \in 1..(n - 1) : m \in Prompts /\ m # n /\ prompt[c][m] \in Over
  <2> TAKE m \in 1..(n - 1)
  <2>1. m \in Prompts /\ m # n
    BY BoundsAssumption DEF Prompts
  <2>2. prompt[c][m] \in Stages /\ prompt[c][m] \notin Untaken
    BY <2>1, StageKinds DEF PromptTyped, SentInOrder
  <2> QED
    BY <2>1, <2>2, StageKinds
<1>2. \A d \in Conversations, m \in Prompts :
          prompt'[d][m] = IF d = c /\ m = n THEN s ELSE prompt[d][m]
  <2>1. s \in Stages
    BY DEF Begun, Stages
  <2> QED
    BY <2>1, PromptStaged
<1>3. SentInOrder'
  <2> SUFFICES ASSUME NEW d \in Conversations, NEW k \in Prompts, NEW m \in 1..(k - 1)
               PROVE  /\ prompt'[d][k] # "new" => prompt'[d][m] # "new"
                      /\ prompt'[d][k] \notin Untaken => prompt'[d][m] \notin Untaken
    BY DEF SentInOrder
  <2>1. m \in Prompts
    BY BoundsAssumption DEF Prompts
  <2>2. /\ prompt[d][k] # "new" => prompt[d][m] # "new"
        /\ prompt[d][k] \notin Untaken => prompt[d][m] \notin Untaken
    BY DEF SentInOrder
  <2> QED
    BY <1>2, <2>1, <2>2, StageKinds
<1>4. TasksInTurn'
  <2> SUFFICES ASSUME NEW d \in Conversations, NEW k \in Prompts, prompt'[d][k] \in Begun,
                      NEW m \in 1..(k - 1)
               PROVE  prompt'[d][m] \in Over
    BY DEF TasksInTurn
  <2>1. m \in Prompts /\ m # k
    BY BoundsAssumption DEF Prompts
  <2>2. CASE d = c /\ k = n
    BY <1>1, <1>2, <2>1, <2>2
  <2>3. CASE ~(d = c /\ k = n)
    BY <1>2, <2>1, <2>3, StageKinds DEF TasksInTurn
  <2> QED
    BY <2>2, <2>3
<1> QED
  BY <1>3, <1>4

LEMMA OrderWhenSent ==
    ASSUME PromptTyped, SentInOrder, TasksInTurn, NEW c \in Conversations, NEW n \in Prompts,
           prompt[c][n] = "new", \A m \in 1..(n - 1) : prompt[c][m] # "new", Stage(c, n, "sent")
    PROVE  SentInOrder' /\ TasksInTurn'
<1>1. \A d \in Conversations, m \in Prompts :
          prompt'[d][m] = IF d = c /\ m = n THEN "sent" ELSE prompt[d][m]
  BY PromptStaged, StageNames
<1>2. \A k \in Prompts : \A m \in 1..(k - 1) : m \in Prompts
  BY BoundsAssumption DEF Prompts
<1>3. SentInOrder'
  BY <1>1, <1>2, StageKinds DEF SentInOrder
<1>4. TasksInTurn'
  BY <1>1, <1>2, StageKinds DEF TasksInTurn
<1> QED
  BY <1>3, <1>4

\* The message at the head of the queue is the first of its conversation that waits.
LEMMA HeadIsFirst ==
    ASSUME QueueTyped, SentOnce, OrderInv, NEW c \in Conversations, NEW n \in Prompts,
           NEW s \in Steps, Handling("send", c, n, s), NEW m \in 1..(n - 1)
    PROVE  prompt[c][m] \notin Untaken
<1>1. /\ m \in Prompts /\ ~(n < m) /\ m # n /\ 1 \in 1..Len(commandQueue)
      /\ SendAt(1, c, n)
  BY BoundsAssumption DEF Prompts, QueueTyped, Handling, SendAt
<1>2. prompt[c][n] = "sent"
  BY HandledIsSent
<1>3. prompt[c][m] # "new"
  BY <1>2 DEF OrderInv, SentInOrder
<1>4. ASSUME prompt[c][m] = "sent" PROVE FALSE
  <2>1. PICK i \in 1..Len(commandQueue) : SendAt(i, c, m)
    BY <1>1, <1>4 DEF OrderInv, QueueHoldsSent
  <2>2. 1 < i
    BY <1>1, <2>1 DEF SendAt, QueueTyped
  <2> QED
    BY <1>1, <2>1, <2>2 DEF OrderInv, QueueInOrder
<1> QED
  BY <1>3, <1>4, StageKinds

LEMMA OrderWhenTaken ==
    ASSUME PromptTyped, QueueTyped, SentOnce, OrderInv, NEW c \in Conversations,
           NEW n \in Prompts, NEW k \in Steps, Handling("send", c, n, k),
           NEW s \in {"queued", "dropped", "done"}, Stage(c, n, s)
    PROVE  SentInOrder' /\ TasksInTurn'
<1>1. prompt[c][n] = "sent"
  BY HandledIsSent
<1>2. \A d \in Conversations, m \in Prompts :
          prompt'[d][m] = IF d = c /\ m = n THEN s ELSE prompt[d][m]
  BY PromptStaged, StageNames
<1>3. \A j \in Prompts : \A m \in 1..(j - 1) : m \in Prompts /\ m # j
  BY BoundsAssumption DEF Prompts
<1>4. SentInOrder'
  <2> SUFFICES ASSUME NEW d \in Conversations, NEW j \in Prompts, NEW m \in 1..(j - 1)
               PROVE  /\ prompt'[d][j] # "new" => prompt'[d][m] # "new"
                      /\ prompt'[d][j] \notin Untaken => prompt'[d][m] \notin Untaken
    BY DEF SentInOrder
  <2>1. CASE d = c /\ j = n
    <3>1. prompt[c][m] \notin Untaken
      BY <2>1, HeadIsFirst
    <3> QED
      BY <1>2, <1>3, <2>1, <3>1, StageKinds
  <2>2. CASE ~(d = c /\ j = n)
    <3>1. /\ prompt[d][j] # "new" => prompt[d][m] # "new"
          /\ prompt[d][j] \notin Untaken => prompt[d][m] \notin Untaken
      BY DEF OrderInv, SentInOrder
    <3> QED
      BY <1>2, <1>3, <2>2, <3>1, StageKinds
  <2> QED
    BY <2>1, <2>2
<1>5. TasksInTurn'
  BY <1>1, <1>2, <1>3, StageKinds DEF OrderInv, TasksInTurn
<1> QED
  BY <1>4, <1>5
-----------------------------------------------------------------------------
(* The order of the queue *)

SendsInv == QueueHoldsSent /\ QueueInOrder

LEMMA SendsKept ==
    ASSUME SendsInv, UNCHANGED commandQueue,
           \A d \in Conversations, m \in Prompts : prompt'[d][m] = "sent" => prompt[d][m] = "sent"
    PROVE  SendsInv'
BY DEF SendsInv, QueueHoldsSent, QueueInOrder, SendAt

LEMMA SendsHandled ==
    ASSUME QueueTyped, SendsInv, commandQueue # <<>>, commandQueue' = Tail(commandQueue),
           \A d \in Conversations, m \in Prompts :
              prompt'[d][m] = "sent" => prompt[d][m] = "sent" /\ ~SendAt(1, d, m)
    PROVE  SendsInv'
<1>1. /\ Len(commandQueue') = Len(commandQueue) - 1 /\ Len(commandQueue) \in Nat \ {0}
      /\ \A i \in 1..Len(commandQueue') : commandQueue'[i] = commandQueue[i + 1]
  BY DEF QueueTyped
<1>2. \A i \in 1..Len(commandQueue'), d \in Conversations, m \in Prompts :
          i + 1 \in 1..Len(commandQueue) /\ (SendAt(i, d, m)' <=> SendAt(i + 1, d, m))
  BY <1>1 DEF SendAt
<1>3. QueueHoldsSent'
  <2> SUFFICES ASSUME NEW d \in Conversations, NEW m \in Prompts, prompt'[d][m] = "sent"
               PROVE  \E i \in 1..Len(commandQueue') : SendAt(i, d, m)'
    BY DEF QueueHoldsSent
  <2>1. PICK j \in 1..Len(commandQueue) : SendAt(j, d, m) /\ j # 1
    BY DEF SendsInv, QueueHoldsSent
  <2>2. j - 1 \in 1..Len(commandQueue') /\ (j - 1) + 1 = j
    BY <1>1, <2>1
  <2> QED
    BY <1>2, <2>1, <2>2
<1>4. QueueInOrder'
  <2> SUFFICES ASSUME NEW d \in Conversations, NEW m \in Prompts, NEW n \in Prompts,
                      NEW i \in 1..Len(commandQueue'), NEW j \in 1..Len(commandQueue'),
                      SendAt(i, d, m)', SendAt(j, d, n)', i < j
               PROVE  m < n
    BY DEF QueueInOrder
  <2>1. i + 1 < j + 1
    BY <1>1
  <2> QED
    BY <1>2, <2>1 DEF SendsInv, QueueInOrder
<1> QED
  BY <1>3, <1>4 DEF SendsInv

LEMMA SendsArrive ==
    ASSUME QueueTyped, SentOnce, PromptTyped, SendsInv, NEW x \in Commands,
           commandQueue' = Append(commandQueue, x),
           \A d \in Conversations, m \in Prompts : prompt'[d][m] = "sent" =>
              prompt[d][m] = "sent" \/ (x.do = "send" /\ x.conv = d /\ x.prompt = m),
           x.do = "send" => \A m \in Prompts : prompt[x.conv][m] = "sent" => m < x.prompt
    PROVE  SendsInv'
<1> PICK k \in Nat : k = Len(commandQueue) + 1
  BY DEF QueueTyped
<1>1. /\ Len(commandQueue') = k /\ Len(commandQueue) \in Nat
      /\ \A i \in 1..Len(commandQueue) : commandQueue'[i] = commandQueue[i]
      /\ commandQueue'[k] = x
  BY DEF QueueTyped
<1>2. \A i \in 1..Len(commandQueue), d \in Conversations, m \in Prompts :
          i \in 1..Len(commandQueue') /\ (SendAt(i, d, m)' <=> SendAt(i, d, m))
  BY <1>1 DEF SendAt
<1>3. \A d \in Conversations, m \in Prompts :
          SendAt(k, d, m)' <=> x.do = "send" /\ x.conv = d /\ x.prompt = m
  BY <1>1 DEF SendAt
<1>4. QueueHoldsSent'
  <2> SUFFICES ASSUME NEW d \in Conversations, NEW m \in Prompts, prompt'[d][m] = "sent"
               PROVE  \E i \in 1..Len(commandQueue') : SendAt(i, d, m)'
    BY DEF QueueHoldsSent
  <2>1. CASE prompt[d][m] = "sent"
    BY <1>2, <2>1 DEF SendsInv, QueueHoldsSent
  <2>2. CASE x.do = "send" /\ x.conv = d /\ x.prompt = m
    <3>1. SendAt(k, d, m)' /\ k \in 1..Len(commandQueue')
      BY <1>1, <1>3, <2>2
    <3> QED
      BY <3>1
  <2> QED
    BY <2>1, <2>2
<1>5. QueueInOrder'
  <2> SUFFICES ASSUME NEW d \in Conversations, NEW m \in Prompts, NEW n \in Prompts,
                      NEW i \in 1..Len(commandQueue'), NEW j \in 1..Len(commandQueue'),
                      SendAt(i, d, m)', SendAt(j, d, n)', i < j
               PROVE  m < n
    BY DEF QueueInOrder
  <2>1. i \in 1..Len(commandQueue) /\ SendAt(i, d, m)
    BY <1>1, <1>2
  <2>2. CASE j \in 1..Len(commandQueue)
    BY <1>2, <2>1, <2>2 DEF SendsInv, QueueInOrder
  <2>3. CASE j = k
    <3>1. x.do = "send" /\ x.conv = d /\ x.prompt = n
      BY <1>3, <2>3
    <3>2. prompt[d][m] = "sent"
      BY <2>1 DEF SentOnce, SendAt
    <3> QED
      BY <3>1, <3>2
  <2> QED
    BY <1>1, <2>2, <2>3
<1> QED
  BY <1>4, <1>5 DEF SendsInv
-----------------------------------------------------------------------------
(* What a step may do to the queue and the prompts of a conversation *)

Unqueued(c) ==
    /\ UNCHANGED commandQueue
    /\ UNCHANGED prompt \/ prompt' = Abandoned(c) \/ prompt' = Awakened(c)

Queued(c) == UNCHANGED prompt /\ \E do \in {"relay", "destroy"} : Other(do, c)

Dequeued(c) ==
    /\ \E s \in Steps, do \in {"relay", "destroy"} : Handling(do, c, NoPrompt, s)
    /\ Handled /\ (UNCHANGED prompt \/ prompt' = Abandoned(c))

TakenUp(c, n) ==
    /\ \E s \in Steps : Handling("send", c, n, s)
    /\ Handled /\ \E s \in {"queued", "dropped", "done"} : Stage(c, n, s)

Begins(c, n) ==
    /\ prompt[c][n] = "queued" /\ \A m \in 1..(n - 1) : prompt[c][m] \notin Tasks
    /\ \E s \in {"waiting", "ready"} : Stage(c, n, s)
    /\ UNCHANGED commandQueue

Moves(from, to, c, n) == prompt[c][n] = from /\ Stage(c, n, to) /\ UNCHANGED commandQueue

Prepares(c, n) == Moves("ready", "tidying", c, n) \/ Moves("tidying", "prepared", c, n)

Ends(c, n) ==
    \/ \E from \in Starting \cup {"running", "closing", "lost"} : Moves(from, "done", c, n)
    \/ Moves("running", "closing", c, n) \/ Moves("queued", "dropped", c, n)

LEMMA WhatChanges ==
    ASSUME NEW c \in Conversations, Acts(c)
    PROVE  \/ Unqueued(c) \/ Queued(c) \/ Dequeued(c)
           \/ \E n \in Prompts : \/ SendMessage(c, n) \/ TakenUp(c, n) \/ Begins(c, n)
                                 \/ Prepares(c, n) \/ PromptStarts(c, n) \/ Ends(c, n)
<1>1. CASE Arrivals(c)
  BY <1>1
     DEF Arrivals, RelayMessage, DestroySession, Other, AbortSession, CompactSession, Unqueued,
         Queued, queueVars
<1>2. CASE RelayBegins(c) \/ RelayEnds(c) \/ DestroyBegins(c) \/ DestroyHalted(c)
           \/ DestroyDisposes(c)
  BY <1>2
     DEF RelayBegins, RelayEnds, DestroyBegins, DestroyHalted, DestroyDisposes, Unqueued,
         Dequeued, GoesOn, Steps
<1>3. ASSUME NEW n \in Prompts, SendBegins(c, n) \/ ReloadHalted(c, n) \/ ReloadDisposed(c, n)
                                \/ CreateSucceeds(c, n) \/ ConfigureSucceeds(c, n)
                                \/ SendFails(c, n)
      PROVE  Unqueued(c) \/ TakenUp(c, n)
  BY <1>3
     DEF SendBegins, ReloadHalted, ReloadDisposed, CreateSucceeds, ConfigureSucceeds, SendFails,
         Unqueued, TakenUp, GoesOn, Steps
<1>4. CASE Stop(c) \/ CompactionEnds(c) \/ CompactionFails(c)
  BY <1>4
     DEF Stop, AbortHalted, AbortSettles, CompactionEnds, CompactionFails, Unqueued, queueVars
<1>5. CASE AgentAsks(c) \/ Respond(c) \/ RespondLate(c) \/ ModelFails(c) \/ AgentSettles(c)
  BY <1>5 DEF AgentAsks, Respond, RespondLate, ModelFails, AgentSettles, Unqueued, queueVars
<1>6. ASSUME NEW n \in Prompts, PromptTask(c, n) \/ PromptTidies(c, n) \/ LostPromptEnds(c, n)
      PROVE  Begins(c, n) \/ Prepares(c, n) \/ PromptStarts(c, n) \/ Ends(c, n)
  BY <1>6
     DEF PromptTask, PromptTakesTurn, PromptTidied, PromptReturns, PromptThrows, PromptCloses,
         PromptTidies, LostPromptEnds, Begins, Prepares, Ends, Moves, queueVars
<1> QED
  BY <1>1, <1>2, <1>3, <1>4, <1>5, <1>6 DEF Acts, Handler

LEMMA OrderStep ==
    ASSUME QueueTyped, PromptTyped, SentOnce, OrderInv, NEW c \in Conversations, Acts(c)
    PROVE  OrderInv'
<1> USE DEF OrderInv
<1>0. SendsInv
  BY DEF SendsInv
<1>1. CASE Unqueued(c)
  <2>1. \A d \in Conversations, m \in Prompts :
            \/ prompt'[d][m] = prompt[d][m]
            \/ prompt[d][m] \in Tasks /\ prompt'[d][m] = "lost"
            \/ prompt[d][m] = "waiting" /\ prompt'[d][m] = "ready"
    BY <1>1, PromptsAbandoned, PromptsAwakened DEF Unqueued
  <2>2. SentInOrder' /\ TasksInTurn'
    BY <2>1, OrderKept, StageKinds
  <2>3. SendsInv'
    BY <1>0, <1>1, <2>1, SendsKept DEF Unqueued
  <2> QED
    BY <2>2, <2>3 DEF SendsInv
<1>2. CASE Queued(c)
  <2>1. SentInOrder' /\ TasksInTurn'
    BY <1>2, OrderKept DEF Queued
  <2>2. SendsInv'
    <3>1. PICK do \in {"relay", "destroy"} : Other(do, c)
      BY <1>2 DEF Queued
    <3> DEFINE x == [do |-> do, conv |-> c, prompt |-> NoPrompt]
    <3>2. x \in Commands /\ x.do # "send" /\ commandQueue' = Append(commandQueue, x)
      BY <3>1, BoundsAssumption DEF Other, Commands, NoPrompt
    <3> QED
      BY <1>0, <1>2, <3>2, SendsArrive DEF Queued
  <2> QED
    BY <2>1, <2>2 DEF SendsInv
<1>3. CASE Dequeued(c)
  <2>1. \A d \in Conversations, m \in Prompts :
            \/ prompt'[d][m] = prompt[d][m]
            \/ prompt[d][m] \in Tasks /\ prompt'[d][m] = "lost"
    BY <1>3, PromptsAbandoned DEF Dequeued
  <2>2. SentInOrder' /\ TasksInTurn'
    BY <2>1, OrderKept, StageKinds
  <2>3. \A d \in Conversations, m \in Prompts : ~SendAt(1, d, m)
    BY <1>3 DEF Dequeued, Handling, SendAt, QueueTyped
  <2>4. SendsInv'
    BY <1>0, <1>3, <2>1, <2>3, SendsHandled DEF Dequeued, Handling, Handled
  <2> QED
    BY <2>2, <2>4 DEF SendsInv
<1>4. ASSUME NEW n \in Prompts, SendMessage(c, n) PROVE OrderInv'
  <2>1. /\ prompt[c][n] = "new" /\ \A m \in 1..(n - 1) : prompt[c][m] # "new"
        /\ Stage(c, n, "sent")
    BY <1>4 DEF SendMessage
  <2>2. SentInOrder' /\ TasksInTurn'
    BY <2>1, OrderWhenSent
  <2>3. \A m \in Prompts : prompt[c][m] = "sent" => m < n
    <3> SUFFICES ASSUME NEW m \in Prompts, prompt[c][m] = "sent", ~(m < n) PROVE FALSE
      OBVIOUS
    <3>1. m # n
      BY <2>1
    <3>2. n \in 1..(m - 1)
      BY <3>1, BoundsAssumption DEF Prompts
    <3> QED
      BY <2>1, <3>2 DEF SentInOrder
  <2> DEFINE x == [do |-> "send", conv |-> c, prompt |-> n]
  <2>4. /\ x \in Commands /\ x.do = "send" /\ x.conv = c /\ x.prompt = n
        /\ commandQueue' = Append(commandQueue, x)
    BY <1>4, BoundsAssumption DEF SendMessage, Commands, Prompts
  <2>5. SendsInv'
    <3>1. \A d \in Conversations, m \in Prompts :
              prompt'[d][m] = "sent" => prompt[d][m] = "sent" \/ (c = d /\ n = m)
      BY <2>1, PromptStaged, StageNames
    <3> HIDE DEF x
    <3> QED
      BY <1>0, <2>3, <2>4, <3>1, SendsArrive
  <2> QED
    BY <2>2, <2>5 DEF SendsInv
<1>5. ASSUME NEW n \in Prompts, TakenUp(c, n) PROVE OrderInv'
  <2>1. PICK s \in {"queued", "dropped", "done"} : Stage(c, n, s)
    BY <1>5 DEF TakenUp
  <2>2. SentInOrder' /\ TasksInTurn'
    BY <1>5, <2>1, OrderWhenTaken DEF TakenUp
  <2>3. \A d \in Conversations, m \in Prompts :
            prompt'[d][m] = "sent" => prompt[d][m] = "sent" /\ ~SendAt(1, d, m)
    <3>1. \A d \in Conversations, m \in Prompts :
              prompt'[d][m] = IF d = c /\ m = n THEN s ELSE prompt[d][m]
      BY <2>1, PromptStaged, StageNames
    <3>2. \A d \in Conversations, m \in Prompts : SendAt(1, d, m) => d = c /\ m = n
      BY <1>5 DEF TakenUp, Handling, SendAt, QueueTyped
    <3> QED
      BY <3>1, <3>2
  <2>4. SendsInv'
    BY <1>0, <1>5, <2>3, SendsHandled DEF TakenUp, Handling, Handled
  <2> QED
    BY <2>2, <2>4 DEF SendsInv
<1>6. ASSUME NEW n \in Prompts, Begins(c, n) PROVE OrderInv'
  <2>1. PICK s \in {"waiting", "ready"} : Stage(c, n, s)
    BY <1>6 DEF Begins
  <2>2. SentInOrder' /\ TasksInTurn'
    BY <1>6, <2>1, OrderWhenBegun, StageKinds DEF Begins
  <2>3. SendsInv'
    BY <1>0, <1>6, <2>1, PromptStaged, SendsKept, StageNames DEF Begins
  <2> QED
    BY <2>2, <2>3 DEF SendsInv
<1>7. ASSUME NEW n \in Prompts, Prepares(c, n) \/ PromptStarts(c, n) \/ Ends(c, n)
      PROVE  OrderInv'
  <2>1. PICK s \in {"tidying", "prepared", "running", "done", "closing", "dropped"} :
            /\ Stage(c, n, s) /\ UNCHANGED commandQueue
            /\ prompt[c][n] \notin Untaken /\ (s \in Begun => prompt[c][n] \in Begun)
            /\ (prompt[c][n] \in Over => s \in Over)
    BY <1>7, StageKinds DEF Prepares, PromptStarts, Ends, Moves, queueVars
  <2>2. s \in Stages /\ s \notin Untaken
    BY <2>1, StageKinds
  <2>3. \A d \in Conversations, m \in Prompts :
            prompt'[d][m] = IF d = c /\ m = n THEN s ELSE prompt[d][m]
    BY <2>1, <2>2, PromptStaged
  <2>4. SentInOrder' /\ TasksInTurn'
    BY <2>1, <2>2, <2>3, OrderKept
  <2>5. SendsInv'
    BY <1>0, <2>1, <2>3, SendsKept
  <2> QED
    BY <2>4, <2>5 DEF SendsInv
<1> QED
  BY <1>1, <1>2, <1>3, <1>4, <1>5, <1>6, <1>7, WhatChanges
-----------------------------------------------------------------------------
(* Each step is a step of PromptLifecycle, or none *)

LEMMA PhasesKept ==
    ASSUME \A d \in Conversations, m \in Prompts : Phase(prompt'[d][m]) = Phase(prompt[d][m])
    PROVE  UNCHANGED PromptPhases
BY DEF PromptPhases

LEMMA PhaseMoves ==
    ASSUME NEW c \in Conversations, NEW n \in Prompts, NEW p,
           \A d \in Conversations, m \in Prompts :
              Phase(prompt'[d][m]) = IF d = c /\ m = n THEN p ELSE Phase(prompt[d][m])
    PROVE  Lifecycle!To(c, n, p)
BY DEF PromptPhases, Lifecycle!To

LEMMA PhasesEnd ==
    ASSUME NEW c \in Conversations, NEW gone \in SUBSET Prompts,
           \A n \in gone : Phase(prompt[c][n]) \in {"accepted", "running"},
           \A d \in Conversations, m \in Prompts :
              Phase(prompt'[d][m]) = IF d = c /\ m \in gone THEN "over" ELSE Phase(prompt[d][m])
    PROVE  Lifecycle!Finish(c)
<1>1. gone \in SUBSET {n \in Lifecycle!Prompts : PromptPhases[c][n] \in {"accepted", "running"}}
  BY PhasesOfPrompts DEF Prompts, Lifecycle!Prompts
<1>2. PromptPhases' =
        [PromptPhases EXCEPT
           ![c] = [n \in Lifecycle!Prompts |-> IF n \in gone THEN "over" ELSE @[n]]]
  BY DEF PromptPhases, Prompts, Lifecycle!Prompts
<1> QED
  BY <1>1, <1>2 DEF Lifecycle!Finish

LEMMA LifecycleStep ==
    ASSUME QueueTyped, PromptTyped, SentOnce, OrderInv, NEW c \in Conversations, Acts(c)
    PROVE  [Lifecycle!Next]_PromptPhases
<1>1. Lifecycle!Finish(c) => Lifecycle!Next
  BY DEF Lifecycle!Next
<1>2. CASE Unqueued(c) \/ Dequeued(c)
  <2>1. CASE UNCHANGED prompt
    BY <2>1, PhasesKept
  <2>2. CASE prompt' = Awakened(c)
    BY <2>2, PromptsAwakened, PhaseOfStage, PhasesKept DEF Starting
  <2>3. CASE prompt' = Abandoned(c)
    <3> DEFINE gone == {n \in Prompts : prompt[c][n] \in Tasks \ {"closing"}}
    <3>1. \A n \in gone : Phase(prompt[c][n]) \in {"accepted", "running"}
      BY PhaseOfStage DEF Tasks
    <3>2. \A d \in Conversations, m \in Prompts :
              Phase(prompt'[d][m]) = IF d = c /\ m \in gone THEN "over" ELSE Phase(prompt[d][m])
      BY <2>3, PromptsAbandoned, PhaseOfStage, StageKinds
    <3> QED
      BY <1>1, <3>1, <3>2, PhasesEnd
  <2> QED
    BY <1>2, <2>1, <2>2, <2>3 DEF Unqueued, Dequeued
<1>3. CASE Queued(c)
  BY <1>3, PhasesKept DEF Queued
<1>4. ASSUME NEW n \in Prompts, SendMessage(c, n) PROVE Lifecycle!Next
  <2>1. Lifecycle!To(c, n, "accepted")
    BY <1>4, PromptStaged, StageNames, PhaseOfStage, PhaseMoves DEF SendMessage
  <2>2. /\ PromptPhases[c][n] = "new"
        /\ \A m \in 1..(n - 1) : PromptPhases[c][m] # "new"
    <3>1. \A m \in 1..(n - 1) : m \in Prompts /\ prompt[c][m] \in Stages /\ prompt[c][m] # "new"
      BY <1>4, BoundsAssumption DEF SendMessage, Prompts, PromptTyped
    <3>2. \A s \in Stages : s # "new" => Phase(s) # "new"
      BY PhaseOfStage DEF Stages, Tasks
    <3> QED
      BY <1>4, <3>1, <3>2, PhasesOfPrompts, PhaseOfStage DEF SendMessage
  <2> QED
    BY <2>1, <2>2 DEF Lifecycle!Next, Lifecycle!Accept, Lifecycle!Prompts, Prompts
<1>5. ASSUME NEW n \in Prompts, PromptStarts(c, n) PROVE Lifecycle!Next
  <2>1. Lifecycle!To(c, n, "running")
    BY <1>5, PromptStaged, StageNames, PhaseOfStage, PhaseMoves DEF PromptStarts
  <2>2. prompt[c][n] \in Starting /\ prompt[c][n] \in Begun
    BY <1>5, StageKinds DEF PromptStarts
  <2>3. \A m \in 1..(n - 1) : PromptPhases[c][m] = "over"
    <3>1. \A m \in 1..(n - 1) : m \in Prompts /\ prompt[c][m] \in Over
      BY <2>2, BoundsAssumption DEF Prompts, OrderInv, TasksInTurn
    <3> QED
      BY <3>1, PhasesOfPrompts, PhaseOfStage
  <2>4. \A m \in Prompts : PromptPhases[c][m] # "running"
    <3> SUFFICES ASSUME NEW m \in Prompts, Phase(prompt[c][m]) = "running" PROVE FALSE
      BY PhasesOfPrompts
    <3>1. prompt[c][m] = "running"
      <4>1. prompt[c][m] \in Stages
        BY DEF PromptTyped
      <4> QED
        BY <4>1, PhaseOfStage DEF Stages, Tasks
    <3>2. m # n /\ prompt[c][m] \in Begun
      BY <2>2, <3>1, StageNames, StageKinds
    <3>3. m \in 1..(n - 1) \/ n \in 1..(m - 1)
      BY <3>2, BoundsAssumption DEF Prompts
    <3>4. prompt[c][m] \in Over \/ prompt[c][n] \in Over
      BY <2>2, <3>2, <3>3 DEF OrderInv, TasksInTurn
    <3> QED
      BY <2>2, <3>2, <3>4, StageKinds
  <2>5. PromptPhases[c][n] = "accepted"
    BY <2>2, PhasesOfPrompts, PhaseOfStage
  <2> QED
    BY <2>1, <2>3, <2>4, <2>5 DEF Lifecycle!Next, Lifecycle!Start, Lifecycle!Prompts, Prompts
<1>6. ASSUME NEW n \in Prompts, TakenUp(c, n) \/ Begins(c, n) \/ Prepares(c, n) \/ Ends(c, n)
      PROVE  [Lifecycle!Next]_PromptPhases
  \* The phase of one prompt is kept, or it goes from accepted or running to over.
  <2>1. PICK s \in Stages :
            /\ Stage(c, n, s)
            /\ \/ Phase(s) = Phase(prompt[c][n])
               \/ Phase(s) = "over" /\ Phase(prompt[c][n]) \in {"accepted", "running"}
    <3>1. CASE TakenUp(c, n)
      <4>1. prompt[c][n] = "sent"
        BY <3>1, HandledIsSent DEF TakenUp
      <4> QED
        BY <3>1, <4>1, PhaseOfStage, StageNames, StageKinds DEF TakenUp
    <3>2. CASE Begins(c, n) \/ Prepares(c, n)
      BY <3>2, PhaseOfStage, StageNames DEF Begins, Prepares, Moves, Starting
    <3>3. CASE Ends(c, n)
      BY <3>3, PhaseOfStage, StageNames, StageKinds DEF Ends, Moves
    <3> QED
      BY <1>6, <3>1, <3>2, <3>3
  <2>2. \A d \in Conversations, m \in Prompts :
            prompt'[d][m] = IF d = c /\ m = n THEN s ELSE prompt[d][m]
    BY <2>1, PromptStaged
  <2>3. CASE Phase(s) = Phase(prompt[c][n])
    BY <2>2, <2>3, PhasesKept
  <2>4. CASE Phase(s) = "over" /\ Phase(prompt[c][n]) \in {"accepted", "running"}
    <3>1. \A d \in Conversations, m \in Prompts :
              Phase(prompt'[d][m]) = IF d = c /\ m \in {n} THEN "over" ELSE Phase(prompt[d][m])
      BY <2>2, <2>4
    <3>2. {n} \in SUBSET Prompts /\ \A m \in {n} : Phase(prompt[c][m]) \in {"accepted", "running"}
      BY <2>4
    <3> QED
      BY <1>1, <3>1, <3>2, PhasesEnd
  <2> QED
    BY <2>1, <2>3, <2>4
<1> QED
  BY <1>2, <1>3, <1>4, <1>5, <1>6, WhatChanges

-----------------------------------------------------------------------------
(* The refinement *)

LEMMA OrderInvInit == Init => OrderInv
BY DEF Init, OrderInv, SentInOrder, QueueHoldsSent, QueueInOrder, TasksInTurn, SendAt, Untaken,
       Begun, Tasks, Starting

\* The order in which messages wait and the order in which their tasks begin, together.
THEOREM OrderInvariant == Spec => []OrderInv
<1>1. BridgeInv /\ OrderInv /\ [Next]_vars => OrderInv'
  <2> SUFFICES ASSUME BridgeInv, OrderInv, [Next]_vars PROVE OrderInv'
    OBVIOUS
  <2>1. ASSUME NEW c \in Conversations, Acts(c) PROVE OrderInv'
    BY <2>1, OrderStep DEF BridgeInv, QueueInv
  <2>2. CASE UNCHANGED vars
    BY <2>2 DEF vars, OrderInv, SentInOrder, QueueHoldsSent, QueueInOrder, TasksInTurn, SendAt
  <2> QED
    BY <2>1, <2>2 DEF Next
<1> QED
  BY <1>1, OrderInvInit, BridgeInvariant, PTL DEF Spec

\* The bridge implements PromptLifecycle: the prompts of a conversation start one at a time,
\* in the order they were sent, each at most once, and not after they are over
\* (sendMessage, enqueueConversationPrompt).
THEOREM PromptsAlwaysRunInTurn == Spec => PromptsRunInTurn
<1>1. Init => Lifecycle!Init
  BY PhaseOfStage DEF Init, Lifecycle!Init, PromptPhases, Prompts, Lifecycle!Prompts
<1>2. BridgeInv /\ OrderInv /\ [Next]_vars => [Lifecycle!Next]_PromptPhases
  <2> SUFFICES ASSUME BridgeInv, OrderInv, [Next]_vars PROVE [Lifecycle!Next]_PromptPhases
    OBVIOUS
  <2>1. ASSUME NEW c \in Conversations, Acts(c) PROVE [Lifecycle!Next]_PromptPhases
    BY <2>1, LifecycleStep DEF BridgeInv, QueueInv
  <2>2. CASE UNCHANGED vars
    BY <2>2 DEF vars, PromptPhases
  <2> QED
    BY <2>1, <2>2 DEF Next
<1> QED
  BY <1>1, <1>2, BridgeInvariant, OrderInvariant, PTL DEF Spec, PromptsRunInTurn, Lifecycle!Spec

-----------------------------------------------------------------------------
(* Nothing of a conversation the desktop shows as quiet is left to run.     *)

\* A command of c will still be reported on.  The handler of a relay was, when the agent
\* settled; a message that is being configured is not, when a stop has marked c.
Reports(c) ==
    step # "relaying" /\ (step = "configuring" => c \notin abortedSessions)

Waits(c) ==
    \E i \in 1..Len(commandQueue) : commandQueue[i].conv = c /\ (i = 1 => Reports(c))

\* A prompt that has not started, and that no mark will cancel.
Accepted == {"queued", "waiting", "tidying"} \cup Starting

Proceeds(c) == c \notin abortedSessions /\ \E n \in Prompts : prompt[c][n] \in Accepted

Lives(c) == stopping[c] # "no" \/ agent[c] # "idle" \/ Waits(c) \/ Proceeds(c)

QuietInv == \A c \in Conversations : shown[c] => Lives(c)

TypesHold == QueueInv /\ PromptTyped /\ RestTyped /\ AgentTyped

-----------------------------------------------------------------------------
(* Commands that wait *)

LEMMA WaitsKept ==
    ASSUME NEW d \in Conversations, Waits(d), UNCHANGED commandQueue,
           step' = step \/ step' \notin {"relaying", "configuring"},
           d \in abortedSessions' => d \in abortedSessions
    PROVE  Waits(d)'
BY DEF Waits, Reports

LEMMA WaitsBehind ==
    ASSUME NEW d \in Conversations, Waits(d), UNCHANGED commandQueue,
           commandQueue # <<>>, Head(commandQueue).conv # d, QueueTyped
    PROVE  Waits(d)'
<1>1. Head(commandQueue) = commandQueue[1]
  BY DEF QueueTyped
<1> QED
  BY <1>1 DEF Waits, Reports

LEMMA WaitsAppended ==
    ASSUME QueueInv, NEW x \in Commands, commandQueue' = Append(commandQueue, x),
           UNCHANGED <<step, abortedSessions>>, NEW d \in Conversations
    PROVE  Waits(d)' <=> Waits(d) \/ x.conv = d
<1> PICK k \in Nat : k = Len(commandQueue) + 1
  BY DEF QueueInv, QueueTyped
<1>1. /\ Len(commandQueue') = k /\ Len(commandQueue) \in Nat
      /\ \A i \in 1..Len(commandQueue) : commandQueue'[i] = commandQueue[i]
      /\ commandQueue'[k] = x
      /\ k = 1 => step = "next"
  BY DEF QueueInv, QueueTyped, HandlerInv
<1>2. ASSUME Waits(d) PROVE Waits(d)'
  BY <1>1, <1>2 DEF Waits, Reports
<1>3. ASSUME x.conv = d PROVE Waits(d)'
  BY <1>1, <1>3 DEF Waits, Reports
<1>4. ASSUME Waits(d)', x.conv # d PROVE Waits(d)
  BY <1>1, <1>4 DEF Waits, Reports
<1> QED
  BY <1>2, <1>3, <1>4

\* The commands behind the one that was handled still wait.
LEMMA WaitsHandled ==
    ASSUME QueueTyped, commandQueue # <<>>, Handled, NEW d \in Conversations, Waits(d),
           Head(commandQueue).conv # d \/ ~Reports(d)
    PROVE  Waits(d)'
<1>1. /\ Len(commandQueue') = Len(commandQueue) - 1 /\ Len(commandQueue) \in Nat \ {0}
      /\ \A i \in 1..Len(commandQueue') : commandQueue'[i] = commandQueue[i + 1]
      /\ Head(commandQueue) = commandQueue[1] /\ step' = "next"
  BY DEF QueueTyped, Handled
<1>2. PICK i \in 1..Len(commandQueue) : commandQueue[i].conv = d /\ i # 1
  BY <1>1 DEF Waits
<1>3. i - 1 \in 1..Len(commandQueue') /\ commandQueue'[i - 1].conv = d
  BY <1>1, <1>2
<1>4. Reports(d)'
  BY <1>1 DEF Reports
<1>5. \E j \in 1..Len(commandQueue') : commandQueue'[j].conv = d
  BY <1>3
<1> QED
  BY <1>4, <1>5 DEF Waits

\* The first command of the queue waits too.
LEMMA HeadWaits ==
    ASSUME QueueTyped, commandQueue # <<>>, NEW c \in Conversations,
           Head(commandQueue).conv = c, UNCHANGED commandQueue, Reports(c)'
    PROVE  Waits(c)'
<1>1. Head(commandQueue) = commandQueue[1] /\ 1 \in 1..Len(commandQueue)
  BY DEF QueueTyped
<1> QED
  BY <1>1 DEF Waits
-----------------------------------------------------------------------------
(* A step of one conversation leaves the others as they are *)

\* What is kept of d, but for the queue.
Spared(d) ==
    /\ shown'[d] = shown[d] /\ stopping'[d] = stopping[d] /\ agent'[d] = agent[d]
    /\ \A n \in Prompts : prompt'[d][n] = prompt[d][n]
    /\ d \in abortedSessions' <=> d \in abortedSessions

LEMMA OthersSpared ==
    ASSUME TypesHold, NEW c \in Conversations, Acts(c), NEW d \in Conversations, d # c
    PROVE  Spared(d)
<1> USE DEF TypesHold
<1>1. /\ \A k : Line(c, k) => shown'[d] = shown[d]
      /\ \A n \in Prompts : \A s : Stage(c, n, s) => prompt'[d] = prompt[d]
      /\ Signal(c) => agent'[d] = agent[d]
      /\ CancelConversation(c) => agent'[d] = agent[d]
      /\ prompt' = Abandoned(c) => prompt'[d] = prompt[d]
      /\ prompt' = Awakened(c) => prompt'[d] = prompt[d]
  BY DEF Line, Stage, Signal, CancelConversation, Abandoned, Awakened, PromptTyped, RestTyped,
         AgentTyped
<1>2. CASE Arrivals(c)
  BY <1>1, <1>2
     DEF Arrivals, RelayMessage, DestroySession, Other, AbortSession, CompactSession,
         SendMessage, Spared, RestTyped, agentVars
<1>3. CASE RelayBegins(c) \/ RelayEnds(c) \/ DestroyBegins(c) \/ DestroyHalted(c)
           \/ DestroyDisposes(c)
  BY <1>1, <1>3
     DEF RelayBegins, RelayEnds, DestroyBegins, DestroyHalted, DestroyDisposes, Spared,
         RestTyped, AgentTyped, agentVars
<1>4. ASSUME NEW n \in Prompts, SendBegins(c, n) \/ ReloadHalted(c, n) \/ ReloadDisposed(c, n)
                                \/ CreateSucceeds(c, n) \/ ConfigureSucceeds(c, n)
                                \/ SendFails(c, n)
      PROVE  Spared(d)
  BY <1>1, <1>4
     DEF SendBegins, ReloadHalted, ReloadDisposed, CreateSucceeds, ConfigureSucceeds, SendFails,
         Spared, agentVars
<1>5. CASE Stop(c) \/ CompactionEnds(c) \/ CompactionFails(c)
  BY <1>1, <1>5
     DEF Stop, AbortHalted, AbortSettles, CompactionEnds, CompactionFails, Spared, RestTyped,
         agentVars
<1>6. CASE AgentAsks(c) \/ Respond(c) \/ RespondLate(c) \/ ModelFails(c) \/ AgentSettles(c)
  BY <1>1, <1>6
     DEF AgentAsks, Respond, RespondLate, ModelFails, AgentSettles, Spared, RestTyped,
         AgentTyped, agentVars
<1>7. ASSUME NEW n \in Prompts, PromptTask(c, n) \/ PromptTidies(c, n) \/ LostPromptEnds(c, n)
      PROVE  Spared(d)
  BY <1>1, <1>7
     DEF PromptTask, PromptTakesTurn, PromptTidied, PromptStarts, PromptReturns, PromptThrows,
         PromptCloses, PromptTidies, LostPromptEnds, Spared, AgentTyped, agentVars
<1> QED
  BY <1>2, <1>3, <1>4, <1>5, <1>6, <1>7 DEF Acts, Handler

LEMMA CommandAdded ==
    ASSUME NEW c \in Conversations,
           RelayMessage(c) \/ DestroySession(c) \/ \E n \in Prompts : SendMessage(c, n)
    PROVE  /\ UNCHANGED <<step, abortedSessions>>
           /\ \E x \in Commands : x.conv = c /\ commandQueue' = Append(commandQueue, x)
<1>1. ASSUME NEW do \in {"send", "relay", "destroy"}, NEW n \in 0..MaxPrompts
      PROVE  /\ [do |-> do, conv |-> c, prompt |-> n] \in Commands
             /\ [do |-> do, conv |-> c, prompt |-> n].conv = c
  BY DEF Commands
<1>2. ASSUME NEW n \in Prompts, SendMessage(c, n)
      PROVE  \E x \in Commands : x.conv = c /\ commandQueue' = Append(commandQueue, x)
  <2>1. n \in 0..MaxPrompts
    BY BoundsAssumption DEF Prompts
  <2>2. commandQueue' = Append(commandQueue, [do |-> "send", conv |-> c, prompt |-> n])
    BY <1>2 DEF SendMessage
  <2> QED
    BY <1>1, <2>1, <2>2
<1>3. ASSUME NEW do \in {"relay", "destroy"}, Other(do, c)
      PROVE  \E x \in Commands : x.conv = c /\ commandQueue' = Append(commandQueue, x)
  <2>1. NoPrompt \in 0..MaxPrompts
    BY BoundsAssumption DEF NoPrompt
  <2>2. commandQueue' = Append(commandQueue, [do |-> do, conv |-> c, prompt |-> NoPrompt])
    BY <1>3 DEF Other
  <2> QED
    BY <1>1, <2>1, <2>2
<1> QED
  BY <1>2, <1>3 DEF RelayMessage, DestroySession, Other, SendMessage

\* How a step of c changes the queue.
LEMMA QueueChanges ==
    ASSUME NEW c \in Conversations, Acts(c)
    PROVE  \/ UNCHANGED queueVars
           \/ /\ UNCHANGED <<step, abortedSessions>>
              /\ \E x \in Commands : x.conv = c /\ commandQueue' = Append(commandQueue, x)
           \/ /\ commandQueue # <<>> /\ Head(commandQueue).conv = c
              /\ Handled \/ UNCHANGED commandQueue
<1>1. CASE Arrivals(c)
  BY <1>1, CommandAdded DEF Arrivals, AbortSession, CompactSession
<1>2. CASE Handler(c)
  BY <1>2
     DEF Handler, RelayBegins, RelayEnds, DestroyBegins, DestroyHalted, DestroyDisposes,
         SendBegins, ReloadHalted, ReloadDisposed, CreateSucceeds, ConfigureSucceeds, SendFails,
         Handling, GoesOn
<1>3. CASE Stop(c) \/ CompactionEnds(c) \/ CompactionFails(c)
  BY <1>3 DEF Stop, AbortHalted, AbortSettles, CompactionEnds, CompactionFails
<1>4. CASE AgentAsks(c) \/ Respond(c) \/ RespondLate(c) \/ ModelFails(c) \/ AgentSettles(c)
  BY <1>4 DEF AgentAsks, Respond, RespondLate, ModelFails, AgentSettles
<1>5. ASSUME NEW n \in Prompts, PromptTask(c, n) \/ PromptTidies(c, n) \/ LostPromptEnds(c, n)
      PROVE  UNCHANGED queueVars
  BY <1>5
     DEF PromptTask, PromptTakesTurn, PromptTidied, PromptStarts, PromptReturns, PromptThrows,
         PromptCloses, PromptTidies, LostPromptEnds
<1> QED
  BY <1>1, <1>2, <1>3, <1>4, <1>5 DEF Acts

LEMMA OthersLive ==
    ASSUME TypesHold, NEW c \in Conversations, Acts(c), NEW d \in Conversations, d # c,
           shown[d] => Lives(d)
    PROVE  shown'[d] => Lives(d)'
<1>1. Spared(d)
  BY OthersSpared
<1>2. Waits(d) => Waits(d)'
  <2>1. CASE UNCHANGED queueVars
    BY <1>1, <2>1, WaitsKept DEF queueVars, Spared
  <2>2. ASSUME NEW x \in Commands, commandQueue' = Append(commandQueue, x),
               UNCHANGED <<step, abortedSessions>>
        PROVE  Waits(d) => Waits(d)'
    BY <2>2, WaitsAppended DEF TypesHold
  <2>3. CASE commandQueue # <<>> /\ Head(commandQueue).conv = c /\ UNCHANGED commandQueue
    BY <2>3, WaitsBehind DEF TypesHold, QueueInv
  <2>4. CASE commandQueue # <<>> /\ Head(commandQueue).conv = c /\ Handled
    BY <2>4, WaitsHandled DEF TypesHold, QueueInv
  <2> QED
    BY <2>1, <2>2, <2>3, <2>4, QueueChanges
<1>3. Proceeds(d) => Proceeds(d)'
  BY <1>1 DEF Proceeds, Spared
<1> QED
  BY <1>1, <1>2, <1>3 DEF Lives, Spared

-----------------------------------------------------------------------------
(* The conversation of the step *)

\* A line that ends the run of c leaves nothing to show.
LEMMA Quieted ==
    ASSUME RestTyped, NEW c \in Conversations, NEW k, k # "turn_started", Line(c, k)
    PROVE  shown'[c] = FALSE
BY DEF RestTyped, Line

\* Nothing of c but its prompts changes, and no prompt that proceeds ends.
LEMMA LivesOn ==
    ASSUME NEW c \in Conversations, Lives(c), UNCHANGED <<commandQueue, step, stopping>>,
           agent[c] # "idle" => agent'[c] # "idle",
           c \in abortedSessions' => c \in abortedSessions,
           Proceeds(c) => Proceeds(c)'
    PROVE  Lives(c)'
BY WaitsKept DEF Lives

LEMMA ArrivalLives ==
    ASSUME TypesHold, NEW c \in Conversations, Arrivals(c), shown[c] => Lives(c)
    PROVE  shown'[c] => Lives(c)'
<1>1. ASSUME NEW x \in Commands, x.conv = c, commandQueue' = Append(commandQueue, x),
             UNCHANGED <<step, abortedSessions>>
      PROVE  Lives(c)'
  BY <1>1, WaitsAppended DEF Lives, TypesHold
<1>2. CASE AbortSession(c)
  <2>1. stopping'[c] # "no"
    BY <1>2 DEF AbortSession, TypesHold, RestTyped
  <2> QED
    BY <2>1 DEF Lives
<1>3. CASE CompactSession(c)
  <2>1. UNCHANGED <<commandQueue, step, stopping, agent, abortedSessions, prompt, shown>>
    BY <1>3 DEF CompactSession, Signal, queueVars, agentVars
  <2> QED
    BY <2>1, LivesOn DEF Proceeds
<1>4. CASE RelayMessage(c) \/ DestroySession(c) \/ \E n \in Prompts : SendMessage(c, n)
  BY <1>1, <1>4, CommandAdded
<1> QED
  BY <1>2, <1>3, <1>4 DEF Arrivals, TypesHold
LEMMA HandlerLives ==
    ASSUME TypesHold, SentOnce, NEW c \in Conversations, Handler(c), shown[c] => Lives(c)
    PROVE  shown'[c] => Lives(c)'
<1> USE DEF TypesHold, QueueInv
\* The handler goes on, and will report.
<1>1. ASSUME NEW s \in Steps, commandQueue # <<>>, Head(commandQueue).conv = c, GoesOn(s),
             s # "relaying", s = "configuring" => c \notin abortedSessions'
      PROVE  Lives(c)'
  BY <1>1, HeadWaits DEF Lives, Reports, GoesOn
<1>2. CASE RelayBegins(c)
  <2>1. CASE Line(c, "error")
    BY <2>1, Quieted
  <2>2. CASE agent' = [agent EXCEPT ![c] = "running"]
    BY <2>2 DEF AgentTyped, Lives
  <2> QED
    BY <1>2, <2>1, <2>2 DEF RelayBegins
<1>3. CASE RelayEnds(c)
  <2>1. CASE Line(c, "error")
    BY <2>1, Quieted
  <2>2. CASE UNCHANGED shown
    <3>1. commandQueue # <<>> /\ Handled /\ ~Reports(c)
      BY <1>3 DEF RelayEnds, Handling, Reports
    <3>2. Waits(c) => Waits(c)'
      BY <3>1, WaitsHandled
    <3> QED
      BY <1>3, <2>2, <3>2 DEF RelayEnds, Lives, Proceeds, agentVars
  <2> QED
    BY <1>3, <2>1, <2>2 DEF RelayEnds
<1>4. CASE DestroyBegins(c) \/ DestroyHalted(c)
  BY <1>1, <1>4 DEF DestroyBegins, DestroyHalted, Handling, Steps
<1>5. CASE DestroyDisposes(c)
  BY <1>5, Quieted DEF DestroyDisposes
<1>6. ASSUME NEW n \in Prompts, SendBegins(c, n) PROVE shown'[c] => Lives(c)'
  <2>1. CASE Line(c, "turn_settled")
    BY <2>1, Quieted
  <2>2. ASSUME NEW s \in {"halting", "configuring", "creating"}, GoesOn(s) PROVE Lives(c)'
    BY <1>1, <1>6, <2>2 DEF SendBegins, Handling, Steps
  <2> QED
    BY <1>6, <2>1, <2>2 DEF SendBegins
<1>7. ASSUME NEW n \in Prompts, ReloadHalted(c, n) \/ ReloadDisposed(c, n) PROVE Lives(c)'
  BY <1>1, <1>7 DEF ReloadHalted, ReloadDisposed, Handling, Steps
<1>8. ASSUME NEW n \in Prompts, CreateSucceeds(c, n) PROVE shown'[c] => Lives(c)'
  <2>1. CASE Line(c, "turn_settled")
    BY <2>1, Quieted
  <2>2. CASE Stage(c, n, "queued")
    <3>1. prompt'[c][n] = "queued" /\ c \notin abortedSessions'
      BY <1>8, <2>2, PromptStaged, StageNames DEF CreateSucceeds
    <3> QED
      BY <3>1 DEF Lives, Proceeds, Accepted
  <2> QED
    BY <1>8, <2>1, <2>2 DEF CreateSucceeds
<1>9. ASSUME NEW n \in Prompts, ConfigureSucceeds(c, n) PROVE shown'[c] => Lives(c)'
  <2>1. prompt'[c][n] = "queued" /\ UNCHANGED <<abortedSessions, stopping, agent, shown>>
    BY <1>9, PromptStaged, StageNames DEF ConfigureSucceeds, agentVars
  <2>2. CASE c \notin abortedSessions
    BY <2>1, <2>2 DEF Lives, Proceeds, Accepted
  <2>3. CASE c \in abortedSessions
    <3>1. commandQueue # <<>> /\ Handled /\ ~Reports(c)
      BY <1>9, <2>3 DEF ConfigureSucceeds, Handling, Reports
    <3>2. Waits(c) => Waits(c)'
      BY <3>1, WaitsHandled
    <3> QED
      BY <2>1, <2>3, <3>2 DEF Lives, Proceeds
  <2> QED
    BY <2>2, <2>3
<1>10. ASSUME NEW n \in Prompts, SendFails(c, n) PROVE shown'[c] => Lives(c)'
  BY <1>10, Quieted DEF SendFails
<1> QED
  BY <1>2, <1>3, <1>4, <1>5, <1>6, <1>7, <1>8, <1>9, <1>10 DEF Handler

LEMMA TaskLives ==
    ASSUME TypesHold, NEW c \in Conversations, NEW n \in Prompts,
           PromptTask(c, n) \/ PromptTidies(c, n) \/ LostPromptEnds(c, n),
           shown[c] => Lives(c)
    PROVE  shown'[c] => Lives(c)'
<1> USE DEF TypesHold
<1>1. CASE PromptStarts(c, n)
  BY <1>1 DEF PromptStarts, AgentTyped, Lives
<1>2. CASE Line(c, "error")
  BY <1>2, Quieted
<1>3. CASE ~PromptStarts(c, n) /\ ~Line(c, "error") /\ UNCHANGED shown
  \* A prompt that does not proceed any longer did not, or has been marked.
  <2>1. /\ UNCHANGED <<commandQueue, step, stopping, agent>>
        /\ c \in abortedSessions' => c \in abortedSessions
    BY <1>3
       DEF PromptTask, PromptTakesTurn, PromptTidied, PromptReturns, PromptThrows, PromptCloses,
           PromptTidies, LostPromptEnds, Signal, queueVars, agentVars
  <2>2. Proceeds(c) => Proceeds(c)'
    <3> SUFFICES ASSUME Proceeds(c) PROVE Proceeds(c)'
      OBVIOUS
    <3>1. PICK m \in Prompts : prompt[c][m] \in Accepted
      BY DEF Proceeds
    <3>2. c \notin abortedSessions'
      BY <2>1 DEF Proceeds
    <3>3. CASE PromptTakesTurn(c, n) \/ PromptTidies(c, n) \/ PromptTidied(c, n)
      <4>1. PICK s \in {"waiting", "ready", "tidying", "prepared"} : Stage(c, n, s)
        BY <3>3 DEF PromptTakesTurn, PromptTidies, PromptTidied, Proceeds
      <4>2. prompt'[c][n] \in Accepted
        BY <4>1, PromptStaged, StageNames DEF Accepted, Starting
      <4> QED
        BY <3>2, <4>2 DEF Proceeds
    <3>4. CASE PromptReturns(c, n) \/ PromptCloses(c, n) \/ LostPromptEnds(c, n)
      <4>1. PICK s \in {"closing", "done"} : Stage(c, n, s)
        BY <3>4 DEF PromptReturns, PromptCloses, LostPromptEnds
      <4>2. prompt[c][n] \notin Accepted
        BY <3>4 DEF PromptReturns, PromptCloses, LostPromptEnds, Accepted, Starting
      <4>3. prompt'[c][m] = prompt[c][m]
        BY <3>1, <4>1, <4>2, PromptStaged, StageNames
      <4> QED
        BY <3>1, <3>2, <4>3 DEF Proceeds
    <3>5. CASE PromptThrows(c, n)
      \* Without a mark the error would be reported.
      BY <1>3, <3>5 DEF PromptThrows, Proceeds
    <3> QED
      BY <1>3, <3>3, <3>4, <3>5 DEF PromptTask
  <2> QED
    BY <1>3, <2>1, <2>2, LivesOn
<1> QED
  BY <1>1, <1>2, <1>3
     DEF PromptTask, PromptTakesTurn, PromptTidied, PromptReturns, PromptThrows, PromptCloses,
         PromptTidies, LostPromptEnds
LEMMA OtherLives ==
    ASSUME TypesHold, NEW c \in Conversations,
           \/ Stop(c) \/ CompactionEnds(c) \/ CompactionFails(c)
           \/ AgentAsks(c) \/ Respond(c) \/ RespondLate(c) \/ ModelFails(c) \/ AgentSettles(c),
           shown[c] => Lives(c)
    PROVE  shown'[c] => Lives(c)'
<1> USE DEF TypesHold
<1>1. CASE AbortSettles(c) \/ RespondLate(c) \/ ModelFails(c) \/ AgentSettles(c)
  BY <1>1, Quieted DEF AbortSettles, RespondLate, ModelFails, AgentSettles
<1>2. CASE AbortHalted(c)
  BY <1>2 DEF AbortHalted, RestTyped, Lives
<1>3. CASE AgentAsks(c) \/ Respond(c)
  BY <1>3 DEF AgentAsks, Respond, AgentTyped, Lives
<1>4. CASE CompactionEnds(c) \/ CompactionFails(c)
  <2>1. /\ UNCHANGED <<commandQueue, step, stopping, agent, abortedSessions, shown>>
        /\ prompt' = Awakened(c)
    BY <1>4 DEF CompactionEnds, CompactionFails, queueVars, agentVars
  <2>2. \A n \in Prompts : prompt[c][n] \in Accepted => prompt'[c][n] \in Accepted
    BY <2>1, PromptsAwakened DEF Accepted, Starting
  <2>3. Proceeds(c) => Proceeds(c)'
    BY <2>1, <2>2 DEF Proceeds
  <2> QED
    BY <2>1, <2>3, LivesOn
<1> QED
  BY <1>1, <1>2, <1>3, <1>4 DEF Stop

-----------------------------------------------------------------------------
(* The invariant *)

LEMMA QuietStep == BridgeInv /\ QuietInv /\ [Next]_vars => QuietInv'
<1> SUFFICES ASSUME BridgeInv, QuietInv, [Next]_vars PROVE QuietInv'
  OBVIOUS
<1>0. TypesHold /\ SentOnce
  BY DEF BridgeInv, TypesHold, AgentInv
<1>1. ASSUME NEW c \in Conversations, Acts(c) PROVE QuietInv'
  <2>1. shown'[c] => Lives(c)'
    BY <1>0, <1>1, ArrivalLives, HandlerLives, TaskLives, OtherLives DEF QuietInv, Acts
  <2>2. \A d \in Conversations : d # c => (shown'[d] => Lives(d)')
    BY <1>0, <1>1, OthersLive DEF QuietInv
  <2> QED
    BY <2>1, <2>2 DEF QuietInv
<1>2. CASE UNCHANGED vars
  BY <1>2 DEF vars, QuietInv, Lives, Waits, Reports, Proceeds
<1> QED
  BY <1>1, <1>2 DEF Next

\* The desktop does not go on showing a conversation as running when neither a command, nor a
\* stop, nor the task of a prompt is left that would report on it (the turn_settled and error
\* lines of sendMessage, relaySession, abortSession and destroySession).
THEOREM QuietAlwaysMeansSettled == Spec => []QuietMeansSettled
<1>1. Init => QuietInv
  BY DEF Init, QuietInv
<1>2. BridgeInv /\ QuietInv => QuietMeansSettled
  <2> SUFFICES ASSUME BridgeInv, QuietInv, NEW c \in Conversations, shown[c]
               PROVE  \/ InQueue(c) \/ stopping[c] # "no"
                      \/ \E n \in Prompts : prompt[c][n] \in Tasks
    BY DEF QuietMeansSettled
  <2>1. CASE agent[c] # "idle"
    <3>1. \/ \E n \in Prompts : prompt[c][n] = "running"
          \/ Handling("relay", c, NoPrompt, "relaying")
      BY <2>1 DEF BridgeInv, SessionInv, TurnsHaveASession
    <3>2. Handling("relay", c, NoPrompt, "relaying") => InQueue(c)
      BY DEF Handling, InQueue, BridgeInv, QueueInv, QueueTyped
    <3> QED
      BY <3>1, <3>2, StageNames
  <2>2. CASE Waits(c)
    BY <2>2 DEF Waits, InQueue
  <2>3. CASE Proceeds(c)
    BY <2>3, StageNames DEF Proceeds, Accepted
  <2> QED
    BY <2>1, <2>2, <2>3 DEF QuietInv, Lives
<1> QED
  BY <1>1, <1>2, QuietStep, BridgeInvariant, PTL DEF Spec
=============================================================================
