SPECIFICATION BridgeSpec
CONSTANTS
    c1 = c1
    c2 = c2
    Conversations = {c1, c2}
    MaxPrompts = 2
    MaxCompactions = 1
INVARIANT TypeOK
INVARIANT CardsHaveAWaiter
INVARIANT CompactionsAnsweredOnce
INVARIANT TurnsHaveASession
INVARIANT QuietMeansSettled
PROPERTY PromptsRunInTurn
PROPERTY PromptsEnd
PROPERTY StopsAreAnswered
PROPERTY CompactionsAreAnswered
CHECK_DEADLOCK FALSE
