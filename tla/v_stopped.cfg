SPECIFICATION StopsSpec
CONSTANTS
    c1 = c1
    Conversations = {c1}
    MaxPrompts = 2
    MaxCompactions = 0
PROPERTY StoppedPromptsDoNotStart
CHECK_DEADLOCK FALSE
