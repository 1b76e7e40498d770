CONSTANTS
    MaxRuns = 2
    MaxTasks = 2
    Prompts = {p1}
    p1 = p1
    NoPrompt = NoPrompt
    maxResearchWorkersPerBatch = 2
    MaxWorkers = 2
    MaxLosses = 1
    MaxCancels = 1
    MaxStops = 1
    MaxPipe = 2
SPECIFICATION ResearchSpec
INVARIANT SynthesisHasNoWorkers
INVARIANT SynthesisWaitsForWorkers
INVARIANT StopsAreKnown
PROPERTY WaitingEnds
CHECK_DEADLOCK FALSE
