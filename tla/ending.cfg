CONSTANTS
    x1 = x1
    x2 = x2
    x3 = x3
    x4 = x4
    pi = pi
    dsh = dsh
    wa = wa
    wb = wb
    wc = wc
    NoProc = NoProc
    NoKernel = NoKernel
    NoWorkspace = NoWorkspace
    Kernels = {pi, dsh}
    KernelPi = pi
    Workspaces = {wa, wb}
    Sessions = {x1, x2, x3, x4}
    Procs = {p1, p2, p3}
    maxParkedSidecars = 1
    ConversationKernel <- TwoKernels
    ConversationWorkspaces <- Anywhere
    Researchers = {x4}
    Probes = {x3}
    Recoverable = {x2}
    Forks = {x4}
    MaxTurns = 1
    MaxPipe = 2
SPECIFICATION EndingSpec
SYMMETRY ProcSymmetry
INVARIANT BusyHasATurn
INVARIANT LiveTurnsAreReached
INVARIANT StoppedRunsCanEnd
PROPERTY KernelsParkApart
PROPERTY TurnsKeepTheirKernel
CHECK_DEADLOCK FALSE
