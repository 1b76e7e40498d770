CONSTANTS
    x1 = x1
    x2 = x2
    x3 = x3
    x4 = x4
    pi = pi
    dsh = dsh
    wa = wa
    wb = wb
    wc = wc
    NoProc = NoProc
    NoKernel = NoKernel
    NoWorkspace = NoWorkspace
    Kernels = {pi}
    KernelPi = pi
    Workspaces = {wa, wb}
    Sessions = {x1, x2}
    Procs = {p1, p2}
    maxParkedSidecars = 1
    ConversationKernel <- AllPi
    ConversationWorkspaces <- Apart
    Researchers = {}
    Probes = {}
    Recoverable = {}
    Forks = {}
    MaxTurns = 1
    MaxPipe = 1
SPECIFICATION CrashSpec
SYMMETRY ProcSymmetry
INVARIANT RunningCanEnd
CHECK_DEADLOCK FALSE
