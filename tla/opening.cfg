CONSTANTS
    x1 = x1
    x2 = x2
    x3 = x3
    x4 = x4
    pi = pi
    dsh = dsh
    wa = wa
    wb = wb
    wc = wc
    NoProc = NoProc
    NoKernel = NoKernel
    NoWorkspace = NoWorkspace
    Kernels = {pi}
    KernelPi = pi
    Workspaces = {wa, wb, wc}
    Sessions = {x1, x2}
    Procs = {p1, p2, p3}
    maxParkedSidecars = 1
    ConversationKernel <- AllPi
    ConversationWorkspaces <- Anywhere
    Researchers = {x1}
    Probes = {}
    Recoverable = {}
    Forks = {}
    MaxTurns = 1
    MaxPipe = 1
SPECIFICATION OpeningSpec
SYMMETRY ProcSymmetry
INVARIANT TypeOK
INVARIANT SidecarsAccountedFor
INVARIANT OneSidecarPerWorkspace
INVARIANT RunningCanEnd
INVARIANT WorkersAreAccountedFor
INVARIANT LiveTurnsAreReached
PROPERTY TurnsStartInTheirWorkspace
PROPERTY TurnsStartOnFreshCredentials
PROPERTY WorkIsSpared
PROPERTY ParkedBeyondLimitAreBusy
CHECK_DEADLOCK FALSE
