\* nfsping -C 5 -Q 2 -R -T -P 2049 a: fping output over one TCP connection.
SPECIFICATION Spec
CONSTANTS
    Target = {1}
    NTargets = 1
    Program = {nfs}
    Prog = nfs
    Port = {2049}
    MaxFds = 6
    InitPort = 2049
    Tcp = TRUE
    LocalErrors = TRUE
    NULL = NULL
    Count = 5
    Format = "fping"
    Interval = 2
    Reconnect = FALSE
    Rtt = {1, 2}
    ULONG_MAX = 99
    HistMax = 1
    MaxRounds = 1
INVARIANTS
    SummaryShowsPings
    ExtremesAreOfInterval
    RecoversAfterOutage
