\* nfsping -n -c 3 -Q 2 a b: the mount protocol, so the portmapper is used, on a
\* host that may refuse sockets their ports and routes.
SPECIFICATION FairSpec
CONSTANTS
    Target = {1, 2}
    NTargets = 2
    Program = {mountd}
    Prog = mountd
    Port = {635, 636}
    MaxFds = 12
    InitPort = 0
    Tcp = FALSE
    LocalErrors = TRUE
    NULL = NULL
    Count = 3
    Format = "ping"
    Interval = 2
    Reconnect = TRUE
    Rtt = {1}
    ULONG_MAX = 99
    HistMax = 1
    MaxRounds = 1
INVARIANTS
    PingInv
    SentCountsRounds
    AnswersAccountedFor
    StopsSoonAfterSignal
PROPERTIES
    PortIsKnownOrLeft
    ImplementsPoller
    CountTerminates
