\* nfsping -l -R a b: UDP to the fixed NFS port, until Ctrl-c.
SPECIFICATION FairSpec
CONSTANTS
    Target = {1, 2}
    NTargets = 2
    Program = {nfs}
    Prog = nfs
    Port = {2049, 20049}
    MaxFds = 2
    InitPort = 2049
    Tcp = FALSE
    LocalErrors = FALSE
    NULL = NULL
    Count = 0
    Format = "ping"
    Interval = 0
    Reconnect = FALSE
    Rtt = {1}
    ULONG_MAX = 99
    HistMax = 1
    MaxRounds = 3
PROPERTIES
    SignalTerminates
