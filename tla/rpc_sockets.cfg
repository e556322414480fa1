SPECIFICATION RpcSpec
SYMMETRY Symmetry
CONSTANTS
    Target = {t1, t2}
    Program = {mountd}
    Port = {635, 2049}
    MaxFds = 4
    InitPort = 0
    Tcp = TRUE
    LocalErrors = TRUE
    NULL = NULL
INVARIANTS
    RpcInv
PROPERTIES
    LearnedPortIsKept
    OnlyCallsLoseSockets
