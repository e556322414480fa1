\* clear_locks -T -s server: every way the two connections can go.
SPECIFICATION ClearSpec
CONSTANTS
    Server = server
    Target = {server}
    SM_PROG = statd
    NLM_PROG = lockd
    Program = {statd, lockd}
    Port = {4045, 4046}
    MaxFds = 4
    InitPort = 0
    Tcp = TRUE
    LocalErrors = TRUE
    NULL = NULL
INVARIANTS
    SuccessMeansReply
    WorksWithoutSm
