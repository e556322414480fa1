\* nfsup server
SPECIFICATION UpSpec
CONSTANTS
    Server = server
    Target = {server}
    PMAPPROG = pmap
    MOUNTPROG = mountd
    NFS_PROGRAM = nfs
    Program = {pmap, mountd, nfs}
    Port = {635, 2049}
    MaxFds = 5
    InitPort = 0
    Tcp = FALSE
    LocalErrors = TRUE
    NULL = NULL
INVARIANTS
    UpInv
    OkMeansAllReplied
    HealthyIsOk
