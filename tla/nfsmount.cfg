\* nfsmount with up to two options and two targets.
SPECIFICATION FairSpec
CONSTANTS
    a1 = a1
    a2 = a2
    filer = filer
    home = home
    var = var
    NULL = NULL
    Addr = {a1, a2}
    HasName = {a1}
    Path = {home, var}
    Argument <- MCArgument
    ExportList <- MCExportList
    Number = {0, 2}
    Hertz = {0, 10}
    MaxOptions = 2
    MaxArguments = 2
    MaxRounds = 3
INVARIANTS
    MountInv
    CountIsExact
    NothingStaysMounted
PROPERTIES
    EveryStepMovesOn
    Ends
