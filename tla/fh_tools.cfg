\* Each tool with up to two options and three lines of input.
SPECIFICATION FairSpec
CONSTANTS
    a1 = a1
    a2 = a2
    host = host
    NULL = NULL
    Addr = {a1, a2}
    HasName = {a1}
    Name = {host, "etc", "motd", "home"}
    Lines <- MCLines
    MaxLines = 3
    Number = {0, 2}
    Hertz = {0, 10}
    MaxOptions = 2
    MaxRounds = 2
    Rows = {0, 2}
    Size = 3
    Blocksize = {0, 2}
    Stat = {0, 1}
INVARIANTS
    FhToolsInv
    FilesAreWhole
PROPERTIES
    FilehandlesAreKept
    ImplementsRounds
    EveryStepMovesOn
    Ends
