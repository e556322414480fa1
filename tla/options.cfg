\* Every command line of up to four options, for two targets.
SPECIFICATION Spec
CONSTANTS
    Number = {0, 1, 12, 60}
    PortNumber = {0, 2049, 4046}
    Version = {0, 2, 3, 4}
    NTargets = 2
    MaxOptions = 4
INVARIANTS
    OptionsInv
    MainLoopCanStart
    ModesCommute
