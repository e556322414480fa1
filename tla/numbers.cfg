\* Seconds of eight nanoseconds, sizes up to "15 exabytes".
SPECIFICATION Spec
CONSTANTS
    Thousand = 2
    Largest = 2
    Kilo = 2
    Unit <- MCUnit
    MaxSize = 63
    Hertz = {0, 3}
    Answer <- MCAnswer
    Epoch <- MCEpoch
    MaxCall = 9
    MaxLate = 1
    MaxRounds = 2
INVARIANTS
    ClockInv
    KeepsFrequency
    RowsAreRight
