\* The directory position with hidden entries.
SPECIFICATION Spec
CONSTANTS
    MaxEntry = 2
    Links = {2}
    PageSize = 1
    MaxDepth = 2
    MaxChanges = 0
INVARIANT
    PositionIncreases
