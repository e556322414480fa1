\* Three entries in pages of two, changed once.
SPECIFICATION FairSpec
CONSTANTS
    MaxEntry = 3
    Links = {2}
    PageSize = 2
    MaxDepth = 3
    MaxChanges = 1
INVARIANTS
    ListingInv
    NothingIsMissed
    ListedInOrder
PROPERTY
    DotListingEnds
