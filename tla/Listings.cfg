SPECIFICATION Spec
CONSTANTS
    Keys = {1, 2, 3, 4}
    Unfit = {2}
    Long = {3}
    Runes <- MCRunes
    MaxCopies = 2
    MaxLimit = 2
    MaxItems = 5
    PageRunes = 2
INVARIANTS
    InOrderOnce
    StayingListed
    OneCatalogue
    StaleOnlyIfChanged
PROPERTIES
    EveryListingEnds
CHECK_DEADLOCK FALSE
