SPECIFICATION FairSpec
CONSTANTS
    OfferSets <- MCFull
    Repair = TRUE
INVARIANTS
    CharsNotSwapped
