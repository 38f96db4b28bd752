SPECIFICATION FairSpec
CONSTANTS
    OfferSets <- MCOfferSets
    Repair = TRUE
INVARIANTS
    TypeOK
    NeverIdle
    NeverStalls
    ReadyIsPaired
    PairInOrder
    HostReadyHasReport
    HostWaitsForAnswer
PROPERTIES
    WaitEnds
    KeepsPromise
