SPECIFICATION FairSpec
CONSTANTS
    Handles <- MCHandles
    MaxUnread = 2
    DrainMax = 2
    SlowController = TRUE
    ArgSets <- MCArgSets
INVARIANTS
    TypeOK
    NoCreateWhilePending
    AttOnEncrypted
    PairingLinkKnown
    CleanWithoutCancel
PROPERTIES
    AttemptEnds
    SignalEnds
    QueuedDisconnectEnds
