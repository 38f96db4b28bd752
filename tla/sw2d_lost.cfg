SPECIFICATION FairSpec
CONSTANTS
    Handles <- MCHandles
    MaxUnread = 2
    DrainMax = 5
    SlowController = FALSE
    ArgSets <- MCAddressGiven
PROPERTY
    DisconnectNoticed
