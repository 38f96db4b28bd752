SPECIFICATION FairSpec
CONSTANTS
    Handles = {0, 64}
    MaxUnread = 3
    PollMax = 5
    MaxBackoff = 16
INVARIANTS
    TypeOK
    SplitReadIsBlind
    SuccessWasConnected
PROPERTIES
    ProgramEnds
    SignalEndsOrBlocks
