SPECIFICATION Spec
CONSTANTS
    ReportSet <- MCReportSet
    Payloads <- MCPayloads
    AdvBytes <- MCAdvBytes
    AdvMax = 6
INVARIANTS
    TypeOK
    HatAgreesWithButtons
    LastReportKept
    UhidMatchesDescriptor
    AxesFollowSticks
    FramesAgree
    AdvWalkSound
