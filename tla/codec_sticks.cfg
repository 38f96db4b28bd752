SPECIFICATION Spec
CONSTANTS
    ReportSet <- MCReportSet
    Payloads <- MCPayloads
    AdvBytes <- MCAdvBytes
    AdvMax = 6
INVARIANT SticksFollowFormat
