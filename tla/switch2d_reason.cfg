SPECIFICATION Spec
CONSTANTS
    ConnectRetries = 2
    GattRetries = 2
    GattTables <- MCGattTables
    Handle45 = "7492866c"
    ScannerMayFail = FALSE
    DisconnectMayFail = FALSE
    ReportCap = 2
    ArgSets <- MCAutoArgs
    MaxExponent = 1
INVARIANT
    FailureReasonIsTrue
