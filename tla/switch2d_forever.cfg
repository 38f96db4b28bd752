SPECIFICATION Spec
CONSTANTS
    ConnectRetries = 1
    GattRetries = 1
    GattTables <- MCNoInputTable
    Handle45 = "7492866c"
    ScannerMayFail = FALSE
    DisconnectMayFail = FALSE
    ReportCap = 1
    ArgSets <- MCDaemonArgs
    MaxExponent = 1023
INVARIANT
    DaemonRunsForever
