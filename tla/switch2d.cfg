SPECIFICATION FairSpec
CONSTANTS
    ConnectRetries = 2
    GattRetries = 2
    GattTables <- MCGattTables
    Handle45 = "7492866c"
    ScannerMayFail = TRUE
    DisconnectMayFail = TRUE
    ReportCap = 2
    ArgSets <- MCAllArgs
    MaxExponent = 1
INVARIANTS
    TypeOK
    NoForgottenLink
    ReleasedAtExit
    ClosedDeviceQuiet
    StreamIsReady
    DiagnosePassIsReal
    WinnerHeardItself
    
PROPERTIES
    ShutdownEnds
    Reconnects
    MaxReportsEnds
