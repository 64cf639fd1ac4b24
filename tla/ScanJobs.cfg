SPECIFICATION ScanJobsFairSpec
CONSTANTS
    Calls = {c1, c2}
    HasScanner = TRUE
    ScanIds = {1, 2}
    Parts = 2
    MaxRuns = 2
    MaxFaults = 3
INVARIANTS ScanJobsTypeOK CompletedHasItsFindings OneScanPerRun MixedUpOnlyByRetry
PROPERTY AcceptedScanEndsItsRun
CHECK_DEADLOCK FALSE
