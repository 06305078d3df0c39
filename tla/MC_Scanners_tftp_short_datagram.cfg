INIT InitTFTPShort
NEXT Next
INVARIANT TFTPScanReturns
CHECK_DEADLOCK FALSE
