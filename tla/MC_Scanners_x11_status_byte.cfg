INIT InitX11Scan
NEXT Next
INVARIANT X11RefusalRecordedIffRefused
CHECK_DEADLOCK FALSE
