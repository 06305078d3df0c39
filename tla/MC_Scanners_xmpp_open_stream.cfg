INIT Init
NEXT Next
INVARIANT XMPPStreamHeaderIsSuccess
CHECK_DEADLOCK FALSE
