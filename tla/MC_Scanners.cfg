INIT Init
NEXT Next
INVARIANTS
    FindCommonMeetsReference
    AgreedAlgorithmsMeetReference
    GuessKeptOnlyIfAgreed
    MQTTRemainingLengthDecoded
    RADIUSRequestWellFormed
    RFBRecordsRFBBanner
    CassandraStartupThenBanner
CHECK_DEADLOCK FALSE
