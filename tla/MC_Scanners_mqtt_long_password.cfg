INIT InitMQTT3LongPass
NEXT Next
INVARIANT MQTTConnectLengthEncoded
CHECK_DEADLOCK FALSE
