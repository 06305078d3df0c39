INIT InitMQTT5Long
NEXT Next
INVARIANT MQTTRecordsConnAck
CHECK_DEADLOCK FALSE
