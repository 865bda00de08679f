SPECIFICATION FairSpec
CONSTANTS
    Payload <- MCPayload
    Alarms <- MCAlarms
    Slots = 2
    Junk = {255}
    Receives = 3
INVARIANT AlarmsWakeTheRadio
PROPERTIES AlarmsLeaveTheNode ImplementsDelivery
\* main returns, and the alarms are bounded.
CHECK_DEADLOCK FALSE
