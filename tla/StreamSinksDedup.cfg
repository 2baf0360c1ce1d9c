CONSTANTS
  MaxTopic = 2
  MaxPerTrigger = 2
  Chunk = 1
  MaxFaults = 2
  EventOf <- MCEventOf
  Unset = Unset

SPECIFICATION Spec
CHECK_DEADLOCK FALSE
INVARIANT OneRowPerEvent
