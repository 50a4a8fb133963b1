CONSTANTS
  LastCommand = 4
  MaxClientId = 2
  MaxCommands = 0
  MaxOutput = 2
  ReorderWindow = 2
  MaxSequence = 4
  MaxAttempts = 2
  MaxInFlight = 3
  MaxTrackedReceived = 1
  SendsMayFail = TRUE
SPECIFICATION MCSpec
INVARIANTS
  TransportTypeOK
  DeliveredInOrder
  AcknowledgedIsKept
  AcknowledgedEventsAreTaken
PROPERTIES
  CommandSettled
  StreamNeverRewinds
CHECK_DEADLOCK FALSE
