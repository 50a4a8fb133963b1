CONSTANTS
  MaxClientId = 3
  MaxClients = 2
  MaxCommands = 1
  MaxReplicationSequence = 1
  SendsMayFail = TRUE
SPECIFICATION CleanFairSpec
PROPERTY
  CommandAnswered
