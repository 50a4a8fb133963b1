CONSTANTS
  MaxClientId = 3
  MaxClients = 2
  MaxCommands = 3
  MaxReplicationSequence = 2
  SendsMayFail = TRUE
  DeliveryMayFail = TRUE
  MaxConnections = 3
  MaxTick = 4
  SavedPlayers = 1
  Sources = {1, 2}
  Messages = {1, 2, 3}
  SourceOf <- SourceOfMessage
  Fragments <- FragmentsOfMessage
  MaxPendingPackets = 2
  MaxPendingBytes = 4
  PacketTimeout = 2
  MaxPackets = 3
  MaxCopies = 1
SPECIFICATION MCSpec
CONSTRAINT WideOrDeep
INVARIANTS
  TypeOK
  NoClientFault
  DeltaAfterItsEvents
  CommandInOnePlace
  EventsInCommitOrder
  CommandsHandledInOrder
  OneSequencePerCommit
  PlayersAreShown
  PacketsAreWhole
  BudgetIsExact
