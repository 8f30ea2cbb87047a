SPECIFICATION BoundedSpec
CONSTANTS
  d1 = d1
  Events = {1, 2}
  RecordOf <- OneRecord
  CreatedAt <- InTurn
  Partitions = {0}
  PartitionOf <- OnePartition
  LogOf <- OneLog
  Relays = {p1}
  BatchSize = 2
  Settings <- Batches
  MaxRelayFaults = 1
  Workers = {w1, w2}
  Undecodable = {2}
  NoMessage = NoMessage
  MaxAttempts = 2
  MaxFaults = 2
CHECK_DEADLOCK FALSE
INVARIANTS
  TypeOK
  CommittedAreProcessed
  OneNotificationPerEvent
  ProcessedInOrder
PROPERTIES
  ImplementsEventDelivery
  EveryChangeAnnounced
