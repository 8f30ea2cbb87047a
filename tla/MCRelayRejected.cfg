SPECIFICATION FairSpec
CONSTANTS
  d1 = d1
  Events = {1, 2, 3}
  RecordOf <- OneRecord
  CreatedAt <- Tied
  Partitions = {0}
  PartitionOf <- OnePartition
  Relays = {p1}
  BatchSize = 2
  Settings <- Rejecting
  MaxFaults = 0
CHECK_DEADLOCK FALSE
PROPERTIES
  AcceptedEventsPublished
