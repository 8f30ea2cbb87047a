SPECIFICATION FairSpec
CONSTANTS
  d1 = d1
  Events = {1, 2, 3}
  RecordOf <- OneRecord
  CreatedAt <- Tied
  Partitions = {0}
  PartitionOf <- OnePartition
  Relays = {p1, p2}
  BatchSize = 2
  Settings <- MCSettings
  MaxFaults = 1
CHECK_DEADLOCK FALSE
INVARIANTS
  TypeOK
  RecordsInOrder
  PublishedInTopic
  PublishedInOrder

  
