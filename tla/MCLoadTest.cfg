SPECIFICATION FairLoadSpec
CONSTANTS
  r1 = r1
  o1 = o1
  Events = {r1, o1}
  Partitions = {0, 1}
  LogOf <- OnePartitionEach
  Before <- NoOrder
  Requests = {r1}
  Others = {o1}
  Workers = {w1, w2}
  MaxPolls = 2
  MaxLog = 1
CHECK_DEADLOCK FALSE
INVARIANTS
  LoadTypeOK
  CountsEveryRequest
  CaughtUpMeansProcessed
  StagesInOrder
  CompleteMeansNotified
PROPERTIES
  Terminates
