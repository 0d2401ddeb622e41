SPECIFICATION Spec
CONSTANTS
  Writer <- MCWriter
  Worker <- OneWorker
  Thread <- OneThread
  Key <- MCKey
  Table <- MCTable
  TableOf <- MCTableOf
  Workloads <- PutDeletePut
  GroupSize = 2
  BigBatch = 2
  LastGroup = 5
  MaxReq = 2
  SlowTrigger = 2
  SlowLow = 1
  MaxSeq = 99
INVARIANTS
  ValueSeen
CHECK_DEADLOCK FALSE
