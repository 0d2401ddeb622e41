SPECIFICATION Spec
CONSTANTS
  Writer <- MCWriter
  Worker <- MCWorker
  Thread <- MCThread
  Key <- MCKey
  Table <- MCTable
  TableOf <- MCTableOf
  Workloads <- PutPut
  GroupSize = 2
  BigBatch = 2
  LastGroup = 5
  MaxReq = 2
  SlowTrigger = 2
  SlowLow = 1
  MaxSeq = 99
INVARIANTS
  LateSeen
CHECK_DEADLOCK FALSE
