SPECIFICATION Spec
CONSTANTS
  Writer <- MCWriter
  Worker <- MCWorker
  Thread <- MCThread
  Key <- MCKey
  Table <- MCTable
  TableOf <- MCTableOf
  Workloads <- Concurrent
  GroupSize = 1
  BigBatch = 2
  LastGroup = 5
  MaxReq = 2
  SlowTrigger = 9
  SlowLow = 2
  MaxSeq = 99
INVARIANTS
  InsdbTypeOK
  RangesExact
  HeaderHoldsGroup
  NRSExact
  KBRefExact
  BlockKept
  ReadsRight
CHECK_DEADLOCK FALSE
