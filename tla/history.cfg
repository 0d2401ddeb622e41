SPECIFICATION Spec
CONSTANTS
  Writer <- MCWriter
  Worker <- OneWorker
  Thread <- OneThread
  Key <- MCKey
  Table <- MCTable
  TableOf <- MCTableOf
  Workloads <- Histories
  GroupSize = 2
  BigBatch = 2
  LastGroup = 5
  MaxReq = 2
  SlowTrigger = 2
  SlowLow = 1
  MaxSeq = 99
INVARIANTS
  GroupCount
  TrxnLogged
  ReadsRight
  NRSExact
  KBRefExact
  BlockKept
  CleanKey
PROPERTIES
  TrxnGroupsSpec
CHECK_DEADLOCK FALSE
