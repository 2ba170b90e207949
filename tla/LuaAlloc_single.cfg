\* One limited state on the thread, requests no larger than the limit.
\* Once its only LuaState is closed the thread has nothing left to run.
CONSTANTS
  A = A
  B = B
  States = {A}
  NoState = NoState
  Cap <- MCCap
  BlockIds <- MCBlockIds
  RequestSizes = {1, 2, 3, 5}
  SizeBits <- MCSizeBits
  IntBits <- MCIntBits
  MallocResults = {"ptr"}
SPECIFICATION Spec
INVARIANTS
  AccountingExact
  MemoryCapRespected
CHECK_DEADLOCK FALSE
