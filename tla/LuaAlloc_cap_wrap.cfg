\* One limited state, and a request larger than the whole limit.
CONSTANTS
  A = A
  B = B
  States = {A}
  NoState = NoState
  Cap <- MCCap
  BlockIds <- MCBlockIds
  RequestSizes = {2, 12}
  SizeBits <- MCSizeBits
  IntBits <- MCIntBits
  MallocResults = {"ptr"}
SPECIFICATION Spec
INVARIANTS
  MemoryCapRespected
