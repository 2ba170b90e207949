\* Nested natives from Java callbacks, with unprotected metamethods present.
CONSTANTS
  MaxDepth <- MCMaxDepth
  GettableKinds = {"raw", "metamethod"}
  PairGetInputs = {"table", "noref"}
  Hosts = {"java"}
  PushFails = {FALSE}
SPECIFICATION FairSpec
INVARIANTS
  TypeOK
  EnvNestingExact
  ExceptionNotPendingInLua
  JavaFunctionRefKept
PROPERTIES
  ErrorReachesJava
