\* Error isolation when every metamethod reached from a native is protected.
CONSTANTS
  MaxDepth <- MCMaxDepth
  GettableKinds = {"raw"}
  PairGetInputs = {"table", "other", "noref"}
  Hosts = {"java"}
  PushFails = {FALSE}
SPECIFICATION Spec
INVARIANTS
  ErrorCaughtInsideBoundary
