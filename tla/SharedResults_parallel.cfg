\* Two threads, each on its own LuaState, calling natives whose result
\* variables are process globals (equal, lessthan, getmetafield) and
\* thread-local ones.
CONSTANTS
  t1 = t1
  t2 = t2
  Threads <- MCThreads
  Vals <- MCVals
  InFname = InFname
  Garbage = Garbage
  Natives = {"equal", "lessthan", "getmetafield", "gc", "next", "tostring"}
SPECIFICATION Spec
INVARIANTS
  ReturnsOwnResult
