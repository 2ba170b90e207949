\* The stack wrappers with bytes2string's malloc and GetStringUTFChars able
\* to fail.  Once L->top is below the base nothing more is explored, so
\* deadlock is not checked.
CONSTANTS
  MinStack = 1
  MaxCStack = 2
  MaxTop = 3
  Strs = {"1", "x"}
  NumStrs = {"1"}
  Indexes <- MCIndexes
  Counts <- MCCounts
  MallocFails = {TRUE, FALSE}
SPECIFICATION Spec
PROPERTIES
  ThrowLeavesState
CHECK_DEADLOCK FALSE
