CONSTANTS
  MinStack = 1
  MaxCStack = 2
  MaxTop = 3
  Strs = {"1", "x"}
  NumStrs = {"1"}
  Indexes <- MCIndexes
  Counts <- MCCounts
  MallocFails = {FALSE}
SPECIFICATION Spec
INVARIANTS
  TypeOK
  IndexRulesMatchManual
