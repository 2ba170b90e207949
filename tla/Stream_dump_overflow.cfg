\* jcall_dump of a function whose prototype is longer than the array.
CONSTANTS
  BufLen <- MCBufLen
  DumpBlocks <- MCDumpBlocks
  MaxCalls <- MCMaxCalls
SPECIFICATION Spec
INVARIANTS
  WriteFitsBuffer
