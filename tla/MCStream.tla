------------------------------ MODULE MCStream ------------------------------
(* Model-checking instance of Stream.  The 1024-byte array is scaled down  *)
(* to 4; lua_dump's blocks are a short header and a function prototype   *)
(* longer than the array, as LuaJIT writes for any function of more than  *)
(* about 250 bytecode instructions.                                       *)
EXTENDS Stream

MCBufLen == 4
MCDumpBlocks == {1, 5}
MCMaxCalls == 3
=============================================================================
