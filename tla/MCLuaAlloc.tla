----------------------------- MODULE MCLuaAlloc -----------------------------
(* Model-checking instance of LuaAlloc.  Sizes are scaled down: a 5-bit   *)
(* jint and a 6-bit size_t keep the conversions between them (a jint      *)
(* narrower than size_t, wrap-around below zero) while TLC enumerates.    *)
EXTENDS LuaAlloc

CONSTANTS A, B

MCCap == 10
MCBlockIds == {1, 2, 3}
MCSizeBits == 6
MCIntBits == 5
=============================================================================
