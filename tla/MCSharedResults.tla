-------------------------- MODULE MCSharedResults --------------------------
(* Model-checking instance of SharedResults: two Java threads, each on its *)
(* own LuaState, and two answers a body can compute (0 and 1), enough for  *)
(* two calls to compute different answers.                                 *)
EXTENDS SharedResults

CONSTANTS t1, t2

MCThreads == {t1, t2}
MCVals == {0, 1}
====
