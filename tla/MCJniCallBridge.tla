-------------------------- MODULE MCJniCallBridge --------------------------
(* Model-checking instance of JniCallBridge: one thread, a stack deep     *)
(* enough for a native call, its protected Lua code, a Java callback and  *)
(* a nested native call with its own Lua code.                            *)
EXTENDS JniCallBridge

MCMaxDepth == 20
=============================================================================
