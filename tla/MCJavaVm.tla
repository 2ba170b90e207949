------------------------------ MODULE MCJavaVm ------------------------------
(* Model-checking instance of JavaVm: two Java objects pushed into Lua.   *)
EXTENDS JavaVm

CONSTANTS o1, o2
=============================================================================
