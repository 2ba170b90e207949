----------------------------- MODULE MCLuaStack -----------------------------
(* LuaStack with a stack of at most three slots, lua_checkstack granting  *)
(* two, and the indexes around both ends of the stack and the             *)
(* pseudo-indexes (LUA_GLOBALSINDEX - 1 is an upvalue index).             *)
EXTENDS LuaStack

MCIndexes == (-4..4) \cup {LUA_REGISTRYINDEX, LUA_GLOBALSINDEX,
                            LUA_GLOBALSINDEX - 1}
MCCounts == {-1, 0, 1, 2}
====
