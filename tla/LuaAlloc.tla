------------------------------ MODULE LuaAlloc ------------------------------
(***************************************************************************)
(* The memory-capped allocator of jnlua.c (l_alloc) and the thread-local   *)
(* luastate_obj it charges.                                                *)
(*                                                                         *)
(* A LuaState created with a memory limit runs LuaJIT with l_alloc, which  *)
(* reads the cap (luaMemoryTotal) and the counter (luaMemoryUsed) from the *)
(* Java object in luastate_obj and writes the counter back.  luastate_obj  *)
(* is one per thread, set by jcall_newstate and getluastate, not one per   *)
(* Lua state.  The arithmetic is C's: the cap and counter are jint, sizes  *)
(* are size_t, and a mixed expression is computed in size_t.               *)
(***************************************************************************)
EXTENDS Integers, Functions

CONSTANTS
  States,        \* Java LuaState objects created on one thread
  NoState,       \* luastate_obj before any jcall_newstate on the thread
  Cap,           \* luaMemoryTotal of every state (the memory limit)
  BlockIds,      \* the memory blocks a state may hold at once
  RequestSizes,  \* block sizes LuaJIT asks l_alloc for
  SizeBits,      \* width of size_t
  IntBits,       \* width of jint
  MallocResults  \* subset of {"ptr", "NULL"}: what malloc/realloc may return

ASSUME Cap \in Nat /\ Cap > 0
ASSUME RequestSizes \subseteq Nat \ {0}
ASSUME IntBits \in Nat /\ SizeBits \in Nat /\ 1 < IntBits /\ IntBits <= SizeBits
ASSUME Cap < 2^(IntBits - 1)
ASSUME MallocResults \subseteq {"ptr", "NULL"} /\ "ptr" \in MallocResults

VARIABLES
  cur,      \* luastate_obj of the thread
  live,     \* states opened by jcall_newstate and not yet closed
  closed,   \* states closed by jcall_close
  blocks,   \* blocks[s][b]: size of block b of state s, 0 when not held
  used      \* used[s]: the luaMemoryUsed field of state s

vars == <<cur, live, closed, blocks, used>>

\* Conversion of an integer to size_t, and of a size_t to jint
\* (two's complement truncation, as the JVM's SetIntField sees it).
ToSize(x) == x % (2^SizeBits)
ToJint(x) == LET m == x % (2^IntBits)
             IN IF m >= 2^(IntBits - 1) THEN m - 2^IntBits ELSE m

(***************************************************************************)
(* l_alloc(ud, ptr, osize, nsize) for block b of state s: osize is the     *)
(* block's current size (0 for ptr == NULL).  getluamemory reads total and *)
(* used of luastate_obj; setluamemoryused writes used back to it.  A       *)
(* refused request returns NULL without any change: LuaJIT then raises     *)
(* LUA_ERRMEM, a Lua error of the caller (JniCallBridge).                  *)
(***************************************************************************)
Charge(v) == used' = [used EXCEPT ![cur] = ToJint(v)]

\* The block after `return malloc(nsize)` or `return realloc(ptr, nsize)`,
\* which run after the counter was already updated; on NULL the block keeps
\* its old size.
Charged(s, b, n) == \E r \in MallocResults :
                      blocks' = IF r = "ptr" THEN [blocks EXCEPT ![s][b] = n]
                                ELSE blocks

\* The realloc branch with the comparison of its shrink test reversed.
ReallocOk_reversed(osize, nsize, total, u) ==
  nsize >= osize \/ ToSize(total - ToSize(nsize - osize)) >= ToSize(u)

\* Lua expects a shrinking realloc never to fail; a growing one is charged
\* only for the growth.
ReallocOk(osize, nsize, total, u) ==
  nsize <= osize \/ ToSize(total - ToSize(nsize - osize)) >= ToSize(u)

\* The free branch subtracting the new size instead of the old one.
FreeAmount_nsize(osize, nsize) == nsize

FreeAmount(osize, nsize) == osize

l_alloc(s, b, nsize) ==
  LET total == Cap
      u == used[cur]
      osize == blocks[s][b]
  IN /\ cur \in States
     /\ \/ /\ nsize = 0 /\ osize > 0                  \* free(ptr)
           /\ blocks' = [blocks EXCEPT ![s][b] = 0]
           /\ Charge(u - FreeAmount(osize, nsize))
        \/ /\ nsize > 0 /\ osize = 0                  \* ptr == NULL: malloc
           /\ total >= 0 /\ ToSize(total - nsize) >= ToSize(u)
           /\ Charge(u + nsize)
           /\ Charged(s, b, nsize)
        \/ /\ nsize > 0 /\ osize > 0                  \* realloc
           /\ ReallocOk(osize, nsize, total, u)
           /\ Charge(u + ToSize(nsize - osize))
           /\ Charged(s, b, nsize)
     /\ UNCHANGED <<cur, live, closed>>

\* LuaJIT of a live state allocates, resizes or frees one of its blocks.
LuaAllocates ==
  \E s \in live, b \in BlockIds, n \in RequestSizes \cup {0} : l_alloc(s, b, n)

\* jcall_newstate for a state with a memory limit: luastate_obj = obj, then
\* controlled_newstate opens a Lua state on l_alloc (its own allocations
\* are LuaAllocates steps of the new state).
jcall_newstate(s) ==
  /\ s \notin live \cup closed
  /\ cur' = s
  /\ live' = live \cup {s}
  /\ UNCHANGED <<closed, blocks, used>>

\* jcall_close with ownstate: getluastate(obj) makes obj luastate_obj, and
\* lua_close frees every block of the state through l_alloc.
jcall_close(s) ==
  /\ s \in live
  /\ cur' = s
  /\ live' = live \ {s}
  /\ closed' = closed \cup {s}
  /\ blocks' = [blocks EXCEPT ![s] = [b \in BlockIds |-> 0]]
  /\ used' = [used EXCEPT ![s] = ToJint(used[s] - SumFunction(blocks[s]))]

Init == /\ cur = NoState
        /\ live = {}
        /\ closed = {}
        /\ blocks = [s \in States |-> [b \in BlockIds |-> 0]]
        /\ used = [s \in States |-> 0]

Next == \/ LuaAllocates
        \/ \E s \in States : jcall_newstate(s) \/ jcall_close(s)

Spec == Init /\ [][Next]_vars

-----------------------------------------------------------------------------
\* The luaMemoryUsed field of every state opened on the thread equals the
\* bytes its Lua state holds: l_alloc charges each malloc, realloc and
\* free, and lua_close returns the counter to zero.
AccountingExact ==
  \A s \in live \cup closed : used[s] = SumFunction(blocks[s])

\* No state holds more than its memory limit: l_alloc refuses every
\* request that would take the state past luaMemoryTotal.
MemoryCapRespected ==
  \A s \in live : SumFunction(blocks[s]) <= Cap
=============================================================================
