------------------------------ MODULE LuaStack ------------------------------
(***************************************************************************)
(* The single-step stack wrappers of jnlua.c: the natives behind           *)
(* LuaState.push*, is*, type, to*, copy, insert, pop, pushValue, remove,   *)
(* replace and setTop.  Each runs one Lua API call between JNLUA_ENV_L and *)
(* JNLUA_DETACH_L, behind the index and stack checks of jnlua.c            *)
(* (validindex, checkindex, checkrealindex, checkstack, checknelems),      *)
(* which throw a Java exception instead of calling Lua.                    *)
(*                                                                         *)
(* The Lua stack is a sequence of values; the registry and the globals     *)
(* table, reached through the pseudo-indexes, are two more values.  A      *)
(* value is a record of its Lua type and a small payload; a number is      *)
(* named by its decimal string.  The Lua API calls do what LuaJIT's        *)
(* lj_api.c does for the indexes the checks let through.                   *)
(***************************************************************************)
EXTENDS Integers, SequencesExt

CONSTANTS
  MinStack,     \* JNLUA_MINSTACK: the room the push wrappers ask for
  MaxCStack,    \* LUAI_MAXCSTACK: the most slots lua_checkstack grants
  MaxTop,       \* bound on the stack height explored
  Strs,         \* strings Java pushes
  NumStrs,      \* the members of Strs that are numbers in decimal form
  Indexes,      \* jint indexes Java passes
  Counts,       \* jint counts Java passes to pop
  MallocFails   \* subset of BOOLEAN: bytes2string's malloc, or
                \* GetStringUTFChars, may fail

ASSUME NumStrs \subseteq Strs /\ MallocFails \subseteq BOOLEAN
ASSUME -10001 \notin Indexes  \* see ValueAt
ASSUME MinStack \in Nat \ {0} /\ MaxCStack \in Nat /\ MaxTop \in Nat

LUA_REGISTRYINDEX == -10000
LUA_ENVIRONINDEX  == -10001
LUA_GLOBALSINDEX  == -10002

LUA_TNONE == -1
TypeCode == [nil |-> 0, boolean |-> 1, number |-> 3, string |-> 4, table |-> 5]

Nil       == [t |-> "nil", v |-> "nil"]
Bool(b)   == [t |-> "boolean", v |-> b]
Num(n)    == [t |-> "number", v |-> n]
Str(s)    == [t |-> "string", v |-> s]
Registry  == [t |-> "table", v |-> "registry"]
Globals   == [t |-> "table", v |-> "globals"]
None      == [t |-> "none", v |-> "none"]

Values == {Nil, Registry, Globals} \cup {Bool(b) : b \in BOOLEAN}
          \cup {Num(n) : n \in NumStrs} \cup {Str(s) : s \in Strs}

VARIABLES
  stk,      \* the Lua stack, bottom first
  reg,      \* the value at LUA_REGISTRYINDEX
  glob,     \* the value at LUA_GLOBALSINDEX (L->env)
  thrown,   \* the last native call left a Java exception pending
  corrupt   \* L->top was moved below L->base

vars == <<stk, reg, glob, thrown, corrupt>>

Top == Len(stk)

\* validindex with the pseudo-index test off by one at the registry index.
validindex_off(i) ==
  IF i < LUA_REGISTRYINDEX
  THEN i \in {LUA_REGISTRYINDEX, LUA_ENVIRONINDEX, LUA_GLOBALSINDEX}
  ELSE LET a == IF i <= 0 THEN Top + i + 1 ELSE i IN a >= 1 /\ a <= Top

\* validindex: a pseudo-index is valid if it is the registry, environment
\* or globals index; any other index, made absolute, lies in 1..top.
validindex(i) ==
  IF i <= LUA_REGISTRYINDEX
  THEN i \in {LUA_REGISTRYINDEX, LUA_ENVIRONINDEX, LUA_GLOBALSINDEX}
  ELSE LET a == IF i <= 0 THEN Top + i + 1 ELSE i IN a >= 1 /\ a <= Top

\* checkrealindex: like validindex, without pseudo-indexes.
checkrealindex(i) == LET a == IF i <= 0 THEN Top + i + 1 ELSE i
                     IN a >= 1 /\ a <= Top

\* lua_checkstack(L, n), as checkstack calls it.
checkstack(n) == Top + n <= MaxCStack

\* The lua_absindex macro of jnlua.c.
lua_absindex(i) == IF i > 0 \/ i <= LUA_REGISTRYINDEX THEN i ELSE Top + i + 1

\* The value LuaJIT's index2adr finds at index i, for the indexes the checks
\* admit (environment excluded); None for a slot above the top.
ValueAt(i) == LET a == lua_absindex(i) IN
  CASE a \in 1..Top             -> stk[a]
    [] i = LUA_REGISTRYINDEX    -> reg
    [] i = LUA_GLOBALSINDEX     -> glob
    [] OTHER                    -> None

\* copyTV into the slot of index i, then pop values off the top (lua_copy
\* pops none, lua_replace one).  Into LUA_GLOBALSINDEX LuaJIT stores the
\* value as L->env, a table or not.
WriteAt(i, v, pop) ==
  /\ LET w == IF i > LUA_REGISTRYINDEX
             THEN [stk EXCEPT ![lua_absindex(i)] = v] ELSE stk
     IN stk' = SubSeq(w, 1, Top - pop)
  /\ reg' = IF i = LUA_REGISTRYINDEX THEN v ELSE reg
  /\ glob' = IF i = LUA_GLOBALSINDEX THEN v ELSE glob

(***************************************************************************)
(* The read wrappers: jcall_type, jcall_isnil, jcall_isnone, ...,          *)
(* jcall_toboolean all have the form                                       *)
(*   !validindex(L, index) ? default : lua_X(L, index)                     *)
(***************************************************************************)
Probes == {"type", "isnil", "isnone", "isnoneornil", "isboolean", "isnumber",
           "isstring", "istable", "isthread", "isfunction", "iscfunction",
           "isjavafunction", "toboolean"}

IsNumber(v) == v.t = "number" \/ (v.t = "string" /\ v.v \in NumStrs)

\* lua_type, lua_isnil, ..., lua_toboolean of a value: 1 or 0, or a type.
Answer(op, v) ==
  CASE op = "type"        -> IF v = None THEN LUA_TNONE ELSE TypeCode[v.t]
    [] op = "isnone"      -> IF v = None THEN 1 ELSE 0
    [] op = "isnil"       -> IF v.t = "nil" THEN 1 ELSE 0
    [] op = "isnoneornil" -> IF v.t \in {"nil", "none"} THEN 1 ELSE 0
    [] op = "isboolean"   -> IF v.t = "boolean" THEN 1 ELSE 0
    [] op = "isnumber"    -> IF IsNumber(v) THEN 1 ELSE 0
    [] op = "isstring"    -> IF v.t \in {"string", "number"} THEN 1 ELSE 0
    [] op = "istable"     -> IF v.t = "table" THEN 1 ELSE 0
    [] op = "toboolean"   -> IF v \in {Nil, Bool(FALSE), None} THEN 0 ELSE 1
    [] OTHER              -> 0     \* no thread or function values here

\* What each wrapper answers for an index validindex rejects.
Default(op) == CASE op = "type" -> LUA_TNONE
                 [] op \in {"isnone", "isnoneornil"} -> 1
                 [] OTHER -> 0

Probe(op, i) == IF ~validindex(i) THEN Default(op) ELSE Answer(op, ValueAt(i))

(***************************************************************************)
(* The wrappers that change the stack.  Each call starts with no Java      *)
(* exception pending (a native is called from Java code) and records       *)
(* whether it ends with one.                                               *)
(***************************************************************************)
Throw == /\ thrown' = TRUE /\ UNCHANGED <<stk, reg, glob, corrupt>>

Ok(s) == /\ stk' = s /\ thrown' = FALSE /\ UNCHANGED <<reg, glob, corrupt>>

\* checkstack(L, JNLUA_MINSTACK), then lua_push*.
Push(v) == IF checkstack(MinStack) THEN Ok(Append(stk, v)) ELSE Throw

jcall_pushboolean == \E b \in BOOLEAN : Push(Bool(b))

jcall_pushnil == Push(Nil)

\* jcall_pushnumber and jcall_pushinteger: an integral value goes through
\* lua_pushinteger, any other through lua_pushnumber; both push a number.
jcall_pushnumber == \E n \in NumStrs : Push(Num(n))

\* bytes2string(L, ba, bl, 2) with no checkstack before it: malloc of the
\* bytes (not for an empty array) fails with LuaMemoryAllocationException
\* and nothing pushed, or lua_pushlstring pushes the string.
jcall_pushbytearray ==
  /\ Top < MaxTop
  /\ \E s \in Strs, fails \in MallocFails :
       IF fails THEN Throw ELSE Ok(Append(stk, Str(s)))

\* checkstack, then getstringchars: a null string throws
\* NullPointerException, a failing GetStringUTFChars throws.
jcall_pushstring ==
  \E s \in Strs \cup {"null"}, fails \in MallocFails :
    IF checkstack(MinStack) /\ s # "null" /\ ~fails
    THEN Ok(Append(stk, Str(s))) ELSE Throw

(***************************************************************************)
(* jcall_pushstr2num(ba, bl): after checkstack, bl = 0 pushes nil.         *)
(* Otherwise bytes2string(L, ba, bl, 0) pushes the string and              *)
(* lua_tonumberx(L, -1) converts it: a number replaces it (lua_pop, then   *)
(* lua_pushnumber), anything else is popped and an Error thrown.  The      *)
(* result of bytes2string is not checked: when its malloc fails it has     *)
(* thrown and pushed nothing, and the conversion and the pop act on the    *)
(* caller's top value, or below the stack's base when it is empty.         *)
(***************************************************************************)
jcall_pushstr2num ==
  \E s \in Strs, fails \in MallocFails :
    \/ /\ ~checkstack(MinStack)
       /\ Throw
    \/ /\ checkstack(MinStack)                  \* bl == 0
       /\ Ok(Append(stk, Nil))
    \/ /\ checkstack(MinStack)
       /\ LET v == IF fails THEN ValueAt(-1) ELSE Str(s) IN IF fails /\ Top = 0
             THEN /\ corrupt' = TRUE /\ thrown' = TRUE
                  /\ UNCHANGED <<stk, reg, glob>>
             ELSE LET below == IF fails THEN Front(stk) ELSE stk
                  IN /\ stk' = IF IsNumber(v) THEN Append(below, Num(v.v))
                               ELSE below
                     /\ thrown' = (fails \/ ~IsNumber(v))
                     /\ UNCHANGED <<reg, glob, corrupt>>

\* checkindex on both indexes, then lua_copy.
jcall_copy ==
  \E from, to \in Indexes :
    IF validindex(from) /\ validindex(to)
    THEN /\ WriteAt(to, ValueAt(from), 0) /\ thrown' = FALSE
         /\ UNCHANGED corrupt
    ELSE Throw

\* checkrealindex, then lua_insert: the top value moves to the index.
jcall_insert ==
  \E i \in Indexes :
    IF checkrealindex(i)
    THEN Ok(InsertAt(Front(stk), lua_absindex(i), Last(stk)))
    ELSE Throw

\* checkarg(n >= 0 && n <= lua_gettop(L)), then lua_pop.
jcall_pop ==
  \E n \in Counts :
    IF n >= 0 /\ n <= Top THEN Ok(SubSeq(stk, 1, Top - n)) ELSE Throw

\* checkstack and checkindex, then lua_pushvalue.
jcall_pushvalue ==
  \E i \in Indexes :
    IF checkstack(MinStack) /\ validindex(i)
    THEN Ok(Append(stk, ValueAt(i))) ELSE Throw

\* checkrealindex, then lua_remove.
jcall_remove ==
  \E i \in Indexes :
    IF checkrealindex(i) THEN Ok(RemoveAt(stk, lua_absindex(i))) ELSE Throw

\* checkindex and checknelems(L, 1), then lua_replace: the top value is
\* copied to the index (resolved before the pop) and popped.
jcall_replace ==
  \E i \in Indexes :
    IF validindex(i) /\ Top >= 1
    THEN /\ WriteAt(i, Last(stk), 1)
         /\ thrown' = FALSE /\ UNCHANGED corrupt
    ELSE Throw

\* jcall_settop without checkstack for the room a larger top adds.
jcall_settop_nocheck ==
  \E i \in Indexes :
    IF i >= 0 \/ checkrealindex(i)
    THEN Ok(IF i >= 0 THEN SubSeq(stk \o [j \in 1..i |-> Nil], 1, i)
            ELSE SubSeq(stk, 1, Top + i + 1))
    ELSE Throw

\* The top of the stack set to the index (lua_settop): a non-negative index
\* after checkstack for the room it adds, a negative one after
\* checkrealindex.
jcall_settop ==
  \E i \in Indexes :
    IF \/ i >= 0 /\ (i <= Top \/ checkstack(i - Top))
       \/ i < 0 /\ checkrealindex(i)
    THEN Ok(IF i >= 0 THEN SubSeq(stk \o [j \in 1..i |-> Nil], 1, i)
            ELSE SubSeq(stk, 1, Top + i + 1))
    ELSE Throw

\* checkindex: validindex, or IllegalArgumentException.
checkindex(i) == validindex(i)

\* jcall_tointeger and jcall_tointegerx: checkindex, then lua_tonumberx;
\* the stack is left as it is.
jcall_tointeger == \E i \in Indexes : IF checkindex(i) THEN Ok(stk) ELSE Throw

\* jcall_tonumber, jcall_tonumberx and jcall_topointer: the same.
jcall_tonumber == \E i \in Indexes : IF checkindex(i) THEN Ok(stk) ELSE Throw

Init == /\ stk = <<>>
        /\ reg = Registry /\ glob = Globals
        /\ thrown = FALSE /\ corrupt = FALSE

\* Once L->top is below L->base the state is beyond the Lua API: nothing
\* more is explored.
Next == /\ ~corrupt
        /\ \/ jcall_pushboolean \/ jcall_pushnil \/ jcall_pushnumber
           \/ jcall_pushbytearray \/ jcall_pushstring \/ jcall_pushstr2num
           \/ jcall_copy \/ jcall_insert \/ jcall_pop \/ jcall_pushvalue
           \/ jcall_remove \/ jcall_replace \/ jcall_settop
           \/ jcall_tointeger \/ jcall_tonumber

Spec == Init /\ [][Next]_vars

-----------------------------------------------------------------------------
TypeOK == /\ stk \in Seq(Values) /\ Len(stk) <= MaxTop
          /\ reg \in Values /\ glob \in Values
          /\ thrown \in BOOLEAN /\ corrupt \in BOOLEAN

\* The Lua manual's index rules (section 3.2): index i names the i-th value
\* from the bottom, -i the i-th from the top, and the pseudo-indexes the
\* registry and the globals table; any other index names no value.
RefValue(i) == CASE i \in 1..Top          -> stk[i]
                 [] -i \in 1..Top         -> Reverse(stk)[-i]
                 [] i = LUA_REGISTRYINDEX -> reg
                 [] i = LUA_GLOBALSINDEX  -> glob
                 [] OTHER                 -> None

\* The index checks of jnlua.c follow the Lua manual at every index Java
\* may pass, pseudo-indexes and the boundaries 0 and -(top+1) included:
\* the read wrappers (validindex ? lua_X : default) answer for the value
\* the index names, or as for none; checkrealindex, which guards insert,
\* remove and settop, admits exactly the indexes of stack slots; and
\* lua_absindex keeps the slot an index names.
IndexRulesMatchManual ==
  /\ \A op \in Probes, i \in Indexes : Probe(op, i) = Answer(op, RefValue(i))
  /\ \A i \in Indexes : checkrealindex(i) <=> (RefValue(i) # None /\ i > LUA_REGISTRYINDEX)
  /\ \A i \in Indexes : RefValue(i) # None => RefValue(lua_absindex(i)) = RefValue(i)

\* A stack wrapper that throws a Java exception has left the Lua stack, the
\* registry and the globals table as they were, as its checks promise by
\* running before the Lua API call.  jcall_pushstr2num breaks it when
\* bytes2string has thrown LuaMemoryAllocationException: the conversion
\* and lua_pop that follow act on the caller's own top value.
ThrowLeavesState == [][thrown' => UNCHANGED <<stk, reg, glob>>]_vars
====
