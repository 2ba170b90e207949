---------------------------- MODULE MetadataCache ----------------------------
(***************************************************************************)
(* The metadata cache of jnlua.c for one Lua state: the per-class table in *)
(* the registry (also the environment of every object of the class), the   *)
(* __index function findjavafunction that reads it, and the natives the    *)
(* Java resolver calls to fill it: jcall_pushmetafunction (an accessor)    *)
(* and jcall_set_negative_cache (the negative-cache marker).               *)
(*                                                                         *)
(* An entry's tag is "none", "neg" (the lightuserdata marker), "cfn" (a   *)
(* C function without upvalues) or "closure", made by pushjavaobject over a*)
(* JavaFunction.  lua_pushcclosure(L, calljavafunction, 3) takes the three *)
(* values on the stack in push order: upvalue 1 is the userdata, upvalue 2 *)
(* the boolean call_type == 3, upvalue 3 the class name (the comments at   *)
(* 1174-1177 number them otherwise).  `obj` says what the JavaFunction is: *)
(* a field accessor, a method, or a java module helper.                    *)
(***************************************************************************)
EXTENDS Naturals

CONSTANTS
  Classes, Keys, ClassNameKey,
  MetaCKeys,    \* JNI_GC, FIELD_LIST, METHOD_LIST, PROPERTIES
  MetaJKeys,    \* TO_TABLE, TO_LUA
  JavaModule,   \* _G.java is a table when a class is first seen
  Truth,        \* the Java resolver's view of each member (as in the spec)
  MaxResolves   \* bound on resolver runs per class and key

ASSUME MetaCKeys \cup MetaJKeys \cup {ClassNameKey} \subseteq Keys
ASSUME JavaModule \in BOOLEAN /\ MaxResolves \in Nat \ {0}

VARIABLES
  created,   \* classes whose table registry[className] exists
  entry,     \* entry[c][k]: the value of registry[className][k]
  resolves,  \* resolves[c][k]: runs of the Java resolver for (c, k)
  answer     \* the last __index and what it gave Lua: <<c, k, a>>, or <<>>

vars == <<created, entry, resolves, answer>>

Tagged(t) == [tag |-> t]
Closure(what, type) ==
  [tag |-> "closure", obj |-> what, up2 |-> type = 3]

\* What Lua gets when findjavafunction returns the closure, and when it
\* calls it with (obj, key) instead.
Returned(e) == CASE e.obj = "method" -> "method"
                 [] e.obj = "helper" -> "fn"
                 [] e.obj = "field"  -> "accessor"
Called(e) == IF e.obj = "field" THEN "value" ELSE "invoked"

\* precache_metadata_functions on a new class table: the four metamethods
\* of the object metatable, and java.totable / java.tolua when _G.java is
\* a table (rawget, so the java module is never loaded by this).
Precached ==
  [k \in Keys |-> IF k \in MetaCKeys THEN Tagged("cfn")
                  ELSE IF k \in MetaJKeys /\ JavaModule
                       THEN Closure("helper", 2) ELSE Tagged("none")]

\* The class-table step of pushmetafunction_protected: registry[className]
\* and JNLUA_OBJECT_META[className] get a new table holding CLASS_NAME, and
\* precache_metadata_functions fills it.
EnsureClass(c) ==
  IF c \in created THEN <<created, entry[c]>>
  ELSE <<created \cup {c}, Precached>>

\* jcall_pushjavaobject: pushmetafunction_protected with no method and
\* call_type 1 creates the class table if needed; pushjavaobject then
\* makes the table the new object's environment.
jcall_pushjavaobject(c) ==
  /\ created' = EnsureClass(c)[1]
  /\ entry' = [entry EXCEPT ![c] = EnsureClass(c)[2]]
  /\ UNCHANGED <<resolves, answer>>

\* jcall_pushmetafunction for (c, k) with call_type t: the accessor pushed
\* by pushjavaobject is stored with lua_settable in the class table.  With
\* call_type 3 the protected body returns no value.
pushmetafunction_protected(c, k, what, t) ==
  /\ created' = EnsureClass(c)[1]
  /\ entry' = [entry EXCEPT ![c] = [EnsureClass(c)[2] EXCEPT ![k] = Closure(what, t)]]

\* jcall_set_negative_cache: class_table[key] = marker if the class table
\* exists.
jcall_set_negative_cache(c, k) ==
  /\ entry' = IF c \in created THEN [entry EXCEPT ![c][k] = Tagged("neg")] ELSE entry
  /\ UNCHANGED created

(***************************************************************************)
(* The Java resolver behind JNLUA_OBJECT_INDEX (not in this repository):   *)
(* for a missing member it marks the key absent and returns nil; for a     *)
(* field it stores the field accessor (call_type 3, no value returned) and *)
(* returns the field's value; for a method it stores and returns the       *)
(* method's JavaFunction (call_type 2).                                    *)
(***************************************************************************)
Member(t) == IF t = "value" THEN "field" ELSE "method"
CallType(t) == IF t = "value" THEN 3 ELSE 2

JavaResolve(c, k) ==
  /\ resolves[c][k] < MaxResolves
  /\ resolves' = [resolves EXCEPT ![c][k] = @ + 1]
  /\ \/ /\ Truth[c][k] = "absent"
        /\ jcall_set_negative_cache(c, k)
     \/ /\ Truth[c][k] # "absent"
        /\ pushmetafunction_protected(c, k, Member(Truth[c][k]),
                                      CallType(Truth[c][k]))
  /\ answer' = <<c, k, Truth[c][k]>>

\* findjavafunction reads the field flag with lua_getupvalue(L, -1, 2) and
\* lua_toboolean: the boolean call_type == 3.
FieldFlag(e) == e.up2

\* findjavafunction without its negative-cache test: the marker is then a
\* non-function value and the lookup falls back to Java.
IsNegativeHit_none(e) == FALSE

IsNegativeHit(e) == e.tag = "neg"

\* findjavafunction(obj, k) for an object of class c, whose environment is
\* the class table.
findjavafunction(c, k) ==
  LET e == entry[c][k] IN
  /\ c \in created
  /\ \/ /\ k = ClassNameKey                          \* return the class name
        /\ answer' = <<c, k, "name">>
        /\ UNCHANGED <<created, entry, resolves>>
     \/ /\ k # ClassNameKey /\ IsNegativeHit(e)       \* negative cache hit
        /\ answer' = <<c, k, "absent">>
        /\ UNCHANGED <<created, entry, resolves>>
     \/ /\ k # ClassNameKey /\ e.tag = "cfn"          \* no upvalue 2
        /\ answer' = <<c, k, "fn">>
        /\ UNCHANGED <<created, entry, resolves>>
     \/ /\ k # ClassNameKey /\ e.tag = "closure"      \* cached JavaFunction
        /\ answer' = <<c, k, IF FieldFlag(e) THEN Called(e) ELSE Returned(e)>>
        /\ UNCHANGED <<created, entry, resolves>>
     \/ /\ k # ClassNameKey                          \* miss: fall back to
        /\ e.tag \notin {"closure", "cfn"}           \* JNLUA_OBJECT_INDEX
        /\ ~IsNegativeHit(e)
        /\ JavaResolve(c, k)

Init == /\ created = {}
        /\ entry = [c \in Classes |-> [k \in Keys |-> Tagged("none")]]
        /\ resolves = [c \in Classes |-> [k \in Keys |-> 0]]
        /\ answer = <<>>

Next == \E c \in Classes : \/ jcall_pushjavaobject(c)
                           \/ \E k \in Keys : findjavafunction(c, k)

Spec == Init /\ [][Next]_vars

-----------------------------------------------------------------------------
\* The answer the cache holds for an entry, as the resolve contract sees it.
Known(e) == CASE e.tag = "none" -> "unknown"
              [] e.tag = "neg"  -> "absent"
              [] e.tag = "cfn"  -> "fn"
              [] OTHER          -> CASE e.obj = "field"  -> "value"
                                 [] e.obj = "method" -> "method"
                                 [] e.obj = "helper" -> "fn"

Abstract == INSTANCE MetadataCacheSpec
              WITH seen <- created,
                   known <- [c \in Classes |-> [k \in Keys |-> Known(entry[c][k])]],
                   PrecachedKeys <- MetaCKeys \cup
                                    (IF JavaModule THEN MetaJKeys ELSE {})

\* The cache implements its contract: every __index of a Java object
\* answers what the resolver answers for the member (an absent member nil,
\* a field its value, a method the method), the resolver runs at most once
\* per class and member (negative-cache convergence), and a new class
\* starts with its metadata functions.
ImplementsResolveContract == Abstract!Spec
=============================================================================
