--------------------------- MODULE SharedResults ---------------------------
(***************************************************************************)
(* The result slots of the jcall_* natives of jnlua.c that compute their   *)
(* answer under JNLUA_PCALL.  A native cannot return a value out of        *)
(* lua_pcall, so its protected function writes the answer to a C variable  *)
(* <name>_result, and the native reads that variable after JNLUA_PCALL and *)
(* JNLUA_DETACH_L have run.  Most of these variables are JNLUA_THREADLOCAL *)
(* (always __thread, _Thread_local or __declspec(thread)); equal_result,   *)
(* lessthan_result and getmetafield_result are plain process globals.      *)
(*                                                                         *)
(* Each Java thread calls natives on a Lua state of its own, which the     *)
(* concurrency model allows to run in parallel.  A call has three steps,   *)
(* and other threads interleave between them:                              *)
(*   Call    JNLUA_ENV_L, the handler's reset of the slot, and its checks  *)
(*   Body    the protected function, which writes the slot or raises       *)
(*   Return  releasestringchars, then the read of the slot (through        *)
(*           NewStringUTF when the slot holds a C string)                  *)
(* A Lua error inside the body, or a failing check, leaves a Java          *)
(* exception pending, and Java then ignores the value returned.            *)
(***************************************************************************)
EXTENDS Integers, FiniteSets

CONSTANTS
  Threads,   \* Java threads, each calling natives on its own LuaState
  Natives,   \* the natives the threads call, a subset of AllNatives
  Vals,      \* answers a protected body can compute; 0 is 0 or NULL
  InFname,   \* model value: a pointer into the UTF chars of findtable's fname
  Garbage    \* model value: what a read of released JNI chars yields

VARIABLES
  pc,     \* [Threads -> {"idle", "body", "after"}]
  nat,    \* [Threads -> the native the thread is in]
  slot,   \* [SlotIds -> the value in each <name>_result variable]
  own,    \* [Threads -> the answer the thread's current call computed]
  got,    \* [Threads -> the value the thread's last call returned]
  excp,   \* [Threads -> a Java exception is pending on the thread]
  chars   \* [Threads -> "none", "held" or "released": the UTF chars of the
          \*  string argument, from getstringchars to releasestringchars]

vars == <<pc, nat, slot, own, got, excp, chars>>

(***************************************************************************)
(* The shape of each handler.  scope: where its result variable lives.     *)
(* zeroOnInvalid: an invalid index stores 0 without an exception.          *)
(* reset: what the handler stores in the slot before its checks ("none",   *)
(* "null", or "input" for the narg argument).  strarg: it holds           *)
(* getstringchars of a string argument until after JNLUA_PCALL.  cstr: the *)
(* slot is a char * that the native hands to NewStringUTF.  results: what  *)
(* the protected body may store.                                           *)
(***************************************************************************)
Shape(scope, zero, reset, strarg, cstr, results) ==
  [scope |-> scope, zeroOnInvalid |-> zero, reset |-> reset,
   strarg |-> strarg, cstr |-> cstr, results |-> results]

jcall_gc             == Shape("thread", FALSE, "none", FALSE, FALSE, Vals)
jcall_isjavaobject   == Shape("thread", TRUE, "none", FALSE, FALSE, Vals)
jcall_equal          == Shape("process", TRUE, "none", FALSE, FALSE, Vals)
jcall_lessthan       == Shape("process", TRUE, "none", FALSE, FALSE, Vals)
jcall_tojavafunction == Shape("thread", FALSE, "none", FALSE, FALSE, Vals)
jcall_tojavaobject   == Shape("thread", FALSE, "null", FALSE, FALSE, Vals)
jcall_tostring       == Shape("thread", FALSE, "null", FALSE, TRUE, Vals)
\* luaL_findtable answers NULL, or a pointer to the part of fname where it
\* met a field that is not a table.
jcall_findtable      == Shape("thread", FALSE, "null", TRUE, TRUE, {0, InFname})
jcall_next           == Shape("thread", FALSE, "none", FALSE, FALSE, Vals)
jcall_getmetafield   == Shape("process", FALSE, "none", TRUE, FALSE, Vals)
jcall_ref            == Shape("thread", FALSE, "none", FALSE, FALSE, Vals)
jcall_getinfo        == Shape("thread", FALSE, "none", TRUE, FALSE, Vals)
jcall_funcname       == Shape("thread", FALSE, "null", FALSE, TRUE, Vals)
jcall_narg           == Shape("thread", FALSE, "input", FALSE, FALSE, Vals)
jcall_tablesize      == Shape("thread", FALSE, "none", FALSE, FALSE, Vals)

Handler == [gc |-> jcall_gc, isjavaobject |-> jcall_isjavaobject,
            equal |-> jcall_equal, lessthan |-> jcall_lessthan,
            tojavafunction |-> jcall_tojavafunction,
            tojavaobject |-> jcall_tojavaobject, tostring |-> jcall_tostring,
            findtable |-> jcall_findtable, next |-> jcall_next,
            getmetafield |-> jcall_getmetafield, ref |-> jcall_ref,
            getinfo |-> jcall_getinfo, funcname |-> jcall_funcname,
            narg |-> jcall_narg, tablesize |-> jcall_tablesize]

AllNatives == DOMAIN Handler

ASSUME Natives \subseteq AllNatives /\ Natives # {}
ASSUME 0 \in Vals

\* The C variable a thread's call of native n writes and reads.
SlotOf(t, n) == IF Handler[n].scope = "process" THEN <<"process", n>>
                ELSE <<t, n>>

SlotIds == {SlotOf(t, n) : t \in Threads, n \in Natives}

Values == Vals \cup {InFname}

Init ==
  /\ pc = [t \in Threads |-> "idle"]
  /\ nat = [t \in Threads |-> CHOOSE n \in Natives : TRUE]
  /\ slot = [s \in SlotIds |-> 0]          \* static storage starts zeroed
  /\ own = [t \in Threads |-> 0]
  /\ got = [t \in Threads |-> 0]
  /\ excp = [t \in Threads |-> FALSE]
  /\ chars = [t \in Threads |-> "none"]

(***************************************************************************)
(* JNLUA_ENV_L, then the handler up to its JNLUA_PCALL.  The reset (or,    *)
(* for jcall_narg, the store of the narg argument) comes first; then an    *)
(* invalid index stores 0 where the handler tests validindex, a failing    *)
(* checkstack, checkindex, checktype or getstringchars throws through      *)
(* check() and skips the body, and otherwise the body is called.           *)
(***************************************************************************)
Call(t, n) ==
  /\ pc[t] = "idle"
  /\ LET h == Handler[n]
         s == SlotOf(t, n)
     IN \E input \in Vals :
        LET start == CASE h.reset = "null"  -> [slot EXCEPT ![s] = 0]
                       [] h.reset = "input" -> [slot EXCEPT ![s] = input]
                       [] OTHER             -> slot
        IN \/ /\ h.zeroOnInvalid             \* !validindex: result = 0
              /\ slot' = [start EXCEPT ![s] = 0]
              /\ own' = [own EXCEPT ![t] = 0]
              /\ excp' = [excp EXCEPT ![t] = FALSE]
              /\ pc' = [pc EXCEPT ![t] = "after"]
              /\ UNCHANGED chars
           \/ /\ slot' = start               \* a check throws
              /\ own' = [own EXCEPT ![t] = start[s]]
              /\ excp' = [excp EXCEPT ![t] = TRUE]
              /\ pc' = [pc EXCEPT ![t] = "after"]
              /\ UNCHANGED chars
           \/ /\ slot' = start               \* JNLUA_PCALL
              /\ own' = [own EXCEPT ![t] = start[s]]
              /\ excp' = [excp EXCEPT ![t] = FALSE]
              /\ pc' = [pc EXCEPT ![t] = "body"]
              /\ chars' = [chars EXCEPT ![t] = IF h.strarg THEN "held" ELSE "none"]
  /\ nat' = [nat EXCEPT ![t] = n]
  /\ UNCHANGED got

(***************************************************************************)
(* The protected function: it stores its answer in the slot, or a Lua      *)
(* error ends the lua_pcall and JNLUA_PCALL throws it to Java.             *)
(***************************************************************************)
Body(t) ==
  /\ pc[t] = "body"
  /\ pc' = [pc EXCEPT ![t] = "after"]
  /\ \/ \E v \in Handler[nat[t]].results :
          /\ slot' = [slot EXCEPT ![SlotOf(t, nat[t])] = v]
          /\ own' = [own EXCEPT ![t] = v]
          /\ UNCHANGED excp
     \/ /\ excp' = [excp EXCEPT ![t] = TRUE]
        /\ UNCHANGED <<slot, own>>
  /\ UNCHANGED <<nat, got, chars>>

\* NewStringUTF copies the chars a non-NULL char * points to.  Read after
\* releasestringchars, the chars of fname are freed JNI memory: the read is
\* undefined and may still see the old bytes or anything else.
Deref(t, n, v) == IF Handler[n].cstr /\ v = InFname /\ chars'[t] = "released"
                  THEN {InFname, Garbage} ELSE {v}

(***************************************************************************)
(* After JNLUA_PCALL: releasestringchars of the string argument, then the  *)
(* read of the slot (NewStringUTF for char * results), then               *)
(* JNLUA_DETACH_L and the return to Java.                                  *)
(***************************************************************************)
Return(t) ==
  /\ pc[t] = "after"
  /\ chars' = [chars EXCEPT ![t] = IF @ = "held" THEN "released" ELSE @]
  /\ \E r \in Deref(t, nat[t], slot[SlotOf(t, nat[t])]) :
        got' = [got EXCEPT ![t] = r]
  /\ pc' = [pc EXCEPT ![t] = "idle"]
  /\ UNCHANGED <<nat, slot, own, excp>>

Next == \E t \in Threads :
          \/ \E n \in Natives : Call(t, n)
          \/ Body(t)
          \/ Return(t)

Spec == Init /\ [][Next]_vars

(***************************************************************************)
(* Properties                                                              *)
(***************************************************************************)
TypeOK ==
  /\ pc \in [Threads -> {"idle", "body", "after"}]
  /\ nat \in [Threads -> Natives]
  /\ slot \in [SlotIds -> Values]
  /\ own \in [Threads -> Values]
  /\ got \in [Threads -> Values \cup {Garbage}]
  /\ excp \in [Threads -> BOOLEAN]
  /\ chars \in [Threads -> {"none", "held", "released"}]

\* A native that returns to Java with no exception pending returns the
\* answer its own call computed: what its protected function stored in
\* <name>_result, the 0 of an invalid index, or the handler's reset value.
\* Broken when another thread's protected function stores into a shared
\* result variable between this call's store and its read after
\* JNLUA_PCALL, or when the read goes through chars already released.
ReturnsOwnResult ==
  \A t \in Threads : pc[t] = "idle" /\ ~excp[t] => got[t] = own[t]
====
