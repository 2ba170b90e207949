------------------------------- MODULE JavaVm -------------------------------
(***************************************************************************)
(* The javavm Lua module (javavm.c) embedding a JVM in a Lua process, and  *)
(* the parts of jnlua.c that outlive the JVM: the JNLUA_JAVASTATE registry *)
(* entry, the thread-local thread_env and the __gc finalizer gcjavaobject  *)
(* of Java objects pushed into Lua.                                        *)
(*                                                                         *)
(* One Lua state on the thread that creates the JVM.  The registry slot    *)
(* JAVAVM_VM holds either the vm_rec userdata made by create_vm or the     *)
(* jobject userdata made by attach_vm.  JNI use on a destroyed JVM, or     *)
(* through an env of the wrong kind, is recorded in `misuse` and the       *)
(* process model goes on, so that later steps remain visible.              *)
(***************************************************************************)
EXTENDS Naturals, FiniteSets

CONSTANTS
  ObjIds,        \* Java objects Java code may push into the Lua state
  OwnStateBits   \* values the ownState argument of LuaState(JI)V may take
                 \* when create_vm passes none: a subset of {0, 1}

ASSUME OwnStateBits \subseteq {0, 1} /\ OwnStateBits # {}

VARIABLES
  jvm,        \* the process's JVM: "none", "live" or "destroyed"
  javaVmPtr,  \* javavm.c's java_vm is not NULL
  refs,       \* luastate_class, library_class, java_library are held
  slot,       \* registry[JAVAVM_VM]: "nil", "vmrec" or "luastate"
  rec,        \* the vm_rec userdata: "none", "live" (vm->vm set), "released"
  recLs,      \* vm->luastate, create_vm's Java LuaState reference, is held
  recOwn,     \* ownState of that Java LuaState
  slotLs,     \* attach_vm's Java LuaState reference is held in the slot
  javastate,  \* registry[JNLUA_JAVASTATE] is set
  javaFns,    \* Lua holds Java functions (the java module opened by openLib)
  envSet,     \* jnlua.c's thread_env of the thread is not NULL
  objs,       \* objs[o]: "none", "held" (a userdata holds its global ref),
              \* "freed"
  misuse      \* the JNI misuses that happened, by the code that made them

vars == <<jvm, javaVmPtr, refs, slot, rec, recLs, recOwn, slotLs, javastate,
          javaFns, envSet, objs, misuse>>

\* The JNIEnv of the thread is usable: the JVM is alive (the thread that
\* created it stays attached).
EnvUsable == jvm = "live"

\* A JNI call made by `who`, recorded as misuse when the env is not usable.
JniBy(who) == misuse' = IF EnvUsable THEN misuse ELSE misuse \cup {who}

(***************************************************************************)
(* LuaState.close() in Java (not in this repository) calls the lua_close   *)
(* native with its ownState.  jcall_close, called while Lua code is        *)
(* running (lua_getstack(L, 0) succeeds), skips the ownstate branch; in    *)
(* the other branch close_protected removes JNLUA_JAVASTATE.               *)
(***************************************************************************)
CloseJavaLuaState(own) ==
  javastate' = IF own = 0 THEN FALSE ELSE javastate

\* release_vm: the body shared by destroy_vm and the vm_rec's __gc.
\* After the luastate is closed and released, DestroyJavaVM runs, and
\* clearRefs(env) then deletes the class references with the env of the
\* destroyed JVM.  A failing DestroyJavaVM raises "error destroying Java
\* VM" with vm->vm still set.  GetEnv cannot fail: the only thread is the
\* one that created the JVM.
release_vm ==
  /\ rec = "live"                          \* if (!vm->vm) return 0;
  /\ jvm = "live"                          \* GetEnv == JNI_OK
  /\ IF recLs THEN CloseJavaLuaState(recOwn) ELSE UNCHANGED javastate
  /\ recLs' = FALSE
  /\ UNCHANGED recOwn
  /\ \/ /\ jvm' = "destroyed"
        /\ rec' = "released"                \* vm->vm = NULL
        /\ javaVmPtr' = FALSE
        /\ refs' = FALSE
        /\ misuse' = IF refs THEN misuse \cup {"clearRefs"} ELSE misuse
     \/ UNCHANGED <<jvm, rec, javaVmPtr, refs, misuse>>  \* DestroyJavaVM < 0

(***************************************************************************)
(* create_vm: JNI_CreateJavaVM, the class and method lookups, the Java     *)
(* LuaState for this Lua state (its constructor runs jcall_newstate, which *)
(* enters through JNLUA_ENV and sets thread_env and JNLUA_JAVASTATE), and  *)
(* openLib.  A failure after JNI_CreateJavaVM raises a Lua error and       *)
(* leaves the JVM running with the vm_rec unreferenced.  A failing        *)
(* JNI_CreateJavaVM raises before anything is set, a step that changes no *)
(* variable here.                                                         *)
(***************************************************************************)
create_vm ==
  /\ slot = "nil"
  /\ jvm = "none"                          \* JNI_CreateJavaVM succeeds once
  /\ jvm' = "live"
  /\ javaVmPtr' = TRUE
  /\ rec' = "live"
  /\ \/ /\ refs' = FALSE      \* "LuaState not found", "Java module not
        /\ UNCHANGED <<slot, recLs, recOwn, javastate, envSet, javaFns>>
                                \* found", "error creating LuaState"
     \/ /\ refs' = FALSE      \* "error loading Java module" (openLib threw)
        /\ envSet' = TRUE      \* or no global ref for LuaState (it did not)
        /\ javastate' = TRUE
        /\ \E opened \in BOOLEAN : javaFns' = (javaFns \/ opened)
        /\ UNCHANGED <<slot, recLs, recOwn>>
     \/ /\ refs' = TRUE       \* vm->luastate, registry slot
        /\ envSet' = TRUE
        /\ javastate' = TRUE
        /\ javaFns' = TRUE
        /\ \E b \in OwnStateBits : recOwn' = b
        /\ recLs' = TRUE
        /\ slot' = "vmrec"
  /\ UNCHANGED <<slotLs, objs, misuse>>

\* destroy_vm: lua_call(release_vm, registry[JAVAVM_VM]) then clear the slot;
\* an error from release_vm propagates and leaves the slot.  With the slot
\* holding attach_vm's userdata, luaL_checkudata raises.
destroy_vm ==
  /\ slot = "vmrec"
  /\ release_vm
  /\ slot' = IF jvm' = "destroyed" THEN "nil" ELSE slot
  /\ UNCHANGED <<slotLs, envSet, javaFns, objs>>

\* The vm_rec's __gc, once nothing references it.
vm_rec_gc ==
  /\ slot # "vmrec"
  /\ release_vm
  /\ UNCHANGED <<slot, slotLs, envSet, javaFns, objs>>

\* attach_vm: a Java LuaState(L, 0) for this Lua state, its global ref kept
\* in a plain userdata in the slot; openLib may throw.
attach_vm ==
  /\ javaVmPtr /\ refs /\ slot = "nil"
  /\ envSet' = TRUE
  /\ javastate' = TRUE
  /\ \/ /\ slotLs' = TRUE /\ slot' = "luastate" /\ javaFns' = TRUE
     \/ UNCHANGED <<slotLs, slot, javaFns>>      \* openLib threw
  /\ UNCHANGED <<jvm, javaVmPtr, refs, rec, recLs, recOwn, objs, misuse>>

\* detach_vm: reads the slot's userdata as a jobject, closes and deletes
\* it, and clears the slot.  The vm_rec's first field is the JavaVM
\* pointer, not a jobject.
detach_vm ==
  /\ javaVmPtr /\ slot # "nil"
  /\ IF slot = "luastate"
     THEN /\ CloseJavaLuaState(0)
          /\ slotLs' = FALSE
          /\ UNCHANGED misuse
     ELSE /\ misuse' = misuse \cup {"detach_vm"}
          /\ UNCHANGED <<javastate, slotLs>>
  /\ slot' = "nil"
  /\ UNCHANGED <<jvm, javaVmPtr, refs, rec, recLs, recOwn, javaFns, envSet,
                 objs>>

(***************************************************************************)
(* Lua calls a Java function (calljavafunction): without JNLUA_JAVASTATE   *)
(* it raises "no Java state"; otherwise it calls JavaFunction.invoke with  *)
(* thread_env, and the Java code may push Java object o (pushjavaobject:   *)
(* NewGlobalRef into a userdata with the __gc finalizer gcjavaobject).     *)
(***************************************************************************)
calljavafunction(o) ==
  /\ javaFns /\ javastate
  /\ JniBy("calljavafunction")
  /\ \/ /\ objs[o] = "none" /\ EnvUsable
        /\ objs' = [objs EXCEPT ![o] = "held"]
     \/ UNCHANGED objs
  /\ UNCHANGED <<jvm, javaVmPtr, refs, slot, rec, recLs, recOwn, slotLs,
                 javastate, javaFns, envSet>>

\* gcjavaobject: returns when thread_env is NULL ("the Java VM was
\* destroyed"), else nulls the userdata and deletes the global reference.
gcjavaobject(o) ==
  /\ objs[o] = "held"
  /\ objs' = [objs EXCEPT ![o] = "freed"]
  /\ IF envSet THEN JniBy("gcjavaobject") ELSE UNCHANGED misuse
  /\ UNCHANGED <<jvm, javaVmPtr, refs, slot, rec, recLs, recOwn, slotLs,
                 javastate, javaFns, envSet>>

Init == /\ jvm = "none"
        /\ javaVmPtr = FALSE
        /\ refs = FALSE
        /\ slot = "nil"
        /\ rec = "none"
        /\ recLs = FALSE
        /\ recOwn = 0
        /\ slotLs = FALSE
        /\ javastate = FALSE
        /\ javaFns = FALSE
        /\ envSet = FALSE
        /\ objs = [o \in ObjIds |-> "none"]
        /\ misuse = {}

Next == \/ create_vm \/ destroy_vm \/ vm_rec_gc \/ attach_vm \/ detach_vm
        \/ \E o \in ObjIds : calljavafunction(o) \/ gcjavaobject(o)

Spec == Init /\ [][Next]_vars

-----------------------------------------------------------------------------
=============================================================================
