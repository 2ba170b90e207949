--------------------------- MODULE JniCallBridge ---------------------------
(***************************************************************************)
(* The cross-runtime call stack of one thread in jnlua.c.                  *)
(*                                                                         *)
(* Java code calls the jcall_* natives; each native enters through the     *)
(* JNLUA_ENV macro (thread-local JNLUA_CONTROL flag), may run Lua code     *)
(* under lua_pcall (JNLUA_PCALL, or jcall_call's own lua_pcall with the    *)
(* messagehandler), and leaves through JNLUA_DETACH_L.  Lua code may call  *)
(* back into Java through calljavafunction, and that Java code may call    *)
(* natives again, so the stack interleaves Java, native and Lua frames.    *)
(* A Lua error is a longjmp to the innermost active lua_pcall: every frame *)
(* above it is discarded without running.                                  *)
(*                                                                         *)
(* The natives modelled stand for the four shapes the handlers have:       *)
(*   jcall_equal          body under JNLUA_PCALL (metamethods may run Lua) *)
(*   jcall_call           lua_pcall with messagehandler, then throw()      *)
(*   jcall_gettable       lua_gettable outside any protected call          *)
(*   jcall_table_pair_get JNLUA_PCALL body, with early-return checks       *)
(*   jcall_pushnumber     one Lua API call between JNLUA_ENV_L and         *)
(*                        JNLUA_DETACH_L; push_args also calls it from C   *)
(*   jcall_resume         lua_resume of a coroutine, then throw() on error *)
(*                                                                         *)
(* The thread is a Java application's (the bottom frame calls natives), or *)
(* the main thread of a Lua interpreter that loaded javavm.c, whose script *)
(* runs under the interpreter's lua_pcall and calls Java functions         *)
(* without any native below them.                                          *)
(***************************************************************************)
EXTENDS Integers, Sequences, FiniteSets

CONSTANTS
  MaxDepth,       \* bound on the number of frames on the thread's stack
  GettableKinds,  \* subset of {"raw", "metamethod"}: tables given to
                  \* lua_gettable, with or without a Lua __index metamethod
  PairGetInputs,  \* subset of {"table", "other", "noref"}: the value at the
                  \* index given to lua_table_pair_get, and "noref" for a
                  \* failing NewGlobalRef
  Hosts,          \* subset of {"java", "lua"}: who owns the thread
  PushFails       \* subset of BOOLEAN: whether checkstack may fail in a
                  \* jcall_pushnumber that push_args calls (the Lua stack at
                  \* LJ_STACK_MAX)

ASSUME MaxDepth \in Nat /\ MaxDepth >= 4
ASSUME GettableKinds \subseteq {"raw", "metamethod"} /\ GettableKinds # {}
ASSUME PairGetInputs \subseteq {"table", "other", "noref"} /\ PairGetInputs # {}
ASSUME Hosts \subseteq {"java", "lua"} /\ Hosts # {}
ASSUME PushFails \subseteq BOOLEAN /\ PushFails # {}

VARIABLES
  stack,    \* the frames of the thread, bottom first
  control,  \* the thread-local JNLUA_CONTROL flag
  pending,  \* a Java exception is pending on the thread's JNIEnv
  fault     \* "none", or how the process was lost: "panic", "unwound_java"

vars == <<stack, control, pending, fault>>

Natives == {"jcall_equal", "jcall_call", "jcall_gettable", "jcall_table_pair_get",
            "jcall_pushnumber", "jcall_resume"}

\* Natives whose protected call is the JNLUA_PCALL macro, which on failure
\* runs throw() and then JNLUA_DETACH_L before the handler continues.
PcallMacroNatives == {"jcall_equal", "jcall_table_pair_get"}

(***************************************************************************)
(* Frames.  A native frame remembers whether JNLUA_ENV found the control   *)
(* flag clear (envStat < 10: "outer"), where its handler is ("entry":      *)
(* about to run its body, "after": about to leave), how many times         *)
(* JNLUA_DETACH_L deleted its `obj`, and what `obj` is: the local          *)
(* reference JNI passed, or calljavafunction's javafunction, a global      *)
(* reference, when push_args calls the native.  A pcall frame is the       *)
(* setjmp point of one lua_pcall and records how its body ended; a resume  *)
(* frame is the same for the lua_resume of jcall_resume.  A                *)
(* calljavafunction frame records whether it has pushed a -64 result and   *)
(* whether its javafunction reference was deleted.                         *)
(***************************************************************************)
AppFrame   == [k |-> "app"]
HostFrame  == [k |-> "host"]
JavaFrame  == [k |-> "java"]
LuaFrame   == [k |-> "lua"]
CJavaFrame == [k |-> "cjava", phase |-> "invoke", fn |-> "kept"]
NativeFrame(op, outer) ==
  [k |-> "jni", op |-> op, outer |-> outer, phase |-> "entry", released |-> 0,
   obj |-> "local"]
PcallFrame == [k |-> "pcall", st |-> "run"]
ResumeFrame == [k |-> "resume", st |-> "run"]

Frames ==
  {AppFrame, HostFrame, JavaFrame, LuaFrame}
  \cup [k : {"cjava"}, phase : {"invoke", "pushed"}, fn : {"kept", "deleted"}]
  \cup [k : {"jni"}, op : Natives, outer : BOOLEAN,
        phase : {"entry", "after"}, released : 0..2,
        obj : {"local", "javafunction"}]
  \cup [k : {"pcall", "resume"}, st : {"run", "ok", "err"}]

Top == stack[Len(stack)]
Pop(s) == SubSeq(s, 1, Len(s) - 1)
Running == fault = "none"

\* Replace the top frame by f.
SetTop(f) == stack' = [stack EXCEPT ![Len(stack)] = f]

(***************************************************************************)
(* JNLUA_DETACH_L applied to native frame f: only the frame that found the *)
(* flag clear deletes its `obj` local reference and clears the flag.       *)
(***************************************************************************)
\* JNLUA_DETACH_L deleting obj without its envStat < 10 test.
DetachL_unguarded(f) == [f EXCEPT !.released = @ + 1]
DetachL(f) == [f EXCEPT !.released = IF f.outer THEN @ + 1 ELSE @]
\* JNLUA_DETACH with its envStat < 10 guard dropped.
ControlAfterDetach_unguarded(f) == 0
ControlAfterDetach(f) == IF f.outer THEN 0 ELSE control

(***************************************************************************)
(* A Lua error (lua_error, a runtime error, or handlejavaexception(L, 1)): *)
(* longjmp to the innermost lua_pcall or lua_resume still running (a       *)
(* coroutine's error ends its lua_resume).  Every frame above it           *)
(* is discarded.  With no lua_pcall on the stack the panic function runs   *)
(* and the process exits; discarding a Java or native frame is a longjmp   *)
(* across the JVM.                                                         *)
(***************************************************************************)
Catchers == {i \in 1..Len(stack) : stack[i].k \in {"pcall", "resume"}
                                   /\ stack[i].st = "run"}

LuaRaise ==
  IF Catchers = {}
  THEN /\ fault' = "panic"
       /\ UNCHANGED stack
  ELSE LET p == CHOOSE i \in Catchers : \A j \in Catchers : j <= i
           discarded == {stack[i].k : i \in p + 1..Len(stack)}
       IN /\ stack' = [SubSeq(stack, 1, p) EXCEPT ![p].st = "err"]
          /\ fault' = IF discarded \cap {"java", "jni", "app"} # {}
                      THEN "unwound_java" ELSE fault

\* JNLUA_ENV incrementing JNLUA_CONTROL on every entry, as a nesting counter.
Enter_counter(op) ==
  /\ Running
  /\ Top.k \in {"app", "java"}
  /\ ~pending
  /\ Len(stack) < MaxDepth
  /\ stack' = Append(stack, NativeFrame(op, control = 0))
  /\ control' = control + 1
  /\ UNCHANGED <<pending, fault>>

(***************************************************************************)
(* JNLUA_ENV: a native called from Java.  JNI natives are entered only     *)
(* from Java code with no exception in flight.                             *)
(***************************************************************************)
Enter(op) ==
  /\ Running
  /\ Top.k \in {"app", "java"}
  /\ ~pending
  /\ Len(stack) < MaxDepth
  /\ stack' = Append(stack, NativeFrame(op, control = 0))
  /\ control' = 1
  /\ UNCHANGED <<pending, fault>>

\* The handler of the top native frame, at its entry, with operation op.
AtEntry(op) == /\ Running
               /\ Top.k = "jni" /\ Top.op = op /\ Top.phase = "entry"

\* The handler goes on to its final JNLUA_DETACH_L.
ToExit == SetTop([Top EXCEPT !.phase = "after"])

\* A check*() helper failed: it threw a Java exception, and the handler
\* skipped its body.
CheckFails == /\ ToExit
              /\ pending' = TRUE
              /\ UNCHANGED <<control, fault>>

\* lua_pushcfunction(body); lua_pcall(...): a setjmp point, then Lua code.
\* The body run with lua_call instead of lua_pcall.
RunProtected_unprotected == /\ Len(stack) + 1 <= MaxDepth
                            /\ stack' = Append(stack, LuaFrame)
                            /\ UNCHANGED <<control, pending, fault>>

RunProtected == /\ Len(stack) + 2 <= MaxDepth
                /\ stack' = stack \o <<PcallFrame, LuaFrame>>
                /\ UNCHANGED <<control, pending, fault>>

jcall_equal ==
  /\ AtEntry("jcall_equal")
  /\ \/ /\ ToExit                          \* !validindex: equal_result = 0
        /\ UNCHANGED <<control, pending, fault>>
     \/ CheckFails                         \* checkstack fails
     \/ RunProtected                       \* JNLUA_PCALL(equal_protected)

jcall_call ==
  /\ AtEntry("jcall_call")
  /\ \/ CheckFails                         \* checkarg/checknelems/checkstack
     \/ RunProtected                       \* lua_pcall with messagehandler

\* lua_gettable runs outside any protected call; with an __index
\* metamethod it runs Lua code directly on this native frame.
jcall_gettable ==
  /\ AtEntry("jcall_gettable")
  /\ \/ CheckFails                         \* checkstack/checktype/checknil
     \/ /\ "raw" \in GettableKinds
        /\ ToExit
        /\ UNCHANGED <<control, pending, fault>>
     \/ /\ "metamethod" \in GettableKinds
        /\ Len(stack) < MaxDepth
        /\ stack' = Append(stack, LuaFrame)
        /\ UNCHANGED <<control, pending, fault>>

jcall_table_pair_get ==
  /\ AtEntry("jcall_table_pair_get")
  /\ \/ /\ "other" \in PairGetInputs       \* !lua_istable: check(0, ...);
        /\ stack' = Pop(stack)             \* return without JNLUA_DETACH_L
        /\ pending' = TRUE
        /\ UNCHANGED <<control, fault>>
     \/ /\ "noref" \in PairGetInputs       \* NewGlobalRef fails: check(0, ...)
        /\ CheckFails
     \/ /\ "table" \in PairGetInputs       \* JNLUA_PCALL(pcall_table_pair_get)
        /\ RunProtected

\* lua_pushnumber/lua_pushinteger after checkstack.  A failing checkstack
\* throws; PushFails says whether it can for the call push_args makes.
jcall_pushnumber ==
  /\ AtEntry("jcall_pushnumber")
  /\ \/ /\ Top.obj = "local" \/ TRUE \in PushFails
        /\ CheckFails
     \/ /\ ToExit
        /\ UNCHANGED <<control, pending, fault>>

\* checktype/checkarg/checknelems on L and checkstack on the coroutine T,
\* then lua_xmove of the arguments and lua_resume(T, nargs).
jcall_resume ==
  /\ AtEntry("jcall_resume")
  /\ \/ CheckFails
     \/ /\ Len(stack) + 2 <= MaxDepth
        /\ stack' = stack \o <<ResumeFrame, LuaFrame>>
        /\ UNCHANGED <<control, pending, fault>>

(***************************************************************************)
(* Lua code: it returns to the protected call or the native that started   *)
(* it, calls a Java function (calljavafunction, then JavaFunction.invoke), *)
(* or raises an error.                                                     *)
(***************************************************************************)
LuaReturns ==
  /\ Running /\ Top.k = "lua"
  /\ LET s == Pop(stack)
         f == s[Len(s)]
     IN stack' = [s EXCEPT ![Len(s)] =
                    IF f.k \in {"pcall", "resume"} THEN [f EXCEPT !.st = "ok"]
                    ELSE [f EXCEPT !.phase = "after"]]
  /\ UNCHANGED <<control, pending, fault>>

LuaCallsJava ==
  /\ Running /\ Top.k = "lua"
  /\ Len(stack) + 2 <= MaxDepth
  /\ stack' = stack \o <<CJavaFrame, JavaFrame>>
  /\ UNCHANGED <<control, pending, fault>>

LuaError ==
  /\ Running /\ Top.k = "lua"
  /\ LuaRaise
  /\ UNCHANGED <<control, pending>>

\* calljavafunction without the handlejavaexception check.
calljavafunction_noexcheck ==
  /\ Running /\ Top.k = "cjava"
  /\ \/ /\ stack' = Pop(stack)
        /\ UNCHANGED <<pending, fault>>
     \/ /\ LuaRaise
        /\ UNCHANGED pending
  /\ UNCHANGED control

\* nresults == -64: push_args pushes the one value Java left in the Args
\* buffer.  For a number it calls jcall_pushnumber with javafunction as its
\* obj, and that native's JNLUA_ENV runs here, on the C side.
ResultPush ==
  /\ Len(stack) < MaxDepth
  /\ stack' = Append([stack EXCEPT ![Len(stack)].phase = "pushed"],
                     [NativeFrame("jcall_pushnumber", control = 0)
                        EXCEPT !.obj = "javafunction"])
  /\ control' = 1
  /\ UNCHANGED <<pending, fault>>

(***************************************************************************)
(* lua_yield(L, nresults) returning from calljavafunction.  LuaJIT lets a  *)
(* C function yield only to a lua_resume whose C frame is the innermost    *)
(* one: every C entry into Lua above it (a lua_pcall, lua_gettable's       *)
(* metamethod call, a nested lua_resume) makes a C frame it cannot leave.  *)
(* So the coroutine suspends when only Lua and calljavafunction frames lie *)
(* above the innermost running lua_resume, and those frames are left;      *)
(* otherwise lua_yield raises "attempt to yield across C-call boundary".   *)
(***************************************************************************)
YieldPoint ==
  {i \in 1..Len(stack) : /\ stack[i].k = "resume" /\ stack[i].st = "run"
                         /\ \A j \in i + 1..Len(stack) : stack[j].k \in {"lua", "cjava"}}

Yield ==
  /\ YieldPoint # {}
  /\ LET r == CHOOSE i \in YieldPoint : TRUE
     IN stack' = [SubSeq(stack, 1, r) EXCEPT ![r].st = "ok"]
  /\ UNCHANGED <<control, pending, fault>>

\* calljavafunction after CallIntMethod(invoke): handlejavaexception(L, 0)
\* turns a pending exception into a LuaError value and lua_error raises it.
\* Otherwise a -64 result is pushed, and then the results are returned, or
\* Java's yield flag (types[32]) makes it yield: lua_yield, or a raise for
\* an illegal return count, for "not in a thread" (L is the main state),
\* or for a C-call boundary.  Nothing checks for an exception after the
\* push.
calljavafunction ==
  /\ Running /\ Top.k = "cjava"
  /\ \/ /\ Top.phase = "invoke" /\ pending
        /\ pending' = FALSE
        /\ LuaRaise
        /\ UNCHANGED control
     \/ /\ Top.phase = "invoke" /\ ~pending
        /\ ResultPush
     \/ /\ Top.phase = "pushed" \/ ~pending
        /\ stack' = Pop(stack)
        /\ UNCHANGED <<control, pending, fault>>
     \/ /\ Top.phase = "pushed" \/ ~pending
        /\ LuaRaise
        /\ UNCHANGED <<control, pending>>
     \/ /\ Top.phase = "pushed" \/ ~pending
        /\ Yield

(***************************************************************************)
(* Java code: JavaFunction.invoke returns, normally or by throwing, and    *)
(* Java code may catch an exception thrown by a native it called.          *)
(***************************************************************************)
JavaFunctionReturns ==
  /\ Running /\ Top.k = "java"
  /\ \E throws \in BOOLEAN : pending' = (pending \/ throws)
  /\ stack' = Pop(stack)
  /\ UNCHANGED <<control, fault>>

JavaCatches ==
  /\ Running /\ Top.k \in {"java", "app"}
  /\ pending
  /\ pending' = FALSE
  /\ UNCHANGED <<stack, control, fault>>

(***************************************************************************)
(* lua_pcall returns to the native.  On failure the native calls throw(),  *)
(* which leaves a Lua*Exception pending; inside the JNLUA_PCALL macro      *)
(* JNLUA_DETACH_L follows immediately, and the handler then continues to   *)
(* its own JNLUA_DETACH_L.                                                 *)
(***************************************************************************)
PcallReturns ==
  /\ Running /\ Top.k = "pcall"
  /\ stack[Len(stack) - 1].k = "jni"      \* the host's own lua_pcall ends the program
  /\ LET s == Pop(stack)
         f == s[Len(s)]
         failed == Top.st = "err"
         macro == failed /\ f.op \in PcallMacroNatives
         g == IF macro THEN DetachL(f) ELSE f
     IN /\ stack' = [s EXCEPT ![Len(s)] = [g EXCEPT !.phase = "after"]]
        /\ pending' = (pending \/ failed)
        /\ control' = IF macro THEN ControlAfterDetach(f) ELSE control
  /\ Top.st # "run"
  /\ UNCHANGED fault

\* jcall_resume without throw(L, status) on an error status.
ResumeReturns_nothrow ==
  /\ Running /\ Top.k = "resume" /\ Top.st # "run"
  /\ LET s == Pop(stack)
     IN stack' = [s EXCEPT ![Len(s)].phase = "after"]
  /\ \/ UNCHANGED pending
     \/ /\ Top.st = "ok"
        /\ pending' = TRUE
  /\ UNCHANGED <<control, fault>>

\* lua_resume returns to jcall_resume.  An error status goes to
\* throw(L, status).  After status 0 or LUA_YIELD the results move from T
\* to L, unless checkstack(L, nresults) fails and throws.
ResumeReturns ==
  /\ Running /\ Top.k = "resume" /\ Top.st # "run"
  /\ LET s == Pop(stack)
     IN stack' = [s EXCEPT ![Len(s)].phase = "after"]
  /\ \/ pending' = (pending \/ Top.st = "err")
     \/ /\ Top.st = "ok"
        /\ pending' = TRUE
  /\ UNCHANGED <<control, fault>>

\* The final JNLUA_DETACH_L of a handler, and its return to its caller.
\* A DeleteLocalRef of push_args' obj deletes calljavafunction's
\* javafunction reference.
NativeReturns ==
  /\ Running /\ Top.k = "jni" /\ Top.phase = "after"
  /\ LET s == Pop(stack)
     IN stack' = IF Top.obj = "javafunction" /\ DetachL(Top).released > 0
                 THEN [s EXCEPT ![Len(s)].fn = "deleted"] ELSE s
  /\ control' = ControlAfterDetach(Top)
  /\ UNCHANGED <<pending, fault>>

\* After a panic or a longjmp across the JVM the process is lost.
Crashed == ~Running /\ UNCHANGED vars

\* The thread's frames before any native runs: a Java application, or the
\* script of a Lua interpreter that loaded javavm.c, under the
\* interpreter's lua_pcall.
HostStack(h) == IF h = "java" THEN <<AppFrame>>
                ELSE <<HostFrame, PcallFrame, LuaFrame>>

Init == /\ \E h \in Hosts : stack = HostStack(h)
        /\ control = 0
        /\ pending = FALSE
        /\ fault = "none"

Next == \/ \E op \in Natives : Enter(op)
        \/ jcall_equal \/ jcall_call \/ jcall_gettable \/ jcall_table_pair_get
        \/ jcall_pushnumber \/ jcall_resume
        \/ LuaReturns \/ LuaCallsJava \/ LuaError
        \/ calljavafunction
        \/ JavaFunctionReturns \/ JavaCatches
        \/ PcallReturns \/ ResumeReturns \/ NativeReturns
        \/ Crashed

Spec == Init /\ [][Next]_vars

\* The thread runs a native's own code to its end: once lua_pcall or
\* lua_resume has returned to the handler, it goes on to its final
\* JNLUA_DETACH_L and returns.  Nothing is assumed of Lua code, Java code
\* or the calls they make: they may run, or call, forever.
Fairness == /\ WF_vars(PcallReturns)
            /\ WF_vars(ResumeReturns)
            /\ WF_vars(NativeReturns)

FairSpec == Spec /\ Fairness

-----------------------------------------------------------------------------
TypeOK == /\ stack \in Seq(Frames)
          /\ Len(stack) \in 1..MaxDepth
          /\ stack[1] \in {AppFrame, HostFrame}
          /\ control \in {0, 1}
          /\ pending \in BOOLEAN
          /\ fault \in {"none", "panic", "unwound_java"}

\* Every Lua error, whichever frame raises it, is caught by a lua_pcall of
\* the same Lua activation: no longjmp discards a Java or native frame and
\* no error reaches LuaJIT's panic handler (the natives' error model).
ErrorCaughtInsideBoundary == fault = "none"

\* JNLUA_ENV/JNLUA_DETACH keep the thread-local JNLUA_CONTROL flag equal to
\* "an outermost native call is in progress and has not yet detached":
\* exactly the lowest native frame finds it clear, and nested natives never
\* clear it.
EnvNestingExact ==
  LET N == {i \in 1..Len(stack) : stack[i].k = "jni"}
  IN /\ \A i \in N : stack[i].outer <=> (\A j \in N : j >= i)
     /\ control = IF \E i \in N : stack[i].outer /\ stack[i].released = 0
                  THEN 1 ELSE 0

\* Lua code never runs, and no protected call is entered, while a Java
\* exception is pending: calljavafunction converts an exception thrown by
\* JavaFunction.invoke into a Lua error before returning to Lua.
ExceptionNotPendingInLua == Top.k = "lua" => ~pending

\* calljavafunction's javafunction, a global reference held by the Lua
\* userdata of the Java function, is never deleted by the natives that
\* push_args calls with it as their obj: their JNLUA_DETACH_L deletes obj
\* only when they are the outermost native of the thread.
JavaFunctionRefKept ==
  \A i \in 1..Len(stack) : stack[i].k = "cjava" => stack[i].fn = "kept"

\* A Lua error that ends the protected call a native made (its lua_pcall,
\* or the lua_resume of jcall_resume) is eventually reported to the Java
\* code that called the native: the native has returned with a Java
\* exception pending (throw after lua_pcall or lua_resume, then
\* JNLUA_DETACH_L), unless the process was lost on the way.
ErrorReachesJava ==
  \A n \in 2..MaxDepth :
    (/\ n <= Len(stack)
     /\ stack[n].k \in {"pcall", "resume"} /\ stack[n].st = "err"
     /\ stack[n - 1].k = "jni")
      ~> ((Len(stack) < n - 1 /\ pending) \/ ~Running)
=============================================================================
