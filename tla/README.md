# TLA+ models of JNLuaJIT's native bridge

This directory models `src/src/main/c/jnlua.c`, the JNI library under JNLua's
`LuaState`, and `src/src/main/c/javavm.c`, the Lua module that embeds a JVM.
The aim is to check the parts that are hard to test. These are:

- the interleaving of Java, native and Lua frames on one thread;
- errors crossing between the two runtimes;
- per-thread state that several Lua states share;
- C integer arithmetic at its edges.

`PROJECT.json` is the machine-readable index of this project. It lists:

- components;
- runs;
- mutants;
- the map from every definition to the source lines it models;
- findings;
- hazards.

## 1. The system

| Part | Code | State it owns | Operations |
|---|---|---|---|
| Thread context manager | `JNLUA_ENV`, `JNLUA_DETACH`, `JNLUA_DETACH_L` (jnlua.c 99-154) | thread-local `thread_env` and `JNLUA_CONTROL`, and each native's `envStat` | entry, exit, attach/detach |
| Protected call engine | `JNLUA_PCALL` (160), `jcall_call` (1675), `*_protected` bodies | the Lua stack and the setjmp points of `lua_pcall` | one per `jcall_*` native |
| Exception translator | `throw` / `throw_protected` (4536-4611), `messagehandler` (4441), `handlejavaexception` (472) | the pending Java exception of the thread | Lua error to Java exception, and back |
| Lua-to-Java dispatch | `calljavafunction` (4316-4438) | `luastate_obj` (saved and restored), Args buffers | call `JavaFunction.invoke`, return, raise, yield |
| Memory allocator | `l_alloc` (608), `getluamemory` / `setluamemoryused` (4017-4033) | `luaMemoryUsed` of the Java object in thread-local `luastate_obj` | malloc, realloc, free |
| Engine lifecycle | `jcall_newstate` (724), `newstate_protected` (550), `jcall_close` (675) | registry entries, `luastate_obj` | open, close |
| Object bridge | `pushjavaobject` (1148), `tojavaobject` (1474), `gcjavaobject` (4272), `gc_args` (3199) | JNI global references held in userdata | push, convert, finalize |
| Metadata cache | `findjavafunction` (847), `precache_metadata_functions` (1027), `pushmetafunction_protected` (1221), `jcall_set_negative_cache` (1438) | per-class tables in the registry, and the negative-cache marker | look up, fill, mark missing |
| Result variables | the `<name>_result` variables of 15 natives (1503-2937) | a value per native, per thread or per process | written by the `*_protected` body, read after `JNLUA_PCALL` |
| Argument marshaler | `build_args` (3025), `push_args` (3079), `jcall_tablemove` (2966), table pair ops (3259-3498) | reusable Args buffers in the registry | pack, unpack, bulk get/push |
| Stream adapters | `jcall_load` (1607), `jcall_dump` (1644), `readhandler` (4615), `writehandler` (4651) | a `Stream` record: a 1024-byte Java array, the pointer to its elements, the stream's exception | load a chunk from an `InputStream`, dump a function to an `OutputStream` |
| Stack wrappers | `jcall_push*` (1739-1852), `jcall_is*` (1856-1980), `jcall_type` (2247), `jcall_copy` ... `jcall_settop` (2290-2374), and the checks `validindex`, `checkstack`, `checkindex`, `checkrealindex` (4069-4140) | the Lua stack, and the registry and globals reached through pseudo-indexes | one Lua API call each, behind index and stack checks that throw a Java exception |
| Embedded JVM | javavm.c `create_vm`, `attach_vm`, `detach_vm`, `release_vm`, `destroy_vm` | the `java_vm` pointer, the `vm_rec` userdata | create, attach, detach, destroy |

How the parts interact:

1. A Java thread calls a `jcall_*` native. `JNLUA_ENV` sets `JNLUA_CONTROL` if it was clear. A native that finds it set is "nested" (`envStat >= 10`). Only the outermost native's `JNLUA_DETACH` clears the flag and deletes the `obj` local reference.
2. The native runs Lua code: under `JNLUA_PCALL`, under `jcall_call`'s `lua_pcall` with `messagehandler`, or, for `lua_gettable`/`lua_getfield`/`lua_settable`/`lua_setfield`/`lua_getglobal`, under no protected call at all.
3. That Lua code may call a Java function through `calljavafunction`. The Java code may call natives again, so a thread's stack interleaves Java, native and Lua frames to any depth.
4. A Lua error is a longjmp to the innermost running `lua_pcall`. A Java exception thrown by `JavaFunction.invoke` is turned into a `LuaError` value by `handlejavaexception` and raised with `lua_error`. A failed `lua_pcall` in a native becomes a pending Java exception through `throw`.
5. Limited states allocate through `l_alloc`, which charges the Java object in the thread-local `luastate_obj`. `jcall_newstate` and `getluastate` set it, and `calljavafunction` restores it after the call.

The hard behaviours:

- longjmp across frames of the other runtime;
- reentrancy through Java callbacks;
- early returns that skip the exit macro;
- error paths that run the exit macro twice;
- per-thread variables shared by several Lua states;
- process globals shared by threads;
- `size_t`/`jint` arithmetic in the allocator;
- finalizers that run after the JVM is gone.

## 2. Modules

### JniCallBridge.tla: one thread's cross-runtime call stack

State:

- `stack`: a sequence of frames, bottom first. The frame kinds are:
  - `app`: the Java application code, or `host`: the C main of a Lua interpreter that loaded javavm.c. `HostStack` gives each host's starting frames. The Lua host starts with its script under its own `lua_pcall`;
  - `jni`: a `jcall_*` handler. It records:
    - `outer`: whether `envStat < 10`;
    - `phase`: at entry, or about to leave;
    - `released`: how many times `JNLUA_DETACH_L` deleted `obj`;
    - `obj`: the local reference JNI passed, or `javafunction` when `push_args` called the native;
  - `pcall`: the setjmp point of a `lua_pcall`, with how its body ended;
  - `resume`: the same for the `lua_resume` of `jcall_resume`. A coroutine's error ends its `lua_resume`, and a yield returns to it;
  - `lua`: Lua code;
  - `cjava`: `calljavafunction`. It records whether it has pushed a `-64` result, and whether its `javafunction` reference was deleted;
  - `java`: `JavaFunction.invoke`.
- `control`: `JNLUA_CONTROL`.
- `pending`: a Java exception pending on the JNIEnv.
- `fault`: set when a longjmp discards a Java or native frame, or when an error reaches the panic handler. After either, the process is lost and `Crashed` stutters.

Actions and the code they model:

| Action | Code |
|---|---|
| `Enter(op)` | `JNLUA_ENV` |
| `jcall_equal`, `jcall_call`, `jcall_gettable`, `jcall_table_pair_get`, `jcall_pushnumber`, `jcall_resume` | the handler bodies, with every check-failure and early-return path |
| `PcallReturns` | the status test after `lua_pcall`, with `throw` and, in `JNLUA_PCALL`, the inner `JNLUA_DETACH_L` |
| `ResumeReturns` | `jcall_resume`'s status switch: `throw(L, status)` for an error, otherwise the results move from T to L, unless `checkstack(L, nresults)` throws |
| `NativeReturns` | the final `JNLUA_DETACH_L`. When the native was called by `push_args`, its `DeleteLocalRef(obj)` deletes the caller's `javafunction` |
| `calljavafunction` | the code after `CallIntMethod`: `handlejavaexception(L, 0)` then `lua_error`; for `nresults == -64`, `ResultPush` (`push_args` calls `jcall_pushnumber` from C, so its `JNLUA_ENV` runs there); then the return, or Java's yield flag: a raise (illegal count, "not in a thread", C-call boundary) or `Yield`. No exception check follows the push. |

`Yield` follows LuaJIT's rule for `lua_yield` (`YieldPoint`). A C function may yield only to a `lua_resume` whose C frame is the innermost one. Any C entry into Lua above it creates a C frame the yield cannot leave: a `lua_pcall`, the metamethod call of `lua_gettable`, or a nested `lua_resume`. So the coroutine suspends only when nothing but Lua and `calljavafunction` frames lies above the innermost running `lua_resume`, and those frames are dropped. Otherwise `lua_yield` raises. No Java or native frame is ever suspended, so the bridge's properties cover coroutines with no new property.

The six natives stand for the shapes of all the natives:

- a `JNLUA_PCALL` body (equal, lessthan, concat, rawequal-free ops, next, tablesize, ...);
- `lua_pcall` with a message handler (call);
- an unprotected Lua API call (gettable, getfield, settable, setfield, getglobal);
- `jcall_table_pair_get`'s early returns;
- one checked Lua API call (`jcall_pushnumber`, the push and stack natives);
- `lua_resume` of a coroutine (resume).

These actions are the environment, modelled from the spec because their code is not in this repository:

- `LuaReturns`, `LuaCallsJava` and `LuaError`: LuaJIT;
- `JavaFunctionReturns` and `JavaCatches`: Java code.

javavm.c never touches `JNLUA_CONTROL`. So in the Lua host, every call from the script into Java finds the flag clear, and each native that Java function calls is outermost. The `PushFails` constant says whether `checkstack` may fail in the `jcall_pushnumber` that `push_args` calls. That happens only with the Lua stack at `LJ_STACK_MAX`.

`FairSpec` adds weak fairness for `PcallReturns`, `ResumeReturns` and `NativeReturns`. These are the native's own code after `lua_pcall` or `lua_resume` has returned: the status test, `throw`, and `JNLUA_DETACH`. None of them waits for Lua or Java code. Under it, `ErrorReachesJava` says that an error status returned to a native that Java called is, in the end, a pending exception in that Java frame (or the process has crashed).

The attach branch of `JNLUA_ENV` is not modelled. A native is only ever called by a Java thread, and a Java thread is always attached, so `GetEnv` returns `JNI_OK`.

### LuaAlloc.tla: the memory-capped allocator

State:

- `cur`: the thread-local `luastate_obj`;
- `live` and `closed`: the states opened and closed on the thread;
- `blocks[s][b]`: the size of each block a state holds;
- `used[s]`: the `luaMemoryUsed` field.

`l_alloc(s, b, nsize)` translates the three branches of `l_alloc` (free, malloc and realloc) in C's arithmetic:

- `ToSize` converts to `size_t` (modulo `2^SizeBits`).
- `ToJint` truncates to `jint`, which is what `setluamemoryused` stores.
- `jcall_newstate` and `jcall_close` are the two natives that set `luastate_obj`. `jcall_close` also frees every block through `l_alloc`, as `lua_close` does.
- `MallocResults` lets malloc/realloc return NULL after the charge.

### JavaVm.tla: the embedded JVM and what outlives it

One Lua state, on the thread that creates the JVM. That thread stays attached to the JVM until it is destroyed.

State:

- `jvm`: the process's JVM, one of none, live or destroyed.
- `javaVmPtr`: javavm.c's `java_vm`.
- `refs`: the class references `clearRefs` deletes.
- `slot`: what registry `JAVAVM_VM` holds. It is nil, a `vm_rec` (made by `create_vm`) or a bare `jobject` userdata (made by `attach_vm`).
- `rec`: the `vm_rec`. It is none, live (`vm->vm` set) or released.
- `recLs` / `recOwn`: `vm->luastate` and the `ownState` its Java `LuaState` was built with.
- `slotLs`: the reference `attach_vm` keeps.
- `javastate`: registry `JNLUA_JAVASTATE`.
- `javaFns`: Lua holds Java functions.
- `envSet`: jnlua.c's `thread_env` is not NULL.
- `objs`: Java objects pushed into Lua and their global references.
- `misuse`: the JNI calls made through a dead env, or on a wrong object, tagged by the code that made them. The model records a misuse and goes on, so later steps stay visible.

Actions:

| Action | Code |
|---|---|
| `create_vm` | `create_vm`, with the failure paths after `JNI_CreateJavaVM` |
| `destroy_vm` | `destroy_vm`, calling `release_vm` then clearing the slot; when `DestroyJavaVM` fails, `release_vm` raises after closing the Java `LuaState`, and the slot stays |
| `vm_rec_gc` | `release_vm` as the `__gc` of an unreferenced `vm_rec` |
| `attach_vm` | `attach_vm`, including an `openLib` that throws |
| `detach_vm` | `detach_vm`, including a slot that holds a `vm_rec` |
| `calljavafunction(o)` | the `JNLUA_JAVASTATE` test and the call through `thread_env`, which may push object `o` |
| `gcjavaobject(o)` | the `!thread_env` test and `DeleteGlobalRef` |

`CloseJavaLuaState(own)` is what `LuaState.close()` does through `jcall_close`:

- with `ownstate` set, the close is skipped, because `lua_getstack(L, 0)` succeeds inside a Lua C function;
- otherwise `close_protected` removes `JNLUA_JAVASTATE`.

`create_vm` calls the `(JI)V` constructor without its `jint` argument. This undefined value is the constant `OwnStateBits`, a choice between 0 and 1.

### MetadataCacheSpec.tla and MetadataCache.tla: the per-class member cache

`MetadataCacheSpec` is the contract of spec section 4.5, for one Lua state:

- `Register(c)`: the first object of class `c` creates its table, with the precached metadata keys already known.
- `Resolve(c, k)`: a lookup. A known answer is returned. An unknown one runs the resolver once and is remembered.

`MetadataCache` models the code:

- `entry[c][k]` is the value of `registry[className][k]`, which is also the environment of every object of the class. Its tag is `none`, `neg` (the negative-cache lightuserdata), `cfn` (a C function without upvalues) or `closure`. A closure is what `pushjavaobject` makes over a JavaFunction with `lua_pushcclosure(L, calljavafunction, 3)`, which takes the stack's values in push order: upvalue 1 is the userdata, upvalue 2 the boolean `call_type == 3`, upvalue 3 the class name. The comments at 1174-1177 number them otherwise; the code that reads them (`findjavafunction` at 927, `tojavafunction_protected`, `calljavafunction`) agrees with push order. So `FieldFlag` is `lua_toboolean` of upvalue 2: a field accessor is called, and a method or java-module helper is returned.
- `findjavafunction(c, k)` translates every branch of the `__index` function:
  - the `CLASS_NAME` key;
  - a negative-cache hit;
  - a C function returned as is;
  - a closure called when its field flag is set, and returned otherwise;
  - the fallback to `JNLUA_OBJECT_INDEX`.
- The Java resolver behind that fallback is not in this repository. `JavaResolve` models it from the spec:
  - a missing member calls `jcall_set_negative_cache`;
  - a field calls `jcall_pushmetafunction` with `call_type` 3, and a method calls it with `call_type` 2.
  
  Both natives are translated from their code. So is the class-table creation with `precache_metadata_functions`.
- `jcall_pushjavaobject(c)` creates the class table when an object of a new class is pushed.

`ImplementsResolveContract` is `MetadataCacheSpec`'s `Spec` under the refinement mapping:

- `seen` is `created`;
- `known[c][k]` is `Known(entry[c][k])`, the answer the entry stands for;
- `resolves` and `answer` map to themselves.

The refinement checks three things at once:

- every lookup answers what the resolver would;
- a negative entry short-circuits the resolver;
- precaching gives a new class its metadata functions.

### TablePair.tla: the bulk pair transfer

`jcall_table_pair_push` and `jcall_table_pair_get` move one key/value pair between Java and a Lua table. They go through the pair buffer that `jcall_table_pair_init` registers under `JNLUA_PAIRS`: two slots, each a type byte and an object. Java writes the key into slot 0 and the value into slot 1. `push_args` decodes them, and `build_args` writes any returned value back into the slots.

State:

- `tbl[i]`: the table's value at integer key `i`, for `i` in `0..MaxLen`. A value is nil, a boolean or a string (a model value).
- `buf`: the two slots. An object is an integer (a number, or the byte string "1"/"0" of a boolean), a string, or `NULL`.
- `status`: whether the call ended with a Java exception (`check(0, ...)`, or a Lua error turned into one by `JNLUA_PCALL`).
- `call`: a history variable that records the last call's slots, the length `lua_objlen` answered and the target key.

Actions:

| Action | Code |
|---|---|
| `pair_push_insert(k, v, opt8)` | `pcall_table_pair_push` with options 4, the "table.insert mode": the non-integer and out-of-range errors, the relative key, option 8, the one-element `jcall_tablemove`, and the `lua_rawseti` |
| `pair_push_set(k, v, opt8)` | `pcall_table_pair_push` without option 4: option 8, then `lua_rawset`, which raises for a nil key |
| `pair_get(k)` | `pcall_table_pair_get`: `lua_gettable`, then `build_args` into slot 0 |
| `pair_next(k)` | `pcall_table_pair_get` with option 32: `lua_next` from the key in slot 0 into slots 0 and 1, or two nils |

Helpers:

- `build_arg` / `push_arg` are `build_args` / `push_args` for a scalar. A null object decodes to nil whatever its type byte.
- `tablemove1` is `jcall_tablemove` with count 1.
- `insert_size` is the relative-key computation.
- `ReturnsSlot0` is the option 8 step.
- `lua_objlen` may answer any border of a table with holes, so `Borders(tbl)` is a nondeterministic choice.

### SharedResults.tla: the result variables of the protected natives

A native cannot return a value out of `lua_pcall`. So each native whose answer is computed under `JNLUA_PCALL` has a C variable `<name>_result`. The protected function writes it, and the native reads it after `JNLUA_PCALL` and returns it. Fifteen natives work this way: gc, isjavaobject, equal, lessthan, tojavafunction, tojavaobject, tostring, findtable, next, getmetafield, ref, getinfo, funcname, narg and tablesize. `JNLUA_THREADLOCAL` always expands to a thread-local storage class (jnlua.c 20-47). Still, `equal_result`, `lessthan_result` and `getmetafield_result` are declared without it, so they are process globals.

The module has several Java threads. Each one calls natives on a `LuaState` of its own, which section 5 of the spec allows to run in parallel.

State:

- `slot`: the variables. `SlotOf(t, n)` is one per process for the three globals, and one per thread for the rest.
- `pc`, `nat`: where each thread is, and in which native.
- `own`: the answer the thread's current call computed.
- `got`: the value its last call returned.
- `excp`: whether a Java exception is pending.
- `chars`: the state of the UTF chars of a string argument, from `getstringchars` to `releasestringchars`.

Each handler, `jcall_gc` ... `jcall_tablesize`, is a record of its shape:

- whether its variable is per thread or per process;
- whether an invalid index stores 0 without an exception (equal, lessthan, isjavaobject);
- what it stores before its checks: NULL for tojavaobject, tostring, findtable and funcname, or the `narg` argument;
- whether it holds a string argument across the call (findtable, getmetafield, getinfo);
- whether its variable is a C string handed to `NewStringUTF` (tostring, findtable, funcname).

Three actions run every handler:

| Action | Code |
|---|---|
| `Call(t, n)` | `JNLUA_ENV_L`, the reset, then the invalid-index branch, a failing check (`check()` throws), or `JNLUA_PCALL` |
| `Body(t)` | the protected function: it stores an answer, or a Lua error makes `JNLUA_PCALL` throw |
| `Return(t)` | `releasestringchars`, then the read of the variable, through `NewStringUTF` for a C string. `Deref` makes a read of released chars undefined: the old bytes or garbage. |

### Stream.tla: load and dump through Java streams

`jcall_load` runs `lua_load` with `readhandler` as its reader. `jcall_dump` runs `lua_dump` with `writehandler` as its writer. Both use one `Stream` record with these parts:

- a Java byte array of 1024 bytes (`newbytearray`);
- `bytes`, the pointer to the array's elements, from `GetByteArrayElements`;
- `is_copy`, which says whether the JVM handed out a copy or the array itself;
- `exception`, the exception a stream call threw.

Byte contents are abstracted away. A write is its size, and a read matters only by whether it returned data.

State:

- `op`: the native in progress.
- `input`: whether the reader has returned NULL.
- `calls`: the number of reader or writer calls so far, below `MaxCalls`.
- `bytes`, `isCopy`, `sexc`: the `Stream` record's fields.
- `werr`: the writer returned 1.
- `pending`: a Java exception is pending.
- `pushed`: a chunk was left on the Lua stack.
- `copied`: the size of the last `memcpy` into the elements.

| Action | Code |
|---|---|
| `jcall_load`, `jcall_dump` (`Start`) | `JNLUA_ENV_L` and the checks, each of which may throw |
| `readhandler` | `InputStream.read`, with three outcomes: it throws, it returns -1, or it returns data. After data, a copy is released and the elements are fetched again, and that fetch may fail. |
| `writehandler` | fetch once (this may fail), `memcpy`, commit a copy, then `OutputStream.write`, which may throw |
| `LoadReturn`, `DumpReturn` (`Finish`) | the status of `lua_load`/`lua_dump`, then `throw(L, status)` unless the stream threw, the release of the elements, and `Throw` of the stream's exception |

### LuaStack.tla: the single-step stack wrappers

State: `stk`, the Lua stack as a sequence of values; `reg` and `glob`, the values at `LUA_REGISTRYINDEX` and `LUA_GLOBALSINDEX`; `thrown`, whether the last native left a Java exception pending; `corrupt`, set when `L->top` is moved below the frame's base. A value is a record of its Lua type and a small payload. The index checks are operators with the source's names (`validindex`, `checkindex`, `checkrealindex`, `checkstack`, and the `lua_absindex` macro).

| Action | Code |
|---|---|
| `jcall_pushboolean`, `jcall_pushnil`, `jcall_pushnumber` | `checkstack(JNLUA_MINSTACK)`, then the push (`Push`) |
| `jcall_pushbytearray` | `bytes2string(L, ba, bl, 2)`, with no `checkstack` |
| `jcall_pushstring` | `checkstack`, `getstringchars` (a null string or a failed `GetStringUTFChars` throws), `lua_pushlstring` |
| `jcall_pushstr2num` | `checkstack`; nil for `bl == 0`; else the string is pushed, converted by `lua_tonumberx(L, -1)`, and popped, with a number pushed back or an `Error` thrown |
| `jcall_copy`, `jcall_pushvalue`, `jcall_replace` | `checkindex` (and `checkstack` or `checknelems(1)`), then the Lua call; into a pseudo-index they write the registry or `L->env` |
| `jcall_insert`, `jcall_remove` | `checkrealindex`, then `lua_insert` or `lua_remove` |
| `jcall_pop`, `jcall_settop` | the count or index check of each, then `lua_pop` or `lua_settop` |
| `jcall_tointeger`, `jcall_tonumber` | `checkindex`, then a read that leaves the stack as it is |

The read wrappers (`is*`, `type`, `toboolean`) change nothing, so they are the operator `Probe(op, i)`: `validindex ? lua_X : default`. `IndexRulesMatchManual` compares them, `checkrealindex` and `lua_absindex` with `RefValue`, the Lua manual's definition of what an index names, at every index the run passes. `MallocFails` says whether `bytes2string`'s `malloc` and `GetStringUTFChars` may fail.

## 3. Runs

| Run | Cfg | Expect | What it shows |
|---|---|---|---|
| bridge_reentrancy | JniCallBridge_reentrancy.cfg | pass | In a Java application's thread, nested natives called from Java callbacks keep `JNLUA_CONTROL` equal to "an outermost native has not detached", even when unprotected metamethods run Lua. No Lua code runs while a Java exception is pending. The `jcall_pushnumber` that `push_args` calls for a `-64` result is always nested there, so it never deletes `javafunction`. Under the fairness of `FairSpec`, every error status returned by `lua_pcall` or `lua_resume` to a native reaches its Java caller as a pending exception (`ErrorReachesJava`). |
| bridge_isolation | JniCallBridge_isolation.cfg | pass | If all Lua code reached from natives runs under `lua_pcall`, no error crosses the JNI boundary, including errors from Java exceptions in nested callbacks. |
| alloc_single | LuaAlloc_single.cfg | pass | With one limited state and requests within the cap, accounting is exact and the cap holds across malloc, grow/shrink realloc, free and close. |
| alloc_cap_wrap | LuaAlloc_cap_wrap.cfg | violation | A request above the whole cap wraps `total - nsize` and is granted. |
| cache_contract | MetadataCache_contract.cfg | pass | With fields and missing members, the cache implements `MetadataCacheSpec`. Every lookup answers what the resolver answers, the resolver runs at most once per class and member, and a new class starts with its metadata functions. |
| vm_lifecycle | JavaVm_lifecycle.cfg | violation | `gcjavaobject` skips its work only when `thread_env` is NULL ("the Java VM was destroyed"), but nothing clears `thread_env`. TLC's trace has five states: `create_vm`, a Java function pushes a Java object into Lua, `destroy_vm`, then the object's `__gc` calls `DeleteGlobalRef` through the destroyed JVM's env. |
| stream_dump_overflow | Stream_dump_overflow.cfg | violation | `jcall_dump` of a function whose bytecode block is longer than the 1024-byte array: `writehandler`'s `memcpy` writes past the array's elements. TLC's trace has three states: `jcall_dump`, then one write of a block of 5 into an array of 4. |
| tablepair_ops | TablePair_ops.cfg | pass | Over insert-mode, set, get and next calls, including on tables with holes: (1) the pair buffer stays well typed; (2) appending to and removing from the end of a sequence in table.insert mode is exact. |
| lua_stack_wrappers | LuaStack_wrappers.cfg | pass | Over every sequence of stack wrapper calls on a stack of up to three slots, the index checks agree with the Lua manual at every index, the boundaries 0 and -(top+1) and the pseudo-indexes included (70080 states). |
| lua_stack_str2num_malloc | LuaStack_str2num_malloc.cfg | violation | With `bytes2string`'s `malloc` able to fail, `jcall_pushstr2num` throws and still pops the caller's value: a push, then a `jcall_pushstr2num` whose `malloc` fails, leave the stack one value short with `LuaMemoryAllocationException` pending. |
| results_parallel | SharedResults_parallel.cfg | violation | Natives on two separate `LuaState`s read each other's answer. Thread t1's `jcall_equal` stores 0 for an invalid index, t2's `equal_protected` stores 1 into the same global `equal_result`, and t1 returns 1 with no exception pending. The spec says independent instances share no mutable state. |
| tablepair_insert | TablePair_insert.cfg | violation | "table.insert mode" is not `table.insert`. An insert or removal inside the list moves one element instead of shifting the tail, and target 0 is accepted. |

Each property of a passing run has a mutant in `PROJECT.json`: a plausible bug in the mapped code that makes TLC report the property violated. The mutants are:

- `JNLUA_CONTROL` counted instead of flagged;
- `JNLUA_DETACH` without its `envStat < 10` test;
- `calljavafunction` without `handlejavaexception`;
- `JNLUA_DETACH_L` deleting `obj` without its `envStat < 10` test;
- a body run with `lua_call`;
- a reversed shrink test in `l_alloc`;
- a free that subtracts `nsize`;
- `findjavafunction` without its negative-cache test;
- `build_args` taking the type byte of the pushed "1"/"0" string for a boolean;
- the relative insert key without its `+ 1`;
- `jcall_resume` without `throw(L, status)` on an error status;
- `validindex` taking `LUA_REGISTRYINDEX` for a relative index (`<` for `<=`);
- `jcall_settop` without its `checkstack`.

Twelve hazards have a trace but no run of their own, because runs are limited to twelve:

- In a Lua interpreter that loaded javavm.c, `JNLUA_CONTROL` is clear when Lua calls Java. A Java function returning one number through the `-64` path makes `push_args` call `jcall_pushnumber` as the outermost native, and its `JNLUA_DETACH_L` deletes `javafunction`, a global reference, with `DeleteLocalRef`. With `Hosts = {"lua"}` and no deadlock check, `JavaFunctionRefKept` fails in five steps.
- `checkindex` admits the pseudo-indexes, so `jcall_replace` and `jcall_copy` can overwrite the registry, or set `L->env` to a non-table. An invariant that the registry stays the registry table fails in two steps.

- `readhandler` turns an exception from `InputStream.read` into the end of the chunk. If the text read so far parses (an empty chunk does), `jcall_load` leaves a function on the Lua stack and throws the `IOException`. In `Stream`, `op = "idle" => ~(pushed /\ pending)` fails in four steps.

- `jcall_table_pair_get` on a non-table returns without `JNLUA_DETACH`. With `"other"` in `PairGetInputs`, `EnvNestingExact` fails in three steps: `JNLUA_CONTROL` stays set after the native has returned.
- `calljavafunction` does not check for an exception after `push_args`. With `PushFails = {TRUE, FALSE}`, `ExceptionNotPendingInLua` fails in eight steps: a failed `checkstack` in the `jcall_pushnumber` that `push_args` calls leaves an exception pending, and Lua resumes with it.

- `jcall_gettable` calls `lua_gettable` outside any `lua_pcall`. With `GettableKinds = {"metamethod"}`, `ErrorCaughtInsideBoundary` fails in four steps: an `__index` metamethod raises, and the longjmp passes the native frame. `getglobal`, `getfield`, `settable` and `setfield` have the same shape. The spec (4.2) says the Protected Call Engine recovers every engine failure.
- `jcall_findtable` releases `fname`'s chars (2422) and then passes `findtable_result` to `NewStringUTF` (2424). On a name conflict, that result points into those chars. With `Natives = {"findtable"}` and one thread, `ReturnsOwnResult` fails in three steps. `results_parallel` leaves findtable out, so that its shortest trace is the cross-thread one.

- A second limited `LuaState` created on a thread overwrites the thread-local `luastate_obj`. With `States = {A, B}`, `AccountingExact` fails once the first state allocates after the second exists.
- `JNLUA_JAVASTATE` outlives the JVM. `create_vm` may fail after the Java `LuaState` exists (`openLib` throws), or give the constructor an undefined `ownState` of 1. `JavaVm` has both paths. A `calljavafunction` after the `vm_rec` finalizer then calls into the destroyed JVM, which the `"calljavafunction"` misuse records.

- `l_alloc` charges before `malloc`. With `MallocResults = {"ptr", "NULL"}`, `AccountingExact` fails after one refused malloc.
- A failing `JNLUA_PCALL` in an outermost native runs `JNLUA_DETACH_L` twice, and so deletes `obj` twice. `JniCallBridge` counts the deletions in the frame's `released` field.
- `detach_vm` after `create_vm` reads the `vm_rec` as a `jobject`. `JavaVm` records this as the `"detach_vm"` misuse, which no property is about: detaching without attaching misuses the module's API.
- `release_vm` calls `clearRefs` after `DestroyJavaVM`. `JavaVm` records this as the `"clearRefs"` misuse, and the `vm_lifecycle` trace passes through it.

### Bounds

- `Hosts`: the pass runs use the Java application's thread, which is how `LuaState` is used from Java. The Lua interpreter's thread appears only in the five-step trace listed above.
- `MaxDepth = 20` frames. That allows three full levels of native → pcall → Lua → Java → native nesting. Every property above is broken within the first level by some mutant, and the second and third levels are where nested-native bugs show (10120 states for reentrancy, with coroutines).
- The allocator is scaled:
  - a 5-bit `jint` and a 6-bit `size_t`, so `jint` stays narrower than `size_t` as in the real code;
  - a cap of 10;
  - 3 blocks;
  - request sizes 1, 2, 3 and 5.

  These reach the cap exactly (5+5, or 2+3+5) and every branch. Exceeding the cap needs a single request above it (12 in `alloc_cap_wrap`).
- `MetadataCache` has two classes and six keys: a field, a method, a missing member, `CLASS_NAME`, a precached C function and a precached java-module helper. `MaxResolves = 2` lets a second resolver run happen, so the contract can be seen broken, and keeps the counter finite. `cache_contract` has `_G.java` loaded when classes are first seen, so both helpers are precached as closures with a false field flag.
- `TablePair` has `MaxLen = 3`, one string and both booleans, and insert keys -3..3. Insert mode runs on tables of at most two elements, so every relative key, target 0 and both out-of-range sides occur. Inserting inside a two-element list is the shortest way to see a single-element move fail. Set mode writes any key, so tables with holes, and with several borders, are reached.
- `SharedResults` has two threads and the answers 0 and 1. Two threads are the fewest for the race, and two answers the fewest for it to be seen. The run calls the three natives with global variables and three thread-local ones.
- `Stream` scales the 1024-byte array to 4 and lets `lua_dump` write blocks of 1 (a header) and 5 (a prototype longer than the array), with at most 3 reader or writer calls. LuaJIT's `lua_dump` writes each function prototype in one writer call, so a function of more than about 250 bytecode instructions gives a block above 1024 bytes.
- `LuaStack` has `MaxTop = 3` slots, `lua_checkstack` granting 2 (`MaxCStack`) and `JNLUA_MINSTACK = 1`, so checked pushes fail at 2 while `jcall_pushbytearray` still reaches 3. It has the strings "1" (a number) and "x", the indexes -4..4 (0 and -(top+1) among them for every height), `LUA_REGISTRYINDEX`, `LUA_GLOBALSINDEX` and `LUA_GLOBALSINDEX - 1` (an upvalue index), and pop counts -1..2. `LUA_ENVIRONINDEX` is left out: LuaJIT's answer for it depends on the calling C function, which a JNI native is not.
- `JavaVm` has two Java objects. With two, one object can be finalized while another is still held, and one can be pushed after another was freed. The JVM is created at most once: a HotSpot process cannot create a second JVM after `DestroyJavaVM`, so `create_vm` requires `jvm = "none"`.

### Deadlock

- `JniCallBridge`: not deadlock-free by construction. The app frame can always call a native. After a crash, `Crashed` stutters, because the process is gone.
- `alloc_single`: runs with `CHECK_DEADLOCK FALSE`. Once its only `LuaState` is closed, the thread has nothing left to do.
- `JavaVm` runs: `CHECK_DEADLOCK FALSE`. After the JVM is destroyed and every object finalized, nothing is left to do, because no second JVM can be created.

- `TablePair`: deadlock is checked; `pair_get` is always enabled.
- `Stream`: deadlock is checked. An idle thread can always start a load or a dump, and every loop has a return step.
- `LuaStack`: deadlock is checked in `lua_stack_wrappers`, where a push always either pushes or throws. `lua_stack_str2num_malloc` does not check it, because a state with `L->top` below the base has no successor.
- `SharedResults`: deadlock is checked. An idle thread can always call a native, and a busy one can always take its next step.

### Fairness

One liveness property is checked: `ErrorReachesJava`, in `bridge_reentrancy`, under `FairSpec`. Its fairness is weak fairness of the three actions that are the native's own C code after `lua_pcall` or `lua_resume` returns. That code has no loop and takes no lock, so the thread runs it to its end once control is back in the native.

No fairness is assumed for anything else, because the code guarantees nothing about it:

- a Lua script or a Java function may run forever;
- a Java thread may never call again;
- a `JNLUA_PCALL` body may call Java, which may call natives without end.

So a property like "every native eventually returns" would hold only under an assumption about Lua and Java code, and is not stated. `SharedResults`' threads are scheduled by the JVM, and no code relies on their progress.

## 4. Plan for the rest of the project

Modules, in order of importance:

1. **ObjectLifecycle**: `pushjavaobject`/`tojavaobject`/`gc_args`/`jcall_ref`/`jcall_unref` and the full `jcall_close`, composed with `JavaVm`. It adds a second thread to cover `attach_vm`'s `DetachCurrentThread`. Properties:
   - every global reference is deleted at most once;
   - under fairness of Lua's collector, every pushed reference is eventually released.
2. **Marshaler**: the rest of the argument marshaler, beyond what `TablePair` models. `push_args`' array branch (types above 16) becomes a RECURSIVE operator over nested tagged arrays, checked against a reference. The module also models a pair operation nested through a metamethod, which overwrites the shared `JNLUA_PAIRS` buffer, and `gc_args`.

Left out of the model:

- the stack wrappers whose values are functions, userdata or Java objects (`pushjavafunction`, `tojavaobject` and the like). They belong to the object bridge. `LuaStack` has no such values, so its `isfunction`, `iscfunction`, `isjavafunction` and `isthread` always answer 0;
- `jcall_settop`'s strictness. It rejects `-(top+1)`, which Lua allows; the model keeps the code's check and no property is about it;
- tracing and logging;
- `JNI_OnLoad` class caching;
- `jcall_yield` and `jcall_status`. `jcall_status` only reads. `jcall_yield` calls `lua_yield` inside a JNI native. If the coroutine cannot yield, LuaJIT raises an error with no `lua_pcall` of that native to catch it. If it can, `lua_yield` returns -1 to Java, and what happens next depends on the Java caller of `LuaState.yield`, which is not in this repository. It is listed as a hazard.
- the values on Lua stacks. So `jcall_resume` reporting L's top value instead of the coroutine's error (`throw(L, status)` at 2712) is a hazard without a property;
- the coroutine library's own `coroutine.resume` and `coroutine.yield`. These are LuaJIT code, not bridge code.
