------------------------------- MODULE Stream -------------------------------
(***************************************************************************)
(* The stream adapters of jnlua.c: jcall_load feeds lua_load from a Java   *)
(* InputStream through readhandler, and jcall_dump feeds a Java            *)
(* OutputStream from lua_dump through writehandler.  Both share one Stream *)
(* record: a Java byte array of 1024 bytes made by newbytearray, the       *)
(* native pointer to its elements (GetByteArrayElements, which may hand    *)
(* out the array itself or a copy), and the exception a stream call threw. *)
(*                                                                         *)
(* Byte contents are abstracted away.  A write is its size, from a small   *)
(* set of block sizes.  A read only matters by whether it returned data;   *)
(* InputStream.read(byte[]) never returns more than the array holds.       *)
(***************************************************************************)
EXTENDS Naturals

CONSTANTS
  BufLen,      \* length of the Java byte array (newbytearray(1024))
  DumpBlocks,  \* sizes of the blocks lua_dump passes to the writer
  MaxCalls     \* bound on reader or writer calls in one load or dump

ASSUME BufLen \in Nat \ {0}
ASSUME DumpBlocks \subseteq Nat \ {0} /\ MaxCalls \in Nat

VARIABLES
  op,       \* "idle", "load" or "dump": the native in progress
  input,    \* "more" or "eof": the reader has returned NULL to lua_load
  calls,    \* reader or writer calls made by the current native
  bytes,    \* "null" or "held": stream.bytes
  isCopy,   \* stream.is_copy from the last GetByteArrayElements
  sexc,     \* stream.exception is set
  werr,     \* the writer has returned 1 to lua_dump
  pending,  \* a Java exception is pending on the thread
  pushed,   \* the last jcall_load left a loaded chunk on the Lua stack
  copied    \* size of the last memcpy into stream.bytes (0: none yet)

vars == <<op, input, calls, bytes, isCopy, sexc, werr, pending, pushed, copied>>

Init ==
  /\ op = "idle" /\ input = "more" /\ calls = 0
  /\ bytes = "null" /\ isCopy = FALSE /\ sexc = FALSE /\ werr = FALSE
  /\ pending = FALSE /\ pushed = FALSE /\ copied = 0

\* The native's checks (checkstack, checknotnull, getstringchars or
\* checknelems, newbytearray) either all pass and the Stream is set up,
\* or one throws and the native cleans up with nothing to release.
Start(kind) ==
  /\ op = "idle"
  /\ \/ /\ op' = kind
        /\ pending' = FALSE
     \/ /\ pending' = TRUE
        /\ UNCHANGED op
  /\ input' = "more" /\ calls' = 0 /\ bytes' = "null" /\ isCopy' = FALSE
  /\ sexc' = FALSE /\ werr' = FALSE /\ pushed' = FALSE
  /\ UNCHANGED copied

jcall_load == Start("load")

jcall_dump == Start("dump")

(***************************************************************************)
(* readhandler: InputStream.read into the array.  An exception is kept in  *)
(* stream.exception and cleared; it and -1 return NULL, which lua_load     *)
(* takes as the end of the chunk.  Otherwise a copy obtained earlier is    *)
(* released (JNI_ABORT) and the elements are fetched again; a failing      *)
(* GetByteArrayElements throws IOException and returns NULL.               *)
(***************************************************************************)
readhandler ==
  /\ op = "load" /\ input = "more" /\ calls < MaxCalls
  /\ calls' = calls + 1
  /\ \/ /\ sexc' = TRUE                          \* read threw
        /\ input' = "eof"
        /\ UNCHANGED <<bytes, isCopy, pending>>
     \/ /\ input' = "eof"                        \* read == -1
        /\ UNCHANGED <<sexc, bytes, isCopy, pending>>
     \/ LET kept == bytes = "held" /\ ~isCopy    \* data read
        IN \/ /\ kept
              /\ UNCHANGED <<input, bytes, isCopy, pending>>
           \/ /\ ~kept                           \* GetByteArrayElements
              /\ isCopy' \in BOOLEAN
              /\ bytes' = "held"
              /\ UNCHANGED <<input, pending>>
           \/ /\ ~kept                           \* ... returns NULL
              /\ bytes' = "null" /\ pending' = TRUE /\ input' = "eof"
              /\ UNCHANGED isCopy
        /\ UNCHANGED sexc
  /\ UNCHANGED <<op, werr, pushed, copied>>

(***************************************************************************)
(* writehandler: fetch the elements once, memcpy the block into them,      *)
(* commit a copy back (JNI_COMMIT keeps it), then OutputStream.write(b, 0, *)
(* size).  A failing fetch throws IOException; an exception from write is  *)
(* kept in stream.exception.  Either makes the writer return 1.            *)
(***************************************************************************)
writehandler ==
  /\ op = "dump" /\ ~werr /\ calls < MaxCalls
  /\ calls' = calls + 1
  /\ \/ /\ bytes = "null"                         \* GetByteArrayElements fails
        /\ pending' = TRUE /\ werr' = TRUE
        /\ UNCHANGED <<bytes, isCopy, sexc, copied>>
     \/ /\ \/ bytes = "held" /\ UNCHANGED isCopy
           \/ bytes = "null" /\ isCopy' \in BOOLEAN  \* ... or succeeds
        /\ bytes' = "held"
        /\ \E size \in DumpBlocks : copied' = size  \* memcpy(bytes, data, size)
        /\ \E threw \in BOOLEAN :                   \* OutputStream.write
              sexc' = threw /\ werr' = threw
        /\ UNCHANGED pending
  /\ UNCHANGED <<op, input, pushed>>

(***************************************************************************)
(* lua_load returns: a chunk when the text read so far parses, a syntax    *)
(* error otherwise (also before the input ends).  lua_dump returns the     *)
(* writer's error, or 0 when all blocks are written.  Then the native:     *)
(* throw(L, status) unless the stream threw, ReleaseByteArrayElements      *)
(* (JNI_ABORT), DeleteLocalRef of the array, releasestringchars of the     *)
(* chunk name, Throw of the stream's exception, and JNLUA_DETACH_L.        *)
(***************************************************************************)
Finish(ok) ==
  /\ pending' = (pending \/ sexc \/ ~ok)
  /\ op' = "idle" /\ bytes' = "null"
  /\ UNCHANGED <<input, calls, isCopy, sexc, werr, copied>>

LoadReturn ==
  /\ op = "load"
  /\ \E ok \in IF input = "eof" THEN BOOLEAN ELSE {FALSE} :
       /\ pushed' = ok
       /\ Finish(ok)

DumpReturn ==
  /\ op = "dump"
  /\ Finish(~werr)
  /\ UNCHANGED pushed

Next == jcall_load \/ jcall_dump \/ readhandler \/ writehandler
          \/ LoadReturn \/ DumpReturn

Spec == Init /\ [][Next]_vars

-----------------------------------------------------------------------------
TypeOK ==
  /\ op \in {"idle", "load", "dump"} /\ input \in {"more", "eof"}
  /\ calls \in 0..MaxCalls /\ bytes \in {"null", "held"}
  /\ isCopy \in BOOLEAN /\ sexc \in BOOLEAN /\ werr \in BOOLEAN
  /\ pending \in BOOLEAN /\ pushed \in BOOLEAN
  /\ copied \in {0} \cup DumpBlocks

\* writehandler copies each block lua_dump hands it into the elements of
\* the 1024-byte array made by newbytearray, and so never copies more
\* bytes than the array holds.  Broken by any block longer than the array:
\* LuaJIT's lua_dump writes a whole function prototype in one call.
WriteFitsBuffer == copied <= BufLen
====
