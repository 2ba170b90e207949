------------------------------ MODULE TablePair ------------------------------
(***************************************************************************)
(* The bulk pair transfer of jnlua.c: jcall_table_pair_push and            *)
(* jcall_table_pair_get over one Lua table, through the pair buffer that   *)
(* jcall_table_pair_init registers (two Java slots, each a type byte and   *)
(* an object).  Java writes the key into slot 0 and the value into slot 1  *)
(* before a call; push_args decodes them, build_args encodes the values    *)
(* returned into the same slots.                                           *)
(*                                                                         *)
(* The table is its integer keys 0..MaxLen.  Table values are nil,         *)
(* booleans and strings (model values); a Java slot object is an integer   *)
(* (a number, or the byte string "1"/"0" of a boolean), a string model     *)
(* value, or NULL.                                                         *)
(***************************************************************************)
EXTENDS Integers, FiniteSets, SequencesExt

CONSTANTS
  MaxLen,       \* the largest integer key; insert mode runs on a table
                \* whose length leaves room for one more element
  Strs,         \* Lua strings
  NULL,         \* a null Java object
  InsertKeys,   \* integer keys Java passes in table.insert mode
  NullTypes     \* type bytes Java may pair with a null object in slot 1

ASSUME MaxLen \in Nat \ {0} /\ InsertKeys \subseteq Int

LUA_TNIL == 0
LUA_TBOOLEAN == 1
LUA_TNUMBER == 3
LUA_TSTRING == 4

Nil == [t |-> "nil", v |-> NULL]
LuaVals == {Nil} \cup [t : {"boolean"}, v : BOOLEAN] \cup [t : {"string"}, v : Strs]
Idx == 0..MaxLen

VARIABLES
  tbl,     \* tbl[i]: the table's value at integer key i
  buf,     \* the pair buffer: <<slot 0, slot 1>>, each [type, obj]
  status,  \* "ok", or "error": the call ended with a Java exception
  call     \* the last call: its kind, its slots as Java wrote them, the
           \* length lua_objlen gave and the key it wrote to (history)

vars == <<tbl, buf, status, call>>

\* build_args taking the type byte of the "1"/"0" string it pushes for a
\* boolean instead of the boolean's own.
build_arg_strtype(x) ==
  CASE x.t = "string"  -> [type |-> LUA_TSTRING, obj |-> x.v]
    [] x.t = "boolean" -> [type |-> LUA_TSTRING, obj |-> IF x.v THEN 1 ELSE 0]
    [] x.t = "nil"     -> [type |-> LUA_TNIL, obj |-> NULL]

\* build_args for one value, sync on: the type byte and the object.
build_arg(x) == CASE x.t = "string"  -> [type |-> LUA_TSTRING, obj |-> x.v]
                  [] x.t = "boolean" -> [type |-> LUA_TBOOLEAN,
                                         obj |-> IF x.v THEN 1 ELSE 0]
                  [] x.t = "nil"     -> [type |-> LUA_TNIL, obj |-> NULL]

\* push_args for one scalar slot: a null object, whatever its type, is nil.
push_arg(e) == CASE e.type = LUA_TNIL \/ e.obj = NULL -> Nil
                 [] e.type = LUA_TBOOLEAN -> [t |-> "boolean", v |-> e.obj = 1]
                 [] e.type = LUA_TSTRING  -> [t |-> "string", v |-> e.obj]

NumberSlot(k) == [type |-> LUA_TNUMBER, obj |-> k]

\* What Java may write into slot 1.
ValueSlots == {build_arg(x) : x \in LuaVals} \cup
              {[type |-> ty, obj |-> NULL] : ty \in NullTypes}

\* The borders of the table: lua_objlen may answer any of them.
Borders(t) == {n \in Idx : (n = 0 \/ t[n] # Nil) /\ (n = MaxLen \/ t[n + 1] = Nil)}

At(t, i) == IF i \in Idx THEN t[i] ELSE Nil

\* The target with the "+ 1" of the relative key dropped.
insert_size_off(k, len) == IF k <= 0 THEN k + len ELSE k

\* The target key of table.insert mode: a key <= 0 counts from the end.
insert_size(k, len) == IF k <= 0 THEN k + len + 1 ELSE k

\* jcall_tablemove(index, from, to, 1), as pcall_table_pair_push calls it.
tablemove1(t, from, to) == [t EXCEPT ![to] = At(t, from)]

\* Slot 0 after the options & 8 step: build_args of the original value.
ReturnsSlot0(opt8, kslot, orig) == IF opt8 THEN build_arg(orig) ELSE kslot

(***************************************************************************)
(* jcall_table_pair_push with options & 4 (table.insert mode).             *)
(* pcall_table_pair_push decodes the key; a key that is not an integer, or *)
(* whose target is outside 0..len+1, raises through check(); otherwise     *)
(* with options & 8 the original value goes to slot 0, one element is     *)
(* moved when the target is inside the table (towards the target for a    *)
(* nil type byte in slot 1, which then writes at len), and lua_rawseti     *)
(* stores the decoded value.                                               *)
(***************************************************************************)
pair_push_insert(kslot, vslot, opt8) ==
  \E len \in Borders(tbl) :
    LET k    == kslot.obj
        size == insert_size(k, len)
        del  == vslot.type = LUA_TNIL
        move == len > size - 1
        at   == IF move /\ del THEN len ELSE size
        t1   == IF ~move THEN tbl
                ELSE IF del THEN tablemove1(tbl, size + 1, size)
                            ELSE tablemove1(tbl, size, size + 1)
    IN
    /\ len < MaxLen
    /\ \/ /\ kslot.type = LUA_TSTRING             \* not an integer key
          /\ status' = "error" /\ buf' = <<kslot, vslot>> /\ UNCHANGED tbl
       \/ /\ kslot.type = LUA_TNUMBER
          /\ size < 0 \/ size > len + 1           \* key index out of range
          /\ status' = "error" /\ buf' = <<kslot, vslot>> /\ UNCHANGED tbl
       \/ /\ kslot.type = LUA_TNUMBER
          /\ size >= 0 /\ size <= len + 1
          /\ buf' = <<ReturnsSlot0(opt8, kslot, At(tbl, size)), vslot>>
          /\ tbl' = [t1 EXCEPT ![at] = push_arg(vslot)]
          /\ status' = "ok"
    /\ call' = [op |-> "insert", k |-> kslot, v |-> vslot, opt8 |-> opt8,
                len |-> len,
                pos |-> IF kslot.type = LUA_TNUMBER THEN size ELSE -1]

\* jcall_table_pair_push without options & 4: lua_rawset of the decoded key
\* and value, after the options & 8 step; a nil key raises in lua_rawset.
pair_push_set(kslot, vslot, opt8) ==
  LET key == IF kslot.type = LUA_TNUMBER THEN kslot.obj ELSE -1 IN
  /\ buf' = <<ReturnsSlot0(opt8, kslot, At(tbl, key)), vslot>>
  /\ \/ /\ kslot.type = LUA_TNUMBER
        /\ tbl' = [tbl EXCEPT ![key] = push_arg(vslot)]
        /\ status' = "ok"
     \/ /\ kslot.type = LUA_TNIL                  \* table index is nil
        /\ status' = "error" /\ UNCHANGED tbl
  /\ call' = [op |-> "set", k |-> kslot, v |-> vslot, opt8 |-> opt8,
              len |-> 0, pos |-> key]

\* jcall_table_pair_get: lua_gettable of the key in slot 0, whose value
\* build_args writes back into slot 0.
pair_get(k) ==
  /\ buf' = <<build_arg(tbl[k]), buf[2]>>
  /\ status' = "ok"
  /\ call' = [op |-> "get", k |-> NumberSlot(k), v |-> buf[2], opt8 |-> FALSE,
              len |-> 0, pos |-> k]
  /\ UNCHANGED tbl

\* jcall_table_pair_get with options & 32: lua_next from the key in slot 0
\* (nil to start), the next key and value into slots 0 and 1, or two nils.
\* The integer keys are visited in ascending order.
pair_next(kslot) ==
  LET from == IF kslot.type = LUA_TNIL THEN -1 ELSE kslot.obj
      rest == {j \in Idx : j > from /\ tbl[j] # Nil}
      j    == CHOOSE j \in rest : \A i \in rest : j <= i
  IN
  /\ buf' = IF rest = {} THEN <<build_arg(Nil), build_arg(Nil)>>
            ELSE <<NumberSlot(j), build_arg(tbl[j])>>
  /\ status' = "ok"
  /\ call' = [op |-> "next", k |-> kslot, v |-> buf[2], opt8 |-> FALSE,
              len |-> 0, pos |-> from]
  /\ UNCHANGED tbl

\* The keys Java passes: integers, a string, or nil.
InsertKeySlots == {NumberSlot(k) : k \in InsertKeys} \cup
                  {[type |-> LUA_TSTRING, obj |-> s] : s \in Strs}
SetKeySlots == {NumberSlot(k) : k \in Idx} \cup {build_arg(Nil)}
NextKeySlots == {build_arg(Nil)} \cup {NumberSlot(k) : k \in {i \in Idx : tbl[i] # Nil}}

Init == /\ tbl = [i \in Idx |-> Nil]
        /\ buf = <<build_arg(Nil), build_arg(Nil)>>
        /\ status = "ok"
        /\ call = [op |-> "none", k |-> build_arg(Nil), v |-> build_arg(Nil),
                   opt8 |-> FALSE, len |-> 0, pos |-> 0]

Next == \/ \E k \in InsertKeySlots, v \in ValueSlots, o \in BOOLEAN :
             pair_push_insert(k, v, o)
        \/ \E k \in SetKeySlots, v \in ValueSlots, o \in BOOLEAN :
             pair_push_set(k, v, o)
        \/ \E k \in Idx : pair_get(k)
        \/ \E k \in NextKeySlots : pair_next(k)

Spec == Init /\ [][Next]_vars

-----------------------------------------------------------------------------
\* Every slot of the pair buffer holds an object of the class its type
\* byte names, the contract Java's decoding of the slots relies on.
SlotOK(e) == \/ e.type = LUA_TNIL /\ e.obj = NULL
             \/ e.type = LUA_TBOOLEAN /\ e.obj \in {0, 1}
             \/ e.type = LUA_TNUMBER /\ e.obj \in InsertKeys \cup Idx
             \/ e.type = LUA_TSTRING /\ e.obj \in Strs
             \/ e.type \in NullTypes /\ e.obj = NULL
TypeOK == /\ \A i \in 1..2 : SlotOK(buf[i])
          /\ status \in {"ok", "error"}

\* The table is a Lua sequence 1..n (nothing at key 0), and the list of it.
IsSeq(t) == t[0] = Nil /\ \E n \in Idx : \A i \in 1..MaxLen : t[i] # Nil <=> i <= n
ListLen(t) == Cardinality({i \in Idx : t[i] # Nil})
ListOf(t) == [i \in 1..ListLen(t) |-> t[i]]

\* Options bit 4 is "table.insert mode": on a sequence of n elements a push
\* of a value that succeeds targets a position in 1..n+1 and leaves the
\* sequence with the value inserted there (table.insert); a push with a nil
\* type byte removes the element at its position in 1..n and leaves the
\* sequence as it is for any other position (table.remove).
InsertMatchesTableInsert ==
  [][ call'.op = "insert" /\ status' = "ok" /\ IsSeq(tbl) =>
        LET n   == ListLen(tbl)
            pos == call'.pos
            v   == push_arg(call'.v)
        IN /\ v # Nil =>
                 /\ pos \in 1..n + 1
                 /\ IsSeq(tbl') /\ ListOf(tbl') = InsertAt(ListOf(tbl), pos, v)
           /\ call'.v.type = LUA_TNIL =>
                 /\ IsSeq(tbl')
                 /\ ListOf(tbl') = IF pos \in 1..n THEN RemoveAt(ListOf(tbl), pos)
                                  ELSE ListOf(tbl) ]_vars

\* Appending and removing at the end of a sequence in table.insert mode,
\* by key 0 or n+1 and by key -1 or n, are exact: the value is appended,
\* or the last element removed, and the table stays a sequence.
EndOperationsExact ==
  [][ call'.op = "insert" /\ IsSeq(tbl) =>
        LET n == ListLen(tbl)
            k == call'.k.obj
            v == push_arg(call'.v)
        IN /\ call'.k.type = LUA_TNUMBER /\ k \in {0, n + 1} /\ v # Nil
              => status' = "ok" /\ IsSeq(tbl') /\ ListOf(tbl') = Append(ListOf(tbl), v)
           /\ call'.k.type = LUA_TNUMBER /\ k \in {-1, n} /\ n > 0
              /\ call'.v.type = LUA_TNIL
              => status' = "ok" /\ IsSeq(tbl') /\ ListOf(tbl') = RemoveAt(ListOf(tbl), n) ]_vars
=============================================================================
