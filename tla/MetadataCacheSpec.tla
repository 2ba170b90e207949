-------------------------- MODULE MetadataCacheSpec --------------------------
(***************************************************************************)
(* What the metadata cache of one Lua state promises (the resolve contract *)
(* of the cache): indexing a Java object by a member name answers what the *)
(* Java resolver (reflection) answers for its class and that name, and the *)
(* resolver runs at most once per class and name.  A class seen for the    *)
(* first time knows its universal metadata functions without the resolver.*)
(***************************************************************************)
EXTENDS Naturals

CONSTANTS
  Classes,        \* Java classes whose objects Lua indexes
  Keys,           \* member names Lua looks up
  ClassNameKey,   \* the key answering the class name (CLASS_NAME)
  PrecachedKeys,  \* metadata keys materialized when a class is first seen
  Truth           \* Truth[c][k]: the resolver's answer, "absent", "value"
                  \* (a field's value) or "method" (a callable method)

Answers == {"absent", "value", "method", "fn", "name"}

VARIABLES
  seen,      \* classes whose metadata table exists
  known,     \* known[c][k]: the answer cached for (c, k), or "unknown"
  resolves,  \* resolves[c][k]: how often the resolver ran for (c, k)
  answer     \* the last lookup and its answer: <<c, k, a>>, or <<>>

vars == <<seen, known, resolves, answer>>

\* The first object of class c reaches Lua: its metadata table is created
\* with the precached keys already answered.
Register(c) ==
  /\ c \notin seen
  /\ seen' = seen \cup {c}
  /\ known' = [known EXCEPT ![c] =
                 [k \in Keys |-> IF k \in PrecachedKeys THEN "fn" ELSE "unknown"]]
  /\ UNCHANGED <<resolves, answer>>

\* Lua indexes an object of class c by k.
Resolve(c, k) ==
  /\ c \in seen
  /\ \/ /\ k = ClassNameKey
        /\ answer' = <<c, k, "name">>
        /\ UNCHANGED <<known, resolves>>
     \/ /\ k # ClassNameKey /\ known[c][k] # "unknown"
        /\ answer' = <<c, k, known[c][k]>>
        /\ UNCHANGED <<known, resolves>>
     \/ /\ k # ClassNameKey /\ known[c][k] = "unknown"
        /\ known' = [known EXCEPT ![c][k] = Truth[c][k]]
        /\ resolves' = [resolves EXCEPT ![c][k] = @ + 1]
        /\ answer' = <<c, k, Truth[c][k]>>
  /\ UNCHANGED seen

Init == /\ seen = {}
        /\ known = [c \in Classes |-> [k \in Keys |-> "unknown"]]
        /\ resolves = [c \in Classes |-> [k \in Keys |-> 0]]
        /\ answer = <<>>

Next == \E c \in Classes : Register(c) \/ \E k \in Keys : Resolve(c, k)

Spec == Init /\ [][Next]_vars
=============================================================================
