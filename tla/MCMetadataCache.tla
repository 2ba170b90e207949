--------------------------- MODULE MCMetadataCache ---------------------------
(* Model-checking instance of MetadataCache: two classes, one field, one  *)
(* method and one missing member per class, the class-name key and one   *)
(* key of each precached kind.                                           *)
EXTENDS MetadataCache

CONSTANTS c1, c2, kField, kMethod, kMissing, kClass, kGc, kToTable

MCKeys == {kField, kMethod, kMissing, kClass, kGc, kToTable}

\* Members as Java reflection sees them.
MCTruth ==
  [c \in {c1, c2} |-> [k \in MCKeys |->
     CASE k = kField  -> "value"
       [] k = kMethod -> "method"
       [] OTHER       -> "absent"]]
=============================================================================
