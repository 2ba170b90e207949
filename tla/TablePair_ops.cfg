\* Insert, set, get and next calls on one table of up to three elements.
CONSTANTS
  MaxLen = 3
  Strs = {s1}
  NULL = NULL
  InsertKeys <- MCInsertKeys
  NullTypes = {4}
SPECIFICATION Spec
INVARIANTS
  TypeOK
PROPERTIES
  EndOperationsExact
