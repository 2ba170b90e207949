\* table.insert mode on a sequence, against table.insert / table.remove.
CONSTANTS
  MaxLen = 3
  Strs = {s1}
  NULL = NULL
  InsertKeys <- MCInsertKeys
  NullTypes = {4}
SPECIFICATION Spec
PROPERTIES
  InsertMatchesTableInsert
