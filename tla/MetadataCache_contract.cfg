\* Classes with fields, methods and missing members, and the java module
\* loaded when classes are first seen: lookups, misses, negative hits, precached C
\* functions and the class-name key in every order.
CONSTANTS
  c1 = c1  c2 = c2
  kField = kField  kMethod = kMethod  kMissing = kMissing
  kClass = kClass  kGc = kGc  kToTable = kToTable
  Classes = {c1, c2}
  Keys <- MCKeys
  ClassNameKey = kClass
  MetaCKeys = {kGc}
  MetaJKeys = {kToTable}
  JavaModule = TRUE
  Truth <- MCTruth
  MaxResolves = 2
SPECIFICATION Spec
PROPERTY ImplementsResolveContract
