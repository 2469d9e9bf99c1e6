SPECIFICATION Spec
CONSTANTS
  Capacity = 3
  MaxDepth = 3
  MaxScope = 4
  MaxRows = 2
  Objects = {q1}
  HashIds <- OwnIds
  IdHash <- OwnIdHash
  Codes = {break, return}
  BareCodes = {break}
  NoValue = NoValue
INVARIANTS
  ScopeStackCoversRuns
PROPERTIES
  KeepsContract
CHECK_DEADLOCK FALSE
