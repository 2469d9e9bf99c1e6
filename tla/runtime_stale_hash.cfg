SPECIFICATION Spec
CONSTANTS
  Capacity = 2
  MaxDepth = 2
  MaxScope = 4
  MaxRows = 1
  Objects = {q1}
  HashIds <- OwnIds
  IdHash <- OwnIdHash
  Codes = {break, return}
  BareCodes = {break}
  NoValue = NoValue
INVARIANTS
  UniqueHashIsOfInnermostIteration
CHECK_DEADLOCK FALSE
