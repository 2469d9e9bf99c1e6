SPECIFICATION Spec
CONSTANTS
  Capacity = 2
  MaxDepth = 2
  MaxScope = 2
  MaxRows = 1
  Objects = {q1, q2}
  HashIds <- OwnIds
  IdHash <- OwnIdHash
  Codes = {return}
  BareCodes = {}
  NoValue = NoValue
SYMMETRY Swaps
INVARIANTS
  PoolConserved
  StackMirrorsCalls
  CookiesPointToRuns
  JsRunsInsideIterations
PROPERTIES
  KeepsContract
CHECK_DEADLOCK FALSE
