SPECIFICATION Spec
CONSTANTS
    Labels = {A, B}
    Queries = {x, y}
    Names = {f}
    None = None
    NoKey = NoKey
    Kinds = {"forof", "label", "switch", "loop", "block"}
    Ops = {"continue"}
    Depth = 4
    MaxRows = 2
    Reuse = FALSE
    Excluded = {
        "break past a label",
        "continue of an outer label",
        "exit between loops over one query",
        "return of an arrow function",
        "return of an anonymous function",
        "return of an inner function" }
SYMMETRY Symmetry
INVARIANTS Compiles
CHECK_DEADLOCK FALSE
