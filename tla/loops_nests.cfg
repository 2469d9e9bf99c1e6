SPECIFICATION Spec
CONSTANTS
    Labels = {A, B}
    Queries = {x, y}
    Names = {f}
    None = None
    NoKey = NoKey
    Kinds = {"forof", "loop", "switch", "label", "block", "function", "arrow"}
    Ops = {"return", "break", "continue"}
    Depth = 5
    MaxRows = 2
    Reuse = FALSE
    Excluded = {
        "continue past a switch",
        "break past a label",
        "continue of an outer label",
        "exit between loops over one query",
        "return of an arrow function",
        "return of an anonymous function",
        "return of an inner function",
        "return without a value" }
INVARIANTS Compiles
PROPERTIES ImplementsHandler ExitsLand
CHECK_DEADLOCK FALSE
SYMMETRY Symmetry
