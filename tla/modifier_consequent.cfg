SPECIFICATION Spec
CONSTANTS
    Types = {"ForOfStatement", "LabeledStatement", "BlockStatement", "ReturnStatement"}
    associations = {"ForOfStatement", "LabeledStatement"}
    Branch = "consequent"
    MaxDepth = 7
INVARIANTS StackMirrorsPath
