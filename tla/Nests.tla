------------------------------- MODULE Nests -------------------------------
(***************************************************************************)
(* The programs the loop transformer of transpiler.js is asked about, and  *)
(* what JavaScript says they do.                                           *)
(*                                                                         *)
(* The transformer decides what becomes of an exit statement (break,       *)
(* continue, return) from the statements and functions around it alone.  A *)
(* program is therefore a nest: the statements from a handler down to one  *)
(* exit statement, outermost first, and the exit.  Statements beside the   *)
(* path are left out, and so are conditions: whatever stands in a body may *)
(* be skipped.                                                             *)
(***************************************************************************)
EXTENDS Integers, Sequences, FiniteSetsExt

CONSTANTS
    Labels,     \* label names
    Queries,    \* variables a for-of may run over
    Names,      \* names of functions
    None,       \* no label, no name
    Kinds,      \* the kinds of statement nests are made of
    Ops,        \* the exit statements that occur
    Depth       \* bound on the length of a nest

ASSUME NestAssumption ==
    /\ None \notin Labels \cup Queries \cup Names
    /\ Depth \in Nat \ {0}

VARIABLES
    nest,       \* the statements around the exit, outermost first
    exit        \* the exit statement, with its label
----------------------------------------------------------------------------
\* A statement that has a body, or a function.  Only a for-of is transformed;
\* "loop" stands for do-while, while, for and for-in, which the code tells from
\* nothing but their association with break and continue.
Node ==
    {node \in [kind : {"function"}, name : Names \cup {None}]
           \cup [kind : {"arrow", "loop", "switch", "block"}, name : {None}]
           \cup [kind : {"forof"}, name : Queries]
           \cup [kind : {"label"}, name : Labels] : node.kind \in Kinds}

HandlerNode == [kind : {"function"}, name : Names]

\* A return has an expression, or returns undefined without one.
Exit ==
    {e \in [op : {"break", "continue"}, name : Labels \cup {None}]
        \cup [op : {"return"}, name : {None}, value : {"value", "undefined"}] :
           e.op \in Ops}

Nearest(depths) == IF depths = {} THEN 0 ELSE Max(depths)

Size == Len(nest)
K(i) == nest[i].kind
At(kinds, depths) == {i \in depths : K(i) \in kinds}

FunctionKinds == {"function", "arrow"}
LoopKinds == {"forof", "loop"}

\* The function the exit stands in: no exit statement leaves it but return.
Home == Nearest(At(FunctionKinds, 1..Size))

\* The labels of statement i: a statement may have several.
LabelsOf(i) ==
    {nest[j].name : j \in {k \in 1..(i - 1) : \A l \in k..(i - 1) : K(l) = "label"}}

\* The statement an exit is about, 0 when there is none and the program is not
\* JavaScript.
Target ==
    CASE exit.op = "return" -> Home
      [] exit.op = "break" /\ exit.name = None ->
            Nearest(At(LoopKinds \cup {"switch"}, (Home + 1)..Size))
      [] exit.op = "break" /\ exit.name # None ->
            Nearest({i \in At({"label"}, (Home + 1)..Size) : nest[i].name = exit.name})
      [] exit.op = "continue" ->
            Nearest({i \in At(LoopKinds, (Home + 1)..Size) :
                        exit.name \in LabelsOf(i) \cup {None}})

\* Nothing comes after the body of a label: control that is back in it is past it.
Past(depth) == Nearest({i \in 1..depth : K(i) # "label"})

\* The statement whose body goes on once the exit has been taken.
Landing == Past(IF exit.op = "continue" THEN Target ELSE Target - 1)

WellFormed ==
    /\ \A i \in At({"block"}, 1..Size) : i > 1 /\ K(i - 1) = "label"
    /\ \A i \in At({"label"}, 1..Size) :
          /\ i < Size
          /\ K(i + 1) \in {"label", "block", "switch"} \cup LoopKinds
    /\ \A i, j \in At({"label"}, 1..Size) :
          i < j /\ nest[i].name = nest[j].name => At(FunctionKinds, i..j) # {}
    /\ Target # 0

\* A program: a handler, which is a function declaration, and what it holds.
Program ==
    /\ exit \in Exit
    /\ \E length \in 1..Depth : nest \in [1..length -> Node \cup HandlerNode]
    /\ \A i \in 1..Size : nest[i] \in IF i = 1 THEN HandlerNode ELSE Node
    /\ WellFormed
============================================================================
