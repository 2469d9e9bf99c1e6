---------------------------- MODULE HandlerLoops ----------------------------
(***************************************************************************)
(* What a handler does, as its author reads it: JavaScript with for-of     *)
(* over a query's rows, before any transformation.  It is the promise the  *)
(* transformed program of TranspiledLoops is checked against.              *)
(***************************************************************************)
EXTENDS Nests

CONSTANT MaxRows        \* bound on the rows of one pass through a loop

VARIABLES
    at,         \* the depth whose body is being executed, 0 outside
    before,     \* what that body holds has not been executed in this pass
    rows,       \* rows[i]: rows left of the loop at depth i
    pending,    \* the exit statement is being executed
    value       \* what the last function to end returned

vars == <<nest, exit, at, before, rows, pending, value>>

IsLoop(i) == K(i) \in LoopKinds
IsFunction(i) == K(i) \in FunctionKinds

TypeOK ==
    /\ at \in 0..Size
    /\ before \in BOOLEAN
    /\ pending \in BOOLEAN
    /\ rows \in [1..Size -> 0..MaxRows]
    /\ value \in {"none", "undefined", "value"}

Init ==
    /\ Program
    /\ at = 0
    /\ before = TRUE
    /\ rows = [i \in 1..Size |-> 0]
    /\ pending = FALSE
    /\ value = "none"

\* The statement inside the current body begins.
Enter ==
    /\ ~pending /\ before /\ at < Size
    /\ ~IsLoop(at + 1)
    /\ at' = at + 1
    /\ UNCHANGED <<nest, exit, before, rows, pending, value>>

\* A loop begins with its first row, or has none.
EnterLoop ==
    /\ ~pending /\ before /\ at < Size
    /\ IsLoop(at + 1)
    /\ \/ \E r \in 1..MaxRows :
             /\ rows' = [rows EXCEPT ![at + 1] = r - 1]
             /\ at' = at + 1
             /\ UNCHANGED before
       \/ /\ before' = FALSE
          /\ at' = Past(at)
          /\ UNCHANGED rows
    /\ UNCHANGED <<nest, exit, pending, value>>

\* The body of a loop is over and there is another row.
NextRow ==
    /\ ~pending /\ at > 0
    /\ IsLoop(at) /\ rows[at] > 0
    /\ rows' = [rows EXCEPT ![at] = @ - 1]
    /\ before' = TRUE
    /\ UNCHANGED <<nest, exit, at, pending, value>>

\* The current statement is over.
Leave ==
    /\ ~pending /\ at > 0
    /\ rows[at] = 0
    /\ at' = Past(at - 1)
    /\ before' = FALSE
    /\ value' = IF IsFunction(at) THEN "undefined" ELSE value
    /\ UNCHANGED <<nest, exit, rows, pending>>

ReachExit ==
    /\ ~pending /\ before /\ at = Size
    /\ pending' = TRUE
    /\ UNCHANGED <<nest, exit, at, before, rows, value>>

\* The exit statement does what JavaScript says.
TakeExit ==
    /\ pending
    /\ pending' = FALSE
    /\ at' = Landing
    /\ before' = FALSE
    /\ rows' = [i \in 1..Size |-> IF i > Landing THEN 0 ELSE rows[i]]
    /\ value' = IF exit.op = "return" THEN exit.value ELSE value
    /\ UNCHANGED <<nest, exit>>

Next == Enter \/ EnterLoop \/ NextRow \/ Leave \/ ReachExit \/ TakeExit

Spec == Init /\ [][Next]_vars
============================================================================
