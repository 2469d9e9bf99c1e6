-------------------------- MODULE TranspiledLoops --------------------------
(***************************************************************************)
(* A handler after the loop transformer: the code that LoopTranspiler      *)
(* generates, run against the query objects of n1ql.cpp.  iter calls its   *)
(* callback once per row, so a for-of in its iter branch is a function     *)
(* boundary: the exit statement has been replaced by returns and stopIter  *)
(* calls that hand the exit from one for-of to the next.  The program      *)
(* implements the handler of HandlerLoops, in which it is one step.        *)
(***************************************************************************)
EXTENDS LoopTranspiler

CONSTANTS
    MaxRows,    \* bound on the rows of one pass through a loop
    Reuse,      \* a query object may be iterated again
    Excluded    \* the forms of nest that do not occur

ASSUME RunAssumption == MaxRows \in Nat /\ Reuse \in BOOLEAN

VARIABLES
    code,       \* the generated code
    outcome,    \* "code", "invalid" when it does not compile, or "throws"
    mode,       \* the branch taken by each for-of that is running
    at, before, rows,       \* as in HandlerLoops
    exiting,    \* on its way out
    statement,  \* the statement being executed
    stopped,    \* the iterations stopIter was called for
    retval,     \* return_value of each variable's query object
    value       \* what the last function to end returned

vars == <<nest, exit, code, outcome, mode, at, before, rows, exiting,
          statement, stopped, retval, value>>
program == <<nest, exit, code, outcome>>

NoStatement == Statement("none", None, NoKey)
IsLoop(i) == K(i) \in LoopKinds
Modes == [1..Size -> {"none", "iter", "plain"}]
Result(key, data) == [key |-> key, data |-> data]
NoResult == Result(NoKey, "undefined")
----------------------------------------------------------------------------
\* What a generated statement means where it stands: at a depth, inside the
\* callbacks of the for-ofs `calls'.

\* The innermost function of the generated code.
Boundary(depth, calls) ==
    Nearest({i \in 1..depth : K(i) \in FunctionKinds \/ i \in calls})

\* The label right above a for-of is deleted, and the alternate wraps the for-of
\* in it again; a label further out stays on the if statement, which continue
\* cannot name.
GeneratedLabels(i) ==
    IF K(i) = "forof" THEN {parentLabel(i)} \ {None} ELSE LabelsOf(i)

JumpTarget(s, depth, calls) ==
    LET inside == (Boundary(depth, calls) + 1)..depth
    IN CASE s.op = "break" /\ s.name = None -> Nearest(At(LoopKinds \cup {"switch"}, inside))
         [] s.op = "break" /\ s.name # None ->
               Nearest({i \in At({"label"}, inside) :
                           nest[i].name = s.name /\ (K(i + 1) = "forof" => i < depth)})
         [] s.op = "continue" ->
               Nearest({i \in At(LoopKinds, inside) :
                           s.name \in GeneratedLabels(i) \cup {None}})

Outcome ==
    CASE \E copy \in code : copy.statement.op = "throws" -> "throws"
      [] \E copy \in code :
            /\ copy.statement.op \in {"break", "continue"}
            /\ JumpTarget(copy.statement, copy.depth, copy.calls) = 0 -> "invalid"
      [] OTHER -> "code"

\* The for-ofs around depth d whose callbacks are running.
Calls(d) == {i \in 1..d : mode[i] = "iter"}

\* The copy that control is at: the exit, or the case for a key.
CopiesAt(depth, case) ==
    {copy \in code : copy.depth = depth /\ copy.case = case /\ copy.calls = Calls(depth)}
----------------------------------------------------------------------------
\* The forms of nest the transformer does not cover, each with what is so about
\* it: an exit of the innermost for-of i, or a return of an inner function.
Form(name) ==
    CASE name = "continue past a switch" ->
            /\ exit = [op |-> "continue", name |-> None] /\ K(Target) = "forof"
            /\ At({"switch"}, Target..Size) # {}
      [] name = "break past a label" ->
            /\ exit = [op |-> "break", name |-> None] /\ K(Target) = "forof"
            /\ At({"label"}, Target..Size) # {}
      [] name = "continue of an outer label" ->
            /\ exit.op = "continue" /\ exit.name # None /\ K(Target) = "forof"
            /\ exit.name # parentLabel(Target)
      [] name = "exit between loops over one query" ->
            /\ exit.op = "return" \/ exit.name # None
            /\ \E i \in ForOfs(1..Landing), j \in ForOfs((Landing + 1)..Size) :
                  Variable(i) = Variable(j)
      [] name = "return of an arrow function" ->
            /\ exit.op = "return" /\ K(Home) = "arrow"
            /\ ForOfs(1..Home) # {} /\ ForOfs(Home..Size) = {}
      [] name = "return of an anonymous function" ->
            /\ exit.op = "return" /\ nest[Home].name = None
            /\ \E i \in ForOfs(Home..Size) : ~Innermost(i)
      [] name = "return of an inner function" ->
            /\ exit.op = "return" /\ nest[Home].name # None
            /\ \E i \in ForOfs(1..Home) : \E j \in 1..(i - 1) :
                  K(j) = "forof" \/ (K(j) \in FunctionKinds /\ nest[j].name = None)
      [] name = "return without a value" ->
            /\ exit.op = "return" /\ exit.value = "undefined"
            /\ ForOfs(Home..Size) # {}

FormNames ==
    {"continue past a switch", "break past a label", "continue of an outer label",
     "exit between loops over one query", "return of an arrow function", "return of an anonymous function",
     "return of an inner function", "return without a value"}
----------------------------------------------------------------------------
Init ==
    /\ Program
    /\ \A name \in Excluded : ~Form(name)
    /\ code = Transpiled
    /\ outcome = Outcome
    /\ mode = [i \in 1..Size |-> "none"]
    /\ at = 0
    /\ before = TRUE
    /\ rows = [i \in 1..Size |-> 0]
    /\ exiting = FALSE
    /\ statement = NoStatement
    /\ stopped = {}
    /\ retval = [v \in Queries |-> NoResult]
    /\ value = "none"

\* Control is back in the body at depth d: everything inside it has ended.
Settle(d) ==
    /\ at' = Past(d)
    /\ before' = FALSE
    /\ exiting' = FALSE
    /\ statement' = NoStatement
    /\ rows' = [i \in 1..Size |-> IF i > Past(d) THEN 0 ELSE rows[i]]
    /\ mode' = [i \in 1..Size |-> IF i > Past(d) THEN "none" ELSE mode[i]]

\* The switch (x.getReturnValue(true)) after the iteration at depth i.
PostIteration(i, results) ==
    LET taken == CopiesAt(i - 1, results[Variable(i)].key)
    IN IF results[Variable(i)] # NoResult /\ taken # {}
       THEN /\ at' = i - 1
            /\ exiting' = TRUE
            /\ statement' \in {copy.statement : copy \in taken}
            /\ UNCHANGED <<before, rows, mode>>
       ELSE Settle(i - 1)

Enter ==
    /\ ~exiting /\ before /\ at < Size
    /\ ~IsLoop(at + 1)
    /\ at' = at + 1
    /\ UNCHANGED <<program, mode, before, rows, exiting, statement, stopped, retval, value>>

EnterLoop ==
    /\ ~exiting /\ before /\ at < Size
    /\ K(at + 1) = "loop"
    /\ \/ \E r \in 1..MaxRows :
             /\ rows' = [rows EXCEPT ![at + 1] = r - 1]
             /\ at' = at + 1
             /\ UNCHANGED before
       \/ /\ before' = FALSE
          /\ at' = Past(at)
          /\ UNCHANGED rows
    /\ UNCHANGED <<program, mode, exiting, statement, stopped, retval, value>>

\* The running for-ofs over the same variable as the for-of at depth i.
SameVariable(i) == {j \in ForOfs(1..(i - 1)) : Variable(j) = Variable(i)}

\* if (x instanceof N1qlQuery): the branch is decided by what x holds.  A query
\* object that is iterated for the first time has returned nothing.
EnterForOf(branch) ==
    LET i == at + 1
    IN /\ ~exiting /\ before /\ at < Size
       /\ K(i) = "forof"
       /\ \A j \in SameVariable(i) : mode[j] = branch
       /\ \/ retval' = [retval EXCEPT ![Variable(i)] = NoResult] /\ SameVariable(i) = {}
          \/ UNCHANGED retval /\ (Reuse \/ SameVariable(i) # {})
       /\ \/ \E r \in 1..MaxRows :
                /\ at' = i
                /\ mode' = [mode EXCEPT ![i] = branch]
                /\ rows' = [rows EXCEPT ![i] = r - 1]
                /\ UNCHANGED <<before, exiting, statement>>
          \/ IF branch = "iter" THEN PostIteration(i, retval') ELSE Settle(at)
       /\ UNCHANGED <<program, stopped, value>>

NextRow ==
    /\ ~exiting /\ at > 0
    /\ IsLoop(at) /\ rows[at] > 0
    /\ rows' = [rows EXCEPT ![at] = @ - 1]
    /\ before' = TRUE
    /\ UNCHANGED <<program, mode, at, exiting, statement, stopped, retval, value>>

Leave ==
    /\ ~exiting /\ at > 0
    /\ rows[at] = 0 /\ mode[at] # "iter"
    /\ Settle(at - 1)
    /\ value' = IF K(at) \in FunctionKinds THEN "undefined" ELSE value
    /\ UNCHANGED <<program, stopped, retval>>

\* The callback has returned for the last row.
EndIteration ==
    /\ ~exiting /\ at > 0
    /\ rows[at] = 0 /\ mode[at] = "iter"
    /\ PostIteration(at, retval)
    /\ UNCHANGED <<program, stopped, retval, value>>

ReachExit ==
    /\ ~exiting /\ before /\ at = Size
    /\ exiting' = TRUE
    /\ statement' \in {copy.statement : copy \in CopiesAt(Size, NoKey)}
    /\ UNCHANGED <<program, mode, at, before, rows, stopped, retval, value>>
----------------------------------------------------------------------------
\* What a return statement or the data of a stopIter evaluates to.
Evaluate(what) == IF what \in Queries THEN retval[what].data ELSE what
Data(key) == IF key.code = "return" THEN Evaluate(key.args) ELSE "undefined"

Running(v) == {i \in ForOfs(1..at) : Variable(i) = v /\ mode[i] = "iter"}

\* x.stopIter({...}): the innermost iteration over x is to end, and x keeps the
\* argument; what is left of the statement is the return around the call.
CallStopIter ==
    /\ exiting /\ statement.op = "stop"
    /\ Running(statement.name) # {}
    /\ stopped' = stopped \cup {Max(Running(statement.name))}
    /\ retval' = [retval EXCEPT ![statement.name] = Result(statement.key, Data(statement.key))]
    /\ statement' = Return("undefined")
    /\ UNCHANGED <<program, mode, at, before, rows, exiting, value>>

ReturnFromFunction ==
    LET b == Boundary(at, Calls(at))
    IN /\ exiting /\ statement.op = "return"
       /\ K(b) \in FunctionKinds
       /\ value' = Evaluate(statement.name)
       /\ Settle(b - 1)
       /\ UNCHANGED <<program, stopped, retval>>

\* A callback returns: the iteration ends when it has been stopped and goes on
\* with the next row otherwise.
ReturnFromCallback ==
    LET b == Boundary(at, Calls(at))
    IN /\ exiting /\ statement.op = "return"
       /\ K(b) = "forof"
       /\ IF b \in stopped
          THEN stopped' = stopped \ {b} /\ PostIteration(b, retval)
          ELSE Settle(b) /\ UNCHANGED stopped
       /\ UNCHANGED <<program, retval, value>>

JumpOut ==
    LET target == JumpTarget(statement, at, Calls(at))
    IN /\ exiting /\ statement.op \in {"break", "continue"}
       /\ target # 0
       /\ Settle(IF statement.op = "continue" THEN target ELSE target - 1)
       /\ UNCHANGED <<program, stopped, retval, value>>

Next ==
    /\ outcome = "code"
    /\ \/ Enter \/ EnterLoop \/ NextRow \/ Leave \/ EndIteration \/ ReachExit
       \/ \E branch \in {"iter", "plain"} : EnterForOf(branch)
       \/ CallStopIter \/ ReturnFromFunction \/ ReturnFromCallback \/ JumpOut

Spec == Init /\ [][Next]_vars
----------------------------------------------------------------------------
TypeOK ==
    /\ outcome \in {"code", "invalid", "throws"}
    /\ mode \in Modes
    /\ at \in 0..Size
    /\ before \in BOOLEAN
    /\ rows \in [1..Size -> 0..MaxRows]
    /\ exiting \in BOOLEAN
    /\ statement.op \in {"none", "break", "continue", "return", "stop"}
    /\ stopped \subseteq ForOfs(1..Size)
    /\ DOMAIN retval = Queries
    /\ value \in {"none", "undefined", "null", "value"}

\* The transformer has an answer, and what it generates compiles: no generated
\* break or continue is left in a callback without its target.
Compiles == outcome = "code"

\* An exit is one step of the handler: until it has landed, the handler is still
\* at its exit statement.
Handler ==
    INSTANCE HandlerLoops WITH
        at <- IF exiting THEN Size ELSE at,
        before <- before \/ exiting,
        pending <- exiting

\* The transformed program does what the handler says, whichever branch each of
\* its for-ofs takes (the purpose of getAst).
ImplementsHandler == Handler!Spec

\* The guards of the steps that an exit takes.
CanGoOn ==
    \/ statement.op = "stop" /\ Running(statement.name) # {}
    \/ /\ statement.op = "return"
       /\ K(Boundary(at, Calls(at))) \in FunctionKinds \cup {"forof"}
    \/ /\ statement.op \in {"break", "continue"}
       /\ JumpTarget(statement, at, Calls(at)) # 0

\* Every exit lands: there is always a step to take (no stopIter of a variable that
\* is not being iterated, no case that names a label of another function), and no
\* step of it goes back inwards.
ExitsLand ==
    /\ [](exiting => CanGoOn)
    /\ [][exiting /\ exiting' =>
            \/ at' < at
            \/ at' = at /\ statement.op = "stop" /\ statement'.op = "return"]_vars
============================================================================
