--------------------------- MODULE LoopTranspiler ---------------------------
(***************************************************************************)
(* The loop transformer of transpiler.js: what getAst makes of the exit    *)
(* statement of a nest.                                                    *)
(*                                                                         *)
(* Every for-of becomes a test of the variable's type with two branches:   *)
(* the consequent, x.iter(function (row) {...}) followed by a switch over  *)
(* what the iteration returned, and the alternate, the for-of as written.  *)
(* The for-ofs are transformed from the innermost outwards, and each goes  *)
(* over what the inner ones have already generated, so a nest of n of them *)
(* holds 2^n copies of the exit statement.  The model keeps the generated  *)
(* code as the set of those copies and of the cases of the switches.       *)
(***************************************************************************)
EXTENDS Nests

CONSTANT NoKey      \* the argument of a statement that has none

ForOfs(depths) == At({"forof"}, depths)
Innermost(i) == ForOfs((i + 1)..Size) = {}
Variable(i) == nest[i].name

----------------------------------------------------------------------------
\* Generated statements.  A key is what stopIter is told, and what a case of
\* the switch is compared with; the data of a "return" is the value of the
\* expression in its args: the author's expression, null without one, or the
\* data that the iteration over a variable ended with.
Statement(op, name, key) == [op |-> op, name |-> name, key |-> key]
Key(code, args) == [code |-> code, args |-> args]

Jump(op) == Statement(op, exit.name, NoKey)
Return(what) == Statement("return", what, NoKey)
\* A mutant: the outermost for-of is told to stop.
StopOutermost(i, key) == Statement("stop", Variable(Min(ForOfs(1..i))), key)
StopIter(i, key) == Statement("stop", Variable(i), key)
Failure == Statement("throws", None, NoKey)
Untouched == IF exit.op = "return" THEN Return(exit.value) ELSE Jump(exit.op)

\* argStr: where a return is replaced, null stands for the expression it has not.
Argument == IF exit.value = "undefined" THEN "null" ELSE "value"

\* A copy of the exit statement, or the case for a key: where it stands (the
\* depth, and the for-ofs around it that it is in the consequent of), and the
\* metaData of its annotation when a for-of further out is to change it.
Copy(depth, case, statement) ==
    [depth |-> depth, case |-> case, calls |-> {}, statement |-> statement,
     metaData |-> NoKey, written |-> FALSE]
AsWritten == [Copy(Size, NoKey, Untouched) EXCEPT !.written = TRUE]

IsAnnotated(copy) == copy.metaData # NoKey
Fix(copy, statement) ==
    [copy EXCEPT !.statement = statement, !.metaData = NoKey, !.written = FALSE]
Annotate(copy, statement, key) ==
    [copy EXCEPT !.statement = statement, !.metaData = key, !.written = FALSE]

LabelCode == IF exit.op = "break" THEN "labeled_break" ELSE "labeled_continue"
LabelKey == Key(LabelCode, exit.name)
----------------------------------------------------------------------------
\* LoopModifier.isReplaceReq for the exit statement, asked by the for-of at
\* depth i: the association stacks hold what lies between the two.
LabelInside(i) == \E j \in At({"label"}, (i + 1)..Size) : nest[j].name = exit.name

TopIsForOf(i, associated) ==
    LET top == Nearest(At(associated, i..Size)) IN top # 0 /\ K(top) = "forof"

\* A mutant: functions are not looked at.
ReplaceEveryReturn(i) ==
    exit.op = "return" \/ (exit.name # None /\ ~LabelInside(i))
        \/ (exit.op = "break" /\ exit.name = None /\ TopIsForOf(i, LoopKinds \cup {"switch", "label"}))
        \/ (exit.op = "continue" /\ exit.name = None /\ TopIsForOf(i, LoopKinds \cup {"switch"}))

isReplaceReq(i) ==
    CASE exit.op = "break" /\ exit.name = None ->
            TopIsForOf(i, {"forof", "loop", "switch", "label"})
      [] exit.op = "continue" /\ exit.name = None ->
            TopIsForOf(i, {"forof", "loop", "switch"})
      [] exit.op # "return" /\ exit.name # None -> ~LabelInside(i)
      [] exit.op = "return" -> At({"function"}, (i + 1)..Size) = {}

\* The label marked for deletion because the for-of at depth i stands right
\* under it, which the alternate gets back.
parentLabel(i) == IF K(i - 1) = "label" THEN nest[i - 1].name ELSE None

\* The name of the function the return belongs to; anonymous functions and
\* arrows have none.
targetFunction == nest[Home].name

\* StackHelper.searchStack from the for-of at depth i: the innermost node that
\* is a target or a for-of, 0 when there is neither.
searchStack(i, targets) == Nearest(targets \cup ForOfs(1..(i - 1)))
Found(stop) == stop # 0 /\ K(stop) # "forof"
Interrupted(stop) == stop # 0 /\ K(stop) = "forof"

LabelTargets(i) == {j \in At({"label"}, 1..(i - 1)) : nest[j].name = exit.name}
FunctionTargets(i) ==
    {j \in At(FunctionKinds, 1..(i - 1)) : nest[j].name = targetFunction}
LookUp(i) ==
    searchStack(i, IF exit.op = "return" THEN FunctionTargets(i) ELSE LabelTargets(i))

\* The alternate's comparator reads the name of every function the search
\* passes, and an anonymous one has no name to read.
NameIsMissing(i) ==
    \E j \in At(FunctionKinds, Max({1, LookUp(i)})..(i - 1)) : nest[j].name = None
----------------------------------------------------------------------------
\* getIterConsequentAst at the innermost for-of: what an inner for-of generated
\* is not touched again (isGen), so only there the statement is as written.
ReplacementOfExit(i) ==
    CASE ~isReplaceReq(i) -> Untouched
      [] isReplaceReq(i) /\ exit.op = "return" -> StopIter(i, Key("return", Argument))
      [] isReplaceReq(i) /\ exit.op = "break" /\ exit.name = None ->
            StopIter(i, Key("break", None))
      [] isReplaceReq(i) /\ exit.op = "continue" /\ exit.name \in {None, parentLabel(i)} ->
            Return("undefined")
      [] OTHER -> StopIter(i, LabelKey)

\* The consequent of the for-of at depth i takes annotations off and keeps the
\* statements.
Consequent(i, copy) ==
    LET replaced == IF Innermost(i) /\ isReplaceReq(i)
                    THEN Fix(copy, ReplacementOfExit(i))
                    ELSE [copy EXCEPT !.metaData = NoKey]
    IN [replaced EXCEPT !.calls = @ \cup {i}]

\* What is pushed to the cases of its switch: what was annotated when the inner
\* for-ofs were done, and the exit it has replaced itself.
Pushed(i, copies) ==
    LET own == ReplacementOfExit(i)
    IN {copy.metaData : copy \in {c \in copies : IsAnnotated(c)}}
       \cup (IF Innermost(i) /\ own.op = "stop" /\ own.key.code # "break"
             THEN {own.key} ELSE {})

\* A statement that leaves for the for-of at depth k.
Bubble(copy, k, key) ==
    Annotate(copy, IF key.code = "labeled_continue" /\ parentLabel(k) = key.args
                   THEN Return("undefined")
                   ELSE StopIter(k, key), key)

\* getIterAlternateAst: an annotated statement is looked up again.
AlternateOfAnnotated(i, copy) ==
    LET stop == LookUp(i)
        isReturn == copy.metaData.code = "return"
    IN CASE isReturn /\ NameIsMissing(i) -> Fix(copy, Failure)
         [] isReturn /\ ~NameIsMissing(i) /\ Found(stop) ->
               Fix(copy, Return(copy.metaData.args))
         [] ~isReturn /\ Found(stop) -> Fix(copy, Jump(exit.op))
         [] ~(isReturn /\ NameIsMissing(i)) /\ Interrupted(stop) ->
               Bubble(copy, stop, copy.metaData)
         [] OTHER -> copy

\* ... and so is the statement as written.  A return is not asked whether its
\* function lies inside the for-of.
AlternateOfExit(i, copy) ==
    LET stop == LookUp(i)
        isReturn == exit.op = "return"
    IN CASE isReturn /\ targetFunction # None /\ NameIsMissing(i) -> Fix(copy, Failure)
         [] isReturn /\ targetFunction # None /\ ~NameIsMissing(i) /\ Interrupted(stop) ->
               Bubble(copy, stop, Key("return", Argument))
         [] ~isReturn /\ exit.name # None /\ isReplaceReq(i) /\ Interrupted(stop) ->
               Bubble(copy, stop, LabelKey)
         [] OTHER -> copy

Alternate(i, copy) ==
    CASE IsAnnotated(copy) -> AlternateOfAnnotated(i, copy)
      [] ~IsAnnotated(copy) /\ copy.written -> AlternateOfExit(i, copy)
      [] OTHER -> copy

\* PostIter.getAst: the case for a key in the switch of the for-of at depth i.
\* A label found right above the for-of needs none: leaving is all there is to do.
\* A mutant: it gets one all the same.
CaseForEveryLabel(i, key) ==
    LET stop == LookUp(i)
        copy == Copy(i - 1, key, Failure)
    IN {IF Found(stop) THEN Fix(copy, Jump(exit.op)) ELSE Bubble(copy, stop, key)}
Case(i, key) ==
    LET stop == LookUp(i)
        copy == Copy(i - 1, key, Failure)
    IN CASE key.code = "return" /\ Found(stop) -> {Fix(copy, Return(Variable(i)))}
         [] key.code = "return" /\ Interrupted(stop) ->
               {Bubble(copy, stop, Key("return", Variable(i)))}
         [] key.code = "return" /\ stop = 0 -> {copy}
         [] key.code # "return" /\ Interrupted(stop) -> {Bubble(copy, stop, key)}
         [] key.code # "return" /\ Found(stop) ->
               IF K(stop + 1) = "forof" THEN {} ELSE {Fix(copy, Jump(exit.op))}

\* IterCompatible.getAst: what the for-of at depth i makes of what it holds.
IterCompatible(i, copies) ==
    {Consequent(i, copy) : copy \in copies}
    \cup {Alternate(i, copy) : copy \in copies}
    \cup UNION {Case(i, key) : key \in Pushed(i, copies)}

\* getAst: the for-ofs are transformed as the traversal leaves them.
Transpiled ==
    LET after[i \in 1..(Size + 1)] ==
          IF i = Size + 1 THEN {AsWritten}
          ELSE LET copies == after[i + 1]
               IN IF K(i) = "forof" THEN IterCompatible(i, copies) ELSE copies
    IN after[1]
============================================================================
