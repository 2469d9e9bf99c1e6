---------------------------- MODULE LoopModifier ----------------------------
(***************************************************************************)
(* LoopModifier and Iter of transpiler.js: which of the nodes that the     *)
(* traversal of a for-of is inside of associate with an exit statement.    *)
(*                                                                         *)
(* Every node that is entered raises stackIndex, every node that is left   *)
(* lowers it, and the association stack is popped when the index of its    *)
(* top comes round again.  The traversal for the consequent counts every   *)
(* node; the traversal for the alternate returns early from an annotated   *)
(* node, before it has been counted, and still counts its leaving.         *)
(***************************************************************************)
EXTENDS Integers, Sequences

CONSTANTS
    Types,          \* types of node
    associations,   \* those the modifier associates with
    Branch,         \* the traversal: "consequent" or "alternate"
    MaxDepth        \* bound on the depth of the nodes visited

ASSUME TreeAssumption ==
    /\ "ForOfStatement" \in Types
    /\ associations \subseteq Types \ {"ReturnStatement"}
    /\ Branch \in {"consequent", "alternate"}
    /\ MaxDepth \in Nat \ {0}

VARIABLES
    path,           \* the types of the nodes the traversal is inside of
    stackIndex,
    ancestorStack   \* entries with the node's place in the path and its index

vars == <<path, stackIndex, ancestorStack>>

Entry(node, index) == [node |-> node, index |-> index]

Init ==
    /\ path = <<>>
    /\ stackIndex = -1
    /\ ancestorStack = <<>>

\* A mutant: the index is raised after the node has been pushed.
PushThenIncrement(type) ==
    /\ stackIndex' = stackIndex + 1
    /\ ancestorStack' = IF type \in associations
                        THEN Append(ancestorStack, Entry(Len(path) + 1, stackIndex))
                        ELSE ancestorStack

\* Iter.incrAndPush.
incrAndPush(type) ==
    /\ stackIndex' = stackIndex + 1
    /\ ancestorStack' = IF type \in associations
                        THEN Append(ancestorStack, Entry(Len(path) + 1, stackIndex + 1))
                        ELSE ancestorStack

\* Iter.decrAndPop: the index is compared before it is lowered.
IsTop(index) ==
    ancestorStack # <<>> /\ ancestorStack[Len(ancestorStack)].index = index

decrAndPop ==
    /\ ancestorStack' = IF IsTop(stackIndex)
                        THEN SubSeq(ancestorStack, 1, Len(ancestorStack) - 1)
                        ELSE ancestorStack
    /\ stackIndex' = stackIndex - 1

\* The traversal starts with the for-of and visits what it contains.  Only the
\* return statements of inner for-ofs are annotated.
Enter(type, annotated) ==
    /\ Len(path) < MaxDepth
    /\ path = <<>> => type = "ForOfStatement"
    /\ annotated => type = "ReturnStatement"
    /\ path' = Append(path, type)
    /\ IF annotated /\ Branch = "alternate"
       THEN UNCHANGED <<stackIndex, ancestorStack>>
       ELSE incrAndPush(type)

\* The for-of itself is the last node to be left.
Leave ==
    /\ Len(path) > 1
    /\ path' = SubSeq(path, 1, Len(path) - 1)
    /\ decrAndPop

Next ==
    \/ \E type \in Types, annotated \in BOOLEAN : Enter(type, annotated)
    \/ Leave

Spec == Init /\ [][Next]_vars
----------------------------------------------------------------------------
\* Bound on how far the index drifts, for TLC.
Drift == stackIndex >= -MaxDepth

TypeOK ==
    /\ path \in Seq(Types)
    /\ stackIndex \in Int
    /\ ancestorStack \in Seq([node : Nat \ {0}, index : Int])

\* What isReplaceReq peeks at and searches: the stack holds exactly the nodes of
\* the path that associate with the modifier, outermost first.
IsOpen(node) == node \in 1..Len(path) /\ path[node] \in associations
StackMirrorsPath ==
    /\ \A j \in 1..Len(ancestorStack) : IsOpen(ancestorStack[j].node)
    /\ \A j, k \in 1..Len(ancestorStack) :
          j < k => ancestorStack[j].node < ancestorStack[k].node
    /\ \A i \in 1..Len(path) :
          IsOpen(i) => \E j \in 1..Len(ancestorStack) : ancestorStack[j].node = i

\* The inductive invariant: an entry's index is its node's depth.
IndexIsDepth ==
    /\ stackIndex = Len(path) - 1
    /\ \A j \in 1..Len(ancestorStack) : ancestorStack[j].index = ancestorStack[j].node - 1

IInv == TypeOK /\ IndexIsDepth /\ StackMirrorsPath
============================================================================
