------------------------------ MODULE HashedStack -----------------------------
(***************************************************************************)
(* The stack of running queries that can also be searched by hash (class   *)
(* HashedStack, n1ql.h and n1ql.cpp).  qstack holds copies of the query    *)
(* handlers; qmap holds the addresses of the originals, which live on the  *)
(* C++ stack in the frames of IterFunction and ExecQueryFunction: here the *)
(* index of the frame.  Absent stands for a key that is not in the map and *)
(* for the null pointer that operator[] inserts for such a key: the only   *)
(* reader, StopIterFunction, dereferences the pointer at once.             *)
(***************************************************************************)
EXTENDS Naturals, Sequences

CONSTANTS
  HashIds,                 \* the values of V8's GetIdentityHash
  MaxDepth                 \* an upper bound of the stack's size

ASSUME MaxDepthAssumption == MaxDepth \in Nat

VARIABLES qstack, qmap
hashedStackVars == <<qstack, qmap>>

\* AppendStackIndex: the object's identity hash, "|" and the stack's size.
Hash == HashIds \X (0 .. MaxDepth)

Absent == 0
Frame == 1 .. MaxDepth
QueryHandler == [hash : Hash, frame : Frame]

HashedStackTypeOK ==
  /\ qstack \in Seq(QueryHandler)
  /\ qmap \in [Hash -> Frame \cup {Absent}]

HashedStackInit ==
  /\ qstack = <<>>
  /\ qmap = [h \in Hash |-> Absent]

Size == Len(qstack)

AppendStackIndex(id) == <<id, Size>>

Top == qstack[Len(qstack)]

Get(h) == qmap[h]

Push(q_handler) ==
  /\ qstack' = Append(qstack, q_handler)
  /\ qmap' = [qmap EXCEPT ![q_handler.hash] = q_handler.frame]

\* Mutant: the key stays in the map.
PopStackOnly ==
  /\ qstack' = SubSeq(qstack, 1, Len(qstack) - 1)
  /\ UNCHANGED qmap

Pop ==
  /\ qmap' = [qmap EXCEPT ![Top.hash] = Absent]
  /\ qstack' = SubSeq(qstack, 1, Len(qstack) - 1)

(***************************************************************************)
(* The two views agree: the map finds exactly the entries of the stack.    *)
(***************************************************************************)
ViewsAgree ==
  /\ \A i \in 1 .. Len(qstack) : qmap[qstack[i].hash] = qstack[i].frame
  /\ \A h \in Hash : qmap[h] # Absent =>
       \E i \in 1 .. Len(qstack) : qstack[i].hash = h
===============================================================================
