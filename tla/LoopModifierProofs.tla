------------------------- MODULE LoopModifierProofs -------------------------
(***************************************************************************)
(* In the traversal for the consequent the association stack is the list   *)
(* of the enclosing nodes that associate with the modifier, for every tree *)
(* and every modifier: what isReplaceReq sees is what encloses the         *)
(* statement.                                                              *)
(***************************************************************************)
EXTENDS LoopModifier, SequenceLemmas

Entries == [node : Nat \ {0}, index : Int]

\* The inductive invariant for a path p and an association stack a: the lemmas
\* are about sequences, not about steps.
Opens(p, i) == i \in 1 .. Len(p) /\ p[i] \in associations
OnlyOpen(p, a) == \A j \in 1 .. Len(a) : Opens(p, a[j].node) /\ a[j].index = a[j].node - 1
Ordered(a) == \A j, k \in 1 .. Len(a) : j < k => a[j].node < a[k].node
AllOpen(p, a) ==
    \A i \in 1 .. Len(p) : Opens(p, i) => \E j \in 1 .. Len(a) : a[j].node = i
Mirrors(p, a) == OnlyOpen(p, a) /\ Ordered(a) /\ AllOpen(p, a)

\* The inductive invariant of the traversal is that of its path and its stack.
LEMMA InvariantIsMirror ==
  IInv <=> /\ path \in Seq(Types) /\ ancestorStack \in Seq(Entries)
           /\ stackIndex \in Int /\ stackIndex = Len(path) - 1
           /\ Mirrors(path, ancestorStack)
  BY DEF IInv, TypeOK, IndexIsDepth, StackMirrorsPath, IsOpen, Entries, Mirrors,
         OnlyOpen, Ordered, AllOpen, Opens

\* incrAndPush with a type that associates: the node that is entered is the
\* innermost one.
LEMMA PushMirrors ==
  ASSUME NEW p \in Seq(Types), NEW a \in Seq(Entries), NEW t \in associations,
         t \in Types, Mirrors(p, a), NEW q, q = Append(p, t),
         NEW b, b = Append(a, Entry(Len(p) + 1, Len(p)))
  PROVE  b \in Seq(Entries) /\ Mirrors(q, b)
<1> DEFINE n == Len(p)
           m == Len(a)
           e == Entry(Len(p) + 1, Len(p))
<1>1. n \in Nat /\ m \in Nat
  OBVIOUS
<1>2. e \in Entries /\ e.node = n + 1 /\ e.index = n
  BY <1>1 DEF Entries, Entry
<1>3. Len(q) = n + 1 /\ q[n + 1] = t /\ \A i \in 1 .. n : q[i] = p[i]
  BY AppendProperties
<1>4. /\ b \in Seq(Entries) /\ Len(b) = m + 1 /\ b[m + 1] = e
      /\ \A j \in 1 .. m : b[j] = a[j]
  BY <1>2, AppendProperties
<1> HIDE DEF n, m, e
<1>5. \A j \in 1 .. m : a[j].node \in 1 .. n /\ p[a[j].node] \in associations
                        /\ a[j].index = a[j].node - 1
  BY DEF Mirrors, OnlyOpen, Opens, n, m
<1>6. OnlyOpen(q, b)
  BY <1>1, <1>2, <1>3, <1>4, <1>5 DEF OnlyOpen, Opens
<1>7. Ordered(b)
  <2> SUFFICES ASSUME NEW j \in 1 .. m + 1, NEW k \in 1 .. m + 1, j < k
               PROVE  b[j].node < b[k].node
    BY <1>4 DEF Ordered
  <2>1. CASE k = m + 1
    BY <2>1, <1>1, <1>2, <1>4, <1>5
  <2>2. CASE k \in 1 .. m
    BY <2>2, <1>1, <1>4 DEF Mirrors, Ordered, m
  <2>3. k = m + 1 \/ k \in 1 .. m
    BY <1>1
  <2> QED
    BY <2>1, <2>2, <2>3
<1>8. AllOpen(q, b)
  <2> SUFFICES ASSUME NEW i \in 1 .. n + 1, q[i] \in associations
               PROVE  \E j \in 1 .. m + 1 : b[j].node = i
    BY <1>3, <1>4 DEF AllOpen, Opens
  <2>1. CASE i = n + 1
    BY <2>1, <1>1, <1>2, <1>4
  <2>2. CASE i \in 1 .. n
    <3>1. PICK j \in 1 .. m : a[j].node = i
      BY <2>2, <1>3 DEF Mirrors, AllOpen, Opens, n, m
    <3> QED
      BY <3>1, <1>1, <1>4
  <2>3. i = n + 1 \/ i \in 1 .. n
    BY <1>1
  <2> QED
    BY <2>1, <2>2, <2>3
<1> QED
  BY <1>4, <1>6, <1>7, <1>8 DEF Mirrors

\* incrAndPush with any other type.
LEMMA DescendMirrors ==
  ASSUME NEW p \in Seq(Types), NEW a \in Seq(Entries), NEW t \in Types,
         t \notin associations, Mirrors(p, a), NEW q, q = Append(p, t)
  PROVE  Mirrors(q, a)
<1> DEFINE n == Len(p)
<1>1. n \in Nat
  OBVIOUS
<1>2. Len(q) = n + 1 /\ q[n + 1] = t /\ \A i \in 1 .. n : q[i] = p[i]
  BY AppendProperties
<1>3. \A i : Opens(q, i) <=> Opens(p, i)
  BY <1>1, <1>2 DEF Opens
<1> QED
  BY <1>1, <1>2, <1>3 DEF Mirrors, OnlyOpen, AllOpen, Opens

\* decrAndPop: the node that is left is the top of the stack exactly when the
\* index of the top is the current one.
LEMMA TopIsLast ==
  ASSUME NEW p \in Seq(Types), NEW a \in Seq(Entries), Len(p) > 1, Mirrors(p, a)
  PROVE  (\E j \in 1 .. Len(a) : a[j].node = Len(p))
            <=> a # <<>> /\ a[Len(a)].index = Len(p) - 1
<1>1. Len(p) \in Nat /\ Len(a) \in Nat /\ (a # <<>> <=> Len(a) > 0)
  OBVIOUS
<1>2. \A j \in 1 .. Len(a) : a[j].node \in 1 .. Len(p) /\ a[j].index = a[j].node - 1
  BY DEF Mirrors, OnlyOpen, Opens
<1>3. ASSUME NEW j \in 1 .. Len(a), a[j].node = Len(p)
      PROVE  a # <<>> /\ a[Len(a)].index = Len(p) - 1
  <2>1. Len(a) \in 1 .. Len(a)
    BY <1>1
  <2>2. j < Len(a) => a[j].node < a[Len(a)].node
    BY <2>1 DEF Mirrors, Ordered
  <2>3. j = Len(a)
    BY <2>1, <2>2, <1>1, <1>2, <1>3
  <2> QED
    BY <2>1, <2>3, <1>1, <1>2, <1>3
<1>4. ASSUME a # <<>>, a[Len(a)].index = Len(p) - 1
      PROVE  \E j \in 1 .. Len(a) : a[j].node = Len(p)
  BY <1>1, <1>2, <1>4
<1> QED
  BY <1>3, <1>4

\* Leaving a node that is not on the stack.
LEMMA LeaveMirrors ==
  ASSUME NEW p \in Seq(Types), NEW a \in Seq(Entries), Len(p) > 1, Mirrors(p, a),
         \A j \in 1 .. Len(a) : a[j].node # Len(p),
         NEW q, q = SubSeq(p, 1, Len(p) - 1)
  PROVE  Mirrors(q, a)
<1> DEFINE n == Len(p)
<1>1. n \in Nat /\ Len(q) = n - 1 /\ \A i \in 1 .. n - 1 : q[i] = p[i]
  BY FrontProperties
<1>2. \A i \in 1 .. n - 1 : Opens(q, i) <=> Opens(p, i)
  BY <1>1 DEF Opens
<1>3. \A j \in 1 .. Len(a) : a[j].node \in 1 .. n - 1
  BY <1>1 DEF Mirrors, OnlyOpen, Opens
<1> QED
  BY <1>1, <1>2, <1>3 DEF Mirrors, OnlyOpen, AllOpen

\* Leaving the node at the top of the stack.
LEMMA PopMirrors ==
  ASSUME NEW p \in Seq(Types), NEW a \in Seq(Entries), Len(p) > 1, Mirrors(p, a),
         a # <<>>, a[Len(a)].index = Len(p) - 1,
         NEW q, q = SubSeq(p, 1, Len(p) - 1),
         NEW b, b = SubSeq(a, 1, Len(a) - 1)
  PROVE  b \in Seq(Entries) /\ Mirrors(q, b)
<1> DEFINE n == Len(p)
           m == Len(a)
<1>1. n \in Nat /\ Len(q) = n - 1 /\ \A i \in 1 .. n - 1 : q[i] = p[i]
  BY FrontProperties
<1>2. /\ m \in Nat \ {0} /\ b \in Seq(Entries) /\ Len(b) = m - 1
      /\ \A j \in 1 .. m - 1 : b[j] = a[j]
  BY FrontProperties
<1>3. \A j \in 1 .. m : a[j].node \in 1 .. n /\ p[a[j].node] \in associations
                        /\ a[j].index = a[j].node - 1
  BY DEF Mirrors, OnlyOpen, Opens
<1>4. a[m].node = n
  BY <1>1, <1>2, <1>3
<1>5. \A j \in 1 .. m - 1 : a[j].node < n
  <2> SUFFICES ASSUME NEW j \in 1 .. m - 1
               PROVE  a[j].node < n
    OBVIOUS
  <2>1. j \in 1 .. m /\ m \in 1 .. m /\ j < m
    BY <1>2
  <2>2. a[j].node < a[m].node
    BY <2>1 DEF Mirrors, Ordered
  <2> QED
    BY <2>2, <1>4
<1> HIDE DEF n, m
<1>6. OnlyOpen(q, b)
  BY <1>1, <1>2, <1>3, <1>5 DEF OnlyOpen, Opens
<1>7. Ordered(b)
  BY <1>2 DEF Mirrors, Ordered, m
<1>8. AllOpen(q, b)
  <2> SUFFICES ASSUME NEW i \in 1 .. n - 1, q[i] \in associations
               PROVE  \E j \in 1 .. m - 1 : b[j].node = i
    BY <1>1, <1>2 DEF AllOpen, Opens
  <2>1. PICK j \in 1 .. m : a[j].node = i
    BY <1>1 DEF Mirrors, AllOpen, Opens, n, m
  <2>2. j \in 1 .. m - 1
    BY <2>1, <1>1, <1>2, <1>4
  <2> QED
    BY <2>1, <2>2, <1>2
<1> QED
  BY <1>2, <1>6, <1>7, <1>8 DEF Mirrors

\* Before the traversal there is nothing to associate with.
LEMMA InitInvariant == Init => IInv
  BY DEF Init, IInv, TypeOK, IndexIsDepth, StackMirrorsPath, IsOpen, Entry

\* A node of any type is entered.
LEMMA EnterInvariant ==
  ASSUME Branch = "consequent", IInv, NEW type \in Types, NEW annotated \in BOOLEAN,
         Enter(type, annotated)
  PROVE  IInv'
<1>1. /\ path \in Seq(Types) /\ ancestorStack \in Seq(Entries)
      /\ stackIndex = Len(path) - 1 /\ Mirrors(path, ancestorStack)
  BY InvariantIsMirror
<1>2. /\ path' = Append(path, type) /\ stackIndex' = stackIndex + 1
      /\ ancestorStack' = IF type \in associations
                          THEN Append(ancestorStack, Entry(Len(path) + 1, stackIndex + 1))
                          ELSE ancestorStack
  BY DEF Enter, incrAndPush
<1>3. Len(path) \in Nat /\ stackIndex + 1 = Len(path)
  BY <1>1
<1>4. path' \in Seq(Types) /\ Len(path') = Len(path) + 1
  BY <1>1, <1>2, AppendProperties
<1>5. ancestorStack' \in Seq(Entries) /\ Mirrors(path', ancestorStack')
  <2>1. CASE type \in associations
    BY <2>1, <1>1, <1>2, <1>3, PushMirrors
  <2>2. CASE type \notin associations
    BY <2>2, <1>1, <1>2, DescendMirrors
  <2> QED
    BY <2>1, <2>2
<1>6. stackIndex' \in Int /\ stackIndex' = Len(path') - 1
  BY <1>2, <1>3, <1>4
<1> QED
  BY <1>4, <1>5, <1>6
  DEF IInv, TypeOK, IndexIsDepth, StackMirrorsPath, IsOpen, Entries, Mirrors,
      OnlyOpen, Ordered, AllOpen, Opens

\* The innermost node is left.
LEMMA LeaveInvariant ==
  ASSUME IInv, Leave
  PROVE  IInv'
<1>1. /\ path \in Seq(Types) /\ ancestorStack \in Seq(Entries)
      /\ stackIndex = Len(path) - 1 /\ Mirrors(path, ancestorStack)
  BY InvariantIsMirror
<1>2. /\ Len(path) > 1 /\ path' = SubSeq(path, 1, Len(path) - 1)
      /\ stackIndex' = stackIndex - 1
      /\ ancestorStack' = IF IsTop(stackIndex)
                          THEN SubSeq(ancestorStack, 1, Len(ancestorStack) - 1)
                          ELSE ancestorStack
  BY DEF Leave, decrAndPop
<1>3. Len(path) \in Nat /\ path # <<>>
  BY <1>1, <1>2
<1>4. path' \in Seq(Types) /\ Len(path') = Len(path) - 1
  BY <1>1, <1>2, <1>3, FrontProperties
<1>5. ancestorStack' \in Seq(Entries) /\ Mirrors(path', ancestorStack')
  <2>1. CASE IsTop(stackIndex)
    <3>1. /\ ancestorStack # <<>>
          /\ ancestorStack[Len(ancestorStack)].index = Len(path) - 1
      BY <2>1, <1>1 DEF IsTop
    <3>2. ancestorStack' = SubSeq(ancestorStack, 1, Len(ancestorStack) - 1)
      BY <2>1, <1>2
    <3> QED
      BY <3>1, <3>2, <1>1, <1>2, PopMirrors
  <2>2. CASE ~IsTop(stackIndex)
    <3>1. \A j \in 1 .. Len(ancestorStack) : ancestorStack[j].node # Len(path)
      BY <2>2, <1>1, <1>2, TopIsLast DEF IsTop
    <3> QED
      BY <3>1, <2>2, <1>1, <1>2, LeaveMirrors
  <2> QED
    BY <2>1, <2>2
<1>6. stackIndex' \in Int /\ stackIndex' = Len(path') - 1
  BY <1>1, <1>2, <1>3, <1>4
<1> QED
  BY <1>4, <1>5, <1>6
  DEF IInv, TypeOK, IndexIsDepth, StackMirrorsPath, IsOpen, Entries, Mirrors,
      OnlyOpen, Ordered, AllOpen, Opens

\* The consequent is generated from what encloses the statement: the association
\* stack is never short of a node and never holds one that has been left.
THEOREM ConsequentSeesItsAncestors ==
  ASSUME Branch = "consequent"
  PROVE  Spec => []StackMirrorsPath
<1>1. Init => IInv
  BY InitInvariant
<1>2. IInv /\ [Next]_vars => IInv'
  <2> SUFFICES ASSUME IInv, [Next]_vars
               PROVE  IInv'
    OBVIOUS
  <2>1. ASSUME NEW type \in Types, NEW annotated \in BOOLEAN, Enter(type, annotated)
        PROVE  IInv'
    BY <2>1, EnterInvariant
  <2>2. CASE Leave
    BY <2>2, LeaveInvariant
  <2>3. CASE UNCHANGED vars
    BY <2>3 DEF vars, IInv, TypeOK, IndexIsDepth, StackMirrorsPath, IsOpen
  <2> QED
    BY <2>1, <2>2, <2>3 DEF Next
<1>3. IInv => StackMirrorsPath
  BY DEF IInv
<1> QED
  BY <1>1, <1>2, <1>3, PTL DEF Spec
============================================================================
