------------------------- MODULE TranspiledLoopsProofs -------------------------
(***************************************************************************)
(* The loop transformer has an answer for nests of any depth, and what it  *)
(* generates compiles, as long as none of six forms of nest occurs.        *)
(*                                                                         *)
(* The transformation goes from the innermost for-of outwards.  Sound says *)
(* of the code after each stage what the next one relies on: a copy of the *)
(* exit that still jumps does so inside every callback around it, and one  *)
(* that an outer for-of is to change still has that for-of around it.      *)
(***************************************************************************)
EXTENDS TranspiledLoops, SequenceLemmas

(***************************************************************************)
(* The nearest of some depths.                                             *)
(***************************************************************************)
LEMMA HasMax ==
  ASSUME NEW n \in Nat, NEW S \in SUBSET (1 .. n), S # {}
  PROVE  \E m \in S : \A y \in S : m >= y
<1> DEFINE HasOne(k) == \A s \in SUBSET (1 .. k) : s # {} => \E m \in s : \A y \in s : m >= y
           P == {k \in Nat : HasOne(k)}
<1>1. 0 \in P
  <2>1. 1 .. 0 = {}
    OBVIOUS
  <2> QED
    BY <2>1
<1>2. ASSUME NEW k \in Nat, k \in P
      PROVE  k + 1 \in P
  <2>1. ASSUME NEW s \in SUBSET (1 .. k + 1), s # {}
        PROVE  \E m \in s : \A y \in s : m >= y
    <3>1. CASE k + 1 \in s
      <4>1. \A y \in s : k + 1 >= y
        OBVIOUS
      <4> QED
        BY <3>1, <4>1
    <3>2. CASE k + 1 \notin s
      <4>1. s \in SUBSET (1 .. k)
        BY <3>2
      <4> QED
        BY <1>2, <2>1, <4>1
    <3> QED
      BY <3>1, <3>2
  <2>2. HasOne(k + 1) /\ k + 1 \in Nat
    BY <2>1
  <2> QED
    BY <2>2
<1> HIDE DEF P
<1>3. n \in P
  BY <1>1, <1>2, Induction
<1> QED
  BY <1>3 DEF P

LEMMA NearestIs ==
  ASSUME NEW n \in Nat, NEW S \in SUBSET (1 .. n)
  PROVE  /\ S = {} => Nearest(S) = 0
         /\ S # {} => Nearest(S) \in S /\ \A y \in S : y <= Nearest(S)
         /\ Nearest(S) \in 0 .. n
<1>1. CASE S = {}
  BY <1>1 DEF Nearest
<1>2. CASE S # {}
  <2>1. PICK m \in S : \A y \in S : m >= y
    BY <1>2, HasMax
  <2>2. Nearest(S) = CHOOSE x \in S : \A y \in S : x >= y
    BY <1>2 DEF Nearest, Max
  <2>3. Nearest(S) \in S /\ \A y \in S : Nearest(S) >= y
    BY <2>1, <2>2
  <2>4. \A y \in S : y \in 1 .. n
    OBVIOUS
  <2>5. Nearest(S) \in 1 .. n /\ \A y \in S : y <= Nearest(S)
    BY <2>3, <2>4
  <2> QED
    BY <1>2, <2>3, <2>5
<1> QED
  BY <1>1, <1>2

\* A depth is the nearest when it is one of them and none is nearer.
LEMMA NearestOf ==
  ASSUME NEW n \in Nat, NEW S \in SUBSET (1 .. n), NEW m \in S, \A y \in S : y <= m
  PROVE  Nearest(S) = m
<1>1. Nearest(S) \in S /\ m <= Nearest(S) /\ Nearest(S) \in 1 .. n
  BY NearestIs
<1>2. Nearest(S) <= m /\ m \in 1 .. n
  BY <1>1
<1> QED
  BY <1>1, <1>2

-------------------------------------------------------------------------------
(***************************************************************************)
(* Programs.                                                               *)
(***************************************************************************)
LEMMA Programs ==
  ASSUME Program
  PROVE  /\ Size \in Nat \ {0}
         /\ \A i \in 1 .. Size : nest[i] \in Node \cup HandlerNode
         /\ \A i \in 1 .. Size :
              K(i) \in {"function", "arrow", "loop", "switch", "block", "forof", "label"}
         /\ K(1) = "function"
         /\ exit.op \in {"break", "continue", "return"}
         /\ exit.op = "return" => exit.name = None
         /\ WellFormed
<1>1. PICK length \in 1 .. Depth : nest \in [1 .. length -> Node \cup HandlerNode]
  BY DEF Program
<1>2. length \in Nat \ {0}
  BY NestAssumption
<1>3. Size = length
  BY <1>1, <1>2, LenProperties, IsASeq DEF Size
<1>4. \A node \in Node \cup HandlerNode :
        node.kind \in {"function", "arrow", "loop", "switch", "block", "forof", "label"}
  BY DEF Node, HandlerNode
<1>5. K(1) = "function"
  <2>1. nest[1] \in HandlerNode
    BY <1>2, <1>3 DEF Program
  <2> QED
    BY <2>1 DEF HandlerNode, K
<1>6. exit.op \in {"break", "continue", "return"} /\ (exit.op = "return" => exit.name = None)
  BY DEF Program, Exit
<1> QED
  BY <1>1, <1>2, <1>3, <1>4, <1>5, <1>6 DEF K, Program

\* The exit stands in a function, and no function is further in.
LEMMA Homes ==
  ASSUME Program
  PROVE  /\ Home \in 1 .. Size /\ K(Home) \in FunctionKinds
         /\ \A i \in 1 .. Size : K(i) \in FunctionKinds => i <= Home
<1> DEFINE F == At(FunctionKinds, 1 .. Size)
<1>1. Size \in Nat \ {0} /\ K(1) = "function"
  BY Programs
<1>2. 1 \in F /\ F \in SUBSET (1 .. Size)
  BY <1>1 DEF At, FunctionKinds
<1>3. Nearest(F) \in F /\ \A i \in F : i <= Nearest(F)
  BY <1>1, <1>2, NearestIs
<1> QED
  BY <1>3 DEF At, Home

Labelled == exit.op # "return" /\ exit.name # None

\* What an exit may not be separated from: the function it returns from, the label it
\* names, or the statement it is about.
Anchor ==
  CASE exit.op = "return" -> Home
    [] Labelled -> Nearest({i \in At({"label"}, (Home + 1) .. Size) : nest[i].name = exit.name})
    [] exit.op # "return" /\ ~Labelled -> Target

\* An exit without a label: nothing that it could be about is further in.
LEMMA AnchorOfPlainExit ==
  ASSUME Program, exit.op # "return", ~Labelled
  PROVE  /\ Anchor = Target /\ Anchor \in (Home + 1) .. Size
         /\ exit.name = None
         /\ exit.op = "break" => K(Anchor) \in {"forof", "loop", "switch"}
         /\ exit.op = "continue" => K(Anchor) \in {"forof", "loop"}
         /\ \A i \in (Home + 1) .. Size : K(i) \in {"forof", "loop"} => i <= Anchor
         /\ exit.op = "break" =>
              \A i \in (Home + 1) .. Size : K(i) = "switch" => i <= Anchor
<1>1. Anchor = Target /\ exit.name = None
  BY DEF Anchor, Labelled
<1>2. Size \in Nat \ {0} /\ Home \in 1 .. Size /\ Target # 0
      /\ exit.op \in {"break", "continue"}
  BY Programs, Homes DEF WellFormed
<1>3. CASE exit.op = "break"
  <2> DEFINE T == At(LoopKinds \cup {"switch"}, (Home + 1) .. Size)
  <2>1. Target = Nearest(T)
    BY <1>1, <1>3 DEF Target
  <2>2. T \in SUBSET (1 .. Size)
    BY <1>2 DEF At
  <2>3. Nearest(T) \in T /\ \A i \in T : i <= Nearest(T)
    BY <1>2, <2>1, <2>2, NearestIs
  <2> QED
    BY <1>1, <1>3, <2>1, <2>3 DEF At, LoopKinds
<1>4. CASE exit.op = "continue"
  <2> DEFINE T == {i \in At(LoopKinds, (Home + 1) .. Size) : exit.name \in LabelsOf(i) \cup {None}}
  <2>1. Target = Nearest(T)
    BY <1>4 DEF Target
  <2>2. T \in SUBSET (1 .. Size)
    BY <1>2 DEF At
  <2>3. Nearest(T) \in T /\ \A i \in T : i <= Nearest(T)
    BY <1>2, <2>1, <2>2, NearestIs
  <2>4. T = At(LoopKinds, (Home + 1) .. Size)
    BY <1>1
  <2> HIDE DEF T
  <2> QED
    BY <1>1, <1>4, <2>1, <2>3, <2>4 DEF At, LoopKinds
<1> QED
  BY <1>2, <1>3, <1>4

\* A labelled exit: its label is the only one of that name in the function, and the
\* label of a continue is one of those of the loop it is about.
LEMMA AnchorOfLabelledExit ==
  ASSUME Program, Labelled
  PROVE  /\ Anchor \in (Home + 1) .. Size /\ Anchor < Size
         /\ K(Anchor) = "label" /\ nest[Anchor].name = exit.name
         /\ \A i \in (Home + 1) .. Size : K(i) = "label" /\ nest[i].name = exit.name => i = Anchor
         /\ exit.op = "break" => Target = Anchor
         /\ exit.op = "continue" =>
              /\ Target \in (Anchor + 1) .. Size /\ K(Target) \in LoopKinds
              /\ \A i \in Anchor .. (Target - 1) : K(i) = "label"
<1> DEFINE A == {i \in At({"label"}, (Home + 1) .. Size) : nest[i].name = exit.name}
<1>1. Anchor = Nearest(A)
  BY DEF Anchor, Labelled
<1>2. /\ Size \in Nat \ {0} /\ Home \in 1 .. Size /\ K(Home) \in FunctionKinds
      /\ Target # 0 /\ exit.op \in {"break", "continue"} /\ WellFormed
      /\ \A i \in 1 .. Size : K(i) \in FunctionKinds => i <= Home
  BY Programs, Homes DEF WellFormed, Labelled
<1>3. A \in SUBSET (1 .. Size)
  BY <1>2 DEF At
<1>4. ASSUME exit.op = "break"
      PROVE  A # {}
  <2>1. Target = Nearest(A)
    BY <1>4 DEF Target, Labelled
  <2> QED
    BY <1>2, <1>3, <2>1, NearestIs
<1>5. ASSUME exit.op = "continue"
      PROVE  /\ A # {}
             /\ Target \in (Home + 1) .. Size /\ K(Target) \in LoopKinds
             /\ \E a \in A : a < Target /\ \A i \in a .. (Target - 1) : K(i) = "label"
  <2> DEFINE T == {i \in At(LoopKinds, (Home + 1) .. Size) : exit.name \in LabelsOf(i) \cup {None}}
  <2>1. Target = Nearest(T)
    BY <1>5 DEF Target
  <2>2. T \in SUBSET (1 .. Size)
    BY <1>2 DEF At
  <2>3. Target \in T
    BY <1>2, <2>1, <2>2, NearestIs
  <2>4. /\ Target \in (Home + 1) .. Size /\ K(Target) \in LoopKinds
        /\ exit.name \in LabelsOf(Target)
    BY <2>3 DEF At, Labelled
  <2>5. PICK a \in 1 .. (Target - 1) :
          nest[a].name = exit.name /\ \A i \in a .. (Target - 1) : K(i) = "label"
    BY <2>4 DEF LabelsOf
  <2>6. a > Home
    <3>1. SUFFICES ASSUME a <= Home PROVE FALSE
      BY <1>2, <2>4, <2>5
    <3>2. Home \in a .. (Target - 1)
      BY <1>2, <2>4, <2>5, <3>1
    <3> QED
      BY <1>2, <2>5, <3>2 DEF FunctionKinds
  <2>7. a \in A /\ a < Target
    <3>1. a \in a .. (Target - 1) /\ a \in (Home + 1) .. Size /\ a < Target
      BY <1>2, <2>4, <2>5, <2>6
    <3> QED
      BY <2>5, <3>1 DEF At
  <2> QED
    BY <2>4, <2>5, <2>7
<1>6. Anchor \in A
  <2>1. A # {} /\ Size \in Nat
    BY <1>2, <1>4, <1>5
  <2> HIDE DEF A
  <2> QED
    BY <1>1, <1>3, <2>1, NearestIs
<1>7. ASSUME NEW i \in A, NEW j \in A
      PROVE  i = j
  <2>1. /\ i \in (Home + 1) .. Size /\ j \in (Home + 1) .. Size
        /\ K(i) = "label" /\ K(j) = "label" /\ nest[i].name = nest[j].name
    BY <1>7 DEF At
  <2>2. ASSUME NEW x \in A, NEW y \in A, x < y
        PROVE  FALSE
    <3>1. /\ x \in (Home + 1) .. Size /\ y \in (Home + 1) .. Size
          /\ K(x) = "label" /\ K(y) = "label" /\ nest[x].name = nest[y].name
      BY <2>2 DEF At
    <3>2. x \in At({"label"}, 1 .. Size) /\ y \in At({"label"}, 1 .. Size)
      BY <1>2, <3>1 DEF At
    <3>3. At(FunctionKinds, x .. y) # {}
      BY <1>2, <2>2, <3>1, <3>2 DEF WellFormed
    <3>4. PICK f \in x .. y : K(f) \in FunctionKinds
      BY <3>3 DEF At
    <3>5. f \in 1 .. Size /\ f > Home
      BY <1>2, <3>1
    <3> QED
      BY <1>2, <3>4, <3>5
  <2> QED
    BY <1>2, <2>1, <2>2
<1>8. Anchor \in (Home + 1) .. Size /\ K(Anchor) = "label" /\ nest[Anchor].name = exit.name
  BY <1>6 DEF At
<1>9. Anchor < Size
  <2>1. Anchor \in At({"label"}, 1 .. Size)
    BY <1>2, <1>8 DEF At
  <2> QED
    BY <1>2, <2>1 DEF WellFormed
<1>10. \A i \in (Home + 1) .. Size : K(i) = "label" /\ nest[i].name = exit.name => i = Anchor
  BY <1>6, <1>7 DEF At
<1>11. ASSUME exit.op = "continue"
       PROVE  /\ Target \in (Anchor + 1) .. Size /\ K(Target) \in LoopKinds
              /\ \A i \in Anchor .. (Target - 1) : K(i) = "label"
  <2>1. PICK a \in A : a < Target /\ \A i \in a .. (Target - 1) : K(i) = "label"
    BY <1>5, <1>11
  <2>2. a = Anchor
    BY <1>6, <1>7
  <2> QED
    BY <1>2, <1>5, <1>8, <1>11, <2>1, <2>2
<1>12. exit.op = "break" => Target = Anchor
  BY <1>1 DEF Target, Labelled
<1> QED
  BY <1>8, <1>9, <1>10, <1>11, <1>12

-------------------------------------------------------------------------------
(***************************************************************************)
(* The stages of the transformation: getAst as the traversal leaves one    *)
(* statement after the other.                                              *)
(***************************************************************************)
\* The equation that the recursive function of Transpiled solves, from depth m on.
Transforms(g, m) ==
  [i \in m .. (Size + 1) |->
     IF i = Size + 1 THEN {AsWritten}
     ELSE LET copies == g[i + 1]
          IN IF K(i) = "forof" THEN IterCompatible(i, copies) ELSE copies]

LEMMA TransformsExists ==
  ASSUME Size \in Nat
  PROVE  \E g : g = Transforms(g, 1)
<1> DEFINE S == {k \in Nat : k <= Size => \E g : g = Transforms(g, Size + 1 - k)}
<1>1. 0 \in S
  <2> DEFINE g == [i \in {Size + 1} |-> {AsWritten}]
  <2>1. (Size + 1 - 0) .. (Size + 1) = {Size + 1}
    OBVIOUS
  <2>2. g = Transforms(g, Size + 1 - 0)
    BY <2>1 DEF Transforms
  <2> QED
    BY <2>2
<1>2. ASSUME NEW k \in Nat, k \in S
      PROVE  k + 1 \in S
  <2>1. SUFFICES ASSUME k + 1 <= Size
                 PROVE  \E h : h = Transforms(h, Size + 1 - (k + 1))
    OBVIOUS
  <2> DEFINE m == Size + 1 - k
  <2>2. /\ m \in Nat /\ m >= 2 /\ m <= Size + 1
        /\ Size + 1 - (k + 1) = m - 1
    BY <2>1
  <2>3. PICK g : g = Transforms(g, m)
    BY <1>2, <2>1
  <2> HIDE DEF m
  <2> DEFINE h == [i \in (m - 1) .. (Size + 1) |->
                     IF i = m - 1
                     THEN IF K(i) = "forof" THEN IterCompatible(i, g[m]) ELSE g[m]
                     ELSE g[i]]
             next(i) == LET copies == h[i + 1]
                        IN IF K(i) = "forof" THEN IterCompatible(i, copies) ELSE copies
  <2>4. \A i \in m .. (Size + 1) :
          /\ i \in (m - 1) .. (Size + 1) /\ i # m - 1
          /\ h[i] = g[i]
    BY <2>2
  <2>5. \A i \in m .. (Size + 1) :
          g[i] = IF i = Size + 1 THEN {AsWritten}
                 ELSE LET copies == g[i + 1]
                      IN IF K(i) = "forof" THEN IterCompatible(i, copies) ELSE copies
    BY <2>3 DEF Transforms
  <2>6. ASSUME NEW i \in (m - 1) .. (Size + 1)
        PROVE  h[i] = IF i = Size + 1 THEN {AsWritten} ELSE next(i)
    <3>1. CASE i = m - 1
      <4>1. i + 1 = m /\ m \in m .. (Size + 1) /\ i # Size + 1
        BY <2>2, <3>1
      <4>2. h[i + 1] = g[m]
        BY <2>4, <4>1
      <4>3. h[i] = IF K(i) = "forof" THEN IterCompatible(i, g[m]) ELSE g[m]
        BY <3>1
      <4> HIDE DEF h
      <4> QED
        BY <4>1, <4>2, <4>3
    <3>2. CASE i # m - 1 /\ i # Size + 1
      <4>1. i \in m .. (Size + 1) /\ i + 1 \in m .. (Size + 1)
        BY <2>2, <3>2
      <4>2. h[i] = g[i] /\ h[i + 1] = g[i + 1]
        BY <2>4, <4>1
      <4> HIDE DEF h
      <4> QED
        BY <2>5, <3>2, <4>1, <4>2
    <3>3. CASE i # m - 1 /\ i = Size + 1
      <4>1. i \in m .. (Size + 1)
        BY <2>2, <3>3
      <4>2. h[i] = g[i]
        BY <2>4, <4>1
      <4> HIDE DEF h
      <4> QED
        BY <2>5, <3>3, <4>1, <4>2
    <3> QED
      BY <3>1, <3>2, <3>3
  <2>7. h = [i \in (m - 1) .. (Size + 1) |-> h[i]]
    OBVIOUS
  <2> HIDE DEF h
  <2>8. h = Transforms(h, m - 1)
    BY <2>6, <2>7 DEF Transforms
  <2> QED
    BY <2>2, <2>8
<1> HIDE DEF S
<1>3. Size \in S
  BY <1>1, <1>2, Induction
<1>4. Size + 1 - Size = 1 /\ Size <= Size
  OBVIOUS
<1> QED
  BY <1>3, <1>4 DEF S

\* The code after each stage.
LEMMA Stages ==
  ASSUME Size \in Nat
  PROVE  \E g : /\ g[Size + 1] = {AsWritten}
                /\ \A i \in 1 .. Size :
                     g[i] = IF K(i) = "forof" THEN IterCompatible(i, g[i + 1]) ELSE g[i + 1]
                /\ Transpiled = g[1]
<1> DEFINE g == CHOOSE g : g = Transforms(g, 1)
<1>1. Transpiled = g[1]
  BY DEF Transpiled, Transforms
<1>2. g = Transforms(g, 1)
  BY TransformsExists
<1> HIDE DEF g
<1>3. \A i \in 1 .. (Size + 1) :
        g[i] = IF i = Size + 1 THEN {AsWritten}
               ELSE IF K(i) = "forof" THEN IterCompatible(i, g[i + 1]) ELSE g[i + 1]
  BY <1>2 DEF Transforms
<1>4. Size + 1 \in 1 .. (Size + 1) /\ \A i \in 1 .. Size : i \in 1 .. (Size + 1) /\ i # Size + 1
  OBVIOUS
<1>5. g[Size + 1] = {AsWritten}
  BY <1>3, <1>4
<1>6. \A i \in 1 .. Size :
        g[i] = IF K(i) = "forof" THEN IterCompatible(i, g[i + 1]) ELSE g[i + 1]
  BY <1>3, <1>4
<1> QED
  BY <1>1, <1>5, <1>6

-------------------------------------------------------------------------------
(***************************************************************************)
(* What holds of the copies after each stage.                              *)
(***************************************************************************)
\* The forms of nest of which the generated code does not compile.
FormsThatFail ==
  {"continue past a switch", "break past a label", "continue of an outer label",
   "return of an arrow function", "return of an anonymous function",
   "return of an inner function"}

Covered == \A name \in FormsThatFail : ~Form(name)

LEMMA CoveredForms ==
  ASSUME Program, Covered
  PROVE  /\ exit.op = "continue" /\ exit.name = None /\ K(Target) = "forof" =>
               At({"switch"}, Target .. Size) = {}
         /\ exit.op = "break" /\ exit.name = None /\ K(Target) = "forof" =>
               At({"label"}, Target .. Size) = {}
         /\ exit.op = "continue" /\ exit.name # None /\ K(Target) = "forof" =>
               exit.name = parentLabel(Target)
         /\ exit.op = "return" /\ K(Home) = "arrow" /\ ForOfs(1 .. Home) # {} =>
               ForOfs(Home .. Size) # {}
         /\ exit.op = "return" /\ nest[Home].name = None =>
               \A i \in ForOfs(Home .. Size) : Innermost(i)
         /\ exit.op = "return" /\ nest[Home].name # None =>
               \A i \in ForOfs(1 .. Home) : \A j \in 1 .. (i - 1) :
                  ~(K(j) = "forof" \/ (K(j) \in FunctionKinds /\ nest[j].name = None))
<1>1. /\ ~Form("continue past a switch") /\ ~Form("break past a label")
      /\ ~Form("continue of an outer label") /\ ~Form("return of an arrow function")
      /\ ~Form("return of an anonymous function") /\ ~Form("return of an inner function")
  BY DEF Covered, FormsThatFail
<1>6. exit.op # "return" => exit = [op |-> exit.op, name |-> exit.name]
  BY DEF Program, Exit
<1>2. exit.op = "continue" /\ exit.name = None /\ K(Target) = "forof" =>
        At({"switch"}, Target .. Size) = {}
  BY <1>1, <1>6 DEF Form
<1>4. exit.op = "break" /\ exit.name = None /\ K(Target) = "forof" =>
        At({"label"}, Target .. Size) = {}
  BY <1>1, <1>6 DEF Form
<1>5. exit.op = "continue" /\ exit.name # None /\ K(Target) = "forof" =>
        exit.name = parentLabel(Target)
  BY <1>1 DEF Form
<1>3. /\ exit.op = "return" /\ K(Home) = "arrow" /\ ForOfs(1 .. Home) # {} =>
            ForOfs(Home .. Size) # {}
      /\ exit.op = "return" /\ nest[Home].name = None =>
            \A i \in ForOfs(Home .. Size) : Innermost(i)
      /\ exit.op = "return" /\ nest[Home].name # None =>
            \A i \in ForOfs(1 .. Home) : \A j \in 1 .. (i - 1) :
               ~(K(j) = "forof" \/ (K(j) \in FunctionKinds /\ nest[j].name = None))
  BY <1>1 DEF Form
<1> QED
  BY <1>2, <1>3, <1>4, <1>5

Fields == {"depth", "case", "calls", "statement", "metaData", "written"}

Jumps(copy) == copy.statement.op \in {"break", "continue"}

\* After the stage of depth i a copy has its target in reach of every callback around it,
\* and no for-of that is to come lies between the two; only the exit as written may still
\* have for-ofs between itself and its target.
Reaches(i, copy) ==
  /\ exit.op # "return" /\ copy.statement = Jump(exit.op)
  /\ copy.depth >= Target /\ (Labelled => copy.depth > Anchor)
  /\ \A k \in copy.calls : k < Anchor
  /\ \/ copy.written /\ ForOfs(i .. Size) = {}
     \/ ForOfs((Anchor + 1) .. (i - 1)) = {}

\* An annotated copy came from a for-of, and one that is to come will change it again.
Pending(i, copy) ==
  /\ exit.op = "return" \/ Labelled
  /\ (copy.metaData.code = "return") <=> (exit.op = "return")
  /\ ForOfs(i .. Size) # {} /\ ForOfs((Anchor + 1) .. (i - 1)) # {}
  /\ Labelled => \A k \in copy.calls : k < Anchor

Sound(i, copy) ==
  /\ DOMAIN copy = Fields
  /\ copy.depth \in (i - 1) .. Size
  /\ copy.calls \subseteq ForOfs(i .. Size)
  /\ copy.statement.op \in {"break", "continue", "return", "stop"}
  /\ copy.written \in BOOLEAN /\ (copy.written => copy.statement = Untouched)
  /\ Jumps(copy) => Reaches(i, copy)
  /\ IsAnnotated(copy) => Pending(i, copy)

\* The exit as written.
LEMMA SoundAsWritten ==
  ASSUME Program
  PROVE  Sound(Size + 1, AsWritten)
<1> DEFINE copy == AsWritten
<1>1. /\ DOMAIN copy = Fields /\ copy.depth = Size /\ copy.calls = {}
      /\ copy.statement = Untouched /\ copy.metaData = NoKey /\ copy.written = TRUE
  BY DEF AsWritten, Copy, Fields
<1>2. Size \in Nat \ {0} /\ exit.op \in {"break", "continue", "return"}
  BY Programs
<1>3. ForOfs((Size + 1) .. Size) = {}
  BY <1>2 DEF ForOfs, At
<1>4. exit.op = "return" => Untouched.op = "return"
  BY DEF Untouched, Return, Statement
<1>5. exit.op # "return" => Untouched = Jump(exit.op) /\ Jump(exit.op).op = exit.op
  BY DEF Untouched, Jump, Statement
<1>6. exit.op # "return" => Target \in 1 .. Size /\ (Labelled => Anchor < Size)
  <2>1. CASE exit.op # "return" /\ ~Labelled
    BY <1>2, <2>1, AnchorOfPlainExit, Homes
  <2>2. CASE exit.op # "return" /\ Labelled
    BY <1>2, <2>2, AnchorOfLabelledExit, Homes
  <2> QED
    BY <2>1, <2>2
<1> HIDE DEF copy
<1>7. Jumps(copy) => Reaches(Size + 1, copy)
  BY <1>1, <1>2, <1>3, <1>4, <1>5, <1>6 DEF Jumps, Reaches
<1>8. Sound(Size + 1, copy)
  <2>1. copy.statement.op \in {"break", "continue", "return", "stop"}
    BY <1>1, <1>2, <1>4, <1>5
  <2>2. copy.written \in BOOLEAN /\ (copy.written => copy.statement = Untouched)
    BY <1>1
  <2>3. copy.depth \in ((Size + 1) - 1) .. Size
    BY <1>1, <1>2
  <2> QED
    BY <1>1, <1>7, <2>1, <2>2, <2>3 DEF Sound, IsAnnotated
<1> QED
  BY <1>8 DEF copy

\* A statement that is no for-of leaves the code as it is.
LEMMA SoundElsewhere ==
  ASSUME Program, NEW i \in 1 .. Size, K(i) # "forof", NEW copy, Sound(i + 1, copy)
  PROVE  Sound(i, copy)
<1>1. Size \in Nat \ {0} /\ (i + 1) - 1 = i
  BY Programs
<1>2. ForOfs(i .. Size) = ForOfs((i + 1) .. Size)
  BY <1>1 DEF ForOfs, At
<1>3. ForOfs((Anchor + 1) .. (i - 1)) = ForOfs((Anchor + 1) .. i)
  <2>1. Anchor \in Int
    BY <1>1, Homes, AnchorOfPlainExit, AnchorOfLabelledExit DEF Anchor
  <2> QED
    BY <1>1, <2>1 DEF ForOfs, At
<1>4. copy.depth \in (i - 1) .. Size
  BY <1>1 DEF Sound
<1> QED
  BY <1>1, <1>2, <1>3, <1>4 DEF Sound, Reaches, Pending

\* What is looked up from a for-of behind the anchor: the anchor, or a for-of between.
LEMMA LookUps ==
  ASSUME Program, exit.op = "return" \/ Labelled,
         NEW i \in 1 .. Size, K(i) = "forof", Anchor < i
  PROVE  /\ LookUp(i) \in Anchor .. (i - 1) /\ Anchor \in Home .. Size
         /\ Found(LookUp(i)) => LookUp(i) = Anchor /\ ForOfs((Anchor + 1) .. (i - 1)) = {}
         /\ Interrupted(LookUp(i)) =>
              LookUp(i) > Anchor /\ LookUp(i) \in ForOfs((Anchor + 1) .. (i - 1))
         /\ ~Found(LookUp(i)) => Interrupted(LookUp(i))
<1> DEFINE targets == IF exit.op = "return" THEN FunctionTargets(i) ELSE LabelTargets(i)
           S == targets \cup ForOfs(1 .. (i - 1))
<1>1. /\ Size \in Nat \ {0} /\ Home \in 1 .. Size /\ K(Home) \in FunctionKinds
      /\ \A j \in 1 .. Size : K(j) \in FunctionKinds => j <= Home
  BY Programs, Homes
<1>2. /\ exit.op = "return" => Anchor = Home
      /\ Labelled => /\ Anchor \in (Home + 1) .. Size /\ K(Anchor) = "label"
                     /\ nest[Anchor].name = exit.name
                     /\ \A j \in (Home + 1) .. Size :
                          K(j) = "label" /\ nest[j].name = exit.name => j = Anchor
  <2>1. exit.op = "return" => Anchor = Home
    BY DEF Anchor, Labelled
  <2> QED
    BY <2>1, AnchorOfLabelledExit
<1>3. Anchor \in Home .. Size
  BY <1>1, <1>2
<1>4. LookUp(i) = Nearest(S)
  BY DEF LookUp, searchStack
<1>5. targets \in SUBSET (1 .. (i - 1)) /\ S \in SUBSET (1 .. (i - 1))
  BY DEF FunctionTargets, LabelTargets, ForOfs, At
<1>6. Anchor \in targets
  <2>1. Anchor \in 1 .. (i - 1)
    BY <1>1, <1>3
  <2>2. CASE exit.op = "return"
    BY <1>1, <1>2, <2>1, <2>2 DEF FunctionTargets, At, targetFunction
  <2>3. CASE Labelled
    BY <1>2, <2>1, <2>3 DEF LabelTargets, At, Labelled
  <2> QED
    BY <2>2, <2>3
<1>7. \A j \in targets : j >= Anchor => j = Anchor
  <2>1. SUFFICES ASSUME NEW j \in targets, j >= Anchor PROVE j = Anchor
    OBVIOUS
  <2>2. j \in 1 .. Size
    BY <1>1, <1>5
  <2>3. CASE exit.op = "return"
    <3>1. K(j) \in FunctionKinds
      BY <2>3 DEF FunctionTargets, At
    <3> QED
      BY <1>1, <1>2, <2>1, <2>2, <2>3, <3>1
  <2>4. CASE Labelled
    <3>1. K(j) = "label" /\ nest[j].name = exit.name
      BY <2>4 DEF LabelTargets, At, Labelled
    <3>2. j \in (Home + 1) .. Size
      BY <1>1, <1>2, <2>1, <2>2, <2>4
    <3> QED
      BY <1>2, <2>4, <3>1, <3>2
  <2> QED
    BY <2>3, <2>4
<1>8. i - 1 \in Nat /\ S # {}
  BY <1>1, <1>6
<1> HIDE DEF S
<1>9. Nearest(S) \in S /\ (\A j \in S : j <= Nearest(S)) /\ Nearest(S) \in 1 .. (i - 1)
  BY <1>5, <1>8, NearestIs
<1>10. LookUp(i) \in Anchor .. (i - 1)
  <2>1. Anchor <= Nearest(S)
    BY <1>6, <1>9 DEF S
  <2> QED
    BY <1>1, <1>3, <1>4, <1>9, <2>1
<1>11. ASSUME Found(LookUp(i))
       PROVE  LookUp(i) = Anchor /\ ForOfs((Anchor + 1) .. (i - 1)) = {}
  <2>1. LookUp(i) \in targets
    BY <1>4, <1>9, <1>11 DEF S, Found, ForOfs, At
  <2>2. LookUp(i) = Anchor
    BY <1>1, <1>3, <1>7, <1>10, <2>1
  <2>3. \A j \in ForOfs((Anchor + 1) .. (i - 1)) : j \in S /\ j > Anchor
    BY <1>1, <1>3 DEF S, ForOfs, At
  <2>4. \A j \in ForOfs((Anchor + 1) .. (i - 1)) : j <= Anchor
    BY <1>4, <1>9, <2>2, <2>3
  <2>5. \A j \in ForOfs((Anchor + 1) .. (i - 1)) : j \in Int /\ Anchor \in Int
    BY <1>1, <1>3 DEF ForOfs, At
  <2> QED
    BY <2>2, <2>3, <2>4, <2>5
<1>12. ASSUME Interrupted(LookUp(i))
       PROVE  LookUp(i) > Anchor /\ LookUp(i) \in ForOfs((Anchor + 1) .. (i - 1))
  <2>1. K(LookUp(i)) = "forof"
    BY <1>12 DEF Interrupted
  <2>2. LookUp(i) # Anchor
    <3>1. K(Anchor) # "forof"
      BY <1>1, <1>2 DEF FunctionKinds
    <3> QED
      BY <2>1, <3>1
  <2>3. LookUp(i) > Anchor /\ LookUp(i) \in (Anchor + 1) .. (i - 1)
    BY <1>1, <1>3, <1>10, <2>2
  <2> QED
    BY <2>1, <2>3 DEF ForOfs, At
<1>13. ~Found(LookUp(i)) => Interrupted(LookUp(i))
  BY <1>1, <1>3, <1>10 DEF Found, Interrupted
<1> QED
  BY <1>3, <1>10, <1>11, <1>12, <1>13

\* A jump that is left inside the callback of a for-of has its target inside, too.
LEMMA StaysInside ==
  ASSUME Program, Covered, exit.op # "return", NEW i \in 1 .. Size, K(i) = "forof",
         ~(Innermost(i) /\ isReplaceReq(i)),
         Innermost(i) \/ ForOfs((Anchor + 1) .. i) = {}
  PROVE  i < Anchor
<1>1. /\ Size \in Nat \ {0} /\ Home \in 1 .. Size /\ exit.op \in {"break", "continue"}
      /\ K(Home) \in FunctionKinds
  BY Programs, Homes
<1>2. Anchor \in (Home + 1) .. Size
  BY AnchorOfPlainExit, AnchorOfLabelledExit
<1>3. SUFFICES ASSUME i >= Anchor PROVE FALSE
  BY <1>1, <1>2
<1>4. CASE Labelled
  <2>1. K(Anchor) = "label"
    BY <1>4, AnchorOfLabelledExit
  <2>2. i > Anchor /\ i \in (Anchor + 1) .. i
    BY <1>1, <1>2, <1>3, <2>1
  <2>3. i \in ForOfs((Anchor + 1) .. i)
    BY <2>2 DEF ForOfs, At
  <2>4. Innermost(i) /\ ~isReplaceReq(i)
    BY <2>3
  <2>5. LabelInside(i)
    BY <1>1, <1>4, <2>4 DEF isReplaceReq, Labelled
  <2>6. PICK j \in (i + 1) .. Size : K(j) = "label" /\ nest[j].name = exit.name
    BY <2>5 DEF LabelInside, At
  <2>7. j \in (Home + 1) .. Size
    BY <1>1, <1>2, <1>3
  <2>8. j = Anchor
    BY <1>4, <2>6, <2>7, AnchorOfLabelledExit
  <2> QED
    BY <1>1, <1>2, <1>3, <2>8
<1>5. CASE ~Labelled
  <2>1. /\ Anchor = Target /\ exit.name = None
        /\ exit.op = "break" => K(Anchor) \in {"forof", "loop", "switch"}
        /\ exit.op = "continue" => K(Anchor) \in {"forof", "loop"}
        /\ \A k \in (Home + 1) .. Size : K(k) \in {"forof", "loop"} => k <= Anchor
        /\ exit.op = "break" => \A k \in (Home + 1) .. Size : K(k) = "switch" => k <= Anchor
    BY <1>5, AnchorOfPlainExit
  <2>2. i = Anchor
    <3>1. i \in (Home + 1) .. Size
      BY <1>1, <1>2, <1>3
    <3> QED
      BY <1>2, <1>3, <2>1, <3>1
  <2>3. Innermost(i)
    <3>1. \A k \in (i + 1) .. Size : K(k) # "forof"
      BY <1>1, <1>2, <2>1, <2>2
    <3> QED
      BY <3>1 DEF Innermost, ForOfs, At
  <2>4. ~isReplaceReq(i)
    BY <2>3
  <2>5. CASE exit.op = "break"
    <3> DEFINE A == {"forof", "loop", "switch", "label"}
    <3>1. At({"label"}, i .. Size) = {}
      BY <2>1, <2>2, <2>5, CoveredForms
    <3>2. \A k \in At(A, i .. Size) : k <= i
      BY <1>1, <1>2, <2>1, <2>2, <2>5, <3>1 DEF At
    <3>3. i \in At(A, i .. Size) /\ At(A, i .. Size) \in SUBSET (1 .. Size)
      BY <1>1 DEF At
    <3>4. Nearest(At(A, i .. Size)) = i
      BY <1>1, <3>2, <3>3, NearestOf
    <3>5. TopIsForOf(i, A)
      BY <1>1, <3>4 DEF TopIsForOf
    <3> QED
      BY <2>1, <2>4, <2>5, <3>5 DEF isReplaceReq
  <2>6. CASE exit.op = "continue"
    <3> DEFINE A == {"forof", "loop", "switch"}
    <3>1. At({"switch"}, i .. Size) = {}
      BY <2>1, <2>2, <2>6, CoveredForms
    <3>2. \A k \in At(A, i .. Size) : k <= i
      BY <1>1, <1>2, <2>1, <2>2, <2>6, <3>1 DEF At
    <3>3. i \in At(A, i .. Size) /\ At(A, i .. Size) \in SUBSET (1 .. Size)
      BY <1>1 DEF At
    <3>4. Nearest(At(A, i .. Size)) = i
      BY <1>1, <3>2, <3>3, NearestOf
    <3>5. TopIsForOf(i, A)
      BY <1>1, <3>4 DEF TopIsForOf
    <3> QED
      BY <2>1, <2>4, <2>6, <3>5 DEF isReplaceReq
  <2> QED
    BY <1>1, <2>5, <2>6
<1> QED
  BY <1>4, <1>5

\* What is so around a for-of.
LEMMA AroundForOf ==
  ASSUME Program, NEW i \in 1 .. Size, K(i) = "forof"
  PROVE  /\ Size \in Nat \ {0} /\ (i + 1) - 1 = i /\ i \in ForOfs(i .. Size)
         /\ ForOfs((i + 1) .. Size) \subseteq ForOfs(i .. Size)
         /\ ForOfs((Anchor + 1) .. (i - 1)) \subseteq ForOfs((Anchor + 1) .. i)
         /\ i < Anchor => ForOfs((Anchor + 1) .. (i - 1)) = {}
         /\ ForOfs((Anchor + 1) .. i) # {} => Anchor < i
         /\ Anchor \in Home .. Size /\ Home \in 1 .. Size
<1>1. Size \in Nat \ {0} /\ Home \in 1 .. Size /\ exit.op \in {"break", "continue", "return"}
  BY Programs, Homes
<1>2. Anchor \in Home .. Size
  <2>1. exit.op = "return" => Anchor = Home
    BY DEF Anchor, Labelled
  <2> QED
    BY <1>1, <2>1, AnchorOfPlainExit, AnchorOfLabelledExit
<1>3. ForOfs((Anchor + 1) .. i) # {} => Anchor < i
  BY <1>1, <1>2 DEF ForOfs, At
<1> QED
  BY <1>1, <1>2, <1>3 DEF ForOfs, At

\* An exit is replaced by a return or a stopIter.
LEMMA Replacements ==
  ASSUME NEW i, isReplaceReq(i)
  PROVE  ReplacementOfExit(i).op \in {"return", "stop"}
<1>1. \A what : Return(what).op = "return"
  BY DEF Return, Statement
<1>2. \A key : StopIter(i, key).op = "stop"
  BY DEF StopIter, Statement
<1> QED
  BY <1>1, <1>2 DEF ReplacementOfExit

\* The consequent of a for-of: what still jumps has its target inside.
LEMMA SoundConsequent ==
  ASSUME Program, Covered, NEW i \in 1 .. Size, K(i) = "forof",
         NEW copy, Sound(i + 1, copy)
  PROVE  Sound(i, Consequent(i, copy))
<1> DEFINE new == Consequent(i, copy)
<1>1. /\ DOMAIN copy = Fields /\ copy.depth \in i .. Size
      /\ copy.calls \subseteq ForOfs((i + 1) .. Size)
      /\ copy.statement.op \in {"break", "continue", "return", "stop"}
      /\ copy.written \in BOOLEAN /\ (copy.written => copy.statement = Untouched)
      /\ Jumps(copy) => Reaches(i + 1, copy)
  BY AroundForOf DEF Sound
<1>2. copy.depth \in (i - 1) .. Size
  BY <1>1, AroundForOf
<1>3. copy.calls \cup {i} \subseteq ForOfs(i .. Size)
  BY <1>1, AroundForOf
<1>4. CASE Innermost(i) /\ isReplaceReq(i)
  <2> DEFINE fixed == Fix(copy, ReplacementOfExit(i))
  <2>1. new = [fixed EXCEPT !.calls = @ \cup {i}]
    BY <1>4 DEF Consequent
  <2>2. /\ DOMAIN fixed = Fields /\ fixed.depth = copy.depth /\ fixed.calls = copy.calls
        /\ fixed.statement = ReplacementOfExit(i) /\ fixed.metaData = NoKey
        /\ fixed.written = FALSE
    BY <1>1 DEF Fix, Fields
  <2> HIDE DEF fixed, new
  <2>3. /\ DOMAIN new = Fields /\ new.depth = copy.depth /\ new.calls = copy.calls \cup {i}
        /\ new.statement = ReplacementOfExit(i) /\ new.metaData = NoKey
        /\ new.written = FALSE
    BY <2>1, <2>2 DEF Fields
  <2>4. new.statement.op \in {"return", "stop"}
    BY <1>4, <2>3, Replacements
  <2>5. Sound(i, new)
    BY <1>2, <1>3, <2>3, <2>4 DEF Sound, Jumps, IsAnnotated
  <2> QED
    BY <2>5 DEF new
<1>5. CASE ~(Innermost(i) /\ isReplaceReq(i))
  <2>1. new = [[copy EXCEPT !.metaData = NoKey] EXCEPT !.calls = @ \cup {i}]
    BY <1>5 DEF Consequent
  <2> HIDE DEF new
  <2>2. /\ DOMAIN new = Fields /\ new.depth = copy.depth /\ new.calls = copy.calls \cup {i}
        /\ new.statement = copy.statement /\ new.metaData = NoKey /\ new.written = copy.written
    BY <1>1, <2>1 DEF Fields
  <2>3. ASSUME Jumps(new)
        PROVE  Reaches(i, new)
    <3>1. Reaches(i + 1, copy)
      BY <1>1, <2>2, <2>3 DEF Jumps
    <3>2. Innermost(i) \/ ForOfs((Anchor + 1) .. i) = {}
      BY <3>1, AroundForOf DEF Reaches, Innermost
    <3>3. i < Anchor
      BY <1>5, <3>1, <3>2, StaysInside DEF Reaches
    <3>4. ForOfs((Anchor + 1) .. (i - 1)) = {}
      BY <3>3, AroundForOf
    <3> QED
      BY <2>2, <3>1, <3>3, <3>4 DEF Reaches
  <2>4. Sound(i, new)
    BY <1>1, <1>2, <1>3, <2>2, <2>3 DEF Sound, IsAnnotated
  <2> QED
    BY <2>4 DEF new
<1> QED
  BY <1>4, <1>5

\* Behind the label of an exit with no for-of between, the target is the for-of itself or
\* further out.
LEMMA TargetInReach ==
  ASSUME Program, Covered, Labelled, NEW i \in 1 .. Size, K(i) = "forof", Anchor < i
  PROVE  /\ Target <= i /\ Target \in Nat
         /\ K(Anchor + 1) # "forof" => Target <= i - 1 /\ Anchor < i - 1
<1>1. /\ Anchor \in (Home + 1) .. Size /\ Home \in 1 .. Size /\ Size \in Nat
      /\ exit.op \in {"break", "continue"}
      /\ exit.op = "break" => Target = Anchor
      /\ exit.op = "continue" =>
           /\ Target \in (Anchor + 1) .. Size /\ K(Target) \in LoopKinds
           /\ \A k \in Anchor .. (Target - 1) : K(k) = "label"
      /\ \A k \in (Home + 1) .. Size : K(k) = "label" /\ nest[k].name = exit.name => k = Anchor
  BY Programs, Homes, AnchorOfLabelledExit DEF Labelled
<1>2. Target <= i /\ Target \in Nat
  <2>1. exit.op = "continue" => ~(i \in Anchor .. (Target - 1))
    BY <1>1
  <2> QED
    BY <1>1, <2>1
<1>3. ASSUME K(Anchor + 1) # "forof"
      PROVE  Target <= i - 1 /\ Anchor < i - 1
  <2>1. Anchor + 1 # i
    BY <1>3
  <2>2. Anchor < i - 1
    BY <1>1, <2>1
  <2>3. ASSUME exit.op = "continue", Target = i
        PROVE  FALSE
    <3>1. exit.name = parentLabel(i)
      BY <2>3, CoveredForms DEF Labelled
    <3>2. i - 1 \in Anchor .. (Target - 1) /\ i - 1 \in (Home + 1) .. Size
      BY <1>1, <2>2, <2>3
    <3>3. K(i - 1) = "label" /\ nest[i - 1].name = exit.name
      BY <1>1, <2>3, <3>1, <3>2 DEF parentLabel
    <3> QED
      BY <1>1, <2>2, <3>2, <3>3
  <2> QED
    BY <1>1, <1>2, <2>2, <2>3
<1> QED
  BY <1>2, <1>3

\* A labelled exit is replaced by the for-ofs behind its label.
LEMMA BehindTheLabel ==
  ASSUME Program, Labelled, NEW i \in 1 .. Size, K(i) = "forof"
  PROVE  isReplaceReq(i) <=> Anchor < i
<1>1. /\ Anchor \in (Home + 1) .. Size /\ Home \in 1 .. Size /\ Size \in Nat
      /\ K(Anchor) = "label" /\ nest[Anchor].name = exit.name
      /\ \A k \in (Home + 1) .. Size : K(k) = "label" /\ nest[k].name = exit.name => k = Anchor
      /\ exit.op \in {"break", "continue"}
  BY Programs, Homes, AnchorOfLabelledExit DEF Labelled
<1>2. isReplaceReq(i) <=> ~LabelInside(i)
  BY <1>1 DEF isReplaceReq, Labelled
<1>3. ASSUME Anchor < i, NEW j \in At({"label"}, (i + 1) .. Size)
      PROVE  nest[j].name # exit.name
  <2>1. j \in (Home + 1) .. Size /\ K(j) = "label" /\ j # Anchor
    BY <1>1, <1>3 DEF At
  <2> QED
    BY <1>1, <2>1
<1>4. ASSUME ~(Anchor < i)
      PROVE  LabelInside(i)
  <2>1. Anchor \in (i + 1) .. Size
    BY <1>1, <1>4
  <2> QED
    BY <1>1, <2>1 DEF LabelInside, At
<1> QED
  BY <1>2, <1>3, <1>4 DEF LabelInside

LEMMA LaterOfTwo ==
  ASSUME NEW x \in Nat
  PROVE  Max({1, x}) >= 1 /\ Max({1, x}) >= x /\ Max({1, x}) \in Nat
<1>1. \E m \in {1, x} : \A y \in {1, x} : m >= y
  <2>1. CASE x >= 1
    BY <2>1
  <2>2. CASE ~(x >= 1)
    BY <2>2
  <2> QED
    BY <2>1, <2>2
<1>2. Max({1, x}) \in {1, x} /\ \A y \in {1, x} : Max({1, x}) >= y
  BY <1>1 DEF Max
<1> QED
  BY <1>2

\* The alternate does not stumble over an anonymous function: inside the function of a
\* return there is no other, and it has a name when there is more than one for-of in it.
LEMMA NamesAreThere ==
  ASSUME Program, Covered, exit.op = "return", NEW i \in 1 .. Size, K(i) = "forof",
         targetFunction # None \/ (Anchor < i /\ ~Innermost(i))
  PROVE  ~NameIsMissing(i)
<1>1. /\ Size \in Nat \ {0} /\ Home \in 1 .. Size /\ K(Home) \in FunctionKinds /\ Anchor = Home
      /\ \A j \in 1 .. Size : K(j) \in FunctionKinds => j <= Home
  BY Programs, Homes DEF Anchor, Labelled
<1>2. Home # i
  BY <1>1 DEF FunctionKinds
<1>3. LookUp(i) \in Nat
  <2>1. LookUp(i) \in 0 .. (i - 1)
    <3> DEFINE targets == IF exit.op = "return" THEN FunctionTargets(i) ELSE LabelTargets(i)
    <3>1. targets \cup ForOfs(1 .. (i - 1)) \in SUBSET (1 .. (i - 1)) /\ i - 1 \in Nat
      BY <1>1 DEF FunctionTargets, LabelTargets, ForOfs, At
    <3>2. LookUp(i) = Nearest(targets \cup ForOfs(1 .. (i - 1)))
      BY DEF LookUp, searchStack
    <3> HIDE DEF targets
    <3> QED
      BY <3>1, <3>2, NearestIs
  <2> QED
    BY <1>1, <2>1
<1>4. SUFFICES ASSUME NEW j \in At(FunctionKinds, Max({1, LookUp(i)}) .. (i - 1)),
                      nest[j].name = None
               PROVE  FALSE
  BY DEF NameIsMissing
<1>5. /\ K(j) \in FunctionKinds /\ j \in 1 .. (i - 1) /\ j \in 1 .. Size /\ j >= LookUp(i)
      /\ j <= Home
  BY <1>1, <1>3, <1>4, LaterOfTwo DEF At
<1>6. CASE i < Home
  <2>1. i \in ForOfs(1 .. Home)
    BY <1>1, <1>6 DEF ForOfs, At
  <2>2. nest[Home].name # None
    BY <1>1, <1>6 DEF targetFunction
  <2> QED
    BY <1>4, <1>5, <2>1, <2>2, CoveredForms
<1>7. CASE Home < i
  <2>1. LookUp(i) >= Home
    BY <1>1, <1>7, LookUps
  <2>2. j = Home
    BY <1>1, <1>3, <1>5, <2>1
  <2>3. nest[Home].name = None /\ ~Innermost(i)
    BY <1>4, <2>2 DEF targetFunction
  <2>4. i \in ForOfs(Home .. Size)
    BY <1>1, <1>7 DEF ForOfs, At
  <2> QED
    BY <2>3, <2>4, CoveredForms
<1> QED
  BY <1>1, <1>2, <1>6, <1>7

\* The alternate of a for-of, of what an inner for-of has annotated: handed on to the
\* for-of that was looked up, or back to what it was.
LEMMA SoundAnnotated ==
  ASSUME Program, Covered, NEW i \in 1 .. Size, K(i) = "forof",
         NEW copy, Sound(i + 1, copy), IsAnnotated(copy)
  PROVE  Sound(i, AlternateOfAnnotated(i, copy))
<1> DEFINE new == AlternateOfAnnotated(i, copy)
           stop == LookUp(i)
           key == copy.metaData
<1>1. /\ DOMAIN copy = Fields /\ copy.depth \in i .. Size
      /\ copy.calls \subseteq ForOfs((i + 1) .. Size)
      /\ Pending(i + 1, copy)
  BY AroundForOf DEF Sound
<1>2. copy.depth \in (i - 1) .. Size /\ copy.calls \subseteq ForOfs(i .. Size)
  BY <1>1, AroundForOf
<1>3. /\ exit.op = "return" \/ Labelled
      /\ (key.code = "return") <=> (exit.op = "return")
      /\ Labelled => \A k \in copy.calls : k < Anchor
      /\ Anchor < i /\ ~Innermost(i)
  BY <1>1, AroundForOf DEF Pending, Innermost
<1>4. /\ Found(stop) => ForOfs((Anchor + 1) .. (i - 1)) = {}
      /\ Interrupted(stop) => stop \in ForOfs((Anchor + 1) .. (i - 1))
      /\ ~Found(stop) => Interrupted(stop)
      /\ Found(stop) => ~Interrupted(stop)
  BY <1>3, LookUps DEF Found, Interrupted
<1>5. exit.op = "return" => ~NameIsMissing(i)
  BY <1>3, NamesAreThere
<1> HIDE DEF stop
<1>6. CASE exit.op = "return" /\ Found(stop)
  <2> DEFINE what == Return(key.args)
  <2>1. new = Fix(copy, what)
    BY <1>3, <1>4, <1>5, <1>6 DEF AlternateOfAnnotated, stop
  <2>2. what.op = "return"
    BY DEF Return, Statement
  <2> HIDE DEF new, what
  <2>3. /\ DOMAIN new = Fields /\ new.depth = copy.depth /\ new.calls = copy.calls
        /\ new.statement = what /\ new.metaData = NoKey /\ new.written = FALSE
    BY <1>1, <2>1 DEF Fix, Fields
  <2>4. Sound(i, new)
    BY <1>1, <1>2, <2>2, <2>3 DEF Sound, Jumps, IsAnnotated
  <2> QED
    BY <2>4 DEF new
<1>7. CASE exit.op # "return" /\ Found(stop)
  <2> DEFINE what == Jump(exit.op)
  <2>1. new = Fix(copy, what)
    BY <1>3, <1>4, <1>5, <1>7 DEF AlternateOfAnnotated, stop
  <2>2. what.op = exit.op /\ exit.op \in {"break", "continue"}
    BY <1>7, Programs DEF Jump, Statement
  <2>3. copy.depth >= Target /\ copy.depth > Anchor
    BY <1>1, <1>3, <1>7, TargetInReach, AroundForOf
  <2> HIDE DEF new, what
  <2>4. /\ DOMAIN new = Fields /\ new.depth = copy.depth /\ new.calls = copy.calls
        /\ new.statement = what /\ new.metaData = NoKey /\ new.written = FALSE
    BY <1>1, <2>1 DEF Fix, Fields
  <2>5. Reaches(i, new)
    BY <1>3, <1>4, <1>7, <2>2, <2>3, <2>4 DEF Reaches, what
  <2>6. Sound(i, new)
    BY <1>1, <1>2, <2>2, <2>4, <2>5 DEF Sound, Jumps, IsAnnotated
  <2> QED
    BY <2>6 DEF new
<1>8. CASE Interrupted(stop)
  <2>1. new = Bubble(copy, stop, key)
    BY <1>3, <1>4, <1>5, <1>8 DEF AlternateOfAnnotated, stop
  <2> HIDE DEF new
  <2>2. /\ DOMAIN new = Fields /\ new.depth = copy.depth /\ new.calls = copy.calls
        /\ new.statement.op \in {"return", "stop"} /\ new.metaData = key /\ new.written = FALSE
    BY <1>1, <2>1 DEF Bubble, Annotate, Fields, Return, StopIter, Statement
  <2>3. Pending(i, new)
    BY <1>3, <1>4, <1>8, <2>2, AroundForOf DEF Pending
  <2>4. Sound(i, new)
    BY <1>1, <1>2, <2>2, <2>3 DEF Sound, Jumps
  <2> QED
    BY <2>4 DEF new
<1> QED
  BY <1>4, <1>6, <1>7, <1>8

\* The alternate of a for-of, of the exit as written.
LEMMA SoundExit ==
  ASSUME Program, Covered, NEW i \in 1 .. Size, K(i) = "forof",
         NEW copy, Sound(i + 1, copy), ~IsAnnotated(copy), copy.written
  PROVE  Sound(i, AlternateOfExit(i, copy))
<1> DEFINE new == AlternateOfExit(i, copy)
           stop == LookUp(i)
<1>1. /\ DOMAIN copy = Fields /\ copy.depth \in i .. Size
      /\ copy.calls \subseteq ForOfs((i + 1) .. Size)
      /\ copy.statement.op \in {"break", "continue", "return", "stop"}
      /\ copy.written \in BOOLEAN /\ copy.statement = Untouched
      /\ Jumps(copy) => Reaches(i + 1, copy)
  BY AroundForOf DEF Sound
<1>2. /\ copy.depth \in (i - 1) .. Size /\ copy.calls \subseteq ForOfs(i .. Size)
      /\ Size \in Nat \ {0} /\ Home \in 1 .. Size /\ Anchor \in Home .. Size
  BY <1>1, AroundForOf
<1>3. exit.op # "return" => Jumps(copy)
  BY <1>1, Programs DEF Jumps, Untouched, Jump, Statement
<1>4. exit.op = "return" /\ targetFunction # None => ~NameIsMissing(i)
  BY NamesAreThere
<1>5. CASE exit.op = "return" /\ targetFunction # None /\ Interrupted(stop)
  <2> DEFINE key == Key("return", Argument)
  <2>1. new = Bubble(copy, stop, key)
    BY <1>4, <1>5 DEF AlternateOfExit
  <2>2. ForOfs((Anchor + 1) .. (i - 1)) # {}
    <3>1. Anchor = Home /\ K(Home) \in FunctionKinds
      BY <1>5, Homes DEF Anchor, Labelled
    <3>2. CASE Anchor < i
      BY <1>5, <3>2, LookUps
    <3>3. CASE i < Anchor
      <4>1. i \in ForOfs(1 .. Home)
        BY <1>2, <3>1, <3>3 DEF ForOfs, At
      <4>2. stop \in 1 .. (i - 1) /\ K(stop) = "forof"
        <5> DEFINE targets == IF exit.op = "return" THEN FunctionTargets(i) ELSE LabelTargets(i)
        <5>1. targets \cup ForOfs(1 .. (i - 1)) \in SUBSET (1 .. (i - 1)) /\ i - 1 \in Nat
          BY <1>2 DEF FunctionTargets, LabelTargets, ForOfs, At
        <5>2. stop = Nearest(targets \cup ForOfs(1 .. (i - 1)))
          BY DEF LookUp, searchStack
        <5> HIDE DEF targets, stop
        <5>3. stop \in 0 .. (i - 1)
          BY <5>1, <5>2, NearestIs
        <5>4. stop # 0 /\ K(stop) = "forof"
          BY <1>5 DEF Interrupted
        <5> QED
          BY <1>2, <5>3, <5>4
      <4>3. nest[Home].name # None
        BY <1>5 DEF targetFunction
      <4> QED
        BY <1>5, <4>1, <4>2, <4>3, CoveredForms
    <3>4. i # Anchor
      BY <3>1 DEF FunctionKinds
    <3> QED
      BY <1>2, <3>2, <3>3, <3>4
  <2>3. key.code = "return"
    BY DEF Key
  <2> HIDE DEF new, key, stop
  <2>4. /\ DOMAIN new = Fields /\ new.depth = copy.depth /\ new.calls = copy.calls
        /\ new.statement.op \in {"return", "stop"} /\ new.metaData = key /\ new.written = FALSE
    BY <1>1, <2>1 DEF Bubble, Annotate, Fields, Return, StopIter, Statement
  <2>5. Pending(i, new)
    BY <1>5, <2>2, <2>3, <2>4, AroundForOf DEF Pending, Labelled
  <2>6. Sound(i, new)
    BY <1>1, <1>2, <2>4, <2>5 DEF Sound, Jumps
  <2> QED
    BY <2>6 DEF new
<1>6. CASE Labelled /\ isReplaceReq(i) /\ Interrupted(stop)
  <2> DEFINE key == LabelKey
  <2>1. new = Bubble(copy, stop, key)
    BY <1>6 DEF AlternateOfExit, Labelled
  <2>2. ForOfs((Anchor + 1) .. (i - 1)) # {}
    BY <1>6, BehindTheLabel, LookUps
  <2>3. key.code # "return"
    BY DEF LabelKey, LabelCode, Key
  <2>4. \A k \in copy.calls : k < Anchor
    BY <1>1, <1>3, <1>6 DEF Reaches, Labelled
  <2> HIDE DEF new, key, stop
  <2>5. /\ DOMAIN new = Fields /\ new.depth = copy.depth /\ new.calls = copy.calls
        /\ new.statement.op \in {"return", "stop"} /\ new.metaData = key /\ new.written = FALSE
    BY <1>1, <2>1 DEF Bubble, Annotate, Fields, Return, StopIter, Statement
  <2>6. Pending(i, new)
    BY <1>6, <2>2, <2>3, <2>4, <2>5, AroundForOf DEF Pending, Labelled
  <2>7. Sound(i, new)
    BY <1>1, <1>2, <2>5, <2>6 DEF Sound, Jumps
  <2> QED
    BY <2>7 DEF new
<1>7. CASE /\ ~(exit.op = "return" /\ targetFunction # None /\ Interrupted(stop))
           /\ ~(Labelled /\ isReplaceReq(i) /\ Interrupted(stop))
  <2>1. new = copy
    BY <1>4, <1>7 DEF AlternateOfExit, Labelled
  <2>2. ASSUME Jumps(copy)
        PROVE  ForOfs((Anchor + 1) .. (i - 1)) = {}
    <3>1. exit.op # "return"
      BY <1>1, <2>2 DEF Reaches
    <3>2. CASE Labelled /\ isReplaceReq(i)
      <4>1. Anchor < i /\ ~Interrupted(stop)
        BY <1>7, <3>2, BehindTheLabel
      <4> QED
        BY <3>2, <4>1, LookUps
    <3>3. CASE Labelled /\ ~isReplaceReq(i)
      <4>1. ~(Anchor < i)
        BY <3>3, BehindTheLabel
      <4> QED
        BY <1>2, <4>1 DEF ForOfs, At
    <3>4. CASE ~Labelled
      BY <1>2, <3>1, <3>4, AnchorOfPlainExit DEF ForOfs, At
    <3> QED
      BY <3>2, <3>3, <3>4
  <2>3. Jumps(copy) => Reaches(i, copy)
    BY <1>1, <2>2 DEF Reaches
  <2>4. Sound(i, copy)
    BY <1>1, <1>2, <2>3 DEF Sound
  <2> QED
    BY <2>1, <2>4
<1> QED
  BY <1>5, <1>6, <1>7

LEMMA SoundAlternate ==
  ASSUME Program, Covered, NEW i \in 1 .. Size, K(i) = "forof",
         NEW copy, Sound(i + 1, copy)
  PROVE  Sound(i, Alternate(i, copy))
<1>1. CASE IsAnnotated(copy)
  BY <1>1, SoundAnnotated DEF Alternate
<1>2. CASE ~IsAnnotated(copy) /\ copy.written
  BY <1>2, SoundExit DEF Alternate
<1>3. CASE ~IsAnnotated(copy) /\ ~copy.written
  <2>1. Alternate(i, copy) = copy
    BY <1>3 DEF Alternate
  <2>2. /\ DOMAIN copy = Fields /\ copy.depth \in i .. Size
        /\ copy.calls \subseteq ForOfs((i + 1) .. Size)
        /\ copy.statement.op \in {"break", "continue", "return", "stop"}
        /\ copy.written \in BOOLEAN /\ (copy.written => copy.statement = Untouched)
        /\ Jumps(copy) => Reaches(i + 1, copy)
    BY AroundForOf DEF Sound
  <2>3. copy.depth \in (i - 1) .. Size /\ copy.calls \subseteq ForOfs(i .. Size)
    BY <2>2, AroundForOf
  <2>4. Jumps(copy) => Reaches(i, copy)
    BY <1>3, <2>2, AroundForOf DEF Reaches
  <2>5. Sound(i, copy)
    BY <1>3, <2>2, <2>3, <2>4 DEF Sound
  <2> QED
    BY <2>1, <2>5
<1> QED
  BY <1>1, <1>2, <1>3

\* A for-of has cases only for exits that leave it for something behind its anchor.
LEMMA PushedKeys ==
  ASSUME Program, Covered, NEW i \in 1 .. Size, K(i) = "forof",
         NEW copies, \A copy \in copies : Sound(i + 1, copy),
         NEW key \in Pushed(i, copies)
  PROVE  /\ exit.op = "return" \/ Labelled
         /\ (key.code = "return") <=> (exit.op = "return")
         /\ Anchor < i
<1> DEFINE own == ReplacementOfExit(i)
<1>1. CASE \E copy \in copies : IsAnnotated(copy) /\ key = copy.metaData
  <2>1. PICK copy \in copies : IsAnnotated(copy) /\ key = copy.metaData
    BY <1>1
  <2>2. Pending(i + 1, copy)
    BY <2>1 DEF Sound
  <2> QED
    BY <2>1, <2>2, AroundForOf DEF Pending
<1>2. CASE Innermost(i) /\ own.op = "stop" /\ own.key.code # "break" /\ key = own.key
  <2>1. exit.op \in {"break", "continue", "return"} /\ (exit.op = "return" => exit.name = None)
    BY Programs
  <2>2. isReplaceReq(i)
    <3>1. Untouched.op # "stop"
      BY <2>1 DEF Untouched, Return, Jump, Statement
    <3> QED
      BY <1>2, <3>1 DEF ReplacementOfExit
  <2>3. \A what : Return(what).op # "stop"
    BY DEF Return, Statement
  <2>4. \A k : StopIter(i, k).key = k
    BY DEF StopIter, Statement
  <2>5. CASE exit.op = "return"
    <3>1. own.key = Key("return", Argument)
      BY <2>2, <2>4, <2>5 DEF ReplacementOfExit
    <3>2. key.code = "return"
      BY <1>2, <3>1 DEF Key
    <3>3. /\ Size \in Nat \ {0} /\ Home \in 1 .. Size /\ K(Home) \in FunctionKinds /\ Anchor = Home
      BY <2>5, Programs, Homes DEF Anchor, Labelled
    <3>4. Home # i
      BY <3>3 DEF FunctionKinds
    <3>5. ASSUME i < Home
          PROVE  FALSE
      <4>1. Home \in (i + 1) .. Size
        BY <3>3, <3>5
      <4>2. K(Home) # "function"
        BY <2>2, <2>5, <4>1 DEF isReplaceReq, At
      <4>3. K(Home) = "arrow"
        BY <3>3, <4>2 DEF FunctionKinds
      <4>4. i \in ForOfs(1 .. Home)
        BY <3>3, <3>5 DEF ForOfs, At
      <4>5. ForOfs(Home .. Size) = {}
        BY <1>2, <3>3, <3>5 DEF Innermost, ForOfs, At
      <4> QED
        BY <2>5, <4>3, <4>4, <4>5, CoveredForms
    <3> QED
      BY <2>5, <3>2, <3>3, <3>4, <3>5
  <2>6. CASE exit.op = "break" /\ exit.name = None
    <3>1. own = StopIter(i, Key("break", None))
      BY <2>2, <2>6 DEF ReplacementOfExit
    <3>2. own.key.code = "break"
      BY <2>4, <3>1 DEF Key
    <3> QED
      BY <1>2, <3>2
  <2>7. CASE exit.op = "continue" /\ exit.name \in {None, parentLabel(i)}
    <3>1. own = Return("undefined")
      BY <2>2, <2>7 DEF ReplacementOfExit
    <3> QED
      BY <1>2, <2>3, <3>1
  <2>8. CASE /\ exit.op # "return" /\ ~(exit.op = "break" /\ exit.name = None)
             /\ ~(exit.op = "continue" /\ exit.name \in {None, parentLabel(i)})
    <3>1. own = StopIter(i, LabelKey)
      BY <2>2, <2>8 DEF ReplacementOfExit
    <3>2. key = LabelKey
      BY <1>2, <2>4, <3>1
    <3>3. key.code # "return"
      BY <3>2 DEF LabelKey, LabelCode, Key
    <3>4. Labelled
      BY <2>1, <2>8 DEF Labelled
    <3> QED
      BY <2>2, <2>8, <3>3, <3>4, BehindTheLabel
  <2> QED
    BY <2>5, <2>6, <2>7, <2>8
<1> QED
  BY <1>1, <1>2 DEF Pushed

\* The cases of a for-of's switch.
LEMMA SoundCase ==
  ASSUME Program, Covered, NEW i \in 1 .. Size, K(i) = "forof",
         NEW copies, \A copy \in copies : Sound(i + 1, copy),
         NEW key \in Pushed(i, copies), NEW new \in Case(i, key)
  PROVE  Sound(i, new)
<1> DEFINE stop == LookUp(i)
           copy == Copy(i - 1, key, Failure)
<1>1. /\ exit.op = "return" \/ Labelled
      /\ (key.code = "return") <=> (exit.op = "return")
      /\ Anchor < i
  BY PushedKeys
<1>2. /\ stop # 0
      /\ Found(stop) => stop = Anchor /\ ForOfs((Anchor + 1) .. (i - 1)) = {}
      /\ Interrupted(stop) => stop \in ForOfs((Anchor + 1) .. (i - 1))
      /\ ~Found(stop) => Interrupted(stop)
      /\ Found(stop) => ~Interrupted(stop)
  BY <1>1, LookUps DEF Found, Interrupted
<1>3. /\ DOMAIN copy = Fields /\ copy.depth = i - 1 /\ copy.calls = {}
  BY DEF Copy, Fields
<1>4. i - 1 \in (i - 1) .. Size
  BY AroundForOf
<1>5. CASE exit.op = "return" /\ Found(stop)
  <2> DEFINE what == Return(Variable(i))
  <2>1. new = Fix(copy, what)
    BY <1>1, <1>2, <1>5 DEF Case
  <2>2. what.op = "return"
    BY DEF Return, Statement
  <2> HIDE DEF what, copy, stop
  <2>3. /\ DOMAIN new = Fields /\ new.depth = copy.depth /\ new.calls = copy.calls
        /\ new.statement = what /\ new.metaData = NoKey /\ new.written = FALSE
    BY <1>3, <2>1 DEF Fix, Fields
  <2> QED
    BY <1>3, <1>4, <2>2, <2>3 DEF Sound, Jumps, IsAnnotated
<1>6. CASE exit.op # "return" /\ Found(stop)
  <2> DEFINE what == Jump(exit.op)
  <2>1. new = Fix(copy, what) /\ K(Anchor + 1) # "forof"
    BY <1>1, <1>2, <1>6 DEF Case
  <2>2. what.op = exit.op /\ exit.op \in {"break", "continue"}
    BY <1>6, Programs DEF Jump, Statement
  <2>3. i - 1 >= Target /\ i - 1 > Anchor
    BY <1>1, <1>6, <2>1, TargetInReach, AroundForOf
  <2> HIDE DEF what, copy, stop
  <2>4. /\ DOMAIN new = Fields /\ new.depth = copy.depth /\ new.calls = copy.calls
        /\ new.statement = what /\ new.metaData = NoKey /\ new.written = FALSE
    BY <1>3, <2>1 DEF Fix, Fields
  <2>5. Reaches(i, new)
    BY <1>2, <1>3, <1>6, <2>3, <2>4 DEF Reaches, what
  <2> QED
    BY <1>3, <1>4, <2>2, <2>4, <2>5 DEF Sound, Jumps, IsAnnotated
<1>7. CASE Interrupted(stop)
  <2> DEFINE handed == IF exit.op = "return" THEN Key("return", Variable(i)) ELSE key
  <2>1. new = Bubble(copy, stop, handed)
    <3>1. CASE exit.op = "return"
      BY <1>1, <1>2, <1>7, <3>1 DEF Case
    <3>2. CASE exit.op # "return"
      BY <1>1, <1>2, <1>7, <3>2 DEF Case
    <3> QED
      BY <3>1, <3>2
  <2>2. (handed.code = "return") <=> (exit.op = "return")
    BY <1>1 DEF Key
  <2> HIDE DEF copy, stop, handed
  <2>3. /\ DOMAIN new = Fields /\ new.depth = copy.depth /\ new.calls = copy.calls
        /\ new.statement.op \in {"return", "stop"} /\ new.metaData = handed /\ new.written = FALSE
    BY <1>3, <2>1 DEF Bubble, Annotate, Fields, Return, StopIter, Statement
  <2>4. Pending(i, new)
    BY <1>1, <1>2, <1>3, <1>7, <2>2, <2>3, AroundForOf DEF Pending
  <2> QED
    BY <1>3, <1>4, <2>3, <2>4 DEF Sound, Jumps
<1> QED
  BY <1>2, <1>5, <1>6, <1>7

\* Every copy is sound after every stage.
LEMMA SoundStages ==
  ASSUME Program, Covered
  PROVE  \A copy \in Transpiled : Sound(1, copy)
<1>1. Size \in Nat \ {0}
  BY Programs
<1>2. PICK g : /\ g[Size + 1] = {AsWritten}
               /\ \A i \in 1 .. Size :
                    g[i] = IF K(i) = "forof" THEN IterCompatible(i, g[i + 1]) ELSE g[i + 1]
               /\ Transpiled = g[1]
  BY <1>1, Stages
<1> DEFINE S == {k \in Nat : k <= Size => \A copy \in g[Size + 1 - k] : Sound(Size + 1 - k, copy)}
<1>3. 0 \in S
  <2>1. Size + 1 - 0 = Size + 1
    BY <1>1
  <2>2. \A copy \in g[Size + 1 - 0] : Sound(Size + 1 - 0, copy)
    BY <1>2, <2>1, SoundAsWritten
  <2> QED
    BY <2>2
<1>4. ASSUME NEW k \in Nat, k \in S
      PROVE  k + 1 \in S
  <2>1. SUFFICES ASSUME k + 1 <= Size
                 PROVE  \A copy \in g[Size + 1 - (k + 1)] : Sound(Size + 1 - (k + 1), copy)
    OBVIOUS
  <2> DEFINE i == Size + 1 - (k + 1)
  <2>2. i \in 1 .. Size /\ i + 1 = Size + 1 - k
    BY <1>1, <2>1
  <2>3. \A copy \in g[i + 1] : Sound(i + 1, copy)
    BY <1>1, <1>4, <2>1, <2>2
  <2> HIDE DEF i, S
  <2>4. CASE K(i) # "forof"
    <3>1. g[i] = g[i + 1]
      BY <1>2, <2>2, <2>4
    <3>2. \A copy \in g[i] : Sound(i, copy)
      BY <2>2, <2>3, <2>4, <3>1, SoundElsewhere
    <3> QED
      BY <3>2 DEF i
  <2>5. CASE K(i) = "forof"
    <3> DEFINE copies == g[i + 1]
    <3>1. g[i] = IterCompatible(i, copies)
      BY <1>2, <2>2, <2>5
    <3> HIDE DEF copies
    <3>2. \A copy \in copies : Sound(i + 1, copy)
      BY <2>3 DEF copies
    <3>3. \A copy \in copies : Sound(i, Consequent(i, copy)) /\ Sound(i, Alternate(i, copy))
      BY <2>2, <2>5, <3>2, SoundConsequent, SoundAlternate
    <3>4. \A key \in Pushed(i, copies) : \A new \in Case(i, key) : Sound(i, new)
      BY <2>2, <2>5, <3>2, SoundCase
    <3>5. \A copy \in g[i] : Sound(i, copy)
      BY <3>1, <3>3, <3>4 DEF IterCompatible
    <3> QED
      BY <3>5 DEF i
  <2> QED
    BY <2>4, <2>5
<1> HIDE DEF S
<1>5. Size \in S
  BY <1>1, <1>3, <1>4, Induction
<1>6. Size + 1 - Size = 1 /\ Size <= Size
  BY <1>1
<1> QED
  BY <1>2, <1>5, <1>6 DEF S

-------------------------------------------------------------------------------
(***************************************************************************)
(* The theorem.                                                            *)
(***************************************************************************)
\* A jump that reaches its target compiles.
LEMMA JumpsHaveTargets ==
  ASSUME Program, Covered, NEW copy, Sound(1, copy), Jumps(copy)
  PROVE  JumpTarget(copy.statement, copy.depth, copy.calls) # 0
<1> DEFINE depth == copy.depth
           calls == copy.calls
           B == {i \in 1 .. depth : K(i) \in FunctionKinds \/ i \in calls}
           inside == (Boundary(depth, calls) + 1) .. depth
<1>1. /\ exit.op # "return" /\ copy.statement = Jump(exit.op)
      /\ depth >= Target /\ (Labelled => depth > Anchor)
      /\ \A k \in calls : k < Anchor
      /\ depth \in 0 .. Size
  BY AroundForOf DEF Sound, Reaches
<1>2. /\ Size \in Nat \ {0} /\ Home \in 1 .. Size /\ exit.op \in {"break", "continue"}
      /\ \A i \in 1 .. Size : K(i) \in FunctionKinds => i <= Home
      /\ Anchor \in (Home + 1) .. Size
  BY <1>1, Programs, Homes, AnchorOfPlainExit, AnchorOfLabelledExit
<1>3. /\ copy.statement.op = exit.op /\ copy.statement.name = exit.name
  BY <1>1 DEF Jump, Statement
<1>4. Boundary(depth, calls) \in 0 .. (Anchor - 1)
  <2>1. B \in SUBSET (1 .. depth) /\ depth \in Nat
    BY <1>1
  <2>2. \A i \in B : i < Anchor
    BY <1>1, <1>2
  <2>3. Boundary(depth, calls) = Nearest(B)
    BY DEF Boundary
  <2> HIDE DEF B
  <2>4. Nearest(B) \in 0 .. depth /\ (B # {} => Nearest(B) \in B) /\ (B = {} => Nearest(B) = 0)
    BY <2>1, NearestIs
  <2> QED
    BY <1>2, <2>2, <2>3, <2>4
<1>5. Anchor <= depth => Anchor \in inside /\ inside \in SUBSET (1 .. depth)
  BY <1>1, <1>2, <1>4
<1> HIDE DEF inside
<1>6. CASE exit.op = "break" /\ ~Labelled
  <2> DEFINE T == At(LoopKinds \cup {"switch"}, inside)
  <2>1. Anchor = Target /\ exit.name = None /\ K(Anchor) \in {"forof", "loop", "switch"}
    BY <1>6, AnchorOfPlainExit
  <2>2. Anchor \in T /\ T \in SUBSET (1 .. depth) /\ depth \in Nat
    BY <1>1, <1>5, <2>1 DEF At, LoopKinds
  <2>3. JumpTarget(copy.statement, depth, calls) = Nearest(T)
    BY <1>3, <1>6, <2>1 DEF JumpTarget, inside
  <2> HIDE DEF T
  <2>4. Nearest(T) \in T
    BY <2>2, NearestIs
  <2> QED
    BY <2>2, <2>3, <2>4
<1>7. CASE exit.op = "break" /\ Labelled
  <2> DEFINE T == {i \in At({"label"}, inside) :
                     nest[i].name = copy.statement.name /\ (K(i + 1) = "forof" => i < depth)}
  <2>1. /\ K(Anchor) = "label" /\ nest[Anchor].name = exit.name
    BY <1>7, AnchorOfLabelledExit
  <2>2. Anchor \in T /\ T \in SUBSET (1 .. depth) /\ depth \in Nat
    BY <1>1, <1>2, <1>3, <1>5, <1>7, <2>1 DEF At
  <2>3. JumpTarget(copy.statement, depth, calls) = Nearest(T)
    BY <1>3, <1>7 DEF JumpTarget, inside, Labelled
  <2> HIDE DEF T
  <2>4. Nearest(T) \in T
    BY <2>2, NearestIs
  <2> QED
    BY <2>2, <2>3, <2>4
<1>8. CASE exit.op = "continue"
  <2> DEFINE T == {i \in At(LoopKinds, inside) :
                     copy.statement.name \in GeneratedLabels(i) \cup {None}}
  <2>1. /\ Target \in inside /\ inside \in SUBSET (1 .. depth) /\ depth \in Nat
        /\ K(Target) \in LoopKinds
        /\ copy.statement.name \in GeneratedLabels(Target) \cup {None}
    <3>1. CASE ~Labelled
      <4>1. Anchor = Target /\ exit.name = None /\ K(Anchor) \in {"forof", "loop"}
        BY <1>1, <1>8, <3>1, AnchorOfPlainExit
      <4>2. Target \in inside /\ inside \in SUBSET (1 .. depth) /\ depth \in Nat
        BY <1>1, <1>2, <1>5, <4>1
      <4>3. copy.statement.name \in GeneratedLabels(Target) \cup {None}
        BY <1>3, <4>1
      <4> QED
        BY <4>1, <4>2, <4>3 DEF LoopKinds
    <3>2. CASE Labelled
      <4>1. /\ Target \in (Anchor + 1) .. Size /\ K(Target) \in LoopKinds
            /\ \A i \in Anchor .. (Target - 1) : K(i) = "label"
            /\ nest[Anchor].name = exit.name
        BY <1>8, <3>2, AnchorOfLabelledExit
      <4>2. Target \in inside /\ inside \in SUBSET (1 .. depth) /\ depth \in Nat
        BY <1>1, <1>2, <1>4, <1>5, <4>1 DEF inside
      <4>3. exit.name \in GeneratedLabels(Target)
        <5>1. CASE K(Target) = "forof"
          <6>1. exit.name = parentLabel(Target) /\ exit.name # None
            BY <1>8, <3>2, <5>1, CoveredForms DEF Labelled
          <6> QED
            BY <5>1, <6>1 DEF GeneratedLabels
        <5>2. CASE K(Target) # "forof"
          <6>1. Anchor \in 1 .. (Target - 1)
            BY <1>2, <4>1
          <6>2. exit.name \in LabelsOf(Target)
            BY <4>1, <6>1 DEF LabelsOf
          <6> QED
            BY <5>2, <6>2 DEF GeneratedLabels
        <5> QED
          BY <5>1, <5>2
      <4> QED
        BY <1>3, <4>1, <4>2, <4>3
    <3> QED
      BY <3>1, <3>2
  <2>4. Target \in T /\ Target \in Nat \ {0} /\ T \in SUBSET (1 .. depth) /\ depth \in Nat
    <3>1. T \in SUBSET inside
      BY DEF At
    <3>2. Target \in T
      BY <2>1 DEF At
    <3> HIDE DEF T, inside
    <3>3. T \in SUBSET (1 .. depth)
      BY <2>1, <3>1
    <3>4. Target \in Nat \ {0}
      BY <2>1
    <3> QED
      BY <2>1, <3>2, <3>3, <3>4
  <2>2. JumpTarget(copy.statement, depth, calls) = Nearest(T)
    BY <1>3, <1>8 DEF JumpTarget, inside
  <2> HIDE DEF T
  <2>3. Nearest(T) \in T
    BY <2>4, NearestIs
  <2> QED
    BY <2>2, <2>3, <2>4
<1> QED
  BY <1>2, <1>6, <1>7, <1>8

\* Compiles, for nests of any depth, over any labels and queries: whatever the program,
\* unless one of the six forms occurs in it.
THEOREM GeneratedCodeCompiles ==
  ASSUME FormsThatFail \subseteq Excluded
  PROVE  Spec => []Compiles
<1>1. Init => Compiles
  <2>1. SUFFICES ASSUME Init PROVE Outcome = "code"
    BY DEF Init, Compiles
  <2>2. Program /\ Covered /\ code = Transpiled
    BY <2>1 DEF Init, Covered
  <2>3. \A copy \in code : Sound(1, copy)
    BY <2>2, SoundStages
  <2>4. \A copy \in code : copy.statement.op # "throws"
    BY <2>3 DEF Sound
  <2>5. \A copy \in code : copy.statement.op \in {"break", "continue"} =>
          JumpTarget(copy.statement, copy.depth, copy.calls) # 0
    BY <2>2, <2>3, JumpsHaveTargets DEF Jumps
  <2> QED
    BY <2>4, <2>5 DEF Outcome
<1>2. Compiles /\ [Next]_vars => Compiles'
  <2>1. [Next]_vars => UNCHANGED outcome
    BY DEF Next, vars, program, Enter, EnterLoop, EnterForOf, NextRow, Leave, EndIteration,
       ReachExit, CallStopIter, ReturnFromFunction, ReturnFromCallback, JumpOut
  <2> QED
    BY <2>1 DEF Compiles
<1> QED
  BY <1>1, <1>2, PTL DEF Spec
===============================================================================
