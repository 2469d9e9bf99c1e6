--------------------------- MODULE JsifyLexerProofs ---------------------------
(***************************************************************************)
(* What holds of the lexer, and of where Compile reports an error, for     *)
(* sources of any length and any number of calls, and which features of a  *)
(* source each property depends on.                                        *)
(***************************************************************************)
EXTENDS Compilation, SequenceLemmas, FiniteSetTheorems

Char == [sym : OutputSymbols, at : Nat]

Insertion == [type : {"kN1QLBegin", "kN1QLEnd"}, type_len : Nat, line_no : Nat, index : Nat]

(***************************************************************************)
(* Types of the operators.                                                 *)
(***************************************************************************)
LEMMA SymbolType ==
  ASSUME source \in Seq(Symbols), NEW sym \in SourceSymbols
  PROVE  Symbol(sym) \in Char /\ Symbol(sym).sym = sym /\ Symbol(sym).at = Len(source) + 1
<1>1. Len(source) + 1 \in Nat
  BY LenProperties
<1> QED
  BY <1>1 DEF Symbol, Char, OutputSymbols

\* A copied symbol is added to a text and to the source.
LEMMA AppendSymbol ==
  ASSUME source \in Seq(Symbols), NEW sym \in SourceSymbols, NEW text \in Text
  PROVE  Append(text, Symbol(sym)) \in Text
  BY SymbolType, AppendProperties DEF Text, Char

LEMMA NewlinesType ==
  ASSUME NEW text \in Text
  PROVE  Newlines(text) \in Nat
<1>1. DOMAIN text = 1 .. Len(text) /\ Len(text) \in Nat
  BY LenProperties DEF Text
<1>2. IsFiniteSet(DOMAIN text)
  BY <1>1, FS_Interval
<1>3. {i \in DOMAIN text : text[i].sym = "newline"} \in SUBSET DOMAIN text
  OBVIOUS
<1>4. IsFiniteSet({i \in DOMAIN text : text[i].sym = "newline"})
  BY <1>2, <1>3, FS_Subset
<1> QED
  BY <1>4, FS_CardinalityType DEF Newlines

\* The entry for the end of a query is made when the query has been copied.
LEMMA UpdatePosType ==
  ASSUME insertions \in Seq(Insertion), NEW text \in Text,
         NEW type \in {"kN1QLBegin", "kN1QLEnd"}, type = "kN1QLEnd" => text # <<>>
  PROVE  UpdatePos(type, text) \in Seq(Insertion)
<1> DEFINE skipped == IF insertions = <<>> THEN 0 ELSE insertions[Len(insertions)].line_no
           rest == SubSeq(text, skipped + 1, Len(text))
           line == Newlines(rest) + 1
           len == IF type = "kN1QLBegin" THEN 2 ELSE 3
           index == IF type = "kN1QLBegin" THEN Len(text) ELSE Len(text) - 1
<1>1. skipped \in Nat
  <2>1. CASE insertions = <<>>
    BY <2>1
  <2>2. CASE insertions # <<>>
    <3>1. Len(insertions) \in Nat \ {0}
      BY <2>2, EmptySeq
    <3>2. insertions[Len(insertions)] \in Insertion
      BY <3>1, ElementOfSeq
    <3> QED
      BY <2>2, <3>2 DEF Insertion
  <2> QED
    BY <2>1, <2>2
<1>2. Len(text) \in Nat /\ (text # <<>> => Len(text) \in Nat \ {0})
  BY EmptySeq, LenProperties DEF Text
<1> HIDE DEF skipped
<1>3. rest \in Text
  <2>1. \A i \in skipped + 1 .. Len(text) : i \in 1 .. Len(text)
    BY <1>1, <1>2
  <2>2. \A i \in skipped + 1 .. Len(text) : text[i] \in Char
    BY <2>1, ElementOfSeq DEF Text, Char
  <2> QED
    BY <1>1, <1>2, <2>2, SubSeqProperties DEF Text, Char
<1> HIDE DEF rest
<1>4. line \in Nat /\ len \in Nat /\ index \in Nat
  BY <1>2, <1>3, NewlinesType
<1>5. UpdatePos(type, text)
        = Append(insertions, [type |-> type, type_len |-> len, line_no |-> line, index |-> index])
  BY DEF UpdatePos, skipped, rest
<1> HIDE DEF line, len, index
<1>6. [type |-> type, type_len |-> len, line_no |-> line, index |-> index] \in Insertion
  BY <1>4 DEF Insertion
<1> QED
  BY <1>5, <1>6, AppendProperties

\* The comment that a query is replaced with: each of its symbols between insertions.
LEMMA TranspiledShape ==
  ASSUME NEW query \in Text, lex_op # "kJsify"
  PROVE  LET t == TranspileQuery(query)
         IN  /\ t \in Text /\ Len(t) = Len(query) + 6
             /\ \A k \in 1 .. Len(query) :
                   /\ t[k + 2].at = query[k].at
                   /\ t[k + 2].sym = "newline" <=> query[k].sym = "newline"
             /\ \A k \in 1 .. Len(query) + 6 :
                   k <= 2 \/ k > Len(query) + 2 => t[k].at = 0 /\ t[k].sym # "newline"
             /\ t[1] = Inserted("slash") /\ t[Len(query) + 6] = Inserted("semicolon")
<1> DEFINE a == <<Inserted("slash"), Inserted("star")>>
           b == [i \in 1 .. Len(query) |-> Star(query[i])]
           c == <<Inserted("star"), Inserted("slash"), Inserted("dollar"), Inserted("semicolon")>>
<1>1. /\ Inserted("slash") \in Char /\ Inserted("star") \in Char
      /\ Inserted("dollar") \in Char /\ Inserted("semicolon") \in Char
  BY DEF Inserted, Char, OutputSymbols, SourceSymbols, Quotes
<1>2. /\ a \in Text /\ Len(a) = 2 /\ a[1] = Inserted("slash")
      /\ \A k \in 1 .. 2 : a[k].at = 0 /\ a[k].sym # "newline"
  BY <1>1 DEF Text, Char, Inserted
<1>3. /\ c \in Text /\ Len(c) = 4 /\ c[4] = Inserted("semicolon")
      /\ \A k \in 1 .. 4 : c[k].at = 0 /\ c[k].sym # "newline"
  BY <1>1 DEF Text, Char, Inserted
<1>4. Len(query) \in Nat /\ \A k \in 1 .. Len(query) : query[k] \in Char
  BY LenProperties, ElementOfSeq DEF Text, Char
<1>5. \A k \in 1 .. Len(query) : /\ b[k] \in Char /\ b[k].at = query[k].at
                                 /\ b[k].sym = "newline" <=> query[k].sym = "newline"
  BY <1>4 DEF Star, Char, OutputSymbols
<1>6. b \in Text /\ Len(b) = Len(query)
  <2>1. b \in [1 .. Len(query) -> Char]
    BY <1>5
  <2> QED
    BY <2>1, <1>4 DEF Text, Char
<1> HIDE DEF a, b, c
<1>0. Text = Seq(Char)
  BY DEF Text, Char
<1>7. /\ a \o b \in Seq(Char) /\ Len(a \o b) = Len(query) + 2
      /\ \A k \in 1 .. Len(query) + 2 : (a \o b)[k] = IF k <= 2 THEN a[k] ELSE b[k - 2]
  <2>1. a \in Seq(Char) /\ b \in Seq(Char)
    BY <1>0, <1>2, <1>6
  <2>2. /\ a \o b \in Seq(Char) /\ Len(a \o b) = Len(a) + Len(b)
        /\ \A k \in 1 .. Len(a) + Len(b) :
              (a \o b)[k] = IF k <= Len(a) THEN a[k] ELSE b[k - Len(a)]
    BY <2>1, ConcatProperties
  <2> QED
    BY <1>2, <1>4, <1>6, <2>2
<1>8. /\ a \o b \o c \in Text /\ Len(a \o b \o c) = Len(query) + 6
      /\ \A k \in 1 .. Len(query) + 6 :
            (a \o b \o c)[k] = IF k <= Len(query) + 2 THEN (a \o b)[k] ELSE c[k - (Len(query) + 2)]
  <2>1. c \in Seq(Char)
    BY <1>0, <1>3
  <2>2. /\ a \o b \o c \in Seq(Char) /\ Len(a \o b \o c) = Len(a \o b) + Len(c)
        /\ \A k \in 1 .. Len(a \o b) + Len(c) :
              (a \o b \o c)[k] = IF k <= Len(a \o b) THEN (a \o b)[k] ELSE c[k - Len(a \o b)]
    BY <1>7, <2>1, ConcatProperties
  <2> QED
    BY <1>0, <1>3, <1>4, <1>7, <2>2
<1> DEFINE t == a \o b \o c
<1>9. TranspileQuery(query) = t
  BY DEF TranspileQuery, a, b, c
<1>10. ASSUME NEW k \in 1 .. Len(query)
       PROVE  t[k + 2].at = query[k].at /\ (t[k + 2].sym = "newline" <=> query[k].sym = "newline")
  <2>1. t[k + 2] = b[k]
    BY <1>4, <1>7, <1>8
  <2> QED
    BY <2>1, <1>5
<1>11. ASSUME NEW k \in 1 .. Len(query) + 6, k <= 2 \/ k > Len(query) + 2
       PROVE  t[k].at = 0 /\ t[k].sym # "newline"
  <2>1. CASE k <= 2
    <3>1. k \in 1 .. 2 /\ t[k] = a[k]
      BY <2>1, <1>4, <1>7, <1>8
    <3> QED
      BY <3>1, <1>2
  <2>2. CASE k > Len(query) + 2
    <3>1. k \in 1 .. Len(query) + 6 /\ ~(k <= Len(query) + 2) /\ Len(query) \in Nat
      BY <2>2, <1>4
    <3>2. k - (Len(query) + 2) \in 1 .. 4
      BY <3>1
    <3>3. t[k] = c[k - (Len(query) + 2)]
      BY <3>1, <1>8
    <3> QED
      BY <3>2, <3>3, <1>3
  <2> QED
    BY <1>11, <2>1, <2>2
<1>12. t[1] = a[1] /\ t[Len(query) + 6] = c[4]
  BY <1>4, <1>7, <1>8
<1> HIDE DEF t
<1> QED
  BY <1>2, <1>3, <1>8, <1>9, <1>10, <1>11, <1>12 DEF t

\* A query is replaced with at least one character.
LEMMA ReplacementType ==
  ASSUME NEW query \in Text, query # <<>>, NEW valid \in BOOLEAN
  PROVE  Replacement(query, valid) \in Text /\ Replacement(query, valid) # <<>>
<1>1. CASE lex_op = "kUniLineN1QL" \/ ~valid
  BY <1>1 DEF Replacement
<1>2. CASE lex_op # "kUniLineN1QL" /\ valid /\ lex_op = "kJsify"
  <2>1. Inserted("query") \in Char
    BY DEF Inserted, Char, OutputSymbols
  <2>2. Replacement(query, valid) = <<Inserted("query")>>
    BY <1>2 DEF Replacement, TranspileQuery
  <2> QED
    BY <2>1, <2>2 DEF Text, Char
<1>3. CASE lex_op # "kUniLineN1QL" /\ valid /\ lex_op # "kJsify"
  <2> DEFINE t == TranspileQuery(query)
  <2>1. t \in Text /\ Len(t) = Len(query) + 6
    BY <1>3, TranspiledShape
  <2>2. Replacement(query, valid) = t
    BY <1>3 DEF Replacement
  <2> HIDE DEF t
  <2>3. Len(query) \in Nat
    BY LenProperties DEF Text
  <2>4. t # <<>>
    BY <2>1, <2>3
  <2> QED
    BY <2>1, <2>2, <2>4
<1> QED
  BY <1>1, <1>2, <1>3

\* What EndQuery makes of js_code when it goes on.
LEMMA ReplacedType ==
  ASSUME TypeOK, NEW query \in Text, query # <<>>, NEW valid \in BOOLEAN
  PROVE  LET replaced == js_code \o Replacement(query, valid)
         IN  /\ replaced \in Text
             /\ replaced # <<>>
<1> DEFINE r == Replacement(query, valid)
<1>1. r \in Text /\ r # <<>> /\ js_code \in Text
  BY ReplacementType DEF TypeOK
<1> HIDE DEF r
<1>2. js_code \o r \in Text /\ js_code \o r # <<>>
  BY <1>1, ConcatProperties, ConcatEqualIffEmpty DEF Text
<1> QED
  BY <1>2 DEF r

-------------------------------------------------------------------------------
LEMMA TypeInit == Init => TypeOK
  BY DEF Init, TypeOK, StartConditions, Text

LEMMA ReadsType ==
  ASSUME TypeOK, NEW sym, Reads(sym)
  PROVE  source' \in Seq(Symbols) /\ sym \in Symbols /\ sym \in SourceSymbols /\ lex_op' = lex_op
  BY LexerAssumption, AppendProperties DEF TypeOK, Reads, LexerAssumption

\* The two conditions are all that a rule that copies a symbol can spoil.
LEMMA CopiesType ==
  ASSUME TypeOK, NEW sym, Copies(sym),
         yystate' \in StartConditions, previous_state' \in StartConditions
  PROVE  TypeOK'
<1>1. Reads(sym)
  BY DEF Copies
<1>2. source' \in Seq(Symbols) /\ sym \in SourceSymbols /\ lex_op' = lex_op
  BY <1>1, ReadsType
<1>3. js_code' \in Text
  BY <1>2, AppendSymbol DEF TypeOK, Copies
<1> QED
  BY <1>2, <1>3 DEF TypeOK, Copies

LEMMA KeywordType ==
  ASSUME TypeOK, Keyword
  PROVE  TypeOK'
<1>1. Reads("keyword")
  BY DEF Keyword
<1>2. source' \in Seq(Symbols) /\ "keyword" \in SourceSymbols /\ lex_op' = lex_op
  BY <1>1, ReadsType
<1>3. n1ql_query' \in Text
  <2>1. source \in Seq(Symbols)
    BY DEF TypeOK
  <2>2. Symbol("keyword") \in Char
    BY <1>2, <2>1, SymbolType
  <2> QED
    BY <2>2 DEF Keyword, Text, Char
<1>4. insertions' \in Seq(Insertion)
  BY UpdatePosType DEF Keyword, TypeOK, Insertion
<1> QED
  BY <1>2, <1>3, <1>4 DEF TypeOK, Keyword, StartConditions, Insertion

LEMMA QueryTextType ==
  ASSUME TypeOK, NEW sym, QueryText(sym)
  PROVE  TypeOK'
<1>1. Reads(sym)
  BY DEF QueryText
<1>2. source' \in Seq(Symbols) /\ sym \in SourceSymbols /\ lex_op' = lex_op
  BY <1>1, ReadsType
<1> DEFINE copied == IF sym = "newline" /\ lex_op # "kCommentN1QL" THEN "other" ELSE sym
<1>3. copied \in SourceSymbols
  BY <1>2 DEF SourceSymbols
<1>4. n1ql_query' = Append(n1ql_query, Symbol(copied))
  BY DEF QueryText
<1> HIDE DEF copied
<1>5. n1ql_query' \in Text
  BY <1>3, <1>4, AppendSymbol DEF TypeOK
<1> QED
  BY <1>2, <1>5 DEF TypeOK, QueryText

LEMMA EndQueryType ==
  ASSUME TypeOK, NEW valid \in BOOLEAN, NEW expression \in BOOLEAN, EndQuery(valid, expression)
  PROVE  TypeOK'
<1> DEFINE query == Append(n1ql_query, Symbol("semicolon"))
           replaced == js_code \o Replacement(query, valid)
<1>1. Reads("semicolon")
  BY DEF EndQuery
<1>2. source' \in Seq(Symbols) /\ "semicolon" \in SourceSymbols /\ lex_op' = lex_op
  BY <1>1, ReadsType
<1>3. query \in Text /\ query # <<>>
  <2>1. query \in Text
    BY <1>2, AppendSymbol DEF TypeOK
  <2>2. Len(query) = Len(n1ql_query) + 1 /\ Len(n1ql_query) \in Nat
    <3>1. Symbol("semicolon") \in Char /\ n1ql_query \in Seq(Char)
      BY <1>2, SymbolType DEF TypeOK, Text, Char
    <3> QED
      BY <3>1, AppendProperties, LenProperties
  <2> HIDE DEF query
  <2>3. query # <<>>
    BY <2>1, <2>2
  <2> QED
    BY <2>1, <2>3
<1>4. n1ql_query' = query /\ yystate' = "INITIAL" /\ previous_state' = previous_state
  BY DEF EndQuery
<1>5. \/ code' = "kN1QLParserError" /\ js_code' = js_code /\ insertions' = insertions
      \/ /\ js_code' = replaced /\ code' = code
         /\ insertions' = insertions \/ insertions' = UpdatePos("kN1QLEnd", replaced)
  BY DEF EndQuery
<1> HIDE DEF query
<1>6. replaced \in Text /\ replaced # <<>>
  BY <1>3, ReplacedType
<1> HIDE DEF replaced
<1>7. insertions' \in Seq(Insertion)
  <2>1. insertions \in Seq(Insertion)
    BY DEF TypeOK, Insertion
  <2>2. UpdatePos("kN1QLEnd", replaced) \in Seq(Insertion)
    BY <1>6, <2>1, UpdatePosType
  <2> QED
    BY <1>5, <2>1, <2>2
<1>8. js_code' \in Text /\ code' \in Errors \cup {"lexing", "kOK"}
  BY <1>5, <1>6 DEF TypeOK, Errors
<1> QED
  BY <1>2, <1>3, <1>4, <1>7, <1>8 DEF TypeOK, StartConditions, Insertion

LEMMA TypeNext == TypeOK /\ [Next]_vars => TypeOK'
<1> SUFFICES ASSUME TypeOK, [Next]_vars
             PROVE  TypeOK'
  OBVIOUS
<1>1. ASSUME NEW op \in LexOps, Call(op)
      PROVE  TypeOK'
  <2>1. op \in AllLexOps
    BY LexerAssumption DEF LexerAssumption
  <2>2. <<>> \in Text /\ <<>> \in Seq(Symbols)
    BY DEF Text
  <2>3. n1ql_query' \in Text /\ previous_state' \in StartConditions /\ yystate' = yystate
    BY <1>1, <2>2 DEF Call, TypeOK
  <2> QED
    BY <1>1, <2>1, <2>2, <2>3 DEF Call, TypeOK
<1>2. ASSUME NEW sym, NEW state \in Comments, StartComment(sym, state)
      PROVE  TypeOK'
  BY <1>2, CopiesType DEF StartComment, TypeOK, StartConditions
<1>3. ASSUME NEW sym, NEW state \in Comments, StopComment(sym, state)
      PROVE  TypeOK'
  BY <1>3, CopiesType DEF StopComment, TypeOK
<1>4. ASSUME NEW sym, NEW state \in Strings, HandleStrStart(sym, state)
      PROVE  TypeOK'
  BY <1>4, CopiesType DEF HandleStrStart, TypeOK, StartConditions
<1>5. ASSUME NEW state \in Strings, HandleStrStop(state)
      PROVE  TypeOK'
  BY <1>5, CopiesType DEF HandleStrStop, TypeOK
<1>6. ASSUME NEW sym \in Symbols, Copy(sym)
      PROVE  TypeOK'
  BY <1>6, CopiesType DEF Copy, TypeOK
<1>7. ASSUME NEW sym \in Symbols, QueryText(sym)
      PROVE  TypeOK'
  BY <1>7, QueryTextType
<1>8. ASSUME Echo
      PROVE  TypeOK'
  BY <1>8, ReadsType DEF Echo, TypeOK
<1>9. ASSUME Keyword
      PROVE  TypeOK'
  BY <1>9, KeywordType
<1>10. ASSUME NEW valid \in BOOLEAN, NEW expression \in BOOLEAN, EndQuery(valid, expression)
       PROVE  TypeOK'
  BY <1>10, EndQueryType
<1>11. ASSUME NEW error \in {"kKeyword", "kKeywordFrom"}, ReservedName(error)
       PROVE  TypeOK'
  BY <1>11 DEF ReservedName, TypeOK, Errors
<1>12. ASSUME EndOfInput
       PROVE  TypeOK'
  BY <1>12 DEF EndOfInput, TypeOK
<1>13. ASSUME UNCHANGED vars
       PROVE  TypeOK'
  BY <1>13 DEF vars, TypeOK
<1>14. "MLCMT" \in Comments /\ "SLCMT" \in Comments /\ "DSTR" \in Strings
  BY DEF Comments, Strings
<1> QED
  BY <1>1, <1>2, <1>3, <1>4, <1>5, <1>6, <1>7, <1>8, <1>9, <1>10, <1>11, <1>12, <1>13, <1>14
     DEF Next

\* The buffers, the positions and the start condition have their types after any calls, in
\* sources of any length and with any features: no insertion has a negative index.
THEOREM TypeCorrect == Spec => []TypeOK
<1> QED
  BY TypeInit, TypeNext, PTL DEF Spec

-------------------------------------------------------------------------------
(***************************************************************************)
(* Whether a quote is escaped.  js_code is a sequence of characters of     *)
(* which n at the end are backslashes.                                     *)
(***************************************************************************)
Trailing(str, n) ==
  /\ n \in 0 .. Len(str)
  /\ \A i \in (Len(str) - n + 1) .. Len(str) : str[i].sym = "backslash"
  /\ n < Len(str) => str[Len(str) - n].sym # "backslash"

LEMMA TrailingUnique ==
  ASSUME NEW str \in Seq(Char), NEW n, Trailing(str, n)
  PROVE  IsEsc(str) <=> n % 2 = 1
<1> DEFINE P(k) == /\ \A i \in (Len(str) - k + 1) .. Len(str) : str[i].sym = "backslash"
                   /\ k < Len(str) => str[Len(str) - k].sym # "backslash"
<1>1. TrailingBackslashes(str) = CHOOSE k \in 0 .. Len(str) : P(k)
  BY DEF TrailingBackslashes
<1>2. n \in 0 .. Len(str) /\ P(n)
  BY DEF Trailing
<1> DEFINE m == CHOOSE k \in 0 .. Len(str) : P(k)
<1>3. m \in 0 .. Len(str) /\ P(m)
  <2> HIDE DEF P
  <2> QED
    BY <1>2
<1>4. TrailingBackslashes(str) = m
  BY <1>1
<1> HIDE DEF m
<1>5. Len(str) \in Nat
  BY LenProperties
<1>6. ~(n < m)
  <2> SUFFICES ASSUME n < m
               PROVE  FALSE
    OBVIOUS
  <2>1. n < Len(str) /\ Len(str) - n \in (Len(str) - m + 1) .. Len(str)
    BY <1>2, <1>3, <1>5
  <2> QED
    BY <1>2, <1>3, <2>1
<1>7. ~(m < n)
  <2> SUFFICES ASSUME m < n
               PROVE  FALSE
    OBVIOUS
  <2>1. m < Len(str) /\ Len(str) - m \in (Len(str) - n + 1) .. Len(str)
    BY <1>2, <1>3, <1>5
  <2> QED
    BY <1>2, <1>3, <2>1
<1>8. n = m
  BY <1>2, <1>3, <1>5, <1>6, <1>7
<1> QED
  BY <1>4, <1>8 DEF IsEsc

\* A backslash escapes what follows unless it is escaped itself.
LEMMA EscapedByBackslash ==
  ASSUME NEW str \in Seq(Char), NEW n, Trailing(str, n), NEW c \in Char, c.sym = "backslash"
  PROVE  /\ Trailing(Append(str, c), n + 1)
         /\ IsEsc(Append(str, c)) <=> ~IsEsc(str)
<1> DEFINE t == Append(str, c)
<1>1. /\ t \in Seq(Char) /\ Len(t) = Len(str) + 1 /\ Len(str) \in Nat
      /\ \A i \in 1 .. Len(str) : t[i] = str[i]
      /\ t[Len(str) + 1] = c
  BY AppendProperties, LenProperties
<1>2. n \in Nat /\ n <= Len(str)
  BY <1>1 DEF Trailing
<1> HIDE DEF t
<1>3. Trailing(t, n + 1)
  <2>1. n + 1 \in 0 .. Len(t)
    BY <1>1, <1>2
  <2>2. ASSUME NEW i \in (Len(t) - (n + 1) + 1) .. Len(t)
        PROVE  t[i].sym = "backslash"
    <3>1. CASE i = Len(str) + 1
      BY <1>1, <3>1
    <3>2. CASE i # Len(str) + 1
      <4>1. i \in (Len(str) - n + 1) .. Len(str) /\ i \in 1 .. Len(str)
        BY <1>1, <1>2, <3>2
      <4> QED
        BY <1>1, <4>1 DEF Trailing
    <3> QED
      BY <3>1, <3>2
  <2>3. ASSUME n + 1 < Len(t)
        PROVE  t[Len(t) - (n + 1)].sym # "backslash"
    <3>1. n < Len(str) /\ Len(t) - (n + 1) = Len(str) - n /\ Len(str) - n \in 1 .. Len(str)
      BY <1>1, <1>2, <2>3
    <3> QED
      BY <1>1, <3>1 DEF Trailing
  <2> QED
    BY <2>1, <2>2, <2>3 DEF Trailing
<1>4. (IsEsc(t) <=> (n + 1) % 2 = 1) /\ (IsEsc(str) <=> n % 2 = 1)
  BY <1>1, <1>3, TrailingUnique
<1>5. (n + 1) % 2 = 1 <=> ~(n % 2 = 1)
  BY <1>2
<1> QED
  BY <1>3, <1>4, <1>5 DEF t

LEMMA NotEscaped ==
  ASSUME NEW str \in Seq(Char), NEW c \in Char, c.sym # "backslash"
  PROVE  Trailing(Append(str, c), 0) /\ ~IsEsc(Append(str, c))
<1> DEFINE t == Append(str, c)
<1>1. t \in Seq(Char) /\ Len(t) = Len(str) + 1 /\ Len(str) \in Nat /\ t[Len(str) + 1] = c
  BY AppendProperties, LenProperties
<1> HIDE DEF t
<1>2. Trailing(t, 0)
  BY <1>1 DEF Trailing
<1>3. ~IsEsc(t)
  BY <1>1, <1>2, TrailingUnique
<1> QED
  BY <1>2, <1>3 DEF t

-------------------------------------------------------------------------------
(***************************************************************************)
(* The lexer is in the condition that the source asks for.  It is so       *)
(* because a call ends in code, a comment or a string returns to code, and *)
(* within a string js_code ends as the string that was read ends.          *)
(***************************************************************************)
WholeSources == Features \cap {"openEnd", "continuation", "regexQuote"} = {}

FollowInv ==
  /\ code # "lexing" => yystate = "INITIAL"
  /\ yystate \in Comments \cup Strings => previous_state = "INITIAL"
  /\ yystate \in Strings => \E n \in Nat : Trailing(js_code, n)

OpenedHandler == Opener[yystate]
EscapedHandler == yystate \in Strings /\ IsEsc(js_code)

LEMMA OpenerValues ==
  /\ Opener["INITIAL"] = "code" /\ Opener["N1QL"] = "keyword"
  /\ Opener["MLCMT"] = "slashStar" /\ Opener["SLCMT"] = "slashSlash"
  /\ \A s \in Strings : Opener[s] = Quote[s] /\ Quote[s] \in Quotes
  /\ Strings \cap Comments = {} /\ "INITIAL" \notin Strings /\ "N1QL" \notin Strings
  /\ "INITIAL" \notin Comments /\ "N1QL" \notin Comments
  BY DEF Opener, Quote, Quotes, Strings, Comments

\* The escaping as it is after a step that adds a character.
LEMMA EscapedNext ==
  ASSUME TypeOK, NEW c \in Char, js_code' = Append(js_code, c)
  PROVE  /\ c.sym # "backslash" => ~EscapedHandler' /\ Trailing(js_code', 0)
         /\ c.sym = "backslash" /\ yystate' \in Strings =>
              \A n \in Nat : Trailing(js_code, n) =>
                 (EscapedHandler' <=> ~IsEsc(js_code)) /\ Trailing(js_code', n + 1)
<1>1. js_code \in Seq(Char)
  BY DEF TypeOK, Text, Char
<1>2. EscapedHandler' <=> yystate' \in Strings /\ IsEsc(js_code')
  BY DEF EscapedHandler
<1> QED
  BY <1>1, <1>2, NotEscaped, EscapedByBackslash

LEMMA EscapedSame ==
  ASSUME js_code' = js_code, yystate' = yystate
  PROVE  (EscapedHandler' <=> EscapedHandler) /\ OpenedHandler' = OpenedHandler
  BY DEF EscapedHandler, OpenedHandler

LEMMA OpenedNext ==
  OpenedHandler' = Opener[yystate']
  BY DEF OpenedHandler

Openers == Quotes \cup {"slashStar", "slashSlash", "keyword"}

\* Reading a symbol, in the terms of the lexer.
LEMMA HandlerReads ==
  ASSUME NEW sym \in SourceSymbols, source' = Append(source, sym),
         \/ /\ OpenedHandler = "code"
            /\ OpenedHandler' = IF sym \in Openers THEN sym ELSE "code"
         \/ /\ OpenedHandler # "code"
            /\ OpenedHandler' = IF Handler!Closes(OpenedHandler, sym, EscapedHandler)
                                THEN "code" ELSE OpenedHandler,
         EscapedHandler' <=> OpenedHandler \in Quotes /\ sym = "backslash" /\ ~EscapedHandler
  PROVE  Handler!SourceNext
<1>1. Handler!Openers = Openers /\ Handler!Quotes = Quotes
  BY DEF Handler!Openers, Handler!Quotes, Openers, Quotes
<1>2. sym \in Handler!AllSymbols
  BY DEF Handler!AllSymbols, Handler!Openers, Handler!Quotes, SourceSymbols, Quotes
<1>3. Handler!ReadSource(sym)
  BY <1>1 DEF Handler!ReadSource, OpenedHandler, EscapedHandler
<1> QED
  BY <1>2, <1>3 DEF Handler!SourceNext

LEMMA CopiesReads ==
  ASSUME TypeOK, NEW sym, Copies(sym)
  PROVE  /\ code = "lexing" /\ code' = code
         /\ sym \in SourceSymbols /\ source' = Append(source, sym)
         /\ Symbol(sym) \in Char /\ Symbol(sym).sym = sym
         /\ js_code' = Append(js_code, Symbol(sym))
<1>1. Reads(sym) /\ code' = code /\ js_code' = Append(js_code, Symbol(sym))
  BY DEF Copies
<1>2. sym \in SourceSymbols
  BY <1>1, ReadsType
<1> QED
  BY <1>1, <1>2, SymbolType DEF Reads, TypeOK

LEMMA FollowStartComment ==
  ASSUME TypeOK, FollowInv, NEW sym, NEW state, StartComment(sym, state),
         <<sym, state>> \in {<<"slashStar", "MLCMT">>, <<"slashSlash", "SLCMT">>}
  PROVE  FollowInv' /\ Handler!SourceNext
<1>1. /\ yystate = "INITIAL" /\ yystate' = state /\ previous_state' = "INITIAL"
      /\ state \in Comments /\ sym \in Openers /\ sym # "backslash"
      /\ Opener[state] = sym
  BY DEF StartComment, Comments, Openers, Opener
<1>2. /\ code' = "lexing" /\ sym \in SourceSymbols /\ source' = Append(source, sym)
  BY CopiesReads DEF StartComment
<1>3. OpenedHandler = "code" /\ OpenedHandler' = sym /\ ~EscapedHandler'
  BY <1>1, OpenerValues DEF OpenedHandler, EscapedHandler
<1>4. FollowInv'
  BY <1>1, <1>2, OpenerValues DEF FollowInv
<1> QED
  BY <1>1, <1>2, <1>3, <1>4, HandlerReads

LEMMA FollowStopComment ==
  ASSUME TypeOK, FollowInv, NEW sym, NEW state, StopComment(sym, state),
         <<sym, state>> \in {<<"starSlash", "MLCMT">>, <<"newline", "SLCMT">>}
  PROVE  FollowInv' /\ Handler!SourceNext
<1>1. /\ yystate = state /\ state \in Comments /\ yystate' = "INITIAL"
      /\ Opener[state] \notin Quotes \cup {"code"} /\ Handler!Closes(Opener[state], sym, FALSE)
  BY DEF StopComment, Comments, Opener, FollowInv, Quotes, Handler!Closes
<1>2. /\ code' = "lexing" /\ sym \in SourceSymbols /\ source' = Append(source, sym)
  BY CopiesReads DEF StopComment
<1>3. OpenedHandler = Opener[state] /\ ~EscapedHandler
  BY <1>1, OpenerValues DEF OpenedHandler, EscapedHandler
<1>4. OpenedHandler' = "code" /\ ~EscapedHandler'
  BY <1>1, OpenerValues DEF OpenedHandler, EscapedHandler
<1>5. FollowInv'
  BY <1>1, <1>2, OpenerValues DEF FollowInv
<1>6. EscapedHandler = FALSE
  BY <1>3 DEF EscapedHandler
<1> QED
  BY <1>1, <1>2, <1>3, <1>4, <1>5, <1>6, HandlerReads

LEMMA FollowStringStart ==
  ASSUME TypeOK, FollowInv, NEW state \in Strings, HandleStrStart(Quote[state], state)
  PROVE  FollowInv' /\ Handler!SourceNext
<1> DEFINE sym == Quote[state]
<1>1. /\ yystate = "INITIAL" /\ yystate' = state /\ previous_state' = "INITIAL"
      /\ sym \in Openers /\ sym # "backslash" /\ Opener[state] = sym
  BY OpenerValues DEF HandleStrStart, Openers, Quotes
<1>2. /\ code' = "lexing" /\ sym \in SourceSymbols /\ source' = Append(source, sym)
      /\ Symbol(sym) \in Char /\ Symbol(sym).sym = sym
      /\ js_code' = Append(js_code, Symbol(sym))
  BY CopiesReads DEF HandleStrStart
<1> HIDE DEF sym
<1>3. ~EscapedHandler' /\ Trailing(js_code', 0)
  BY <1>1, <1>2, EscapedNext
<1>4. OpenedHandler = "code" /\ OpenedHandler' = sym
  BY <1>1, OpenerValues DEF OpenedHandler
<1>5. FollowInv'
  BY <1>1, <1>2, <1>3, OpenerValues DEF FollowInv
<1> QED
  BY <1>1, <1>2, <1>3, <1>4, <1>5, HandlerReads

LEMMA FollowStringStop ==
  ASSUME TypeOK, FollowInv, NEW state \in Strings, HandleStrStop(state)
  PROVE  FollowInv' /\ Handler!SourceNext
<1> DEFINE sym == Quote[state]
<1>1. /\ yystate = state /\ previous_state = "INITIAL" /\ previous_state' = previous_state
      /\ yystate' = IF IsEsc(js_code) THEN yystate ELSE "INITIAL"
      /\ sym \in Quotes /\ sym # "backslash" /\ sym # "code" /\ Opener[state] = sym
  BY OpenerValues DEF HandleStrStop, FollowInv, Quotes
<1>2. /\ code' = "lexing" /\ sym \in SourceSymbols /\ source' = Append(source, sym)
      /\ Symbol(sym) \in Char /\ Symbol(sym).sym = sym
      /\ js_code' = Append(js_code, Symbol(sym))
  BY CopiesReads DEF HandleStrStop
<1> HIDE DEF sym
<1>3. ~EscapedHandler' /\ Trailing(js_code', 0)
  BY <1>1, <1>2, EscapedNext
<1>4. OpenedHandler = sym /\ (EscapedHandler <=> IsEsc(js_code))
  BY <1>1, OpenerValues DEF OpenedHandler, EscapedHandler
<1>5. OpenedHandler' = IF EscapedHandler THEN sym ELSE "code"
  BY <1>1, <1>4, OpenedNext, OpenerValues
<1>6. Handler!Closes(sym, sym, EscapedHandler) <=> ~EscapedHandler
  BY <1>1 DEF Handler!Closes, Handler!Quotes, Quotes
<1>7. FollowInv'
  BY <1>1, <1>2, <1>3, OpenerValues DEF FollowInv
<1> QED
  BY <1>1, <1>2, <1>3, <1>4, <1>5, <1>6, <1>7, HandlerReads

LEMMA FollowCopy ==
  ASSUME TypeOK, FollowInv, NEW sym \in Symbols, Copy(sym)
  PROVE  FollowInv' /\ Handler!SourceNext
<1>1. Plain(sym) /\ yystate' = yystate /\ previous_state' = previous_state
  BY DEF Copy
<1>2. /\ code = "lexing" /\ code' = "lexing" /\ sym \in SourceSymbols
      /\ source' = Append(source, sym)
      /\ Symbol(sym) \in Char /\ Symbol(sym).sym = sym
      /\ js_code' = Append(js_code, Symbol(sym))
  BY CopiesReads DEF Copy
<1>3. OpenedHandler' = OpenedHandler /\ OpenedHandler = Opener[yystate]
  BY <1>1 DEF OpenedHandler
<1>4. CASE yystate = "INITIAL"
  <2>1. sym \notin Openers /\ OpenedHandler = "code" /\ ~EscapedHandler' /\ ~EscapedHandler
    BY <1>1, <1>4, OpenerValues DEF Plain, Openers, Quotes, OpenedHandler, EscapedHandler
  <2>2. FollowInv'
    BY <1>1, <1>2, <1>4, OpenerValues DEF FollowInv
  <2>3. "code" \notin Quotes
    BY DEF Quotes
  <2> QED
    BY <1>2, <1>3, <2>1, <2>2, <2>3, HandlerReads
<1>5. CASE yystate \in Comments
  <2>1. ~EscapedHandler' /\ EscapedHandler = FALSE
    BY <1>1, <1>5, OpenerValues DEF EscapedHandler
  <2>2. OpenedHandler \in {"slashStar", "slashSlash"} /\ ~Handler!Closes(OpenedHandler, sym, FALSE)
    BY <1>1, <1>5, OpenerValues
    DEF Plain, OpenedHandler, Comments, Handler!Closes, Handler!Quotes, Strings
  <2>3. FollowInv'
    BY <1>1, <1>2, <1>5, OpenerValues DEF FollowInv
  <2>4. OpenedHandler # "code" /\ OpenedHandler \notin Quotes
    BY <2>2 DEF Quotes
  <2> QED
    BY <1>2, <1>3, <2>1, <2>2, <2>3, <2>4, HandlerReads
<1>6. CASE yystate \in Strings
  <2>1. /\ OpenedHandler = Quote[yystate] /\ OpenedHandler \in Quotes /\ sym # OpenedHandler
        /\ EscapedHandler <=> IsEsc(js_code)
    BY <1>1, <1>6, OpenerValues DEF Plain, OpenedHandler, EscapedHandler
  <2>2. ~Handler!Closes(OpenedHandler, sym, EscapedHandler)
    BY <2>1 DEF Handler!Closes, Handler!Quotes, Quotes
  <2>3. PICK n \in Nat : Trailing(js_code, n)
    BY <1>6 DEF FollowInv
  <2>4. yystate' \in Strings
    BY <1>1, <1>6
  <2>5. /\ EscapedHandler' <=> sym = "backslash" /\ ~EscapedHandler
        /\ \E k \in Nat : Trailing(js_code', k)
    <3>1. CASE sym = "backslash"
      <4>1. (EscapedHandler' <=> ~IsEsc(js_code)) /\ Trailing(js_code', n + 1)
        BY <1>2, <2>3, <2>4, <3>1, EscapedNext
      <4>2. n + 1 \in Nat
        BY <2>3
      <4> QED
        BY <2>1, <3>1, <4>1, <4>2
    <3>2. CASE sym # "backslash"
      BY <1>2, <3>2, EscapedNext
    <3> QED
      BY <3>1, <3>2
  <2>6. FollowInv'
    BY <1>1, <1>2, <1>6, <2>5, OpenerValues DEF FollowInv
  <2>7. OpenedHandler # "code"
    BY <2>1 DEF Quotes
  <2> QED
    BY <1>2, <1>3, <2>1, <2>2, <2>5, <2>6, <2>7, HandlerReads
<1> QED
  BY <1>1, <1>4, <1>5, <1>6 DEF Plain, Comments

LEMMA FollowEcho ==
  ASSUME TypeOK, FollowInv, WholeSources, Echo
  PROVE  FollowInv' /\ Handler!SourceNext
<1>1. /\ yystate \in Strings /\ yystate' = yystate /\ js_code' = js_code /\ code' = code
      /\ previous_state' = previous_state /\ ~IsEsc(js_code)
  BY DEF Echo, WholeSources
<1>2. source' = Append(source, "newline") /\ code = "lexing" /\ "newline" \in SourceSymbols
  BY ReadsType DEF Echo, Reads
<1>3. OpenedHandler = Quote[yystate] /\ OpenedHandler' = OpenedHandler /\ ~EscapedHandler
  BY <1>1, OpenerValues DEF OpenedHandler, EscapedHandler
<1>4. ~EscapedHandler'
  BY <1>1, <1>3, EscapedSame
<1>5. OpenedHandler \in Quotes /\ OpenedHandler # "code" /\ OpenedHandler # "newline"
  BY <1>1, <1>3, OpenerValues DEF Quotes
<1>6. ~Handler!Closes(OpenedHandler, "newline", EscapedHandler)
  BY <1>5 DEF Handler!Closes, Handler!Quotes, Quotes
<1>7. FollowInv'
  BY <1>1 DEF FollowInv
<1> QED
  BY <1>2, <1>3, <1>4, <1>5, <1>6, <1>7, HandlerReads

LEMMA FollowKeyword ==
  ASSUME TypeOK, FollowInv, Keyword
  PROVE  FollowInv' /\ Handler!SourceNext
<1>1. yystate = "INITIAL" /\ yystate' = "N1QL" /\ code' = code
  BY DEF Keyword
<1>2. source' = Append(source, "keyword") /\ code = "lexing" /\ "keyword" \in SourceSymbols
  BY ReadsType DEF Keyword, Reads
<1>3. OpenedHandler = "code" /\ OpenedHandler' = "keyword" /\ ~EscapedHandler'
  BY <1>1, OpenerValues DEF OpenedHandler, EscapedHandler
<1>4. FollowInv'
  BY <1>1, <1>2, OpenerValues DEF FollowInv
<1>5. "keyword" \in Openers
  BY DEF Openers
<1> QED
  BY <1>2, <1>3, <1>4, <1>5, HandlerReads

LEMMA InQuery ==
  ASSUME yystate = "N1QL"
  PROVE  /\ OpenedHandler = "keyword" /\ OpenedHandler # "code" /\ OpenedHandler \notin Quotes
         /\ EscapedHandler = FALSE
         /\ \A sym : Handler!Closes(OpenedHandler, sym, EscapedHandler) <=> sym = "semicolon"
<1>1. OpenedHandler = "keyword" /\ EscapedHandler = FALSE
  BY OpenerValues DEF OpenedHandler, EscapedHandler
<1>2. \A sym : Handler!Closes("keyword", sym, FALSE) <=> sym = "semicolon"
  BY DEF Handler!Closes, Handler!Quotes
<1> QED
  BY <1>1, <1>2 DEF Quotes

LEMMA FollowQueryText ==
  ASSUME TypeOK, FollowInv, NEW sym, QueryText(sym)
  PROVE  FollowInv' /\ Handler!SourceNext
<1>1. yystate = "N1QL" /\ yystate' = "N1QL" /\ code' = code /\ sym # "semicolon"
  BY DEF QueryText
<1>2. source' = Append(source, sym) /\ code = "lexing" /\ sym \in SourceSymbols
  BY ReadsType DEF QueryText, Reads
<1>3. OpenedHandler' = OpenedHandler /\ ~EscapedHandler'
  BY <1>1, OpenerValues DEF OpenedHandler, EscapedHandler
<1>4. FollowInv'
  BY <1>1, <1>2, OpenerValues DEF FollowInv
<1> QED
  BY <1>1, <1>2, <1>3, <1>4, InQuery, HandlerReads

LEMMA FollowEndQuery ==
  ASSUME TypeOK, FollowInv, NEW valid, NEW expression, EndQuery(valid, expression)
  PROVE  FollowInv' /\ Handler!SourceNext
<1>1. yystate = "N1QL" /\ yystate' = "INITIAL"
  BY DEF EndQuery
<1>2. source' = Append(source, "semicolon") /\ "semicolon" \in SourceSymbols
  BY ReadsType DEF EndQuery, Reads
<1>3. OpenedHandler' = "code" /\ ~EscapedHandler'
  BY <1>1, OpenerValues DEF OpenedHandler, EscapedHandler
<1>4. FollowInv'
  BY <1>1, OpenerValues DEF FollowInv
<1> QED
  BY <1>1, <1>2, <1>3, <1>4, InQuery, HandlerReads

\* A call starts where the one before ended, which is in code.
LEMMA FollowCall ==
  ASSUME TypeOK, FollowInv, NEW op, Call(op)
  PROVE  FollowInv' /\ Handler!SourceNext
<1>1. yystate = "INITIAL" /\ yystate' = yystate /\ source' = <<>>
  BY DEF Call, FollowInv
<1>2. OpenedHandler' = "code" /\ EscapedHandler' = FALSE
  BY <1>1, OpenerValues DEF OpenedHandler, EscapedHandler
<1>3. Handler!NewSource
  BY <1>1, <1>2 DEF Handler!NewSource, OpenedHandler, EscapedHandler
<1>4. FollowInv'
  BY <1>1, OpenerValues DEF FollowInv
<1> QED
  BY <1>3, <1>4 DEF Handler!SourceNext

LEMMA FollowNothing ==
  ASSUME FollowInv, code' = code \/ yystate = "INITIAL",
         UNCHANGED <<yystate, previous_state, js_code, source>>
  PROVE  FollowInv' /\ UNCHANGED Handler!sourceVars
  BY DEF FollowInv, Handler!sourceVars

LEMMA FollowNext ==
  ASSUME WholeSources, TypeOK, FollowInv, [Next]_vars
  PROVE  FollowInv' /\ [Handler!SourceNext]_(Handler!sourceVars)
<1>1. ASSUME NEW error, ReservedName(error)
      PROVE  FollowInv' /\ UNCHANGED Handler!sourceVars
  BY <1>1, FollowNothing DEF ReservedName
<1>2. ASSUME EndOfInput
      PROVE  FollowInv' /\ UNCHANGED Handler!sourceVars
  BY <1>2, FollowNothing DEF EndOfInput, WholeSources
<1>3. ASSUME UNCHANGED vars
      PROVE  FollowInv' /\ UNCHANGED Handler!sourceVars
  BY <1>3, FollowNothing DEF vars
<1>4. ASSUME NEW state \in Strings, NEW quote, Begins(quote, state), HandleStrStart(quote, state)
      PROVE  FollowInv' /\ Handler!SourceNext
  <2>1. quote = Quote[state]
    BY <1>4 DEF Begins, WholeSources
  <2> QED
    BY <1>4, <2>1, FollowStringStart
<1> QED
  BY <1>1, <1>2, <1>3, <1>4, FollowCall, FollowStartComment, FollowStopComment,
     FollowStringStop, FollowCopy, FollowQueryText, FollowEcho, FollowKeyword, FollowEndQuery
  DEF Next

\* In sources that are whole and have neither continued strings nor quotes in regular
\* expressions, the lexer sees code, comments, strings and queries where they are, in every
\* call and in sources of any length.  None of the three can be left out.
THEOREM SourceIsFollowed ==
  ASSUME Features \cap {"openEnd", "continuation", "regexQuote"} = {}
  PROVE  Spec => FollowsSource
<1>0. WholeSources
  BY DEF WholeSources
<1>1. Init => FollowInv /\ Handler!SourceInit
  BY OpenerValues DEF Init, FollowInv, Handler!SourceInit
<1>2. TypeOK /\ FollowInv /\ [Next]_vars => FollowInv' /\ [Handler!SourceNext]_(Handler!sourceVars)
  BY <1>0, FollowNext
<1> QED
  BY <1>1, <1>2, TypeCorrect, PTL DEF Spec, FollowsSource, Handler!SourceSpec

-------------------------------------------------------------------------------
(***************************************************************************)
(* What comes out.  Ordered and Covers say it of a text whose source has n *)
(* symbols; a symbol that is copied keeps both, and so does the comment    *)
(* that takes the place of a query.                                        *)
(***************************************************************************)
Ordered(text, n) ==
  /\ \A i \in 1 .. Len(text) : text[i].at <= n
  /\ \A i, j \in 1 .. Len(text) :
        i < j /\ text[i].at # 0 /\ text[j].at # 0 => text[i].at < text[j].at

Covers(text, read, lines) ==
  \A n \in 1 .. Len(read) : \E i \in 1 .. Len(text) :
     text[i].at = n /\ (lines => (text[i].sym = "newline" <=> read[n] = "newline"))

LEMMA OrderedAppend ==
  ASSUME NEW text \in Seq(Char), NEW n \in Nat, Ordered(text, n), NEW c \in Char, c.at = n + 1
  PROVE  Ordered(Append(text, c), n + 1)
<1> DEFINE t == Append(text, c)
<1>1. /\ Len(t) = Len(text) + 1 /\ Len(text) \in Nat /\ t[Len(text) + 1] = c
      /\ \A i \in 1 .. Len(text) : t[i] = text[i] /\ text[i] \in Char
  BY AppendProperties, LenProperties, ElementOfSeq
<1> HIDE DEF t
<1>2. \A i \in 1 .. Len(text) : t[i].at \in Nat /\ t[i].at <= n
  BY <1>1 DEF Ordered, Char
<1>3. \A i \in 1 .. Len(t) : t[i].at <= n + 1
  <2> TAKE i \in 1 .. Len(t)
  <2>1. i \in 1 .. Len(text) \/ i = Len(text) + 1
    BY <1>1
  <2> QED
    BY <1>1, <1>2, <2>1
<1>4. ASSUME NEW i \in 1 .. Len(t), NEW j \in 1 .. Len(t), i < j, t[i].at # 0, t[j].at # 0
      PROVE  t[i].at < t[j].at
  <2>1. i \in 1 .. Len(text) /\ (j \in 1 .. Len(text) \/ j = Len(text) + 1)
    BY <1>1, <1>4
  <2>2. CASE j \in 1 .. Len(text)
    BY <1>1, <1>4, <2>1, <2>2 DEF Ordered
  <2>3. CASE j = Len(text) + 1
    BY <1>1, <1>2, <2>1, <2>3
  <2> QED
    BY <2>1, <2>2, <2>3
<1>5. Ordered(t, n + 1)
  BY <1>3, <1>4 DEF Ordered
<1> QED
  BY <1>5 DEF t

LEMMA CoversAppend ==
  ASSUME NEW text \in Seq(Char), NEW read \in Seq(Symbols), NEW lines \in BOOLEAN,
         Covers(text, read, lines),
         NEW c \in Char, NEW sym \in Symbols, c.at = Len(read) + 1,
         lines => (c.sym = "newline" <=> sym = "newline")
  PROVE  Covers(Append(text, c), Append(read, sym), lines)
<1> DEFINE t == Append(text, c)
           r == Append(read, sym)
<1>1. /\ Len(t) = Len(text) + 1 /\ Len(text) \in Nat /\ t[Len(text) + 1] = c
      /\ \A i \in 1 .. Len(text) : t[i] = text[i]
  BY AppendProperties, LenProperties
<1>2. /\ Len(r) = Len(read) + 1 /\ Len(read) \in Nat /\ r[Len(read) + 1] = sym
      /\ \A n \in 1 .. Len(read) : r[n] = read[n]
  BY AppendProperties, LenProperties
<1> HIDE DEF t, r
<1>3. ASSUME NEW n \in 1 .. Len(r)
      PROVE  \E i \in 1 .. Len(t) :
                t[i].at = n /\ (lines => (t[i].sym = "newline" <=> r[n] = "newline"))
  <2>1. CASE n \in 1 .. Len(read)
    <3>1. PICK i \in 1 .. Len(text) :
             text[i].at = n /\ (lines => (text[i].sym = "newline" <=> read[n] = "newline"))
      BY <2>1 DEF Covers
    <3>2. i \in 1 .. Len(t)
      BY <1>1
    <3> QED
      BY <1>1, <1>2, <2>1, <3>1, <3>2
  <2>2. CASE n = Len(read) + 1
    <3>1. Len(text) + 1 \in 1 .. Len(t)
      BY <1>1
    <3> QED
      BY <1>1, <1>2, <2>2, <3>1
  <2> QED
    BY <1>2, <2>1, <2>2
<1>4. Covers(t, r, lines)
  BY <1>3 DEF Covers
<1> QED
  BY <1>4 DEF t, r

LEMMA OrderedPrefix ==
  ASSUME NEW s \in Seq(Char), NEW t \in Seq(Char), NEW n \in Nat, Ordered(s \o t, n)
  PROVE  Ordered(s, n)
<1>1. /\ Len(s \o t) = Len(s) + Len(t) /\ Len(s) \in Nat /\ Len(t) \in Nat
      /\ \A i \in 1 .. Len(s) + Len(t) : (s \o t)[i] = IF i <= Len(s) THEN s[i] ELSE t[i - Len(s)]
  BY ConcatProperties, LenProperties
<1>2. \A i \in 1 .. Len(s) : i \in 1 .. Len(s \o t) /\ (s \o t)[i] = s[i]
  BY <1>1
<1> QED
  BY <1>2 DEF Ordered

\* A comment t in the place of a query q: its inner symbols stand where those of the query
\* do, the others stand for nothing.
IsCommentOf(t, q) ==
  /\ t \in Seq(Char) /\ q \in Seq(Char) /\ Len(t) = Len(q) + 6
  /\ \A k \in 1 .. Len(q) : /\ t[k + 2].at = q[k].at
                            /\ t[k + 2].sym = "newline" <=> q[k].sym = "newline"
  /\ \A k \in 1 .. Len(q) + 6 :
        k <= 2 \/ k > Len(q) + 2 => t[k].at = 0 /\ t[k].sym # "newline"
  /\ t[1] = Inserted("slash") /\ t[Len(q) + 6] = Inserted("semicolon")

LEMMA OrderedComment ==
  ASSUME NEW s \in Seq(Char), NEW q, NEW t, IsCommentOf(t, q), NEW n \in Nat, Ordered(s \o q, n)
  PROVE  Ordered(s \o t, n)
<1>1. t \in Seq(Char) /\ q \in Seq(Char) /\ Len(t) = Len(q) + 6
  BY DEF IsCommentOf
<1>2. /\ Len(s \o q) = Len(s) + Len(q) /\ Len(s) \in Nat /\ Len(q) \in Nat
      /\ \A i \in 1 .. Len(s) + Len(q) : (s \o q)[i] = IF i <= Len(s) THEN s[i] ELSE q[i - Len(s)]
  BY <1>1, ConcatProperties, LenProperties
<1>3. /\ Len(s \o t) = Len(s) + Len(q) + 6
      /\ \A i \in 1 .. Len(s) + Len(q) + 6 :
            (s \o t)[i] = IF i <= Len(s) THEN s[i] ELSE t[i - Len(s)]
  <2>1. /\ Len(s \o t) = Len(s) + Len(t)
        /\ \A i \in 1 .. Len(s) + Len(t) : (s \o t)[i] = IF i <= Len(s) THEN s[i] ELSE t[i - Len(s)]
    BY <1>1, ConcatProperties
  <2>2. Len(s) + Len(t) = Len(s) + Len(q) + 6
    BY <1>1, <1>2
  <2> QED
    BY <2>1, <2>2
<1> DEFINE f(i) == IF i <= Len(s) THEN i ELSE i - 2
<1>4. ASSUME NEW i \in 1 .. Len(s) + Len(q) + 6, (s \o t)[i].at # 0
      PROVE  /\ f(i) \in 1 .. Len(s) + Len(q) /\ (s \o q)[f(i)].at = (s \o t)[i].at
             /\ i > Len(s) => i > Len(s) + 2
  <2>1. CASE i <= Len(s)
    BY <1>2, <1>3, <2>1
  <2>2. CASE i > Len(s)
    <3> DEFINE k == i - Len(s)
    <3>1. k \in 1 .. Len(q) + 6 /\ (s \o t)[i] = t[k]
      BY <1>2, <1>3, <2>2
    <3>2. ~(k <= 2 \/ k > Len(q) + 2)
      BY <1>4, <3>1 DEF IsCommentOf
    <3>3. k - 2 \in 1 .. Len(q) /\ k - 2 + 2 = k
      BY <1>2, <3>1, <3>2
    <3>4. t[k].at = q[k - 2].at
      BY <3>3 DEF IsCommentOf
    <3>5. /\ f(i) \in 1 .. Len(s) + Len(q) /\ ~(f(i) <= Len(s)) /\ f(i) - Len(s) = k - 2
          /\ i > Len(s) + 2
      BY <1>2, <2>2, <3>2, <3>3
    <3> QED
      BY <1>2, <3>1, <3>4, <3>5
  <2>3. i <= Len(s) \/ i > Len(s)
    BY <1>2
  <2> HIDE DEF f
  <2> QED
    BY <2>1, <2>2, <2>3
<1>5. ASSUME NEW i \in 1 .. Len(s) + Len(q) + 6
      PROVE  (s \o t)[i].at <= n
  <2>1. CASE (s \o t)[i].at = 0
    BY <2>1
  <2>2. CASE (s \o t)[i].at # 0
    <3> HIDE DEF f
    <3> QED
      BY <1>2, <1>4, <2>2 DEF Ordered
  <2> QED
    BY <2>1, <2>2
<1>6. ASSUME NEW i \in 1 .. Len(s) + Len(q) + 6, NEW j \in 1 .. Len(s) + Len(q) + 6,
             i < j, (s \o t)[i].at # 0, (s \o t)[j].at # 0
      PROVE  (s \o t)[i].at < (s \o t)[j].at
  <2>0. (i > Len(s) => i > Len(s) + 2) /\ (j > Len(s) => j > Len(s) + 2)
    <3> HIDE DEF f
    <3> QED
      BY <1>4, <1>6
  <2>1. f(i) < f(j)
    BY <1>2, <1>6, <2>0
  <2> HIDE DEF f
  <2>2. (s \o q)[f(i)].at < (s \o q)[f(j)].at
    BY <1>2, <1>4, <1>6, <2>1 DEF Ordered
  <2> QED
    BY <1>4, <1>6, <2>2
<1> QED
  BY <1>3, <1>5, <1>6 DEF Ordered

LEMMA CoversComment ==
  ASSUME NEW s \in Seq(Char), NEW q, NEW t, IsCommentOf(t, q), NEW read,
         NEW lines \in BOOLEAN, Covers(s \o q, read, lines)
  PROVE  Covers(s \o t, read, lines)
<1>1. t \in Seq(Char) /\ q \in Seq(Char) /\ Len(t) = Len(q) + 6
  BY DEF IsCommentOf
<1>2. /\ Len(s \o q) = Len(s) + Len(q) /\ Len(s) \in Nat /\ Len(q) \in Nat
      /\ \A i \in 1 .. Len(s) + Len(q) : (s \o q)[i] = IF i <= Len(s) THEN s[i] ELSE q[i - Len(s)]
  BY <1>1, ConcatProperties, LenProperties
<1>3. /\ Len(s \o t) = Len(s) + Len(t)
      /\ \A i \in 1 .. Len(s) + Len(t) : (s \o t)[i] = IF i <= Len(s) THEN s[i] ELSE t[i - Len(s)]
  BY <1>1, ConcatProperties
<1>4. ASSUME NEW n \in 1 .. Len(read)
      PROVE  \E i \in 1 .. Len(s \o t) :
                /\ (s \o t)[i].at = n
                /\ lines => ((s \o t)[i].sym = "newline" <=> read[n] = "newline")
  <2>1. PICK i \in 1 .. Len(s) + Len(q) :
           /\ (s \o q)[i].at = n
           /\ lines => ((s \o q)[i].sym = "newline" <=> read[n] = "newline")
    BY <1>2 DEF Covers
  <2>2. CASE i <= Len(s)
    <3>1. i \in 1 .. Len(s \o t) /\ (s \o t)[i] = s[i] /\ (s \o q)[i] = s[i]
      BY <1>1, <1>2, <1>3, <2>2
    <3> QED
      BY <2>1, <3>1
  <2>3. CASE i > Len(s)
    <3> DEFINE k == i - Len(s)
    <3>1. k \in 1 .. Len(q) /\ (s \o q)[i] = q[k]
      BY <1>2, <2>3
    <3>2. t[k + 2].at = q[k].at /\ (t[k + 2].sym = "newline" <=> q[k].sym = "newline")
      BY <3>1 DEF IsCommentOf
    <3>3. /\ i + 2 \in 1 .. Len(s \o t) /\ i + 2 \in 1 .. Len(s) + Len(t)
          /\ ~(i + 2 <= Len(s)) /\ i + 2 - Len(s) = k + 2
      BY <1>1, <1>2, <1>3, <2>3
    <3>4. (s \o t)[i + 2] = t[k + 2]
      BY <1>3, <3>3
    <3> QED
      BY <2>1, <3>1, <3>2, <3>3, <3>4
  <2> QED
    BY <1>2, <2>2, <2>3
<1> QED
  BY <1>4 DEF Covers

LEMMA OrderedInserted ==
  ASSUME NEW text \in Seq(Char), NEW n \in Nat, Ordered(text, n), NEW c \in Char, c.at = 0
  PROVE  Ordered(Append(text, c), n)
<1> DEFINE t == Append(text, c)
<1>1. /\ Len(t) = Len(text) + 1 /\ Len(text) \in Nat /\ t[Len(text) + 1] = c
      /\ \A i \in 1 .. Len(text) : t[i] = text[i]
  BY AppendProperties, LenProperties
<1> HIDE DEF t
<1>2. \A i \in 1 .. Len(t) : i \in 1 .. Len(text) \/ t[i].at = 0
  BY <1>1
<1>3. Ordered(t, n)
  BY <1>1, <1>2 DEF Ordered
<1> QED
  BY <1>3 DEF t

\* No string or comment is entered from within a query.
ReturnsToCode == yystate \in Comments \cup Strings => previous_state # "N1QL"

\* A symbol is copied to the output.
Grows(sym, c) ==
  /\ sym \in Symbols /\ c \in Char /\ c.at = Len(source) + 1
  /\ lex_op = "kCommentN1QL" => (c.sym = "newline" <=> sym = "newline")
  /\ source' = Append(source, sym) /\ Output' = Append(Output, c)
  /\ code = "lexing" /\ code' = code /\ lex_op' = lex_op

LEMMA OutputType ==
  ASSUME TypeOK
  PROVE  /\ Output \in Seq(Char) /\ js_code \in Seq(Char) /\ n1ql_query \in Seq(Char)
         /\ yystate # "N1QL" => Output = js_code
         /\ yystate = "N1QL" => Output = js_code \o n1ql_query
<1>1. js_code \in Seq(Char) /\ n1ql_query \in Seq(Char)
  BY DEF TypeOK, Text, Char
<1>2. js_code \o <<>> = js_code
  BY <1>1, ConcatEmptySeq
<1>3. js_code \o n1ql_query \in Seq(Char)
  BY <1>1, ConcatProperties
<1> QED
  BY <1>1, <1>2, <1>3 DEF Output

LEMMA OutputTypeNext ==
  ASSUME TypeOK'
  PROVE  /\ yystate' # "N1QL" => Output' = js_code'
         /\ yystate' = "N1QL" => Output' = js_code' \o n1ql_query'
<1>1. js_code' \in Seq(Char)
  BY DEF TypeOK, Text, Char
<1>2. js_code' \o <<>> = js_code'
  BY <1>1, ConcatEmptySeq
<1> QED
  BY <1>2 DEF Output

LEMMA CopiesGrow ==
  ASSUME TypeOK, TypeOK', NEW sym, Copies(sym), yystate # "N1QL", yystate' # "N1QL"
  PROVE  Grows(sym, Symbol(sym))
<1>1. Output = js_code /\ Output' = js_code'
  BY OutputType, OutputTypeNext
<1>2. sym \in Symbols /\ Symbol(sym).at = Len(source) + 1
  BY CopiesReads, SymbolType, ReadsType DEF Copies, TypeOK
<1> QED
  BY <1>1, <1>2, CopiesReads DEF Grows, Copies, Reads

LEMMA KeywordGrows ==
  ASSUME TypeOK, TypeOK', Keyword
  PROVE  Grows("keyword", Symbol("keyword"))
<1>1. /\ yystate # "N1QL" /\ yystate' = "N1QL" /\ js_code' = js_code
      /\ n1ql_query' = <<Symbol("keyword")>> /\ Reads("keyword") /\ code' = code
  BY DEF Keyword
<1>2. "keyword" \in Symbols /\ "keyword" \in SourceSymbols
  BY <1>1, ReadsType
<1>3. /\ Symbol("keyword") \in Char /\ Symbol("keyword").at = Len(source) + 1
      /\ Symbol("keyword").sym = "keyword"
  BY <1>2, SymbolType DEF TypeOK
<1>4. Output = js_code /\ Output' = js_code \o <<Symbol("keyword")>>
  BY <1>1, OutputType, OutputTypeNext
<1>5. Output' = Append(Output, Symbol("keyword"))
  BY <1>3, <1>4, OutputType, AppendIsConcat
<1> QED
  BY <1>1, <1>2, <1>3, <1>5 DEF Grows, Reads

LEMMA QueryTextGrows ==
  ASSUME TypeOK, TypeOK', NEW sym, QueryText(sym)
  PROVE  \E c : Grows(sym, c)
<1> DEFINE copied == IF sym = "newline" /\ lex_op # "kCommentN1QL" THEN "other" ELSE sym
           c == Symbol(copied)
<1>1. /\ yystate = "N1QL" /\ yystate' = "N1QL" /\ js_code' = js_code
      /\ n1ql_query' = Append(n1ql_query, c) /\ Reads(sym) /\ code' = code
  BY DEF QueryText
<1>2. sym \in Symbols /\ sym \in SourceSymbols
  BY <1>1, ReadsType
<1>3. copied \in SourceSymbols /\ (lex_op = "kCommentN1QL" => copied = sym)
  BY <1>2 DEF SourceSymbols
<1> HIDE DEF copied
<1>4. c \in Char /\ c.at = Len(source) + 1 /\ c.sym = copied
  BY <1>3, SymbolType DEF TypeOK
<1> HIDE DEF c
<1>5. Output' = Append(Output, c)
  <2>1. Output = js_code \o n1ql_query /\ Output' = js_code \o Append(n1ql_query, c)
    BY <1>1, OutputType, OutputTypeNext
  <2> QED
    BY <1>4, <2>1, OutputType, AppendToSecond
<1>6. Grows(sym, c)
  BY <1>1, <1>2, <1>3, <1>4, <1>5 DEF Grows, Reads
<1> QED
  BY <1>6

\* The end of a query: text is what the output would be without the replacement.
LEMMA EndQueryOutput ==
  ASSUME TypeOK, TypeOK', NEW valid \in BOOLEAN, NEW expression \in BOOLEAN,
         EndQuery(valid, expression)
  PROVE  \E query \in Seq(Char), c \in Char :
            /\ js_code \o query = Append(Output, c)
            /\ c.at = Len(source) + 1 /\ c.sym = "semicolon" /\ "semicolon" \in Symbols
            /\ source' = Append(source, "semicolon") /\ lex_op' = lex_op
            /\ \/ code' = "kN1QLParserError" /\ Output' = js_code
               \/ code' = code /\ Output' = js_code \o query
               \/ /\ code' = code /\ lex_op = "kJsify"
                  /\ Output' = Append(js_code, Inserted("query"))
               \/ /\ code' = code
                  /\ \E t : IsCommentOf(t, query) /\ Output' = js_code \o t
<1> DEFINE c == Symbol("semicolon")
           query == Append(n1ql_query, c)
<1>1. Reads("semicolon") /\ yystate = "N1QL" /\ yystate' = "INITIAL"
  BY DEF EndQuery
<1>2. "semicolon" \in Symbols /\ "semicolon" \in SourceSymbols
  BY <1>1, ReadsType
<1>3. c \in Char /\ c.at = Len(source) + 1 /\ c.sym = "semicolon"
  BY <1>2, SymbolType DEF TypeOK
<1>4. \/ code' = "kN1QLParserError" /\ js_code' = js_code
      \/ code' = code /\ js_code' = js_code \o Replacement(query, valid)
  BY DEF EndQuery
<1> HIDE DEF c
<1>5. query \in Seq(Char)
  BY <1>3, OutputType, AppendProperties
<1>6. js_code \o query = Append(Output, c)
  <2>1. Output = js_code \o n1ql_query /\ js_code \in Seq(Char) /\ n1ql_query \in Seq(Char)
    BY <1>1, OutputType
  <2>2. js_code \o Append(n1ql_query, c) = Append(js_code \o n1ql_query, c)
    BY <1>3, <2>1, AppendToSecond
  <2> QED
    BY <2>1, <2>2
<1> HIDE DEF query
<1>7. Output' = js_code'
  BY <1>1, OutputTypeNext
<1>8. \/ Replacement(query, valid) = query
      \/ lex_op = "kJsify" /\ Replacement(query, valid) = <<Inserted("query")>>
      \/ IsCommentOf(Replacement(query, valid), query)
  <2>1. CASE lex_op = "kUniLineN1QL" \/ ~valid
    BY <2>1 DEF Replacement
  <2>2. CASE lex_op # "kUniLineN1QL" /\ valid /\ lex_op = "kJsify"
    BY <2>2 DEF Replacement, TranspileQuery
  <2>3. CASE lex_op # "kUniLineN1QL" /\ valid /\ lex_op # "kJsify"
    <3>1. Replacement(query, valid) = TranspileQuery(query)
      BY <2>3 DEF Replacement
    <3>2. query \in Text /\ Text = Seq(Char)
      BY <1>5 DEF Text, Char
    <3>3. IsCommentOf(TranspileQuery(query), query)
      BY <1>5, <2>3, <3>2, TranspiledShape DEF IsCommentOf
    <3> QED
      BY <3>1, <3>3
  <2> QED
    BY <2>1, <2>2, <2>3
<1>9. Append(js_code, Inserted("query")) = js_code \o <<Inserted("query")>>
  <2>1. Inserted("query") \in Char
    BY DEF Inserted, Char, OutputSymbols
  <2> QED
    BY <2>1, OutputType, AppendIsConcat
<1> QED
  BY <1>1, <1>2, <1>3, <1>4, <1>5, <1>6, <1>7, <1>8, <1>9 DEF Reads

\* What a step does to the output.
LEMMA OutputNext ==
  ASSUME TypeOK, TypeOK', ReturnsToCode, [Next]_vars
  PROVE  /\ ReturnsToCode'
         /\ \/ \E op : Call(op)
            \/ \E sym, c : Grows(sym, c)
            \/ Echo
            \/ \E valid, expression \in BOOLEAN : EndQuery(valid, expression)
            \/ UNCHANGED <<Output, source, lex_op, code>>
            \/ UNCHANGED <<Output, source, lex_op>> /\ code = "lexing"
<1> DEFINE Goal == ReturnsToCode' /\ \E sym, c : Grows(sym, c)
<1>1. ASSUME NEW sym, NEW state \in Comments, StartComment(sym, state)
      PROVE  Goal
  <2>1. yystate = "INITIAL" /\ previous_state' = "INITIAL" /\ yystate' = state /\ Copies(sym)
    BY <1>1 DEF StartComment
  <2> QED
    BY <2>1, CopiesGrow, OpenerValues DEF ReturnsToCode
<1>2. ASSUME NEW sym, NEW state \in Comments, StopComment(sym, state)
      PROVE  Goal
  <2>1. /\ yystate = state /\ previous_state' = previous_state /\ yystate' = previous_state
        /\ previous_state # "N1QL" /\ Copies(sym)
    BY <1>2 DEF StopComment, ReturnsToCode
  <2> QED
    BY <2>1, CopiesGrow, OpenerValues DEF ReturnsToCode
<1>3. ASSUME NEW sym, NEW state \in Strings, HandleStrStart(sym, state)
      PROVE  Goal
  <2>1. yystate = "INITIAL" /\ previous_state' = "INITIAL" /\ yystate' = state /\ Copies(sym)
    BY <1>3 DEF HandleStrStart
  <2> QED
    BY <2>1, CopiesGrow, OpenerValues DEF ReturnsToCode
<1>4. ASSUME NEW state \in Strings, HandleStrStop(state)
      PROVE  Goal
  <2>1. /\ yystate = state /\ previous_state' = previous_state /\ previous_state # "N1QL"
        /\ yystate' = yystate \/ yystate' = previous_state
        /\ Copies(Quote[state])
    BY <1>4 DEF HandleStrStop, ReturnsToCode
  <2> QED
    BY <2>1, CopiesGrow, OpenerValues DEF ReturnsToCode
<1>5. ASSUME NEW sym \in Symbols, Copy(sym)
      PROVE  Goal
  <2>1. yystate' = yystate /\ previous_state' = previous_state /\ Copies(sym) /\ yystate # "N1QL"
    BY <1>5, OpenerValues DEF Copy, Plain
  <2> QED
    BY <2>1, CopiesGrow DEF ReturnsToCode
<1>6. ASSUME NEW sym \in Symbols, QueryText(sym)
      PROVE  Goal
  <2>1. yystate' = "N1QL"
    BY <1>6 DEF QueryText
  <2> QED
    BY <1>6, <2>1, QueryTextGrows, OpenerValues DEF ReturnsToCode
<1>7. ASSUME Keyword
      PROVE  Goal
  <2>1. yystate' = "N1QL"
    BY <1>7 DEF Keyword
  <2> QED
    BY <1>7, <2>1, KeywordGrows, OpenerValues DEF ReturnsToCode
<1>8. ASSUME NEW op, Call(op)
      PROVE  ReturnsToCode'
  BY <1>8, OpenerValues DEF Call, ReturnsToCode
<1>9. ASSUME Echo
      PROVE  ReturnsToCode'
  BY <1>9 DEF Echo, ReturnsToCode
<1>10. ASSUME NEW valid, NEW expression, EndQuery(valid, expression)
       PROVE  ReturnsToCode'
  BY <1>10, OpenerValues DEF EndQuery, ReturnsToCode
<1>11. ASSUME NEW error, ReservedName(error)
       PROVE  ReturnsToCode' /\ UNCHANGED <<Output, source, lex_op>> /\ code = "lexing"
  BY <1>11 DEF ReservedName, ReturnsToCode, Output
<1>12. ASSUME EndOfInput
       PROVE  ReturnsToCode' /\ UNCHANGED <<Output, source, lex_op>> /\ code = "lexing"
  BY <1>12 DEF EndOfInput, ReturnsToCode, Output
<1>13. ASSUME UNCHANGED vars
       PROVE  ReturnsToCode' /\ UNCHANGED <<Output, source, lex_op>> /\ code' = code
  BY <1>13 DEF vars, ReturnsToCode, Output
<1>14. "MLCMT" \in Comments /\ "SLCMT" \in Comments /\ "DSTR" \in Strings
  BY DEF Comments, Strings
<1> QED
  BY <1>1, <1>2, <1>3, <1>4, <1>5, <1>6, <1>7, <1>8, <1>9, <1>10, <1>11, <1>12, <1>13, <1>14
     DEF Next

EndsInCode == code # "lexing" => yystate = "INITIAL"

LEMMA EndsInCodeNext ==
  ASSUME "openEnd" \notin Features, EndsInCode, [Next]_vars
  PROVE  EndsInCode'
  BY DEF EndsInCode, Next, Call, StartComment, StopComment, HandleStrStart, HandleStrStop,
     Copy, Copies, QueryText, Echo, Keyword, EndQuery, ReservedName, EndOfInput, Reads, vars

OrderInv == ReturnsToCode /\ EndsInCode /\ Ordered(Output, Len(source))

LEMMA OrderNext ==
  ASSUME "openEnd" \notin Features, TypeOK, TypeOK', OrderInv, [Next]_vars
  PROVE  OrderInv'
<1>1. ReturnsToCode /\ EndsInCode /\ Ordered(Output, Len(source))
  BY DEF OrderInv
<1>2. Output \in Seq(Char) /\ js_code \in Seq(Char) /\ source \in Seq(Symbols)
      /\ Len(source) \in Nat
  BY OutputType, LenProperties DEF TypeOK
<1>3. \A sym \in Symbols : Len(Append(source, sym)) = Len(source) + 1
  BY <1>2, AppendProperties
<1>4. EndsInCode'
  BY <1>1, EndsInCodeNext
<1>5. ASSUME NEW op, Call(op)
      PROVE  Ordered(Output', Len(source'))
  <2>1. source' = <<>> /\ yystate' = "INITIAL" /\ js_code' = <<>>
    BY <1>1, <1>5 DEF Call, EndsInCode
  <2>2. Output' = <<>>
    BY <2>1, OutputTypeNext
  <2> QED
    BY <2>1, <2>2 DEF Ordered
<1>6. ASSUME NEW sym, NEW c, Grows(sym, c)
      PROVE  Ordered(Output', Len(source'))
  <2>1. /\ Output' = Append(Output, c) /\ Len(source') = Len(source) + 1
        /\ c \in Char /\ c.at = Len(source) + 1
    BY <1>3, <1>6 DEF Grows
  <2>2. Ordered(Append(Output, c), Len(source) + 1)
    BY <1>1, <1>2, <2>1, OrderedAppend
  <2> QED
    BY <2>1, <2>2
<1>7. ASSUME Echo
      PROVE  Ordered(Output', Len(source'))
  <2>1. Len(source') = Len(source) + 1 /\ Output' = Output
    BY <1>3, <1>7, ReadsType DEF Echo, Reads, Output
  <2>2. \A i \in 1 .. Len(Output) : Output[i].at \in Nat
    <3>1. \A i \in 1 .. Len(Output) : Output[i] \in Char
      BY <1>2, ElementOfSeq
    <3>2. \A c \in Char : c.at \in Nat
      BY DEF Char
    <3> QED
      BY <3>1, <3>2
  <2> QED
    BY <1>1, <1>2, <2>1, <2>2 DEF Ordered
<1>8. ASSUME NEW valid \in BOOLEAN, NEW expression \in BOOLEAN, EndQuery(valid, expression)
      PROVE  Ordered(Output', Len(source'))
  <2>1. PICK query \in Seq(Char), c \in Char :
            /\ js_code \o query = Append(Output, c)
            /\ c.at = Len(source) + 1 /\ c.sym = "semicolon" /\ "semicolon" \in Symbols
            /\ source' = Append(source, "semicolon") /\ lex_op' = lex_op
            /\ \/ code' = "kN1QLParserError" /\ Output' = js_code
               \/ code' = code /\ Output' = js_code \o query
               \/ /\ code' = code /\ lex_op = "kJsify"
                  /\ Output' = Append(js_code, Inserted("query"))
               \/ /\ code' = code
                  /\ \E t : IsCommentOf(t, query) /\ Output' = js_code \o t
    BY <1>8, EndQueryOutput
  <2> DEFINE n == Len(source) + 1
  <2>2. Len(source') = n /\ n \in Nat
    BY <1>2, <1>3, <2>1
  <2>3. Ordered(js_code \o query, n)
    BY <1>1, <1>2, <2>1, OrderedAppend
  <2> HIDE DEF n
  <2>4. Ordered(js_code, n)
    BY <1>2, <2>2, <2>3, OrderedPrefix
  <2>5. Inserted("query") \in Char /\ Inserted("query").at = 0
    BY DEF Inserted, Char, OutputSymbols
  <2>6. Ordered(Append(js_code, Inserted("query")), n)
    BY <1>2, <2>2, <2>4, <2>5, OrderedInserted
  <2>7. ASSUME NEW t, IsCommentOf(t, query)
        PROVE  Ordered(js_code \o t, n)
    BY <1>2, <2>2, <2>3, <2>7, OrderedComment
  <2> QED
    BY <2>1, <2>2, <2>3, <2>4, <2>6, <2>7
<1>9. ASSUME UNCHANGED <<Output, source>>
      PROVE  Ordered(Output', Len(source'))
  BY <1>1, <1>9
<1>10. ReturnsToCode' /\ Ordered(Output', Len(source'))
  BY <1>1, <1>5, <1>6, <1>7, <1>8, <1>9, OutputNext
<1> QED
  BY <1>4, <1>10 DEF OrderInv, Ordered

\* Whatever sources contain, as long as each of them ends in code: no symbol comes out
\* twice or before one that it follows, in any sequence of calls and sources of any length;
\* nothing of an earlier query or call is left in the buffers.
THEOREM OutputInOrder ==
  ASSUME "openEnd" \notin Features
  PROVE  Spec => []SymbolsInOrder
<1>1. Init => OrderInv
  <2> SUFFICES ASSUME Init
               PROVE  OrderInv
    OBVIOUS
  <2>1. Output = <<>>
    BY TypeInit, OutputType DEF Init
  <2> QED
    BY <2>1, OpenerValues DEF Init, OrderInv, ReturnsToCode, EndsInCode, Ordered
<1>2. TypeOK /\ TypeOK' /\ OrderInv /\ [Next]_vars => OrderInv'
  BY OrderNext
<1>3. TypeOK /\ OrderInv => SymbolsInOrder
  <2> SUFFICES ASSUME TypeOK, OrderInv
               PROVE  SymbolsInOrder
    OBVIOUS
  <2>1. Output \in Seq(Char)
    BY OutputType
  <2>2. DOMAIN Output = 1 .. Len(Output)
    BY <2>1, LenProperties
  <2> QED
    BY <2>2 DEF OrderInv, Ordered, SymbolsInOrder
<1> QED
  BY <1>1, <1>2, <1>3, TypeCorrect, PTL DEF Spec

CoverInv ==
  /\ ReturnsToCode
  /\ lex_op # "kJsify" /\ code # "kN1QLParserError" =>
       Covers(Output, source, lex_op = "kCommentN1QL")

LEMMA CoverNext ==
  ASSUME Features \cap {"continuation", "stringNewline"} = {},
         TypeOK, TypeOK', CoverInv, [Next]_vars
  PROVE  CoverInv'
<1> DEFINE lines == lex_op = "kCommentN1QL"
<1>1. /\ ReturnsToCode
      /\ lex_op # "kJsify" /\ code # "kN1QLParserError" => Covers(Output, source, lines)
  BY DEF CoverInv
<1>2. Output \in Seq(Char) /\ js_code \in Seq(Char) /\ source \in Seq(Symbols)
  BY OutputType DEF TypeOK
<1>3. ~Echo
  BY DEF Echo
<1>4. ASSUME NEW op, Call(op)
      PROVE  CoverInv'
  <2>1. source' = <<>> /\ ReturnsToCode'
    BY <1>1, <1>4, OpenerValues DEF Call, ReturnsToCode
  <2>2. Len(source') = 0
    BY <2>1
  <2>3. 1 .. Len(source') = {}
    BY <2>2
  <2> QED
    BY <2>1, <2>3 DEF CoverInv, Covers
<1>5. ASSUME lex_op' # "kJsify", code' # "kN1QLParserError", NEW sym, NEW c, Grows(sym, c)
      PROVE  Covers(Output', source', lines) /\ lex_op' = lex_op
  <2>1. /\ Output' = Append(Output, c) /\ source' = Append(source, sym)
        /\ sym \in Symbols /\ c \in Char /\ c.at = Len(source) + 1
        /\ lines => (c.sym = "newline" <=> sym = "newline")
        /\ lex_op' = lex_op /\ code' = code
    BY <1>5 DEF Grows
  <2>2. Covers(Output, source, lines)
    BY <1>1, <1>5, <2>1
  <2> HIDE DEF lines
  <2>3. lines \in BOOLEAN
    BY DEF lines
  <2>4. Covers(Append(Output, c), Append(source, sym), lines)
    BY <1>2, <2>1, <2>2, <2>3, CoversAppend
  <2> QED
    BY <2>1, <2>4
<1>6. ASSUME lex_op' # "kJsify", code' # "kN1QLParserError",
             NEW valid \in BOOLEAN, NEW expression \in BOOLEAN, EndQuery(valid, expression)
      PROVE  Covers(Output', source', lines) /\ lex_op' = lex_op
  <2>1. PICK query \in Seq(Char), c \in Char :
            /\ js_code \o query = Append(Output, c)
            /\ c.at = Len(source) + 1 /\ c.sym = "semicolon" /\ "semicolon" \in Symbols
            /\ source' = Append(source, "semicolon") /\ lex_op' = lex_op
            /\ \/ code' = "kN1QLParserError" /\ Output' = js_code
               \/ code' = code /\ Output' = js_code \o query
               \/ /\ code' = code /\ lex_op = "kJsify"
                  /\ Output' = Append(js_code, Inserted("query"))
               \/ /\ code' = code
                  /\ \E t : IsCommentOf(t, query) /\ Output' = js_code \o t
    BY <1>6, EndQueryOutput
  <2>2. Covers(Output, source, lines)
    BY <1>1, <1>6, <2>1
  <2> HIDE DEF lines
  <2>3. lines \in BOOLEAN
    BY DEF lines
  <2>4. Covers(js_code \o query, source', lines)
    <3>1. c.sym = "newline" <=> "semicolon" = "newline"
      BY <2>1
    <3>2. Covers(Append(Output, c), Append(source, "semicolon"), lines)
      BY <1>2, <2>1, <2>2, <2>3, <3>1, CoversAppend
    <3> QED
      BY <2>1, <3>2
  <2>5. ASSUME NEW t, IsCommentOf(t, query)
        PROVE  Covers(js_code \o t, source', lines)
    BY <1>2, <2>3, <2>4, <2>5, CoversComment
  <2> QED
    BY <1>6, <2>1, <2>4, <2>5
<1>7. ASSUME lex_op' # "kJsify", code' # "kN1QLParserError",
             \/ UNCHANGED <<Output, source, lex_op, code>>
             \/ UNCHANGED <<Output, source, lex_op>> /\ code = "lexing"
      PROVE  Covers(Output', source', lines) /\ lex_op' = lex_op
  BY <1>1, <1>7
<1>8. lex_op' = lex_op => (lines <=> lex_op' = "kCommentN1QL")
  OBVIOUS
<1>9. ASSUME ~\E op : Call(op), lex_op' # "kJsify", code' # "kN1QLParserError"
      PROVE  Covers(Output', source', lines) /\ lex_op' = lex_op
  BY <1>1, <1>3, <1>5, <1>6, <1>7, <1>9, OutputNext
<1>10. ReturnsToCode'
  BY <1>1, OutputNext
<1>11. ASSUME ~\E op : Call(op)
       PROVE  CoverInv'
  <2>1. ASSUME lex_op' # "kJsify", code' # "kN1QLParserError"
        PROVE  Covers(Output', source', lex_op' = "kCommentN1QL")
    <3>1. Covers(Output', source', lines) /\ lex_op' = lex_op
      BY <1>9, <1>11, <2>1
    <3> QED
      BY <3>1
  <2> QED
    BY <1>10, <2>1 DEF CoverInv, Covers
<1> QED
  BY <1>4, <1>11

\* In sources without strings over several lines every symbol comes out, and CommentN1QL
\* keeps it on its line, in sources of any length.
THEOREM EverythingComesOut ==
  ASSUME Features \cap {"continuation", "stringNewline"} = {}
  PROVE  Spec => []NothingIsLost
<1>1. Init => CoverInv
  BY OpenerValues DEF Init, CoverInv, ReturnsToCode, Covers
<1>2. TypeOK /\ TypeOK' /\ CoverInv /\ [Next]_vars => CoverInv'
  BY CoverNext
<1>3. TypeOK /\ CoverInv => NothingIsLost
  <2> SUFFICES ASSUME TypeOK, CoverInv
               PROVE  NothingIsLost
    OBVIOUS
  <2>1. Output \in Seq(Char) /\ source \in Seq(Symbols)
    BY OutputType DEF TypeOK
  <2>2. DOMAIN Output = 1 .. Len(Output) /\ DOMAIN source = 1 .. Len(source)
    BY <2>1, LenProperties
  <2>3. ASSUME lex_op # "kJsify", code # "kN1QLParserError", NEW n \in 1 .. Len(source)
        PROVE  \E i \in 1 .. Len(Output) :
                  /\ Output[i].at = n
                  /\ lex_op = "kCommentN1QL" =>
                       (Output[i].sym = "newline" <=> source[n] = "newline")
    <3>1. Covers(Output, source, lex_op = "kCommentN1QL")
      BY <2>3 DEF CoverInv
    <3> QED
      BY <3>1, <2>3 DEF Covers
  <2>4. ASSUME lex_op # "kJsify", code # "kN1QLParserError", NEW n \in DOMAIN source
        PROVE  \E i \in DOMAIN Output :
                  /\ Output[i].at = n
                  /\ lex_op = "kCommentN1QL" =>
                       (Output[i].sym = "newline" <=> source[n] = "newline")
    <3>1. n \in 1 .. Len(source)
      BY <2>2, <2>4
    <3> QED
      BY <2>2, <2>3, <2>4, <3>1
  <2> HIDE DEF Output
  <2> QED
    BY <2>4 DEF NothingIsLost
<1> QED
  BY <1>1, <1>2, <1>3, TypeCorrect, PTL DEF Spec

-------------------------------------------------------------------------------
(***************************************************************************)
(* The list of insertions.                                                 *)
(***************************************************************************)
\* The rules of the lexer, as far as the list of insertions and the output tell them apart.
LEMMA StepKinds ==
  ASSUME "openEnd" \notin Features, ReturnsToCode, [Next]_vars
  PROVE  \/ \E op \in LexOps : Call(op)
         \/ \E sym : Copies(sym) /\ yystate # "N1QL" /\ yystate' # "N1QL"
         \/ Echo
         \/ Keyword
         \/ \E sym : QueryText(sym)
         \/ \E valid, expression \in BOOLEAN : EndQuery(valid, expression)
         \/ /\ code = "lexing" /\ code' # "kN1QLParserError" /\ yystate # "N1QL"
            /\ UNCHANGED <<lex_op, yystate, js_code, n1ql_query, insertions, source>>
         \/ UNCHANGED vars
<1> DEFINE Copied == \E sym : Copies(sym) /\ yystate # "N1QL" /\ yystate' # "N1QL"
<1>1. ASSUME NEW sym, NEW state \in Comments, StartComment(sym, state)
      PROVE  Copied
  BY <1>1, OpenerValues DEF StartComment, Comments
<1>2. ASSUME NEW sym, NEW state \in Comments, StopComment(sym, state)
      PROVE  Copied
  BY <1>2, OpenerValues DEF StopComment, ReturnsToCode
<1>3. ASSUME NEW sym, NEW state \in Strings, HandleStrStart(sym, state)
      PROVE  Copied
  BY <1>3, OpenerValues DEF HandleStrStart
<1>4. ASSUME NEW state \in Strings, HandleStrStop(state)
      PROVE  Copied
  BY <1>4, OpenerValues DEF HandleStrStop, ReturnsToCode
<1>5. ASSUME NEW sym, Copy(sym)
      PROVE  Copied
  BY <1>5, OpenerValues DEF Copy, Plain
<1>6. ASSUME NEW error \in {"kKeyword", "kKeywordFrom"}, ReservedName(error)
      PROVE  /\ code = "lexing" /\ code' # "kN1QLParserError" /\ yystate # "N1QL"
             /\ UNCHANGED <<lex_op, yystate, js_code, n1ql_query, insertions, source>>
  BY <1>6 DEF ReservedName
<1>7. ASSUME EndOfInput
      PROVE  /\ code = "lexing" /\ code' # "kN1QLParserError" /\ yystate # "N1QL"
             /\ UNCHANGED <<lex_op, yystate, js_code, n1ql_query, insertions, source>>
  BY <1>7 DEF EndOfInput
<1>8. "MLCMT" \in Comments /\ "SLCMT" \in Comments
  BY DEF Comments
<1> HIDE DEF Copied
<1>9. Copied \/ ~Copied
  OBVIOUS
<1>10. CASE Copied
  BY <1>10 DEF Copied
<1>11. CASE ~Copied
  BY <1>1, <1>2, <1>3, <1>4, <1>5, <1>6, <1>7, <1>8, <1>11 DEF Next
<1> QED
  BY <1>9, <1>10, <1>11

\* An entry is added at the end; where it is and how much was inserted.
LEMMA UpdatePosAdds ==
  ASSUME TypeOK, NEW text \in Text, NEW type \in {"kN1QLBegin", "kN1QLEnd"},
         insertions' = UpdatePos(type, text)
  PROVE  /\ Len(insertions') = Len(insertions) + 1
         /\ \A i \in 1 .. Len(insertions) : insertions'[i] = insertions[i]
         /\ insertions'[Len(insertions) + 1].index
              = IF type = "kN1QLBegin" THEN Len(text) ELSE Len(text) - 1
         /\ insertions'[Len(insertions) + 1].type_len = IF type = "kN1QLBegin" THEN 2 ELSE 3
<1> DEFINE skipped == IF insertions = <<>> THEN 0 ELSE insertions[Len(insertions)].line_no
           line == Newlines(SubSeq(text, skipped + 1, Len(text))) + 1
           e == [type |-> type, type_len |-> IF type = "kN1QLBegin" THEN 2 ELSE 3,
                 line_no |-> line,
                 index |-> IF type = "kN1QLBegin" THEN Len(text) ELSE Len(text) - 1]
<1>1. insertions' = Append(insertions, e)
  BY DEF UpdatePos
<1> HIDE DEF line
<1>2. e.index = IF type = "kN1QLBegin" THEN Len(text) ELSE Len(text) - 1
  OBVIOUS
<1>3. e.type_len = IF type = "kN1QLBegin" THEN 2 ELSE 3
  OBVIOUS
<1> HIDE DEF e
<1>4. insertions \in Seq(Insertion \cup {e}) /\ e \in Insertion \cup {e}
  <2>1. insertions \in Seq(Insertion)
    BY DEF TypeOK, Insertion
  <2>2. /\ Len(insertions) \in Nat /\ insertions \in [1 .. Len(insertions) -> Insertion]
    BY <2>1, LenProperties
  <2>3. insertions \in [1 .. Len(insertions) -> Insertion \cup {e}]
    BY <2>2
  <2> QED
    BY <2>2, <2>3, SeqDef
<1>5. /\ Len(insertions') = Len(insertions) + 1
      /\ insertions'[Len(insertions) + 1] = e
      /\ \A i \in 1 .. Len(insertions) : insertions'[i] = insertions[i]
  BY <1>1, <1>4, AppendProperties
<1> QED
  BY <1>2, <1>3, <1>5

\* A query was begun that has no end in the list: it is being read, or did not parse.
Unfinished == lex_op = "kCommentN1QL" /\ (yystate = "N1QL" \/ code = "kN1QLParserError")

\* The i-th entry is at what was inserted in text.
Marks(i, text) ==
  /\ insertions[i].index + 1 \in 1 .. Len(text)
  /\ text[insertions[i].index + 1] = Inserted(IF i % 2 = 1 THEN "slash" ELSE "semicolon")

MarkInv ==
  /\ ReturnsToCode /\ EndsInCode
  /\ lex_op # "kCommentN1QL" => insertions = <<>>
  /\ ~Unfinished => Len(insertions) % 2 = 0
  /\ Unfinished => /\ Len(insertions) % 2 = 1
                   /\ insertions[Len(insertions)].index = Len(js_code)
  /\ \A i \in 1 .. Len(insertions) : (i = Len(insertions) /\ Unfinished) \/ Marks(i, js_code)


\* An entry keeps its place when text is added behind what there is.
LEMMA MarksKept ==
  ASSUME TypeOK, NEW rest \in Seq(Char), js_code' = js_code \o rest,
         NEW i \in 1 .. Len(insertions), Marks(i, js_code), insertions'[i] = insertions[i]
  PROVE  Marks(i, js_code)'
<1>1. js_code \in Seq(Char) /\ Len(js_code) \in Nat /\ Len(rest) \in Nat
  BY LenProperties DEF TypeOK, Text, Char
<1>2. /\ Len(js_code') = Len(js_code) + Len(rest)
      /\ \A p \in 1 .. Len(js_code) : js_code'[p] = js_code[p]
  <2>1. /\ Len(js_code') = Len(js_code) + Len(rest)
        /\ \A p \in 1 .. Len(js_code) + Len(rest) :
             js_code'[p] = IF p <= Len(js_code) THEN js_code[p] ELSE rest[p - Len(js_code)]
    BY <1>1, ConcatProperties
  <2> QED
    BY <1>1, <2>1
<1> QED
  BY <1>1, <1>2 DEF Marks, Inserted

LEMMA MarkQueryEnd ==
  ASSUME "expression" \notin Features, TypeOK, TypeOK', MarkInv, lex_op = "kCommentN1QL",
         NEW valid \in BOOLEAN, NEW expression \in BOOLEAN, EndQuery(valid, expression)
  PROVE  /\ ~Unfinished' => Len(insertions') % 2 = 0
         /\ Unfinished' => /\ Len(insertions') % 2 = 1
                           /\ insertions'[Len(insertions')].index = Len(js_code')
         /\ \A i \in 1 .. Len(insertions') :
               (i = Len(insertions') /\ Unfinished') \/ Marks(i, js_code)'
<1>1. Reads("semicolon") /\ yystate = "N1QL" /\ yystate' = "INITIAL" /\ code = "lexing"
  BY DEF EndQuery, Reads
<1>2. Unfinished /\ lex_op' = "kCommentN1QL"
  BY <1>1 DEF Unfinished, Reads
<1>3. /\ Len(insertions) % 2 = 1 /\ insertions[Len(insertions)].index = Len(js_code)
      /\ \A i \in 1 .. Len(insertions) : i = Len(insertions) \/ Marks(i, js_code)
      /\ Len(insertions) \in Nat
  BY <1>2, LenProperties DEF MarkInv, TypeOK
<1>4. CASE ~valid
  <2>1. code' = "kN1QLParserError" /\ js_code' = js_code /\ insertions' = insertions
    BY <1>4 DEF EndQuery
  <2>2. Unfinished'
    BY <1>2, <2>1 DEF Unfinished
  <2> QED
    BY <1>3, <2>1, <2>2 DEF Marks
<1>5. CASE valid
  <2> DEFINE query == Append(n1ql_query, Symbol("semicolon"))
             t == TranspileQuery(query)
  <2>1. /\ js_code' = js_code \o Replacement(query, valid) /\ code' = code
        /\ insertions' = UpdatePos("kN1QLEnd", js_code')
    BY <1>5 DEF EndQuery
  <2>2. Replacement(query, valid) = t
    BY <1>5 DEF Replacement
  <2>3. ~Unfinished'
    BY <1>1, <2>1 DEF Unfinished
  <2>4. query \in Text /\ n1ql_query \in Text
    BY <1>1, ReadsType, AppendSymbol DEF TypeOK
  <2> HIDE DEF query
  <2>5. /\ t \in Seq(Char) /\ Len(t) = Len(query) + 6 /\ Len(query) \in Nat
        /\ t[1] = Inserted("slash") /\ t[Len(query) + 6] = Inserted("semicolon")
    BY <2>4, TranspiledShape, LenProperties DEF Text, Char
  <2> HIDE DEF t
  <2>6. js_code' = js_code \o t /\ js_code \in Seq(Char) /\ Len(js_code) \in Nat /\ js_code' \in Text
    BY <2>1, <2>2, LenProperties DEF TypeOK, Text, Char
  <2>7. /\ Len(js_code') = Len(js_code) + Len(t)
        /\ \A p \in 1 .. Len(js_code) + Len(t) :
             js_code'[p] = IF p <= Len(js_code) THEN js_code[p] ELSE t[p - Len(js_code)]
    BY <2>5, <2>6, ConcatProperties
  <2>8. /\ Len(insertions') = Len(insertions) + 1
        /\ \A i \in 1 .. Len(insertions) : insertions'[i] = insertions[i]
        /\ insertions'[Len(insertions) + 1].index = Len(js_code') - 1
    BY <2>1, <2>6, UpdatePosAdds
  <2>9. ASSUME NEW i \in 1 .. Len(insertions')
        PROVE  Marks(i, js_code)'
    <3>1. CASE i = Len(insertions) + 1
      <4>1. insertions'[i].index + 1 = Len(js_code') /\ i % 2 # 1
        <5>1. i % 2 # 1
          BY <1>3, <3>1
        <5>2. insertions'[i].index = Len(js_code') - 1 /\ Len(js_code') \in Nat
          BY <2>5, <2>6, <2>7, <2>8, <3>1
        <5> QED
          BY <5>1, <5>2
      <4>2. js_code'[Len(js_code')] = Inserted("semicolon") /\ Len(js_code') \in 1 .. Len(js_code')
        BY <2>5, <2>6, <2>7
      <4> QED
        BY <4>1, <4>2 DEF Marks, Inserted
    <3>2. CASE i = Len(insertions)
      <4>1. insertions'[i].index + 1 = Len(js_code) + 1 /\ i % 2 = 1
        BY <1>3, <2>6, <2>8, <2>9, <3>2
      <4>2. js_code'[Len(js_code) + 1] = Inserted("slash")
            /\ Len(js_code) + 1 \in 1 .. Len(js_code')
        BY <2>5, <2>6, <2>7
      <4> QED
        BY <4>1, <4>2 DEF Marks, Inserted
    <3>3. CASE i \in 1 .. Len(insertions) /\ i # Len(insertions)
      BY <1>3, <2>5, <2>6, <2>8, <3>3, MarksKept
    <3> QED
      BY <1>3, <2>8, <2>9, <3>1, <3>2, <3>3
  <2>10. Len(insertions') % 2 = 0
    BY <1>3, <2>8
  <2> QED
    BY <2>3, <2>9, <2>10
<1> QED
  BY <1>4, <1>5

LEMMA MarkNext ==
  ASSUME {"openEnd", "expression"} \cap Features = {}, TypeOK, TypeOK', MarkInv, [Next]_vars
  PROVE  MarkInv'
<1> DEFINE Goal == /\ lex_op' # "kCommentN1QL" => insertions' = <<>>
                   /\ ~Unfinished' => Len(insertions') % 2 = 0
                   /\ Unfinished' => /\ Len(insertions') % 2 = 1
                                     /\ insertions'[Len(insertions')].index = Len(js_code')
                   /\ \A i \in 1 .. Len(insertions') :
                         (i = Len(insertions') /\ Unfinished') \/ Marks(i, js_code)'
<1>1. ReturnsToCode' /\ EndsInCode'
  BY OutputNext, EndsInCodeNext DEF MarkInv
<1>2. /\ js_code \in Seq(Char) /\ Len(js_code) \in Nat /\ Len(insertions) \in Nat
      /\ js_code \in Text
  BY LenProperties DEF TypeOK, Text, Char
<1>3. ASSUME NEW op, Call(op)
      PROVE  Goal
  <2>1. insertions' = <<>> /\ code' = "lexing" /\ yystate' = "INITIAL"
    BY <1>3 DEF Call, MarkInv, EndsInCode
  <2>2. ~Unfinished' /\ Len(insertions') = 0 /\ 0 % 2 = 0
    BY <2>1 DEF Unfinished
  <2> QED
    BY <2>1, <2>2
<1>4. ASSUME NEW sym, Copies(sym), yystate # "N1QL", yystate' # "N1QL"
      PROVE  Goal
  <2>1. /\ Reads(sym) /\ js_code' = Append(js_code, Symbol(sym))
        /\ insertions' = insertions /\ code' = code /\ lex_op' = lex_op /\ code = "lexing"
    BY <1>4 DEF Copies, Reads
  <2>2. ~Unfinished /\ ~Unfinished'
    BY <1>4, <2>1 DEF Unfinished
  <2>3. Symbol(sym) \in Char
    BY <2>1, ReadsType, SymbolType DEF TypeOK
  <2>4. js_code' = js_code \o <<Symbol(sym)>> /\ <<Symbol(sym)>> \in Seq(Char)
    BY <1>2, <2>1, <2>3, AppendIsConcat
  <2>5. \A i \in 1 .. Len(insertions) : Marks(i, js_code)'
    BY <2>1, <2>2, <2>4, MarksKept DEF MarkInv
  <2> QED
    BY <2>1, <2>2, <2>5 DEF MarkInv
<1>5. ASSUME UNCHANGED <<lex_op, js_code, insertions>>, Unfinished' = Unfinished
      PROVE  Goal
  BY <1>5 DEF MarkInv, Marks
<1>6. ASSUME Keyword
      PROVE  Goal
  <2>1. /\ code = "lexing" /\ code' = code /\ yystate = "INITIAL" /\ yystate' = "N1QL"
        /\ js_code' = js_code /\ lex_op' = lex_op
        /\ lex_op = "kCommentN1QL" => insertions' = UpdatePos("kN1QLBegin", js_code)
        /\ lex_op # "kCommentN1QL" => insertions' = insertions
    BY <1>6 DEF Keyword, Reads
  <2>2. ~Unfinished /\ (Unfinished' <=> lex_op = "kCommentN1QL")
    BY <2>1 DEF Unfinished
  <2>3. CASE lex_op # "kCommentN1QL"
    BY <2>1, <2>2, <2>3 DEF MarkInv, Marks
  <2>4. CASE lex_op = "kCommentN1QL"
    <3>1. /\ Len(insertions') = Len(insertions) + 1
          /\ \A i \in 1 .. Len(insertions) : insertions'[i] = insertions[i]
          /\ insertions'[Len(insertions) + 1].index = Len(js_code')
      BY <1>2, <2>1, <2>4, UpdatePosAdds
    <3>2. \A i \in 1 .. Len(insertions) : Marks(i, js_code)'
      BY <2>1, <2>2, <3>1 DEF MarkInv, Marks
    <3>3. Len(insertions) % 2 = 0 /\ Len(insertions') % 2 = 1
      BY <1>2, <2>2, <3>1 DEF MarkInv
    <3> QED
      BY <1>2, <2>1, <2>2, <2>4, <3>1, <3>2, <3>3
  <2> QED
    BY <2>3, <2>4
<1>7. ASSUME NEW valid \in BOOLEAN, NEW expression \in BOOLEAN, EndQuery(valid, expression)
      PROVE  Goal
  <2>1. CASE lex_op = "kCommentN1QL"
    <3>1. lex_op' = lex_op
      BY <1>7 DEF EndQuery, Reads
    <3> QED
      BY <1>7, <2>1, <3>1, MarkQueryEnd
  <2>2. CASE lex_op # "kCommentN1QL"
    <3>1. lex_op' = lex_op /\ insertions' = insertions
      BY <1>7, <2>2 DEF EndQuery, Reads
    <3>2. insertions' = <<>> /\ ~Unfinished' /\ Len(insertions') = 0 /\ 0 % 2 = 0
      BY <2>2, <3>1 DEF MarkInv, Unfinished
    <3> QED
      BY <2>2, <3>1, <3>2
  <2> QED
    BY <2>1, <2>2
<1>8. ASSUME NEW sym, QueryText(sym)
      PROVE  Goal
  <2>1. UNCHANGED <<lex_op, js_code, insertions, code, yystate>>
    BY <1>8 DEF QueryText, Reads
  <2> QED
    BY <1>5, <2>1 DEF Unfinished
<1>9. ASSUME Echo
      PROVE  Goal
  <2>1. UNCHANGED <<lex_op, js_code, insertions, code, yystate>>
    BY <1>9 DEF Echo, Reads
  <2> QED
    BY <1>5, <2>1 DEF Unfinished
<1>10. ASSUME code = "lexing", code' # "kN1QLParserError", yystate # "N1QL",
              UNCHANGED <<lex_op, yystate, js_code, n1ql_query, insertions, source>>
       PROVE  Goal
  BY <1>5, <1>10 DEF Unfinished
<1>11. ASSUME UNCHANGED vars
       PROVE  Goal
  BY <1>5, <1>11 DEF Unfinished, vars
<1> HIDE DEF Goal
<1>12. Goal
  BY <1>3, <1>4, <1>6, <1>7, <1>8, <1>9, <1>10, <1>11, StepKinds DEF MarkInv
<1> QED
  BY <1>1, <1>12 DEF Goal, MarkInv

LEMMA MarkInit == Init => MarkInv
<1> SUFFICES ASSUME Init
             PROVE  MarkInv
  OBVIOUS
<1>1. insertions = <<>> /\ Len(insertions) = 0 /\ 0 % 2 = 0 /\ ~Unfinished
  BY DEF Init, Unfinished
<1> QED
  BY <1>1, OpenerValues DEF Init, MarkInv, ReturnsToCode, EndsInCode

\* In sources that end in code, where nothing but a query starts like one, the list pairs up
\* with the queries: an entry is at the comment that a query was replaced with or at the end
\* of it, and only the query that is open or did not parse has one entry; in sources of any
\* length and any sequence of calls.
THEOREM InsertionsPairUp ==
  ASSUME {"openEnd", "expression"} \cap Features = {}
  PROVE  Spec => []InsertionsMarkQueries
<1>1. Init => MarkInv
  BY MarkInit
<1>2. TypeOK /\ TypeOK' /\ MarkInv /\ [Next]_vars => MarkInv'
  BY MarkNext
<1>3. TypeOK /\ MarkInv => InsertionsMarkQueries
  <2> SUFFICES ASSUME TypeOK, MarkInv, NEW i \in DOMAIN insertions
               PROVE  \/ i = Len(insertions) /\ i % 2 = 1
                      \/ /\ insertions[i].index + 1 \in DOMAIN js_code
                         /\ js_code[insertions[i].index + 1]
                              = Inserted(IF i % 2 = 1 THEN "slash" ELSE "semicolon")
    BY DEF InsertionsMarkQueries
  <2>1. i \in 1 .. Len(insertions) /\ DOMAIN js_code = 1 .. Len(js_code)
    BY LenProperties DEF TypeOK, Text
  <2> QED
    BY <2>1 DEF MarkInv, Marks
<1> QED
  BY <1>1, <1>2, <1>3, TypeCorrect, PTL DEF Spec

-------------------------------------------------------------------------------
(***************************************************************************)
(* RectifyCompilationInfo discounts the insertions one after the other:    *)
(* the fold is a recursive function on sets of indexes, whose existence is *)
(* shown by induction.                                                     *)
(***************************************************************************)
\* The equation that the recursive function of the fold solves, for m insertions.
Discounts(pos, g, m) ==
  [s \in SUBSET (1 .. m) |->
     IF s = {} THEN pos ELSE Discount(g[s \ {Max(s)}], insertions[Max(s)])]

LEMMA MaxIsLast ==
  ASSUME NEW m \in Nat, NEW s \in SUBSET (1 .. m + 1), m + 1 \in s
  PROVE  Max(s) = m + 1
<1>1. m + 1 \in s /\ \A y \in s : m + 1 >= y
  OBVIOUS
<1>2. \A x \in s : (\A y \in s : x >= y) => x = m + 1
  <2>1. \A x \in s : x \in 1 .. m + 1
    OBVIOUS
  <2> QED
    BY <1>1, <2>1
<1> QED
  BY <1>1, <1>2 DEF Max

LEMMA DiscountsNext ==
  ASSUME NEW pos, NEW m \in Nat, NEW f, f = Discounts(pos, f, m)
  PROVE  \E g : g = Discounts(pos, g, m + 1)
<1> DEFINE g == [s \in SUBSET (1 .. m + 1) |->
                   IF s = {} THEN pos
                   ELSE IF m + 1 \in s THEN Discount(f[s \ {m + 1}], insertions[m + 1])
                   ELSE f[s]]
<1>1. \A s \in SUBSET (1 .. m + 1) : m + 1 \notin s => s \in SUBSET (1 .. m)
  OBVIOUS
<1>2. \A s \in SUBSET (1 .. m) : m + 1 \notin s /\ s \in SUBSET (1 .. m + 1)
  OBVIOUS
<1>3. \A s \in SUBSET (1 .. m) : \A x : s \ {x} \in SUBSET (1 .. m)
  OBVIOUS
<1>4. \A s \in SUBSET (1 .. m) :
         f[s] = IF s = {} THEN pos ELSE Discount(f[s \ {Max(s)}], insertions[Max(s)])
  BY DEF Discounts
<1>5. \A s \in SUBSET (1 .. m) : g[s] = f[s]
  BY <1>2, <1>4
<1>6. ASSUME NEW s \in SUBSET (1 .. m + 1), s # {}
      PROVE  g[s] = Discount(g[s \ {Max(s)}], insertions[Max(s)])
  <2>1. CASE m + 1 \in s
    <3>1. s \ {m + 1} \in SUBSET (1 .. m)
      OBVIOUS
    <3>2. Max(s) = m + 1
      BY <2>1, MaxIsLast
    <3>3. g[s \ {m + 1}] = f[s \ {m + 1}]
      BY <1>5, <3>1
    <3>4. g[s] = Discount(f[s \ {m + 1}], insertions[m + 1])
      BY <1>6, <2>1
    <3> HIDE DEF g
    <3> QED
      BY <3>2, <3>3, <3>4
  <2>2. CASE m + 1 \notin s
    <3>1. s \in SUBSET (1 .. m)
      BY <1>1, <2>2
    <3>2. g[s] = f[s] /\ g[s \ {Max(s)}] = f[s \ {Max(s)}]
      BY <1>3, <1>5, <3>1
    <3> HIDE DEF g
    <3> QED
      BY <1>4, <1>6, <3>1, <3>2
  <2> QED
    BY <2>1, <2>2
<1>7. g[{}] = pos
  OBVIOUS
<1>8. g = [s \in SUBSET (1 .. m + 1) |-> g[s]]
  OBVIOUS
<1> HIDE DEF g
<1>9. g = Discounts(pos, g, m + 1)
  BY <1>6, <1>7, <1>8 DEF Discounts
<1> QED
  BY <1>9

LEMMA DiscountsExists ==
  ASSUME NEW pos, NEW m \in Nat
  PROVE  \E g : g = Discounts(pos, g, m)
<1> DEFINE S == {k \in Nat : \E g : g = Discounts(pos, g, k)}
<1>1. 0 \in S
  <2> DEFINE g == [s \in {{}} |-> pos]
  <2>1. SUBSET (1 .. 0) = {{}}
    OBVIOUS
  <2>2. g = Discounts(pos, g, 0)
    BY <2>1 DEF Discounts
  <2> QED
    BY <2>2
<1>2. \A k \in Nat : k \in S => k + 1 \in S
  BY DiscountsNext
<1> HIDE DEF S
<1>3. m \in S
  BY <1>1, <1>2, Induction
<1> QED
  BY <1>3 DEF S

\* The position after k insertions, for each k.
LEMMA RectifyStepByStep ==
  ASSUME TypeOK, NEW pos
  PROVE  \E f : /\ f[0] = pos
                /\ \A k \in 1 .. Len(insertions) : f[k] = Discount(f[k - 1], insertions[k])
                /\ RectifyCompilationInfo(pos) = f[Len(insertions)]
<1> DEFINE n == Len(insertions)
           g == CHOOSE g : g = Discounts(pos, g, n)
           f == [k \in 0 .. n |-> g[1 .. k]]
<1>1. DOMAIN insertions = 1 .. n /\ n \in Nat
  BY LenProperties DEF TypeOK
<1>2. RectifyCompilationInfo(pos) = g[1 .. n]
  BY <1>1 DEF RectifyCompilationInfo, FoldLeft, MapThenFoldSet, Discounts
<1> HIDE DEF n
<1>3. g = Discounts(pos, g, n)
  BY <1>1, DiscountsExists
<1> HIDE DEF g
<1>4. \A s \in SUBSET (1 .. n) :
         g[s] = IF s = {} THEN pos ELSE Discount(g[s \ {Max(s)}], insertions[Max(s)])
  BY <1>3 DEF Discounts
<1>5. f[0] = pos
  <2>1. 1 .. 0 = {} /\ 1 .. 0 \in SUBSET (1 .. n) /\ 0 \in 0 .. n
    BY <1>1
  <2> QED
    BY <1>4, <2>1
<1>6. ASSUME NEW k \in 1 .. n
      PROVE  f[k] = Discount(f[k - 1], insertions[k])
  <2>1. k - 1 \in Nat /\ k = (k - 1) + 1 /\ k \in 0 .. n /\ k - 1 \in 0 .. n
    BY <1>1
  <2>2. 1 .. k \in SUBSET (1 .. n) /\ 1 .. k # {} /\ (1 .. k) \ {k} = 1 .. (k - 1)
    BY <1>1, <2>1
  <2>3. Max(1 .. k) = k
    <3> DEFINE m == k - 1
    <3>1. m \in Nat /\ k = m + 1 /\ 1 .. k \in SUBSET (1 .. m + 1) /\ m + 1 \in 1 .. k
      BY <2>1
    <3> HIDE DEF m
    <3> QED
      BY <3>1, MaxIsLast
  <2>4. g[1 .. k] = Discount(g[1 .. (k - 1)], insertions[k])
    BY <1>4, <2>2, <2>3
  <2> QED
    BY <2>1, <2>4
<1>7. f[n] = g[1 .. n]
  BY <1>1
<1> HIDE DEF f
<1> QED
  BY <1>2, <1>5, <1>6, <1>7 DEF n

\* Discounting an insertion leaves the line alone.
LEMMA DiscountFields ==
  ASSUME NEW line \in Int, NEW pos \in [line_no : {line}, col_no : Int, index : Int],
         NEW entry \in Insertion
  PROVE  /\ Discount(pos, entry) \in [line_no : {line}, col_no : Int, index : Int]
         /\ entry.index >= pos.index => Discount(pos, entry) = pos
         /\ entry.index < pos.index => Discount(pos, entry).index = pos.index - entry.type_len
<1>1. entry.index \in Int /\ entry.type_len \in Int /\ pos.index \in Int /\ pos.col_no \in Int
  BY DEF Insertion
<1>2. CASE entry.index >= pos.index
  BY <1>1, <1>2 DEF Discount
<1>3. CASE ~(entry.index >= pos.index)
  <2> DEFINE c == IF entry.line_no = pos.line_no THEN pos.col_no - entry.type_len ELSE pos.col_no
             i == pos.index - entry.type_len
  <2>1. Discount(pos, entry) = [pos EXCEPT !.index = i, !.col_no = c]
    BY <1>3 DEF Discount
  <2>2. c \in Int /\ i \in Int
    BY <1>1
  <2> HIDE DEF c, i
  <2>3. /\ [pos EXCEPT !.index = i, !.col_no = c] \in [line_no : {line}, col_no : Int, index : Int]
        /\ [pos EXCEPT !.index = i, !.col_no = c].index = i
    BY <2>2
  <2> QED
    BY <1>1, <1>3, <2>1, <2>3 DEF i
<1> QED
  BY <1>2, <1>3

\* As much as k insertions can add: two characters for each begin, six with its end.
Off(k) == 3 * k - (k % 2)

LEMMA OffGrows ==
  ASSUME NEW j \in Nat, NEW k \in Nat
  PROVE  /\ Off(k) \in Int /\ Off(0) = 0
         /\ j <= k => Off(j) <= Off(k)
         /\ k % 2 = 0 => Off(k) = 3 * k /\ Off(k + 1) = 3 * k + 2
         /\ k % 2 = 1 => Off(k) = 3 * k - 1 /\ Off(k + 1) = 3 * k + 3
<1>1. k % 2 \in 0 .. 1 /\ j % 2 \in 0 .. 1 /\ 0 % 2 = 0
  OBVIOUS
<1>2. k % 2 = 0 => (k + 1) % 2 = 1
  OBVIOUS
<1>3. k % 2 = 1 => (k + 1) % 2 = 0
  OBVIOUS
<1>4. j <= k => Off(j) <= Off(k)
  <2>1. CASE j = k
    BY <1>1, <2>1 DEF Off
  <2>2. CASE j < k
    BY <1>1, <2>2 DEF Off
  <2> QED
    BY <2>1, <2>2
<1> QED
  BY <1>1, <1>2, <1>3, <1>4 DEF Off

\* The insertions come in pairs of a begin and an end.
Alternate ==
  \A k \in 1 .. Len(insertions) : insertions[k].type_len = IF k % 2 = 1 THEN 2 ELSE 3

\* The line is left alone, and an insertion is discounted only if it is before the position.
LEMMA Rectified ==
  ASSUME TypeOK, NEW line \in Int, NEW pos \in [line_no : {line}, col_no : Int, index : Int]
  PROVE  LET rectified == RectifyCompilationInfo(pos)
         IN  /\ rectified \in [line_no : {line}, col_no : Int, index : Int]
             /\ Alternate =>
                  \E j \in 0 .. Len(insertions) :
                     /\ j = 0 \/ insertions[j].index < pos.index
                     /\ rectified.index >= pos.index - Off(j)
<1> DEFINE R == [line_no : {line}, col_no : Int, index : Int]
<1>1. PICK f : /\ f[0] = pos
               /\ \A k \in 1 .. Len(insertions) : f[k] = Discount(f[k - 1], insertions[k])
               /\ RectifyCompilationInfo(pos) = f[Len(insertions)]
  BY RectifyStepByStep
<1> DEFINE Good(k) == /\ f[k] \in R /\ f[k].index <= pos.index
                      /\ Alternate =>
                           \E j \in 0 .. k : /\ j = 0 \/ insertions[j].index < pos.index
                                             /\ f[k].index >= pos.index - Off(j)
           S == {k \in Nat : k <= Len(insertions) => Good(k)}
<1>2. Len(insertions) \in Nat /\ \A k \in 1 .. Len(insertions) : insertions[k] \in Insertion
  BY LenProperties, ElementOfSeq DEF TypeOK, Insertion
<1>3. 0 \in S
  <2>1. 0 \in 0 .. 0 /\ Off(0) = 0 /\ pos.index \in Int
    BY OffGrows
  <2>2. pos.index >= pos.index - Off(0) /\ pos.index <= pos.index
    BY <2>1
  <2>3. Good(0)
    BY <1>1, <2>1, <2>2
  <2> QED
    BY <2>3
<1>4. ASSUME NEW k \in Nat, k \in S, k + 1 <= Len(insertions)
      PROVE  Good(k + 1)
  <2> DEFINE entry == insertions[k + 1]
             new == f[k + 1]
             old == f[k]
  <2>1. k + 1 \in 1 .. Len(insertions) /\ (k + 1) - 1 = k
    BY <1>2, <1>4
  <2>2. Good(k)
    BY <1>2, <1>4
  <2>3. new = Discount(old, entry) /\ entry \in Insertion /\ old \in R /\ old.index <= pos.index
    BY <1>1, <1>2, <2>1, <2>2
  <2>4. /\ entry.type_len \in Nat /\ entry.index \in Nat
        /\ old.index \in Int /\ pos.index \in Int
    BY <2>3 DEF Insertion
  <2>5. Alternate => entry.type_len = IF (k + 1) % 2 = 1 THEN 2 ELSE 3
    BY <2>1 DEF Alternate
  <2>6. Alternate => \E j \in 0 .. k : /\ j = 0 \/ insertions[j].index < pos.index
                                       /\ old.index >= pos.index - Off(j)
    BY <2>2
  <2> HIDE DEF entry, new, old
  <2>7. /\ new \in R /\ (entry.index >= old.index => new = old)
        /\ entry.index < old.index => new.index = old.index - entry.type_len
    BY <2>3, DiscountFields
  <2>8. new.index <= pos.index
    BY <2>3, <2>4, <2>7
  <2>9. ASSUME Alternate
        PROVE  \E j \in 0 .. k + 1 : /\ j = 0 \/ insertions[j].index < pos.index
                                     /\ new.index >= pos.index - Off(j)
    <3>1. PICK j \in 0 .. k : /\ j = 0 \/ insertions[j].index < pos.index
                              /\ old.index >= pos.index - Off(j)
      BY <2>6, <2>9
    <3>2. CASE entry.index >= old.index
      <4>1. j \in 0 .. k + 1
        OBVIOUS
      <4> QED
        BY <2>7, <3>1, <3>2, <4>1
    <3>3. CASE entry.index < old.index
      <4>1. k + 1 \in 0 .. k + 1 /\ insertions[k + 1].index < pos.index
        BY <2>3, <2>4, <3>3 DEF entry
      <4>2. Off(j) <= Off(k) /\ Off(j) \in Int /\ Off(k) \in Int /\ Off(k + 1) \in Int
        BY OffGrows
      <4>3. Off(k) + entry.type_len <= Off(k + 1)
        <5>1. k % 2 = 0 \/ k % 2 = 1
          OBVIOUS
        <5>2. k % 2 = 0 => (k + 1) % 2 = 1
          OBVIOUS
        <5>3. k % 2 = 1 => (k + 1) % 2 = 0
          OBVIOUS
        <5>4. CASE k % 2 = 0
          <6>1. entry.type_len = 2 /\ Off(k) = 3 * k /\ Off(k + 1) = 3 * k + 2
            BY <2>5, <2>9, <5>2, <5>4, OffGrows
          <6> QED
            BY <6>1
        <5>5. CASE k % 2 = 1
          <6>1. entry.type_len = 3 /\ Off(k) = 3 * k - 1 /\ Off(k + 1) = 3 * k + 3
            BY <2>5, <2>9, <5>3, <5>5, OffGrows
          <6> QED
            BY <6>1
        <5> QED
          BY <5>1, <5>4, <5>5
      <4>4. new.index >= pos.index - Off(k + 1)
        BY <2>4, <2>7, <3>1, <3>3, <4>2, <4>3
      <4> QED
        BY <4>1, <4>4
    <3> QED
      BY <2>4, <3>2, <3>3
  <2> QED
    BY <2>7, <2>8, <2>9 DEF new
<1>5. \A k \in Nat : k \in S => k + 1 \in S
  <2> HIDE DEF Good
  <2> QED
    BY <1>4
<1> HIDE DEF S
<1>6. Len(insertions) \in S
  BY <1>2, <1>3, <1>5, Induction
<1>7. Good(Len(insertions))
  <2> HIDE DEF Good
  <2> QED
    BY <1>2, <1>6 DEF S
<1> QED
  BY <1>1, <1>7

-------------------------------------------------------------------------------
(***************************************************************************)
(* The lines of the lexer's output.                                        *)
(***************************************************************************)
\* No newline is inserted.
NewlinesAreCopied(text) ==
  \A k \in 1 .. Len(text) : text[k].sym = "newline" => text[k].at # 0

LEMMA NewlinesAppend ==
  ASSUME NEW text \in Seq(Char), NewlinesAreCopied(text), NEW c \in Char,
         c.sym = "newline" => c.at # 0
  PROVE  NewlinesAreCopied(Append(text, c))
<1>1. /\ Len(Append(text, c)) = Len(text) + 1 /\ Len(text) \in Nat
      /\ Append(text, c)[Len(text) + 1] = c
      /\ \A k \in 1 .. Len(text) : Append(text, c)[k] = text[k]
  BY AppendProperties, LenProperties
<1>2. \A k \in 1 .. Len(text) + 1 : k \in 1 .. Len(text) \/ k = Len(text) + 1
  BY <1>1
<1> QED
  BY <1>1, <1>2 DEF NewlinesAreCopied

LEMMA NewlinesPrefix ==
  ASSUME NEW s \in Seq(Char), NEW t \in Seq(Char), NewlinesAreCopied(s \o t)
  PROVE  NewlinesAreCopied(s)
<1>1. /\ Len(s \o t) = Len(s) + Len(t) /\ Len(s) \in Nat /\ Len(t) \in Nat
      /\ \A k \in 1 .. Len(s) + Len(t) : (s \o t)[k] = IF k <= Len(s) THEN s[k] ELSE t[k - Len(s)]
  BY ConcatProperties, LenProperties
<1>2. \A k \in 1 .. Len(s) : k \in 1 .. Len(s \o t) /\ (s \o t)[k] = s[k]
  BY <1>1
<1> QED
  BY <1>2 DEF NewlinesAreCopied

LEMMA NewlinesComment ==
  ASSUME NEW s \in Seq(Char), NEW q, NEW t, IsCommentOf(t, q), NewlinesAreCopied(s \o q)
  PROVE  NewlinesAreCopied(s \o t)
<1>1. t \in Seq(Char) /\ q \in Seq(Char) /\ Len(t) = Len(q) + 6
  BY DEF IsCommentOf
<1>2. /\ Len(s \o q) = Len(s) + Len(q) /\ Len(s) \in Nat /\ Len(q) \in Nat
      /\ \A k \in 1 .. Len(s) + Len(q) : (s \o q)[k] = IF k <= Len(s) THEN s[k] ELSE q[k - Len(s)]
  BY <1>1, ConcatProperties, LenProperties
<1>3. /\ Len(s \o t) = Len(s) + Len(t)
      /\ \A k \in 1 .. Len(s) + Len(t) : (s \o t)[k] = IF k <= Len(s) THEN s[k] ELSE t[k - Len(s)]
  BY <1>1, ConcatProperties
<1>4. NewlinesAreCopied(s)
  BY <1>1, NewlinesPrefix
<1>5. ASSUME NEW k \in 1 .. Len(q), q[k].sym = "newline"
      PROVE  q[k].at # 0
  <2>1. k + Len(s) \in 1 .. Len(s \o q) /\ (s \o q)[k + Len(s)] = q[k]
    <3>1. /\ k + Len(s) \in 1 .. Len(s) + Len(q) /\ ~(k + Len(s) <= Len(s))
          /\ k + Len(s) - Len(s) = k
      BY <1>2
    <3> QED
      BY <1>2, <3>1
  <2> QED
    BY <1>5, <2>1 DEF NewlinesAreCopied
<1>6. ASSUME NEW k \in 1 .. Len(t), t[k].sym = "newline"
      PROVE  t[k].at # 0
  <2>1. ~(k <= 2 \/ k > Len(q) + 2) /\ k \in 1 .. Len(q) + 6
    BY <1>1, <1>6 DEF IsCommentOf
  <2>2. k - 2 \in 1 .. Len(q) /\ (k - 2) + 2 = k
    BY <1>2, <2>1
  <2>3. t[k].at = q[k - 2].at /\ q[k - 2].sym = "newline"
    BY <1>6, <2>2 DEF IsCommentOf
  <2> QED
    BY <1>5, <2>2, <2>3
<1>7. ASSUME NEW k \in 1 .. Len(s \o t), (s \o t)[k].sym = "newline"
      PROVE  (s \o t)[k].at # 0
  <2>1. CASE k <= Len(s)
    BY <1>2, <1>3, <1>4, <1>7, <2>1 DEF NewlinesAreCopied
  <2>2. CASE ~(k <= Len(s))
    <3>1. k - Len(s) \in 1 .. Len(t) /\ (s \o t)[k] = t[k - Len(s)]
      BY <1>1, <1>2, <1>3, <2>2
    <3> QED
      BY <1>6, <1>7, <3>1
  <2> QED
    BY <2>1, <2>2
<1> QED
  BY <1>7 DEF NewlinesAreCopied

\* All that comes before a symbol of the text in the source is in the text.
Closed(text, read) ==
  \A j \in 1 .. Len(text) : text[j].at # 0 =>
     \A n \in 1 .. text[j].at : \E i \in 1 .. Len(text) :
        text[i].at = n /\ (text[i].sym = "newline" <=> read[n] = "newline")

LEMMA ClosedPrefix ==
  ASSUME NEW s \in Seq(Char), NEW q \in Seq(Char), NEW read \in Seq(Symbols),
         Ordered(s \o q, Len(read)), Covers(s \o q, read, TRUE)
  PROVE  Closed(s, read)
<1>1. /\ Len(s \o q) = Len(s) + Len(q) /\ Len(s) \in Nat /\ Len(q) \in Nat /\ Len(read) \in Nat
      /\ \A i \in 1 .. Len(s) + Len(q) : (s \o q)[i] = IF i <= Len(s) THEN s[i] ELSE q[i - Len(s)]
  BY ConcatProperties, LenProperties
<1>2. \A i \in 1 .. Len(s) : i \in 1 .. Len(s \o q) /\ (s \o q)[i] = s[i]
  BY <1>1
<1>3. ASSUME NEW j \in 1 .. Len(s), s[j].at # 0, NEW n \in 1 .. s[j].at
      PROVE  \E i \in 1 .. Len(s) :
                s[i].at = n /\ (s[i].sym = "newline" <=> read[n] = "newline")
  <2>1. s[j].at \in Nat /\ s[j].at <= Len(read)
    <3>1. s[j] \in Char
      BY ElementOfSeq
    <3> QED
      BY <1>2, <3>1 DEF Ordered, Char
  <2>2. n \in 1 .. Len(read) /\ n # 0
    BY <1>1, <1>3, <2>1
  <2>3. PICK i \in 1 .. Len(s \o q) :
           (s \o q)[i].at = n /\ ((s \o q)[i].sym = "newline" <=> read[n] = "newline")
    BY <2>2 DEF Covers
  <2>4. CASE i <= Len(s)
    <3>1. i \in 1 .. Len(s)
      BY <1>1, <2>4
    <3> QED
      BY <1>2, <2>3, <3>1
  <2>5. CASE ~(i <= Len(s))
    <3>1. j < i /\ j \in 1 .. Len(s \o q) /\ (s \o q)[j] = s[j]
      BY <1>1, <1>2, <2>5
    <3>2. (s \o q)[j].at < (s \o q)[i].at
      BY <1>3, <2>2, <2>3, <3>1 DEF Ordered
    <3> QED
      BY <1>3, <2>1, <2>3, <3>1, <3>2
  <2> QED
    BY <2>4, <2>5
<1> QED
  BY <1>3 DEF Closed

\* More that is read does not matter.
LEMMA ClosedReads ==
  ASSUME NEW text \in Seq(Char), NEW read \in Seq(Symbols), NEW sym \in Symbols,
         Ordered(text, Len(read)), Closed(text, read)
  PROVE  Closed(text, Append(read, sym))
<1>1. Len(read) \in Nat /\ \A n \in 1 .. Len(read) : Append(read, sym)[n] = read[n]
  BY LenProperties, AppendProperties
<1>2. ASSUME NEW j \in 1 .. Len(text), NEW n \in 1 .. text[j].at
      PROVE  n \in 1 .. Len(read)
  <2>1. text[j].at \in Nat /\ text[j].at <= Len(read)
    <3>1. text[j] \in Char
      BY ElementOfSeq
    <3> QED
      BY <3>1 DEF Ordered, Char
  <2> QED
    BY <1>1, <2>1
<1> QED
  BY <1>1, <1>2 DEF Closed

LineInv ==
  /\ OrderInv /\ CoverInv
  /\ lex_op # "kJsify"
  /\ Ordered(js_code, Len(source))
  /\ NewlinesAreCopied(Output)
  /\ lex_op = "kCommentN1QL" => Closed(js_code, source)

LEMMA NewlinesNext ==
  ASSUME "openEnd" \notin Features, TypeOK, TypeOK', OrderInv, NewlinesAreCopied(Output), [Next]_vars
  PROVE  NewlinesAreCopied(Output')
<1>1. Output \in Seq(Char) /\ js_code \in Seq(Char) /\ Len(source) \in Nat
  BY OutputType, LenProperties DEF TypeOK
<1>2. ASSUME NEW op, Call(op)
      PROVE  NewlinesAreCopied(Output')
  <2>1. yystate' = "INITIAL" /\ js_code' = <<>>
    BY <1>2 DEF Call, OrderInv, EndsInCode
  <2>2. Output' = <<>>
    BY <2>1, OutputTypeNext
  <2> QED
    BY <2>2 DEF NewlinesAreCopied
<1>3. ASSUME NEW sym, NEW c, Grows(sym, c)
      PROVE  NewlinesAreCopied(Output')
  <2>1. Output' = Append(Output, c) /\ c \in Char /\ c.at # 0
    BY <1>1, <1>3 DEF Grows
  <2>2. NewlinesAreCopied(Append(Output, c))
    BY <1>1, <2>1, NewlinesAppend
  <2> QED
    BY <2>1, <2>2
<1>4. ASSUME UNCHANGED Output
      PROVE  NewlinesAreCopied(Output')
  BY <1>4
<1>5. ASSUME Echo
      PROVE  UNCHANGED Output
  BY <1>5 DEF Echo, Output
<1>6. ASSUME NEW valid \in BOOLEAN, NEW expression \in BOOLEAN, EndQuery(valid, expression)
      PROVE  NewlinesAreCopied(Output')
  <2>1. PICK query \in Seq(Char), c \in Char :
            /\ js_code \o query = Append(Output, c)
            /\ c.at = Len(source) + 1 /\ c.sym = "semicolon" /\ "semicolon" \in Symbols
            /\ source' = Append(source, "semicolon") /\ lex_op' = lex_op
            /\ \/ code' = "kN1QLParserError" /\ Output' = js_code
               \/ code' = code /\ Output' = js_code \o query
               \/ /\ code' = code /\ lex_op = "kJsify"
                  /\ Output' = Append(js_code, Inserted("query"))
               \/ /\ code' = code
                  /\ \E t : IsCommentOf(t, query) /\ Output' = js_code \o t
    BY <1>6, EndQueryOutput
  <2>2. NewlinesAreCopied(js_code \o query)
    BY <1>1, <2>1, NewlinesAppend
  <2>3. NewlinesAreCopied(js_code)
    BY <1>1, <2>2, NewlinesPrefix
  <2>4. Inserted("query") \in Char /\ Inserted("query").sym # "newline"
    BY DEF Inserted, Char, OutputSymbols
  <2>5. NewlinesAreCopied(Append(js_code, Inserted("query")))
    BY <1>1, <2>3, <2>4, NewlinesAppend
  <2>6. ASSUME NEW t, IsCommentOf(t, query)
        PROVE  NewlinesAreCopied(js_code \o t)
    BY <1>1, <2>2, <2>6, NewlinesComment
  <2> QED
    BY <2>1, <2>2, <2>3, <2>5, <2>6
<1> QED
  BY <1>2, <1>3, <1>4, <1>5, <1>6, OutputNext DEF OrderInv

\* Every call of the lexer is a compilation.
OnlyCompiled == LexOps = {"kCommentN1QL"}

WholeLines == Features \cap {"openEnd", "continuation", "stringNewline"} = {}

LEMMA LineNext ==
  ASSUME OnlyCompiled, WholeLines, TypeOK, TypeOK', LineInv, [Next]_vars
  PROVE  LineInv'
<1>0. Features \cap {"continuation", "stringNewline"} = {} /\ "openEnd" \notin Features
  BY DEF WholeLines
<1>1. /\ OrderInv /\ CoverInv /\ lex_op # "kJsify" /\ NewlinesAreCopied(Output)
      /\ Ordered(js_code, Len(source))
      /\ lex_op = "kCommentN1QL" => Closed(js_code, source)
  BY DEF LineInv
<1>2. OrderInv' /\ CoverInv' /\ NewlinesAreCopied(Output)'
  <2>1. OrderInv'
    BY <1>0, <1>1, OrderNext
  <2>2. CoverInv'
    BY <1>0, <1>1, CoverNext
  <2>3. NewlinesAreCopied(Output')
    BY <1>0, <1>1, NewlinesNext
  <2> QED
    BY <2>1, <2>2, <2>3 DEF NewlinesAreCopied
<1>3. lex_op' # "kJsify"
  <2>1. \A op \in LexOps : op # "kJsify"
    BY DEF OnlyCompiled
  <2>2. \/ \E op \in LexOps : Call(op)
        \/ UNCHANGED lex_op
    BY <1>0, <1>1, StepKinds DEF OrderInv, Copies, Reads, Echo, Keyword, QueryText, EndQuery, vars
  <2> QED
    BY <1>1, <2>1, <2>2 DEF Call
<1>4. js_code' \in Seq(Char) /\ n1ql_query' \in Seq(Char) /\ source' \in Seq(Symbols)
      /\ Len(source') \in Nat
  BY LenProperties DEF TypeOK, Text, Char
<1>5. Ordered(Output', Len(source'))
  BY <1>2 DEF OrderInv, Ordered
<1>6. \E q \in Seq(Char) : Output' = js_code' \o q
  <2>1. CASE yystate' = "N1QL"
    BY <1>4, <2>1, OutputTypeNext
  <2>2. CASE yystate' # "N1QL"
    <3>1. Output' = js_code' \o <<>> /\ <<>> \in Seq(Char)
      BY <1>4, <2>2, OutputTypeNext, ConcatEmptySeq
    <3> QED
      BY <3>1
  <2> QED
    BY <2>1, <2>2
<1>7. PICK q \in Seq(Char) : Output' = js_code' \o q
  BY <1>6
<1>8. Ordered(js_code', Len(source'))
  BY <1>4, <1>5, <1>7, OrderedPrefix
<1>9. ASSUME lex_op' = "kCommentN1QL"
      PROVE  Closed(js_code', source')
  <2>1. CASE code' # "kN1QLParserError"
    <3>1. Covers(Output', source', TRUE)
      <4>1. Covers(Output', source', lex_op' = "kCommentN1QL")
        BY <1>2, <1>3, <2>1 DEF CoverInv, Covers
      <4> QED
        BY <1>9, <4>1 DEF Covers
    <3> QED
      BY <1>4, <1>5, <1>7, <3>1, ClosedPrefix
  <2>2. CASE code' = "kN1QLParserError"
    <3>1. /\ js_code' = js_code /\ lex_op' = lex_op
          /\ source' = source \/ \E sym \in Symbols : source' = Append(source, sym)
      <4>1. ASSUME NEW valid \in BOOLEAN, NEW expression \in BOOLEAN, EndQuery(valid, expression)
            PROVE  /\ js_code' = js_code /\ lex_op' = lex_op
                   /\ \E sym \in Symbols : source' = Append(source, sym)
        BY <2>2, <4>1 DEF EndQuery, Reads
      <4>2. \/ \E valid, expression \in BOOLEAN : EndQuery(valid, expression)
            \/ UNCHANGED vars
        BY <1>0, <1>1, <2>2, StepKinds DEF OrderInv, Call, Copies, Reads, Echo, Keyword, QueryText
      <4> QED
        BY <4>1, <4>2 DEF vars
    <3>2. js_code \in Seq(Char) /\ source \in Seq(Symbols)
      BY DEF TypeOK, Text, Char
    <3>3. Closed(js_code, source)
      BY <1>1, <1>9, <3>1
    <3> QED
      BY <1>1, <3>1, <3>2, <3>3, ClosedReads
  <2> QED
    BY <2>1, <2>2
<1> QED
  BY <1>2, <1>3, <1>8, <1>9 DEF LineInv, Closed, Ordered

LEMMA LineInit == Init => LineInv
<1> SUFFICES ASSUME Init
             PROVE  LineInv
  OBVIOUS
<1>1. Output = <<>> /\ js_code = <<>> /\ source = <<>>
  BY TypeInit, OutputType DEF Init
<1>2. Len(Output) = 0 /\ Len(js_code) = 0 /\ 1 .. 0 = {}
  BY <1>1
<1> QED
  BY <1>2, OpenerValues
  DEF Init, LineInv, OrderInv, CoverInv, ReturnsToCode, EndsInCode, Ordered, Covers,
      NewlinesAreCopied

\* A symbol that was copied is a newline only if it was one.
LEMMA CopiedAsItIs ==
  ASSUME TypeOK, LineInv, lex_op = "kCommentN1QL",
         NEW i \in 1 .. Len(js_code), js_code[i].at # 0
  PROVE  js_code[i].sym = "newline" <=> source[js_code[i].at] = "newline"
<1>1. js_code \in Seq(Char) /\ Len(js_code) \in Nat /\ js_code[i] \in Char
  BY LenProperties, ElementOfSeq DEF TypeOK, Text, Char
<1>2. js_code[i].at \in 1 .. js_code[i].at
  BY <1>1 DEF Char
<1>3. PICK k \in 1 .. Len(js_code) :
         /\ js_code[k].at = js_code[i].at
         /\ js_code[k].sym = "newline" <=> source[js_code[i].at] = "newline"
  BY <1>2 DEF LineInv, Closed
<1>4. ~(k < i) /\ ~(i < k)
  <2>1. js_code[i].at \in Nat
    BY <1>1 DEF Char
  <2>2. ~(js_code[i].at < js_code[i].at)
    BY <2>1
  <2> QED
    BY <1>3, <2>2 DEF LineInv, Ordered
<1>5. k = i
  BY <1>1, <1>4
<1> QED
  BY <1>3, <1>5

\* In front of a symbol that was copied there are as many lines as in the source.
LEMMA LinesAgree ==
  ASSUME TypeOK, LineInv, lex_op = "kCommentN1QL",
         NEW i \in 1 .. Len(js_code), js_code[i].at # 0
  PROVE  Newlines(SubSeq(js_code, 1, i - 1)) = NewlinesBefore(js_code[i].at)
<1> DEFINE text == SubSeq(js_code, 1, i - 1)
           n == js_code[i].at
           A == {k \in 1 .. i - 1 : js_code[k].sym = "newline"}
           B == {m \in 1 .. n - 1 : source[m] = "newline"}
           f == [k \in A |-> js_code[k].at]
<1>1. js_code \in Seq(Char) /\ Len(js_code) \in Nat
      /\ \A k \in 1 .. Len(js_code) : js_code[k] \in Char
  BY LenProperties, ElementOfSeq DEF TypeOK, Text, Char
<1>2. n \in Nat /\ n # 0 /\ \A k \in 1 .. Len(js_code) : js_code[k].at \in Nat
  BY <1>1 DEF Char
<1>3. Newlines(text) = Cardinality(A)
  <2>1. /\ Len(text) = i - 1 /\ text \in Seq(Char)
        /\ \A k \in 1 .. i - 1 : text[k] = js_code[k]
    <3>1. 1 \in Int /\ i - 1 \in Int /\ \A k \in 1 .. i - 1 : js_code[k] \in Char
      BY <1>1
    <3>2. /\ text \in Seq(Char)
          /\ Len(text) = IF 1 <= i - 1 THEN (i - 1) - 1 + 1 ELSE 0
          /\ \A k \in 1 .. (i - 1) - 1 + 1 : text[k] = js_code[1 + k - 1]
      BY <3>1, SubSeqProperties
    <3>3. Len(text) = i - 1
      BY <1>1, <3>2
    <3>4. \A k \in 1 .. i - 1 : k \in 1 .. (i - 1) - 1 + 1 /\ 1 + k - 1 = k
      BY <1>1
    <3> QED
      BY <3>2, <3>3, <3>4
  <2> HIDE DEF text
  <2>2. DOMAIN text = 1 .. i - 1
    BY <2>1, LenProperties
  <2>3. {k \in DOMAIN text : text[k].sym = "newline"} = A
    BY <2>1, <2>2
  <2> QED
    BY <2>3 DEF Newlines
<1>4. NewlinesBefore(n) = Cardinality(B)
  BY DEF NewlinesBefore
<1>5. \A k \in A : /\ k \in 1 .. Len(js_code) /\ k < i /\ js_code[k].at # 0
                   /\ js_code[k].sym = "newline"
  <2>1. \A k \in 1 .. i - 1 : k \in 1 .. Len(js_code) /\ k < i
    BY <1>1
  <2>2. \A k \in 1 .. Len(js_code) : js_code[k].sym = "newline" => js_code[k].at # 0
    <3>1. PICK q \in Seq(Char) : Output = js_code \o q
      <4>1. CASE yystate = "N1QL"
        BY <4>1, OutputType
      <4>2. CASE yystate # "N1QL"
        <5>1. Output = js_code \o <<>> /\ <<>> \in Seq(Char)
          BY <1>1, <4>2, OutputType, ConcatEmptySeq
        <5> QED
          BY <5>1
      <4> QED
        BY <4>1, <4>2
    <3>2. NewlinesAreCopied(js_code)
      BY <1>1, <3>1, NewlinesPrefix DEF LineInv
    <3> QED
      BY <3>2 DEF NewlinesAreCopied
  <2> QED
    BY <2>1, <2>2
<1>6. ASSUME NEW k \in A
      PROVE  f[k] \in B
  <2>1. js_code[k].at < n
    BY <1>5 DEF LineInv, Ordered
  <2>2. source[js_code[k].at] = "newline"
    BY <1>5, CopiedAsItIs
  <2>3. f[k] = js_code[k].at /\ js_code[k].at \in 1 .. n - 1
    BY <1>2, <1>5, <2>1
  <2> QED
    BY <2>2, <2>3
<1>7. ASSUME NEW k \in A, NEW m \in A, f[k] = f[m]
      PROVE  k = m
  <2>1. js_code[k].at = js_code[m].at
    BY <1>7
  <2>2. ~(k < m) /\ ~(m < k)
    BY <1>2, <1>5, <2>1 DEF LineInv, Ordered
  <2> QED
    BY <1>1, <1>5, <2>2
<1>8. ASSUME NEW m \in B
      PROVE  \E k \in A : f[k] = m
  <2>1. m \in 1 .. n /\ m < n /\ m # 0 /\ source[m] = "newline"
    BY <1>2
  <2>2. PICK k \in 1 .. Len(js_code) : js_code[k].at = m /\ js_code[k].sym = "newline"
    BY <2>1 DEF LineInv, Closed
  <2>3. ~(i < k) /\ k # i
    BY <1>2, <2>1, <2>2 DEF LineInv, Ordered
  <2>4. k \in 1 .. i - 1
    BY <1>1, <2>3
  <2>5. k \in A
    BY <2>2, <2>4
  <2> QED
    BY <2>2, <2>5
<1>9. IsFiniteSet(A)
  <2>1. IsFiniteSet(1 .. i - 1)
    BY <1>1, FS_Interval
  <2> QED
    BY <2>1, FS_Subset
<1>10. ExistsBijection(A, B)
  <2>1. f \in [A -> B]
    BY <1>6
  <2> HIDE DEF f, A, B
  <2>2. f \in Bijection(A, B)
    BY <1>7, <1>8, <2>1 DEF Bijection, Injection, Surjection, IsInjective
  <2> QED
    BY <2>2 DEF ExistsBijection
<1> HIDE DEF A, B
<1>11. Cardinality(A) = Cardinality(B)
  BY <1>9, <1>10, FS_Bijection
<1> QED
  BY <1>3, <1>4, <1>11

-------------------------------------------------------------------------------
(***************************************************************************)
(* Types.                                                                  *)
(***************************************************************************)
LEMMA MaxExists ==
  ASSUME NEW n \in Nat, NEW T \in SUBSET (0 .. n), T # {}
  PROVE  Max(T) \in T /\ \A y \in T : Max(T) >= y
<1> DEFINE S == {m \in Nat : \A U \in SUBSET (0 .. m) :
                    U # {} => \E x \in U : \A y \in U : x >= y}
<1>1. 0 \in S
  <2>1. ASSUME NEW U \in SUBSET (0 .. 0), U # {}
        PROVE  0 \in U /\ \A y \in U : 0 >= y
    <3>1. \A y \in U : y = 0
      OBVIOUS
    <3>2. 0 >= 0
      OBVIOUS
    <3>3. PICK y \in U : TRUE
      BY <2>1
    <3> QED
      BY <3>1, <3>2, <3>3
  <2> QED
    BY <2>1
<1>2. ASSUME NEW m \in Nat, m \in S
      PROVE  m + 1 \in S
  <2>1. ASSUME NEW U \in SUBSET (0 .. m + 1), U # {}
        PROVE  \E x \in U : \A y \in U : x >= y
    <3>1. CASE m + 1 \in U
      <4>1. \A y \in U : m + 1 >= y
        OBVIOUS
      <4> QED
        BY <3>1, <4>1
    <3>2. CASE m + 1 \notin U
      <4>1. U \in SUBSET (0 .. m)
        BY <3>2
      <4> QED
        BY <1>2, <2>1, <4>1
    <3> QED
      BY <3>1, <3>2
  <2> QED
    BY <2>1
<1> HIDE DEF S
<1>3. n \in S
  BY <1>1, <1>2, Induction
<1>4. \E x \in T : \A y \in T : x >= y
  BY <1>3 DEF S
<1> QED
  BY <1>4 DEF Max

LEMMA LastLineType ==
  ASSUME NEW text \in Text
  PROVE  LastLine(text) \in Nat
<1> DEFINE T == {0} \cup {i \in DOMAIN text : text[i].sym = "newline"}
<1>1. DOMAIN text = 1 .. Len(text) /\ Len(text) \in Nat
  BY LenProperties DEF Text
<1>2. T \in SUBSET (0 .. Len(text)) /\ T # {}
  BY <1>1
<1> HIDE DEF T
<1>3. Max(T) \in 0 .. Len(text)
  BY <1>1, <1>2, MaxExists
<1>4. Len(text) - Max(T) \in Nat
  BY <1>1, <1>3
<1> QED
  BY <1>4 DEF LastLine, T

\* The two positions that are rectified, and their lines.
LEMMA PrefixType ==
  ASSUME TypeOK, NEW i \in 1 .. Len(js_code)
  PROVE  SubSeq(js_code, 1, i - 1) \in Text
<1>1. js_code \in Seq(Char) /\ \A k \in 1 .. Len(js_code) : js_code[k] \in Char
  BY ElementOfSeq DEF TypeOK, Text, Char
<1>2. 1 \in Int /\ i - 1 \in Int /\ \A k \in 1 .. i - 1 : js_code[k] \in Char
  <2>1. Len(js_code) \in Nat
    BY <1>1, LenProperties
  <2> QED
    BY <1>1, <2>1
<1> QED
  BY <1>2, SubSeqProperties DEF Text, Char

LEMMA PositionTypes ==
  ASSUME TypeOK
  PROVE  /\ last_pos \in [line_no : {Newlines(js_code) + 1}, col_no : Int, index : Int]
         /\ Newlines(js_code) + 1 \in Int
         /\ \A i \in 1 .. Len(js_code) :
               LET line == Newlines(SubSeq(js_code, 1, i - 1)) + 1
               IN  /\ line \in Int
                   /\ ErrorAt(i) \in [line_no : {line}, col_no : Int, index : Int]
<1>1. Len(js_code) \in Nat /\ js_code \in Text
  BY LenProperties DEF TypeOK, Text
<1>2. Newlines(js_code) \in Nat /\ LastLine(js_code) \in Nat
  BY <1>1, NewlinesType, LastLineType
<1>3. \A i \in 1 .. Len(js_code) : /\ Newlines(SubSeq(js_code, 1, i - 1)) \in Nat
                                   /\ LastLine(SubSeq(js_code, 1, i - 1)) \in Nat
  BY PrefixType, NewlinesType, LastLineType
<1> QED
  BY <1>1, <1>2, <1>3 DEF last_pos, ErrorAt

LEMMA CompileStep ==
  ASSUME OnlyCompiled, [CompileNext]_compileVars
  PROVE  [Next]_vars
<1>1. "kCommentN1QL" \in LexOps
  BY DEF OnlyCompiled
<1> QED
  BY <1>1 DEF CompileNext, Compile, Lex, ComposeErrorInfo, ComposeCompilationInfo, Report,
     Next, compileVars, vars

\* A compilation is a call of the lexer, so all that holds of the lexer holds here.
LEMMA CompileLexes ==
  ASSUME OnlyCompiled
  PROVE  CompileSpec => Spec
<1>1. CompileInit => Init
  BY DEF CompileInit
<1>2. [CompileNext]_compileVars => [Next]_vars
  BY CompileStep
<1> QED
  BY <1>1, <1>2, PTL DEF CompileSpec, Spec

-------------------------------------------------------------------------------
(***************************************************************************)
(* The line that is reported.                                              *)
(***************************************************************************)
LEMMA NewlinesLast ==
  ASSUME TypeOK, js_code # <<>>
  PROVE  Newlines(js_code) = Newlines(SubSeq(js_code, 1, Len(js_code) - 1))
                             + IF js_code[Len(js_code)].sym = "newline" THEN 1 ELSE 0
<1> DEFINE n == Len(js_code) - 1
           text == SubSeq(js_code, 1, n)
           A == {k \in DOMAIN text : text[k].sym = "newline"}
           B == {k \in DOMAIN js_code : js_code[k].sym = "newline"}
<1>1. js_code \in Seq(Char)
  BY DEF TypeOK, Text, Char
<1>2. /\ text \in Seq(Char) /\ Len(text) = n /\ \A k \in 1 .. n : text[k] = js_code[k]
      /\ n \in Nat /\ Len(js_code) = n + 1
  BY <1>1, FrontProperties, EmptySeq, LenProperties
<1> HIDE DEF n, text
<1>3. DOMAIN text = 1 .. n /\ DOMAIN js_code = 1 .. n + 1
  BY <1>1, <1>2, LenProperties
<1>4. IsFiniteSet(A) /\ Cardinality(A) \in Nat
  <2>1. IsFiniteSet(1 .. n)
    BY <1>2, FS_Interval
  <2>2. A \in SUBSET (1 .. n)
    BY <1>3
  <2>3. IsFiniteSet(A)
    BY <2>1, <2>2, FS_Subset
  <2> QED
    BY <2>3, FS_CardinalityType
<1>5. n + 1 \notin A
  BY <1>2, <1>3
<1>6. CASE js_code[n + 1].sym = "newline"
  <2>1. \A k \in 1 .. n + 1 : k \in 1 .. n \/ k = n + 1
    BY <1>2
  <2>2. B = A \cup {n + 1}
    BY <1>2, <1>3, <1>6, <2>1
  <2> HIDE DEF A, B
  <2>3. Cardinality(B) = Cardinality(A) + 1
    BY <1>4, <1>5, <2>2, FS_AddElement
  <2> QED
    BY <1>2, <1>6, <2>3 DEF Newlines, A, B, text, n
<1>7. CASE js_code[n + 1].sym # "newline"
  <2>1. \A k \in 1 .. n + 1 : k \in 1 .. n \/ k = n + 1
    BY <1>2
  <2>2. B = A
    BY <1>2, <1>3, <1>7, <2>1
  <2> HIDE DEF A, B
  <2>3. Cardinality(B) = Cardinality(A) + 0
    BY <1>4, <2>2
  <2> QED
    BY <1>2, <1>7, <2>3 DEF Newlines, A, B, text, n
<1> QED
  BY <1>6, <1>7

LineOf(n) == 1 + NewlinesBefore(n) + IF source[n] = "newline" THEN 1 ELSE 0

LEMMA LineOfError ==
  ASSUME TypeOK, LineInv, lex_op = "kCommentN1QL",
         NEW i \in 1 .. Len(js_code), js_code[i].at # 0, js_code[i].sym = "other"
  PROVE  RectifyCompilationInfo(ErrorAt(i)).line_no = LineOf(js_code[i].at)
<1> DEFINE line == Newlines(SubSeq(js_code, 1, i - 1)) + 1
<1>1. line \in Int /\ ErrorAt(i) \in [line_no : {line}, col_no : Int, index : Int]
  BY PositionTypes
<1>2. RectifyCompilationInfo(ErrorAt(i)).line_no = line
  <2> HIDE DEF line
  <2>1. RectifyCompilationInfo(ErrorAt(i)) \in [line_no : {line}, col_no : Int, index : Int]
    BY <1>1, Rectified
  <2> QED
    BY <2>1
<1>3. line = NewlinesBefore(js_code[i].at) + 1
  BY LinesAgree
<1>4. source[js_code[i].at] # "newline"
  BY CopiedAsItIs
<1> HIDE DEF line
<1>5. NewlinesBefore(js_code[i].at) + 1 = 1 + NewlinesBefore(js_code[i].at) + 0
  <2>1. Newlines(SubSeq(js_code, 1, i - 1)) \in Nat
    BY PrefixType, NewlinesType
  <2>2. NewlinesBefore(js_code[i].at) \in Nat
    BY <2>1, LinesAgree
  <2> QED
    BY <2>2
<1> QED
  BY <1>2, <1>3, <1>4, <1>5 DEF LineOf

LEMMA LineOfLast ==
  ASSUME TypeOK, LineInv, lex_op = "kCommentN1QL", js_code # <<>>, js_code[Len(js_code)].at # 0
  PROVE  RectifyCompilationInfo(last_pos).line_no = LineOf(js_code[Len(js_code)].at)
<1> DEFINE line == Newlines(js_code) + 1
           i == Len(js_code)
           before == NewlinesBefore(js_code[i].at)
           more == IF source[js_code[i].at] = "newline" THEN 1 ELSE 0
<1>1. line \in Int /\ last_pos \in [line_no : {line}, col_no : Int, index : Int]
  BY PositionTypes
<1>2. RectifyCompilationInfo(last_pos).line_no = line
  <2> HIDE DEF line
  <2>1. RectifyCompilationInfo(last_pos) \in [line_no : {line}, col_no : Int, index : Int]
    BY <1>1, Rectified
  <2> QED
    BY <2>1
<1>3. i \in 1 .. Len(js_code)
  BY EmptySeq, LenProperties DEF TypeOK, Text
<1>4. before \in Nat /\ Newlines(SubSeq(js_code, 1, i - 1)) = before
  BY <1>3, PrefixType, NewlinesType, LinesAgree
<1>5. Newlines(js_code) = before + more
  BY <1>3, <1>4, NewlinesLast, CopiedAsItIs
<1>6. more \in Nat
  OBVIOUS
<1> HIDE DEF before, more
<1>7. line = 1 + before + more
  BY <1>4, <1>5, <1>6
<1> QED
  BY <1>2, <1>7 DEF LineOf, before, more

\* Nothing is reported while the lexer runs, and nothing comes out before it was called.
ReportInv ==
  /\ code = "lexing" => info = Pending
  /\ lex_op \in LexOps \cup {"none"}
  /\ lex_op = "none" => js_code = <<>> /\ code # "lexing"

LEMMA ReportInit == CompileInit => ReportInv
  BY DEF CompileInit, Init, ReportInv

LEMMA ReportNext ==
  ASSUME OnlyCompiled, ReportInv, [CompileNext]_compileVars
  PROVE  ReportInv'
<1>1. CASE Compile
  BY <1>1 DEF Compile, Call, ReportInv, OnlyCompiled
<1>2. CASE Lex
  <2>1. code = "lexing" /\ info' = info /\ Next
    BY <1>2 DEF Lex
  <2>2. lex_op' = lex_op /\ lex_op # "none"
    BY <2>1 DEF ReportInv, Next, Call, StartComment, StopComment, HandleStrStart, HandleStrStop,
       Copy, Copies, QueryText, Echo, Keyword, EndQuery, ReservedName, EndOfInput, Reads
  <2> QED
    BY <2>1, <2>2 DEF ReportInv
<1>3. CASE ComposeErrorInfo
  <2>1. code \in Errors /\ UNCHANGED vars
    BY <1>3 DEF ComposeErrorInfo, Report
  <2> QED
    BY <2>1 DEF ReportInv, Errors, vars
<1>4. CASE ComposeCompilationInfo
  <2>1. code = "kOK" /\ UNCHANGED vars
    BY <1>4 DEF ComposeCompilationInfo, Report
  <2> QED
    BY <2>1 DEF ReportInv, vars
<1>5. CASE UNCHANGED compileVars
  BY <1>5 DEF compileVars, vars, ReportInv
<1> QED
  BY <1>1, <1>2, <1>3, <1>4, <1>5 DEF CompileNext

\* An error is reported at a symbol of the output that was copied: at one that esprima
\* stopped at, or at the last one.
LEMMA Reports ==
  ASSUME OnlyCompiled, TypeOK, ReportInv, [CompileNext]_compileVars
  PROVE  \/ ~ErrorReported'
         \/ UNCHANGED compileVars
         \/ /\ UNCHANGED vars /\ lex_op = "kCommentN1QL" /\ js_code # <<>>
            /\ \E i \in 1 .. Len(js_code) :
                  /\ js_code[i].at # 0 /\ at' = js_code[i].at
                  /\ \/ js_code[i].sym = "other" /\ info'.pos = RectifyCompilationInfo(ErrorAt(i))
                     \/ i = Len(js_code) /\ info'.pos = RectifyCompilationInfo(last_pos)
<1>1. CASE Compile
  BY <1>1 DEF Compile, ErrorReported, Pending
<1>2. CASE Lex
  BY <1>2 DEF Lex, ReportInv, ErrorReported, Pending
<1>3. js_code # <<>> => lex_op = "kCommentN1QL"
  BY DEF ReportInv, OnlyCompiled
<1>4. DOMAIN js_code = 1 .. Len(js_code) /\ Len(js_code) \in Nat
  BY LenProperties DEF TypeOK, Text
<1>5. ASSUME ComposeErrorInfo, ErrorReported'
      PROVE  /\ UNCHANGED vars /\ js_code # <<>>
             /\ Len(js_code) \in 1 .. Len(js_code)
             /\ js_code[Len(js_code)].at # 0 /\ at' = js_code[Len(js_code)].at
             /\ info'.pos = RectifyCompilationInfo(last_pos)
  <2>1. code # "kKeywordFrom"
    BY <1>5 DEF ComposeErrorInfo, Report, ErrorReported
  <2>2. Report("error", RectifyCompilationInfo(last_pos),
               IF js_code = <<>> THEN 0 ELSE js_code[Len(js_code)].at)
    BY <1>5, <2>1 DEF ComposeErrorInfo
  <2>3. js_code # <<>>
    BY <1>5, <2>2 DEF Report, ErrorReported
  <2>4. Len(js_code) \in 1 .. Len(js_code)
    BY <1>4, <2>3, EmptySeq DEF TypeOK, Text
  <2> QED
    BY <1>5, <2>2, <2>3, <2>4 DEF Report, ErrorReported
<1>6. ASSUME ComposeCompilationInfo, ErrorReported'
      PROVE  /\ UNCHANGED vars
             /\ \E i \in 1 .. Len(js_code) :
                   /\ js_code[i].at # 0 /\ at' = js_code[i].at /\ js_code[i].sym = "other"
                   /\ info'.pos = RectifyCompilationInfo(ErrorAt(i))
  <2>1. ~Report("success", NoPosition, 0)
    BY <1>6 DEF Report, ErrorReported
  <2>2. PICK i \in DOMAIN js_code :
           /\ js_code[i].at # 0 /\ js_code[i].sym = "other"
           /\ Report("error", RectifyCompilationInfo(ErrorAt(i)), js_code[i].at)
    BY <1>6, <2>1 DEF ComposeCompilationInfo
  <2> QED
    BY <1>4, <2>2 DEF Report
<1>7. CASE ComposeErrorInfo
  BY <1>3, <1>5, <1>7
<1>8. CASE ComposeCompilationInfo
  <2>1. js_code = <<>> => 1 .. Len(js_code) = {}
    OBVIOUS
  <2> QED
    BY <1>3, <1>6, <1>8, <2>1
<1> QED
  BY <1>1, <1>2, <1>7, <1>8 DEF CompileNext

\* In sources that end in code and have no string over several lines, the line that is
\* reported is that of the symbol the error is at, after any number of queries, comments
\* and calls; insertions never shift it.
THEOREM LinesAreReported ==
  ASSUME LexOps = {"kCommentN1QL"},
         Features \cap {"openEnd", "continuation", "stringNewline"} = {}
  PROVE  CompileSpec => []ReportedLineIsTheSources
<1>0. OnlyCompiled /\ (CompileSpec => Spec)
  BY CompileLexes DEF OnlyCompiled
<1>1. CompileInit => ReportedLineIsTheSources
  BY DEF CompileInit, ReportedLineIsTheSources, ErrorReported, Pending
<1>2. ASSUME TypeOK, LineInv, ReportInv, ReportedLineIsTheSources, [CompileNext]_compileVars
      PROVE  ReportedLineIsTheSources'
  <2> SUFFICES ASSUME ErrorReported'
               PROVE  info'.pos.line_no = LineOf(at)'
    BY DEF ReportedLineIsTheSources, LineOf
  <2>1. CASE UNCHANGED compileVars
    BY <1>2, <2>1 DEF ReportedLineIsTheSources, ErrorReported, LineOf, NewlinesBefore,
       compileVars, vars
  <2>2. ASSUME UNCHANGED vars, lex_op = "kCommentN1QL", js_code # <<>>,
               NEW i \in 1 .. Len(js_code), js_code[i].at # 0, at' = js_code[i].at,
               \/ js_code[i].sym = "other" /\ info'.pos = RectifyCompilationInfo(ErrorAt(i))
               \/ i = Len(js_code) /\ info'.pos = RectifyCompilationInfo(last_pos)
        PROVE  info'.pos.line_no = LineOf(at)'
    <3>1. info'.pos.line_no = LineOf(js_code[i].at)
      BY <1>2, <2>2, LineOfError, LineOfLast
    <3>2. LineOf(at)' = LineOf(js_code[i].at)
      BY <2>2 DEF LineOf, NewlinesBefore, vars
    <3> QED
      BY <3>1, <3>2
  <2> QED
    BY <1>2, <2>1, <2>2, <1>0, Reports
<1>3. LineInv /\ TypeOK /\ TypeOK' /\ [Next]_vars => LineInv'
  BY <1>0, LineNext DEF WholeLines
<1>4. ReportInv /\ [CompileNext]_compileVars => ReportInv'
  BY <1>0, ReportNext
<1>5. CompileSpec => []TypeOK
  BY <1>0, TypeCorrect, PTL
<1>6. CompileSpec => []LineInv
  BY <1>3, <1>0, TypeCorrect, LineInit, PTL DEF Spec
<1>7. CompileSpec => []ReportInv
  BY <1>4, ReportInit, PTL DEF CompileSpec
<1> QED
  BY <1>1, <1>2, <1>5, <1>6, <1>7, PTL DEF CompileSpec

-------------------------------------------------------------------------------
(***************************************************************************)
(* The index that is reported.  Each of k insertions that are in front of  *)
(* a symbol moves it by at most what Off(k) says.                          *)
(***************************************************************************)
PlaceInv ==
  /\ Alternate
  /\ \A p \in 1 .. Len(js_code) : js_code[p].at # 0 =>
        /\ p >= js_code[p].at
        /\ \A k \in 1 .. Len(insertions) :
              insertions[k].index < p - 1 => p >= js_code[p].at + Off(k)
  /\ ~Unfinished => Len(js_code) = Len(source) + 3 * Len(insertions)
  /\ yystate = "N1QL" =>
        /\ Len(js_code) + Len(n1ql_query) = Len(source) + 3 * Len(insertions) - 3
        /\ \A k \in 1 .. Len(n1ql_query) :
              n1ql_query[k].at = Len(source) - Len(n1ql_query) + k

\* Symbols of a query are replaced in place, between two and four characters.
LEMMA PlaceQueryEnd ==
  ASSUME "expression" \notin Features, TypeOK, TypeOK', MarkInv, PlaceInv,
         lex_op = "kCommentN1QL",
         NEW valid \in BOOLEAN, NEW expression \in BOOLEAN, EndQuery(valid, expression)
  PROVE  PlaceInv'
<1> DEFINE L == Len(insertions)
           n == Len(source)
           J == Len(js_code)
           Q == Len(n1ql_query)
<1>1. /\ L \in Nat /\ n \in Nat /\ J \in Nat /\ Q \in Nat
      /\ js_code \in Seq(Char) /\ n1ql_query \in Seq(Char) /\ source \in Seq(Symbols)
  BY LenProperties DEF TypeOK, Text, Char
<1>2. /\ Reads("semicolon") /\ yystate = "N1QL" /\ yystate' = "INITIAL" /\ code = "lexing"
      /\ lex_op' = lex_op
  BY DEF EndQuery, Reads
<1>3. Unfinished /\ L % 2 = 1
  BY <1>2 DEF Unfinished, MarkInv
<1>4. Len(source') = n + 1
  <2>1. source' = Append(source, "semicolon") /\ "semicolon" \in Symbols
    BY <1>2, ReadsType DEF Reads
  <2> QED
    BY <1>1, <2>1, AppendProperties
<1>5. CASE ~valid
  <2>1. code' = "kN1QLParserError" /\ js_code' = js_code /\ insertions' = insertions
    BY <1>5 DEF EndQuery
  <2>2. Unfinished' /\ yystate' # "N1QL"
    BY <1>2, <2>1 DEF Unfinished
  <2> QED
    BY <2>1, <2>2 DEF PlaceInv, Alternate
<1>6. CASE valid
  <2> DEFINE c == Symbol("semicolon")
             query == Append(n1ql_query, c)
             t == TranspileQuery(query)
  <2>1. /\ js_code' = js_code \o Replacement(query, valid) /\ code' = code
        /\ insertions' = UpdatePos("kN1QLEnd", js_code')
    BY <1>6 DEF EndQuery
  <2>2. Replacement(query, valid) = t
    BY <1>6 DEF Replacement
  <2>3. ~Unfinished' /\ yystate' # "N1QL"
    BY <1>2, <2>1 DEF Unfinished
  <2>4. c \in Char /\ c.at = n + 1
    BY <1>2, ReadsType, SymbolType DEF TypeOK
  <2> HIDE DEF c
  <2>5. /\ query \in Seq(Char) /\ Len(query) = Q + 1 /\ query[Q + 1] = c
        /\ \A k \in 1 .. Q : query[k] = n1ql_query[k]
    BY <1>1, <2>4, AppendProperties
  <2> HIDE DEF query
  <2>6. /\ t \in Seq(Char) /\ Len(t) = Q + 7
        /\ \A k \in 1 .. Q + 1 : t[k + 2].at = query[k].at
        /\ \A k \in 1 .. Q + 7 : k <= 2 \/ k > Q + 3 => t[k].at = 0
    <3>1. query \in Text /\ lex_op # "kJsify"
      BY <2>5 DEF Text, Char
    <3>2. /\ t \in Text /\ Len(t) = Len(query) + 6
          /\ \A k \in 1 .. Len(query) : t[k + 2].at = query[k].at
          /\ \A k \in 1 .. Len(query) + 6 : k <= 2 \/ k > Len(query) + 2 => t[k].at = 0
      BY <3>1, TranspiledShape
    <3>3. Len(query) + 6 = Q + 7 /\ Len(query) + 2 = Q + 3
      BY <1>1, <2>5
    <3> QED
      BY <2>5, <3>2, <3>3 DEF Text, Char
  <2> HIDE DEF t
  <2>7. js_code' = js_code \o t /\ js_code' \in Text
    BY <2>1, <2>2 DEF TypeOK
  <2>8. /\ Len(js_code') = J + Q + 7
        /\ \A p \in 1 .. J : js_code'[p] = js_code[p]
        /\ \A k \in 1 .. Q + 7 : js_code'[J + k] = t[k]
    <3>1. /\ Len(js_code') = J + Len(t)
          /\ \A p \in 1 .. J + Len(t) : js_code'[p] = IF p <= J THEN js_code[p] ELSE t[p - J]
      BY <1>1, <2>6, <2>7, ConcatProperties
    <3>2. ASSUME NEW k \in 1 .. Q + 7
          PROVE  js_code'[J + k] = t[k]
      <4>1. J + k \in 1 .. J + Len(t) /\ ~(J + k <= J) /\ J + k - J = k
        BY <1>1, <2>6
      <4> QED
        BY <3>1, <4>1
    <3>3. ASSUME NEW p \in 1 .. J
          PROVE  js_code'[p] = js_code[p]
      <4>1. p \in 1 .. J + Len(t) /\ p <= J
        BY <1>1, <2>6
      <4> QED
        BY <3>1, <4>1
    <3> QED
      BY <1>1, <2>6, <3>1, <3>2, <3>3
  <2>9. /\ Len(insertions') = L + 1
        /\ \A i \in 1 .. L : insertions'[i] = insertions[i]
        /\ insertions'[L + 1].index = Len(js_code') - 1
        /\ insertions'[L + 1].type_len = 3
    BY <2>1, <2>7, UpdatePosAdds
  <2>10. /\ J + Q = n + 3 * L - 3
         /\ \A k \in 1 .. Q : n1ql_query[k].at = n - Q + k
    BY <1>2 DEF PlaceInv
  <2>11. Alternate'
    <3>1. (L + 1) % 2 # 1
      BY <1>1, <1>3
    <3>2. \A k \in 1 .. L + 1 : k \in 1 .. L \/ k = L + 1
      BY <1>1
    <3> QED
      BY <2>9, <3>1, <3>2 DEF PlaceInv, Alternate
  <2>12. ASSUME NEW p \in 1 .. Len(js_code'), js_code'[p].at # 0
         PROVE  /\ p >= js_code'[p].at
                /\ \A k \in 1 .. L : insertions[k].index < p - 1 => p >= js_code'[p].at + Off(k)
    <3>1. CASE p \in 1 .. J
      BY <2>8, <2>12, <3>1 DEF PlaceInv
    <3>2. CASE p \notin 1 .. J
      <4> DEFINE r == p - J
      <4>1. r \in 1 .. Q + 7 /\ p = J + r
        BY <1>1, <2>8, <2>12, <3>2
      <4> HIDE DEF r
      <4>2. js_code'[p].at = t[r].at
        BY <2>8, <4>1
      <4>3. ~(r <= 2 \/ r > Q + 3)
        BY <2>6, <2>12, <4>1, <4>2
      <4>4. r - 2 \in 1 .. Q + 1 /\ (r - 2) + 2 = r
        BY <1>1, <4>1, <4>3
      <4>5. t[r].at = query[r - 2].at
        BY <2>6, <4>4
      <4>6. query[r - 2].at = n - Q + r - 2
        <5>1. CASE r - 2 = Q + 1
          <6>1. n + 1 = n - Q + r - 2
            BY <1>1, <4>1, <5>1
          <6> QED
            BY <2>4, <2>5, <5>1, <6>1
        <5>2. CASE r - 2 # Q + 1
          <6>1. r - 2 \in 1 .. Q
            BY <1>1, <4>1, <4>4, <5>2
          <6>2. n - Q + (r - 2) = n - Q + r - 2
            BY <1>1, <4>1
          <6> QED
            BY <2>5, <2>10, <6>1, <6>2
        <5> QED
          BY <5>1, <5>2
      <4>7. js_code'[p].at = n - Q + r - 2
        BY <4>2, <4>5, <4>6
      <4>8. p = js_code'[p].at + (3 * L - 1)
        <5> DEFINE a == js_code'[p].at
        <5>1. a = n - Q + r - 2 /\ J + Q = n + 3 * L - 3 /\ p = J + r
          BY <2>10, <4>1, <4>7
        <5> HIDE DEF a, n, Q, J, L
        <5>2. p = a + (3 * L - 1)
          BY <1>1, <4>1, <5>1
        <5> QED
          BY <5>2 DEF a
      <4>9. Off(L) = 3 * L - 1
        BY <1>1, <1>3, OffGrows
      <4>10. ASSUME NEW k \in 1 .. L
             PROVE  p >= js_code'[p].at + Off(k)
        <5>1. k \in Nat /\ k <= L
          BY <1>1
        <5>2. Off(k) <= 3 * L - 1 /\ Off(k) \in Int
          BY <1>1, <4>9, <5>1, OffGrows
        <5> QED
          BY <1>1, <4>1, <4>7, <4>8, <5>2
      <4>11. L >= 1
        BY <1>1, <1>3
      <4> QED
        BY <1>1, <4>1, <4>7, <4>8, <4>10, <4>11
    <3> QED
      BY <3>1, <3>2
  <2>13. ASSUME NEW p \in 1 .. Len(js_code'), js_code'[p].at # 0,
                NEW k \in 1 .. Len(insertions'), insertions'[k].index < p - 1
         PROVE  p >= js_code'[p].at + Off(k)
    <3>1. CASE k = L + 1
      <4>1. Len(js_code') \in Nat
        BY <1>1, <2>8
      <4> QED
        BY <2>9, <2>13, <3>1, <4>1
    <3>2. CASE k # L + 1
      <4>1. k \in 1 .. L
        BY <1>1, <2>9, <3>2
      <4> QED
        BY <2>9, <2>12, <2>13, <4>1
    <3> QED
      BY <3>1, <3>2
  <2>14. Len(js_code') = Len(source') + 3 * Len(insertions')
    <3>1. J + Q = n + 3 * L - 3
      BY <2>10
    <3> HIDE DEF n, Q, J, L
    <3>2. J + Q + 7 = (n + 1) + 3 * (L + 1)
      BY <1>1, <3>1
    <3> QED
      BY <1>4, <2>8, <2>9, <3>2
  <2> QED
    BY <2>3, <2>11, <2>12, <2>13, <2>14 DEF PlaceInv
<1> QED
  BY <1>5, <1>6

\* A symbol is read and comes out, in code or in a query.
LEMMA PlaceCopies ==
  ASSUME TypeOK, TypeOK', MarkInv, PlaceInv, NEW sym, Copies(sym),
         yystate # "N1QL", yystate' # "N1QL"
  PROVE  PlaceInv'
<1> DEFINE L == Len(insertions)
           n == Len(source)
           J == Len(js_code)
<1>1. /\ L \in Nat /\ n \in Nat /\ J \in Nat /\ js_code \in Seq(Char) /\ source \in Seq(Symbols)
  BY LenProperties DEF TypeOK, Text, Char
<1>2. /\ Reads(sym) /\ js_code' = Append(js_code, Symbol(sym)) /\ insertions' = insertions
      /\ code = "lexing" /\ code' = code /\ lex_op' = lex_op /\ source' = Append(source, sym)
      /\ sym \in Symbols /\ sym \in SourceSymbols
  BY ReadsType DEF Copies, Reads
<1>3. ~Unfinished /\ ~Unfinished' /\ L % 2 = 0
  BY <1>2 DEF Unfinished, MarkInv
<1>4. Symbol(sym) \in Char /\ Symbol(sym).at = n + 1
  BY <1>1, <1>2, SymbolType
<1>5. /\ Len(source') = n + 1 /\ Len(js_code') = J + 1 /\ js_code'[J + 1].at = n + 1
      /\ \A p \in 1 .. J : js_code'[p] = js_code[p]
  <2>1. Len(source') = n + 1
    BY <1>1, <1>2, AppendProperties
  <2>2. /\ Len(js_code') = J + 1 /\ js_code'[J + 1] = Symbol(sym)
        /\ \A p \in 1 .. J : js_code'[p] = js_code[p]
    BY <1>1, <1>2, <1>4, AppendProperties
  <2> QED
    BY <1>4, <2>1, <2>2
<1>6. J = n + 3 * L
  BY <1>3 DEF PlaceInv
<1>7. ASSUME NEW p \in 1 .. J + 1, js_code'[p].at # 0
      PROVE  /\ p >= js_code'[p].at
             /\ \A k \in 1 .. L : insertions[k].index < p - 1 => p >= js_code'[p].at + Off(k)
  <2>1. CASE p \in 1 .. J
    BY <1>5, <1>7, <2>1 DEF PlaceInv
  <2>2. CASE p = J + 1
    <3>1. js_code'[p].at = n + 1
      BY <1>5, <2>2
    <3>2. ASSUME NEW k \in 1 .. L
          PROVE  Off(k) <= 3 * L /\ Off(k) \in Int
      <4>1. k \in Nat /\ k <= L
        BY <1>1
      <4>2. Off(L) = 3 * L
        BY <1>1, <1>3, OffGrows
      <4> QED
        BY <1>1, <4>1, <4>2, OffGrows
    <3> HIDE DEF L, n, J
    <3> QED
      BY <1>1, <1>6, <2>2, <3>1, <3>2
  <2> QED
    BY <1>1, <1>7, <2>1, <2>2
<1>8. Len(js_code') = Len(source') + 3 * Len(insertions')
  <2> HIDE DEF n, L, J
  <2>1. J + 1 = (n + 1) + 3 * L
    BY <1>1, <1>6
  <2> QED
    BY <1>2, <1>5, <2>1 DEF L
<1> QED
  BY <1>2, <1>5, <1>7, <1>8 DEF PlaceInv, Alternate

LEMMA PlaceKeyword ==
  ASSUME TypeOK, TypeOK', MarkInv, PlaceInv, lex_op = "kCommentN1QL", Keyword
  PROVE  PlaceInv'
<1> DEFINE L == Len(insertions)
           n == Len(source)
           J == Len(js_code)
<1>1. /\ L \in Nat /\ n \in Nat /\ J \in Nat /\ js_code \in Text /\ source \in Seq(Symbols)
  BY LenProperties DEF TypeOK, Text
<1>2. /\ Reads("keyword") /\ js_code' = js_code /\ n1ql_query' = <<Symbol("keyword")>>
      /\ insertions' = UpdatePos("kN1QLBegin", js_code)
      /\ code = "lexing" /\ code' = code /\ lex_op' = lex_op /\ yystate = "INITIAL"
      /\ yystate' = "N1QL" /\ source' = Append(source, "keyword")
  BY DEF Keyword, Reads
<1>3. ~Unfinished /\ Unfinished' /\ L % 2 = 0
  BY <1>2 DEF Unfinished, MarkInv
<1>4. Symbol("keyword").at = n + 1 /\ "keyword" \in Symbols
  BY <1>1, <1>2, ReadsType, SymbolType
<1>5. Len(source') = n + 1
  BY <1>1, <1>2, <1>4, AppendProperties
<1>6. /\ Len(insertions') = L + 1
      /\ \A i \in 1 .. L : insertions'[i] = insertions[i]
      /\ insertions'[L + 1].index = J /\ insertions'[L + 1].type_len = 2
  BY <1>1, <1>2, UpdatePosAdds
<1>7. \A k \in 1 .. L + 1 : k \in 1 .. L \/ k = L + 1
  BY <1>1
<1>8. Alternate'
  <2>1. (L + 1) % 2 = 1
    BY <1>1, <1>3
  <2> QED
    BY <1>6, <1>7, <2>1 DEF PlaceInv, Alternate
<1>9. ASSUME NEW p \in 1 .. J, js_code[p].at # 0, NEW k \in 1 .. L + 1,
             insertions'[k].index < p - 1
      PROVE  p >= js_code[p].at + Off(k)
  <2>1. k # L + 1
    BY <1>1, <1>6, <1>9
  <2>2. k \in 1 .. L
    BY <1>7, <2>1
  <2> QED
    BY <1>6, <1>9, <2>2 DEF PlaceInv
<1>10. J = n + 3 * L
  BY <1>3 DEF PlaceInv
<1>11. /\ Len(js_code') + Len(n1ql_query') = Len(source') + 3 * Len(insertions') - 3
       /\ \A k \in 1 .. Len(n1ql_query') :
             n1ql_query'[k].at = Len(source') - Len(n1ql_query') + k
  <2>1. Len(n1ql_query') = 1 /\ n1ql_query'[1] = Symbol("keyword")
    BY <1>2
  <2> HIDE DEF n, L, J
  <2>2. J + 1 = (n + 1) + 3 * (L + 1) - 3
    BY <1>1, <1>10
  <2>3. \A k \in 1 .. 1 : k = 1
    OBVIOUS
  <2>4. n + 1 = (n + 1) - 1 + 1
    BY <1>1
  <2>5. Len(js_code') = J
    BY <1>2 DEF J
  <2> QED
    BY <1>4, <1>5, <1>6, <2>1, <2>2, <2>3, <2>4, <2>5
<1> QED
  BY <1>2, <1>3, <1>6, <1>8, <1>9, <1>11 DEF PlaceInv

LEMMA PlaceQueryText ==
  ASSUME TypeOK, TypeOK', PlaceInv, lex_op = "kCommentN1QL", NEW sym, QueryText(sym)
  PROVE  PlaceInv'
<1> DEFINE n == Len(source)
           Q == Len(n1ql_query)
           c == Symbol(IF sym = "newline" /\ lex_op # "kCommentN1QL" THEN "other" ELSE sym)
<1>1. /\ Len(insertions) \in Nat /\ n \in Nat /\ Len(js_code) \in Nat /\ Q \in Nat
      /\ n1ql_query \in Seq(Char) /\ source \in Seq(Symbols)
  BY LenProperties DEF TypeOK, Text, Char
<1>2. /\ Reads(sym) /\ js_code' = js_code /\ n1ql_query' = Append(n1ql_query, c)
      /\ insertions' = insertions /\ code = "lexing" /\ code' = code /\ lex_op' = lex_op
      /\ yystate = "N1QL" /\ yystate' = "N1QL" /\ source' = Append(source, sym)
      /\ sym \in Symbols /\ sym \in SourceSymbols
  BY ReadsType DEF QueryText, Reads
<1>3. c = Symbol(sym)
  OBVIOUS
<1> HIDE DEF c
<1>4. c \in Char /\ c.at = n + 1
  BY <1>1, <1>2, <1>3, SymbolType
<1>5. /\ Len(source') = n + 1 /\ Len(n1ql_query') = Q + 1 /\ n1ql_query'[Q + 1] = c
      /\ \A k \in 1 .. Q : n1ql_query'[k] = n1ql_query[k]
  <2>1. Len(source') = n + 1
    BY <1>1, <1>2, AppendProperties
  <2> QED
    BY <1>1, <1>2, <1>4, <2>1, AppendProperties
<1>6. /\ Len(js_code) + Q = n + 3 * Len(insertions) - 3
      /\ \A k \in 1 .. Q : n1ql_query[k].at = n - Q + k
  BY <1>2 DEF PlaceInv
<1>7. Unfinished /\ Unfinished'
  BY <1>2 DEF Unfinished
<1>8. ASSUME NEW k \in 1 .. Q + 1
      PROVE  n1ql_query'[k].at = (n + 1) - (Q + 1) + k
  <2>1. CASE k = Q + 1
    <3>1. n + 1 = (n + 1) - (Q + 1) + k
      BY <1>1, <2>1
    <3> QED
      BY <1>4, <1>5, <2>1, <3>1
  <2>2. CASE k # Q + 1
    <3>1. k \in 1 .. Q
      BY <1>1, <2>2
    <3>2. n - Q + k = (n + 1) - (Q + 1) + k
      BY <1>1
    <3> QED
      BY <1>5, <1>6, <3>1, <3>2
  <2> QED
    BY <2>1, <2>2
<1>9. Len(js_code) + (Q + 1) = (n + 1) + 3 * Len(insertions) - 3
  <2>1. Len(js_code) + Q = n + 3 * Len(insertions) - 3
    BY <1>6
  <2> HIDE DEF n, Q
  <2> QED
    BY <1>1, <2>1
<1> QED
  BY <1>2, <1>5, <1>7, <1>8, <1>9 DEF PlaceInv, Alternate

ExactSources == Features \cap {"openEnd", "expression", "continuation", "stringNewline"} = {}

LEMMA PlaceNext ==
  ASSUME OnlyCompiled, ExactSources, TypeOK, TypeOK', MarkInv, ReportInv, PlaceInv, [Next]_vars
  PROVE  PlaceInv'
<1>1. ~Echo /\ "openEnd" \notin Features /\ "expression" \notin Features
  BY DEF Echo, ExactSources
<1>2. ASSUME NEW op, Call(op)
      PROVE  PlaceInv'
  <2>1. /\ js_code' = <<>> /\ source' = <<>> /\ insertions' = <<>> /\ code' = "lexing"
        /\ yystate' = "INITIAL"
    BY <1>2 DEF Call, MarkInv, EndsInCode
  <2>2. /\ Len(js_code') = 0 /\ Len(source') = 0 /\ Len(insertions') = 0 /\ 0 = 0 + 3 * 0
        /\ 1 .. 0 = {}
    BY <2>1
  <2> QED
    BY <2>1, <2>2 DEF PlaceInv, Alternate
<1>3. code = "lexing" => lex_op = "kCommentN1QL"
  BY DEF ReportInv, OnlyCompiled
<1>4. ASSUME Keyword
      PROVE  PlaceInv'
  BY <1>3, <1>4, PlaceKeyword DEF Keyword, Reads
<1>5. ASSUME NEW sym, QueryText(sym)
      PROVE  PlaceInv'
  BY <1>3, <1>5, PlaceQueryText DEF QueryText, Reads
<1>6. ASSUME NEW valid \in BOOLEAN, NEW expression \in BOOLEAN, EndQuery(valid, expression)
      PROVE  PlaceInv'
  BY <1>1, <1>3, <1>6, PlaceQueryEnd DEF EndQuery, Reads
<1>7. ASSUME code = "lexing", code' # "kN1QLParserError", yystate # "N1QL",
             UNCHANGED <<lex_op, yystate, js_code, n1ql_query, insertions, source>>
      PROVE  PlaceInv'
  <2>1. ~Unfinished /\ yystate' # "N1QL"
    BY <1>7 DEF Unfinished
  <2> QED
    BY <1>7, <2>1 DEF PlaceInv, Alternate
<1>8. ASSUME UNCHANGED vars
      PROVE  PlaceInv'
  BY <1>8 DEF PlaceInv, Alternate, Unfinished, vars
<1> QED
  BY <1>1, <1>2, <1>4, <1>5, <1>6, <1>7, <1>8, PlaceCopies, StepKinds DEF MarkInv

LEMMA PlaceInit == Init => PlaceInv
<1> SUFFICES ASSUME Init
             PROVE  PlaceInv
  OBVIOUS
<1>1. /\ Len(js_code) = 0 /\ Len(source) = 0 /\ Len(insertions) = 0 /\ 0 = 0 + 3 * 0
      /\ 1 .. 0 = {} /\ yystate # "N1QL"
  BY DEF Init
<1> QED
  BY <1>1 DEF PlaceInv, Alternate

\* Where sources end in code, have no string over several lines and nothing that only
\* starts like a query, the index that is reported is not less than that in the source:
\* insertions behind the error are never discounted.
THEOREM NotTooEarly ==
  ASSUME LexOps = {"kCommentN1QL"},
         Features \cap {"openEnd", "expression", "continuation", "stringNewline"} = {}
  PROVE  CompileSpec => []NeverTooEarly
<1>0. OnlyCompiled /\ (CompileSpec => Spec)
  BY CompileLexes DEF OnlyCompiled
<1>1. CompileInit => NeverTooEarly
  BY DEF CompileInit, NeverTooEarly, ErrorReported, Pending
<1>2. ASSUME TypeOK, PlaceInv, ReportInv, NeverTooEarly, [CompileNext]_compileVars
      PROVE  NeverTooEarly'
  <2> SUFFICES ASSUME ErrorReported'
               PROVE  info'.pos.index >= at' - 1
    BY DEF NeverTooEarly
  <2>1. CASE UNCHANGED compileVars
    BY <1>2, <2>1 DEF NeverTooEarly, ErrorReported, compileVars
  <2>2. ASSUME NEW i \in 1 .. Len(js_code), js_code[i].at # 0, at' = js_code[i].at,
               NEW line \in Int, NEW pos \in [line_no : {line}, col_no : Int, index : Int],
               pos.index = i - 1, info'.pos = RectifyCompilationInfo(pos)
        PROVE  info'.pos.index >= at' - 1
    <3> DEFINE index == info'.pos.index
               a == js_code[i].at
    <3>1. PICK j \in 0 .. Len(insertions) : /\ j = 0 \/ insertions[j].index < i - 1
                                            /\ index >= i - 1 - Off(j)
      BY <1>2, <2>2, Rectified DEF PlaceInv
    <3>2. Len(insertions) \in Nat /\ Len(js_code) \in Nat /\ a \in Nat
      <4>1. js_code[i] \in Char
        BY ElementOfSeq, <1>2 DEF TypeOK, Text, Char
      <4> QED
        BY <1>2, <4>1, LenProperties DEF TypeOK, Text, Char
    <3>3. index \in Int
      <4>1. RectifyCompilationInfo(pos) \in [line_no : {line}, col_no : Int, index : Int]
        BY <1>2, Rectified
      <4> QED
        BY <2>2, <4>1
    <3>4. i >= a + Off(j) /\ Off(j) \in Int
      <4>1. CASE j = 0
        <5>1. i >= a /\ Off(0) = 0
          BY <1>2, <2>2, OffGrows DEF PlaceInv
        <5> QED
          BY <3>2, <4>1, <5>1
      <4>2. CASE j # 0
        <5>1. j \in 1 .. Len(insertions) /\ j \in Nat
          BY <3>2, <4>2
        <5> QED
          BY <1>2, <2>2, <3>1, <4>2, <5>1, OffGrows DEF PlaceInv
      <4> QED
        BY <4>1, <4>2
    <3> HIDE DEF index, a
    <3>5. index >= a - 1
      BY <3>1, <3>2, <3>3, <3>4
    <3> QED
      BY <2>2, <3>5 DEF index, a
  <2>3. \A i \in 1 .. Len(js_code) : ErrorAt(i).index = i - 1
    BY DEF ErrorAt
  <2>4. js_code # <<>> => last_pos.index = Len(js_code) - 1
    BY DEF last_pos
  <2>5. /\ last_pos \in [line_no : {Newlines(js_code) + 1}, col_no : Int, index : Int]
        /\ Newlines(js_code) + 1 \in Int
        /\ \A i \in 1 .. Len(js_code) :
              LET line == Newlines(SubSeq(js_code, 1, i - 1)) + 1
              IN  /\ line \in Int
                  /\ ErrorAt(i) \in [line_no : {line}, col_no : Int, index : Int]
    BY <1>2, PositionTypes
  <2> QED
    BY <1>2, <2>1, <2>2, <2>3, <2>4, <2>5, <1>0, Reports
<1>3. TypeOK /\ TypeOK' /\ MarkInv /\ [Next]_vars => MarkInv'
  BY MarkNext
<1>4. TypeOK /\ TypeOK' /\ MarkInv /\ ReportInv /\ PlaceInv /\ [Next]_vars => PlaceInv'
  BY <1>0, PlaceNext DEF ExactSources
<1>5. CompileSpec => []TypeOK
  BY <1>0, TypeCorrect, PTL
<1>6. CompileSpec => []ReportInv
  BY <1>0, ReportInit, ReportNext, PTL DEF CompileSpec
<1>7. CompileSpec => []MarkInv
  BY <1>3, <1>0, TypeCorrect, MarkInit, PTL DEF Spec
<1>8. CompileSpec => []PlaceInv
  BY <1>4, <1>5, <1>6, <1>7, <1>0, PlaceInit, PTL DEF Spec
<1> QED
  BY <1>1, <1>2, <1>5, <1>6, <1>8, PTL DEF CompileSpec

===============================================================================
