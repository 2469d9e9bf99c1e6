----------------------------- MODULE Compilation ------------------------------
(***************************************************************************)
(* Transpiler::Compile (transpiler.cpp): the queries of a handler are      *)
(* commented out by the lexer and the result is parsed as JavaScript.  An  *)
(* error is reported at its position in the source, which is computed from *)
(* the position in the lexer's output and the list of insertions.          *)
(***************************************************************************)
EXTENDS JsifyLexer, Integers, SequencesExt

VARIABLES
  info,                    \* the CompilationInfo that is returned, or the exception
  at                       \* the symbol of the source that the error is at

compileVars == <<vars, info, at>>

Position == [line_no : Int, col_no : Int, index : Int]
Outcomes == {"none", "success", "error", "exception"}
NoPosition == [line_no |-> 0, col_no |-> 0, index |-> 0]
Info == [outcome : Outcomes, pos : Position]
Pending == [outcome |-> "none", pos |-> NoPosition]

CompileTypeOK == TypeOK /\ info \in Info /\ at \in 0 .. MaxRead

CompileInit == Init /\ info = Pending /\ at = 0

Discount(pos, insertion) ==
  IF insertion.index >= pos.index THEN pos
  ELSE [pos EXCEPT !.index = @ - insertion.type_len,
                   !.col_no = IF insertion.line_no = pos.line_no
                              THEN @ - insertion.type_len ELSE @]

RectifyCompilationInfo(pos) == FoldLeft(Discount, pos, insertions)

\* The characters of text behind its last newline.
LastLine(text) ==
  Len(text) - Max({0} \cup {i \in DOMAIN text : text[i].sym = "newline"})

\* UpdatePos(Pos*): where the lexer stopped.
last_pos ==
  [line_no |-> Newlines(js_code) + 1,
   col_no |-> LastLine(js_code) + 1,
   index |-> IF js_code = <<>> THEN 0 ELSE Len(js_code) - 1]

\* What esprima says of an error at the i-th character.
ErrorAt(i) ==
  [line_no |-> Newlines(SubSeq(js_code, 1, i - 1)) + 1,
   col_no |-> LastLine(SubSeq(js_code, 1, i - 1)) + 1,
   index |-> i - 1]

Compile == Call("kCommentN1QL") /\ info' = Pending /\ at' = 0

Lex == Next /\ code = "lexing" /\ UNCHANGED <<info, at>>

Report(outcome, pos, symbol) ==
  /\ info' = [outcome |-> outcome, pos |-> pos]
  /\ at' = symbol
  /\ UNCHANGED vars

\* ComposeErrorInfo; ComposeDescription has no case for kKeywordFrom and throws.
ComposeErrorInfo ==
  /\ code \in Errors /\ info = Pending
  /\ IF code = "kKeywordFrom" THEN Report("exception", NoPosition, 0)
     ELSE Report("error", RectifyCompilationInfo(last_pos),
                 IF js_code = <<>> THEN 0 ELSE js_code[Len(js_code)].at)

\* ComposeCompilationInfo: esprima accepts the code, or reports an error at a token.
ComposeCompilationInfo ==
  /\ code = "kOK" /\ lex_op # "none" /\ info = Pending
  /\ \/ Report("success", NoPosition, 0)
     \/ \E i \in DOMAIN js_code :
           /\ js_code[i].at # 0 /\ js_code[i].sym = "other"
           /\ Report("error", RectifyCompilationInfo(ErrorAt(i)), js_code[i].at)

CompileNext ==
  \/ Compile /\ (lex_op = "none" \/ info # Pending)
  \/ Lex \/ ComposeErrorInfo \/ ComposeCompilationInfo

CompileSpec == CompileInit /\ [][CompileNext]_compileVars
-------------------------------------------------------------------------------
NewlinesBefore(n) == Cardinality({i \in 1 .. (n - 1) : source[i] = "newline"})

ErrorReported == info.outcome = "error" /\ at # 0

\* "Rectify line and column offset": the line of an error is its line in the source,
\* behind any queries and comments (an error found behind a newline counts that line).
ReportedLineIsTheSources ==
  ErrorReported =>
     info.pos.line_no = 1 + NewlinesBefore(at) + IF source[at] = "newline" THEN 1 ELSE 0

\* An error before the first query is reported exactly where it is in the source.
ErrorsBeforeQueriesAreExact ==
  ErrorReported /\ (\A n \in 1 .. (at - 1) : source[n] # "keyword")
    => info.pos.index = at - 1

\* An insertion is discounted only if the error is after it: the index is not less than
\* that in the source.
NeverTooEarly == ErrorReported => info.pos.index >= at - 1

\* "Rectify line and column offset by discounting the insertions": an error is reported
\* at its index in the source.
ReportedIndexIsTheSources == ErrorReported => info.pos.index = at - 1

\* "Composes error info based on the code": for every reserved name.
ReservedNamesAreReported == info.outcome # "exception"
===============================================================================
