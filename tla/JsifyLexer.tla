------------------------------ MODULE JsifyLexer ------------------------------
(***************************************************************************)
(* The lexer (jsify.l): it copies JavaScript, collects the N1QL queries    *)
(* embedded in it and replaces them.  The start condition and the buffers  *)
(* are globals that outlive a call.                                        *)
(*                                                                         *)
(* A rule of the lexer is an action.  The text is chosen symbol by symbol; *)
(* a symbol counts as one character, also when it is a keyword or opens a  *)
(* comment.  js_code and n1ql_query hold symbols with the position in the  *)
(* source that they come from, 0 for what is inserted.                     *)
(***************************************************************************)
EXTENDS Naturals, Sequences, FiniteSets

CONSTANTS
  LexOps,                  \* the operations that are called
  Symbols,                 \* what sources are made of
  MaxRead,                 \* bound: symbols of a source
  Features                 \* what sources contain besides, see below

\* Each is legal in a source, and breaks something that the others leave intact.
\*   "openEnd"        the source ends in a comment, a string or a query
\*   "continuation"   a newline in a string, after a backslash
\*   "stringNewline"  a newline in a string, otherwise (in a template)
\*   "regexQuote"     a quote in a regular expression
\*   "expression"     JavaScript that starts like a query, as delete x;
AllFeatures == {"openEnd", "continuation", "stringNewline", "regexQuote", "expression"}

AllLexOps == {"kJsify", "kUniLineN1QL", "kCommentN1QL"}
Quote == [DSTR |-> "doubleQuote", SSTR |-> "singleQuote", TSTR |-> "backtick"]
Strings == {"DSTR", "SSTR", "TSTR"}
Comments == {"MLCMT", "SLCMT"}
Quotes == {"doubleQuote", "singleQuote", "backtick"}
SourceSymbols == Quotes \cup {"slashStar", "starSlash", "slashSlash", "newline", "backslash",
                              "keyword", "semicolon", "regexQuote", "other"}

ASSUME LexerAssumption ==
  /\ LexOps \subseteq AllLexOps
  /\ Symbols \subseteq SourceSymbols
  /\ Features \subseteq AllFeatures
  /\ MaxRead \in Nat

VARIABLES
  lex_op,
  yystate,                 \* flex's start condition
  previous_state,
  js_code,                 \* after the call: handler_code of what it returned
  n1ql_query,
  insertions,              \* of the call's CommentN1QLInfo
  code,                    \* what yylex returned, "lexing" before
  source                   \* what the call has read

vars == <<lex_op, yystate, previous_state, js_code, n1ql_query, insertions, code, source>>

OutputSymbols == SourceSymbols \cup {"slash", "star", "dollar", "query"}
Text == Seq([sym : OutputSymbols, at : Nat])
StartConditions == {"INITIAL", "N1QL"} \cup Comments \cup Strings
Errors == {"kKeyword", "kKeywordFrom", "kN1QLParserError"}

TypeOK ==
  /\ lex_op \in AllLexOps \cup {"none"}
  /\ yystate \in StartConditions /\ previous_state \in StartConditions
  /\ js_code \in Text /\ n1ql_query \in Text
  /\ insertions \in Seq([type : {"kN1QLBegin", "kN1QLEnd"}, type_len : Nat,
                         line_no : Nat, index : Nat])
  /\ code \in Errors \cup {"lexing", "kOK"}
  /\ source \in Seq(Symbols)

Init ==
  /\ lex_op = "none" /\ code = "kOK"
  /\ yystate = "INITIAL" /\ previous_state = "INITIAL"
  /\ js_code = <<>> /\ n1ql_query = <<>> /\ insertions = <<>> /\ source = <<>>

-------------------------------------------------------------------------------
Symbol(sym) == [sym |-> sym, at |-> Len(source) + 1]
Inserted(sym) == [sym |-> sym, at |-> 0]

Newlines(text) == Cardinality({i \in DOMAIN text : text[i].sym = "newline"})

\* Mutant: the quote is escaped by any backslash before it.
EndsInBackslash(str) == str # <<>> /\ str[Len(str)].sym = "backslash"

TrailingBackslashes(str) ==
  CHOOSE n \in 0 .. Len(str) :
     /\ \A i \in (Len(str) - n + 1) .. Len(str) : str[i].sym = "backslash"
     /\ n < Len(str) => str[Len(str) - n].sym # "backslash"

IsEsc(str) == TrailingBackslashes(str) % 2 = 1

\* Mutants: a query ends where the next character goes; it starts at the character
\* before; all that is inserted counts at its end.
UpdatePosPastEnd(type, text) ==
  Append(insertions, [type |-> type, type_len |-> 2, line_no |-> 1, index |-> Len(text)])
UpdatePosBefore(type, text) ==
  Append(insertions, [type |-> type, type_len |-> 2, line_no |-> 1, index |-> Len(text) - 1])
UpdatePosInFull(type, text) ==
  Append(insertions,
    [type |-> type, type_len |-> IF type = "kN1QLBegin" THEN 2 ELSE 6, line_no |-> 1,
     index |-> IF type = "kN1QLBegin" THEN Len(text) ELSE Len(text) - 1])

\* UpdatePos(insert_type), when js_code is text: newlines are counted from the
\* character whose number is the line of the insertion before.
UpdatePos(type, text) ==
  LET skipped == IF insertions = <<>> THEN 0 ELSE insertions[Len(insertions)].line_no
  IN  Append(insertions,
        [type |-> type,
         type_len |-> IF type = "kN1QLBegin" THEN 2 ELSE 3,
         line_no |-> Newlines(SubSeq(text, skipped + 1, Len(text))) + 1,
         index |-> IF type = "kN1QLBegin" THEN Len(text) ELSE Len(text) - 1])

\* Mutant: the lines of the query are lost.
StarAll(c) == [c EXCEPT !.sym = "star"]

Star(c) == IF c.sym = "newline" THEN c ELSE [c EXCEPT !.sym = "star"]

TranspileQuery(query) ==
  IF lex_op = "kJsify" THEN <<Inserted("query")>>
  ELSE <<Inserted("slash"), Inserted("star")>>
       \o [i \in 1 .. Len(query) |-> Star(query[i])]
       \o <<Inserted("star"), Inserted("slash"), Inserted("dollar"), Inserted("semicolon")>>

-------------------------------------------------------------------------------
\* TransformSource is called; line 30 of the lexer runs on every entry of yylex.  A
\* query that is over is dead, Keyword assigns n1ql_query: it is dropped here.
Call(op) ==
  /\ code # "lexing"
  /\ lex_op' = op /\ previous_state' = yystate
  /\ js_code' = <<>> /\ insertions' = <<>> /\ code' = "lexing" /\ source' = <<>>
  /\ n1ql_query' = IF yystate = "N1QL" THEN n1ql_query ELSE <<>>
  /\ UNCHANGED yystate

Reads(sym) ==
  /\ code = "lexing" /\ Len(source) < MaxRead
  /\ sym \in Symbols
  /\ source' = Append(source, sym)
  /\ UNCHANGED lex_op

\* A rule that copies the symbol to js_code.
Copies(sym) ==
  /\ Reads(sym)
  /\ js_code' = Append(js_code, Symbol(sym))
  /\ UNCHANGED <<n1ql_query, insertions, code>>

StartComment(sym, state) ==
  /\ yystate = "INITIAL" /\ Copies(sym)
  /\ previous_state' = yystate /\ yystate' = state

StopComment(sym, state) ==
  /\ yystate = state /\ Copies(sym)
  /\ yystate' = previous_state
  /\ UNCHANGED previous_state

\* A quote in a regular expression is taken for that of a string.
Begins(quote, state) ==
  \/ quote = Quote[state]
  \/ quote = "regexQuote" /\ state = "DSTR" /\ "regexQuote" \in Features

HandleStrStart(sym, state) ==
  /\ yystate = "INITIAL" /\ Copies(sym)
  /\ previous_state' = yystate /\ yystate' = state

HandleStrStop(state) ==
  /\ yystate = state /\ Copies(Quote[state])
  /\ yystate' = IF IsEsc(js_code) THEN yystate ELSE previous_state
  /\ UNCHANGED previous_state

\* The symbols that only the rules above match, or those of queries.
Plain(sym) ==
  CASE yystate = "INITIAL" -> sym \in {"starSlash", "newline", "backslash", "semicolon", "other"}
    [] yystate = "MLCMT" -> sym # "starSlash"
    [] yystate = "SLCMT" -> sym # "newline"
    [] yystate \in Strings -> sym \notin {Quote[yystate], "newline"}
    [] OTHER -> FALSE

Copy(sym) ==
  /\ Plain(sym) /\ sym # "regexQuote" /\ Copies(sym)
  /\ UNCHANGED <<yystate, previous_state>>

\* A string has no rule for a newline: flex echoes it to stdout.
Echo ==
  /\ yystate \in Strings /\ Reads("newline")
  /\ IF IsEsc(js_code) THEN "continuation" \in Features ELSE "stringNewline" \in Features
  /\ UNCHANGED <<yystate, previous_state, js_code, n1ql_query, insertions, code>>

\* Mutant: what is left of the query before stays in front.
KeepQuery ==
  /\ yystate = "INITIAL" /\ Reads("keyword")
  /\ yystate' = "N1QL"
  /\ n1ql_query' = Append(n1ql_query, Symbol("keyword"))
  /\ insertions' = IF lex_op = "kCommentN1QL" THEN UpdatePos("kN1QLBegin", js_code)
                   ELSE insertions
  /\ UNCHANGED <<previous_state, js_code, code>>

Keyword ==
  /\ yystate = "INITIAL" /\ Reads("keyword")
  /\ yystate' = "N1QL"
  /\ n1ql_query' = <<Symbol("keyword")>>
  /\ insertions' = IF lex_op = "kCommentN1QL" THEN UpdatePos("kN1QLBegin", js_code)
                   ELSE insertions
  /\ UNCHANGED <<previous_state, js_code, code>>

\* Mutant: the lines of a query are joined without a blank.
JoinLines(sym) ==
  /\ yystate = "N1QL" /\ sym \notin {"semicolon", "regexQuote"} /\ Reads(sym)
  /\ n1ql_query' = IF sym = "newline" THEN n1ql_query ELSE Append(n1ql_query, Symbol(sym))
  /\ UNCHANGED <<yystate, previous_state, js_code, insertions, code>>

\* Everything up to the semicolon; only the comment keeps the lines of the query.
QueryText(sym) ==
  /\ yystate = "N1QL" /\ sym \notin {"semicolon", "regexQuote"} /\ Reads(sym)
  /\ n1ql_query' = Append(n1ql_query, Symbol(IF sym = "newline" /\ lex_op # "kCommentN1QL"
                                             THEN "other" ELSE sym))
  /\ UNCHANGED <<yystate, previous_state, js_code, insertions, code>>

\* The text that replaces a query, for what ParseQuery and IsJsExpression say of it.
Replacement(query, valid) ==
  IF lex_op = "kUniLineN1QL" \/ ~valid THEN query ELSE TranspileQuery(query)

EndQuery(valid, expression) ==
  LET query == Append(n1ql_query, Symbol("semicolon"))
      replaced == js_code \o Replacement(query, valid)
  IN  /\ yystate = "N1QL" /\ Reads("semicolon")
      /\ yystate' = "INITIAL"
      /\ n1ql_query' = query
      /\ ~valid /\ expression => "expression" \in Features
      /\ IF lex_op # "kUniLineN1QL" /\ ~valid /\ ~expression
         THEN code' = "kN1QLParserError" /\ UNCHANGED <<js_code, insertions>>
         ELSE /\ js_code' = replaced
              /\ insertions' = IF lex_op = "kCommentN1QL" THEN UpdatePos("kN1QLEnd", replaced)
                               ELSE insertions
              /\ UNCHANGED code
      /\ UNCHANGED previous_state

\* A N1QL keyword is the name of a variable, a function or a label.
ReservedName(error) ==
  /\ code = "lexing" /\ yystate = "INITIAL"
  /\ code' = error
  /\ UNCHANGED <<lex_op, yystate, previous_state, js_code, n1ql_query, insertions, source>>

\* yyterminate: the start condition stays.
EndOfInput ==
  /\ code = "lexing" /\ (yystate = "INITIAL" \/ "openEnd" \in Features)
  /\ code' = "kOK"
  /\ UNCHANGED <<lex_op, yystate, previous_state, js_code, n1ql_query, insertions, source>>

Next ==
  \/ \E op \in LexOps : Call(op)
  \/ StartComment("slashStar", "MLCMT") \/ StartComment("slashSlash", "SLCMT")
  \/ StopComment("starSlash", "MLCMT") \/ StopComment("newline", "SLCMT")
  \/ \E state \in Strings, quote \in Quotes \cup {"regexQuote"} :
       Begins(quote, state) /\ HandleStrStart(quote, state)
  \/ \E state \in Strings : HandleStrStop(state)
  \/ \E sym \in Symbols : Copy(sym) \/ QueryText(sym)
  \/ Echo \/ Keyword
  \/ \E valid, expression \in BOOLEAN : EndQuery(valid, expression)
  \/ \E error \in {"kKeyword", "kKeywordFrom"} : ReservedName(error)
  \/ EndOfInput

Spec == Init /\ [][Next]_vars
-------------------------------------------------------------------------------
\* "Converts N1QL embedded JS to native JS": the lexer sees code, comments, strings and
\* queries where the source has them, in every call.
Opener ==
  [INITIAL |-> "code", N1QL |-> "keyword", MLCMT |-> "slashStar", SLCMT |-> "slashSlash",
   DSTR |-> "doubleQuote", SSTR |-> "singleQuote", TSTR |-> "backtick"]

Handler == INSTANCE EmbeddedSource WITH
  opened <- Opener[yystate],
  escaped <- (yystate \in Strings /\ IsEsc(js_code))

FollowsSource == Handler!SourceSpec

\* Whatever the source contains, its symbols come out at most once and in order: what is
\* left in the buffers never gets into the output again.
Output == js_code \o IF yystate = "N1QL" THEN n1ql_query ELSE <<>>

SymbolsInOrder ==
  \A i, j \in DOMAIN Output :
     i < j /\ Output[i].at # 0 /\ Output[j].at # 0 => Output[i].at < Output[j].at

\* Where sources have strings over several lines, their newlines are lost.
LostInString(n) ==
  /\ Features \cap {"continuation", "stringNewline"} # {}
  /\ source[n] = "newline"
  /\ \E quote \in 1 .. (n - 1) : source[quote] \in Quotes \cup {"regexQuote"}

\* Every other symbol of the source comes out, and (CommentN1QL) on its line; Jsify
\* leaves out the text of queries.  A query that does not parse ends the call.
NothingIsLost ==
  lex_op # "kJsify" /\ code # "kN1QLParserError" =>
     \A n \in DOMAIN source : LostInString(n) \/ \E i \in DOMAIN Output :
        /\ Output[i].at = n
        /\ lex_op = "kCommentN1QL" =>
             (Output[i].sym = "newline" <=> source[n] = "newline")

\* "Adds an entry to keep track of N1QL queries in the js_code": entries come in pairs,
\* the first at the comment that a query was replaced with and the second at its end;
\* the query that is open has its first.
InsertionsMarkQueries ==
  \A i \in DOMAIN insertions :
     LET at == insertions[i].index + 1
     IN  \/ i = Len(insertions) /\ i % 2 = 1
         \/ /\ at \in DOMAIN js_code
            /\ js_code[at] = Inserted(IF i % 2 = 1 THEN "slash" ELSE "semicolon")

\* "Count the number of newlines since the previously updated pos": an entry has the
\* line in the output that it is on.
InsertionsHaveTheirLine ==
  \A i \in DOMAIN insertions :
     insertions[i].line_no = 1 + Newlines(SubSeq(js_code, 1, insertions[i].index))
===============================================================================
