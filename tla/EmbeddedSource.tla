---------------------------- MODULE EmbeddedSource ----------------------------
(***************************************************************************)
(* What a handler's source is: JavaScript with N1QL queries in it, read    *)
(* symbol by symbol.  A query starts with a N1QL keyword in code and ends  *)
(* at a semicolon; keywords in strings and comments start nothing.  Every  *)
(* source is read from its start, as code.                                 *)
(*                                                                         *)
(* A symbol is a lexeme that opens or closes something, or "other".        *)
(* "regexQuote" is a quote inside of a regular expression.                 *)
(***************************************************************************)
EXTENDS Naturals, Sequences

Quotes == {"doubleQuote", "singleQuote", "backtick"}
Openers == Quotes \cup {"slashStar", "slashSlash", "keyword"}
AllSymbols ==
  Openers \cup {"starSlash", "newline", "backslash", "semicolon", "regexQuote", "other"}

VARIABLES
  source,                  \* what has been read
  opened,                  \* the symbol that opened what is being read, or "code"
  escaped                  \* within a string: the next symbol is escaped

sourceVars == <<source, opened, escaped>>

SourceInit == source = <<>> /\ opened = "code" /\ escaped = FALSE

Closes(opener, sym, isEscaped) ==
  \/ opener \in Quotes /\ sym = opener /\ ~isEscaped
  \/ <<opener, sym>> \in {<<"slashStar", "starSlash">>, <<"slashSlash", "newline">>,
                          <<"keyword", "semicolon">>}

ReadSource(sym) ==
  /\ source' = Append(source, sym)
  /\ \/ opened = "code" /\ opened' = IF sym \in Openers THEN sym ELSE "code"
     \/ opened # "code" /\ opened' = IF Closes(opened, sym, escaped) THEN "code" ELSE opened
  /\ escaped' = (opened \in Quotes /\ sym = "backslash" /\ ~escaped)

NewSource == source' = <<>> /\ opened' = "code" /\ escaped' = FALSE

SourceNext == NewSource \/ \E sym \in AllSymbols : ReadSource(sym)

SourceSpec == SourceInit /\ [][SourceNext]_sourceVars
===============================================================================
