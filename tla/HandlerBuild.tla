------------------------------- MODULE HandlerBuild -------------------------------
(***************************************************************************)
(* How a handler becomes the script that runs (GetScriptToExecute):        *)
(* Compile has every query of it checked, Jsify asks again and replaces    *)
(* each by N1qlQuery with its named parameters.  The producer may answer   *)
(* differently each time: not at all.                                      *)
(*                                                                         *)
(* A handler is the sequence of its queries, JavaScript that starts like   *)
(* one among them; JsifyLexer has what happens around them.                *)
(***************************************************************************)
EXTENDS Communicator

CONSTANT MaxQueries        \* bound: queries of a handler

ASSUME HandlerAssumption == MaxQueries \in Nat

VARIABLES
  handler,
  pass,                    \* "compile", "jsify"; "refused" or "transpile" in the end
  at,                      \* the query that the lexer is at
  asked,                   \* the lexer waits for the answer to a request
  script,                  \* what the queries up to now were replaced with
  failed                   \* history: a request of Jsify failed

buildVars == <<handler, pass, at, asked, script, failed>>

Replacements == [as : {"N1qlQuery", "expression"}, params : Seq(Names \cup {""})]

BuildTypeOK ==
  /\ CommTypeOK
  /\ handler \in BoundedSeq(Queries, MaxQueries)
  /\ pass \in {"compile", "jsify", "refused", "transpile"}
  /\ at \in 1 .. Len(handler) + 1 /\ asked \in BOOLEAN /\ failed \in BOOLEAN
  /\ script \in Seq(Replacements) /\ Len(script) <= Len(handler)

BuildInit ==
  /\ handler \in BoundedSeq(Queries, MaxQueries)
  /\ pass = "compile" /\ at = 1 /\ asked = FALSE /\ script = <<>>
  /\ failed = FALSE

Query == handler[at]

\* The lexer comes to the end of a query.
AskParseQuery ==
  /\ pass \in {"compile", "jsify"} /\ ~asked /\ at <= Len(handler)
  /\ HTTPPost("ParseQuery", Query)
  /\ asked' = TRUE /\ UNCHANGED <<handler, pass, at, script, failed>>

Answered(op) == asked /\ state = "idle" /\ request.op = op

GoOn ==
  /\ at' = at + 1 /\ asked' = FALSE /\ UNCHANGED <<handler, pass, failed>>

\* Mutant: what the producer does not accept is left as it is.
AcceptAny ==
  /\ pass = "compile" /\ Answered("ParseQuery")
  /\ GoOn /\ UNCHANGED <<script, commVars>>

\* CommentN1QL: a query, or a JavaScript expression.
Accept ==
  /\ pass = "compile" /\ Answered("ParseQuery")
  /\ info.is_valid \/ Query.expression
  /\ GoOn /\ UNCHANGED <<script, commVars>>

\* "Compilation failed"
Refuse ==
  /\ pass = "compile" /\ Answered("ParseQuery")
  /\ ~info.is_valid /\ ~Query.expression
  /\ pass' = "refused" /\ asked' = FALSE
  /\ UNCHANGED <<handler, at, script, failed, commVars>>

Compiled ==
  /\ pass = "compile" /\ ~asked /\ at > Len(handler)
  /\ pass' = "jsify" /\ at' = 1
  /\ UNCHANGED <<handler, asked, script, failed, commVars>>

AskNamedParams ==
  /\ pass = "jsify" /\ Answered("ParseQuery") /\ info.is_valid
  /\ HTTPPost("GetNamedParams", Query)
  /\ UNCHANGED buildVars

\* Mutant: the parameters of the last query are added.
AddParams ==
  /\ pass = "jsify" /\ Answered("GetNamedParams")
  /\ script' = Append(script,
       [as |-> "N1qlQuery", params |-> info.named_params \o
          IF script = <<>> THEN <<>> ELSE script[Len(script)].params])
  /\ GoOn /\ UNCHANGED commVars

\* TranspileQuery, whether or not the parameters are valid.
TranspileQuery ==
  /\ pass = "jsify" /\ Answered("GetNamedParams")
  /\ script' = Append(script, [as |-> "N1qlQuery", params |-> info.named_params])
  /\ GoOn /\ UNCHANGED commVars

\* Mutant: JavaScript is looked for first.
ExpressionFirst ==
  /\ pass = "jsify" /\ Answered("ParseQuery") /\ Query.expression
  /\ script' = Append(script, [as |-> "expression", params |-> <<>>])
  /\ GoOn /\ UNCHANGED commVars

KeepExpression ==
  /\ pass = "jsify" /\ Answered("ParseQuery") /\ ~info.is_valid /\ Query.expression
  /\ script' = Append(script, [as |-> "expression", params |-> <<>>])
  /\ GoOn /\ UNCHANGED commVars

\* "Jsify failed with code": it is transpiled as far as it got.
JsifyFailed ==
  /\ pass = "jsify" /\ Answered("ParseQuery") /\ ~info.is_valid /\ ~Query.expression
  /\ pass' = "transpile" /\ asked' = FALSE
  /\ UNCHANGED <<handler, at, script, failed, commVars>>

Jsified ==
  /\ pass = "jsify" /\ ~asked /\ at > Len(handler)
  /\ pass' = "transpile"
  /\ UNCHANGED <<handler, at, asked, script, failed, commVars>>

Build ==
  \/ AskParseQuery \/ Accept \/ Refuse \/ Compiled
  \/ AskNamedParams \/ TranspileQuery \/ KeepExpression \/ JsifyFailed \/ Jsified

Fails == ReturnError \/ (Return /\ status # "0")

\* A step of the request under way.
AskProducer ==
  /\ pass \in {"compile", "jsify"} /\ CommNext
  /\ failed' = (failed \/ (pass = "jsify" /\ Fails))
  /\ UNCHANGED <<handler, pass, at, asked, script>>

-------------------------------------------------------------------------------
Done == pass = "transpile"

\* Text that is neither a query nor JavaScript does not run: Compile refuses its handler,
\* whatever the producer's failures.
NothingElseRuns == Done => \A i \in DOMAIN handler : handler[i].n1ql \/ handler[i].expression

\* What is run as a query was accepted as one; its parameters are those of the query, or
\* missing, and never those of another.
OnlyQueriesAreTranspiled ==
  \A i \in DOMAIN script : script[i].as = "N1qlQuery" =>
     handler[i].n1ql /\ script[i].params \in {handler[i].params, <<>>}

\* "Converts N1QL embedded JS to native JS": all of it, and each query with its
\* parameters, unless the producer failed after Compile.
BuildIsWhole ==
  Done /\ ~failed =>
    /\ Len(script) = Len(handler)
    /\ \A i \in DOMAIN handler :
          handler[i].n1ql => script[i] = [as |-> "N1qlQuery", params |-> handler[i].params]

\* The same whatever the producer does.
WholeHandlerRuns == Done => Len(script) = Len(handler)

\* Nothing that the producer does keeps a handler from being built or refused: the thread
\* waits for it without any timeout but curl's.
BuildEnds == <>(pass \in {"refused", "transpile"})
===============================================================================
