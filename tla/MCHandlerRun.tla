---------------------------- MODULE MCHandlerRun ----------------------------
(* Handlers with queries of every kind, for TLC. *)
EXTENDS HandlerRun

Text(n1ql, expression, params) == [n1ql |-> n1ql, expression |-> expression, params |-> params]

\* What the lexer takes for a query: one with parameters, one without, select (1); which
\* is both a query and JavaScript, delete x; and a syntax error.
MCQueries ==
  {Text(TRUE, FALSE, <<"a", "b">>), Text(TRUE, FALSE, <<>>), Text(TRUE, TRUE, <<"a">>),
   Text(FALSE, TRUE, <<>>), Text(FALSE, FALSE, <<>>)}

MCUsernames == <<"alice", "bob">>
MCPasswords == <<"red", "green">>
===============================================================================
