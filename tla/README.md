# TLA+ models of n1ql-js

n1ql-js lets an event handler written in JavaScript contain N1QL queries as if
they were part of the language:

    var rows = SELECT * FROM `beer-sample` WHERE type = $type;
    for (var row of rows) { if (row.done) break; }

A compiler (lexer and AST transformer) turns such a handler into plain
JavaScript in which a query is an object, `new N1qlQuery(...)`, and a loop over a
query is a call `rows.iter(function (row) {...})`.  A C++ runtime executes the
calls on libcouchbase, and a debugger agent lets Chrome DevTools attach to the
V8 isolate that runs the handler.

This directory holds TLA+ modules that model the parts of that system with state
and control, TLC configurations that check them, and proofs for TLAPS.

## 1. Inventory

All paths are relative to `src/components/transpiler/` unless they start with
`src/`.

| Part | Source | State | Operations | Interacts with |
|---|---|---|---|---|
| Connection pool | `transpiler/src/n1ql.cpp:24-98`, `include/n1ql.h:136` | queue of idle instances, number created | GetResource, AddResource, Restore | ExecQuery takes and restores |
| Hashed stack | `n1ql.cpp:100-109`, `n1ql.h:159` | stack of handler copies, map hash → handler | Push, Pop, Top, Get, Size | row callbacks (Top), stopIter (Get), AppendStackIndex (Size) |
| Scope stacks | `n1ql.cpp:471-640` | per JS object: base hash, map index → hash (private fields) | SetUniqueHash, GetUniqueHash, Push/PopScopeStack | iter, execQuery, stopIter |
| N1qlQuery methods | `n1ql.cpp:112-263, 290-456`, `builtin.js` | C++ stack, cookies, private return value, metadata | iter, execQuery, stopIter, getReturnValue, row callbacks | libcouchbase calls back into JavaScript, which calls in again |
| Exceptions | `js_exception.cpp` | none | Throw | raised by the runtime in JavaScript |
| Producer client | `comm.cpp` | one curl handle, its header list | GetCreds, GetNamedParams, ParseQuery | HTTP to the producer process |
| Credentials callbacks | `utils.cpp:65-101` | two static strings | GetUsername, GetPassword | called by libcouchbase when a connection is made; ask the producer client |
| Lexer | `jsify.l` | start condition, output and query buffers, list of insertions | Jsify, UniLineN1QL, CommentN1QL; UpdatePos, TranspileQuery | asks the producer client about each query; feeds the AST transformer |
| Compilation info | `transpiler.cpp` | none | Compile, RectifyCompilationInfo, Compose… | lexer positions, esprima errors |
| Building a handler | `main.cpp:79-104` | none | GetScriptToExecute | runs Compile, Jsify and the AST transformer one after the other |
| AST transformer | `transpiler.js` | ancestor stack, break/continue associations | getAst, getIterConsequentAst, getIterAlternateAst, LoopModifier, PostIter | emits the calls that the runtime executes |
| Inspector I/O | `debugger/src/inspector_io.cc` | two locked queues, the dispatch queue, session and state | Start, Stop, WaitForDisconnect, PostIncomingMessage, DispatchMessages, Write | main thread ↔ I/O thread |
| Inspector agent | `debugger/src/inspector_agent.cc` | channel, pause loop flags | StartIoThread, Connect, Disconnect, Dispatch, RunMessageLoop | V8 inspector |
| Socket server | `debugger/src/inspector_socket_server.cc` | server state, listening sockets, sessions, closer | Start, Stop, TerminateConnections, SessionStarted/Terminated | I/O thread |
| WebSocket | `debugger/src/inspector_socket.cc` | handshake state, close flags, buffer | accept, read, close handshake, frames | socket server |

Behaviours that are hard to test:

* **reentrancy** – `lcb_wait` runs row callbacks, which run JavaScript, which runs
  further queries, on other objects or on the same one; exceptions, `stopIter`
  and a full pool can happen at every level (runtime);
* **leftovers between calls** – hashes, return values and metadata stay on the
  JavaScript object between iterations (runtime); the start condition and the query
  buffer stay between calls (lexer); the strings of the last connection stay
  (credentials callbacks);
* **two threads** – messages are posted by the I/O thread and dispatched by
  interrupts, tasks or a pause loop on the main thread, reentrantly (inspector);
* **shutdown** – main blocks in `uv_thread_join` until sessions, sockets and
  handles of the I/O thread are closed (inspector, socket server, WebSocket);
* **closing from both sides** – close frames, EOF, write callbacks and close callbacks
  come in any order (WebSocket);
* **translation of control flow** – break, continue, labels and return leave a
  callback instead of a loop, through several levels of generated code (AST
  transformer with the runtime);
* **lexical states and positions** – quotes, comments and queries inside each other,
  and insertions that errors are reported behind of (lexer, compilation info);
* **a producer that fails between two requests** – the same query is asked about in two
  passes, and each request may fail on its own (building a handler, credentials).

## 2. Modules

| Module | Models | State ↔ code |
|---|---|---|
| `ConnectionPool` | `ConnectionPool` | `instances` = the `std::queue`, `inst_count` |
| `HashedStack` | `HashedStack` | `qstack` = the stack of copies; `qmap` = the map, whose pointers are indices of C++ frames |
| `ScopeStack` | unique hashes | `hasBase` = private field `hash` is set; `scope[o]` = the `v8::Map` under the base hash |
| `N1qlRuntime`, `MCN1qlRuntime` | the native methods | `calls` = the C++ stack of IterFunction/ExecQueryFunction frames; `ctl` = who executes; `cookie`, `req`, `sent` = libcouchbase; `retval`, `metadata` = JS object |
| `QueryContract` | abstract specification of the runtime | the nested runs and nothing else |
| `N1qlRuntimeProofs` | TLAPS proofs, of the invariants and of the refinement | |
| `Nests` | the programs that the transformer is asked about | `nest` = the statements around an exit statement, `exit` |
| `HandlerLoops` | abstract specification of the transformer: what the handler says | `at`, `rows` = where control is |
| `LoopTranspiler` | the loop transformer, a function from nests to generated code | the code is the set of copies of the exit statement and of the cases |
| `TranspiledLoops`, `MCTranspiledLoops` | the generated code, run on query objects | `mode` = the branch each for-of takes; `statement` = the generated statement being executed; `stopped`, `retval` = the query objects |
| `TranspiledLoopsProofs` | TLAPS proof that the generated code compiles | |
| `LoopModifier`, `LoopModifierProofs` | the association stack during a traversal | `stackIndex`, `ancestorStack` as in the code; `path` = the traversal |
| `JsifyLexer` | the lexer | `yystate`, `previous_state`, `js_code`, `n1ql_query`, `insertions` as in the code; `source` = what the call has read |
| `EmbeddedSource` | abstract specification of the lexer: what a source is | `opened`, `escaped` |
| `JsifyLexerProofs` | TLAPS proofs, of the lexer and of `Compilation` | |
| `Compilation` | Compile with the positions of errors | `info` = the `CompilationInfo`, `at` = the symbol that the error is at |
| `Communicator` | the producer client with its producer | `state`, `status`, `response` = curl and HTTPPost's result; `arriving` = what the producer has sent |
| `Credentials` | GetUsername, GetPassword | `username`, `password` = their static strings; `step` = libcouchbase |
| `HandlerBuild` | GetScriptToExecute | `pass`, `at`, `asked` = where the passes are; `script` = what queries were replaced with |
| `HandlerRun`, `MCHandlerRun` | the two over one `Communicator` | |
| `HandlerRunProofs` | TLAPS proofs, about `HandlerRun` and with it the three modules that it composes | |
| `InspectorIo` | the debugger agent on its two threads, with the V8 client and a reduced server | `incoming`, `dispatch_queue` = the two message queues; `io` = position of the I/O thread; `phase`, `stack` = base activity and C++ frames of the main thread; `channel` = `session_delegate_` and the client's `channel_`; `tasks`, `interrupts` = V8's platform; `asleep` = waiting on `incoming_message_cond_`; `sem` = `thread_start_sem_` |
| `SessionContract` | abstract specification of the agent | one session, one queue of events |
| `InspectorIoProofs` | TLAPS proofs | |
| `InspectorSocketServer` | the socket server with its sockets | `state_`, `server_sockets`, `connected_sessions` as in the code; `conn[s]` = a `SocketSession` with its `InspectorSocket` and libuv handle |
| `ServerContract` | abstract specification of the server: what its delegate sees | connected sessions, stopping, done |
| `InspectorSocketServerProofs` | TLAPS proofs | |
| `SequenceLemmas` | facts about sequences that the proof modules cite | |

### Runtime

`N1qlRuntime` EXTENDS `ConnectionPool` and `ScopeStack` (which EXTENDS
`HashedStack`) and composes their operations into one action per step between
two points where control changes hands:

* `IterFunction(o)`, `ExecQueryFunction(o)`: SetUniqueHash, GetResource, Push,
  lcb_n1ql_query, lcb_set_cookie, up to `lcb_wait`; or, with the pool exhausted,
  SetUniqueHash and the exception;
* `IterRow`, `BlockingRow`, `FinalRow(ok)`: one row callback each; an iterator's
  row hands control to JavaScript;
* `CallbackReturns`, `CallbackThrows`: the JavaScript callback ends;
* `IterFunctionReturns`, `ExecQueryFunctionReturns`: everything after `lcb_wait`:
  cookie, Pop, Restore, metadata and (iter only) PopScopeStack;
* `StopIterFunction(o, code)`; `GetReturnValueFunction(o)` (only its undefined
  case changes anything).

The handler's JavaScript is arbitrary: whenever control is in JavaScript, any
method of any object may be called.  Abstracted: query texts, parameters and row
values (a row is a count), the content of the metadata (`none`, `ok`, `error`),
the value given to `stopIter` (its code, and whether it came without `args`).
`lcb_n1ql_query` may fail without being scheduled; the code logs that and goes on,
and so does the model.  libcouchbase is external: `Cancel` stops the callbacks of a
query, `lcb_wait` returns when the query is complete, cancelled or was never
scheduled.  Two calls of it may end the process: `lcb_create` may fail, after which AddResource
goes on with a null instance (`CreationCrashes`, `n1ql.cpp:42-54`), and the final row may come
without a body or with errors of another form (`FinalRowCrashes`, `n1ql.cpp:170-178`).  `CallbackThrows` assumes that calls into V8 made while an exception is
scheduled work as usual.

### Loop transformer

The transformer decides what becomes of a `break`, `continue` or `return` from the
statements and functions around it alone, so a program is a *nest*: the statements from
a handler down to one exit statement, and a return has a value or none.  A nest of n for-ofs is transformed from the
innermost outwards into 2^n copies of the exit (each for-of becomes `if (x instanceof
N1qlQuery) {x.iter(callback); switch (x.getReturnValue(true)) ...} else for-of`);
`Transpiled` computes the set of copies and cases as `getAst` does, with the annotations
that an outer for-of reads.  `TranspiledLoops` executes it: `EnterForOf(branch)` chooses
what the variable holds, `CallStopIter`, `ReturnFromCallback`, `PostIteration` (the
switch), `ReturnFromFunction` and `JumpOut` are the steps of an exit, the other actions
are plain JavaScript.  It implements `HandlerLoops`, in which an exit is one step.
Programs with several exits in one nest are left out, and so are conditions (any body may
be skipped), assignments to the loop's variable, and source locations and formatting.
`getReturnValue(true)` of an object that has no value is undefined behaviour
(`n1ql.cpp:449`): `N1qlRuntime` has the crash, `TranspiledLoops` takes it as no case.
`for (r of x)` without a declaration makes the transformer itself fail
(`transpiler.js:1479`); nests declare their variables.

`Excluded` names the forms of nest that the transformer gets wrong (section 6).

`LoopModifier` models the association stack alone, over all trees: `Enter` is
`incrAndPush` (or the early return of the alternate's visitor from an annotated node),
`Leave` is `decrAndPop`.

### Lexer and compilation

A rule of `jsify.l` is an action of `JsifyLexer`; a source is chosen symbol by symbol, and a
symbol (a quote, the start or end of a comment, a keyword, a newline, a backslash, a
semicolon, `other`) counts as one character.  `js_code` and `n1ql_query` hold symbols
with the position that they come from.  What ParseQuery and IsJsExpression say of a
query is a choice.  Every sequence of calls is possible; the start condition outlives
them.  A semicolon in a string of a query ends the query: `EmbeddedSource` takes that as
the definition of a query.  `Compilation` adds what `Transpiler::Compile` computes from
the lexer's result: `ComposeErrorInfo` after an error of the lexer,
`ComposeCompilationInfo` after one of esprima, which may be at any token.

`Features` names what sources contain: each of `openEnd`, `continuation`,
`stringNewline`, `regexQuote` and `expression` is legal JavaScript and breaks some
property (section 6).

### Producer

`Communicator` has one action per callback of curl: `HTTPPost`, `HeaderCallback`,
`BodyCallback(n)` (assigns the chunk), `Return` (decodes the answer, with `std::stoi`'s
exception) and `ReturnError`; `Rotate` changes the producer's credentials.
`HandlerBuild` has the two passes of GetScriptToExecute, each with its requests per
query, and `Credentials` the two static strings; `HandlerRun` composes them: the script
makes connections once it runs.  Left out: the list of request headers, which only
grows; a failure of `curl_easy_setopt` is part of ReturnError.  `Features` names what
requests are exposed to: `chunks`, `outage`, `refusal`, `malformed`, `rotation`.

### Inspector

`InspectorIo` has one action per step between two points where the other thread or a
nested frame can come in:

* I/O thread: `ThreadMain` (bind and serve, or fail), `StartSession`,
  `MessageReceived`, `EndSession` (the delegate's three methods, each with the append
  of PostIncomingMessage), `PostRunRequest` (the message of the first request to run,
  after the semaphore is posted), `ScheduleDispatch` and `NotifyMessageReceived` (the
  rest of PostIncomingMessage, outside the queue's lock), `IoThreadAsyncCb`,
  `ServerDone`;
* DispatchMessages on the main thread: `InterruptCallback` and `RunTask` call it,
  `TakeIncoming` (the swap under the lock), `DispatchStartSession`,
  `DispatchSendMessage`, `DispatchEndSession` (one entry each, with everything the V8
  client does), `DispatchReturns`;
* the pause loop: `PauseOnBreak`, `WaitForFrontendMessageWhilePaused`, `PumpedOut`,
  `MessageLoopEnds`; a wait may also end by `SpuriousWakeup`;
* the program: `Start`, `PauseOnNextJavascriptStatement`, `Stop`, `Joined` (main.cpp),
  `FatalException`, `WaitForDisconnectReturns` (debugger/main.cc), `Finish`.

A process ends in one of two ways: `Stop` joins the thread, or `FatalException` waits
for the frontend to disconnect; both are in the model.  V8 is external: a message asks
it to run, to evaluate JavaScript or to resume, JavaScript may be interrupted and may
hit a breakpoint at any moment while a session is attached.  The platform's tasks run
only inside PumpMessageLoop, as the code arranges it.  Reductions: the socket server is
what `InspectorIo` sees of it, at most one session at a time and none after kKill (which
the server keeps unless a handshake outlives it, section 6);
`outgoing_message_queue_` is the set of actions in it (the I/O thread takes all at once
and only kKill and kStop change its state); the signal-driven `RequestIoThreadStart`
and `main_thread_req_` (whose callback calls DispatchMessages once more) are left out.

`InspectorSocketServer` is the server behind that reduction: `Start`, `Accept`,
`HandshakeEnds`, `Receive` (close frame, bad frame, end of the stream), `CloseFrameWritten`,
`RefusalWritten`, `HandleClosed`, `Stop`, `Kill`, `ServerSocketClosed`.  Each is a
callback of the one libuv loop; the functions of `inspector_socket.cc` are operators
on the record of a connection (`inspector_close`, `close_frame_received`,
`on_close_frame_written`, `EndOfStream`, ...).  Writes are queued and report later, closing a handle reports
them first.  Frames arrive whole.  Send, answers to GET requests and the Closer (InspectorIo
passes no callback) change nothing in it.  Reading goes on after a refusal, so a client may
be refused again before it hears of it, and paths are appended: an upgrade after a
refusal finds its target only if a page was asked for in between, whose answer clears the
path (`init_handshake`).  `uv_accept` and `uv_read_start` may fail.  A session that is
deleted before its handle is closed leaves libuv with freed memory: the close callback
may still do its work, or the process goes down (`Crash`).  `Races` names seven
things that may happen, each of which breaks a property (section 6).

## 3. Runs

All runs stop where a real process stops (a crashed process, an idle handler with
nothing left to call, a handler that is refused), so most do not check deadlock.

| Run | Instance | Question |
|---|---|---|
| `runtime_nesting` | two objects (symmetric), capacity 2, one row per query, scope stacks up to 2 | Do pool, hashed stack, cookies and the routing of rows stay consistent when queries of two objects nest, fail, are stopped or refused? Does the runtime implement `QueryContract`? |
| `runtime_reentrant` | one object, capacity 3, two rows, scope stacks up to 4, two codes | The same contract when one object iterates inside its own callback, three levels deep; the scope stack has every run |
| `runtime_stale_hash` (violation) | one object | Is the unique hash that stopIter gets that of the innermost iteration? No: section 6 |
| `loops_nests` | nests of a handler and up to four statements of every kind, two labels, two queries (both symmetric), every exit, two rows per loop | Does the generated code compile and do what the handler says, and does every exit land? |
| `loops_switch_continue` (violation) | loops, switches, labels; `continue` | Does an unlabelled continue inside a switch compile? No: section 6 |
| `modifier_consequent` | trees of depth 7 over four types of nodes | Does the association stack hold the enclosing nodes? |
| `inspector_dispatch` | two sessions, two messages, fair | Does reentrant dispatch across two threads hand every event to V8 once, in order and in its session (refinement of `SessionContract`), without a lost wake-up or a failed assertion? Does Stop's join end, and does resume end a pause? |
| `inspector_stuck_entry` (violation) | two sessions, two messages, fair | Is an entry that has been swapped into the dispatching queue ever dispatched? Not while an evaluation before it is paused: section 6 |
| `sockets_sessions` | three connections, two addresses, up to two queued refusals of one connection, fair; accepts fail, clients leave or go on while their refusal is queued | Are sessions closed once, those that were upgraded deleted with their handles, does closing proceed, is the delegate served as `ServerContract` says, and does kKill bring the server down? |
| `lexer_sources` | sources of up to five of ten symbols, all three operations in any sequence, `expression` and `stringNewline` | Is the lexer always in the condition that the source asks for, and does every symbol come out? |
| `compile_positions` | handlers of up to six symbols, `regexQuote` | Does every symbol come out once and in order, do insertions mark queries, is an error reported on its line and never too early? |
| `producer` | handlers of up to two of five queries, one rotation, outages and refusals, fair | Does nothing run as a query that is none, is no answer taken for another, is every handler built or refused, are credentials those of this connection? |

Bounds: `Capacity` (6 in `main.cpp`) is 2 or 3, which is enough for nesting, for
reuse of a restored instance inside an outer query, and for a refusal at every
depth; `MaxRows` bounds the rows the server sends per query: with one or two rows a
query can be used before, between and after nested queries; `MaxScope` bounds the
scope stacks, which execQuery makes grow without limit: it is at least one more than
the depth where leaks matter.  `MaxDepth`, the range of the stack index, is at least
`Capacity`: the proofs show that no more is ever needed.

Four statements hold, for example, two for-ofs with a label and a switch or a function
between them, or three for-ofs and a label, where an exit is handed on twice; two rows
are one that is left and one that comes after it.  Nests over one variable twice
occur, too (labelled exits between them are excluded, section 6).

For the inspector, two sessions give a frontend that leaves and one that comes while the
entries of the first are still queued; two messages (one of them the request to run,
without which Start never returns) give an evaluation that pauses with an entry behind
it.  What the proofs show holds for any number.

Three connections are one that is served, one that is refused because of it, and one in
its handshake when the server stops; two addresses are the two sockets that stop
one after the other.  `MaxRefusals = 2` lets a refusal report while the next one is still
queued, which is what deletes the session early; a third only repeats it.

Five symbols open and close a comment, a string or a query with something in between, in
each of several calls; six, of a smaller alphabet, hold two queries with an error behind
them, and newlines.  Two queries with three requests each (one in Compile, two in Jsify)
let every request of one fail while those of the other succeed.  Two pairs of credentials
(`Usernames`, `Passwords`; rotation goes from the first to the second) are what was asked
about before and after the producer changed them.

`N1qlRuntime` assumes no fairness: when a query completes is libcouchbase's business, and a
callback may run for ever.

Fairness of `InspectorIo` (`FairSpec`): the operating system schedules both threads
(weak fairness of `MainThread`, and of what the I/O thread owes), and JavaScript that
is evaluated for the frontend comes to an end.  A frontend owes nothing: it may never
connect, never ask to run and never resume; only a session that the server has closed
ends.  Breakpoints are never fair, and neither are interrupts.

Fairness of `InspectorSocketServer` (`FairSpec`): the loop runs its callbacks, and a client that is
sent a close frame answers it or leaves.  The last is an assumption about frontends: the
server has no timeout of its own.  Handshakes owe nothing.

Fairness of `HandlerRun` (`FairSpec`): the thread runs, and a request ends, with
ReturnError at the latest: `comm.cpp:139` sets CURLOPT_TIMEOUT to 30 seconds.  The producer
owes nothing.

## 4. Properties

Runtime:

* `PoolConserved` – every instance is idle once or held by one running query.
* `StackMirrorsCalls` – the hashed stack is the C++ stack, in both of its views.
* `CookiesPointToRuns`, `JsRunsInsideIterations` – cookies and handles that are
  dereferenced belong to live frames and live requests.
* `ScopeStackCoversRuns` – the scope stack never loses a running query, and is exact
  as long as nothing has leaked.
* `KeepsContract` – refinement of `QueryContract`: `stopIter` of an object stops
  its innermost run and no other, a stopped run delivers nothing, an exception
  surfaces in the call it belongs to, a refused call has no effect.

Loop transformer:

* `Compiles` – no generated jump is left without its target, and the transformer has an
  answer.
* `ImplementsHandler` – refinement of `HandlerLoops`: whichever for-ofs run over queries
  and whichever over arrays, the same rows are visited and every exit lands where the
  author put it, with the value of the return.
* `ExitsLand` – an exit that is under way has a step to take, and each brings it
  outwards: no generated statement gets stuck.
* `StackMirrorsPath` – the association stack holds the enclosing nodes that associate.

Lexer and compilation:

* `FollowsSource` – refinement of `EmbeddedSource`: code, comments, strings and queries
  are seen where they are, in every call.
* `NothingIsLost`, `SymbolsInOrder` – every symbol comes out, once, in order, and (for
  Compile) on its line.
* `InsertionsMarkQueries` – the list of insertions points at the replaced queries.
* `ReportedLineIsTheSources`, `NeverTooEarly` – the reported line is right, and the
  reported index is never before the error.

Producer:

* `NothingElseRuns`, `OnlyQueriesAreTranspiled`, `BuildIsWhole` – what is neither a query
  nor JavaScript never runs; only queries become N1qlQuery, with their own parameters or
  none; without failures in Jsify the script has everything.
* `ValidAnswersAreTheProducers` – an answer returned as valid is the producer's answer
  to this request.
* `NoStaleCredentials` – no connection is made with the name or password of an earlier
  one.
* `BuildEnds` – every handler is built or refused.

Inspector:

* `ServesSessionsInOrder` – refinement of `SessionContract` with the queue
  `dispatch_queue \o incoming`: however dispatches are nested, starts, messages and
  ends reach V8 in the order of the frontends, and the asserts on delegate and channel
  hold.
* `NoLostDispatch` – an entry that waits in the incoming queue has somebody coming for
  it: a dispatch with the flag set, the I/O thread about to schedule one, a task, or,
  while JavaScript runs, also an interrupt.
* `SleepsOnlyWithoutMail` – no wake-up is lost between the check and the wait.
* `AssertionsHold` – no assert of the agent fails, unless the server could not start.
* `StartAttachesTheFrontend` – the handler starts with the first frontend attached.
* `StopJoins`, `ResumeEndsPause` – progress.

Socket server:

* `AssertionsHold` – no assert of Close and of `inspector_close` fails.
* `UpgradedDeletedWithSocket`, `ConnectedSessionsAreLive` – a session that was upgraded is
  deleted by its handle's close callback, whatever was still queued, and is not in the map
  afterwards.  `DeletedWithItsSocket` says the first of every session; that of a
  failed accept or of a client refused twice breaks it (section 6), so no run has it.
* `ClosingSessionsProceed` – a closing session has something to wait for.
* `ServesDelegate` – refinement of `ServerContract`: one session at a time, each ends
  once, ServerDone once and at the end.
* `KilledServerIsDone` – after kKill ServerDone is called, unless the process went down by
  freed memory before.

Each property is paired in `PROJECT.json` with a mutant of a mapped definition (the
operators marked "Mutant" in the modules) that violates it under the same
configuration.

## 5. Proofs

Each theorem holds for all values of the constants, under the named assumptions of the
modules and those in its ASSUME.

**Runtime.** `N1qlRuntimeProofs` proves, for every capacity, any set of objects, any identity
hashes (unique or not), any codes and bounds, that `Spec` implies `TypeOK`,
`PoolConserved`, `StackMirrorsCalls`, `RowsReachTheirQuery`, `CookiesPointToRuns`,
`JsRunsInsideIterations` (always) and `RefusedOnlyAtCapacity`.

None of them is inductive alone.  The inductive invariant `IInv` is the conjunction
of TypeOK, PoolConserved, StackMirrorsCalls, CookiesPointToRuns, RowsReachTheirQuery
and JsRunsInsideIterations with one fact that no run states: `HashHoldsDepth`, the
hash of the i-th running query ends in i-1.  Distinctness of running hashes, and so
the map's faithfulness, follows from it without any assumption on identity hashes;
that a frame index fits its type follows from PoolConserved (no more runs than
instances); that a row counter fits its type follows from RowsReachTheirQuery.  One
lemma per action shows that the action preserves IInv; PTL combines them.

Its second part goes on from `IInv` to the scope stacks.  It proves
`ScopeStackCoversRuns` for any identity hashes, and `KeepsContract`, the refinement of
`QueryContract`, from the assumption `HashesAreUnique`.  The scope stack of an object is
the stack of its running queries only as long as nothing has leaked; execQuery and
refused calls leave hashes on it that nobody pops, and it is popped by position all the
same.  What survives is `ScopeInv`: all entries of the stack carry the object's identity
hash, and, counted from the top, the entries from that of a run upwards have at least the
depth of the run.  So the top is the hash of the object's innermost run or of no running
query, and stopIter stops the former or follows a null handler (the crash of section 6)
but never stops another query.  Uniqueness is needed in that one step: a hash of another
object that looked the same would lead stopIter to its query.

**Loop modifier.** `LoopModifierProofs` proves `StackMirrorsPath` for the traversal for the
consequent, any set of types and associations and trees of any depth.  The inductive
invariant adds `IndexIsDepth`: the index is the number of open nodes less one, and each
entry keeps the index of its node; that is what makes `decrAndPop` pop exactly the
entry of the node that is left.

**Loop transformer.** `TranspiledLoopsProofs` proves `Compiles` for nests of any depth, any
labels, names and queries, unless one of the six forms of `FormsThatFail` occurs.  They are
the forms that `loops_nests` excludes, less *exit between loops over one query* and *return
without a value*, which compile (and then run wrongly).  TLC finds a program that does not compile as soon as one of the six is
admitted, at depth 5, and none with the others admitted at depth 6, so the hypothesis is as weak
as it can be by forms.

`Transpiled` is a recursive function over the for-ofs, from the innermost outwards.  `Stages`
shows by induction that it exists and unfolds it: the code after a for-of is the
consequent and the alternate of the code after the next one inside.  The invariant of the induction
that follows is `Sound(i, copy)`, of each copy of the exit once the for-ofs from i inwards are
transformed: it does not throw; if it still jumps, it is inside of its target, every callback
around it is outside of its `Anchor` (the loop, switch or label that the source names), and no for-of
that is to come stands between the two unless none has been transformed (`Reaches`); if it hands
the exit to a for-of further out, then that one is still to come (`Pending`).  The case of a
for-of keeps it because a for-of has cases only for exits whose anchor is outside of it
(`PushedKeys`).  The forms are needed for this: a jump that is left in a callback has its anchor in
it only if no switch or label between hides the for-of that it is about (`StaysInside`), a
labelled continue is about the for-of that its label is right above (`TargetInReach`), and a return
has a named function to go to (`NamesAreThere`) that is a function, not an arrow.
With i = 1 no for-of is left, and every remaining jump has a target
(`JumpsHaveTargets`): the statements between the anchor and the jump are those of the source,
with its labels.

**Lexer.** `JsifyLexerProofs` proves, for sources of any length in any sequence of
calls, `TypeOK` without condition; `FollowsSource` without open ends, continued strings
and quotes in regular expressions; `SymbolsInOrder` without open ends;
`NothingIsLost` without strings over several lines; and `InsertionsMarkQueries` without
open ends and without JavaScript inside queries.  `FollowsSource` rests on `previous_state`
being INITIAL in every comment and string, and on js_code ending in what the string has
had so far, so that counting backslashes in the output is counting them in the source.
`SymbolsInOrder` and `NothingIsLost` rest on an invariant about the whole output
(positions increase and are covered) that is carried through the replacement of a query
by its comment.  The insertions are in pairs because a begin is written only when no
query is open; `MarkInv` says so by the parity of the list: it is odd while a query is
being read or after one that did not parse, and then its last entry is at the end of js_code,
where the query's comment will start.  TLC finds `InsertionsMarkQueries` violated with
`openEnd` alone and with `expression` alone, so neither hypothesis can be spared.

**Compilation.** The second half of `JsifyLexerProofs` proves of Compile, for sources of any
length with any number of queries, when the lexer is only called for CommentN1QL (`LexOps`),
as Compile does:

* `LinesAreReported`: `ReportedLineIsTheSources`, without open ends and strings over several
  lines (continued or not).  `LineInv` says that the symbols of js_code that come from the
  source map to different symbols before them, and that what has been copied includes every
  newline; so the newlines before a symbol in js_code and those before it in
  the source are counted to the same number, by a bijection.  TLC finds the property
  violated with each of the three features;
* `NotTooEarly`: `NeverTooEarly`, also without JavaScript inside queries.  An insertion is
  compared with an index that the ones before it have already reduced, so that some are
  never discounted.  The proof needs only the other direction: `PlaceInv` says that a symbol behind k
  insertions was moved by at least `Off(k)`, which is what they take away together: two
  characters for each begin, and four more for each end.  TLC finds it violated with `expression`, with
  `continuation` and with `stringNewline`; `openEnd` is excluded because `MarkInv` is used.

`RectifyCompilationInfo` is a fold over the insertions.  `RectifyStepByStep` unfolds it: the
function that the fold stands for exists, by induction over the number of insertions, and
its value for n + 1 of them is one `Discount` of its value for n.

**Producer.** `HandlerRunProofs` proves, for handlers of any length, any queries of the
kinds that `CommunicatorAssumption` names and any number of credentials that contain no
separator: `TypeOK`; `NothingElseRuns`, `NoStaleCredentials` and that every N1qlQuery
of the script was accepted as a query, whatever fails and however bodies arrive;
`OnlyQueriesAreTranspiled`, `BuildIsWhole` and `ValidAnswersAreTheProducers` as long as
a body arrives in one piece; and `NeverAborts` when there are also no statuses that are not numbers.
TLC finds each of the four violated with `chunks`, and `NeverAborts` with
`malformed` alone.  The proof has three layers:

* the *encoding*: where the key, "=", value and "&" of an item are in `Encode(items)`, and
  from it that the tokens between two "&" are the items and that `kv[key]` of a whole body
  is the item's value, in the last chunks of one that value or missing (an empty string);
* the *extraction*: what each operation makes of a body, given the operation that the
  request asked for;
* `IInv`: `UnderWay` (what has arrived and what has not is the end of one of the producer's
  answers to the request under way), `Returned` (what an operation returned is what that
  answer says), `Waits` (the lexer waits for the request about the query it is at, and only then,
  so an answer is never about another query), `Exact` and `Builds` (the script so far is
  what the answers say of the queries so far), `Authenticates` (the name kept
  since the first of the two requests is that of `answered_by`, although the producer's credentials
  may have changed in between).

**Agent.** `InspectorIoProofs` proves every invariant of `inspector_dispatch`, the refinement
`ServesSessionsInOrder`, `SwappedEntriesHaveADispatcher` (entries that have been swapped
belong to a dispatch that has not returned) and `StopLeavesNothing` (a joined stop leaves
nothing queued or attached), for any number of sessions and messages and so for any depth
of dispatches, evaluations and pauses.  Its inductive invariant `IInv` has parts that
are proved one after the other, each with one lemma about Next:

* `TypeInv` – types, with `StartupInv`: the semaphore is posted by a server that could
  not start or by the first request to run, never twice;
* `OrderInv` – the entries that V8 has not seen (`dispatch_queue \o incoming`) *lead*
  from the session that V8 serves to the session of the server: a start comes where no
  session is, everything else in its own session.  The refinement follows, because a
  step appends one entry, hands over the oldest one or leaves the queue as it is (a
  swap), and so does the safety of the asserts on delegate and channel;
* `FrameInv` – an evaluation lies on a dispatch, there is at most one pause loop, and
  swapped entries have a dispatch frame; `FlagInv` – `dispatching_messages_` is clear
  whenever the base activity or the pump runs, which is why a task that they run does
  dispatch;
* `StateInv` – a pause loop that goes on has a channel, and the states of `state_` per
  phase;
* `ComeBackInv` – the strengthening of NoLostDispatch: a task is only missing while the
  dispatch it was turned into has not yet looked at the queue, and an interrupt only
  while the flag is set or the main thread pumps;
* `ServerInv`, `BottomInv` – what start and stop rely on: the server neither stops nor
  loses its session before it is told to, and the first and the last dispatch are the
  lowest frame until they have found both queues empty.

`SleepsOnlyWithoutMail` is inductive alone.  The only assumption is
`InspectorAssumption`: the bounds are natural numbers and `NoSession` is not a session.

**Socket server.** `InspectorSocketServerProofs` proves, for any number of connections,
addresses and queued refusals: whichever races happen, `ConnectedSessionsAreLive` and
`UpgradedDeletedWithSocket`; `DeletedWithItsSocket` without acceptFails, endBeforeRefused and
requestAfterRefused; `AssertionsHold` without killWhileClosing and upgradeAfterRefused;
`ClosingSessionsProceed` without endBeforeWritten; and `TypeOK` and `ServesDelegate` without
upgradeAfterStop.  `IInv` is a statement about each connection: what its session's state
says of its handle, its queued writes and its flags, together with which sessions are in
the map.  A session in the handshake may have any number of refusals queued, behind an
open or a closing handle; an upgraded one has close frames only, unless it was refused before
(upgradeAfterRefused); a close frame is queued exactly between Close and its report; and a
deleted session has a handle that is not closed only if it was never upgraded and one
of the three races happened.

Induction: the library's induction theorems take an operator, which no installed prover
can instantiate.  `SequenceLemmas!Induction` states it about a *set* of numbers instead (a set
that contains 0 and the successor of each of its numbers contains all), which the provers
can use; the proofs above that recur over insertions and tokens cite it.

Only model-checked: liveness (`StopJoins`, `ResumeEndsPause`,
`KilledServerIsDone`, `BuildEnds`), which TLAPS has no ENABLED for; and of the loop
transformer that the generated code does what the handler says (`ImplementsHandler`,
`ExitsLand`), which needs the targets of jumps and the values of returns exactly.

## 6. Where the code departs from its comments

Three departures have a run of their own:

1. `ExecQueryFunction` pushes the object's scope stack (line 365) and never pops it;
   so does `IterFunction` when the pool is exhausted (its catch branch).  After
   `q.execQuery()` inside an iteration of `q`, `q.stopIter()` follows the hash of the
   finished query to a null handler and crashes.  The comment at `n1ql.cpp:338` says
   that the hash is the one set by IterFunction.  Run `runtime_stale_hash`.
2. `WaitForFrontendMessageWhilePaused` looks at the incoming queue only.  When an
   evaluation pauses at a breakpoint, the entries behind it in the dispatching queue wait
   for a further message of the frontend, although the comment at `inspector_io.h:50-51`
   says that a message that arrives on a pause is dispatched; if one of them is
   the kEndSession, nothing arrives any more and `Stop` hangs too.  Run
   `inspector_stuck_entry`.
3. `LoopModifier` associates continue with the nearest switch (`transpiler.js:560`).  An
   unlabelled continue of a for-of inside a switch is not replaced, and the callback that
   is generated contains a continue without a loop.  Run `loops_switch_continue`.

The others have a property in the modules, which TLC finds violated when the named
constant of the named run's configuration is changed; the runs leave them out, so that
the other properties are not hidden by them.

| Departure | Source | Change | Violated |
|---|---|---|---|
| The return value of a stopped iteration is never cleared: an iteration that ends normally shows it again (`transpiler.js:1263` says it is that of the iterator) | `n1ql.cpp:404` | `runtime_stale_hash` as it is | `ReturnValueIsOfThisIteration` |
| An unlabelled break is associated with the nearest label | `transpiler.js:552` | `loops_nests`: `Excluded` without "break past a label" | `Compiles` |
| Only the label right above a for-of is its parentLabel: a continue of an outer one becomes a continue of a label on an if statement | `transpiler.js:1365` | without "continue of an outer label" | `Compiles` |
| A return of an arrow function inside a for-of is taken for one of the handler | `transpiler.js:677` | without "return of an arrow function" | `Compiles` |
| Anonymous functions all have the name null: a return that bubbles out of one finds no case, or another function | `transpiler.js:1826` | without "return of an anonymous function" | `Compiles` |
| In the alternate a return of a function inside nested for-ofs stops the outer iteration | `transpiler.js:1710` | without "return of an inner function" | `ImplementsHandler` |
| A bare return inside a for-of over a query returns null instead of undefined | `transpiler.js:1406` | without "return without a value" | `ImplementsHandler` |
| With nested for-ofs over one query, what a labelled continue left in the object is taken for the outcome of the next iteration | `transpiler.js:1066` | without "exit between loops over one query" | `ImplementsHandler` |
| The visitor of the alternate returns early from annotated nodes, and leaving them is counted all the same | `transpiler.js:1641` | `modifier_consequent`: `Branch = "alternate"`, and `CONSTRAINT Drift` | `StackMirrorsPath` |
| A late kStartSession sets `state_` back from kShutDown: the agent writes to a thread that has ended (`inspector_io.h:83`) | `inspector_io.cc:401` | `inspector_dispatch` | `WritesWakeTheThread` |
| `WaitForDisconnect` sets kShutDown before it writes kStop, which `Write` then drops | `inspector_io.cc:247` | `inspector_dispatch` | `WaitingServerIsStopped` |
| kKill closes a session that is already closing: the assert in Close fails | `inspector_socket_server.cc:498` | `sockets_sessions`: `Races = {"killWhileClosing"}` | `AssertionsHold` |
| The end of the stream before the close frame is written leaves the connection open, and Stop in its join | `inspector_socket.cc:332` | `Races = {"endBeforeWritten"}` | `KilledServerIsDone` |
| A client that leaves before its refusal is written has its session deleted while the handle is closing | `inspector_socket.cc:451` | `sockets_sessions` with `DeletedWithItsSocket`, `Races = {"endBeforeRefused"}` | `DeletedWithItsSocket` |
| Reading goes on after a refusal: a second one queued behind it reports while the handle is closing, and deletes the session | `inspector_socket.cc:465` | the same, `Races = {"requestAfterRefused"}` | `DeletedWithItsSocket` |
| When uv_accept or uv_read_start fails, the session is deleted right after its handle began to close | `inspector_socket_server.cc:510` | the same, `Races = {"acceptFails"}` | `DeletedWithItsSocket` |
| A refused client that gets a page and then an upgrade is served, and its queued refusal closes the handle behind the session's back: the assert of `inspector_close` fails | `inspector_socket_server.cc:554` | `Races = {"requestAfterRefused", "upgradeAfterRefused"}` | `AssertionsHold` |
| A handshake that is still open at kKill starts a session afterwards, and ServerDone is called again | `inspector_socket_server.cc:298` | `Races = {"upgradeAfterStop"}` | `NoSessionAfterKill` |
| A connection in its handshake keeps the thread of a killed server alive | `inspector_socket_server.cc:445` | `sockets_sessions` | `KilledThreadEnds` |
| A source that ends in a comment, a string or a query: the next call starts in it | `jsify.l:161` | `lexer_sources`: `Features` with "openEnd" | `FollowsSource` |
| After a line continued by a backslash the closing quote is taken for an escaped one | `jsify.l:274` | with "continuation" | `FollowsSource` |
| A quote in a regular expression opens a string | `jsify.l:55` | with "regexQuote" (and the symbol) | `FollowsSource` |
| A template over several lines loses its newlines, which is what `NothingIsLost` excepts | `jsify.l:154` | `LostInString` out of `NothingIsLost` | `NothingIsLost` |
| JavaScript such as `delete x;` is recorded as two insertions | `jsify.l:138` | `compile_positions`: `Features` with "expression" | `InsertionsMarkQueries` |
| The line of an insertion is counted from the character whose number is the previous line | `jsify.l:231` | `compile_positions` | `InsertionsHaveTheirLine` |
| Six characters are added around a query, five of which are discounted, and comparisons are with an index that has been reduced | `transpiler.cpp:58` | `compile_positions` | `ReportedIndexIsTheSources` |
| A variable named `from` is an exception that nobody catches | `transpiler.cpp:293` | `compile_positions` | `ReservedNamesAreReported` |
| A body in several chunks is overwritten by its last chunk: credentials are valid and half empty | `comm.cpp:24` | `producer`: `Features` with "chunks" | `ValidAnswersAreTheProducers` |
| A producer that fails after Compile: the script is cut at the query, or the query runs without parameters or as JavaScript | `main.cpp:91`, `jsify.l:321`, `jsify.l:121` | `producer` | `WholeHandlerRuns` |
| A status that is not a number ends the process | `comm.cpp:254` | with "malformed" | `NeverAborts` |

When the server cannot start, `Agent::StartIoThread` destroys the V8 client and returns
false; `main` goes on, and `PauseOnNextJavascriptStatement` calls through the null
client (the one crash that `AssertionsHold` admits).

## 7. What could come next

* Nests with several exits, where annotations of one exit meet cases of another, and the
  alternate of `LoopModifier` inside `LoopTranspiler` instead of the idealised stack.
* The server inside `InspectorIo` in place of its reduction, as one composed instance.
* Proofs of `ImplementsHandler` and `ExitsLand` for nests of any depth: `GeneratedCodeCompiles`
  says that a jump has a target, not yet that it is the right one.

## 8. Not modelled, and why

* `src/components/n1ql-lex`, `src/components/n1ql-parser`: generated or vendored
  N1QL grammar; pure functions of their input.
* `src/components/transpiler-js`, `src/n1ql-js`: earlier copies and a CMake port of
  the transformer.
* `third_party` (esprima, escodegen, estraverse, source-map), `http_parser`: third
  party code.
* `src/tmp`: prototypes, most of it bundles of the same third party code.
* The rest of `transpiler.js`: the constructors of AST nodes, comments and source maps, which are
  formatting of the generated code.
* `js_exception.cpp`, `log.cpp`, string conversions of `utils.cpp`, the constructor of
  `N1qlQuery` in `builtin.js` (text with escaped quotes): formatting only.
* `inspector_socket.cc`'s decoding of frames and headers: byte by byte, without any
  state that outlives a frame but the buffer.
