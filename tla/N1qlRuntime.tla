----------------------------- MODULE N1qlRuntime ------------------------------
(***************************************************************************)
(* The native side of N1qlQuery (n1ql.cpp): iter, execQuery, stopIter and  *)
(* getReturnValue as the JavaScript of an event handler calls them.        *)
(*                                                                         *)
(* There is one thread.  What makes the code hard is reentrancy: lcb_wait  *)
(* runs the row callback, the row callback runs JavaScript, and that       *)
(* JavaScript calls iter and execQuery again, on other objects or on the   *)
(* same one.  calls is the C++ stack: the frames of IterFunction and       *)
(* ExecQueryFunction, outermost first; every frame but the innermost is in *)
(* lcb_wait below a row callback.  ctl says who executes: "js" is the      *)
(* handler's top level (calls is empty) or the row callback of the         *)
(* innermost frame; "native" is lcb_wait of the innermost frame.           *)
(*                                                                         *)
(* The JavaScript is arbitrary: in "js" any object may be used in any way, *)
(* and an exception that a native call raised may be caught or not.        *)
(***************************************************************************)
EXTENDS ConnectionPool, ScopeStack, FiniteSets

CONSTANTS
  Codes,                   \* the codes handed to stopIter, e.g. "break"
  BareCodes,               \* those handed over without args
  NoValue,                 \* the private fields are not set
  MaxRows                  \* bound: the rows that the server sends per query

ASSUME RuntimeAssumption ==
  /\ Capacity <= MaxDepth
  /\ BareCodes \subseteq Codes
  /\ NoValue \notin Codes
  /\ MaxRows \in Nat

VARIABLES
  calls,                   \* the frames of IterFunction and ExecQueryFunction
  ctl,                     \* "js", "native" or "crashed"
  raised,                  \* whether the last native call raised an exception
  cookie,                  \* per instance: the frame its cookie points into, or 0
  req,                     \* per instance: the state of its query in libcouchbase
  sent,                    \* per instance: the rows its query has produced
  retval,                  \* per object: the private fields that SetReturnValue sets
  metadata                 \* per object: the property "metadata"

jsVars == <<retval, metadata>>
lcbVars == <<cookie, req, sent>>
vars == <<calls, ctl, raised, poolVars, hashedStackVars, scopeVars, lcbVars, jsVars>>

Metadata == {"none", "ok", "error"}

Call == [op : {"iter", "exec"}, obj : Objects, hash : Hash, inst : Instance,
         rows : 0 .. MaxRows, meta : Metadata, exc : BOOLEAN]

TypeOK ==
  /\ PoolTypeOK
  /\ HashedStackTypeOK
  /\ ScopeTypeOK
  /\ calls \in Seq(Call)
  /\ ctl \in {"js", "native", "crashed"}
  /\ raised \in BOOLEAN
  /\ cookie \in [Instance -> 0 .. MaxDepth]
  /\ req \in [Instance -> {"idle", "active", "done", "cancelled"}]
  /\ sent \in [Instance -> 0 .. MaxRows]
  /\ retval \in [Objects -> Codes \cup {NoValue}]
  /\ metadata \in [Objects -> Metadata]

Init ==
  /\ PoolInit /\ HashedStackInit /\ ScopeInit
  /\ calls = <<>>
  /\ ctl = "js"
  /\ raised = FALSE
  /\ cookie = [i \in Instance |-> 0]
  /\ req = [i \in Instance |-> "idle"]
  /\ sent = [i \in Instance |-> 0]
  /\ retval = [o \in Objects |-> NoValue]
  /\ metadata = [o \in Objects |-> "none"]

Depth == Len(calls)
Current == calls[Depth]

-------------------------------------------------------------------------------
(***************************************************************************)
(* iter and execQuery up to lcb_wait.                                      *)
(***************************************************************************)

\* ExecQuery before lcb_wait.  lcb_n1ql_query may fail: the code logs the error
\* and goes on to lcb_wait, which then returns at once.
StartQuery(o, op, inst) ==
  /\ GetResource(inst)
  /\ Push([hash |-> UniqueHash(o), frame |-> Depth + 1])
  /\ calls' = Append(calls, [op |-> op, obj |-> o, hash |-> UniqueHash(o),
                             inst |-> inst, rows |-> 0, meta |-> "none",
                             exc |-> FALSE])
  /\ cookie' = [cookie EXCEPT ![inst] = Depth + 1]
  /\ \E state \in {"active", "done"} : req' = [req EXCEPT ![inst] = state]
  /\ sent' = [sent EXCEPT ![inst] = 0]
  /\ ctl' = "native"
  /\ UNCHANGED raised

\* GetResource throws: the scope stack has been pushed and stays pushed.
RefuseQuery ==
  /\ Exhausted
  /\ raised' = TRUE
  /\ UNCHANGED <<calls, ctl, poolVars, hashedStackVars, lcbVars>>

Crash ==
  /\ ctl' = "crashed"
  /\ UNCHANGED <<calls, raised, lcbVars, poolVars, hashedStackVars, scopeVars, jsVars>>

\* lcb_create fails: the rest of AddResource runs on a null instance.
CreationCrashes == NeedsResource /\ Crash

CallQuery(o, op) ==
  /\ ctl = "js"
  /\ Len(scope[o]) < MaxScope
  /\ \/ /\ SetUniqueHash(o)
        /\ UNCHANGED jsVars
        /\ (\E inst \in Instance : StartQuery(o, op, inst)) \/ RefuseQuery
     \/ CreationCrashes

IterFunction(o) == CallQuery(o, "iter")
ExecQueryFunction(o) == CallQuery(o, "exec")

-------------------------------------------------------------------------------
(***************************************************************************)
(* Inside lcb_wait: libcouchbase calls the row callback of the query.      *)
(***************************************************************************)

\* A row that is not the last.  The handler is the top of the hashed stack.
Row(op) ==
  /\ ctl = "native" /\ Current.op = op
  /\ req[Current.inst] = "active" /\ sent[Current.inst] < MaxRows
  /\ sent' = [sent EXCEPT ![Current.inst] = @ + 1]
  /\ calls' = [calls EXCEPT ![Top.frame].rows = @ + 1]
  /\ UNCHANGED <<cookie, req, poolVars, hashedStackVars, scopeVars, jsVars>>

\* The iterator's row goes to the JavaScript callback.
IterRow ==
  /\ Row("iter")
  /\ ctl' = "js"
  /\ raised' = FALSE

\* The blocking query's row is appended to the handler's rows.
BlockingRow ==
  /\ Row("exec")
  /\ UNCHANGED <<ctl, raised>>

\* The final row: metadata or, if the query failed, errors and an exception.
FinalRow(ok) ==
  /\ ctl = "native" /\ req[Current.inst] = "active"
  /\ req' = [req EXCEPT ![Current.inst] = "done"]
  /\ calls' = [calls EXCEPT ![Top.frame].meta = IF ok THEN "ok" ELSE "error",
                            ![Depth].exc = ~ok]
  /\ UNCHANGED <<ctl, raised, cookie, sent, poolVars, hashedStackVars, scopeVars, jsVars>>

\* A final row without a body is copied from a null pointer; an error without
\* "errors" is cast unchecked by ExtractErrorMsg.
FinalRowCrashes ==
  /\ ctl = "native" /\ req[Current.inst] = "active"
  /\ Crash

\* Mutants: nothing is cancelled; the handle is freed at once.
CancelNothing(inst) == UNCHANGED req
CancelAndFree(inst) == req' = [req EXCEPT ![inst] = "idle"]

\* lcb_n1ql_cancel: the query's callback is not called any more.
Cancel(inst) == req' = [req EXCEPT ![inst] = "cancelled"]

CallbackReturns ==
  /\ ctl = "js" /\ calls # <<>>
  /\ ctl' = "native"
  /\ UNCHANGED <<calls, raised, lcbVars, poolVars, hashedStackVars, scopeVars, jsVars>>

CallbackThrows ==
  /\ ctl = "js" /\ calls # <<>>
  /\ Cancel(Current.inst)
  /\ calls' = [calls EXCEPT ![Depth].exc = TRUE]
  /\ ctl' = "native"
  /\ UNCHANGED <<raised, cookie, sent, poolVars, hashedStackVars, scopeVars, jsVars>>

-------------------------------------------------------------------------------
(***************************************************************************)
(* From the return of lcb_wait to the return of iter and execQuery.        *)
(***************************************************************************)

\* Mutant: the cookie is left behind.
KeepCookie(inst) == UNCHANGED cookie

\* lcb_set_cookie(instance, nullptr)
ClearCookie(inst) == cookie' = [cookie EXCEPT ![inst] = 0]

\* lcb_wait returns once the query is complete, cancelled or was never scheduled.
WaitEnds(inst) == req[inst] # "active"

\* ExecQuery after lcb_wait.
FinishQuery ==
  /\ ctl = "native" /\ WaitEnds(Current.inst)
  /\ ClearCookie(Current.inst)
  /\ req' = [req EXCEPT ![Current.inst] = "idle"]
  /\ Pop
  /\ Restore(Current.inst)
  /\ calls' = SubSeq(calls, 1, Depth - 1)
  /\ ctl' = "js"
  /\ raised' = Current.exc
  /\ sent' = [sent EXCEPT ![Current.inst] = 0]
  /\ UNCHANGED retval

\* The metadata of an iteration without final row stays that of the last one.
AddQueryMetadata(o, meta) ==
  metadata' = [metadata EXCEPT ![o] = IF meta = "none" THEN @ ELSE meta]

IterFunctionReturns ==
  /\ ctl = "native" /\ Current.op = "iter"
  /\ FinishQuery
  /\ AddQueryMetadata(Current.obj, Current.meta)
  /\ PopScopeStack(Current.obj)

\* execQuery puts the metadata on its result and leaves the scope stack as it is.
ExecQueryFunctionReturns ==
  /\ ctl = "native" /\ Current.op = "exec"
  /\ FinishQuery
  /\ UNCHANGED <<metadata, scopeVars>>

-------------------------------------------------------------------------------
(***************************************************************************)
(* stopIter and getReturnValue.                                            *)
(***************************************************************************)

SetReturnValue(o, code) == retval' = [retval EXCEPT ![o] = code]

\* No handler is found for the unique hash: a null pointer is dereferenced.
StopIterFunction(o, code) ==
  /\ ctl = "js"
  /\ \/ /\ ~hasBase[o]
        /\ raised' = TRUE
        /\ UNCHANGED <<calls, ctl, lcbVars, poolVars, hashedStackVars, scopeVars, jsVars>>
     \/ /\ hasBase[o] /\ FrameOfUniqueHash(o) = Absent
        /\ Crash
     \/ /\ hasBase[o] /\ FrameOfUniqueHash(o) # Absent
        /\ Cancel(calls[FrameOfUniqueHash(o)].inst)
        /\ SetReturnValue(o, code)
        /\ raised' = FALSE
        /\ UNCHANGED <<calls, ctl, cookie, sent, poolVars, hashedStackVars, scopeVars, metadata>>

\* getReturnValue(true) concatenates code and args.  If one of them is undefined
\* the unchecked cast to a string makes the outcome undefined: it may crash.
\* In every other case the function changes nothing.
GetReturnValueFunction(o) ==
  /\ ctl = "js"
  /\ retval[o] \in BareCodes \cup {NoValue}
  /\ Crash

Next ==
  \/ \E o \in Objects : IterFunction(o)
  \/ \E o \in Objects : ExecQueryFunction(o)
  \/ IterRow
  \/ BlockingRow
  \/ \E ok \in BOOLEAN : FinalRow(ok)
  \/ FinalRowCrashes
  \/ CallbackReturns
  \/ CallbackThrows
  \/ IterFunctionReturns
  \/ ExecQueryFunctionReturns
  \/ \E o \in Objects, code \in Codes : StopIterFunction(o, code)
  \/ \E o \in Objects : GetReturnValueFunction(o)

Spec == Init /\ [][Next]_vars

-------------------------------------------------------------------------------
(***************************************************************************)
(* Properties.                                                             *)
(***************************************************************************)

RunsOf(o) == {i \in 1 .. Depth : calls[i].obj = o}

Held == [i \in 1 .. Depth |-> calls[i].inst]

\* Every instance that was created is either idle in the queue, once, or held by
\* exactly one running query: reentrant and refused calls, exceptions and
\* cancelled queries lose none and share none.
PoolConserved == PoolAccounts(Held)

\* The hashed stack is the C++ stack of the running queries, in order; the map
\* finds each of them under its own hash and nothing else, so that no two running
\* queries share a hash, even of one object that iterates inside itself.
StackMirrorsCalls ==
  /\ Len(qstack) = Depth
  /\ \A i \in 1 .. Depth : qstack[i].hash = calls[i].hash /\ qstack[i].frame = i
  /\ ViewsAgree

\* The cookie that row callbacks and stopIter dereference is set exactly while
\* the instance's query runs, and points into the frame that runs it.
CookiesPointToRuns ==
  \A inst \in Instance :
    /\ cookie[inst] = 0 <=> req[inst] = "idle"
    /\ cookie[inst] # 0 => cookie[inst] <= Depth /\ calls[cookie[inst]].inst = inst
    /\ cookie[inst] = 0 => \A i \in 1 .. Depth : calls[i].inst # inst

\* A row callback takes its handler from the top of the hashed stack, not from
\* its cookie: each row still reaches the query that it belongs to.
RowsReachTheirQuery ==
  \A i \in 1 .. Depth : calls[i].rows = sent[calls[i].inst]

\* Only an iteration has JavaScript above it, and its query is still known to
\* libcouchbase then: stopIter never cancels a query that has been freed.
JsRunsInsideIterations ==
  /\ ctl = "native" => calls # <<>>
  /\ \A i \in 1 .. Depth : (i < Depth \/ ctl = "js") =>
       /\ calls[i].op = "iter"
       /\ req[calls[i].inst] \in {"active", "cancelled"}

\* The running queries of o that were started after the i-th.
RunsAbove(o, i) == {j \in RunsOf(o) : j > i}

\* The scope stack of an object never loses a run; as long as execQuery and
\* refused calls have leaked nothing it is exactly the object's running queries,
\* the innermost on top.
ScopeStackCoversRuns ==
  \A o \in Objects :
    /\ Len(scope[o]) >= Cardinality(RunsOf(o))
    /\ Len(scope[o]) = Cardinality(RunsOf(o)) =>
         \A i \in RunsOf(o) :
           scope[o][Len(scope[o]) - Cardinality(RunsAbove(o, i))] = calls[i].hash

\* "Maximum pool capacity reached" is raised only when as many queries as the
\* capacity are running.
RefusedOnlyAtCapacity ==
  [][(\E o \in Objects : Len(scope'[o]) > Len(scope[o])) /\ calls' = calls
        => Depth = Capacity]_vars

\* The runtime keeps its contract with JavaScript: rows go to the innermost run,
\* stopIter of an object stops its innermost run and no other object's, a stopped
\* run delivers nothing more, exceptions surface in the call they belong to.
Status(call) == CASE req[call.inst] = "cancelled" -> "stopped"
                  [] OTHER -> req[call.inst]

\* What JavaScript can tell of a running query.
Run(call) == [op |-> call.op, obj |-> call.obj, rows |-> call.rows,
              status |-> Status(call), failed |-> call.exc]

Running == [i \in 1 .. Depth |-> Run(calls[i])]

Contract == INSTANCE QueryContract WITH
  MaxRuns <- Capacity, control <- ctl, running <- Running

KeepsContract == Contract!Spec

\* n1ql.cpp:338: stopIter gets "the unique hash for this object that was set by
\* IterFunction": while an object is being iterated, that hash leads to its
\* innermost iteration.
UniqueHashIsOfInnermostIteration ==
  ctl = "js" => \A o \in Objects : \A i \in RunsOf(o) :
    (\A j \in RunsOf(o) : j <= i) => FrameOfUniqueHash(o) = i

\* transpiler.js:1263: the property that the generated switch reads after iter
\* "contains return value of iterator": an iteration that ran to its end has none.
ReturnValueIsOfThisIteration ==
  [][Len(calls') < Depth /\ Current.op = "iter" /\ req[Current.inst] = "done"
       => retval'[Current.obj] = NoValue]_vars
===============================================================================
