---------------------------- MODULE QueryContract -----------------------------
(***************************************************************************)
(* What the N1QL runtime promises to the JavaScript that uses it, without  *)
(* any of the structures that keep the promise (instance pool, hashed      *)
(* stack, scope stacks, cookies).                                          *)
(*                                                                         *)
(* Runs of queries nest: while the row callback of an iteration executes,  *)
(* it may run further queries, each of which ends before the callback goes *)
(* on.  Rows go to the innermost run.  stopIter of an object ends the      *)
(* delivery of rows to the innermost run of that very object, and a run    *)
(* that has been stopped delivers no further row.  A call raises an        *)
(* exception exactly if its callback threw or the server reported an       *)
(* error.  The process may abort while JavaScript is executing or when the *)
(* server's answer has ended.                                              *)
(***************************************************************************)
EXTENDS Naturals, Sequences, FiniteSetsExt

CONSTANTS Objects, MaxRuns

VARIABLES
  running,     \* the runs, outermost first
  control,     \* "js", "native" or "crashed"
  raised       \* whether the last native call raised a JavaScript exception

vars == <<running, control, raised>>

Run == [op : {"iter", "exec"}, obj : Objects, rows : Nat,
        status : {"active", "stopped", "done"}, failed : BOOLEAN]

Depth == Len(running)
Innermost == running[Depth]
RunsOf(o) == {i \in 1 .. Depth : running[i].obj = o}

Init ==
  /\ running = <<>>
  /\ control = "js"
  /\ raised = FALSE

\* A query that cannot be scheduled is done from the start.
Begin(o, op, status) ==
  /\ control = "js" /\ Depth < MaxRuns
  /\ running' = Append(running, [op |-> op, obj |-> o, rows |-> 0,
                                 status |-> status, failed |-> FALSE])
  /\ control' = "native"
  /\ UNCHANGED raised

\* A call is refused only if as many runs as can exist already do.
Refuse ==
  /\ control = "js" /\ Depth = MaxRuns
  /\ raised' = TRUE
  /\ UNCHANGED <<running, control>>

Deliver ==
  /\ control = "native" /\ Innermost.status = "active"
  /\ running' = [running EXCEPT ![Depth].rows = @ + 1]
  /\ control' = IF Innermost.op = "iter" THEN "js" ELSE "native"
  /\ raised' = IF Innermost.op = "iter" THEN FALSE ELSE raised

Complete(failed) ==
  /\ control = "native" /\ Innermost.status = "active"
  /\ running' = [running EXCEPT ![Depth].status = "done", ![Depth].failed = failed]
  /\ UNCHANGED <<control, raised>>

Stop(o) ==
  /\ control = "js" /\ RunsOf(o) # {}
  /\ running' = [running EXCEPT ![Max(RunsOf(o))].status = "stopped"]
  /\ raised' = FALSE
  /\ UNCHANGED control

\* stopIter of an object none of whose queries ever ran.
RefuseStop ==
  /\ control = "js"
  /\ raised' = TRUE
  /\ UNCHANGED <<running, control>>

CallbackReturns ==
  /\ control = "js" /\ Depth > 0
  /\ control' = "native"
  /\ UNCHANGED <<running, raised>>

CallbackThrows ==
  /\ control = "js" /\ Depth > 0
  /\ running' = [running EXCEPT ![Depth].status = "stopped", ![Depth].failed = TRUE]
  /\ control' = "native"
  /\ UNCHANGED raised

End ==
  /\ control = "native" /\ Innermost.status # "active"
  /\ running' = SubSeq(running, 1, Depth - 1)
  /\ control' = "js"
  /\ raised' = Innermost.failed

Abort ==
  /\ control = "js" \/ (control = "native" /\ Innermost.status = "active")
  /\ control' = "crashed"
  /\ UNCHANGED <<running, raised>>

Next ==
  \/ \E o \in Objects, op \in {"iter", "exec"}, status \in {"active", "done"} :
       Begin(o, op, status)
  \/ Refuse
  \/ Deliver
  \/ \E failed \in BOOLEAN : Complete(failed)
  \/ \E o \in Objects : Stop(o)
  \/ RefuseStop
  \/ CallbackReturns
  \/ CallbackThrows
  \/ End
  \/ Abort

Spec == Init /\ [][Next]_vars
===============================================================================
