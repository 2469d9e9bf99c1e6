------------------------------- MODULE HandlerRun --------------------------------
(***************************************************************************)
(* What the process asks of the producer, over its whole life: the handler *)
(* is built (HandlerBuild), and when its queries run, libcouchbase asks    *)
(* for credentials with every connection of the pool (Credentials).  All   *)
(* requests go through one Communicator, one after the other.              *)
(***************************************************************************)
EXTENDS HandlerBuild, Credentials

vars == <<commVars, buildVars, credVars>>

TypeOK ==
  /\ BuildTypeOK
  /\ step \in {"none", "username", "password", "connect"}
  /\ answered_by \in [{"username", "password"} -> 0 .. MaxCredentials + 1]

Init == CommInit /\ BuildInit /\ CredInit

\* A query of the script runs: the pool connects.
HasQueries == pass = "transpile" /\ \E i \in DOMAIN script : script[i].as = "N1qlQuery"

Next ==
  \/ (Build \/ AskProducer) /\ UNCHANGED credVars
  \/ HasQueries /\ Lookup /\ UNCHANGED buildVars

Spec == Init /\ [][Next]_vars

\* The thread runs, and curl ends every request within its timeout.
FairSpec ==
  /\ Spec
  /\ WF_vars(Build /\ UNCHANGED credVars)
  /\ WF_vars(ReturnError /\ AskProducer /\ UNCHANGED credVars)
===============================================================================
