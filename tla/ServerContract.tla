---------------------------- MODULE ServerContract ----------------------------
(***************************************************************************)
(* What the socket server promises its delegate (SocketServerDelegate):    *)
(* one session at a time, every session that starts ends, and ServerDone   *)
(* is called once, after the server has been told to stop and with no      *)
(* session left; nothing happens after that.                               *)
(*                                                                         *)
(* Sockets, frames, handshakes and closing in several steps are absent.    *)
(***************************************************************************)
EXTENDS Naturals

CONSTANT Sessions

VARIABLES
  connected,               \* the sessions that the delegate was told of
  stopping,                \* the server has been told to stop
  done                     \* how often ServerDone has been called

contractVars == <<connected, stopping, done>>

ContractInit ==
  /\ connected = {}
  /\ stopping = FALSE
  /\ done = 0

StartSession(s) ==
  /\ connected = {} /\ done = 0
  /\ connected' = {s}
  /\ UNCHANGED <<stopping, done>>

\* The last session of a server that is stopping may take it down with it.
EndSession ==
  /\ connected # {}
  /\ connected' = {}
  /\ done' \in IF stopping THEN {0, 1} ELSE {0}
  /\ UNCHANGED stopping

StopServer ==
  /\ stopping' = TRUE
  /\ UNCHANGED <<connected, done>>

ServerDone ==
  /\ stopping /\ connected = {} /\ done = 0
  /\ done' = 1
  /\ UNCHANGED <<connected, stopping>>

ContractNext ==
  \/ \E s \in Sessions : StartSession(s)
  \/ EndSession \/ StopServer \/ ServerDone

ContractSpec == ContractInit /\ [][ContractNext]_contractVars
===============================================================================
