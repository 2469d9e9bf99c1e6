------------------------- MODULE InspectorSocketServer -------------------------
(***************************************************************************)
(* The WebSocket server of the debugger (inspector_socket_server.cc on     *)
(* inspector_socket.cc): listening sockets, the HTTP handshake, the close  *)
(* handshake and the ways a connection goes down.                          *)
(*                                                                         *)
(* One thread runs a libuv loop; every callback is one action.  A write is *)
(* queued and reports later; closing a handle first reports the writes     *)
(* that are still queued and then calls the handle's close callback.       *)
(* A session that is deleted before that leaves libuv with freed memory.   *)
(* Messages, HTTP responses and the requests for them change nothing here, *)
(* but for a page after a refusal, and are left out, and so is the Closer: *)
(* InspectorIo passes no callback to Stop.                                 *)
(***************************************************************************)
EXTENDS Naturals, Sequences

CONSTANTS
  Sessions,                \* connections
  Addresses,               \* what the host name resolves to
  MaxRefusals,             \* bound: refusals of one connection that are queued
  Races                    \* the races that are let happen, see below

\* Each breaks something that the others leave intact; a run allows some of them.
\*   "killWhileClosing"    kKill is handled while a session is being closed
\*   "endBeforeWritten"    the client is gone before its close frame is written
\*   "endBeforeRefused"    the client is gone before its refusal is written
\*   "upgradeAfterStop"    a handshake is completed once the server is stopping
\*   "acceptFails"         uv_accept or uv_read_start fails
\*   "requestAfterRefused" a client that was refused goes on before it hears of it
\*   "upgradeAfterRefused" and gets a page that clears its path, and then an upgrade
AllRaces == {"killWhileClosing", "endBeforeWritten", "endBeforeRefused",
             "upgradeAfterStop", "acceptFails", "requestAfterRefused",
             "upgradeAfterRefused"}

ASSUME RacesAssumption == Races \subseteq AllRaces
ASSUME MaxRefusalsAssumption == MaxRefusals \in Nat \ {0}

VARIABLES
  state_,                  \* InspectorSocketServer::state_
  server_sockets,          \* server_sockets_
  connected_sessions,      \* connected_sessions_, and connected_ of the delegate
  conn,                    \* the sessions with their sockets
  killed,                  \* kKill has been handled
  server_done,             \* calls of the delegate's ServerDone
  failed                   \* why the process is gone: an assert, or freed memory

serverVars == <<state_, server_sockets, killed>>
vars == <<serverVars, connected_sessions, conn, server_done, failed>>

\* What a write that is queued reports to: on_close_frame_written or
\* then_close_and_report_failure.
Writes == {"closeFrame", "refusal"}

Connection ==
  [state : {"none", "kHttp", "kWebSocket", "kClosing", "kDeclined", "deleted"},
   handle : {"none", "open", "closing", "closed"},   \* of libuv
   reading : BOOLEAN,                                \* uv_read_start is on
   close : {"dispose", "report", "none"},            \* the handle's close callback
   writes : Seq(Writes),                             \* queued
   stale_path : BOOLEAN,     \* http_parsing_state->path still holds a refused one
   ws_mode : BOOLEAN,                                \* the http_parsing_state is gone
   read_cb : BOOLEAN,                                \* ws_state->read_cb is set
   shutting_down : BOOLEAN,
   connection_eof : BOOLEAN,
   close_sent : BOOLEAN,
   received_close : BOOLEAN]

NoConnection ==
  [state |-> "none", handle |-> "none", reading |-> FALSE, close |-> "dispose",
   writes |-> <<>>, stale_path |-> FALSE, ws_mode |-> FALSE,
   read_cb |-> FALSE, shutting_down |-> FALSE,
   connection_eof |-> FALSE, close_sent |-> FALSE, received_close |-> FALSE]

TypeOK ==
  /\ state_ \in {"kNew", "kRunning", "kStopping", "kStopped"}
  /\ server_sockets \subseteq Addresses
  /\ connected_sessions \subseteq Sessions
  /\ conn \in [Sessions -> Connection]
  /\ killed \in BOOLEAN
  /\ server_done \in 0 .. 1
  /\ failed \in {"no", "assertion", "memory"}

Init ==
  /\ state_ = "kNew" /\ server_sockets = {}
  /\ connected_sessions = {}
  /\ conn = [s \in Sessions |-> NoConnection]
  /\ killed = FALSE /\ server_done = 0 /\ failed = "no"

-------------------------------------------------------------------------------
(***************************************************************************)
(* What the functions of inspector_socket.cc do to one connection.         *)
(***************************************************************************)
\* uv_close, with uv_read_stop before it.
StartClosing(c, callback) ==
  [c EXCEPT !.handle = "closing", !.reading = FALSE, !.close = callback]

close_connection(c) == IF c.handle = "open" THEN StartClosing(c, "dispose") ELSE c

WriteCloseFrame(c) == [c EXCEPT !.writes = Append(@, "closeFrame")]

\* Mutant: the callbacks of the session stay in place.
CloseKeepingCallback(c) ==
  IF c.connection_eof THEN close_connection([c EXCEPT !.shutting_down = TRUE])
  ELSE WriteCloseFrame([c EXCEPT !.shutting_down = TRUE,
                                 !.close_sent = FALSE, !.reading = TRUE])

\* inspector_close: the close frame is written and its answer is read.
inspector_close(c) ==
  IF c.connection_eof THEN close_connection([c EXCEPT !.shutting_down = TRUE])
  ELSE WriteCloseFrame([c EXCEPT !.shutting_down = TRUE, !.read_cb = FALSE,
                                 !.close_sent = FALSE, !.reading = TRUE])

\* The connections that inspector_accept may leave: when it fails it has called
\* uv_close without a callback.
inspector_accept(c) ==
  {[c EXCEPT !.handle = "open", !.reading = TRUE]}
    \cup (IF "acceptFails" \in Races THEN {StartClosing(c, "none")} ELSE {})

\* The asserts of SocketSession::Close and of inspector_close.
MayClose(c) == c.state # "kClosing" /\ c.handle = "open" /\ ~c.shutting_down

Close(c) == inspector_close([c EXCEPT !.state = "kClosing"])

\* invoke_read_callback with no data: ReadCallback closes the session.
ReadNothing(c) == IF c.read_cb THEN Close(c) ELSE c
ReadFails(c) == c.read_cb /\ ~MayClose(c)

close_frame_received(c) ==
  IF c.close_sent THEN close_connection([c EXCEPT !.received_close = TRUE])
  ELSE WriteCloseFrame(ReadNothing([c EXCEPT !.received_close = TRUE]))

\* Mutant: only the peer's close frame closes the connection.
WaitForCloseFrame(c) == [c EXCEPT !.close_sent = TRUE]

on_close_frame_written(c) ==
  IF c.received_close THEN close_connection([c EXCEPT !.close_sent = TRUE])
  ELSE [c EXCEPT !.close_sent = TRUE]

\* Mutant: a close frame that was sent keeps the connection up.
EndBeforeAnswer(c) ==
  LET ended == [c EXCEPT !.connection_eof = TRUE, !.reading = FALSE]
  IN  IF ended.shutting_down THEN ended ELSE ReadNothing(ended)

\* websockets_data_cb at the end of the stream.
EndOfStream(c) ==
  LET ended == [c EXCEPT !.connection_eof = TRUE, !.reading = FALSE]
      closed == IF ended.shutting_down THEN ended ELSE ReadNothing(ended)
  IN  IF closed.close_sent /\ ~closed.received_close
      THEN close_connection(closed) ELSE closed

\* A frame that cannot be decoded.
BadFrame(c) == close_connection(ReadNothing(c))

-------------------------------------------------------------------------------
(***************************************************************************)
(* The server.                                                             *)
(***************************************************************************)
Running == failed = "no"

Update(s, c) == conn' = [conn EXCEPT ![s] = c]

ProcessFails(why) ==
  /\ failed' = why
  /\ UNCHANGED <<serverVars, connected_sessions, conn, server_done>>

AssertionFails == ProcessFails("assertion")

\* A session that was deleted is used, or an http_parsing_state that is gone.
Crash == ProcessFails("memory")

\* Some of the addresses can be listened on; with none Start fails.
Start ==
  /\ Running /\ state_ = "kNew"
  /\ state_' = "kRunning"
  /\ server_sockets' \in SUBSET Addresses \ {{}}
  /\ UNCHANGED <<connected_sessions, conn, killed, server_done, failed>>

\* SocketConnectedCallback.  The session of a failed inspector_accept is deleted
\* at once.
Accept(s) ==
  /\ Running /\ state_ = "kRunning"
  /\ conn[s].state = "none"
  /\ \E c \in inspector_accept(conn[s]) :
       Update(s, [c EXCEPT !.state = IF c.handle = "open" THEN "kHttp" ELSE "deleted"])
  /\ UNCHANGED <<serverVars, connected_sessions, server_done, failed>>

\* The client's request is read.  handshake_failed does not stop the reading.
Requests(s) ==
  /\ Running
  /\ conn[s].state \in {"kHttp", "kDeclined"} /\ conn[s].handle = "open" /\ conn[s].reading
  /\ conn[s].writes = <<>> \/ "requestAfterRefused" \in Races
  /\ Len(conn[s].writes) < MaxRefusals

\* The path of the request stays; the next one is appended to it.
handshake_failed(s, state) ==
  /\ Update(s, [conn[s] EXCEPT !.state = state, !.stale_path = TRUE,
                               !.writes = Append(@, "refusal")])
  /\ UNCHANGED <<connected_sessions, failed>>

\* Not a request for a page or an upgrade, or nothing the parser understands.
BadRequest(s) ==
  /\ Requests(s)
  /\ handshake_failed(s, conn[s].state)
  /\ UNCHANGED <<serverVars, server_done>>

\* A refused path and that of the request are together one of a page: init_handshake.
Page(s) ==
  /\ Requests(s) /\ conn[s].stale_path
  /\ Update(s, [conn[s] EXCEPT !.stale_path = FALSE])
  /\ UNCHANGED <<serverVars, connected_sessions, server_done, failed>>

\* SessionStarted: another debugger may be connected, or the target unknown, as that
\* of a path that starts with a refused one is.
AcceptsEverybody(s, known) == known /\ ~conn[s].stale_path                 \* Mutant
SessionStarted(s, known) == known /\ ~conn[s].stale_path /\ connected_sessions = {}

\* kInspectorHandshakeUpgraded, whose FrontendConnected expects a session that was
\* not declined and starts to read frames.
FrontendConnected(s) ==
  IF conn[s].state # "kHttp" THEN AssertionFails
  ELSE /\ connected_sessions' = connected_sessions \cup {s}
       /\ Update(s, [conn[s] EXCEPT !.state = "kWebSocket", !.ws_mode = TRUE,
                                    !.read_cb = TRUE])
       /\ UNCHANGED <<serverVars, server_done, failed>>

\* kInspectorHandshakeUpgrading.
Upgrade(s, known) ==
  /\ Requests(s)
  /\ state_ = "kRunning" \/ "upgradeAfterStop" \in Races
  /\ conn[s].writes = <<>> \/ conn[s].stale_path \/ "upgradeAfterRefused" \in Races
  /\ IF SessionStarted(s, known) THEN FrontendConnected(s)
     ELSE handshake_failed(s, "kDeclined") /\ UNCHANGED <<serverVars, server_done>>

\* The end of the stream during the handshake.
HandshakeEnds(s) ==
  /\ Running
  /\ conn[s].state \in {"kHttp", "kDeclined"} /\ conn[s].handle = "open" /\ conn[s].reading
  /\ conn[s].writes = <<>> \/ "endBeforeRefused" \in Races
  /\ Update(s, StartClosing(conn[s], "report"))
  /\ UNCHANGED <<serverVars, connected_sessions, server_done, failed>>

\* Mutants: the session stays in the map; a running server is done too.
KeepSession(s) == UNCHANGED <<connected_sessions, server_done>>
DoneWhenEmpty(s) ==
  /\ connected_sessions' = connected_sessions \ {s}
  /\ server_done' = IF connected_sessions = {s} THEN server_done + 1 ELSE server_done

EraseSession(s) ==
  /\ connected_sessions' = connected_sessions \ {s}
  /\ server_done' = IF connected_sessions = {s} /\ state_ = "kStopped"
                    THEN server_done + 1 ELSE server_done

\* What is left of a session: what libuv still knows of its handle, and ws_mode.
Freed(c) ==
  [NoConnection EXCEPT !.state = "deleted", !.handle = c.handle, !.close = c.close,
                       !.writes = c.writes, !.ws_mode = c.ws_mode]

\* The socket of the session that is deleted ends up as c.
SessionTerminated(s, c) ==
  /\ EraseSession(s)
  /\ Update(s, Freed(c))
  /\ UNCHANGED <<serverVars, failed>>

\* Frames are read as long as the client has not sent its close frame.
Reads(s) ==
  /\ Running
  /\ conn[s].state \in {"kWebSocket", "kClosing"} /\ conn[s].handle = "open"
  /\ conn[s].reading

Receive(s, c) ==
  IF ReadFails(conn[s]) THEN AssertionFails
  ELSE /\ Update(s, c)
       /\ UNCHANGED <<serverVars, connected_sessions, server_done, failed>>

ReceiveBadFrame(s) ==
  /\ Reads(s) /\ ~conn[s].received_close
  /\ Receive(s, BadFrame(conn[s]))

ReceiveCloseFrame(s) ==
  /\ Reads(s) /\ ~conn[s].received_close
  /\ Receive(s, close_frame_received(conn[s]))

\* Our close frame is on its way and nothing but its answer closes the connection.
Unanswered(c) == c.shutting_down /\ ~c.close_sent /\ ~c.received_close

ReceiveEnd(s) ==
  /\ Reads(s)
  /\ ~Unanswered(conn[s]) \/ "endBeforeWritten" \in Races
  /\ Receive(s, EndOfStream(conn[s]))

\* The oldest write reports.
WriteReports(s, write) ==
  /\ Running
  /\ conn[s].handle \in {"open", "closing"}
  /\ conn[s].writes # <<>> /\ Head(conn[s].writes) = write

Written(s) == [conn[s] EXCEPT !.writes = Tail(@)]

\* Mutant: the session is told once the close handshake is over.
ReportWhenWritten(s) ==
  /\ WriteReports(s, "closeFrame")
  /\ IF conn[s].received_close THEN SessionTerminated(s, on_close_frame_written(Written(s)))
     ELSE /\ Update(s, on_close_frame_written(Written(s)))
          /\ UNCHANGED <<serverVars, connected_sessions, server_done, failed>>

CloseFrameWritten(s) ==
  /\ WriteReports(s, "closeFrame")
  /\ Update(s, on_close_frame_written(Written(s)))
  /\ UNCHANGED <<serverVars, connected_sessions, server_done, failed>>

\* report_handshake_failure_cb needs the http_parsing_state, which an upgrade and an
\* earlier report delete.
Reported(c) == c.ws_mode \/ c.state = "deleted"

\* then_close_and_report_failure: a handle that is closing is not waited for.
RefusalWritten(s) ==
  /\ WriteReports(s, "refusal")
  /\ IF conn[s].handle = "open"
     THEN /\ Update(s, StartClosing(Written(s), "report"))
          /\ UNCHANGED <<serverVars, connected_sessions, server_done, failed>>
     ELSE IF Reported(conn[s]) THEN Crash ELSE SessionTerminated(s, Written(s))

\* dispose_inspector with CloseCallback, or report_handshake_failure_cb; without a
\* callback libuv alone uses the memory of the handle, which is part of the session.
HandleClosed(s) ==
  /\ Running
  /\ conn[s].handle = "closing" /\ conn[s].writes = <<>>
  /\ CASE conn[s].close = "none" ->
            \/ Crash
            \/ /\ Update(s, [conn[s] EXCEPT !.handle = "closed"])
               /\ UNCHANGED <<serverVars, connected_sessions, server_done, failed>>
       [] conn[s].close = "report" /\ Reported(conn[s]) -> Crash
       [] conn[s].close = "dispose" /\ conn[s].state # "kClosing" -> AssertionFails
       [] OTHER -> SessionTerminated(s, [conn[s] EXCEPT !.handle = "closed"])

\* TransportAction::kStop.
Stop ==
  /\ Running /\ state_ = "kRunning"
  /\ state_' = "kStopping"
  /\ UNCHANGED <<server_sockets, connected_sessions, conn, killed, server_done, failed>>

\* TransportAction::kKill: TerminateConnections, then Stop.
Kill ==
  /\ Running /\ state_ = "kRunning"
  /\ \/ "killWhileClosing" \in Races
     \/ \A s \in connected_sessions : conn[s].state # "kClosing"
  /\ IF \E s \in connected_sessions : ~MayClose(conn[s]) THEN AssertionFails
     ELSE /\ conn' = [s \in Sessions |-> IF s \in connected_sessions THEN Close(conn[s])
                                         ELSE conn[s]]
          /\ state_' = "kStopping"
          /\ killed' = TRUE
          /\ UNCHANGED <<server_sockets, connected_sessions, server_done, failed>>

\* The last listening socket to be closed stops the server.
ServerSocketClosed(a) ==
  /\ Running /\ state_ = "kStopping" /\ a \in server_sockets
  /\ server_sockets' = server_sockets \ {a}
  /\ IF server_sockets # {a} THEN UNCHANGED <<state_, server_done>>
     ELSE /\ state_' = "kStopped"
          /\ server_done' = IF connected_sessions = {} THEN server_done + 1 ELSE server_done
  /\ UNCHANGED <<connected_sessions, conn, killed, failed>>

Client(s) ==
  \/ Accept(s) \/ BadRequest(s) \/ Page(s) \/ \E known \in BOOLEAN : Upgrade(s, known)
  \/ HandshakeEnds(s) \/ ReceiveBadFrame(s) \/ ReceiveCloseFrame(s) \/ ReceiveEnd(s)

Loop(s) == CloseFrameWritten(s) \/ RefusalWritten(s) \/ HandleClosed(s)

Next ==
  \/ Start \/ Stop \/ Kill
  \/ \E a \in Addresses : ServerSocketClosed(a)
  \/ \E s \in Sessions : Client(s) \/ Loop(s)

Spec == Init /\ [][Next]_vars

\* libuv runs what is due.  A client answers a close frame or goes away: the
\* server sets no time limit and depends on it.
Answers(s) == conn[s].state = "kClosing" /\ (ReceiveCloseFrame(s) \/ ReceiveEnd(s))

Fairness ==
  /\ \A s \in Sessions : WF_vars(Loop(s)) /\ WF_vars(Answers(s))
  /\ \A a \in Addresses : WF_vars(ServerSocketClosed(a))

FairSpec == Spec /\ Fairness
-------------------------------------------------------------------------------
\* No assert fails: a session is closed once, by the client or by kKill, and its
\* handle is closed through SocketSession::Close only.
AssertionsHold == failed # "assertion"

\* "Memory is freed when the socket closes": a session that was upgraded is deleted
\* by the close callback of its handle, not earlier, whichever races happen.
UpgradedDeletedWithSocket ==
  \A s \in Sessions :
     conn[s].state = "deleted" /\ conn[s].ws_mode => conn[s].handle = "closed"

\* The same of every session: that of a failed accept and one whose refusal reports
\* while the handle is closing are deleted earlier.
DeletedWithItsSocket ==
  \A s \in Sessions : conn[s].state = "deleted" => conn[s].handle = "closed"

\* connected_sessions_ holds sessions whose handle is not closed yet: Send and
\* TerminateConnections never reach a session that has been deleted.
ConnectedSessionsAreLive ==
  \A s \in connected_sessions :
     /\ conn[s].state \in {"kWebSocket", "kClosing"}
     /\ conn[s].handle \in {"open", "closing"}

\* A session that is being closed is on its way: its handle is closing, or the
\* client's close frame is still to be read, or ours still to be written.
ClosingSessionsProceed ==
  \A s \in Sessions :
     conn[s].state = "kClosing" =>
        \/ conn[s].handle = "closing"
        \/ /\ conn[s].handle = "open"
           /\ IF conn[s].received_close THEN conn[s].writes # <<>> ELSE conn[s].reading

\* The delegate is served as ServerContract says.
Contract == INSTANCE ServerContract WITH
  connected <- connected_sessions,
  stopping <- state_ \in {"kStopping", "kStopped"},
  done <- server_done

ServesDelegate == Contract!ContractSpec

\* "kKill closes connections and stops the server": no session starts afterwards.
NoSessionAfterKill ==
  [][killed => connected_sessions' \subseteq connected_sessions]_vars

\* kKill closes the session that is connected, and ServerDone is called, unless the
\* process goes down by a session that was deleted before its handle was closed.
KilledServerIsDone ==
  killed ~> (connected_sessions = {} /\ server_done > 0) \/ failed = "memory"

\* A session that is being closed is deleted.
ClosingSessionIsDeleted ==
  \A s \in Sessions : conn[s].state = "kClosing" ~> conn[s].state = "deleted"

\* After kKill every handle of the loop is closed: the thread ends and can be joined.
KilledThreadEnds ==
  killed ~> /\ server_sockets = {}
            /\ \A s \in Sessions : conn[s].handle \in {"none", "closed"}
===============================================================================
