---------------------- MODULE InspectorSocketServerProofs ----------------------
(***************************************************************************)
(* What holds of the socket server for any number of connections, and      *)
(* which race each property depends on.                                    *)
(***************************************************************************)
EXTENDS InspectorSocketServer, SequenceLemmas

(***************************************************************************)
(* The inductive invariant: what each state of a session says of its       *)
(* socket.                                                                 *)
(***************************************************************************)
Fresh(c) ==
  /\ c.read_cb = FALSE /\ c.shutting_down = FALSE /\ c.connection_eof = FALSE
  /\ c.close_sent = FALSE /\ c.received_close = FALSE

\* A session may be upgraded with refusals still queued.
Mixed == "upgradeAfterRefused" \in Races

\* No refusal is reported but that of an open handle.
RefusedOnce == "endBeforeRefused" \notin Races /\ "requestAfterRefused" \notin Races

OnlyRefusals(w) == \A i \in 1 .. Len(w) : w[i] = "refusal"

OnlyCloseFrames(w) == Mixed \/ \A i \in 1 .. Len(w) : w[i] = "closeFrame"

Unused(c) == c.handle = "none" /\ c.writes = <<>> /\ c.ws_mode = FALSE /\ Fresh(c)

Handshaking(c) ==
  /\ c.handle \in {"open", "closing"} /\ c.ws_mode = FALSE /\ Fresh(c)
  /\ OnlyRefusals(c.writes)
  /\ c.handle = "closing" => c.close = "report"
  /\ c.handle = "open" /\ c.state = "kDeclined" => c.writes # <<>>
  /\ RefusedOnce => /\ c.writes \in {<<>>, <<"refusal">>}
                    /\ c.handle = "closing" => c.writes = <<>>

Attached(c) ==
  /\ \/ c.handle = "open" /\ c.reading = TRUE
     \/ Mixed /\ c.handle = "closing" /\ c.close = "report"
  /\ c.read_cb = TRUE /\ c.ws_mode = TRUE
  /\ OnlyRefusals(c.writes) /\ (Mixed \/ c.writes = <<>>)
  /\ c.shutting_down = FALSE /\ c.connection_eof = FALSE
  /\ c.close_sent = FALSE /\ c.received_close = FALSE

ClosesBy(c) ==
  c.handle = "closing" => c.close = "dispose" \/ (Mixed /\ c.close = "report")

Closing(c) ==
  /\ c.handle \in {"open", "closing"} /\ c.shutting_down = TRUE /\ c.ws_mode = TRUE
  /\ OnlyCloseFrames(c.writes) /\ ClosesBy(c)
  /\ c.handle = "open" => c.read_cb = FALSE
  /\ "endBeforeWritten" \notin Races /\ c.handle = "open" =>
       IF c.received_close THEN c.writes # <<>> ELSE c.reading = TRUE

Deleted(c) ==
  \/ c.handle = "closed"
  \/ /\ c.handle = "closing" /\ c.ws_mode = FALSE
     /\ \/ "acceptFails" \in Races /\ c.close = "none" /\ c.writes = <<>>
        \/ ~RefusedOnce /\ c.close = "report" /\ OnlyRefusals(c.writes)

ConnInv(c) ==
  /\ c \in Connection
  /\ c.state = "none" => Unused(c)
  /\ c.state \in {"kHttp", "kDeclined"} => Handshaking(c)
  /\ c.state = "kWebSocket" => Attached(c)
  /\ c.state = "kClosing" => Closing(c)
  /\ c.state = "deleted" => Deleted(c)

ConnectionsInv ==
  /\ conn \in [Sessions -> Connection]
  /\ \A s \in Sessions : ConnInv(conn[s])
  /\ \A s \in Sessions : s \in connected_sessions <=> conn[s].state \in {"kWebSocket", "kClosing"}

ServerInv ==
  /\ state_ \in {"kNew", "kRunning", "kStopping", "kStopped"}
  /\ connected_sessions \subseteq Sessions
  /\ "killWhileClosing" \notin Races /\ ~Mixed => failed # "assertion"

IInv == ConnectionsInv /\ ServerInv

-------------------------------------------------------------------------------
(***************************************************************************)
(* Lemmas about the functions of inspector_socket.cc.                      *)
(***************************************************************************)
\* Every write of a connection in the close handshake is a close frame.
LEMMA CloseFrames ==
  ASSUME NEW w \in Seq(Writes), OnlyCloseFrames(w)
  PROVE  /\ Append(w, "closeFrame") \in Seq(Writes)
         /\ OnlyCloseFrames(Append(w, "closeFrame"))
         /\ Append(w, "closeFrame") # <<>>
         /\ w # <<>> => Tail(w) \in Seq(Writes) /\ OnlyCloseFrames(Tail(w))
<1>1. "closeFrame" \in Writes /\ Len(w) \in Nat
  BY DEF Writes
<1>2. /\ Append(w, "closeFrame") \in Seq(Writes) /\ Append(w, "closeFrame") # <<>>
      /\ OnlyCloseFrames(Append(w, "closeFrame"))
  BY <1>1, AppendProperties DEF OnlyCloseFrames
<1>3. ASSUME w # <<>>
      PROVE  Tail(w) \in Seq(Writes) /\ OnlyCloseFrames(Tail(w))
  BY <1>3, <1>1, HeadTailProperties DEF OnlyCloseFrames
<1> QED
  BY <1>2, <1>3

\* Every write of a handshake is a refusal.
LEMMA Refusals ==
  ASSUME NEW w \in Seq(Writes), OnlyRefusals(w)
  PROVE  /\ Append(w, "refusal") \in Seq(Writes)
         /\ OnlyRefusals(Append(w, "refusal"))
         /\ Append(w, "refusal") # <<>>
         /\ w # <<>> => /\ Tail(w) \in Seq(Writes) /\ OnlyRefusals(Tail(w))
                        /\ Head(w) = "refusal"
<1>1. "refusal" \in Writes /\ Len(w) \in Nat
  BY DEF Writes
<1>2. /\ Append(w, "refusal") \in Seq(Writes) /\ Append(w, "refusal") # <<>>
      /\ OnlyRefusals(Append(w, "refusal"))
  BY <1>1, AppendProperties DEF OnlyRefusals
<1>3. ASSUME w # <<>>
      PROVE  Tail(w) \in Seq(Writes) /\ OnlyRefusals(Tail(w)) /\ Head(w) = "refusal"
  <2>1. Len(w) >= 1 /\ Head(w) = w[1]
    BY <1>3, <1>1, HeadTailProperties
  <2> QED
    BY <1>3, <1>1, <2>1, HeadTailProperties DEF OnlyRefusals
<1> QED
  BY <1>2, <1>3

\* The queue that starts with our close frame.
LEMMA FirstCloseFrame ==
  /\ OnlyCloseFrames(<<>>) /\ OnlyRefusals(<<>>) /\ <<>> \in Seq(Writes)
  /\ Append(<<>>, "closeFrame") \in Seq(Writes)
  /\ OnlyCloseFrames(Append(<<>>, "closeFrame"))
  /\ Append(<<>>, "closeFrame") # <<>>
<1>1. OnlyCloseFrames(<<>>) /\ OnlyRefusals(<<>>) /\ <<>> \in Seq(Writes)
  BY DEF OnlyCloseFrames, OnlyRefusals
<1> QED
  BY <1>1, CloseFrames

\* SocketSession::Close of a session that may be closed.
LEMMA CloseStarts ==
  ASSUME NEW c \in Connection, c.handle = "open", Mixed \/ c.writes = <<>>,
         c.ws_mode = TRUE, c.shutting_down = FALSE
  PROVE  /\ ConnInv(Close(c)) /\ Close(c).state = "kClosing"
         /\ Close(c).received_close = c.received_close
         /\ ~c.connection_eof => Close(c).close_sent = FALSE /\ Close(c).handle = "open"
         /\ c.connection_eof => Close(c).handle = "closing"
<1>0. /\ c.writes \in Seq(Writes) /\ OnlyCloseFrames(c.writes)
      /\ Append(c.writes, "closeFrame") \in Seq(Writes)
      /\ OnlyCloseFrames(Append(c.writes, "closeFrame"))
      /\ Append(c.writes, "closeFrame") # <<>>
  <2>1. c.writes \in Seq(Writes) /\ OnlyCloseFrames(c.writes)
    BY FirstCloseFrame DEF Connection, OnlyCloseFrames
  <2> QED
    BY <2>1, CloseFrames
<1>1. CASE c.connection_eof
  <2>1. Close(c) = [c EXCEPT !.state = "kClosing", !.shutting_down = TRUE,
                             !.handle = "closing", !.reading = FALSE, !.close = "dispose"]
    BY <1>1 DEF Close, inspector_close, close_connection, StartClosing, Connection
  <2>2. Close(c) \in Connection
    BY <2>1 DEF Connection
  <2>3. Closing(Close(c)) /\ Close(c).state = "kClosing" /\ Close(c).handle = "closing"
        /\ Close(c).received_close = c.received_close
    BY <2>1, <1>0 DEF Closing, ClosesBy, Connection
  <2> QED
    BY <2>2, <2>3, <1>1 DEF ConnInv
<1>2. CASE ~c.connection_eof
  <2>1. Close(c) = [c EXCEPT !.state = "kClosing", !.shutting_down = TRUE, !.read_cb = FALSE,
                             !.close_sent = FALSE, !.reading = TRUE,
                             !.writes = Append(c.writes, "closeFrame")]
    BY <1>2 DEF Close, inspector_close, WriteCloseFrame, Connection
  <2>2. Close(c) \in Connection
    BY <2>1, <1>0 DEF Connection
  <2>3. Closing(Close(c)) /\ Close(c).state = "kClosing" /\ Close(c).handle = "open"
        /\ Close(c).received_close = c.received_close /\ Close(c).close_sent = FALSE
    BY <2>1, <1>0 DEF Closing, ClosesBy, Connection
  <2> QED
    BY <2>2, <2>3, <1>2 DEF ConnInv
<1> QED
  BY <1>1, <1>2

\* A session in the close handshake, whatever is still to come.
InCloseHandshake(c) ==
  /\ c \in Connection /\ c.state = "kClosing"
  /\ c.handle \in {"open", "closing"} /\ c.shutting_down = TRUE /\ c.ws_mode = TRUE
  /\ OnlyCloseFrames(c.writes) /\ ClosesBy(c)
  /\ c.handle = "open" => c.read_cb = FALSE

LEMMA ClosingIsInHandshake ==
  ASSUME NEW c, ConnInv(c), c.state = "kClosing"
  PROVE  InCloseHandshake(c)
  BY DEF ConnInv, Closing, InCloseHandshake

\* close_connection completes the handshake from any of its states.
LEMMA CloseConnectionCloses ==
  ASSUME NEW c, InCloseHandshake(c)
  PROVE  ConnInv(close_connection(c)) /\ close_connection(c).state = "kClosing"
<1>1. CASE c.handle = "open"
  <2>1. close_connection(c) = [c EXCEPT !.handle = "closing", !.reading = FALSE,
                                        !.close = "dispose"]
    BY <1>1 DEF close_connection, StartClosing
  <2>2. close_connection(c) \in Connection
    BY <2>1 DEF Connection, InCloseHandshake
  <2>3. Closing(close_connection(c)) /\ close_connection(c).state = "kClosing"
    BY <2>1 DEF Closing, ClosesBy, Connection, InCloseHandshake
  <2> QED
    BY <2>2, <2>3 DEF ConnInv
<1>2. CASE c.handle = "closing"
  <2>1. close_connection(c) = c
    BY <1>2 DEF close_connection
  <2> QED
    BY <2>1, <1>2 DEF ConnInv, Closing, InCloseHandshake
<1> QED
  BY <1>1, <1>2 DEF InCloseHandshake

\* A close frame is written after the client's has been received.
LEMMA WriteAnswer ==
  ASSUME NEW c, InCloseHandshake(c), c.received_close = TRUE
  PROVE  ConnInv(WriteCloseFrame(c)) /\ WriteCloseFrame(c).state = "kClosing"
<1> DEFINE d == WriteCloseFrame(c)
<1>1. d = [c EXCEPT !.writes = Append(c.writes, "closeFrame")]
  BY DEF WriteCloseFrame, InCloseHandshake, Connection
<1>2. c.writes \in Seq(Writes)
  BY DEF InCloseHandshake, Connection
<1>3. /\ Append(c.writes, "closeFrame") \in Seq(Writes)
      /\ OnlyCloseFrames(Append(c.writes, "closeFrame"))
      /\ Append(c.writes, "closeFrame") # <<>>
  BY <1>2, CloseFrames DEF InCloseHandshake
<1>4. d \in Connection
  BY <1>1, <1>3 DEF Connection, InCloseHandshake
<1>5. Closing(d) /\ d.state = "kClosing"
  BY <1>1, <1>3 DEF Closing, ClosesBy, Connection, InCloseHandshake
<1> QED
  BY <1>4, <1>5 DEF ConnInv

\* The client's close frame, before or after ours.
LEMMA CloseFrameReceived ==
  ASSUME NEW c, ConnInv(c), c.state \in {"kWebSocket", "kClosing"}, c.handle = "open"
  PROVE  ConnInv(close_frame_received(c)) /\ close_frame_received(c).state = "kClosing"
<1> DEFINE r == [c EXCEPT !.received_close = TRUE]
<1>1. c \in Connection
  BY DEF ConnInv
<1>2. r \in Connection /\ r.received_close = TRUE /\ r.state = c.state /\ r.handle = "open"
      /\ r.writes = c.writes /\ r.shutting_down = c.shutting_down /\ r.read_cb = c.read_cb
      /\ r.connection_eof = c.connection_eof /\ r.ws_mode = c.ws_mode /\ r.close = c.close
  BY <1>1 DEF Connection
<1>3. close_frame_received(c) = IF c.close_sent THEN close_connection(r)
                                ELSE WriteCloseFrame(ReadNothing(r))
  BY DEF close_frame_received
<1>4. CASE c.state = "kWebSocket"
  <2>1. /\ c.close_sent = FALSE /\ c.read_cb = TRUE /\ (Mixed \/ c.writes = <<>>)
        /\ c.ws_mode = TRUE /\ c.shutting_down = FALSE /\ c.connection_eof = FALSE
    BY <1>4 DEF ConnInv, Attached
  <2> HIDE DEF r
  <2>2. ConnInv(Close(r)) /\ Close(r).state = "kClosing" /\ Close(r).received_close = TRUE
    BY <1>2, <2>1, CloseStarts
  <2>3. ReadNothing(r) = Close(r)
    BY <1>2, <2>1 DEF ReadNothing
  <2>4. InCloseHandshake(Close(r))
    BY <2>2, ClosingIsInHandshake
  <2> QED
    BY <1>3, <2>1, <2>2, <2>3, <2>4, WriteAnswer
<1>5. CASE c.state = "kClosing"
  <2>1. InCloseHandshake(c)
    BY <1>5, ClosingIsInHandshake
  <2>2. InCloseHandshake(r)
    BY <2>1, <1>2 DEF InCloseHandshake, ClosesBy
  <2>3. ReadNothing(r) = r
    BY <1>2, <2>1 DEF ReadNothing, InCloseHandshake
  <2> HIDE DEF r
  <2> QED
    BY <1>2, <1>3, <2>2, <2>3, WriteAnswer, CloseConnectionCloses
<1> QED
  BY <1>4, <1>5

\* A frame that cannot be decoded.
LEMMA BadFrameCloses ==
  ASSUME NEW c, ConnInv(c), c.state \in {"kWebSocket", "kClosing"}, c.handle = "open"
  PROVE  ConnInv(BadFrame(c)) /\ BadFrame(c).state = "kClosing"
<1>1. CASE c.state = "kWebSocket"
  <2>1. /\ c.read_cb = TRUE /\ (Mixed \/ c.writes = <<>>) /\ c.shutting_down = FALSE
        /\ c.ws_mode = TRUE /\ c \in Connection
    BY <1>1 DEF ConnInv, Attached
  <2>2. ConnInv(Close(c)) /\ Close(c).state = "kClosing"
    BY <2>1, CloseStarts
  <2>3. BadFrame(c) = close_connection(Close(c))
    BY <2>1 DEF BadFrame, ReadNothing
  <2> QED
    BY <2>2, <2>3, ClosingIsInHandshake, CloseConnectionCloses
<1>2. CASE c.state = "kClosing"
  <2>1. InCloseHandshake(c)
    BY <1>2, ClosingIsInHandshake
  <2>2. BadFrame(c) = close_connection(c)
    BY <2>1 DEF BadFrame, ReadNothing, InCloseHandshake
  <2> QED
    BY <2>1, <2>2, CloseConnectionCloses
<1> QED
  BY <1>1, <1>2

\* The end of the stream: nothing is lost unless our close frame is unanswered.
LEMMA EndOfStreamCloses ==
  ASSUME NEW c, ConnInv(c), c.state \in {"kWebSocket", "kClosing"}, c.handle = "open",
         ~Unanswered(c) \/ "endBeforeWritten" \in Races
  PROVE  ConnInv(EndOfStream(c)) /\ EndOfStream(c).state = "kClosing"
<1> DEFINE e == [c EXCEPT !.connection_eof = TRUE, !.reading = FALSE]
<1>1. c \in Connection
  BY DEF ConnInv
<1>2. e \in Connection /\ e.connection_eof = TRUE /\ e.reading = FALSE /\ e.state = c.state
      /\ e.handle = c.handle /\ e.writes = c.writes /\ e.shutting_down = c.shutting_down
      /\ e.read_cb = c.read_cb /\ e.close_sent = c.close_sent
      /\ e.received_close = c.received_close /\ e.close = c.close /\ e.ws_mode = c.ws_mode
  BY <1>1 DEF Connection
<1>3. CASE c.state = "kWebSocket"
  <2>1. c.read_cb = TRUE /\ (Mixed \/ c.writes = <<>>) /\ c.shutting_down = FALSE
        /\ c.ws_mode = TRUE
    BY <1>3 DEF ConnInv, Attached
  <2>2. EndOfStream(c) = IF Close(e).close_sent /\ ~Close(e).received_close
                         THEN close_connection(Close(e)) ELSE Close(e)
    BY <1>2, <2>1 DEF EndOfStream, ReadNothing
  <2> HIDE DEF e
  <2>3. ConnInv(Close(e)) /\ Close(e).state = "kClosing"
    BY <1>2, <2>1, CloseStarts
  <2> QED
    BY <2>2, <2>3, ClosingIsInHandshake, CloseConnectionCloses
<1>4. CASE c.state = "kClosing"
  <2>1. InCloseHandshake(c)
    BY <1>4, ClosingIsInHandshake
  <2>2. EndOfStream(c) = IF e.close_sent /\ ~e.received_close THEN close_connection(e) ELSE e
    BY <1>2, <2>1 DEF EndOfStream, InCloseHandshake
  <2> HIDE DEF e
  <2>3. InCloseHandshake(e)
    BY <2>1, <1>2 DEF InCloseHandshake, ClosesBy
  <2>4. CASE e.close_sent /\ ~e.received_close
    BY <2>2, <2>3, <2>4, CloseConnectionCloses
  <2>5. CASE ~(e.close_sent /\ ~e.received_close)
    <3>1. "endBeforeWritten" \notin Races => c.received_close
      BY <2>5, <2>1, <1>2 DEF Unanswered, InCloseHandshake
    <3>2. Closing(e)
      BY <3>1, <2>3, <1>2, <1>4 DEF ConnInv, Closing, InCloseHandshake
    <3> QED
      BY <3>2, <2>2, <2>5, <1>2, <1>4 DEF ConnInv
  <2> QED
    BY <2>4, <2>5
<1> QED
  BY <1>3, <1>4

\* Our close frame has been written.
LEMMA CloseFrameWrittenKeeps ==
  ASSUME NEW c, ConnInv(c), c.state = "kClosing", c.writes # <<>>
  PROVE  LET w == [c EXCEPT !.writes = Tail(@)]
         IN  ConnInv(on_close_frame_written(w)) /\ on_close_frame_written(w).state = "kClosing"
<1> DEFINE w == [c EXCEPT !.writes = Tail(c.writes), !.close_sent = TRUE]
           v == [c EXCEPT !.writes = Tail(@)]
<1>1. InCloseHandshake(c) /\ c \in Connection /\ c.writes \in Seq(Writes)
  BY ClosingIsInHandshake DEF ConnInv, Connection
<1>2. Tail(c.writes) \in Seq(Writes) /\ OnlyCloseFrames(Tail(c.writes))
  BY <1>1, CloseFrames DEF InCloseHandshake
<1>3. /\ v.received_close = c.received_close
      /\ [v EXCEPT !.close_sent = TRUE] = w
  BY <1>1 DEF Connection
<1>4. on_close_frame_written(v) = IF c.received_close THEN close_connection(w) ELSE w
  BY <1>3 DEF on_close_frame_written
<1>5. w \in Connection /\ w.state = "kClosing" /\ w.handle = c.handle
      /\ w.shutting_down = c.shutting_down /\ w.writes = Tail(c.writes)
      /\ w.close = c.close /\ w.read_cb = c.read_cb /\ w.reading = c.reading
      /\ w.received_close = c.received_close /\ w.ws_mode = c.ws_mode
  BY <1>1, <1>2 DEF Connection
<1> HIDE DEF w
<1>6. InCloseHandshake(w)
  BY <1>1, <1>2, <1>5 DEF InCloseHandshake, ClosesBy
<1>7. CASE c.received_close
  BY <1>4, <1>6, <1>7, CloseConnectionCloses
<1>8. CASE ~c.received_close
  <2>1. Closing(w)
    BY <1>5, <1>6, <1>8 DEF ConnInv, Closing, InCloseHandshake
  <2> QED
    BY <2>1, <1>4, <1>5, <1>8 DEF ConnInv
<1> QED
  BY <1>7, <1>8

-------------------------------------------------------------------------------
(***************************************************************************)
(* The actions.                                                            *)
(***************************************************************************)
Connected(state) == state \in {"kWebSocket", "kClosing"}

\* One connection changes, and with its state whether it is in the map.
LEMMA UpdateKeeps ==
  ASSUME ConnectionsInv, NEW s \in Sessions, NEW d, ConnInv(d), Update(s, d),
         connected_sessions' = IF Connected(d.state) THEN connected_sessions \cup {s}
                               ELSE connected_sessions \ {s}
  PROVE  ConnectionsInv'
<1>1. conn' = [conn EXCEPT ![s] = d] /\ d \in Connection
  BY DEF Update, ConnInv
<1>2. conn' \in [Sessions -> Connection]
  BY <1>1 DEF ConnectionsInv
<1>3. conn'[s] = d /\ \A t \in Sessions \ {s} : conn'[t] = conn[t]
  BY <1>1 DEF ConnectionsInv
<1>4. \A t \in Sessions : ConnInv(conn'[t])
  BY <1>3 DEF ConnectionsInv
<1>5. \A t \in Sessions : t \in connected_sessions' <=> conn'[t].state \in {"kWebSocket", "kClosing"}
  BY <1>3 DEF ConnectionsInv, Connected
<1> QED
  BY <1>2, <1>4, <1>5 DEF ConnectionsInv, ConnInv, Unused, Handshaking, Attached, Closing, ClosesBy,
     Deleted, Fresh, OnlyCloseFrames, OnlyRefusals

\* The map is unchanged when the connection stays in it or outside of it.
LEMMA UpdateInPlace ==
  ASSUME ConnectionsInv, NEW s \in Sessions, NEW d, ConnInv(d), Update(s, d),
         Connected(d.state) <=> Connected(conn[s].state), UNCHANGED connected_sessions
  PROVE  ConnectionsInv'
<1>1. s \in connected_sessions <=> Connected(d.state)
  BY DEF ConnectionsInv, Connected
<1>2. connected_sessions' = IF Connected(d.state) THEN connected_sessions \cup {s}
                            ELSE connected_sessions \ {s}
  BY <1>1
<1> QED
  BY <1>2, UpdateKeeps

\* A session is deleted: it leaves the map.
LEMMA TerminationKeeps ==
  ASSUME ConnectionsInv, NEW s \in Sessions, NEW c \in Connection,
         Deleted(c), SessionTerminated(s, c)
  PROVE  ConnectionsInv'
<1> DEFINE d == Freed(c)
<1>1. d \in Connection /\ d.state = "deleted" /\ Deleted(d)
  BY FirstCloseFrame DEF Connection, Freed, NoConnection, Deleted
<1>2. Update(s, d) /\ connected_sessions' = connected_sessions \ {s}
  BY DEF SessionTerminated, EraseSession
<1>3. ConnInv(d) /\ ~Connected(d.state)
  BY <1>1 DEF ConnInv, Connected
<1> HIDE DEF d
<1> QED
  BY <1>2, <1>3, UpdateKeeps

\* Nothing but the connections and the map is read by the invariant of both.
LEMMA NoConnectionChanges ==
  ASSUME ConnectionsInv, UNCHANGED <<conn, connected_sessions>>
  PROVE  ConnectionsInv'
  BY DEF ConnectionsInv, ConnInv, Unused, Handshaking, Attached, Closing, ClosesBy,
         Deleted, Fresh, OnlyCloseFrames, OnlyRefusals

LEMMA AcceptKeeps ==
  ASSUME ConnectionsInv, NEW s \in Sessions, Accept(s)
  PROVE  ConnectionsInv'
<1>1. conn[s] \in Connection /\ conn[s].state = "none" /\ Unused(conn[s])
  BY DEF Accept, ConnectionsInv, ConnInv
<1>2. PICK c \in inspector_accept(conn[s]) :
        Update(s, [c EXCEPT !.state = IF c.handle = "open" THEN "kHttp" ELSE "deleted"])
  BY DEF Accept
<1> DEFINE d == [c EXCEPT !.state = IF c.handle = "open" THEN "kHttp" ELSE "deleted"]
<1>3. ConnInv(d) /\ ~Connected(d.state)
  <2>1. CASE c = [conn[s] EXCEPT !.handle = "open", !.reading = TRUE]
    <3>1. d = [conn[s] EXCEPT !.state = "kHttp", !.handle = "open", !.reading = TRUE]
      BY <1>1, <2>1 DEF Connection
    <3> HIDE DEF d
    <3>2. d \in Connection /\ d.state = "kHttp"
      BY <1>1, <3>1 DEF Connection
    <3>3. Handshaking(d)
      BY <1>1, <3>1, FirstCloseFrame DEF Handshaking, Unused, Fresh, Connection
    <3> QED
      BY <3>2, <3>3 DEF ConnInv, Connected
  <2>2. CASE "acceptFails" \in Races /\ c = StartClosing(conn[s], "none")
    <3>1. d = [conn[s] EXCEPT !.state = "deleted", !.handle = "closing", !.reading = FALSE,
                              !.close = "none"]
      BY <1>1, <2>2 DEF StartClosing, Connection
    <3> HIDE DEF d
    <3>2. d \in Connection /\ d.state = "deleted"
      BY <1>1, <3>1 DEF Connection
    <3>3. Deleted(d)
      BY <1>1, <2>2, <3>1 DEF Deleted, Unused, Connection
    <3> QED
      BY <3>2, <3>3 DEF ConnInv, Connected
  <2> QED
    BY <2>1, <2>2 DEF inspector_accept
<1>4. ~Connected(conn[s].state)
  BY <1>1 DEF Connected
<1>5. Update(s, d) /\ UNCHANGED connected_sessions
  BY <1>2 DEF Accept
<1> HIDE DEF d
<1> QED
  BY <1>3, <1>4, <1>5, UpdateInPlace

\* A request is read in the handshake.
LEMMA RequestInHandshake ==
  ASSUME ConnectionsInv, NEW s \in Sessions, Requests(s)
  PROVE  /\ conn[s] \in Connection /\ Handshaking(conn[s])
         /\ conn[s].state \in {"kHttp", "kDeclined"} /\ ~Connected(conn[s].state)
         /\ conn[s].handle = "open" /\ conn[s].reading = TRUE
         /\ conn[s].writes \in Seq(Writes)
         /\ RefusedOnce => conn[s].writes = <<>>
<1>1. conn[s] \in Connection /\ conn[s].state \in {"kHttp", "kDeclined"}
  BY DEF Requests, ConnectionsInv, ConnInv
<1> QED
  BY <1>1 DEF Requests, ConnectionsInv, ConnInv, Connection, Connected, RefusedOnce

\* A handshake that fails queues its refusal.
LEMMA RefusalKeeps ==
  ASSUME ConnectionsInv, NEW s \in Sessions, NEW state \in {"kHttp", "kDeclined"},
         Requests(s), handshake_failed(s, state)
  PROVE  ConnectionsInv'
<1> DEFINE w == Append(conn[s].writes, "refusal")
           d == [conn[s] EXCEPT !.state = state, !.stale_path = TRUE, !.writes = w]
<1>1. /\ conn[s] \in Connection /\ Handshaking(conn[s]) /\ ~Connected(conn[s].state)
      /\ conn[s].handle = "open" /\ conn[s].writes \in Seq(Writes)
      /\ RefusedOnce => conn[s].writes = <<>>
  BY RequestInHandshake
<1>2. /\ w \in Seq(Writes) /\ OnlyRefusals(w) /\ w # <<>>
      /\ RefusedOnce => w = <<"refusal">>
  <2>1. Append(<<>>, "refusal") = <<"refusal">>
    OBVIOUS
  <2>2. w \in Seq(Writes) /\ OnlyRefusals(w) /\ w # <<>>
    BY <1>1, Refusals DEF Handshaking
  <2> QED
    BY <1>1, <2>1, <2>2
<1>3. Update(s, d) /\ UNCHANGED connected_sessions
  BY <1>1 DEF handshake_failed, Connection
<1> HIDE DEF w
<1>4. d \in Connection /\ d.state = state /\ ~Connected(d.state)
  BY <1>1, <1>2 DEF Connection, Connected
<1>5. Handshaking(d)
  BY <1>1, <1>2 DEF Handshaking, Fresh, Connection
<1>6. ConnInv(d)
  BY <1>4, <1>5 DEF ConnInv
<1> HIDE DEF d
<1> QED
  BY <1>1, <1>3, <1>4, <1>6, UpdateInPlace

\* A page leaves the handshake as it is, but for the path.
LEMMA PageKeeps ==
  ASSUME ConnectionsInv, NEW s \in Sessions, Page(s)
  PROVE  ConnectionsInv'
<1> DEFINE d == [conn[s] EXCEPT !.stale_path = FALSE]
<1>1. /\ conn[s] \in Connection /\ Handshaking(conn[s])
      /\ conn[s].state \in {"kHttp", "kDeclined"}
  BY RequestInHandshake DEF Page
<1>2. d \in Connection /\ d.state = conn[s].state
  BY <1>1 DEF Connection
<1>3. Handshaking(d)
  BY <1>1 DEF Handshaking, Fresh, Connection
<1>4. ConnInv(d)
  BY <1>1, <1>2, <1>3 DEF ConnInv
<1>5. Update(s, d) /\ UNCHANGED connected_sessions
  BY DEF Page
<1> HIDE DEF d
<1> QED
  BY <1>2, <1>4, <1>5, UpdateInPlace

\* An upgrade that succeeds has nothing queued and was not declined, unless a page
\* after a refusal made it possible.
LEMMA UpgradeKeeps ==
  ASSUME ConnectionsInv, NEW s \in Sessions, NEW known \in BOOLEAN, Upgrade(s, known)
  PROVE  /\ ConnectionsInv'
         /\ ~Mixed /\ SessionStarted(s, known) => conn[s].state = "kHttp"
<1>1. /\ conn[s] \in Connection /\ Handshaking(conn[s])
      /\ conn[s].state \in {"kHttp", "kDeclined"}
      /\ conn[s].handle = "open" /\ conn[s].reading = TRUE
  BY RequestInHandshake DEF Upgrade
<1>2. CASE SessionStarted(s, known)
  <2>1. Mixed \/ conn[s].writes = <<>>
    BY <1>2 DEF Upgrade, SessionStarted, Mixed
  <2>2. ~Mixed => conn[s].state = "kHttp"
    BY <1>1, <2>1 DEF Handshaking
  <2>3. CASE conn[s].state # "kHttp"
    BY <1>2, <2>2, <2>3, NoConnectionChanges
       DEF Upgrade, FrontendConnected, AssertionFails, ProcessFails
  <2>4. CASE conn[s].state = "kHttp"
    <3> DEFINE d == [conn[s] EXCEPT !.state = "kWebSocket", !.ws_mode = TRUE, !.read_cb = TRUE]
    <3>1. d \in Connection
      BY <1>1 DEF Connection
    <3>2. Attached(d) /\ d.state = "kWebSocket"
      BY <1>1, <2>1 DEF Attached, Handshaking, Fresh, Connection
    <3>3. ConnInv(d) /\ Connected(d.state)
      BY <3>1, <3>2 DEF ConnInv, Connected
    <3>4. Update(s, d) /\ connected_sessions' = connected_sessions \cup {s}
      BY <1>2, <2>4 DEF Upgrade, FrontendConnected
    <3> HIDE DEF d
    <3> QED
      BY <2>4, <3>3, <3>4, UpdateKeeps
  <2> QED
    BY <2>2, <2>3, <2>4
<1>3. CASE ~SessionStarted(s, known)
  BY <1>3, RefusalKeeps DEF Upgrade
<1> QED
  BY <1>2, <1>3

LEMMA HandshakeEndsKeeps ==
  ASSUME ConnectionsInv, NEW s \in Sessions, HandshakeEnds(s)
  PROVE  ConnectionsInv'
<1> DEFINE d == StartClosing(conn[s], "report")
<1>1. /\ conn[s] \in Connection /\ conn[s].state \in {"kHttp", "kDeclined"}
      /\ Handshaking(conn[s]) /\ (RefusedOnce => conn[s].writes = <<>>)
  BY DEF HandshakeEnds, ConnectionsInv, ConnInv, RefusedOnce
<1>2. d \in Connection /\ d.state = conn[s].state
  BY <1>1 DEF Connection, StartClosing
<1>3. Handshaking(d)
  BY <1>1 DEF Handshaking, Fresh, Connection, StartClosing
<1>4. ConnInv(d) /\ (Connected(d.state) <=> Connected(conn[s].state))
  BY <1>1, <1>2, <1>3 DEF ConnInv
<1>5. Update(s, d) /\ UNCHANGED connected_sessions
  BY DEF HandshakeEnds
<1> HIDE DEF d
<1> QED
  BY <1>4, <1>5, UpdateInPlace

\* ReadCallback finds a session that may be closed, and what it leaves is closing.
LEMMA ReceiveKeeps ==
  ASSUME ConnectionsInv, NEW s \in Sessions, Reads(s), NEW d,
         ConnInv(d), d.state = "kClosing", Receive(s, d)
  PROVE  ConnectionsInv' /\ UNCHANGED <<serverVars, connected_sessions, server_done, failed>>
<1>1. ~ReadFails(conn[s])
  BY DEF ReadFails, MayClose, Reads, ConnectionsInv, ConnInv, Attached, Closing
<1>2. Update(s, d) /\ UNCHANGED <<serverVars, connected_sessions, server_done, failed>>
  BY <1>1 DEF Receive
<1>3. Connected(d.state) /\ Connected(conn[s].state)
  BY DEF Reads, Connected
<1> QED
  BY <1>2, <1>3, UpdateInPlace

LEMMA FramesKeep ==
  ASSUME ConnectionsInv, NEW s \in Sessions,
         ReceiveBadFrame(s) \/ ReceiveCloseFrame(s) \/ ReceiveEnd(s)
  PROVE  ConnectionsInv' /\ UNCHANGED <<serverVars, connected_sessions, server_done, failed>>
<1>1. /\ Reads(s) /\ ConnInv(conn[s]) /\ conn[s].handle = "open"
      /\ conn[s].state \in {"kWebSocket", "kClosing"}
  BY DEF ReceiveBadFrame, ReceiveCloseFrame, ReceiveEnd, Reads, ConnectionsInv
<1>2. CASE ReceiveBadFrame(s)
  BY <1>1, <1>2, BadFrameCloses, ReceiveKeeps DEF ReceiveBadFrame
<1>3. CASE ReceiveCloseFrame(s)
  BY <1>1, <1>3, CloseFrameReceived, ReceiveKeeps DEF ReceiveCloseFrame
<1>4. CASE ReceiveEnd(s)
  BY <1>1, <1>4, EndOfStreamCloses, ReceiveKeeps DEF ReceiveEnd
<1> QED
  BY <1>2, <1>3, <1>4

\* Only a session that is closing has a close frame to write.
LEMMA CloseFrameWrittenInv ==
  ASSUME ConnectionsInv, NEW s \in Sessions, CloseFrameWritten(s)
  PROVE  ConnectionsInv'
<1>1. ConnInv(conn[s]) /\ conn[s].writes # <<>> /\ Head(conn[s].writes) = "closeFrame"
      /\ conn[s].handle \in {"open", "closing"} /\ conn[s].writes \in Seq(Writes)
  BY DEF CloseFrameWritten, WriteReports, ConnectionsInv, ConnInv, Connection
<1>2. conn[s].state = "kClosing"
  <2>1. ~OnlyRefusals(conn[s].writes)
    BY <1>1, Refusals
  <2> QED
    BY <2>1, <1>1 DEF ConnInv, Connection, Unused, Handshaking, Attached, Deleted
<1> DEFINE d == on_close_frame_written(Written(s))
<1>3. ConnInv(d) /\ d.state = "kClosing"
  BY <1>1, <1>2, CloseFrameWrittenKeeps DEF Written
<1>4. Connected(d.state) <=> Connected(conn[s].state)
  BY <1>2, <1>3
<1>5. Update(s, d) /\ UNCHANGED connected_sessions
  BY DEF CloseFrameWritten
<1> HIDE DEF d
<1> QED
  BY <1>3, <1>4, <1>5, UpdateInPlace

\* A refusal closes an open handle, whoever it belongs to by now.
LEMMA RefusalClosesHandle ==
  ASSUME NEW c, ConnInv(c), c.handle = "open", c.writes # <<>>, Head(c.writes) = "refusal"
  PROVE  LET w == [c EXCEPT !.writes = Tail(@)]
         IN  ConnInv(StartClosing(w, "report")) /\ StartClosing(w, "report").state = c.state
<1> DEFINE w == [c EXCEPT !.writes = Tail(@)]
           d == StartClosing(w, "report")
<1>1. c \in Connection /\ c.writes \in Seq(Writes) /\ Tail(c.writes) \in Seq(Writes)
  BY HeadTailProperties DEF ConnInv, Connection
<1>2. d = [c EXCEPT !.writes = Tail(c.writes), !.handle = "closing", !.reading = FALSE,
                    !.close = "report"]
  BY <1>1 DEF StartClosing, Connection
<1> SUFFICES ConnInv(d) /\ d.state = c.state
  OBVIOUS
<1> HIDE DEF d
<1>3. d \in Connection /\ d.state = c.state /\ d.writes = Tail(c.writes)
  BY <1>1, <1>2 DEF Connection
<1>4. CASE c.state \in {"kHttp", "kDeclined"}
  <2>1. Handshaking(c)
    BY <1>4 DEF ConnInv
  <2>2. OnlyRefusals(d.writes)
    BY <2>1, <1>1, <1>3, Refusals DEF Handshaking
  <2>3. RefusedOnce => d.writes = <<>>
    <3>1. Tail(<<"refusal">>) = <<>>
      OBVIOUS
    <3>2. RefusedOnce => c.writes = <<"refusal">>
      BY <2>1 DEF Handshaking
    <3> QED
      BY <3>1, <3>2, <1>3
  <2>4. Handshaking(d)
    BY <2>1, <2>2, <2>3, <1>1, <1>2 DEF Handshaking, Fresh, Connection
  <2> QED
    BY <2>4, <1>3, <1>4 DEF ConnInv
<1>5. CASE c.state = "kWebSocket"
  <2>1. Attached(c) /\ Mixed
    BY <1>5 DEF ConnInv, Attached
  <2>2. OnlyRefusals(d.writes)
    BY <2>1, <1>1, <1>3, Refusals DEF Attached
  <2>3. Attached(d)
    BY <2>1, <2>2, <1>1, <1>2 DEF Attached, Connection
  <2> QED
    BY <2>3, <1>3, <1>5 DEF ConnInv
<1>6. CASE c.state = "kClosing"
  <2>1. Closing(c)
    BY <1>6 DEF ConnInv
  <2>2. Mixed
    <3>1. SUFFICES ASSUME ~Mixed PROVE FALSE
      OBVIOUS
    <3>2. Len(c.writes) \in Nat \ {0} /\ Head(c.writes) = c.writes[1]
      BY <1>1, HeadTailProperties
    <3> QED
      BY <2>1, <3>1, <3>2 DEF Closing, OnlyCloseFrames
  <2>3. Closing(d)
    BY <2>1, <2>2, <1>1, <1>2 DEF Closing, ClosesBy, OnlyCloseFrames, Connection
  <2> QED
    BY <2>3, <1>3, <1>6 DEF ConnInv
<1>7. c.state \in {"kHttp", "kDeclined", "kWebSocket", "kClosing"}
  BY <1>1 DEF ConnInv, Connection, Unused, Deleted
<1> QED
  BY <1>4, <1>5, <1>6, <1>7

\* A refusal that reports while the handle is closing deletes the session, or finds
\* that it is gone.
LEMMA RefusalWrittenInv ==
  ASSUME ConnectionsInv, NEW s \in Sessions, RefusalWritten(s)
  PROVE  ConnectionsInv'
<1>1. ConnInv(conn[s]) /\ conn[s].writes # <<>> /\ Head(conn[s].writes) = "refusal"
      /\ conn[s].handle \in {"open", "closing"} /\ conn[s] \in Connection
      /\ conn[s].writes \in Seq(Writes)
  BY DEF RefusalWritten, WriteReports, ConnectionsInv, ConnInv, Connection
<1>2. CASE conn[s].handle = "open"
  <2> DEFINE d == StartClosing(Written(s), "report")
  <2>1. ConnInv(d) /\ d.state = conn[s].state
    BY <1>1, <1>2, RefusalClosesHandle DEF Written
  <2>2. Update(s, d) /\ UNCHANGED connected_sessions
    BY <1>2 DEF RefusalWritten
  <2> HIDE DEF d
  <2> QED
    BY <2>1, <2>2, UpdateInPlace
<1>3. CASE conn[s].handle = "closing" /\ Reported(conn[s])
  BY <1>3, NoConnectionChanges DEF RefusalWritten, Crash, ProcessFails
<1>4. CASE conn[s].handle = "closing" /\ ~Reported(conn[s])
  <2> DEFINE w == [conn[s] EXCEPT !.writes = Tail(@)]
  <2>1. Handshaking(conn[s])
    BY <1>1, <1>4 DEF Reported, ConnInv, Connection, Unused, Attached, Closing
  <2>2. Tail(conn[s].writes) \in Seq(Writes) /\ OnlyRefusals(Tail(conn[s].writes))
    BY <2>1, <1>1, Refusals DEF Handshaking
  <2>3. w \in Connection /\ Deleted(w)
    BY <2>1, <2>2, <1>1, <1>4 DEF Handshaking, Deleted, Connection
  <2>4. SessionTerminated(s, w)
    BY <1>4 DEF RefusalWritten, Written
  <2> HIDE DEF w
  <2> QED
    BY <2>3, <2>4, TerminationKeeps
<1> QED
  BY <1>1, <1>2, <1>3, <1>4

\* A handle that closes through dispose_inspector belongs to a session being closed;
\* otherwise the session is reported, or its memory is gone.
LEMMA HandleClosedInv ==
  ASSUME ConnectionsInv, NEW s \in Sessions, HandleClosed(s)
  PROVE  /\ ConnectionsInv'
         /\ \/ failed' # "assertion"
            \/ UNCHANGED failed
            \/ Mixed
         /\ \/ SessionTerminated(s, [conn[s] EXCEPT !.handle = "closed"])
            \/ UNCHANGED <<serverVars, connected_sessions, server_done>>
<1>1. ConnInv(conn[s]) /\ conn[s].handle = "closing" /\ conn[s] \in Connection
  BY DEF HandleClosed, ConnectionsInv, ConnInv
<1> DEFINE d == [conn[s] EXCEPT !.handle = "closed"]
<1>2. d \in Connection /\ Deleted(d) /\ d.state = conn[s].state
  BY <1>1 DEF Connection, Deleted
<1>3. CASE \/ Crash
           \/ AssertionFails /\ (conn[s].close = "dispose" /\ conn[s].state # "kClosing")
  <2>1. ConnectionsInv'
    BY <1>3, NoConnectionChanges DEF Crash, AssertionFails, ProcessFails
  <2>2. ~(conn[s].close = "dispose" /\ conn[s].state # "kClosing")
    BY <1>1 DEF ConnInv, Connection, Unused, Handshaking, Attached, Deleted
  <2> QED
    BY <1>3, <2>1, <2>2 DEF Crash, ProcessFails
<1>4. CASE conn[s].close = "none" /\ Update(s, d)
           /\ UNCHANGED <<serverVars, connected_sessions, server_done, failed>>
  <2>1. conn[s].state = "deleted"
    BY <1>1, <1>4 DEF ConnInv, Connection, Unused, Handshaking, Attached, Closing, ClosesBy
  <2>2. ConnInv(d)
    BY <1>2, <2>1 DEF ConnInv
  <2> HIDE DEF d
  <2>3. ConnectionsInv'
    BY <1>2, <1>4, <2>2, UpdateInPlace
  <2> QED
    BY <1>4, <2>3
<1>5. CASE SessionTerminated(s, d)
  <2> HIDE DEF d
  <2>1. ConnectionsInv'
    BY <1>2, <1>5, TerminationKeeps
  <2>2. UNCHANGED failed
    BY <1>5 DEF SessionTerminated
  <2> QED
    BY <1>5, <2>1, <2>2 DEF d
<1> QED
  BY <1>3, <1>4, <1>5 DEF HandleClosed

\* kKill closes what is connected.
LEMMA KillKeeps ==
  ASSUME ConnectionsInv, Kill
  PROVE  ConnectionsInv'
<1>1. CASE \E s \in connected_sessions : ~MayClose(conn[s])
  BY <1>1, NoConnectionChanges DEF Kill, AssertionFails, ProcessFails
<1>2. CASE \A s \in connected_sessions : MayClose(conn[s])
  <2>1. /\ conn' = [s \in Sessions |-> IF s \in connected_sessions THEN Close(conn[s])
                                       ELSE conn[s]]
        /\ UNCHANGED connected_sessions
    BY <1>2 DEF Kill
  <2>2. ASSUME NEW s \in Sessions
        PROVE  /\ ConnInv(conn'[s])
               /\ s \in connected_sessions <=> conn'[s].state \in {"kWebSocket", "kClosing"}
    <3>1. CASE s \in connected_sessions
      <4>1. /\ conn[s] \in Connection /\ conn[s].handle = "open"
            /\ (Mixed \/ conn[s].writes = <<>>) /\ conn[s].ws_mode = TRUE
            /\ conn[s].shutting_down = FALSE
        BY <1>2, <3>1 DEF ConnectionsInv, ConnInv, MayClose, Attached
      <4> QED
        BY <2>1, <3>1, <4>1, CloseStarts
    <3>2. CASE s \notin connected_sessions
      BY <2>1, <3>2 DEF ConnectionsInv
    <3> QED
      BY <3>1, <3>2
  <2>3. conn' \in [Sessions -> Connection]
    BY <2>1, <2>2 DEF ConnInv
  <2> QED
    BY <2>1, <2>2, <2>3 DEF ConnectionsInv, ConnInv, Unused, Handshaking, Attached, Closing,
       ClosesBy, Deleted, Fresh, OnlyCloseFrames, OnlyRefusals
<1> QED
  BY <1>1, <1>2

-------------------------------------------------------------------------------
(***************************************************************************)
(* The theorems.                                                           *)
(***************************************************************************)
LEMMA InitInv == Init => IInv
<1> SUFFICES ASSUME Init PROVE IInv
  OBVIOUS
<1>1. <<>> \in Seq(Writes)
  BY FirstCloseFrame
<1>2. NoConnection \in Connection /\ NoConnection.state = "none" /\ Unused(NoConnection)
  BY <1>1 DEF NoConnection, Connection, Unused, Fresh
<1> QED
  BY <1>2 DEF Init, IInv, ConnectionsInv, ConnInv, ServerInv

LEMMA NextInv == IInv /\ [Next]_vars => IInv'
<1> SUFFICES ASSUME IInv, [Next]_vars PROVE IInv'
  OBVIOUS
<1> USE DEF IInv
<1>1. CASE Start
  BY <1>1, NoConnectionChanges DEF Start, ServerInv
<1>2. CASE Stop
  BY <1>2, NoConnectionChanges DEF Stop, ServerInv
<1>3. CASE Kill
  <2>1. ConnectionsInv'
    BY <1>3, KillKeeps
  <2>2. "killWhileClosing" \notin Races /\ ~Mixed =>
          \A s \in connected_sessions : MayClose(conn[s])
    BY <1>3 DEF Kill, MayClose, ConnectionsInv, ConnInv, ServerInv, Attached
  <2>3. ServerInv'
    BY <1>3, <2>2 DEF Kill, AssertionFails, ProcessFails, ServerInv, serverVars
  <2> QED
    BY <2>1, <2>3
<1>4. ASSUME NEW a \in Addresses, ServerSocketClosed(a) PROVE IInv'
  BY <1>4, NoConnectionChanges DEF ServerSocketClosed, ServerInv
<1>5. ASSUME NEW s \in Sessions, Client(s) PROVE IInv'
  <2>1. CASE Accept(s)
    BY <2>1, AcceptKeeps DEF Accept, ServerInv, serverVars
  <2>2. CASE BadRequest(s)
    BY <2>2, RefusalKeeps, RequestInHandshake
       DEF BadRequest, handshake_failed, ServerInv, serverVars
  <2>a. CASE Page(s)
    BY <2>a, PageKeeps DEF Page, ServerInv, serverVars
  <2>3. ASSUME NEW known \in BOOLEAN, Upgrade(s, known) PROVE IInv'
    BY <2>3, UpgradeKeeps DEF Upgrade, FrontendConnected, AssertionFails, ProcessFails,
                              handshake_failed, ServerInv, serverVars
  <2>4. CASE HandshakeEnds(s)
    BY <2>4, HandshakeEndsKeeps DEF HandshakeEnds, ServerInv, serverVars
  <2>5. CASE ReceiveBadFrame(s) \/ ReceiveCloseFrame(s) \/ ReceiveEnd(s)
    BY <2>5, FramesKeep DEF ServerInv, serverVars
  <2> QED
    BY <1>5, <2>1, <2>2, <2>a, <2>3, <2>4, <2>5 DEF Client
<1>6. ASSUME NEW s \in Sessions, Loop(s) PROVE IInv'
  <2>1. CASE CloseFrameWritten(s)
    BY <2>1, CloseFrameWrittenInv DEF CloseFrameWritten, ServerInv, serverVars
  <2>2. CASE RefusalWritten(s)
    BY <2>2, RefusalWrittenInv
       DEF RefusalWritten, SessionTerminated, EraseSession, Crash, ProcessFails,
           ServerInv, serverVars
  <2>3. CASE HandleClosed(s)
    BY <2>3, HandleClosedInv DEF SessionTerminated, EraseSession, ServerInv, serverVars
  <2> QED
    BY <1>6, <2>1, <2>2, <2>3 DEF Loop
<1>7. CASE UNCHANGED vars
  BY <1>7, NoConnectionChanges DEF vars, ServerInv, serverVars
<1> QED
  BY <1>1, <1>2, <1>3, <1>4, <1>5, <1>6, <1>7 DEF Next

\* Every state of a session says the same of its socket as before, whatever happens.
THEOREM Invariance == Spec => []IInv
  BY InitInv, NextInv, PTL DEF Spec

\* inspector_socket_server.cc and inspector_socket.cc: no assert fails as long as kKill
\* does not meet a session that is being closed already, and a client that was refused
\* does not go on to an upgrade.
THEOREM NoAssertFails ==
  ASSUME "killWhileClosing" \notin Races, "upgradeAfterRefused" \notin Races
  PROVE  Spec => []AssertionsHold
<1>1. IInv => AssertionsHold
  BY DEF IInv, ServerInv, AssertionsHold, Mixed
<1> QED
  BY <1>1, Invariance, PTL

\* dispose_inspector: a session that was upgraded is deleted by the close callback of
\* its socket, whatever was still queued, whichever races happen.
THEOREM DeletionFollowsClosing == Spec => []UpgradedDeletedWithSocket
<1>1. IInv => UpgradedDeletedWithSocket
  BY DEF IInv, ConnectionsInv, ConnInv, Deleted, UpgradedDeletedWithSocket
<1> QED
  BY <1>1, Invariance, PTL

\* SocketSession::Accept and then_close_and_report_failure: every session is deleted with
\* its socket as long as no accept fails and no client leaves, or goes on, while its
\* refusal is queued.
THEOREM EveryDeletionFollowsClosing ==
  ASSUME "acceptFails" \notin Races, "endBeforeRefused" \notin Races,
         "requestAfterRefused" \notin Races
  PROVE  Spec => []DeletedWithItsSocket
<1>1. IInv => DeletedWithItsSocket
  BY DEF IInv, ConnectionsInv, ConnInv, Deleted, RefusedOnce, DeletedWithItsSocket
<1> QED
  BY <1>1, Invariance, PTL

\* on_close_frame_written, close_frame_received and websockets_data_cb: no session is
\* left with nothing to wait for, as long as no client leaves before our close frame
\* has been written.
THEOREM CloseHandshakeProceeds ==
  ASSUME "endBeforeWritten" \notin Races
  PROVE  Spec => []ClosingSessionsProceed
<1>1. IInv => ClosingSessionsProceed
  BY DEF IInv, ConnectionsInv, ConnInv, Closing, ClosingSessionsProceed
<1> QED
  BY <1>1, Invariance, PTL

\* SessionTerminated erases a session in the step that deletes it, whichever races happen.
THEOREM MapHoldsLiveSessions == Spec => []ConnectedSessionsAreLive
<1>1. IInv => ConnectedSessionsAreLive
  BY DEF IInv, ConnectionsInv, ServerInv, ConnInv, Attached, Closing, ConnectedSessionsAreLive
<1> QED
  BY <1>1, Invariance, PTL

-------------------------------------------------------------------------------
(***************************************************************************)
(* The delegate.  Without upgrades after the server has stopped there is   *)
(* at most one session, and ServerDone is called when the last session and *)
(* the last listening socket are gone, whichever is later.                 *)
(***************************************************************************)
DoneInv ==
  /\ \A s, t \in connected_sessions : s = t
  /\ server_done = IF state_ = "kStopped" /\ connected_sessions = {} THEN 1 ELSE 0

\* A session is deleted: if it was connected, it was the last one.
LEMMA ErasureEndsSession ==
  ASSUME ServerInv, DoneInv, NEW s \in Sessions, EraseSession(s), UNCHANGED state_
  PROVE  /\ DoneInv'
         /\ Contract!EndSession \/ UNCHANGED <<connected_sessions, server_done>>
<1>1. CASE s \in connected_sessions
  <2>1. connected_sessions = {s} /\ connected_sessions' = {}
    BY <1>1 DEF DoneInv, EraseSession
  <2>2. server_done' = IF state_ = "kStopped" THEN 1 ELSE 0
    BY <2>1 DEF DoneInv, EraseSession
  <2>3. DoneInv'
    BY <2>1, <2>2 DEF DoneInv
  <2>4. Contract!EndSession
    BY <2>1, <2>2 DEF Contract!EndSession
  <2> QED
    BY <2>3, <2>4
<1>2. CASE s \notin connected_sessions
  <2>1. UNCHANGED <<connected_sessions, server_done>>
    BY <1>2 DEF EraseSession
  <2> QED
    BY <2>1 DEF DoneInv
<1> QED
  BY <1>1, <1>2

\* The same for the step of a callback that deletes a session.
LEMMA TerminationEndsSession ==
  ASSUME ServerInv, DoneInv, NEW s \in Sessions, NEW c, SessionTerminated(s, c)
  PROVE  DoneInv' /\ [Contract!ContractNext]_(Contract!contractVars)
<1>1. EraseSession(s) /\ UNCHANGED state_
  BY DEF SessionTerminated, serverVars
<1>2. DoneInv'
  BY <1>1, ErasureEndsSession
<1>3. Contract!EndSession \/ UNCHANGED <<connected_sessions, server_done, state_>>
  BY <1>1, ErasureEndsSession
<1> QED
  BY <1>2, <1>3 DEF Contract!ContractNext, Contract!contractVars

\* Every step is a step of the contract, or none.
LEMMA StepServes ==
  ASSUME "upgradeAfterStop" \notin Races, IInv, DoneInv, [Next]_vars
  PROVE  DoneInv' /\ [Contract!ContractNext]_(Contract!contractVars)
<1> USE DEF IInv
<1>a. ASSUME UNCHANGED <<state_, connected_sessions, server_done>>
      PROVE  DoneInv' /\ [Contract!ContractNext]_(Contract!contractVars)
  BY <1>a DEF DoneInv, Contract!contractVars
<1>1. CASE Start
  <2>1. state_ = "kNew" /\ state_' = "kRunning" /\ UNCHANGED <<connected_sessions, server_done>>
    BY <1>1 DEF Start
  <2> QED
    BY <2>1 DEF DoneInv, Contract!contractVars
<1>b. ASSUME state_ = "kRunning", state_' = "kStopping",
             UNCHANGED <<connected_sessions, server_done>>
      PROVE  DoneInv' /\ [Contract!ContractNext]_(Contract!contractVars)
  <2>1. Contract!StopServer
    BY <1>b DEF Contract!StopServer
  <2> QED
    BY <1>b, <2>1 DEF DoneInv, Contract!ContractNext
<1>2. CASE Stop
  BY <1>2, <1>b DEF Stop
<1>3. CASE Kill
  BY <1>3, <1>a, <1>b DEF Kill, AssertionFails, ProcessFails, serverVars
<1>4. ASSUME NEW a \in Addresses, ServerSocketClosed(a)
      PROVE  DoneInv' /\ [Contract!ContractNext]_(Contract!contractVars)
  <2>1. CASE server_sockets # {a}
    BY <1>4, <1>a, <2>1 DEF ServerSocketClosed
  <2>2. CASE server_sockets = {a}
    <3>1. /\ state_ = "kStopping" /\ state_' = "kStopped" /\ UNCHANGED connected_sessions
          /\ server_done = 0
          /\ server_done' = IF connected_sessions = {} THEN 1 ELSE 0
      BY <1>4, <2>2 DEF ServerSocketClosed, DoneInv
    <3>2. DoneInv'
      BY <3>1 DEF DoneInv
    <3>3. CASE connected_sessions = {}
      <4>1. Contract!ServerDone
        BY <3>1, <3>3 DEF Contract!ServerDone
      <4> QED
        BY <3>2, <4>1 DEF Contract!ContractNext
    <3>4. CASE connected_sessions # {}
      BY <3>1, <3>2, <3>4 DEF Contract!contractVars
    <3> QED
      BY <3>3, <3>4
  <2> QED
    BY <2>1, <2>2
<1>5. ASSUME NEW s \in Sessions, Client(s)
      PROVE  DoneInv' /\ [Contract!ContractNext]_(Contract!contractVars)
  <2>1. CASE Accept(s) \/ BadRequest(s) \/ Page(s) \/ HandshakeEnds(s)
    BY <2>1, <1>a DEF Accept, BadRequest, Page, handshake_failed, HandshakeEnds, serverVars
  <2>2. ASSUME NEW known \in BOOLEAN, Upgrade(s, known)
        PROVE  DoneInv' /\ [Contract!ContractNext]_(Contract!contractVars)
    <3>a. CASE AssertionFails
      BY <3>a, <1>a DEF AssertionFails, ProcessFails, serverVars
    <3>1. CASE SessionStarted(s, known) /\ ~AssertionFails
      <4>1. /\ state_ = "kRunning" /\ connected_sessions = {} /\ connected_sessions' = {s}
            /\ server_done = 0 /\ UNCHANGED <<state_, server_done>>
        BY <2>2, <3>1 DEF Upgrade, FrontendConnected, SessionStarted, DoneInv, serverVars
      <4>2. Contract!StartSession(s)
        BY <4>1 DEF Contract!StartSession
      <4> QED
        BY <4>1, <4>2 DEF DoneInv, Contract!ContractNext
    <3>2. CASE ~SessionStarted(s, known)
      BY <2>2, <3>2, <1>a DEF Upgrade, handshake_failed, serverVars
    <3> QED
      BY <3>a, <3>1, <3>2
  <2>3. CASE ReceiveBadFrame(s) \/ ReceiveCloseFrame(s) \/ ReceiveEnd(s)
    BY <2>3, <1>a, FramesKeep DEF serverVars
  <2> QED
    BY <1>5, <2>1, <2>2, <2>3 DEF Client
<1>6. ASSUME NEW s \in Sessions, Loop(s)
      PROVE  DoneInv' /\ [Contract!ContractNext]_(Contract!contractVars)
  <2>1. CASE CloseFrameWritten(s)
    BY <2>1, <1>a DEF CloseFrameWritten, serverVars
  <2>2. CASE RefusalWritten(s)
    BY <2>2, <1>a, TerminationEndsSession DEF RefusalWritten, Crash, ProcessFails, serverVars
  <2>3. CASE HandleClosed(s)
    BY <2>3, <1>a, HandleClosedInv, TerminationEndsSession DEF serverVars
  <2> QED
    BY <1>6, <2>1, <2>2, <2>3 DEF Loop
<1>7. CASE UNCHANGED vars
  BY <1>7, <1>a DEF vars, serverVars
<1> QED
  BY <1>1, <1>2, <1>3, <1>4, <1>5, <1>6, <1>7 DEF Next

\* SessionTerminated, ServerSocketClosed and SessionStarted: one session at a time, and
\* ServerDone once, when nothing is left, as long as no handshake outlives kStop or kKill.
THEOREM DelegateIsServed ==
  ASSUME "upgradeAfterStop" \notin Races
  PROVE  Spec => ServesDelegate
<1>1. Init => DoneInv /\ Contract!ContractInit
  BY DEF Init, DoneInv, Contract!ContractInit
<1>2. IInv /\ DoneInv /\ [Next]_vars
        => DoneInv' /\ [Contract!ContractNext]_(Contract!contractVars)
  BY StepServes
<1> QED
  BY <1>1, <1>2, Invariance, PTL DEF Spec, ServesDelegate, Contract!ContractSpec

\* The variables that the other invariants do not bound.
FlagsInv ==
  /\ server_sockets \subseteq Addresses
  /\ killed \in BOOLEAN /\ failed \in {"no", "assertion", "memory"}

LEMMA FlagsStep == FlagsInv /\ [Next]_vars => FlagsInv'
<1> SUFFICES ASSUME FlagsInv, [Next]_vars PROVE FlagsInv'
  OBVIOUS
<1> USE DEF FlagsInv, AssertionFails, Crash, ProcessFails, serverVars
<1>1. CASE Start \/ Stop
  BY <1>1 DEF Start, Stop
<1>2. CASE Kill
  BY <1>2 DEF Kill
<1>3. ASSUME NEW a \in Addresses, ServerSocketClosed(a) PROVE FlagsInv'
  BY <1>3 DEF ServerSocketClosed
<1>4. ASSUME NEW s \in Sessions, Client(s) PROVE FlagsInv'
  BY <1>4 DEF Client, Accept, BadRequest, Page, Upgrade, FrontendConnected, handshake_failed,
              HandshakeEnds, ReceiveBadFrame, ReceiveCloseFrame, ReceiveEnd, Receive
<1>5. ASSUME NEW s \in Sessions, Loop(s) PROVE FlagsInv'
  BY <1>5 DEF Loop, CloseFrameWritten, RefusalWritten, HandleClosed, SessionTerminated
<1>6. CASE UNCHANGED vars
  BY <1>6 DEF vars
<1> QED
  BY <1>1, <1>2, <1>3, <1>4, <1>5, <1>6 DEF Next

\* The types of the server's state; ServerDone is called at most once as long as no
\* handshake outlives kStop or kKill.
THEOREM TypeCorrect ==
  ASSUME "upgradeAfterStop" \notin Races
  PROVE  Spec => []TypeOK
<1>1. Init => DoneInv /\ FlagsInv
  BY DEF Init, DoneInv, FlagsInv
<1>2. IInv /\ DoneInv /\ FlagsInv /\ [Next]_vars => DoneInv' /\ FlagsInv'
  BY StepServes, FlagsStep
<1>3. IInv /\ DoneInv /\ FlagsInv => TypeOK
  BY DEF IInv, ConnectionsInv, ServerInv, DoneInv, FlagsInv, TypeOK
<1> QED
  BY <1>1, <1>2, <1>3, Invariance, PTL DEF Spec
===============================================================================
