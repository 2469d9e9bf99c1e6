---------------------------- MODULE SessionContract ----------------------------
(***************************************************************************)
(* What the inspector promises a debugger frontend: the start of its       *)
(* session, its messages and the end of its session are handed to V8 one   *)
(* by one, in the order in which they came, each in the session it belongs *)
(* to, and never two sessions at a time.                                   *)
(*                                                                         *)
(* Threads, locks, wake-ups and the reentrant dispatch are absent.         *)
(***************************************************************************)
EXTENDS Sequences

CONSTANTS
  Sessions,                \* session ids
  NoSession,               \* no session
  Bodies                   \* what a message asks for

VARIABLES
  connected,               \* the session of the frontend that is connected
  attached,                \* the session that V8 serves
  queue                    \* events not yet handed to V8

contractVars == <<connected, attached, queue>>

Event(action, session, body) ==
  [action |-> action, session |-> session, body |-> body]

ContractInit ==
  /\ connected = NoSession
  /\ attached = NoSession
  /\ queue = <<>>

-------------------------------------------------------------------------------
Open(s) ==
  /\ connected = NoSession
  /\ connected' = s
  /\ queue' = Append(queue, Event("kStartSession", s, "none"))
  /\ UNCHANGED attached

Send(s, body) ==
  /\ connected = s
  /\ queue' = Append(queue, Event("kSendMessage", s, body))
  /\ UNCHANGED <<connected, attached>>

Close(s) ==
  /\ connected = s
  /\ connected' = NoSession
  /\ queue' = Append(queue, Event("kEndSession", s, "none"))
  /\ UNCHANGED attached

\* The oldest event reaches V8.
Attach(s) ==
  /\ attached = NoSession
  /\ attached' = s

Handle(e) ==
  \/ e.action = "kStartSession" /\ Attach(e.session)
  \/ e.action = "kSendMessage" /\ attached = e.session /\ UNCHANGED attached
  \/ e.action = "kEndSession" /\ attached = e.session /\ attached' = NoSession

Deliver ==
  /\ queue # <<>>
  /\ Handle(Head(queue))
  /\ queue' = Tail(queue)
  /\ UNCHANGED connected

ContractNext ==
  \/ \E s \in Sessions : Open(s) \/ Close(s) \/ \E b \in Bodies : Send(s, b)
  \/ Deliver

ContractSpec == ContractInit /\ [][ContractNext]_contractVars
===============================================================================
