------------------------------ MODULE InspectorIo ------------------------------
(***************************************************************************)
(* The debugger agent: InspectorIo (inspector_io.cc) with the V8 client of *)
(* inspector_agent.cc, on two threads.                                     *)
(*                                                                         *)
(* The I/O thread runs the WebSocket server.  What a frontend does becomes *)
(* an entry of incoming_message_queue_; an entry put into an empty queue   *)
(* also schedules a task on V8's platform and an interrupt of the isolate. *)
(* The main thread runs the handler's JavaScript and calls                 *)
(* DispatchMessages from interrupts, from tasks (only while it is paused)  *)
(* and from Start and Stop.                                                *)
(*                                                                         *)
(* DispatchMessages is reentered: handing a message to V8 may evaluate     *)
(* JavaScript, which may be interrupted, or hit a breakpoint and wait      *)
(* there for the frontend's next message.  stack holds the main thread's   *)
(* C++ frames above its base activity, which is phase.                     *)
(*                                                                         *)
(* The server is reduced to what InspectorIo sees of it: at most one       *)
(* session at a time, and no new session after kKill.                      *)
(***************************************************************************)
EXTENDS Naturals, Sequences

CONSTANTS
  NoSession,               \* no session
  MaxSessions,             \* bound: sessions that are opened
  MaxMessages              \* bound: messages that frontends send

ASSUME InspectorAssumption ==
  /\ MaxSessions \in Nat
  /\ MaxMessages \in Nat
  /\ NoSession \notin Nat

Sessions == 0 .. MaxSessions - 1

\* What a message asks of V8: Runtime.runIfWaitingForDebugger or another command
\* that is answered at once, an evaluation of JavaScript, Debugger.resume.
Bodies == {"run", "evaluate", "resume"}

Message(action, s, body) == [action |-> action, session |-> s, body |-> body]

InspectorAction ==
  {Message(a, s, "none") : a \in {"kStartSession", "kEndSession"}, s \in Sessions}
    \cup {Message("kSendMessage", s, b) : s \in Sessions, b \in Bodies}

VARIABLES
  io,                      \* where the I/O thread is
  session,                 \* the connected session of the server
  next_session_id,         \* the id of the next session
  received,                \* messages received so far
  waiting,                 \* waiting_: nobody has asked to run yet
  stopped,                 \* the server handled kKill or kStop
  sem,                     \* thread_start_sem_
  incoming,                \* incoming_message_queue_
  outgoing,                \* the actions in outgoing_message_queue_
  asleep,                  \* the main thread waits on incoming_message_cond_
  tasks,                   \* DispatchMessagesTasks on the platform
  interrupts,              \* interrupts requested of the isolate
  phase,                   \* the base activity of the main thread
  stack,                   \* the frames above it
  state,                   \* state_
  dispatching,             \* dispatching_messages_
  dispatch_queue,          \* dispatching_message_queue_
  channel,                 \* the session of session_delegate_ and channel_
  nested,                  \* running_nested_loop_, and on whose behalf
  terminated               \* terminated_

serverVars == <<session, next_session_id, received, waiting, stopped>>
ioVars == <<io, serverVars>>
platformVars == <<tasks, interrupts>>
loopVars == <<nested, terminated>>
mainVars == <<phase, stack, state, dispatching, dispatch_queue, channel, loopVars>>
vars == <<ioVars, sem, incoming, outgoing, asleep, platformVars, mainVars>>

Frames == [kind : {"dispatch", "evaluate", "check", "pump"},
           session : Sessions \cup {NoSession}]

TypeOK ==
  /\ io \in {"boot", "idle", "resumed", "schedule", "notify", "ended"}
  /\ session \in Sessions \cup {NoSession}
  /\ next_session_id \in 0 .. MaxSessions
  /\ received \in 0 .. MaxMessages
  /\ waiting \in BOOLEAN
  /\ stopped \in BOOLEAN
  /\ sem \in 0 .. 1
  /\ incoming \in Seq(InspectorAction)
  /\ outgoing \subseteq {"kSendMessage", "kKill", "kStop"}
  /\ asleep \in BOOLEAN
  /\ tasks \in Nat
  /\ interrupts \in Nat
  /\ phase \in {"starting", "started", "script", "joining", "stopping",
                "waiting", "pumping", "done", "crashed"}
  /\ stack \in Seq(Frames)
  /\ state \in {"kNew", "kAccepting", "kConnected", "kDone", "kError", "kShutDown"}
  /\ dispatching \in BOOLEAN
  /\ dispatch_queue \in Seq(InspectorAction)
  /\ channel \in Sessions \cup {NoSession}
  /\ nested \in {"none", "pause", "disconnect"}
  /\ terminated \in BOOLEAN

Init ==
  /\ io = "boot" /\ session = NoSession /\ next_session_id = 0
  /\ received = 0 /\ waiting = TRUE /\ stopped = FALSE /\ sem = 0
  /\ incoming = <<>> /\ outgoing = {} /\ asleep = FALSE
  /\ tasks = 0 /\ interrupts = 0
  /\ phase = "starting" /\ stack = <<>> /\ state = "kNew"
  /\ dispatching = FALSE /\ dispatch_queue = <<>> /\ channel = NoSession
  /\ nested = "none" /\ terminated = FALSE

-------------------------------------------------------------------------------
(***************************************************************************)
(* The I/O thread.  It dies with the process.                              *)
(***************************************************************************)
Alive == phase \notin {"done", "crashed"}
IoAt(place) == Alive /\ io = place

\* ThreadMain up to uv_run.  If no address can be bound, Start is released with
\* the state kError; otherwise it stays blocked until a frontend asks to run.
ThreadMain ==
  /\ IoAt("boot")
  /\ \/ io' = "idle" /\ UNCHANGED <<state, sem>>
     \/ io' = "ended" /\ state' = "kError" /\ sem' = sem + 1
  /\ UNCHANGED <<serverVars, incoming, outgoing, asleep, platformVars, phase, stack,
                 dispatching, dispatch_queue, channel, loopVars>>

\* PostIncomingMessage, first part: AppendMessage says whether the queue was empty.
NeverTriggers == FALSE                                   \* Mutant
TriggersPumping == incoming = <<>>

PostIncomingMessage(m) ==
  /\ incoming' = Append(incoming, m)
  /\ io' = IF TriggersPumping THEN "schedule" ELSE "notify"
  /\ UNCHANGED <<outgoing, asleep, platformVars, mainVars>>

\* A second frontend is declined while one is connected.
NeverDeclined == FALSE                                   \* Mutant
Declined == session # NoSession

StartSession ==
  /\ IoAt("idle") /\ ~stopped
  /\ ~Declined
  /\ next_session_id < MaxSessions
  /\ session' = next_session_id
  /\ next_session_id' = next_session_id + 1
  /\ PostIncomingMessage(Message("kStartSession", next_session_id, "none"))
  /\ UNCHANGED <<received, waiting, stopped, sem>>

\* The first request to run releases the main thread before it is queued.
ResumesAgain(body) == body = "run"                       \* Mutant
ResumesStartup(body) == waiting /\ body = "run"

MessageReceived(body) ==
  /\ IoAt("idle") /\ session # NoSession
  /\ received < MaxMessages
  /\ received' = received + 1
  /\ IF ResumesStartup(body)
       THEN /\ waiting' = FALSE
            /\ sem' = sem + 1
            /\ io' = "resumed"
            /\ UNCHANGED <<incoming, outgoing, asleep, platformVars, mainVars>>
       ELSE /\ PostIncomingMessage(Message("kSendMessage", session, body))
            /\ UNCHANGED <<waiting, sem>>
  /\ UNCHANGED <<session, next_session_id, stopped>>

PostRunRequest ==
  /\ IoAt("resumed")
  /\ PostIncomingMessage(Message("kSendMessage", session, "run"))
  /\ UNCHANGED <<serverVars, sem>>

\* The frontend disconnects, or the server has closed its session.
EndSession ==
  /\ IoAt("idle") /\ session # NoSession
  /\ session' = NoSession
  /\ PostIncomingMessage(Message("kEndSession", session, "none"))
  /\ UNCHANGED <<next_session_id, received, waiting, stopped, sem>>

\* PostIncomingMessage, second part: the queue was empty.
ScheduleDispatch ==
  /\ IoAt("schedule")
  /\ tasks' = tasks + 1
  /\ interrupts' = interrupts + 1
  /\ io' = "notify"
  /\ UNCHANGED <<serverVars, sem, incoming, outgoing, asleep, mainVars>>

NotifyMessageReceived ==
  /\ IoAt("notify")
  /\ asleep' = FALSE
  /\ io' = "idle"
  /\ UNCHANGED <<serverVars, sem, incoming, outgoing, platformVars, mainVars>>

\* kKill falls through to kStop.
StopsWithoutFallthrough(actions) == "kStop" \in actions   \* Mutant
StopsServer(actions) == actions \cap {"kKill", "kStop"} # {}

\* All of outgoing_message_queue_ is taken at once.  A message to a session that
\* has gone is dropped.
IoThreadAsyncCb ==
  /\ IoAt("idle") /\ outgoing # {}
  /\ outgoing' = {}
  /\ stopped' = (stopped \/ StopsServer(outgoing))
  /\ UNCHANGED <<io, session, next_session_id, received, waiting, sem, incoming,
                 asleep, platformVars, mainVars>>

\* The last handle is closed: ServerDone, uv_run returns.
ServerDone ==
  /\ IoAt("idle") /\ stopped /\ session = NoSession
  /\ io' = "ended"
  /\ UNCHANGED <<serverVars, sem, incoming, outgoing, asleep, platformVars, mainVars>>

-------------------------------------------------------------------------------
(***************************************************************************)
(* The main thread: frames, DispatchMessages and the pause loop.           *)
(***************************************************************************)
Frame(kind, s) == [kind |-> kind, session |-> s]
Top == stack[Len(stack)]
On(kind) == Alive /\ stack # <<>> /\ Top.kind = kind
Caller == SubSeq(stack, 1, Len(stack) - 1)
Base(p) == stack = <<>> /\ phase = p

\* V8 executes JavaScript: the handler's own or an evaluation for the frontend.
JsRuns == Base("script") \/ On("evaluate")

\* A call of DispatchMessages returns at once when dispatching_messages_ is set.
DispatchMessages ==
  /\ dispatching' = TRUE
  /\ stack' = IF dispatching THEN stack
              ELSE Append(stack, Frame("dispatch", NoSession))

\* Write, called with state_ = st, drops the action once the agent shuts down.
Write(queue, st, action) ==
  IF st = "kShutDown" THEN queue ELSE queue \cup {action}

\* V8 answers or notifies only through a session that is still attached.
WithMessageTo(s) ==
  IF channel # NoSession /\ channel = s THEN Write(outgoing, state, "kSendMessage")
  ELSE outgoing

SendMessageToFrontend(s) == outgoing' = WithMessageTo(s)

InterruptCallback ==
  /\ JsRuns /\ interrupts > 0
  /\ interrupts' = interrupts - 1
  /\ DispatchMessages
  /\ UNCHANGED <<ioVars, sem, incoming, outgoing, asleep, tasks, phase, state,
                 dispatch_queue, channel, loopVars>>

SwapAnyway ==                                            \* Mutant
  /\ On("dispatch") /\ incoming # <<>>
  /\ dispatch_queue' = incoming
  /\ incoming' = dispatch_queue
  /\ UNCHANGED <<ioVars, sem, outgoing, asleep, platformVars, phase, stack, state,
                 dispatching, channel, loopVars>>

\* SwapBehindLock, when the dispatching queue has been used up.
TakeIncoming ==
  /\ On("dispatch") /\ dispatch_queue = <<>> /\ incoming # <<>>
  /\ dispatch_queue' = incoming
  /\ incoming' = <<>>
  /\ UNCHANGED <<ioVars, sem, outgoing, asleep, platformVars, phase, stack, state,
                 dispatching, channel, loopVars>>

\* The loop found nothing more: DispatchMessages returns.
NothingToDispatch == dispatch_queue = <<>> /\ incoming = <<>>

DispatchReturns ==
  /\ On("dispatch") /\ NothingToDispatch
  /\ dispatching' = FALSE
  /\ stack' = Caller
  /\ UNCHANGED <<ioVars, sem, incoming, outgoing, asleep, platformVars, phase, state,
                 dispatch_queue, channel, loopVars>>

\* The first entry of the dispatching queue is removed before it is handled.
NextTask(action) ==
  /\ On("dispatch") /\ dispatch_queue # <<>>
  /\ Head(dispatch_queue).action = action
  /\ dispatch_queue' = Tail(dispatch_queue)
  /\ UNCHANGED <<ioVars, sem, incoming, asleep, platformVars, dispatching, nested>>

AssertionFails ==
  /\ phase' = "crashed"
  /\ UNCHANGED <<outgoing, stack, state, channel, terminated>>

\* connectFrontend, after session_id_ and the delegate have been set.
DispatchStartSession ==
  /\ NextTask("kStartSession")
  /\ IF channel # NoSession THEN AssertionFails
     ELSE /\ channel' = Head(dispatch_queue).session
          /\ state' = "kConnected"
          /\ UNCHANGED <<outgoing, phase, stack, terminated>>

\* disconnectFrontend also leaves the pause loop.
DispatchEndSession ==
  /\ NextTask("kEndSession")
  /\ IF channel = NoSession THEN AssertionFails
     ELSE /\ channel' = NoSession
          /\ state' = IF state = "kShutDown" THEN "kDone" ELSE "kAccepting"
          /\ terminated' = TRUE
          /\ UNCHANGED <<outgoing, phase, stack>>

\* Only Debugger.resume of a paused V8 ends the pause loop.
DispatchSendMessage ==
  /\ NextTask("kSendMessage")
  /\ IF channel = NoSession THEN AssertionFails
     ELSE /\ UNCHANGED <<phase, state, channel>>
          /\ \/ /\ Head(dispatch_queue).body = "evaluate"
                /\ stack' = Append(stack, Frame("evaluate", channel))
                /\ UNCHANGED <<outgoing, terminated>>
             \/ /\ Head(dispatch_queue).body \in {"run", "resume"}
                /\ SendMessageToFrontend(channel)
                /\ terminated' = (\/ terminated
                                  \/ Head(dispatch_queue).body = "resume" /\ nested = "pause")
                /\ UNCHANGED stack

\* An evaluation ends; its answer is dropped when its session has gone.
EvaluateReturns ==
  /\ On("evaluate")
  /\ SendMessageToFrontend(Top.session)
  /\ stack' = Caller
  /\ UNCHANGED <<ioVars, sem, incoming, asleep, platformVars, phase, state,
                 dispatching, dispatch_queue, channel, loopVars>>

RunMessageLoopAgain(purpose) ==                          \* Mutant
  /\ terminated' = FALSE
  /\ IF nested # "none" THEN UNCHANGED <<stack, nested>>
     ELSE /\ nested' = purpose
          /\ stack' = Append(stack, Frame("check", NoSession))

\* runMessageLoopOnPause: a call inside the loop returns at once.
RunMessageLoop(purpose) ==
  IF nested # "none" THEN UNCHANGED <<stack, loopVars>>
  ELSE /\ terminated' = FALSE
       /\ nested' = purpose
       /\ stack' = Append(stack, Frame("check", NoSession))

\* V8 pauses at a breakpoint, an exception or a debugger statement.
PauseOnBreak ==
  /\ JsRuns /\ channel # NoSession
  /\ RunMessageLoop("pause")
  /\ SendMessageToFrontend(channel)
  /\ UNCHANGED <<ioVars, sem, incoming, asleep, platformVars, phase, state,
                 dispatching, dispatch_queue, channel>>

MustWaitAlways == TRUE                                   \* Mutant
MustWait == incoming = <<>>

\* One turn of the loop's condition: the call through channel_, then the wait.
WaitForFrontendMessageWhilePaused ==
  /\ On("check") /\ ~terminated
  /\ IF channel = NoSession
       THEN /\ phase' = "crashed"
            /\ UNCHANGED <<stack, dispatching, asleep>>
       ELSE /\ dispatching' = FALSE
            /\ asleep' = MustWait
            /\ stack' = Append(Caller, Frame("pump", NoSession))
            /\ UNCHANGED phase
  /\ UNCHANGED <<ioVars, sem, incoming, outgoing, platformVars, state,
                 dispatch_queue, channel, loopVars>>

\* A condition variable may wake up without a notification.
SpuriousWakeup ==
  /\ Alive /\ asleep
  /\ asleep' = FALSE
  /\ UNCHANGED <<ioVars, sem, incoming, outgoing, platformVars, mainVars>>

\* PumpMessageLoop runs a task, if there is one.
Pumping == ~asleep /\ (On("pump") \/ Base("pumping"))

RunTask ==
  /\ Pumping /\ tasks > 0
  /\ tasks' = tasks - 1
  /\ DispatchMessages
  /\ UNCHANGED <<ioVars, sem, incoming, outgoing, asleep, interrupts, phase, state,
                 dispatch_queue, channel, loopVars>>

PumpedOut ==
  /\ On("pump") /\ ~asleep /\ tasks = 0
  /\ stack' = Append(Caller, Frame("check", NoSession))
  /\ UNCHANGED <<ioVars, sem, incoming, outgoing, asleep, platformVars, phase, state,
                 dispatching, dispatch_queue, channel, loopVars>>

MessageLoopEnds ==
  /\ On("check") /\ terminated
  /\ terminated' = FALSE
  /\ nested' = "none"
  /\ stack' = Caller
  /\ UNCHANGED <<ioVars, sem, incoming, outgoing, asleep, platformVars, phase, state,
                 dispatching, dispatch_queue, channel>>

-------------------------------------------------------------------------------
(***************************************************************************)
(* The main thread: the program.                                           *)
(***************************************************************************)

\* Start dispatches what the frontend that asked to run has sent; Stop what was
\* left when the thread ended.
NoDispatch == UNCHANGED <<dispatching, stack>>           \* Mutant
FirstDispatch == DispatchMessages
LastDispatch == DispatchMessages

\* Start, after the semaphore.  Agent::StartIoThread discards the V8 client when
\* Start fails; main does not look at the result, and the next call of the agent
\* goes through the null client.
Start ==
  /\ Base("starting") /\ sem > 0
  /\ sem' = sem - 1
  /\ IF state = "kError"
       THEN /\ phase' = "crashed"
            /\ UNCHANGED <<state, stack, dispatching>>
       ELSE /\ phase' = "started"
            /\ state' = "kAccepting"
            /\ FirstDispatch
  /\ UNCHANGED <<ioVars, incoming, outgoing, asleep, platformVars, dispatch_queue,
                 channel, loopVars>>

\* Start has returned; the agent asks for a pause on the first statement and the
\* handler runs.
PauseOnNextJavascriptStatement ==
  /\ Base("started")
  /\ phase' = "script"
  /\ UNCHANGED <<ioVars, sem, incoming, outgoing, asleep, platformVars, stack, state,
                 dispatching, dispatch_queue, channel, loopVars>>

\* The handler is done: Stop, up to the join.
Stop ==
  /\ Base("script")
  /\ IF state \in {"kAccepting", "kConnected"}
       THEN /\ phase' = "joining"
            /\ outgoing' = Write(outgoing, state, "kKill")
       ELSE phase' = "crashed" /\ UNCHANGED outgoing
  /\ UNCHANGED <<ioVars, sem, incoming, asleep, platformVars, stack, state,
                 dispatching, dispatch_queue, channel, loopVars>>

\* Stop, after the join.
Joined ==
  /\ Base("joining") /\ io = "ended"
  /\ phase' = "stopping"
  /\ state' = "kShutDown"
  /\ LastDispatch
  /\ UNCHANGED <<ioVars, sem, incoming, outgoing, asleep, platformVars,
                 dispatch_queue, channel, loopVars>>

\* The handler threw: FatalException notifies the frontend and calls
\* WaitForDisconnect, which writes kStop after it has changed state_.
FatalException ==
  /\ Base("script")
  /\ IF state = "kConnected"
       THEN /\ state' = "kShutDown"
            /\ outgoing' = Write(WithMessageTo(channel), "kShutDown", "kStop")
            /\ phase' = IF channel = NoSession THEN "crashed" ELSE "waiting"
            /\ RunMessageLoop("disconnect")
       ELSE /\ state' = IF state = "kAccepting" THEN "kDone" ELSE state
            /\ SendMessageToFrontend(channel)
            /\ phase' = "pumping"
            /\ UNCHANGED <<stack, loopVars>>
  /\ UNCHANGED <<ioVars, sem, incoming, asleep, platformVars, dispatching,
                 dispatch_queue, channel>>

WaitForDisconnectReturns ==
  /\ Base("waiting")
  /\ phase' = "pumping"
  /\ UNCHANGED <<ioVars, sem, incoming, outgoing, asleep, platformVars, stack, state,
                 dispatching, dispatch_queue, channel, loopVars>>

\* io_ is destroyed, or the process ends after the tasks that were left.
Finish ==
  /\ Base("stopping") \/ (Base("pumping") /\ tasks = 0)
  /\ phase' = "done"
  /\ UNCHANGED <<ioVars, sem, incoming, outgoing, asleep, platformVars, stack, state,
                 dispatching, dispatch_queue, channel, loopVars>>

-------------------------------------------------------------------------------
IoThread ==
  \/ ThreadMain \/ StartSession \/ EndSession \/ PostRunRequest
  \/ \E body \in Bodies : MessageReceived(body)
  \/ ScheduleDispatch \/ NotifyMessageReceived \/ IoThreadAsyncCb \/ ServerDone

MainThread ==
  \/ Start \/ PauseOnNextJavascriptStatement \/ Stop \/ Joined
  \/ FatalException \/ WaitForDisconnectReturns \/ Finish
  \/ InterruptCallback \/ TakeIncoming \/ DispatchReturns
  \/ DispatchStartSession \/ DispatchEndSession \/ DispatchSendMessage
  \/ EvaluateReturns \/ PauseOnBreak \/ WaitForFrontendMessageWhilePaused
  \/ RunTask \/ PumpedOut \/ MessageLoopEnds

Next == IoThread \/ MainThread \/ SpuriousWakeup

Spec == Init /\ [][Next]_vars

(***************************************************************************)
(* Both threads are scheduled and the JavaScript, the handler's and the    *)
(* frontend's, comes to an end.  Frontends owe nothing, except that a      *)
(* session which the server closes ends.                                   *)
(***************************************************************************)
ClosedSessionEnds == stopped /\ EndSession

Fairness ==
  /\ WF_vars(MainThread)
  /\ WF_vars(EvaluateReturns)
  /\ WF_vars(\/ ThreadMain \/ PostRunRequest \/ ScheduleDispatch
             \/ NotifyMessageReceived \/ IoThreadAsyncCb \/ ServerDone
             \/ ClosedSessionEnds)

FairSpec == Spec /\ Fairness

-------------------------------------------------------------------------------
(***************************************************************************)
(* Properties.                                                             *)
(***************************************************************************)

Contract == INSTANCE SessionContract WITH
  connected <- session, attached <- channel,
  queue <- dispatch_queue \o incoming

\* Over all reentrant calls of DispatchMessages, what the frontends do reaches V8
\* once, in order and in its own session: the asserts of kStartSession, of
\* kEndSession and of dispatchMessageFromFrontend hold (inspector_io.cc:378-424).
ServesSessionsInOrder == Contract!ContractSpec

\* No entry is left in the incoming queue without a dispatch to come: one is
\* running with the flag set, or the I/O thread is about to schedule one, or a
\* task is pending, and while JavaScript runs also an interrupt
\* (inspector_io.cc:345-358).
NoLostDispatch ==
  incoming # <<>> /\ io # "schedule" /\ ~dispatching =>
    tasks > 0 /\ (JsRuns => interrupts > 0)

\* The main thread never sleeps on the condition variable when an entry has been
\* added, except until the notification that is on its way
\* (inspector_io.cc:364-376).
SleepsOnlyWithoutMail ==
  asleep => incoming = <<>> \/ io \in {"schedule", "notify"}

\* Entries that have left the incoming queue belong to a DispatchMessages that
\* has not returned.
SwappedEntriesHaveADispatcher ==
  dispatch_queue # <<>> => \E i \in DOMAIN stack : stack[i].kind = "dispatch"

\* The asserts of the agent hold in every order of sessions, pauses, Stop and
\* WaitForDisconnect; the process crashes only after a server that could not start
\* (inspector_io.cc:228, 399, 408; inspector_agent.cc:118, 148, 159).
AssertionsHold == phase = "crashed" => state = "kError"

\* Start waits "for a connection if wait_for_connect": when the handler starts, V8
\* serves the first frontend, unless that has already left (inspector_io.h:40-41).
StartAttachesTheFrontend == Base("started") /\ session = 0 => channel = 0

\* Stop hands everything over: no entry and no session is left when io_ is
\* destroyed (inspector_io.cc:227-234).
StopLeavesNothing ==
  phase = "done" /\ io = "ended" =>
    channel = NoSession /\ incoming = <<>> /\ dispatch_queue = <<>>

\* The agent tells the I/O thread something only while the thread lives: "Write
\* action to outgoing_message_queue, and wake the thread" (inspector_io.h:83).
WritesWakeTheThread == io = "ended" => outgoing = {}

\* The thread is told to stop before main waits for the debugger to disconnect
\* (inspector_io.cc:247).
WaitingServerIsStopped == phase = "waiting" => stopped \/ "kStop" \in outgoing

\* Entries of the incoming queue are dispatched, unless the process ends
\* (inspector_io.cc:378-390).
IncomingIsTaken ==
  incoming # <<>> /\ phase # "starting" ~> incoming = <<>> \/ phase \in {"done", "crashed"}

\* Once an entry has been swapped into the dispatching queue, the queue empties
\* (inspector_io.h:50-51).
DispatchedEventually ==
  dispatch_queue # <<>> ~> dispatch_queue = <<>> \/ phase \in {"done", "crashed"}

\* Stop ends the thread (inspector_io.cc:227-234).
StopJoins == phase = "joining" ~> phase = "stopping"

\* Debugger.resume and the end of the session let a paused handler go on, whatever
\* else the frontend sends (inspector_agent.cc:117-129, 145, 153-156).
ResumeEndsPause == nested # "none" /\ terminated ~> nested = "none"
===============================================================================
