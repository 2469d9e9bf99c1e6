--------------------------- MODULE InspectorIoProofs ---------------------------
(***************************************************************************)
(* Proofs about InspectorIo for any number of sessions and messages.       *)
(*                                                                         *)
(* The inductive invariant has parts that are proved one after the other:  *)
(* types and the semaphore, the order of the queued entries, the frames of *)
(* the main thread, the states of the agent, and what makes the main       *)
(* thread come back for an entry, and what start and stop rely on.  Each   *)
(* part is inductive given those before it, so each has one lemma about    *)
(* Next.                                                                   *)
(***************************************************************************)
EXTENDS InspectorIo, SequenceLemmas

-------------------------------------------------------------------------------
(***************************************************************************)
(* Types.  The semaphore is posted once: by a server that could not start, *)
(* or by the first request to run.                                         *)
(***************************************************************************)
StartupInv ==
  /\ io = "boot" => waiting
  /\ waiting /\ io # "ended" => sem = 0
  /\ io = "resumed" => session # NoSession

TypeInv == TypeOK /\ StartupInv

\* The entries of the two queues, and the frames.
LEMMA MessageType ==
  ASSUME NEW s \in Sessions
  PROVE  /\ Message("kStartSession", s, "none") \in InspectorAction
         /\ Message("kEndSession", s, "none") \in InspectorAction
         /\ \A b \in Bodies : Message("kSendMessage", s, b) \in InspectorAction
  BY DEF Message, InspectorAction

LEMMA FrameType ==
  ASSUME NEW kind \in {"dispatch", "evaluate", "check", "pump"},
         NEW s \in Sessions \cup {NoSession}
  PROVE  Frame(kind, s) \in Frames
  BY DEF Frame, Frames

\* The stack after a return, after a call, and after both.
LEMMA StackType ==
  ASSUME stack \in Seq(Frames)
  PROVE  /\ \A f \in Frames : Append(stack, f) \in Seq(Frames)
         /\ stack # <<>> =>
              /\ Top \in Frames
              /\ Caller \in Seq(Frames)
              /\ \A f \in Frames : Append(Caller, f) \in Seq(Frames)
<1>1. \A f \in Frames : Append(stack, f) \in Seq(Frames)
  BY AppendProperties
<1>2. ASSUME stack # <<>>
      PROVE  /\ Top \in Frames
             /\ Caller \in Seq(Frames)
             /\ \A f \in Frames : Append(Caller, f) \in Seq(Frames)
  <2>1. Len(stack) \in Nat \ {0}
    BY <1>2, EmptySeq
  <2>2. Len(stack) \in 1 .. Len(stack)
    BY <2>1
  <2>3. Top \in Frames
    BY <2>2, ElementOfSeq DEF Top
  <2>4. Caller \in Seq(Frames)
    BY <1>2, FrontProperties DEF Caller
  <2>5. QED
    BY <2>3, <2>4, AppendProperties
<1>3. QED
  BY <1>1, <1>2

\* A call of DispatchMessages keeps the type of the stack.
LEMMA DispatchType ==
  ASSUME stack \in Seq(Frames), DispatchMessages
  PROVE  stack' \in Seq(Frames) /\ dispatching' \in BOOLEAN
<1>1. Frame("dispatch", NoSession) \in Frames
  BY FrameType
<1>2. QED
  BY <1>1, StackType DEF DispatchMessages

\* The session of an entry at the head of a queue.
LEMMA HeadType ==
  ASSUME NEW q \in Seq(InspectorAction), q # <<>>
  PROVE  /\ Head(q) \in InspectorAction
         /\ Head(q).session \in Sessions
         /\ Tail(q) \in Seq(InspectorAction)
<1>1. Head(q) \in InspectorAction /\ Tail(q) \in Seq(InspectorAction)
  BY HeadTailProperties
<1>2. Head(q).session \in Sessions
  BY <1>1 DEF InspectorAction, Message
<1>3. QED
  BY <1>1, <1>2

LEMMA InitTypeInv == Init => TypeInv
<1>1. SUFFICES ASSUME Init PROVE TypeInv
  OBVIOUS
<1>2. <<>> \in Seq(InspectorAction) /\ <<>> \in Seq(Frames)
  BY EmptySeq
<1>3. 0 \in 0 .. MaxSessions /\ 0 \in 0 .. MaxMessages /\ 0 \in 0 .. 1 /\ 0 \in Nat
  BY InspectorAssumption
<1>4. TypeOK
  BY <1>1, <1>2, <1>3 DEF Init, TypeOK
<1>5. StartupInv
  BY <1>1 DEF Init, StartupInv
<1>6. QED
  BY <1>4, <1>5 DEF TypeInv

\* PostIncomingMessage of an entry.
LEMMA PostType ==
  ASSUME TypeOK, NEW m \in InspectorAction, PostIncomingMessage(m)
  PROVE  /\ incoming' \in Seq(InspectorAction)
         /\ io' \in {"schedule", "notify"}
         /\ UNCHANGED <<outgoing, asleep, platformVars, mainVars>>
<1>1. incoming' \in Seq(InspectorAction)
  BY AppendProperties DEF PostIncomingMessage, TypeOK
<1>2. QED
  BY <1>1 DEF PostIncomingMessage

\* The steps of the I/O thread.
LEMMA IoThreadTypes ==
  ASSUME TypeInv, IoThread
  PROVE  TypeInv'
<1> USE DEF IoAt, serverVars, platformVars, mainVars, loopVars
<1>1. CASE ThreadMain
  BY <1>1 DEF ThreadMain, TypeInv, TypeOK, StartupInv
<1>2. CASE StartSession
  <2>1. next_session_id \in Sessions /\ next_session_id + 1 \in 0 .. MaxSessions
    BY <1>2, InspectorAssumption DEF StartSession, TypeInv, TypeOK, Sessions
  <2>2. PostIncomingMessage(Message("kStartSession", next_session_id, "none"))
    BY <1>2 DEF StartSession
  <2>3. /\ incoming' \in Seq(InspectorAction) /\ io' \in {"schedule", "notify"}
        /\ UNCHANGED <<outgoing, asleep, platformVars, mainVars>>
    BY <2>1, <2>2, MessageType, PostType DEF TypeInv
  <2>4. QED
    BY <1>2, <2>1, <2>3 DEF StartSession, TypeInv, TypeOK, StartupInv
<1>3. CASE EndSession
  <2>1. session \in Sessions
    BY <1>3 DEF EndSession, TypeInv, TypeOK
  <2>2. PostIncomingMessage(Message("kEndSession", session, "none"))
    BY <1>3 DEF EndSession
  <2>3. /\ incoming' \in Seq(InspectorAction) /\ io' \in {"schedule", "notify"}
        /\ UNCHANGED <<outgoing, asleep, platformVars, mainVars>>
    BY <2>1, <2>2, MessageType, PostType DEF TypeInv
  <2>4. QED
    BY <1>3, <2>1, <2>3 DEF EndSession, TypeInv, TypeOK, StartupInv
<1>4. CASE PostRunRequest
  <2>1. session \in Sessions
    BY <1>4 DEF PostRunRequest, TypeInv, TypeOK, StartupInv
  <2>2. PostIncomingMessage(Message("kSendMessage", session, "run"))
    BY <1>4 DEF PostRunRequest
  <2>3. /\ incoming' \in Seq(InspectorAction) /\ io' \in {"schedule", "notify"}
        /\ UNCHANGED <<outgoing, asleep, platformVars, mainVars>>
    BY <2>1, <2>2, MessageType, PostType DEF TypeInv, Bodies
  <2>4. QED
    BY <1>4, <2>1, <2>3 DEF PostRunRequest, TypeInv, TypeOK, StartupInv
<1>5. CASE \E body \in Bodies : MessageReceived(body)
  <2>1. PICK body \in Bodies : MessageReceived(body)
    BY <1>5
  <2>2. session \in Sessions /\ received + 1 \in 0 .. MaxMessages
    BY <2>1, InspectorAssumption DEF MessageReceived, TypeInv, TypeOK
  <2>3. CASE ResumesStartup(body)
    <3>1. waiting /\ waiting' = FALSE /\ waiting' \in BOOLEAN
      BY <2>1, <2>3 DEF MessageReceived, ResumesStartup
    <3>2. sem = 0 /\ sem' = 1 /\ io' = "resumed"
      BY <2>1, <2>3, <3>1 DEF MessageReceived, TypeInv, StartupInv
    <3>3. /\ received' = received + 1
          /\ UNCHANGED <<session, next_session_id, stopped, incoming, outgoing, asleep,
                         platformVars, mainVars>>
      BY <2>1, <2>3 DEF MessageReceived
    <3>4. TypeOK'
      BY <2>2, <3>1, <3>2, <3>3 DEF TypeInv, TypeOK
    <3>5. StartupInv'
      BY <2>2, <3>1, <3>2, <3>3, InspectorAssumption DEF StartupInv, Sessions
    <3>6. QED
      BY <3>4, <3>5 DEF TypeInv
  <2>4. CASE ~ResumesStartup(body)
    <3>1. PostIncomingMessage(Message("kSendMessage", session, body))
      BY <2>1, <2>4 DEF MessageReceived
    <3>2. /\ incoming' \in Seq(InspectorAction) /\ io' \in {"schedule", "notify"}
          /\ UNCHANGED <<outgoing, asleep, platformVars, mainVars>>
      BY <2>2, <3>1, MessageType, PostType DEF TypeInv
    <3>3. /\ received' = received + 1 /\ io = "idle"
          /\ UNCHANGED <<session, next_session_id, stopped, waiting, sem>>
      BY <2>1, <2>4 DEF MessageReceived
    <3>4. QED
      BY <2>2, <3>2, <3>3 DEF TypeInv, TypeOK, StartupInv
  <2>5. QED
    BY <2>3, <2>4
<1>6. CASE ScheduleDispatch
  BY <1>6 DEF ScheduleDispatch, TypeInv, TypeOK, StartupInv
<1>7. CASE NotifyMessageReceived
  <2>1. asleep' \in BOOLEAN
    BY <1>7 DEF NotifyMessageReceived
  <2>2. QED
    BY <1>7, <2>1 DEF NotifyMessageReceived, TypeInv, TypeOK, StartupInv
<1>8. CASE IoThreadAsyncCb
  <2>1. stopped' \in BOOLEAN
    BY <1>8 DEF IoThreadAsyncCb, TypeInv, TypeOK
  <2>2. QED
    BY <1>8, <2>1 DEF IoThreadAsyncCb, TypeInv, TypeOK, StartupInv
<1>9. CASE ServerDone
  BY <1>9 DEF ServerDone, TypeInv, TypeOK, StartupInv
<1>10. QED
  BY <1>1, <1>2, <1>3, <1>4, <1>5, <1>6, <1>7, <1>8, <1>9 DEF IoThread

\* What a message to the frontend leaves in the outgoing queue.
LEMMA OutgoingType ==
  ASSUME TypeOK
  PROVE  /\ \A s : WithMessageTo(s) \subseteq {"kSendMessage", "kKill", "kStop"}
         /\ \A q, st : /\ q \subseteq {"kSendMessage", "kKill", "kStop"}
                       => /\ Write(q, st, "kKill") \subseteq {"kSendMessage", "kKill", "kStop"}
                          /\ Write(q, st, "kStop") \subseteq {"kSendMessage", "kKill", "kStop"}
  BY DEF TypeOK, WithMessageTo, Write

\* Entering the pause loop.
LEMMA LoopType ==
  ASSUME TypeOK, NEW purpose \in {"pause", "disconnect"}, RunMessageLoop(purpose)
  PROVE  /\ stack' \in Seq(Frames)
         /\ nested' \in {"none", "pause", "disconnect"}
         /\ terminated' \in BOOLEAN
<1>1. Frame("check", NoSession) \in Frames
  BY FrameType
<1>2. CASE nested = "none"
  BY <1>1, <1>2, StackType DEF RunMessageLoop, TypeOK
<1>3. CASE nested # "none"
  BY <1>3 DEF RunMessageLoop, TypeOK, loopVars
<1>4. QED
  BY <1>2, <1>3

\* The steps of the main thread that hand an entry to V8.
LEMMA DeliverTypes ==
  ASSUME TypeInv, DispatchStartSession \/ DispatchEndSession \/ DispatchSendMessage
  PROVE  TypeInv'
<1> USE DEF ioVars, serverVars, platformVars, loopVars
<1>1. /\ dispatch_queue # <<>> /\ dispatch_queue' = Tail(dispatch_queue)
      /\ UNCHANGED <<ioVars, sem, incoming, asleep, platformVars, dispatching, nested>>
  BY DEF DispatchStartSession, DispatchEndSession, DispatchSendMessage, NextTask
<1>2. dispatch_queue' \in Seq(InspectorAction) /\ Head(dispatch_queue).session \in Sessions
  BY <1>1, HeadType DEF TypeInv, TypeOK
<1>3. SUFFICES /\ outgoing' \subseteq {"kSendMessage", "kKill", "kStop"}
               /\ phase' \in {"starting", "started", "script", "joining", "stopping",
                              "waiting", "pumping", "done", "crashed"}
               /\ stack' \in Seq(Frames)
               /\ state' \in {"kNew", "kAccepting", "kConnected", "kDone", "kError",
                              "kShutDown"}
               /\ channel' \in Sessions \cup {NoSession}
               /\ terminated' \in BOOLEAN
  BY <1>1, <1>2 DEF TypeInv, TypeOK, StartupInv
<1>4. CASE AssertionFails
  BY <1>4 DEF AssertionFails, TypeInv, TypeOK
<1>5. CASE DispatchStartSession /\ ~AssertionFails
  BY <1>2, <1>5 DEF DispatchStartSession, TypeInv, TypeOK
<1>6. CASE DispatchEndSession /\ ~AssertionFails
  <2>1. terminated' \in BOOLEAN
    BY <1>6 DEF DispatchEndSession
  <2>2. QED
    BY <1>6, <2>1 DEF DispatchEndSession, TypeInv, TypeOK
<1>7. CASE DispatchSendMessage /\ ~AssertionFails
  <2>1. channel # NoSession /\ UNCHANGED <<phase, state, channel>>
    BY <1>7 DEF DispatchSendMessage
  <2>2. CASE Head(dispatch_queue).body = "evaluate"
    <3>1. Frame("evaluate", channel) \in Frames
      BY FrameType DEF TypeInv, TypeOK
    <3>2. stack' = Append(stack, Frame("evaluate", channel)) /\ UNCHANGED <<outgoing, terminated>>
      BY <1>7, <2>1, <2>2 DEF DispatchSendMessage
    <3>3. QED
      BY <2>1, <3>1, <3>2, StackType DEF TypeInv, TypeOK
  <2>3. CASE Head(dispatch_queue).body # "evaluate"
    <3>1. SendMessageToFrontend(channel) /\ UNCHANGED stack
      BY <1>7, <2>1, <2>3 DEF DispatchSendMessage
    <3>2. terminated' \in BOOLEAN
      BY <1>7, <2>1, <2>3 DEF DispatchSendMessage, TypeInv, TypeOK
    <3>3. outgoing' \subseteq {"kSendMessage", "kKill", "kStop"}
      BY <3>1, OutgoingType DEF SendMessageToFrontend, TypeInv
    <3>4. QED
      BY <2>1, <3>1, <3>2, <3>3 DEF TypeInv, TypeOK
  <2>4. QED
    BY <2>2, <2>3
<1>8. QED
  BY <1>4, <1>5, <1>6, <1>7

\* The other steps of DispatchMessages, the pause loop and the platform.
LEMMA LoopTypes ==
  ASSUME TypeInv,
         \/ InterruptCallback \/ TakeIncoming \/ DispatchReturns \/ EvaluateReturns
         \/ PauseOnBreak \/ WaitForFrontendMessageWhilePaused
         \/ RunTask \/ PumpedOut \/ MessageLoopEnds
  PROVE  TypeInv'
<1> USE DEF ioVars, serverVars, platformVars, loopVars, TypeInv
<1>1. CASE InterruptCallback
  <2>1. interrupts' \in Nat
    BY <1>1 DEF InterruptCallback, TypeOK
  <2>2. stack' \in Seq(Frames) /\ dispatching' \in BOOLEAN
    BY <1>1, DispatchType DEF InterruptCallback, TypeOK
  <2>3. QED
    BY <1>1, <2>1, <2>2 DEF InterruptCallback, TypeOK, StartupInv
<1>2. CASE TakeIncoming
  <2>1. <<>> \in Seq(InspectorAction)
    BY EmptySeq
  <2>2. QED
    BY <1>2, <2>1 DEF TakeIncoming, TypeOK, StartupInv
<1>3. CASE DispatchReturns
  <2>1. stack' \in Seq(Frames)
    BY <1>3, StackType DEF DispatchReturns, On, TypeOK
  <2>2. dispatching' \in BOOLEAN
    BY <1>3 DEF DispatchReturns
  <2>3. QED
    BY <1>3, <2>1, <2>2 DEF DispatchReturns, TypeOK, StartupInv
<1>4. CASE EvaluateReturns
  <2>1. stack' \in Seq(Frames)
    BY <1>4, StackType DEF EvaluateReturns, On, TypeOK
  <2>2. outgoing' \subseteq {"kSendMessage", "kKill", "kStop"}
    BY <1>4, OutgoingType DEF EvaluateReturns, SendMessageToFrontend
  <2>3. QED
    BY <1>4, <2>1, <2>2 DEF EvaluateReturns, TypeOK, StartupInv
<1>5. CASE PauseOnBreak
  <2>1. /\ stack' \in Seq(Frames) /\ nested' \in {"none", "pause", "disconnect"}
        /\ terminated' \in BOOLEAN
    BY <1>5, LoopType DEF PauseOnBreak
  <2>2. outgoing' \subseteq {"kSendMessage", "kKill", "kStop"}
    BY <1>5, OutgoingType DEF PauseOnBreak, SendMessageToFrontend
  <2>3. QED
    BY <1>5, <2>1, <2>2 DEF PauseOnBreak, TypeOK, StartupInv
<1>6. CASE WaitForFrontendMessageWhilePaused
  <2>1. CASE channel = NoSession
    BY <1>6, <2>1 DEF WaitForFrontendMessageWhilePaused, TypeOK, StartupInv
  <2>2. CASE channel # NoSession
    <3>1. Frame("pump", NoSession) \in Frames
      BY FrameType
    <3>2. stack' \in Seq(Frames)
      BY <1>6, <2>2, <3>1, StackType DEF WaitForFrontendMessageWhilePaused, On, TypeOK
    <3>3. dispatching' \in BOOLEAN /\ asleep' \in BOOLEAN
      BY <1>6, <2>2 DEF WaitForFrontendMessageWhilePaused, MustWait
    <3>4. QED
      BY <1>6, <2>2, <3>2, <3>3 DEF WaitForFrontendMessageWhilePaused, TypeOK, StartupInv
  <2>3. QED
    BY <2>1, <2>2
<1>7. CASE RunTask
  <2>1. tasks' \in Nat
    BY <1>7 DEF RunTask, TypeOK
  <2>2. stack' \in Seq(Frames) /\ dispatching' \in BOOLEAN
    BY <1>7, DispatchType DEF RunTask, TypeOK
  <2>3. QED
    BY <1>7, <2>1, <2>2 DEF RunTask, TypeOK, StartupInv
<1>8. CASE PumpedOut
  <2>1. Frame("check", NoSession) \in Frames
    BY FrameType
  <2>2. stack' \in Seq(Frames)
    BY <1>8, <2>1, StackType DEF PumpedOut, On, TypeOK
  <2>3. QED
    BY <1>8, <2>2 DEF PumpedOut, TypeOK, StartupInv
<1>9. CASE MessageLoopEnds
  <2>1. stack' \in Seq(Frames)
    BY <1>9, StackType DEF MessageLoopEnds, On, TypeOK
  <2>2. terminated' \in BOOLEAN
    BY <1>9 DEF MessageLoopEnds
  <2>3. QED
    BY <1>9, <2>1, <2>2 DEF MessageLoopEnds, TypeOK, StartupInv
<1>10. QED
  BY <1>1, <1>2, <1>3, <1>4, <1>5, <1>6, <1>7, <1>8, <1>9

\* The steps of the program.
LEMMA ProgramTypes ==
  ASSUME TypeInv,
         \/ Start \/ PauseOnNextJavascriptStatement \/ Stop \/ Joined
         \/ FatalException \/ WaitForDisconnectReturns \/ Finish
  PROVE  TypeInv'
<1> USE DEF ioVars, serverVars, platformVars, loopVars, TypeInv
<1>1. CASE Start
  <2>1. sem' \in 0 .. 1 /\ sem > 0
    BY <1>1 DEF Start, TypeOK
  <2>2. stack' \in Seq(Frames) /\ dispatching' \in BOOLEAN
    BY <1>1, DispatchType DEF Start, FirstDispatch, TypeOK
  <2>3. waiting /\ io # "ended" => FALSE
    BY <2>1 DEF StartupInv
  <2>4. QED
    BY <1>1, <2>1, <2>2, <2>3 DEF Start, TypeOK, StartupInv
<1>2. CASE PauseOnNextJavascriptStatement
  BY <1>2 DEF PauseOnNextJavascriptStatement, TypeOK, StartupInv
<1>3. CASE Stop
  <2>1. outgoing' \subseteq {"kSendMessage", "kKill", "kStop"}
    <3>1. outgoing \subseteq {"kSendMessage", "kKill", "kStop"}
      BY DEF TypeOK
    <3>2. outgoing' = outgoing \/ outgoing' = Write(outgoing, state, "kKill")
      BY <1>3 DEF Stop
    <3>3. QED
      BY <3>1, <3>2, OutgoingType
  <2>2. QED
    BY <1>3, <2>1 DEF Stop, TypeOK, StartupInv
<1>4. CASE Joined
  <2>1. stack' \in Seq(Frames) /\ dispatching' \in BOOLEAN
    BY <1>4, DispatchType DEF Joined, LastDispatch, TypeOK
  <2>2. QED
    BY <1>4, <2>1 DEF Joined, TypeOK, StartupInv
<1>5. CASE FatalException
  <2>1. CASE state = "kConnected"
    <3>1. /\ stack' \in Seq(Frames) /\ nested' \in {"none", "pause", "disconnect"}
          /\ terminated' \in BOOLEAN
      BY <1>5, <2>1, LoopType DEF FatalException
    <3>2. outgoing' \subseteq {"kSendMessage", "kKill", "kStop"}
      BY <1>5, <2>1, OutgoingType DEF FatalException
    <3>3. QED
      BY <1>5, <2>1, <3>1, <3>2 DEF FatalException, TypeOK, StartupInv
  <2>2. CASE state # "kConnected"
    <3>1. outgoing' \subseteq {"kSendMessage", "kKill", "kStop"}
      BY <1>5, <2>2, OutgoingType DEF FatalException, SendMessageToFrontend
    <3>2. QED
      BY <1>5, <2>2, <3>1 DEF FatalException, TypeOK, StartupInv
  <2>3. QED
    BY <2>1, <2>2
<1>6. CASE WaitForDisconnectReturns
  BY <1>6 DEF WaitForDisconnectReturns, TypeOK, StartupInv
<1>7. CASE Finish
  BY <1>7 DEF Finish, TypeOK, StartupInv
<1>8. QED
  BY <1>1, <1>2, <1>3, <1>4, <1>5, <1>6, <1>7

LEMMA TypeStep ==
  ASSUME TypeInv, [Next]_vars
  PROVE  TypeInv'
<1>1. CASE IoThread
  BY <1>1, IoThreadTypes
<1>2. CASE MainThread
  BY <1>2, DeliverTypes, LoopTypes, ProgramTypes DEF MainThread
<1>3. CASE SpuriousWakeup
  <2>1. asleep' \in BOOLEAN
    BY <1>3 DEF SpuriousWakeup
  <2>2. QED
    BY <1>3, <2>1 DEF SpuriousWakeup, TypeInv, TypeOK, StartupInv, ioVars, serverVars,
                      platformVars, mainVars, loopVars
<1>4. CASE UNCHANGED vars
  BY <1>4 DEF vars, TypeInv, TypeOK, StartupInv, ioVars, serverVars, platformVars,
              mainVars, loopVars
<1>5. QED
  BY <1>1, <1>2, <1>3, <1>4 DEF Next

\* Types hold throughout; in particular Start's semaphore is posted only once.
THEOREM TypeCorrect == Spec => []TypeOK
<1>1. Spec => []TypeInv
  BY InitTypeInv, TypeStep, PTL DEF Spec
<1>2. TypeInv => TypeOK
  BY DEF TypeInv
<1>3. QED
  BY <1>1, <1>2, PTL

-------------------------------------------------------------------------------
(***************************************************************************)
(* Wake-ups.                                                               *)
(***************************************************************************)

LEMMA SleepStep ==
  ASSUME SleepsOnlyWithoutMail, [Next]_vars
  PROVE  SleepsOnlyWithoutMail'
<1> USE DEF SleepsOnlyWithoutMail, IoAt, ioVars, serverVars, platformVars, mainVars, loopVars
<1>1. CASE IoThread
  <2>1. CASE ThreadMain
    BY <1>1, <2>1 DEF ThreadMain
  <2>2. CASE StartSession \/ EndSession \/ PostRunRequest
    <3>1. io' \in {"schedule", "notify"}
      BY <2>2 DEF StartSession, EndSession, PostRunRequest, PostIncomingMessage
    <3>2. QED
      BY <3>1
  <2>3. CASE \E body \in Bodies : MessageReceived(body)
    <3>1. PICK body \in Bodies : MessageReceived(body)
      BY <2>3
    <3>2. CASE ResumesStartup(body)
      BY <3>1, <3>2 DEF MessageReceived
    <3>3. CASE ~ResumesStartup(body)
      <4>1. io' \in {"schedule", "notify"}
        BY <3>1, <3>3 DEF MessageReceived, PostIncomingMessage
      <4>2. QED
        BY <4>1
    <3>4. QED
      BY <3>2, <3>3
  <2>4. CASE ScheduleDispatch
    BY <2>4 DEF ScheduleDispatch
  <2>5. CASE NotifyMessageReceived
    BY <2>5 DEF NotifyMessageReceived
  <2>6. CASE IoThreadAsyncCb
    BY <2>6 DEF IoThreadAsyncCb
  <2>7. CASE ServerDone
    BY <2>7 DEF ServerDone
  <2>8. QED
    BY <1>1, <2>1, <2>2, <2>3, <2>4, <2>5, <2>6, <2>7 DEF IoThread
<1>2. CASE MainThread
  <2>1. CASE WaitForFrontendMessageWhilePaused
    BY <2>1 DEF WaitForFrontendMessageWhilePaused, MustWait
  <2>2. CASE TakeIncoming
    BY <2>2 DEF TakeIncoming
  <2>3. CASE MainThread /\ ~WaitForFrontendMessageWhilePaused /\ ~TakeIncoming
    <3>1. UNCHANGED <<io, incoming, asleep>>
      BY <2>3 DEF MainThread, Start, PauseOnNextJavascriptStatement, Stop, Joined,
                  FatalException, WaitForDisconnectReturns, Finish, InterruptCallback,
                  DispatchReturns, DispatchStartSession, DispatchEndSession,
                  DispatchSendMessage, NextTask, EvaluateReturns, PauseOnBreak,
                  RunTask, PumpedOut, MessageLoopEnds
    <3>2. QED
      BY <3>1
  <2>4. QED
    BY <1>2, <2>1, <2>2, <2>3
<1>3. CASE SpuriousWakeup
  BY <1>3 DEF SpuriousWakeup
<1>4. CASE UNCHANGED vars
  BY <1>4 DEF vars
<1>5. QED
  BY <1>1, <1>2, <1>3, <1>4 DEF Next

\* No wake-up is lost between the check of the incoming queue and the wait.
THEOREM NoLostWakeup == Spec => []SleepsOnlyWithoutMail
<1>1. Init => SleepsOnlyWithoutMail
  BY DEF Init, SleepsOnlyWithoutMail
<1>2. QED
  BY <1>1, SleepStep, PTL DEF Spec

-------------------------------------------------------------------------------
(***************************************************************************)
(* Order.  The entries that V8 has not seen yet lead from the session that *)
(* V8 serves to the session of the server: each one fits where the entries *)
(* before it end.  ServesSessionsInOrder follows, and that V8 always finds *)
(* the session it needs.                                                   *)
(***************************************************************************)
Pending == dispatch_queue \o incoming

\* The session after an entry, and the one that it needs.
After(e) == IF e.action = "kEndSession" THEN NoSession ELSE e.session
Fits(c, e) == IF e.action = "kStartSession" THEN c = NoSession ELSE c = e.session

Leads(c, q, s) ==
  /\ \A i \in 1 .. Len(q) : Fits(IF i = 1 THEN c ELSE After(q[i - 1]), q[i])
  /\ s = IF q = <<>> THEN c ELSE After(q[Len(q)])

OrderInv == Leads(channel, Pending, session)

LEMMA LeadsAppend ==
  ASSUME NEW q \in Seq(InspectorAction), NEW e \in InspectorAction, NEW c, NEW s,
         Leads(c, q, s), Fits(s, e)
  PROVE  Leads(c, Append(q, e), After(e))
<1>1. /\ Append(q, e) # <<>> /\ Len(Append(q, e)) = Len(q) + 1
      /\ \A i \in 1 .. Len(q) : Append(q, e)[i] = q[i]
      /\ Append(q, e)[Len(q) + 1] = e
  BY AppendProperties
<1>2. Len(q) \in Nat /\ (q = <<>> => Len(q) = 0) /\ (q # <<>> => Len(q) # 0)
  BY EmptySeq, LenProperties
<1>3. ASSUME NEW i \in 1 .. Len(q) + 1
      PROVE  Fits(IF i = 1 THEN c ELSE After(Append(q, e)[i - 1]), Append(q, e)[i])
  <2>1. CASE i \in 1 .. Len(q)
    <3>1. Append(q, e)[i] = q[i] /\ (i # 1 => Append(q, e)[i - 1] = q[i - 1])
      BY <1>1, <1>2, <2>1
    <3>2. Fits(IF i = 1 THEN c ELSE After(q[i - 1]), q[i])
      BY <2>1 DEF Leads
    <3>3. QED
      BY <3>1, <3>2
  <2>2. CASE i = Len(q) + 1
    <3>1. s = IF i = 1 THEN c ELSE After(q[i - 1])
      BY <1>2, <2>2 DEF Leads
    <3>2. i # 1 => Append(q, e)[i - 1] = q[i - 1]
      BY <1>1, <1>2, <2>2
    <3>3. QED
      BY <1>1, <2>2, <3>1, <3>2
  <2>3. QED
    BY <1>2, <2>1, <2>2
<1>4. QED
  BY <1>1, <1>2, <1>3 DEF Leads

LEMMA LeadsTail ==
  ASSUME NEW q \in Seq(InspectorAction), q # <<>>, NEW c, NEW s, Leads(c, q, s)
  PROVE  /\ Fits(c, Head(q))
         /\ Leads(After(Head(q)), Tail(q), s)
<1>1. Len(q) \in Nat \ {0} /\ Head(q) = q[1]
  BY EmptySeq
<1>2. /\ Tail(q) \in Seq(InspectorAction) /\ Len(Tail(q)) = Len(q) - 1
      /\ \A i \in 1 .. Len(Tail(q)) : Tail(q)[i] = q[i + 1]
  BY HeadTailProperties
<1>3. Fits(c, Head(q))
  BY <1>1 DEF Leads
<1>4. ASSUME NEW i \in 1 .. Len(Tail(q))
      PROVE  Fits(IF i = 1 THEN After(Head(q)) ELSE After(Tail(q)[i - 1]), Tail(q)[i])
  <2>1. i + 1 \in 1 .. Len(q) /\ i + 1 # 1 /\ i + 1 - 1 = i
    BY <1>1, <1>2
  <2>2. Fits(After(q[i]), q[i + 1])
    BY <2>1 DEF Leads
  <2>3. i # 1 => Tail(q)[i - 1] = q[i]
    <3>1. i # 1 => i - 1 \in 1 .. Len(Tail(q)) /\ i - 1 + 1 = i
      BY <1>1, <1>2
    <3>2. QED
      BY <1>2, <3>1
  <2>4. QED
    BY <1>1, <1>2, <2>2, <2>3
<1>5. s = IF Tail(q) = <<>> THEN After(Head(q)) ELSE After(Tail(q)[Len(Tail(q))])
  <2>1. s = After(q[Len(q)])
    BY DEF Leads
  <2>2. CASE Tail(q) = <<>>
    <3>1. Len(<<>>) = 0
      OBVIOUS
    <3>2. Len(q) = 1
      BY <1>1, <1>2, <2>2, <3>1
    <3>3. QED
      BY <1>1, <2>1, <2>2, <3>2
  <2>3. CASE Tail(q) # <<>>
    <3>1. Len(Tail(q)) \in 1 .. Len(Tail(q)) /\ Len(Tail(q)) + 1 = Len(q)
      BY <1>1, <1>2, <2>3, EmptySeq
    <3>2. QED
      BY <1>2, <2>1, <2>3, <3>1
  <2>4. QED
    BY <2>2, <2>3
<1>6. QED
  BY <1>3, <1>4, <1>5 DEF Leads

\* What a step may do to the entries: nothing, add one, or hand the oldest to V8.
Rests == UNCHANGED <<session, channel, Pending>>

Posts(m) ==
  /\ Fits(session, m)
  /\ session' = After(m)
  /\ channel' = channel
  /\ Pending' = Append(Pending, m)

Hands ==
  /\ Pending # <<>>
  /\ session' = session
  /\ channel' = After(Head(Pending))
  /\ Pending' = Tail(Pending)

LEMMA PendingType ==
  ASSUME TypeInv
  PROVE  Pending \in Seq(InspectorAction)
  BY ConcatProperties DEF TypeInv, TypeOK, Pending

LEMMA PostStep ==
  ASSUME TypeInv, NEW m \in InspectorAction, PostIncomingMessage(m),
         Fits(session, m), session' = After(m)
  PROVE  Posts(m)
<1>1. /\ dispatch_queue' = dispatch_queue /\ channel' = channel
      /\ incoming' = Append(incoming, m)
  BY DEF PostIncomingMessage, mainVars
<1>2. Pending' = Append(Pending, m)
  BY <1>1, AppendToSecond DEF Pending, TypeInv, TypeOK
<1>3. QED
  BY <1>1, <1>2 DEF Posts

LEMMA IoThreadOrder ==
  ASSUME TypeInv, IoThread
  PROVE  Rests \/ \E m \in InspectorAction : Posts(m)
<1> USE DEF IoAt, serverVars, platformVars, mainVars, loopVars
<1>1. CASE ThreadMain \/ ScheduleDispatch \/ NotifyMessageReceived \/ IoThreadAsyncCb
           \/ ServerDone
  <2>1. UNCHANGED <<session, channel, dispatch_queue, incoming>>
    BY <1>1 DEF ThreadMain, ScheduleDispatch, NotifyMessageReceived, IoThreadAsyncCb,
                ServerDone
  <2>2. QED
    BY <2>1 DEF Rests, Pending
<1>2. CASE StartSession
  <2> DEFINE m == Message("kStartSession", next_session_id, "none")
  <2>1. next_session_id \in Sessions
    BY <1>2, InspectorAssumption DEF StartSession, TypeInv, TypeOK, Sessions
  <2>2. m \in InspectorAction
    BY <2>1, MessageType
  <2>3. Fits(session, m) /\ session' = After(m)
    BY <1>2 DEF StartSession, Declined, Fits, After, Message
  <2>4. PostIncomingMessage(m)
    BY <1>2 DEF StartSession
  <2>5. QED
    BY <2>2, <2>3, <2>4, PostStep
<1>3. CASE EndSession
  <2> DEFINE m == Message("kEndSession", session, "none")
  <2>1. m \in InspectorAction
    BY <1>3, MessageType DEF EndSession, TypeInv, TypeOK
  <2>2. Fits(session, m) /\ session' = After(m)
    BY <1>3 DEF EndSession, Fits, After, Message
  <2>3. PostIncomingMessage(m)
    BY <1>3 DEF EndSession
  <2>4. QED
    BY <2>1, <2>2, <2>3, PostStep
<1>4. CASE PostRunRequest
  <2> DEFINE m == Message("kSendMessage", session, "run")
  <2>1. m \in InspectorAction
    BY <1>4, MessageType DEF PostRunRequest, TypeInv, TypeOK, StartupInv, Bodies
  <2>2. Fits(session, m) /\ session' = After(m)
    BY <1>4 DEF PostRunRequest, Fits, After, Message
  <2>3. PostIncomingMessage(m)
    BY <1>4 DEF PostRunRequest
  <2>4. QED
    BY <2>1, <2>2, <2>3, PostStep
<1>5. CASE \E body \in Bodies : MessageReceived(body)
  <2>1. PICK body \in Bodies : MessageReceived(body)
    BY <1>5
  <2>2. CASE ResumesStartup(body)
    BY <2>1, <2>2 DEF MessageReceived, Rests, Pending
  <2>3. CASE ~ResumesStartup(body)
    <3> DEFINE m == Message("kSendMessage", session, body)
    <3>1. m \in InspectorAction
      BY <2>1, MessageType DEF MessageReceived, TypeInv, TypeOK
    <3>2. Fits(session, m) /\ session' = After(m)
      BY <2>1 DEF MessageReceived, Fits, After, Message
    <3>3. PostIncomingMessage(m)
      BY <2>1, <2>3 DEF MessageReceived
    <3>4. QED
      BY <3>1, <3>2, <3>3, PostStep
  <2>4. QED
    BY <2>2, <2>3
<1>6. QED
  BY <1>1, <1>2, <1>3, <1>4, <1>5 DEF IoThread

\* The oldest entry is in the dispatching queue when a dispatch is about to hand
\* it over, and V8 serves the session that the entry needs.
LEMMA OldestEntry ==
  ASSUME TypeInv, OrderInv, dispatch_queue # <<>>
  PROVE  /\ Head(dispatch_queue) \in InspectorAction
         /\ Head(dispatch_queue).session # NoSession
         /\ Fits(channel, Head(dispatch_queue))
         /\ Pending # <<>>
         /\ Head(Pending) = Head(dispatch_queue)
         /\ dispatch_queue' = Tail(dispatch_queue) /\ UNCHANGED incoming
              => Pending' = Tail(Pending)
<1>1. /\ Pending \in Seq(InspectorAction) /\ Pending # <<>>
      /\ Head(Pending) = Head(dispatch_queue)
      /\ Tail(Pending) = Tail(dispatch_queue) \o incoming
  BY HeadOfFirst DEF Pending, TypeInv, TypeOK
<1>2. Fits(channel, Head(dispatch_queue))
  BY <1>1, LeadsTail DEF OrderInv
<1>3. Head(dispatch_queue) \in InspectorAction /\ Head(dispatch_queue).session \in Sessions
  BY HeadType DEF TypeInv, TypeOK
<1>4. Head(dispatch_queue).session # NoSession
  BY <1>3, InspectorAssumption DEF Sessions
<1>5. dispatch_queue' = Tail(dispatch_queue) /\ UNCHANGED incoming => Pending' = Tail(Pending)
  BY <1>1 DEF Pending
<1>6. QED
  BY <1>1, <1>2, <1>3, <1>4, <1>5

\* The asserts on the delegate and the channel hold when an entry is dispatched.
LEMMA DeliverStep ==
  ASSUME TypeInv, OrderInv, DispatchStartSession \/ DispatchEndSession \/ DispatchSendMessage
  PROVE  Hands /\ UNCHANGED phase
<1>1. /\ dispatch_queue # <<>> /\ dispatch_queue' = Tail(dispatch_queue)
      /\ UNCHANGED <<session, incoming>>
  BY DEF DispatchStartSession, DispatchEndSession, DispatchSendMessage, NextTask,
         ioVars, serverVars
<1>2. /\ Head(dispatch_queue).session # NoSession
      /\ Fits(channel, Head(dispatch_queue))
      /\ Pending # <<>> /\ Head(Pending) = Head(dispatch_queue) /\ Pending' = Tail(Pending)
  BY <1>1, OldestEntry
<1>3. CASE DispatchStartSession
  <2>1. Head(dispatch_queue).action = "kStartSession"
    BY <1>3 DEF DispatchStartSession, NextTask
  <2>2. channel = NoSession
    BY <1>2, <2>1 DEF Fits
  <2>3. channel' = After(Head(dispatch_queue)) /\ UNCHANGED phase
    BY <1>3, <2>1, <2>2 DEF DispatchStartSession, After
  <2>4. QED
    BY <1>1, <1>2, <2>3 DEF Hands
<1>4. CASE DispatchEndSession
  <2>1. Head(dispatch_queue).action = "kEndSession"
    BY <1>4 DEF DispatchEndSession, NextTask
  <2>2. channel # NoSession
    BY <1>2, <2>1 DEF Fits
  <2>3. channel' = After(Head(dispatch_queue)) /\ UNCHANGED phase
    BY <1>4, <2>1, <2>2 DEF DispatchEndSession, After
  <2>4. QED
    BY <1>1, <1>2, <2>3 DEF Hands
<1>5. CASE DispatchSendMessage
  <2>1. Head(dispatch_queue).action = "kSendMessage"
    BY <1>5 DEF DispatchSendMessage, NextTask
  <2>2. channel = Head(dispatch_queue).session /\ channel # NoSession
    BY <1>2, <2>1 DEF Fits
  <2>3. channel' = After(Head(dispatch_queue)) /\ UNCHANGED phase
    BY <1>5, <2>1, <2>2 DEF DispatchSendMessage, After
  <2>4. QED
    BY <1>1, <1>2, <2>3 DEF Hands
<1>6. QED
  BY <1>3, <1>4, <1>5

LEMMA MainThreadOrder ==
  ASSUME TypeInv, OrderInv, MainThread \/ SpuriousWakeup
  PROVE  Rests \/ Hands
<1>1. CASE DispatchStartSession \/ DispatchEndSession \/ DispatchSendMessage
  BY <1>1, DeliverStep
<1>2. CASE TakeIncoming
  <2>1. /\ dispatch_queue = <<>> /\ dispatch_queue' = incoming /\ incoming' = <<>>
        /\ UNCHANGED <<session, channel>>
    BY <1>2 DEF TakeIncoming, ioVars, serverVars
  <2>2. Pending = incoming /\ Pending' = incoming
    BY <2>1, ConcatEmptySeq DEF Pending, TypeInv, TypeOK
  <2>3. QED
    BY <2>1, <2>2 DEF Rests
<1>3. CASE \/ SpuriousWakeup \/ Start \/ PauseOnNextJavascriptStatement \/ Stop \/ Joined
           \/ FatalException \/ WaitForDisconnectReturns \/ Finish \/ InterruptCallback
           \/ DispatchReturns \/ EvaluateReturns \/ PauseOnBreak
           \/ WaitForFrontendMessageWhilePaused \/ RunTask \/ PumpedOut \/ MessageLoopEnds
  <2>1. UNCHANGED <<session, channel, dispatch_queue, incoming>>
    BY <1>3 DEF SpuriousWakeup, Start, PauseOnNextJavascriptStatement, Stop, Joined,
                FatalException, WaitForDisconnectReturns, Finish, InterruptCallback,
                DispatchReturns, EvaluateReturns, PauseOnBreak,
                WaitForFrontendMessageWhilePaused, RunTask, PumpedOut, MessageLoopEnds,
                ioVars, serverVars, mainVars
  <2>2. QED
    BY <2>1 DEF Rests, Pending
<1>4. QED
  BY <1>1, <1>2, <1>3 DEF MainThread

LEMMA OrderSteps ==
  ASSUME TypeInv, OrderInv, [Next]_vars
  PROVE  Rests \/ Hands \/ \E m \in InspectorAction : Posts(m)
<1>1. CASE UNCHANGED vars
  BY <1>1 DEF vars, ioVars, serverVars, mainVars, Rests, Pending
<1>2. QED
  BY <1>1, IoThreadOrder, MainThreadOrder DEF Next

LEMMA OrderStep ==
  ASSUME TypeInv, OrderInv, [Next]_vars
  PROVE  OrderInv'
<1>1. Pending \in Seq(InspectorAction) /\ Leads(channel, Pending, session)
  BY PendingType DEF OrderInv
<1>2. CASE Rests
  BY <1>1, <1>2 DEF Rests, OrderInv
<1>3. CASE Hands
  BY <1>1, <1>3, LeadsTail DEF Hands, OrderInv
<1>4. CASE \E m \in InspectorAction : Posts(m)
  BY <1>1, <1>4, LeadsAppend DEF Posts, OrderInv
<1>5. QED
  BY <1>2, <1>3, <1>4, OrderSteps

LEMMA InitOrder == Init => OrderInv /\ Contract!ContractInit
<1>1. SUFFICES ASSUME Init PROVE OrderInv /\ Contract!ContractInit
  OBVIOUS
<1>2. Pending = <<>> /\ Len(<<>>) = 0
  BY <1>1, ConcatEmptySeq, EmptySeq DEF Init, Pending
<1>3. OrderInv
  BY <1>1, <1>2 DEF Init, OrderInv, Leads
<1>4. Contract!ContractInit
  BY <1>1, <1>2 DEF Init, Contract!ContractInit, Pending
<1>5. QED
  BY <1>3, <1>4

\* What the I/O thread posts is an action of the contract's frontend.
LEMMA PostRefines ==
  ASSUME TypeInv, NEW m \in InspectorAction, Posts(m)
  PROVE  Contract!ContractNext
<1>1. m.session \in Sessions /\ channel' = channel /\ Pending' = Append(Pending, m)
  BY DEF InspectorAction, Message, Posts
<1>2. CASE m.action = "kStartSession"
  <2>1. m = Contract!Event("kStartSession", m.session, "none")
    BY <1>2 DEF InspectorAction, Message, Contract!Event
  <2>2. Contract!Open(m.session)
    BY <1>1, <1>2, <2>1 DEF Posts, Fits, After, Pending, Contract!Open
  <2>3. QED
    BY <1>1, <2>2 DEF Contract!ContractNext
<1>3. CASE m.action = "kEndSession"
  <2>1. m = Contract!Event("kEndSession", m.session, "none")
    BY <1>3 DEF InspectorAction, Message, Contract!Event
  <2>2. Contract!Close(m.session)
    BY <1>1, <1>3, <2>1 DEF Posts, Fits, After, Pending, Contract!Close
  <2>3. QED
    BY <1>1, <2>2 DEF Contract!ContractNext
<1>4. CASE m.action = "kSendMessage"
  <2>1. m.body \in Bodies /\ m = Contract!Event("kSendMessage", m.session, m.body)
    BY <1>4 DEF InspectorAction, Message, Contract!Event
  <2>2. Contract!Send(m.session, m.body)
    BY <1>1, <1>4, <2>1 DEF Posts, Fits, After, Pending, Contract!Send
  <2>3. QED
    BY <1>1, <2>1, <2>2 DEF Contract!ContractNext
<1>5. QED
  BY <1>2, <1>3, <1>4 DEF InspectorAction, Message

\* What the main thread hands to V8 is the contract's oldest event.
LEMMA HandRefines ==
  ASSUME TypeInv, OrderInv, Hands
  PROVE  Contract!ContractNext
<1>1. Pending \in Seq(InspectorAction) /\ Pending # <<>> /\ Leads(channel, Pending, session)
  BY PendingType DEF OrderInv, Hands
<1>2. Fits(channel, Head(Pending)) /\ Head(Pending) \in InspectorAction
  BY <1>1, LeadsTail, HeadType
<1>3. Contract!Handle(Head(Pending))
  BY <1>2 DEF Hands, Fits, After, InspectorAction, Message, Contract!Handle, Contract!Attach
<1>4. Contract!Deliver
  BY <1>1, <1>3 DEF Hands, Pending, Contract!Deliver
<1>5. QED
  BY <1>4 DEF Contract!ContractNext

\* However the dispatches nest and the threads interleave, starts, messages and ends
\* of sessions reach V8 once, in the order of the frontends and in their session:
\* InspectorIo implements SessionContract.
THEOREM ServesInOrder == Spec => ServesSessionsInOrder
<1>1. Init => TypeInv /\ OrderInv
  BY InitTypeInv, InitOrder
<1>2. TypeInv /\ OrderInv /\ [Next]_vars => TypeInv' /\ OrderInv'
  BY TypeStep, OrderStep
<1>3. TypeInv /\ OrderInv /\ [Next]_vars => [Contract!ContractNext]_(Contract!contractVars)
  <2>1. SUFFICES ASSUME TypeInv, OrderInv, [Next]_vars
                 PROVE  [Contract!ContractNext]_(Contract!contractVars)
    OBVIOUS
  <2>2. Rests => UNCHANGED Contract!contractVars
    BY DEF Rests, Pending, Contract!contractVars
  <2>3. QED
    BY <2>1, <2>2, OrderSteps, PostRefines, HandRefines
<1>4. Init => Contract!ContractInit
  BY InitOrder
<1>5. QED
  BY <1>1, <1>2, <1>3, <1>4, PTL DEF Spec, ServesSessionsInOrder, Contract!ContractSpec

-------------------------------------------------------------------------------
(***************************************************************************)
(* Frames.  An evaluation runs inside a dispatch; there is one pause loop  *)
(* at most, while nested is set; swapped entries have a dispatcher; and    *)
(* dispatching_messages_ is clear whenever the main thread's base activity *)
(* or the pump of the pause loop runs.                                     *)
(***************************************************************************)
Kind(i) == stack[i].kind
InLoop(i) == Kind(i) \in {"check", "pump"}

FrameInv ==
  /\ \A i \in 1 .. Len(stack) : Kind(i) = "evaluate" => i > 1 /\ Kind(i - 1) = "dispatch"
  /\ \A i, j \in 1 .. Len(stack) : InLoop(i) /\ InLoop(j) => i = j
  /\ \A i \in 1 .. Len(stack) : InLoop(i) => nested # "none"
  /\ dispatch_queue # <<>> => \E i \in 1 .. Len(stack) : Kind(i) = "dispatch"

FlagInv ==
  /\ stack = <<>> => ~dispatching
  /\ stack # <<>> /\ Top.kind = "pump" => ~dispatching
  /\ stack # <<>> /\ Top.kind = "check" /\ terminated => ~dispatching

(***************************************************************************)
(* States.  A pause loop that goes on has a channel.                       *)
(***************************************************************************)
StateInv ==
  /\ io = "boot" => phase = "starting"
  /\ phase = "starting" => stack = <<>> /\ state \in {"kNew", "kError"}
  /\ phase \in {"started", "script", "joining"} => state \in {"kAccepting", "kConnected"}
  /\ state = "kConnected" => channel # NoSession
  /\ nested # "none" /\ ~terminated => channel # NoSession
  /\ AssertionsHold

(***************************************************************************)
(* Dispatches to come.  Entries in the incoming queue have a task, unless  *)
(* that task has just been turned into a dispatch which will find them; and*)
(* an interrupt, unless one has been turned into a dispatch or the main    *)
(* thread pumps.                                                           *)
(***************************************************************************)
TaskDispatches ==
  /\ dispatching
  /\ \/ Len(stack) = 1 /\ Kind(1) = "dispatch" /\ dispatch_queue = <<>>
     \/ \E i, j \in 1 .. Len(stack) : i < j /\ Kind(i) = "pump" /\ Kind(j) = "dispatch"

MayReachJs == IF stack = <<>> THEN phase \in {"started", "script"} ELSE Top.kind # "pump"

ComeBackInv ==
  incoming # <<>> /\ io # "schedule" =>
    /\ tasks > 0 \/ TaskDispatches
    /\ ~dispatching /\ MayReachJs => interrupts > 0

(***************************************************************************)
(* Start and Stop.  The server cannot have ended a session, or itself,     *)
(* before the program asks for it; the first and the last dispatch are the *)
(* lowest frame until they have found nothing more.                        *)
(***************************************************************************)
ServerInv ==
  /\ io \in {"boot", "ended"} => session = NoSession
  /\ session # NoSession \/ ~waiting => next_session_id > 0
  /\ phase = "starting" => outgoing = {} /\ ~stopped /\ (io = "ended" => state = "kError")
  /\ phase = "started" => next_session_id > 0

BottomInv ==
  /\ phase \in {"started", "stopping"} /\ stack # <<>> => Kind(1) = "dispatch"
  /\ phase = "started" /\ stack = <<>> /\ session = 0 => channel = 0
  /\ phase = "stopping" => io = "ended" /\ (stack = <<>> => incoming = <<>>)
  /\ phase = "done" /\ io = "ended" => stack = <<>> /\ incoming = <<>>

-------------------------------------------------------------------------------
(* The frames after a call, a return, and a turn of the pause loop. *)

LEMMA Depth ==
  ASSUME stack \in Seq(Frames)
  PROVE  /\ Len(stack) \in Nat
         /\ stack = <<>> <=> Len(stack) = 0
         /\ stack # <<>> => Len(stack) \in 1 .. Len(stack) /\ Top.kind = Kind(Len(stack))
<1>1. Len(stack) \in Nat /\ (stack = <<>> => Len(stack) = 0)
      /\ (stack # <<>> => Len(stack) \in Nat \ {0})
  BY EmptySeq, LenProperties
<1>2. QED
  BY <1>1 DEF Top, Kind

LEMMA Pushed ==
  ASSUME stack \in Seq(Frames), NEW f \in Frames, stack' = Append(stack, f)
  PROVE  /\ Len(stack') = Len(stack) + 1 /\ stack' # <<>> /\ Top' = f
         /\ \A i \in 1 .. Len(stack) : Kind(i)' = Kind(i)
         /\ \A i \in 1 .. Len(stack') :
              i \in 1 .. Len(stack) \/ (i = Len(stack) + 1 /\ Kind(i)' = f.kind)
<1>1. /\ Len(stack') = Len(stack) + 1 /\ stack' # <<>>
      /\ \A i \in 1 .. Len(stack) : stack'[i] = stack[i]
      /\ stack'[Len(stack) + 1] = f
  BY AppendProperties
<1>2. Top' = f /\ \A i \in 1 .. Len(stack) : Kind(i)' = Kind(i)
  BY <1>1 DEF Top, Kind
<1>3. ASSUME NEW i \in 1 .. Len(stack')
      PROVE  i \in 1 .. Len(stack) \/ (i = Len(stack) + 1 /\ Kind(i)' = f.kind)
  <2>1. i \in 1 .. Len(stack) \/ i = Len(stack) + 1
    BY <1>1, LenProperties
  <2>2. QED
    BY <1>1, <2>1 DEF Kind
<1>4. QED
  BY <1>1, <1>2, <1>3

LEMMA Popped ==
  ASSUME stack \in Seq(Frames), stack # <<>>, stack' = Caller
  PROVE  /\ Len(stack') = Len(stack) - 1
         /\ stack' = <<>> <=> Len(stack) = 1
         /\ Len(stack) # 1 => Top'.kind = Kind(Len(stack) - 1)
         /\ \A i \in 1 .. Len(stack) - 1 : Kind(i)' = Kind(i)
<1>1. /\ stack' \in Seq(Frames) /\ Len(stack') = Len(stack) - 1
      /\ \A i \in 1 .. Len(stack) - 1 : stack'[i] = stack[i]
  BY FrontProperties DEF Caller
<1>2. Len(stack) \in Nat \ {0}
  BY Depth
<1>3. stack' = <<>> <=> Len(stack') = 0
  BY <1>1, EmptySeq, LenProperties
<1>4. ASSUME NEW n \in Nat \ {0}, n # 1
      PROVE  n - 1 \in 1 .. n - 1
  BY <1>4
<1>5. Len(stack) # 1 => Top'.kind = Kind(Len(stack) - 1)
  BY <1>1, <1>2, <1>4 DEF Top, Kind
<1>6. QED
  BY <1>1, <1>2, <1>3, <1>5 DEF Kind

LEMMA Replaced ==
  ASSUME stack \in Seq(Frames), stack # <<>>, NEW f \in Frames, stack' = Append(Caller, f)
  PROVE  /\ Len(stack') = Len(stack) /\ stack' # <<>>
         /\ Top' = f /\ Kind(Len(stack))' = f.kind
         /\ \A i \in 1 .. Len(stack) - 1 : Kind(i)' = Kind(i)
<1>1. /\ Caller \in Seq(Frames) /\ Len(Caller) = Len(stack) - 1
      /\ \A i \in 1 .. Len(stack) - 1 : Caller[i] = stack[i]
  BY FrontProperties DEF Caller
<1>2. Len(stack) \in Nat \ {0}
  BY Depth
<1>3. /\ Len(stack') = Len(Caller) + 1 /\ stack' # <<>>
      /\ \A i \in 1 .. Len(Caller) : stack'[i] = Caller[i]
      /\ stack'[Len(Caller) + 1] = f
  BY <1>1, AppendProperties
<1>4. Len(Caller) + 1 = Len(stack)
  BY <1>1, <1>2
<1>5. QED
  BY <1>1, <1>3, <1>4 DEF Top, Kind

\* No entries are added to the dispatching queue.
Shrinks == dispatch_queue' # <<>> => dispatch_queue # <<>>

LEMMA FramesStay ==
  ASSUME TypeInv, FrameInv, UNCHANGED <<stack, nested>>,
         Shrinks \/ (stack # <<>> /\ Top.kind = "dispatch")
  PROVE  FrameInv'
<1>1. stack # <<>> => Len(stack) \in 1 .. Len(stack) /\ Top.kind = Kind(Len(stack))
  BY Depth DEF TypeInv, TypeOK
<1>2. dispatch_queue' # <<>> => \E i \in 1 .. Len(stack) : Kind(i) = "dispatch"
  BY <1>1 DEF FrameInv, Shrinks
<1>3. QED
  BY <1>2 DEF FrameInv, Kind, InLoop

LEMMA FramesPushed ==
  ASSUME TypeInv, FrameInv, Shrinks, NEW f \in Frames, stack' = Append(stack, f),
         f.kind = "evaluate" => stack # <<>> /\ Top.kind = "dispatch",
         f.kind \in {"check", "pump"} => nested = "none" /\ nested' # "none",
         nested # "none" => nested' # "none"
  PROVE  FrameInv'
<1>1. /\ Len(stack) \in Nat
      /\ stack # <<>> => Len(stack) \in 1 .. Len(stack) /\ Top.kind = Kind(Len(stack))
  BY Depth DEF TypeInv, TypeOK
<1>2. /\ Len(stack') = Len(stack) + 1
      /\ \A i \in 1 .. Len(stack) : Kind(i)' = Kind(i)
      /\ \A i \in 1 .. Len(stack') :
           i \in 1 .. Len(stack) \/ (i = Len(stack) + 1 /\ Kind(i)' = f.kind)
  BY Pushed DEF TypeInv, TypeOK
<1>3. ASSUME NEW i \in 1 .. Len(stack'), Kind(i)' = "evaluate"
      PROVE  i > 1 /\ Kind(i - 1)' = "dispatch"
  <2>1. CASE i \in 1 .. Len(stack)
    <3>1. i > 1 /\ Kind(i - 1) = "dispatch"
      BY <1>2, <1>3, <2>1 DEF FrameInv
    <3>2. i - 1 \in 1 .. Len(stack)
      BY <1>1, <2>1, <3>1
    <3>3. QED
      BY <1>2, <3>1, <3>2
  <2>2. CASE i = Len(stack) + 1 /\ Kind(i)' = f.kind
    <3>1. Len(stack) \in 1 .. Len(stack) /\ Kind(Len(stack)) = "dispatch"
      BY <1>1, <1>3, <2>2
    <3>2. i > 1 /\ i - 1 = Len(stack)
      BY <1>1, <2>2, <3>1
    <3>3. QED
      BY <1>2, <3>1, <3>2
  <2>3. QED
    BY <1>2, <2>1, <2>2
<1>4. \A i, j \in 1 .. Len(stack') : InLoop(i)' /\ InLoop(j)' => i = j
  <2>1. \A i \in 1 .. Len(stack) : InLoop(i)' => InLoop(i) /\ nested # "none"
    BY <1>2 DEF FrameInv, InLoop
  <2>2. \A i \in 1 .. Len(stack') :
          i \in 1 .. Len(stack) \/ (i = Len(stack) + 1 /\ (InLoop(i)' => nested = "none"))
    BY <1>2 DEF InLoop
  <2>3. \A i, j \in 1 .. Len(stack) : InLoop(i)' /\ InLoop(j)' => i = j
    BY <2>1 DEF FrameInv
  <2>4. TAKE i, j \in 1 .. Len(stack')
  <2>5. HAVE InLoop(i)' /\ InLoop(j)'
  <2>6. QED
    BY <2>1, <2>2, <2>3, <2>5
<1>5. \A i \in 1 .. Len(stack') : InLoop(i)' => nested' # "none"
  <2>1. TAKE i \in 1 .. Len(stack')
  <2>2. CASE i \in 1 .. Len(stack)
    BY <1>2, <2>2 DEF FrameInv, InLoop
  <2>3. CASE i = Len(stack) + 1 /\ Kind(i)' = f.kind
    BY <2>3 DEF InLoop
  <2>4. QED
    BY <1>2, <2>2, <2>3
<1>6. dispatch_queue' # <<>> => \E i \in 1 .. Len(stack') : Kind(i)' = "dispatch"
  <2>1. \A i \in 1 .. Len(stack) : i \in 1 .. Len(stack')
    BY <1>1, <1>2
  <2>2. QED
    BY <1>2, <2>1 DEF FrameInv, Shrinks
<1>7. QED
  BY <1>3, <1>4, <1>5, <1>6 DEF FrameInv

LEMMA FramesPopped ==
  ASSUME TypeInv, FrameInv, stack # <<>>, stack' = Caller, Shrinks,
         Top.kind = "dispatch" => dispatch_queue' = <<>>,
         Top.kind \in {"check", "pump"} \/ UNCHANGED nested
  PROVE  FrameInv'
<1>1. /\ Len(stack) \in Nat
      /\ Len(stack) \in 1 .. Len(stack) /\ Top.kind = Kind(Len(stack))
  BY Depth DEF TypeInv, TypeOK
<1>2. /\ Len(stack') = Len(stack) - 1
      /\ \A i \in 1 .. Len(stack) - 1 : Kind(i)' = Kind(i)
  BY Popped DEF TypeInv, TypeOK
<1>3. \A i \in 1 .. Len(stack') :
        /\ i \in 1 .. Len(stack) /\ i # Len(stack) /\ Kind(i)' = Kind(i)
        /\ i > 1 => i - 1 \in 1 .. Len(stack) - 1
  BY <1>1, <1>2
<1>4. \A i \in 1 .. Len(stack') : Kind(i)' = "evaluate" => i > 1 /\ Kind(i - 1)' = "dispatch"
  BY <1>2, <1>3 DEF FrameInv
<1>5. \A i, j \in 1 .. Len(stack') : InLoop(i)' /\ InLoop(j)' => i = j
  BY <1>3 DEF FrameInv, InLoop
<1>6. \A i \in 1 .. Len(stack') : InLoop(i)' => nested' # "none"
  BY <1>1, <1>3 DEF FrameInv, InLoop
<1>7. dispatch_queue' # <<>> => \E i \in 1 .. Len(stack') : Kind(i)' = "dispatch"
  <2>1. ASSUME dispatch_queue' # <<>>
        PROVE  \E i \in 1 .. Len(stack') : Kind(i)' = "dispatch"
    <3>1. PICK i \in 1 .. Len(stack) : Kind(i) = "dispatch"
      BY <2>1 DEF FrameInv, Shrinks
    <3>2. i # Len(stack)
      BY <1>1, <2>1, <3>1
    <3>3. i \in 1 .. Len(stack')
      BY <1>1, <1>2, <3>2
    <3>4. QED
      BY <1>3, <3>1, <3>3
  <2>2. QED
    BY <2>1
<1>8. QED
  BY <1>4, <1>5, <1>6, <1>7 DEF FrameInv

LEMMA FramesReplaced ==
  ASSUME TypeInv, FrameInv, Shrinks, UNCHANGED nested, stack # <<>>,
         Top.kind \in {"check", "pump"},
         NEW f \in Frames, f.kind \in {"check", "pump"}, stack' = Append(Caller, f)
  PROVE  FrameInv'
<1>1. /\ Len(stack) \in Nat
      /\ Len(stack) \in 1 .. Len(stack) /\ Top.kind = Kind(Len(stack))
  BY Depth DEF TypeInv, TypeOK
<1>2. /\ Len(stack') = Len(stack) /\ Kind(Len(stack))' = f.kind
      /\ \A i \in 1 .. Len(stack) - 1 : Kind(i)' = Kind(i)
  BY Replaced DEF TypeInv, TypeOK
<1>3. \A i \in 1 .. Len(stack) :
        /\ i = Len(stack) \/ (i \in 1 .. Len(stack) - 1 /\ Kind(i)' = Kind(i))
        /\ i > 1 => i - 1 \in 1 .. Len(stack) - 1
  BY <1>1, <1>2
<1>4. \A i \in 1 .. Len(stack) : InLoop(i)' <=> InLoop(i)
  BY <1>1, <1>2, <1>3 DEF InLoop
<1>5. \A i \in 1 .. Len(stack) :
        /\ Kind(i)' = "evaluate" => Kind(i) = "evaluate"
        /\ Kind(i) = "dispatch" => Kind(i)' = "dispatch"
  BY <1>1, <1>2, <1>3
<1>6. \A i \in 1 .. Len(stack) : Kind(i)' = "evaluate" => i > 1 /\ Kind(i - 1)' = "dispatch"
  <2>1. TAKE i \in 1 .. Len(stack)
  <2>2. HAVE Kind(i)' = "evaluate"
  <2>3. i > 1 /\ Kind(i - 1) = "dispatch"
    BY <1>5, <2>2 DEF FrameInv
  <2>4. Kind(i - 1)' = Kind(i - 1)
    BY <1>2, <1>3, <2>3
  <2>5. QED
    BY <2>3, <2>4
<1>7. QED
  BY <1>2, <1>4, <1>5, <1>6 DEF FrameInv, Shrinks

LEMMA FramesCalled ==
  ASSUME TypeInv, FrameInv, DispatchMessages, UNCHANGED <<nested, dispatch_queue>>
  PROVE  FrameInv'
<1>1. CASE dispatching
  BY <1>1, FramesStay DEF DispatchMessages, Shrinks
<1>2. CASE ~dispatching
  <2>1. Frame("dispatch", NoSession) \in Frames /\ Frame("dispatch", NoSession).kind = "dispatch"
    BY FrameType DEF Frame
  <2>2. stack' = Append(stack, Frame("dispatch", NoSession)) /\ Shrinks
    BY <1>2 DEF DispatchMessages, Shrinks
  <2>3. QED
    BY <2>1, <2>2, FramesPushed
<1>3. QED
  BY <1>1, <1>2

LEMMA FramesPaused ==
  ASSUME TypeInv, FrameInv, NEW purpose \in {"pause", "disconnect"},
         RunMessageLoop(purpose), UNCHANGED dispatch_queue
  PROVE  FrameInv'
<1>1. CASE nested # "none"
  BY <1>1, FramesStay DEF RunMessageLoop, loopVars, Shrinks
<1>2. CASE nested = "none"
  <2>1. Frame("check", NoSession) \in Frames /\ Frame("check", NoSession).kind = "check"
    BY FrameType DEF Frame
  <2>2. stack' = Append(stack, Frame("check", NoSession)) /\ nested' # "none" /\ Shrinks
    BY <1>2 DEF RunMessageLoop, Shrinks
  <2>3. QED
    BY <1>2, <2>1, <2>2, FramesPushed
<1>3. QED
  BY <1>1, <1>2

\* The program and the I/O thread.
LEMMA ProgramFrames ==
  ASSUME TypeInv, FrameInv,
         \/ IoThread \/ SpuriousWakeup \/ UNCHANGED vars
         \/ Start \/ PauseOnNextJavascriptStatement \/ Stop \/ Joined
         \/ FatalException \/ WaitForDisconnectReturns \/ Finish
  PROVE  FrameInv'
<1> USE DEF mainVars, loopVars
<1>1. CASE IoThread
  <2>1. UNCHANGED <<stack, nested, dispatch_queue>>
    BY <1>1 DEF IoThread, ThreadMain, StartSession, EndSession, PostRunRequest,
                MessageReceived, ScheduleDispatch, NotifyMessageReceived, IoThreadAsyncCb,
                ServerDone, PostIncomingMessage
  <2>2. QED
    BY <2>1, FramesStay DEF Shrinks
<1>2. CASE SpuriousWakeup \/ UNCHANGED vars \/ PauseOnNextJavascriptStatement \/ Stop
           \/ WaitForDisconnectReturns \/ Finish
  <2>1. UNCHANGED <<stack, nested, dispatch_queue>>
    BY <1>2 DEF SpuriousWakeup, vars, PauseOnNextJavascriptStatement, Stop,
                WaitForDisconnectReturns, Finish
  <2>2. QED
    BY <2>1, FramesStay DEF Shrinks
<1>3. CASE Start
  <2>1. UNCHANGED <<nested, dispatch_queue>>
    BY <1>3 DEF Start
  <2>2. CASE state = "kError"
    BY <1>3, <2>1, <2>2, FramesStay DEF Start, Shrinks
  <2>3. CASE state # "kError"
    BY <1>3, <2>1, <2>3, FramesCalled DEF Start, FirstDispatch
  <2>4. QED
    BY <2>2, <2>3
<1>4. CASE Joined
  BY <1>4, FramesCalled DEF Joined, LastDispatch
<1>5. CASE FatalException
  <2>1. CASE state = "kConnected"
    BY <1>5, <2>1, FramesPaused DEF FatalException
  <2>2. CASE state # "kConnected"
    BY <1>5, <2>2, FramesStay DEF FatalException, Shrinks
  <2>3. QED
    BY <2>1, <2>2
<1>6. QED
  BY <1>1, <1>2, <1>3, <1>4, <1>5

\* DispatchMessages and the pause loop.
LEMMA LoopFrames ==
  ASSUME TypeInv, FrameInv,
         \/ InterruptCallback \/ TakeIncoming \/ DispatchReturns
         \/ DispatchStartSession \/ DispatchEndSession \/ DispatchSendMessage
         \/ EvaluateReturns \/ PauseOnBreak \/ WaitForFrontendMessageWhilePaused
         \/ RunTask \/ PumpedOut \/ MessageLoopEnds
  PROVE  FrameInv'
<1> USE DEF loopVars, On, Shrinks
<1>1. CASE InterruptCallback
  BY <1>1, FramesCalled DEF InterruptCallback
<1>2. CASE RunTask
  BY <1>2, FramesCalled DEF RunTask
<1>3. CASE TakeIncoming
  BY <1>3, FramesStay DEF TakeIncoming
<1>4. CASE DispatchReturns
  BY <1>4, FramesPopped DEF DispatchReturns, NothingToDispatch
<1>5. CASE DispatchStartSession \/ DispatchEndSession
  BY <1>5, FramesStay DEF DispatchStartSession, DispatchEndSession, NextTask, AssertionFails
<1>6. CASE DispatchSendMessage
  <2>1. stack # <<>> /\ Top.kind = "dispatch" /\ UNCHANGED nested /\ dispatch_queue # <<>>
    BY <1>6 DEF DispatchSendMessage, NextTask
  <2>2. stack' = stack \/ stack' = Append(stack, Frame("evaluate", channel))
    BY <1>6 DEF DispatchSendMessage, AssertionFails
  <2>3. CASE stack' = stack
    BY <2>1, <2>3, FramesStay
  <2>4. CASE stack' = Append(stack, Frame("evaluate", channel))
    <3>1. /\ Frame("evaluate", channel) \in Frames
          /\ Frame("evaluate", channel).kind = "evaluate"
      BY FrameType DEF Frame, TypeInv, TypeOK
    <3>2. QED
      BY <2>1, <2>4, <3>1, FramesPushed
  <2>5. QED
    BY <2>2, <2>3, <2>4
<1>7. CASE EvaluateReturns
  BY <1>7, FramesPopped DEF EvaluateReturns
<1>8. CASE PauseOnBreak
  BY <1>8, FramesPaused DEF PauseOnBreak
<1>9. CASE WaitForFrontendMessageWhilePaused
  <2>1. /\ stack # <<>> /\ Top.kind = "check" /\ UNCHANGED <<nested, dispatch_queue>>
        /\ stack' = stack \/ stack' = Append(Caller, Frame("pump", NoSession))
    BY <1>9 DEF WaitForFrontendMessageWhilePaused
  <2>2. Frame("pump", NoSession) \in Frames /\ Frame("pump", NoSession).kind = "pump"
    BY FrameType DEF Frame
  <2>3. QED
    BY <2>1, <2>2, FramesStay, FramesReplaced
<1>10. CASE PumpedOut
  <2>1. Frame("check", NoSession) \in Frames /\ Frame("check", NoSession).kind = "check"
    BY FrameType DEF Frame
  <2>2. QED
    BY <1>10, <2>1, FramesReplaced DEF PumpedOut
<1>11. CASE MessageLoopEnds
  BY <1>11, FramesPopped DEF MessageLoopEnds
<1>12. QED
  BY <1>1, <1>2, <1>3, <1>4, <1>5, <1>6, <1>7, <1>8, <1>9, <1>10, <1>11

LEMMA FrameStep ==
  ASSUME TypeInv, FrameInv, [Next]_vars
  PROVE  FrameInv'
  BY ProgramFrames, LoopFrames DEF Next, MainThread

-------------------------------------------------------------------------------
(* The flag dispatching_messages_. *)

LEMMA FlagCalled ==
  ASSUME TypeInv, FlagInv, DispatchMessages, UNCHANGED terminated
  PROVE  FlagInv'
<1>1. CASE dispatching
  <2>1. UNCHANGED <<stack, dispatching>>
    BY <1>1 DEF DispatchMessages, TypeInv, TypeOK
  <2>2. QED
    BY <2>1 DEF FlagInv, Top
<1>2. CASE ~dispatching
  <2>1. Frame("dispatch", NoSession) \in Frames /\ Frame("dispatch", NoSession).kind = "dispatch"
    BY FrameType DEF Frame
  <2>2. stack' = Append(stack, Frame("dispatch", NoSession))
    BY <1>2 DEF DispatchMessages
  <2>3. stack' # <<>> /\ Top'.kind = "dispatch"
    BY <2>1, <2>2, Pushed DEF TypeInv, TypeOK
  <2>4. QED
    BY <2>3 DEF FlagInv
<1>3. QED
  BY <1>1, <1>2

LEMMA FlagPaused ==
  ASSUME TypeInv, FlagInv, NEW purpose \in {"pause", "disconnect"},
         RunMessageLoop(purpose), UNCHANGED dispatching
  PROVE  FlagInv'
<1>1. CASE nested # "none"
  BY <1>1 DEF RunMessageLoop, loopVars, FlagInv, Top
<1>2. CASE nested = "none"
  <2>1. Frame("check", NoSession) \in Frames /\ Frame("check", NoSession).kind = "check"
    BY FrameType DEF Frame
  <2>2. stack' = Append(stack, Frame("check", NoSession)) /\ ~terminated'
    BY <1>2 DEF RunMessageLoop
  <2>3. stack' # <<>> /\ Top'.kind = "check"
    BY <2>1, <2>2, Pushed DEF TypeInv, TypeOK
  <2>4. QED
    BY <2>2, <2>3 DEF FlagInv
<1>3. QED
  BY <1>1, <1>2

\* The top frame does not change, and the flag is not set.
LEMMA FlagStays ==
  ASSUME FlagInv, UNCHANGED <<stack, dispatching>>,
         UNCHANGED terminated \/ (stack # <<>> /\ Top.kind \notin {"check", "pump"})
  PROVE  FlagInv'
<1>1. Top' = Top
  BY DEF Top
<1>2. QED
  BY <1>1 DEF FlagInv

\* The program and the I/O thread.
LEMMA ProgramFlag ==
  ASSUME TypeInv, FlagInv,
         \/ IoThread \/ SpuriousWakeup \/ UNCHANGED vars
         \/ Start \/ PauseOnNextJavascriptStatement \/ Stop \/ Joined
         \/ FatalException \/ WaitForDisconnectReturns \/ Finish
  PROVE  FlagInv'
<1> USE DEF mainVars, loopVars
<1>1. CASE IoThread
  <2>1. UNCHANGED <<stack, dispatching, terminated>>
    BY <1>1 DEF IoThread, ThreadMain, StartSession, EndSession, PostRunRequest,
                MessageReceived, ScheduleDispatch, NotifyMessageReceived, IoThreadAsyncCb,
                ServerDone, PostIncomingMessage
  <2>2. QED
    BY <2>1, FlagStays
<1>2. CASE SpuriousWakeup \/ UNCHANGED vars \/ PauseOnNextJavascriptStatement \/ Stop
           \/ WaitForDisconnectReturns \/ Finish
  <2>1. UNCHANGED <<stack, dispatching, terminated>>
    BY <1>2 DEF SpuriousWakeup, vars, PauseOnNextJavascriptStatement, Stop,
                WaitForDisconnectReturns, Finish
  <2>2. QED
    BY <2>1, FlagStays
<1>3. CASE Start
  <2>1. UNCHANGED terminated
    BY <1>3 DEF Start
  <2>2. CASE state = "kError"
    BY <1>3, <2>1, <2>2, FlagStays DEF Start
  <2>3. CASE state # "kError"
    BY <1>3, <2>1, <2>3, FlagCalled DEF Start, FirstDispatch
  <2>4. QED
    BY <2>2, <2>3
<1>4. CASE Joined
  BY <1>4, FlagCalled DEF Joined, LastDispatch
<1>5. CASE FatalException
  <2>1. CASE state = "kConnected"
    BY <1>5, <2>1, FlagPaused DEF FatalException
  <2>2. CASE state # "kConnected"
    BY <1>5, <2>2, FlagStays DEF FatalException
  <2>3. QED
    BY <2>1, <2>2
<1>6. QED
  BY <1>1, <1>2, <1>3, <1>4, <1>5

\* DispatchMessages and the pause loop.
LEMMA LoopFlag ==
  ASSUME TypeInv, FrameInv, FlagInv,
         \/ InterruptCallback \/ TakeIncoming \/ DispatchReturns
         \/ DispatchStartSession \/ DispatchEndSession \/ DispatchSendMessage
         \/ EvaluateReturns \/ PauseOnBreak \/ WaitForFrontendMessageWhilePaused
         \/ RunTask \/ PumpedOut \/ MessageLoopEnds
  PROVE  FlagInv'
<1> USE DEF loopVars, On
<1>1. CASE InterruptCallback
  BY <1>1, FlagCalled DEF InterruptCallback
<1>2. CASE RunTask
  BY <1>2, FlagCalled DEF RunTask
<1>3. CASE TakeIncoming
  BY <1>3, FlagStays DEF TakeIncoming
<1>4. CASE DispatchReturns
  BY <1>4 DEF DispatchReturns, FlagInv
<1>5. CASE DispatchStartSession \/ DispatchEndSession
  BY <1>5, FlagStays DEF DispatchStartSession, DispatchEndSession, NextTask, AssertionFails
<1>6. CASE DispatchSendMessage
  <2>1. stack # <<>> /\ Top.kind = "dispatch" /\ UNCHANGED dispatching
    BY <1>6 DEF DispatchSendMessage, NextTask
  <2>2. stack' = stack \/ stack' = Append(stack, Frame("evaluate", channel))
    BY <1>6 DEF DispatchSendMessage, AssertionFails
  <2>3. CASE stack' = stack
    BY <2>1, <2>3, FlagStays
  <2>4. CASE stack' = Append(stack, Frame("evaluate", channel))
    <3>1. /\ Frame("evaluate", channel) \in Frames
          /\ Frame("evaluate", channel).kind = "evaluate"
      BY FrameType DEF Frame, TypeInv, TypeOK
    <3>2. stack' # <<>> /\ Top'.kind = "evaluate"
      BY <2>4, <3>1, Pushed DEF TypeInv, TypeOK
    <3>3. QED
      BY <3>2 DEF FlagInv
  <2>5. QED
    BY <2>2, <2>3, <2>4
<1>7. CASE EvaluateReturns
  <2>1. stack # <<>> /\ Top.kind = "evaluate" /\ stack' = Caller
    BY <1>7 DEF EvaluateReturns
  <2>2. Len(stack) \in 1 .. Len(stack) /\ Kind(Len(stack)) = "evaluate"
    BY <2>1, Depth DEF TypeInv, TypeOK
  <2>3. Len(stack) > 1 /\ Kind(Len(stack) - 1) = "dispatch"
    BY <2>2 DEF FrameInv
  <2>4. stack' # <<>> /\ Top'.kind = "dispatch"
    BY <2>1, <2>3, Popped DEF TypeInv, TypeOK
  <2>5. QED
    BY <2>4 DEF FlagInv
<1>8. CASE PauseOnBreak
  BY <1>8, FlagPaused DEF PauseOnBreak
<1>9. CASE WaitForFrontendMessageWhilePaused
  <2>1. CASE channel = NoSession
    BY <1>9, <2>1, FlagStays DEF WaitForFrontendMessageWhilePaused
  <2>2. CASE channel # NoSession
    BY <1>9, <2>2 DEF WaitForFrontendMessageWhilePaused, FlagInv
  <2>3. QED
    BY <2>1, <2>2
<1>10. CASE PumpedOut
  BY <1>10 DEF PumpedOut, FlagInv
<1>11. CASE MessageLoopEnds
  BY <1>11 DEF MessageLoopEnds, FlagInv
<1>12. QED
  BY <1>1, <1>2, <1>3, <1>4, <1>5, <1>6, <1>7, <1>8, <1>9, <1>10, <1>11

LEMMA FlagStep ==
  ASSUME TypeInv, FrameInv, FlagInv, [Next]_vars
  PROVE  FlagInv'
  BY ProgramFlag, LoopFlag DEF Next, MainThread

-------------------------------------------------------------------------------
(* The states of the agent. *)

\* A pause loop that waits has a channel to wait with.
LEMMA WaitHasChannel ==
  ASSUME TypeInv, FrameInv, StateInv, On("check"), ~terminated
  PROVE  channel # NoSession
<1>1. Len(stack) \in 1 .. Len(stack) /\ Kind(Len(stack)) = "check"
  BY Depth DEF On, TypeInv, TypeOK
<1>2. nested # "none"
  BY <1>1 DEF FrameInv, InLoop
<1>3. QED
  BY <1>2 DEF StateInv

LEMMA ProgramState ==
  ASSUME TypeInv, StateInv,
         \/ Start \/ PauseOnNextJavascriptStatement \/ Stop \/ Joined
         \/ FatalException \/ WaitForDisconnectReturns \/ Finish
  PROVE  StateInv'
<1> USE DEF ioVars, loopVars, Base, StateInv, AssertionsHold
<1>1. CASE Start
  <2>1. io # "boot"
    BY <1>1 DEF Start, TypeInv, StartupInv
  <2>2. QED
    BY <1>1, <2>1 DEF Start
<1>2. CASE PauseOnNextJavascriptStatement
  BY <1>2 DEF PauseOnNextJavascriptStatement
<1>3. CASE Stop
  BY <1>3 DEF Stop
<1>4. CASE Joined
  BY <1>4 DEF Joined
<1>5. CASE FatalException
  <2>1. CASE state = "kConnected"
    <3>1. /\ channel # NoSession /\ channel' = channel /\ io' = io
          /\ phase = "script" /\ phase' = "waiting" /\ state' = "kShutDown"
      BY <1>5, <2>1 DEF FatalException
    <3>2. QED
      BY <3>1
  <2>2. CASE state # "kConnected"
    BY <1>5, <2>2 DEF FatalException
  <2>3. QED
    BY <2>1, <2>2
<1>6. CASE WaitForDisconnectReturns
  BY <1>6 DEF WaitForDisconnectReturns
<1>7. CASE Finish
  BY <1>7 DEF Finish
<1>8. QED
  BY <1>1, <1>2, <1>3, <1>4, <1>5, <1>6, <1>7

LEMMA IoThreadState ==
  ASSUME TypeInv, StateInv, IoThread
  PROVE  StateInv'
<1> USE DEF mainVars, loopVars, StateInv, AssertionsHold, IoAt
<1>1. CASE ThreadMain
  BY <1>1 DEF ThreadMain
<1>2. CASE IoThread /\ ~ThreadMain
  <2>1. io' # "boot" /\ UNCHANGED mainVars
    BY <1>2 DEF IoThread, StartSession, EndSession, PostRunRequest, MessageReceived,
                ScheduleDispatch, NotifyMessageReceived, IoThreadAsyncCb, ServerDone,
                PostIncomingMessage
  <2>2. QED
    BY <2>1
<1>3. QED
  BY <1>1, <1>2

LEMMA DeliverState ==
  ASSUME TypeInv, OrderInv, StateInv,
         DispatchStartSession \/ DispatchEndSession \/ DispatchSendMessage
  PROVE  StateInv'
<1> USE DEF StateInv, AssertionsHold
<1>1. Hands /\ UNCHANGED phase
  BY DeliverStep
<1>2. /\ stack # <<>> /\ phase # "crashed" /\ UNCHANGED <<io, nested>>
      /\ Head(dispatch_queue).session # NoSession
  <2>1. dispatch_queue # <<>> /\ stack # <<>> /\ phase # "crashed" /\ UNCHANGED <<io, nested>>
    BY DEF DispatchStartSession, DispatchEndSession, DispatchSendMessage, NextTask, On,
           Alive, ioVars
  <2>2. QED
    BY <2>1, OldestEntry
<1>3. phase # "starting"
  BY <1>2
<1>4. CASE DispatchStartSession
  BY <1>1, <1>2, <1>3, <1>4 DEF DispatchStartSession, AssertionFails
<1>5. CASE DispatchEndSession
  BY <1>1, <1>2, <1>3, <1>5 DEF DispatchEndSession, AssertionFails
<1>6. CASE DispatchSendMessage
  <2>1. UNCHANGED <<state, channel>> /\ (terminated => terminated')
    BY <1>1, <1>2, <1>6 DEF DispatchSendMessage, AssertionFails
  <2>2. QED
    BY <1>1, <1>2, <1>3, <2>1
<1>7. QED
  BY <1>4, <1>5, <1>6

LEMMA LoopState ==
  ASSUME TypeInv, FrameInv, StateInv,
         \/ InterruptCallback \/ TakeIncoming \/ DispatchReturns \/ EvaluateReturns
         \/ PauseOnBreak \/ WaitForFrontendMessageWhilePaused
         \/ RunTask \/ PumpedOut \/ MessageLoopEnds
  PROVE  StateInv'
<1> USE DEF loopVars, ioVars, StateInv, AssertionsHold
<1>1. stack # <<>> \/ phase \in {"script", "pumping"}
  BY DEF InterruptCallback, TakeIncoming, DispatchReturns, EvaluateReturns,
         PauseOnBreak, WaitForFrontendMessageWhilePaused, RunTask, PumpedOut,
         MessageLoopEnds, JsRuns, Pumping, On, Base
<1>2. phase # "starting"
  BY <1>1
<1>3. UNCHANGED <<io, state, channel>>
  BY DEF InterruptCallback, TakeIncoming, DispatchReturns, EvaluateReturns,
         PauseOnBreak, WaitForFrontendMessageWhilePaused, RunTask, PumpedOut,
         MessageLoopEnds
<1>4. UNCHANGED phase
  <2>1. CASE WaitForFrontendMessageWhilePaused
    <3>1. channel # NoSession
      BY <2>1, WaitHasChannel DEF WaitForFrontendMessageWhilePaused
    <3>2. QED
      BY <2>1, <3>1 DEF WaitForFrontendMessageWhilePaused
  <2>2. QED
    BY <2>1 DEF InterruptCallback, TakeIncoming, DispatchReturns, EvaluateReturns,
                PauseOnBreak, RunTask, PumpedOut, MessageLoopEnds
<1>5. nested' # "none" /\ ~terminated' => channel # NoSession
  <2>1. CASE PauseOnBreak
    BY <2>1 DEF PauseOnBreak
  <2>2. CASE MessageLoopEnds
    BY <2>2 DEF MessageLoopEnds
  <2>3. QED
    BY <2>1, <2>2 DEF InterruptCallback, TakeIncoming, DispatchReturns, EvaluateReturns,
                WaitForFrontendMessageWhilePaused, RunTask, PumpedOut
<1>6. QED
  BY <1>2, <1>3, <1>4, <1>5

LEMMA StateStep ==
  ASSUME TypeInv, OrderInv, FrameInv, StateInv, [Next]_vars
  PROVE  StateInv'
<1>1. CASE SpuriousWakeup \/ UNCHANGED vars
  BY <1>1 DEF SpuriousWakeup, vars, ioVars, mainVars, loopVars, StateInv, AssertionsHold
<1>2. QED
  BY <1>1, ProgramState, IoThreadState, DeliverState, LoopState DEF Next, MainThread

-------------------------------------------------------------------------------
(* Dispatches to come. *)

\* Nothing that matters to a coming dispatch has changed.
LEMMA ComeBackStays ==
  ASSUME ComeBackInv,
         UNCHANGED <<incoming, tasks, interrupts, stack, dispatching, dispatch_queue>>,
         io' # "schedule" => io # "schedule",
         MayReachJs' => MayReachJs
  PROVE  ComeBackInv'
<1>1. TaskDispatches => TaskDispatches'
  BY DEF TaskDispatches, Kind
<1>2. QED
  BY <1>1 DEF ComeBackInv

LEMMA PostComesBack ==
  ASSUME TypeInv, ComeBackInv, NEW m \in InspectorAction, PostIncomingMessage(m),
         io # "schedule"
  PROVE  ComeBackInv'
<1> USE DEF mainVars, loopVars, platformVars
<1>1. CASE incoming = <<>>
  BY <1>1 DEF PostIncomingMessage, TriggersPumping, ComeBackInv
<1>2. CASE incoming # <<>>
  <2>1. UNCHANGED <<tasks, interrupts, phase, stack, dispatching, dispatch_queue>>
    BY DEF PostIncomingMessage
  <2>2. (TaskDispatches => TaskDispatches') /\ (MayReachJs' => MayReachJs)
    BY <2>1 DEF TaskDispatches, Kind, MayReachJs, Top
  <2>3. QED
    BY <1>2, <2>1, <2>2 DEF ComeBackInv
<1>3. QED
  BY <1>1, <1>2

LEMMA IoThreadComesBack ==
  ASSUME TypeInv, ComeBackInv, IoThread
  PROVE  ComeBackInv'
<1> USE DEF mainVars, loopVars, platformVars, IoAt
<1>1. CASE ThreadMain \/ NotifyMessageReceived \/ IoThreadAsyncCb \/ ServerDone
  <2>1. /\ UNCHANGED <<incoming, tasks, interrupts, phase, stack, dispatching, dispatch_queue>>
        /\ io # "schedule"
    BY <1>1 DEF ThreadMain, NotifyMessageReceived, IoThreadAsyncCb, ServerDone
  <2>2. MayReachJs' => MayReachJs
    BY <2>1 DEF MayReachJs, Top
  <2>3. QED
    BY <2>1, <2>2, ComeBackStays
<1>2. CASE ScheduleDispatch
  <2>1. tasks' > 0 /\ interrupts' > 0
    BY <1>2 DEF ScheduleDispatch, TypeInv, TypeOK
  <2>2. QED
    BY <2>1 DEF ComeBackInv
<1>3. CASE StartSession
  <2>1. next_session_id \in Sessions
    BY <1>3, InspectorAssumption DEF StartSession, TypeInv, TypeOK, Sessions
  <2>2. QED
    BY <1>3, <2>1, MessageType, PostComesBack DEF StartSession
<1>4. CASE EndSession
  BY <1>4, MessageType, PostComesBack DEF EndSession, TypeInv, TypeOK
<1>5. CASE PostRunRequest
  BY <1>5, MessageType, PostComesBack DEF PostRunRequest, TypeInv, TypeOK, StartupInv, Bodies
<1>6. CASE \E body \in Bodies : MessageReceived(body)
  <2>1. PICK body \in Bodies : MessageReceived(body)
    BY <1>6
  <2>2. CASE ResumesStartup(body)
    <3>1. /\ UNCHANGED <<incoming, tasks, interrupts, phase, stack, dispatching,
                         dispatch_queue>>
          /\ io # "schedule"
      BY <2>1, <2>2 DEF MessageReceived
    <3>2. MayReachJs' => MayReachJs
      BY <3>1 DEF MayReachJs, Top
    <3>3. QED
      BY <3>1, <3>2, ComeBackStays
  <2>3. CASE ~ResumesStartup(body)
    BY <2>1, <2>3, MessageType, PostComesBack DEF MessageReceived, TypeInv, TypeOK
  <2>4. QED
    BY <2>2, <2>3
<1>7. QED
  BY <1>1, <1>2, <1>3, <1>4, <1>5, <1>6 DEF IoThread

\* A dispatch that no task has been used for.
LEMMA CallComesBack ==
  ASSUME TypeInv, ComeBackInv, DispatchMessages,
         UNCHANGED <<io, incoming, tasks, dispatch_queue>>
  PROVE  ComeBackInv'
<1>1. dispatching'
  BY DEF DispatchMessages
<1>2. TaskDispatches => TaskDispatches'
  <2>1. TaskDispatches => UNCHANGED stack
    BY DEF DispatchMessages, TaskDispatches
  <2>2. QED
    BY <1>1, <2>1 DEF TaskDispatches, Kind
<1>3. QED
  BY <1>1, <1>2 DEF ComeBackInv

\* A frame on top of the stack does not hide the dispatch of a task.
LEMMA TaskDispatchesPushed ==
  ASSUME TypeInv, NEW f \in Frames, stack' = Append(stack, f), UNCHANGED dispatching,
         TaskDispatches, ~(Len(stack) = 1 /\ Kind(1) = "dispatch" /\ dispatch_queue = <<>>)
  PROVE  TaskDispatches'
<1>1. PICK i, j \in 1 .. Len(stack) : i < j /\ Kind(i) = "pump" /\ Kind(j) = "dispatch"
  BY DEF TaskDispatches
<1>2. /\ Len(stack') = Len(stack) + 1
      /\ \A k \in 1 .. Len(stack) : Kind(k)' = Kind(k)
  BY Pushed DEF TypeInv, TypeOK
<1>3. i \in 1 .. Len(stack') /\ j \in 1 .. Len(stack') /\ Len(stack) \in Nat
  BY <1>2, Depth DEF TypeInv, TypeOK
<1>4. Kind(i)' = "pump" /\ Kind(j)' = "dispatch"
  BY <1>1, <1>2
<1>5. dispatching'
  BY DEF TaskDispatches
<1>6. QED
  BY <1>1, <1>3, <1>4, <1>5 DEF TaskDispatches

LEMMA ProgramComesBack ==
  ASSUME TypeInv, FlagInv, ComeBackInv,
         \/ SpuriousWakeup \/ UNCHANGED vars
         \/ Start \/ PauseOnNextJavascriptStatement \/ Stop \/ Joined
         \/ FatalException \/ WaitForDisconnectReturns \/ Finish
  PROVE  ComeBackInv'
<1> USE DEF ioVars, mainVars, platformVars, loopVars, Base
<1>1. CASE SpuriousWakeup \/ UNCHANGED vars
  <2>1. UNCHANGED <<io, incoming, tasks, interrupts, phase, stack, dispatching, dispatch_queue>>
    BY <1>1 DEF SpuriousWakeup, vars
  <2>2. MayReachJs' => MayReachJs
    BY <2>1 DEF MayReachJs, Top
  <2>3. QED
    BY <2>1, <2>2, ComeBackStays
<1>2. CASE PauseOnNextJavascriptStatement \/ Stop \/ WaitForDisconnectReturns \/ Finish
  <2>1. UNCHANGED <<io, incoming, tasks, interrupts, stack, dispatching, dispatch_queue>>
    BY <1>2 DEF PauseOnNextJavascriptStatement, Stop, WaitForDisconnectReturns, Finish
  <2>2. MayReachJs' => MayReachJs
    BY <1>2, <2>1 DEF PauseOnNextJavascriptStatement, Stop, WaitForDisconnectReturns,
                      Finish, MayReachJs
  <2>3. QED
    BY <2>1, <2>2, ComeBackStays
<1>3. CASE Start
  <2>1. CASE state = "kError"
    <3>1. UNCHANGED <<io, incoming, tasks, interrupts, stack, dispatching, dispatch_queue>>
      BY <1>3, <2>1 DEF Start
    <3>2. ~MayReachJs'
      BY <1>3, <2>1 DEF Start, MayReachJs
    <3>3. QED
      BY <3>1, <3>2, ComeBackStays
  <2>2. CASE state # "kError"
    BY <1>3, <2>2, CallComesBack DEF Start, FirstDispatch
  <2>3. QED
    BY <2>1, <2>2
<1>4. CASE Joined
  BY <1>4, CallComesBack DEF Joined, LastDispatch
<1>5. CASE FatalException
  <2>1. /\ stack = <<>> /\ phase = "script"
        /\ UNCHANGED <<io, incoming, tasks, interrupts, dispatching, dispatch_queue>>
    BY <1>5 DEF FatalException
  <2>2. ~dispatching
    BY <2>1 DEF FlagInv
  <2>3. MayReachJs /\ ~TaskDispatches
    BY <2>1, <2>2 DEF MayReachJs, TaskDispatches
  <2>4. QED
    BY <2>1, <2>2, <2>3 DEF ComeBackInv
<1>6. QED
  BY <1>1, <1>2, <1>3, <1>4, <1>5

\* A task that runs becomes a dispatch: above the pump of the pause loop, or as the
\* only frame.
LEMMA TaskComesBack ==
  ASSUME TypeInv, FrameInv, FlagInv, RunTask
  PROVE  ComeBackInv'
<1>1. /\ stack = <<>> \/ (stack # <<>> /\ Top.kind = "pump")
      /\ DispatchMessages /\ UNCHANGED dispatch_queue
  BY DEF RunTask, Pumping, On, Base
<1>2. ~dispatching
  BY <1>1 DEF FlagInv
<1>3. stack' = Append(stack, Frame("dispatch", NoSession)) /\ dispatching'
  BY <1>1, <1>2 DEF DispatchMessages
<1>4. Frame("dispatch", NoSession) \in Frames /\ Frame("dispatch", NoSession).kind = "dispatch"
  BY FrameType DEF Frame
<1>5. /\ Len(stack') = Len(stack) + 1
      /\ \A i \in 1 .. Len(stack) : Kind(i)' = Kind(i)
      /\ \A i \in 1 .. Len(stack') :
           i \in 1 .. Len(stack) \/ (i = Len(stack) + 1 /\ Kind(i)' = "dispatch")
  BY <1>3, <1>4, Pushed DEF TypeInv, TypeOK
<1>6. /\ Len(stack) \in Nat /\ (stack = <<>> => Len(stack) = 0)
      /\ stack # <<>> => Len(stack) \in 1 .. Len(stack) /\ Top.kind = Kind(Len(stack))
  BY Depth DEF TypeInv, TypeOK
<1>7. TaskDispatches'
  <2>1. CASE stack = <<>>
    <3>1. Len(stack') = 1 /\ 1 \in 1 .. Len(stack') /\ 1 \notin 1 .. Len(stack)
      BY <1>5, <1>6, <2>1
    <3>2. Kind(1)' = "dispatch"
      BY <1>5, <3>1
    <3>3. dispatch_queue' = <<>>
      BY <1>1, <1>6, <2>1 DEF FrameInv
    <3>4. QED
      BY <1>3, <3>1, <3>2, <3>3 DEF TaskDispatches
  <2>2. CASE stack # <<>>
    <3> DEFINE n == Len(stack)
    <3>1. n \in 1 .. n /\ Kind(n) = "pump"
      BY <1>1, <1>6, <2>2
    <3>2. n \in Nat /\ Len(stack') = n + 1
      BY <1>5, <1>6
    <3>3. \E i, j \in 1 .. Len(stack') : i < j /\ Kind(i)' = "pump" /\ Kind(j)' = "dispatch"
      <4>1. PICK i \in Nat : i = n
        BY <3>2
      <4>2. i \in 1 .. Len(stack') /\ i + 1 \in 1 .. Len(stack') /\ i < i + 1
            /\ i + 1 \notin 1 .. Len(stack)
        BY <3>1, <3>2, <4>1
      <4>3. Kind(i) = "pump"
        BY <3>1, <4>1
      <4>4. Kind(i)' = "pump"
        BY <1>5, <3>1, <4>1, <4>3
      <4>5. Kind(i + 1)' = "dispatch"
        BY <1>5, <4>2
      <4>6. QED
        BY <4>2, <4>4, <4>5
    <3>4. QED
      BY <1>3, <3>3 DEF TaskDispatches
  <2>3. QED
    BY <2>1, <2>2
<1>8. QED
  BY <1>3, <1>7 DEF ComeBackInv

LEMMA DeliverComesBack ==
  ASSUME TypeInv, ComeBackInv,
         DispatchStartSession \/ DispatchEndSession \/ DispatchSendMessage
  PROVE  ComeBackInv'
<1>1. /\ stack # <<>> /\ Top.kind = "dispatch" /\ dispatch_queue # <<>>
      /\ UNCHANGED <<io, incoming, tasks, interrupts, dispatching>>
  BY DEF DispatchStartSession, DispatchEndSession, DispatchSendMessage, NextTask, On,
         ioVars, platformVars
<1>2. MayReachJs
  BY <1>1 DEF MayReachJs
<1>3. stack' = stack \/ stack' = Append(stack, Frame("evaluate", channel))
  BY DEF DispatchStartSession, DispatchEndSession, DispatchSendMessage, AssertionFails
<1>4. TaskDispatches => TaskDispatches'
  <2>1. CASE stack' = stack
    BY <1>1, <2>1 DEF TaskDispatches, Kind
  <2>2. CASE stack' = Append(stack, Frame("evaluate", channel))
    <3>1. Frame("evaluate", channel) \in Frames
      BY FrameType DEF TypeInv, TypeOK
    <3>2. QED
      BY <1>1, <2>2, <3>1, TaskDispatchesPushed
  <2>3. QED
    BY <1>3, <2>1, <2>2
<1>5. QED
  BY <1>1, <1>2, <1>4 DEF ComeBackInv

\* The dispatch of a task is not the top frame, and so no return hides it.
LEMMA TaskDispatchesPopped ==
  ASSUME TypeInv, stack # <<>>, Top.kind = "evaluate", stack' = Caller,
         UNCHANGED dispatching, TaskDispatches
  PROVE  TaskDispatches'
<1>1. Len(stack) \in Nat /\ Kind(Len(stack)) = "evaluate"
  BY Depth DEF TypeInv, TypeOK
<1>2. PICK i, j \in 1 .. Len(stack) : i < j /\ Kind(i) = "pump" /\ Kind(j) = "dispatch"
  BY <1>1 DEF TaskDispatches
<1>3. /\ Len(stack') = Len(stack) - 1
      /\ \A k \in 1 .. Len(stack) - 1 : Kind(k)' = Kind(k)
  BY Popped DEF TypeInv, TypeOK
<1>4. j # Len(stack)
  BY <1>1, <1>2
<1>5. i \in 1 .. Len(stack) - 1 /\ j \in 1 .. Len(stack) - 1
  BY <1>1, <1>2, <1>4
<1>6. Kind(i)' = "pump" /\ Kind(j)' = "dispatch"
  BY <1>2, <1>3, <1>5
<1>7. QED
  BY <1>2, <1>3, <1>5, <1>6 DEF TaskDispatches

\* When the pause loop is about to wait, no task has been used up.
LEMMA NoTaskDispatchBelow ==
  ASSUME TypeInv, FrameInv, stack # <<>>, Top.kind = "check"
  PROVE  ~TaskDispatches
<1>1. Len(stack) \in Nat /\ Len(stack) \in 1 .. Len(stack) /\ Kind(Len(stack)) = "check"
  BY Depth DEF TypeInv, TypeOK
<1>2. SUFFICES ASSUME NEW i \in 1 .. Len(stack), NEW j \in 1 .. Len(stack),
                      i < j, Kind(i) = "pump"
               PROVE  FALSE
  BY <1>1 DEF TaskDispatches
<1>3. i = Len(stack)
  BY <1>1, <1>2 DEF FrameInv, InLoop
<1>4. QED
  BY <1>1, <1>2, <1>3

LEMMA LoopComesBack ==
  ASSUME TypeInv, FrameInv, FlagInv, ComeBackInv,
         \/ InterruptCallback \/ TakeIncoming \/ DispatchReturns \/ EvaluateReturns
         \/ PauseOnBreak \/ WaitForFrontendMessageWhilePaused
         \/ RunTask \/ PumpedOut \/ MessageLoopEnds
  PROVE  ComeBackInv'
<1> USE DEF ioVars, loopVars, platformVars, On
<1>1. CASE InterruptCallback
  BY <1>1, CallComesBack DEF InterruptCallback
<1>2. CASE RunTask
  BY <1>2, TaskComesBack
<1>3. CASE TakeIncoming
  BY <1>3 DEF TakeIncoming, ComeBackInv
<1>4. CASE DispatchReturns
  BY <1>4 DEF DispatchReturns, NothingToDispatch, ComeBackInv
<1>5. CASE EvaluateReturns
  <2>1. /\ stack # <<>> /\ Top.kind = "evaluate" /\ stack' = Caller
        /\ UNCHANGED <<io, incoming, tasks, interrupts, dispatching, dispatch_queue>>
    BY <1>5 DEF EvaluateReturns
  <2>2. MayReachJs
    BY <2>1 DEF MayReachJs
  <2>3. TaskDispatches => TaskDispatches'
    BY <2>1, TaskDispatchesPopped
  <2>4. QED
    BY <2>1, <2>2, <2>3 DEF ComeBackInv
<1>6. CASE PauseOnBreak
  <2>1. /\ UNCHANGED <<io, incoming, tasks, interrupts, dispatching, dispatch_queue>>
        /\ stack' = stack \/ stack' = Append(stack, Frame("check", NoSession))
    BY <1>6 DEF PauseOnBreak, RunMessageLoop
  <2>2. (stack = <<>> /\ phase = "script") \/ (stack # <<>> /\ Top.kind = "evaluate")
    BY <1>6 DEF PauseOnBreak, JsRuns, Base
  <2>3. MayReachJs
    BY <2>2 DEF MayReachJs
  <2>4. TaskDispatches => TaskDispatches'
    <3>1. CASE stack' = stack
      BY <2>1, <3>1 DEF TaskDispatches, Kind
    <3>2. CASE stack' = Append(stack, Frame("check", NoSession))
      <4>1. Frame("check", NoSession) \in Frames
        BY FrameType
      <4>2. ~(Len(stack) = 1 /\ Kind(1) = "dispatch" /\ dispatch_queue = <<>>)
        <5>1. SUFFICES ASSUME Len(stack) = 1 PROVE Kind(1) # "dispatch"
          OBVIOUS
        <5>2. stack # <<>> /\ Top.kind = Kind(Len(stack))
          BY <5>1, Depth DEF TypeInv, TypeOK
        <5>3. QED
          BY <2>2, <5>1, <5>2
      <4>3. QED
        BY <2>1, <3>2, <4>1, <4>2, TaskDispatchesPushed
    <3>3. QED
      BY <2>1, <3>1, <3>2
  <2>5. QED
    BY <2>1, <2>3, <2>4 DEF ComeBackInv
<1>7. CASE WaitForFrontendMessageWhilePaused
  <2>1. /\ stack # <<>> /\ Top.kind = "check"
        /\ UNCHANGED <<io, incoming, tasks, interrupts, dispatch_queue>>
    BY <1>7 DEF WaitForFrontendMessageWhilePaused
  <2>2. ~TaskDispatches /\ MayReachJs
    BY <2>1, NoTaskDispatchBelow DEF MayReachJs
  <2>3. CASE channel = NoSession
    <3>1. UNCHANGED dispatching
      BY <1>7, <2>3 DEF WaitForFrontendMessageWhilePaused
    <3>2. QED
      BY <2>1, <2>2, <3>1 DEF ComeBackInv
  <2>4. CASE channel # NoSession
    <3>1. stack' = Append(Caller, Frame("pump", NoSession))
      BY <1>7, <2>4 DEF WaitForFrontendMessageWhilePaused
    <3>2. Frame("pump", NoSession) \in Frames /\ Frame("pump", NoSession).kind = "pump"
      BY FrameType DEF Frame
    <3>3. stack' # <<>> /\ Top'.kind = "pump"
      BY <2>1, <3>1, <3>2, Replaced DEF TypeInv, TypeOK
    <3>4. ~MayReachJs'
      BY <3>3 DEF MayReachJs
    <3>5. QED
      BY <2>1, <2>2, <3>4 DEF ComeBackInv
  <2>5. QED
    BY <2>3, <2>4
<1>8. CASE PumpedOut
  <2>1. /\ stack # <<>> /\ Top.kind = "pump" /\ tasks = 0
        /\ UNCHANGED <<io, incoming>>
    BY <1>8 DEF PumpedOut
  <2>2. ~TaskDispatches
    BY <2>1 DEF FlagInv, TaskDispatches
  <2>3. incoming = <<>> \/ io = "schedule"
    BY <2>1, <2>2 DEF ComeBackInv
  <2>4. QED
    BY <2>1, <2>3 DEF ComeBackInv
<1>9. CASE MessageLoopEnds
  <2>1. /\ stack # <<>> /\ Top.kind = "check" /\ terminated
        /\ UNCHANGED <<io, incoming, tasks, interrupts, dispatching>>
    BY <1>9 DEF MessageLoopEnds
  <2>2. ~dispatching /\ MayReachJs /\ ~TaskDispatches
    BY <2>1 DEF FlagInv, MayReachJs, TaskDispatches
  <2>3. QED
    BY <2>1, <2>2 DEF ComeBackInv
<1>10. QED
  BY <1>1, <1>2, <1>3, <1>4, <1>5, <1>6, <1>7, <1>8, <1>9

LEMMA ComeBackStep ==
  ASSUME TypeInv, FrameInv, FlagInv, ComeBackInv, [Next]_vars
  PROVE  ComeBackInv'
  BY IoThreadComesBack, ProgramComesBack, DeliverComesBack, LoopComesBack
     DEF Next, MainThread

-------------------------------------------------------------------------------
(* Start and Stop. *)

\* Only Start leaves the base activity "starting", and nothing enters it.
LEMMA MainThreadStarts ==
  ASSUME StateInv, MainThread
  PROVE  /\ phase' # "starting"
         /\ phase' = "started" => Start \/ phase = "started"
         /\ UNCHANGED ioVars
<1> USE DEF Base, ioVars
<1>1. CASE Start
  BY <1>1 DEF Start
<1>2. CASE \/ PauseOnNextJavascriptStatement \/ Stop \/ Joined \/ FatalException
           \/ WaitForDisconnectReturns \/ Finish
  BY <1>2 DEF PauseOnNextJavascriptStatement, Stop, Joined, FatalException,
              WaitForDisconnectReturns, Finish
<1>3. CASE \/ InterruptCallback \/ TakeIncoming \/ DispatchReturns
           \/ DispatchStartSession \/ DispatchEndSession \/ DispatchSendMessage
           \/ EvaluateReturns \/ PauseOnBreak \/ WaitForFrontendMessageWhilePaused
           \/ RunTask \/ PumpedOut \/ MessageLoopEnds
  <2>1. stack # <<>> \/ phase \in {"script", "pumping"}
    BY <1>3 DEF InterruptCallback, TakeIncoming, DispatchReturns, EvaluateReturns,
         DispatchStartSession, DispatchEndSession, DispatchSendMessage, NextTask,
         PauseOnBreak, WaitForFrontendMessageWhilePaused, RunTask, PumpedOut,
         MessageLoopEnds, JsRuns, Pumping, On
  <2>2. (UNCHANGED phase \/ phase' = "crashed") /\ UNCHANGED ioVars
    BY <1>3 DEF InterruptCallback, TakeIncoming, DispatchReturns, EvaluateReturns,
         DispatchStartSession, DispatchEndSession, DispatchSendMessage, NextTask,
         AssertionFails, PauseOnBreak, WaitForFrontendMessageWhilePaused, RunTask,
         PumpedOut, MessageLoopEnds
  <2>3. QED
    BY <2>1, <2>2 DEF StateInv
<1>4. QED
  BY <1>1, <1>2, <1>3 DEF MainThread

LEMMA ServerStep ==
  ASSUME TypeInv, StateInv, ServerInv, [Next]_vars
  PROVE  ServerInv'
<1> USE DEF ServerInv, ioVars, serverVars, mainVars, loopVars, IoAt
<1>1. CASE MainThread
  <2>1. /\ phase' # "starting"
        /\ phase' = "started" => Start \/ phase = "started"
        /\ UNCHANGED <<io, session, next_session_id, waiting>>
    BY <1>1, MainThreadStarts
  <2>2. ASSUME Start, phase' = "started"
        PROVE  next_session_id > 0
    <3>1. phase = "starting" /\ state # "kError" /\ sem > 0
      BY <2>2 DEF Start, Base
    <3>2. ~waiting
      BY <3>1 DEF TypeInv, TypeOK, StartupInv
    <3>3. QED
      BY <3>2
  <2>3. QED
    BY <2>1, <2>2
<1>2. CASE SpuriousWakeup \/ UNCHANGED vars
  BY <1>2 DEF SpuriousWakeup, vars
<1>3. CASE ThreadMain
  BY <1>3 DEF ThreadMain
<1>4. CASE StartSession
  <2>1. next_session_id' > 0
    BY <1>4 DEF StartSession, TypeInv, TypeOK
  <2>2. io' \notin {"boot", "ended"} /\ UNCHANGED <<outgoing, stopped, phase, state>>
    BY <1>4 DEF StartSession, PostIncomingMessage
  <2>3. QED
    BY <2>1, <2>2
<1>5. CASE EndSession \/ PostRunRequest
  BY <1>5 DEF EndSession, PostRunRequest, PostIncomingMessage
<1>6. CASE \E body \in Bodies : MessageReceived(body)
  <2>1. PICK body \in Bodies : MessageReceived(body)
    BY <1>6
  <2>2. /\ session # NoSession /\ io' \notin {"boot", "ended"}
        /\ UNCHANGED <<session, next_session_id, stopped, outgoing, phase, state>>
    BY <2>1 DEF MessageReceived, PostIncomingMessage
  <2>3. QED
    BY <2>2
<1>7. CASE ScheduleDispatch \/ NotifyMessageReceived
  BY <1>7 DEF ScheduleDispatch, NotifyMessageReceived
<1>8. CASE IoThreadAsyncCb
  BY <1>8 DEF IoThreadAsyncCb
<1>9. CASE ServerDone
  BY <1>9 DEF ServerDone
<1>10. QED
  BY <1>1, <1>2, <1>3, <1>4, <1>5, <1>6, <1>7, <1>8, <1>9 DEF Next, IoThread

LEMMA FirstBelow ==
  ASSUME NEW n \in Nat \ {0}, n # 1
  PROVE  1 \in 1 .. n - 1
  OBVIOUS

\* The lowest frame stays when frames above it come and go.
LEMMA BottomStays ==
  ASSUME TypeInv, stack # <<>>,
         \/ stack' = stack
         \/ \E f \in Frames : stack' = Append(stack, f)
         \/ Len(stack) # 1 /\ stack' = Caller
         \/ Len(stack) # 1 /\ \E f \in Frames : stack' = Append(Caller, f)
  PROVE  stack' # <<>> /\ Kind(1)' = Kind(1)
<1>1. stack \in Seq(Frames) /\ Len(stack) \in Nat \ {0} /\ 1 \in 1 .. Len(stack)
  <2>1. stack \in Seq(Frames)
    BY DEF TypeInv, TypeOK
  <2>2. Len(stack) \in Nat \ {0}
    BY <2>1, EmptySeq
  <2>3. QED
    BY <2>1, <2>2
<1>2. Len(stack) # 1 => 1 \in 1 .. Len(stack) - 1
  <2>1. Len(stack) \in Nat \ {0}
    BY <1>1
  <2>2. QED
    BY <2>1, FirstBelow
<1>3. CASE stack' = stack
  BY <1>3 DEF Kind
<1>4. CASE \E f \in Frames : stack' = Append(stack, f)
  BY <1>1, <1>4, Pushed
<1>5. CASE Len(stack) # 1 /\ stack' = Caller
  BY <1>1, <1>2, <1>5, Popped
<1>6. CASE Len(stack) # 1 /\ \E f \in Frames : stack' = Append(Caller, f)
  BY <1>1, <1>2, <1>6, Replaced
<1>7. QED
  BY <1>3, <1>4, <1>5, <1>6

LEMMA IoThreadBottom ==
  ASSUME TypeInv, ServerInv, BottomInv, IoThread
  PROVE  BottomInv'
<1> USE DEF serverVars, mainVars, loopVars, IoAt, Alive
<1>1. phase # "done" /\ UNCHANGED <<phase, stack, channel>>
  BY DEF IoThread, ThreadMain, StartSession, EndSession, PostRunRequest,
         MessageReceived, ScheduleDispatch, NotifyMessageReceived, IoThreadAsyncCb,
         ServerDone, PostIncomingMessage
<1>2. io # "ended"
  BY DEF IoThread, ThreadMain, StartSession, EndSession, PostRunRequest,
         MessageReceived, ScheduleDispatch, NotifyMessageReceived, IoThreadAsyncCb,
         ServerDone
<1>3. phase = "started" /\ session' = 0 => session = 0
  <2>1. CASE StartSession
    BY <2>1 DEF StartSession, ServerInv
  <2>2. CASE EndSession
    BY <2>2, InspectorAssumption DEF EndSession
  <2>3. QED
    BY <2>1, <2>2 DEF IoThread, ThreadMain, PostRunRequest, MessageReceived,
         ScheduleDispatch, NotifyMessageReceived, IoThreadAsyncCb, ServerDone
<1>4. QED
  BY <1>1, <1>2, <1>3 DEF BottomInv, Kind

LEMMA ProgramBottom ==
  ASSUME TypeInv, FlagInv, ComeBackInv, BottomInv,
         \/ SpuriousWakeup \/ UNCHANGED vars
         \/ Start \/ PauseOnNextJavascriptStatement \/ Stop \/ Joined
         \/ FatalException \/ WaitForDisconnectReturns \/ Finish
  PROVE  BottomInv'
<1> USE DEF ioVars, serverVars, mainVars, loopVars, Base
<1>1. ASSUME stack = <<>>, DispatchMessages
      PROVE  stack' # <<>> /\ Kind(1)' = "dispatch"
  <2>1. stack' = Append(stack, Frame("dispatch", NoSession))
    BY <1>1 DEF DispatchMessages, FlagInv
  <2>2. Frame("dispatch", NoSession) \in Frames /\ Frame("dispatch", NoSession).kind = "dispatch"
    BY FrameType DEF Frame
  <2>3. Len(stack) = 0 /\ stack \in Seq(Frames)
    BY <1>1, Depth DEF TypeInv, TypeOK
  <2>4. 1 \in 1 .. Len(stack') /\ 1 \notin 1 .. Len(stack) /\ stack' # <<>>
    BY <2>1, <2>2, <2>3, Pushed
  <2>5. QED
    BY <2>1, <2>2, <2>3, <2>4, Pushed
<1>2. CASE Start
  <2>1. CASE state = "kError"
    BY <1>2, <2>1 DEF Start, BottomInv
  <2>2. CASE state # "kError"
    <3>1. phase' = "started" /\ stack' # <<>> /\ Kind(1)' = "dispatch"
      BY <1>1, <1>2, <2>2 DEF Start, FirstDispatch
    <3>2. QED
      BY <3>1 DEF BottomInv
  <2>3. QED
    BY <2>1, <2>2
<1>3. CASE Joined
  <2>1. phase' = "stopping" /\ stack' # <<>> /\ Kind(1)' = "dispatch" /\ io' = "ended"
    BY <1>1, <1>3 DEF Joined, LastDispatch
  <2>2. QED
    BY <2>1 DEF BottomInv
<1>4. CASE Finish
  <2>1. stack' = <<>> /\ phase' = "done" /\ UNCHANGED <<io, incoming>>
    BY <1>4 DEF Finish
  <2>2. io = "ended" => incoming = <<>>
    <3>1. CASE phase = "stopping"
      BY <1>4, <3>1 DEF Finish, BottomInv
    <3>2. CASE phase # "stopping"
      <4>1. tasks = 0 /\ stack = <<>>
        BY <1>4, <3>2 DEF Finish
      <4>2. ~TaskDispatches
        BY <4>1 DEF FlagInv, TaskDispatches
      <4>3. QED
        BY <4>1, <4>2 DEF ComeBackInv
    <3>3. QED
      BY <3>1, <3>2
  <2>3. QED
    BY <2>1, <2>2 DEF BottomInv
<1>5. CASE PauseOnNextJavascriptStatement \/ Stop \/ FatalException \/ WaitForDisconnectReturns
  <2>1. phase' \notin {"started", "stopping", "done"}
    BY <1>5 DEF PauseOnNextJavascriptStatement, Stop, FatalException, WaitForDisconnectReturns
  <2>2. QED
    BY <2>1 DEF BottomInv
<1>6. CASE SpuriousWakeup \/ UNCHANGED vars
  BY <1>6 DEF SpuriousWakeup, vars, BottomInv, Kind
<1>7. QED
  BY <1>2, <1>3, <1>4, <1>5, <1>6

LEMMA LoopBottom ==
  ASSUME TypeInv, OrderInv, FrameInv, StateInv, BottomInv,
         \/ InterruptCallback \/ TakeIncoming \/ DispatchReturns
         \/ DispatchStartSession \/ DispatchEndSession \/ DispatchSendMessage
         \/ EvaluateReturns \/ PauseOnBreak \/ WaitForFrontendMessageWhilePaused
         \/ RunTask \/ PumpedOut \/ MessageLoopEnds
  PROVE  BottomInv'
<1> USE DEF ioVars, serverVars, loopVars, On, Base
<1>1. /\ Alive /\ UNCHANGED <<io, session>>
      /\ stack # <<>> \/ phase \in {"script", "pumping"}
  BY DEF InterruptCallback, TakeIncoming, DispatchReturns, EvaluateReturns,
         DispatchStartSession, DispatchEndSession, DispatchSendMessage, NextTask,
         PauseOnBreak, WaitForFrontendMessageWhilePaused, RunTask, PumpedOut,
         MessageLoopEnds, JsRuns, Pumping, Alive
<1>2. UNCHANGED phase \/ phase' = "crashed"
  BY DEF InterruptCallback, TakeIncoming, DispatchReturns, EvaluateReturns,
         DispatchStartSession, DispatchEndSession, DispatchSendMessage, NextTask,
         AssertionFails, PauseOnBreak, WaitForFrontendMessageWhilePaused, RunTask,
         PumpedOut, MessageLoopEnds
<1>3. SUFFICES ASSUME phase' = phase, phase \in {"started", "stopping"}
               PROVE  BottomInv'
  BY <1>1, <1>2 DEF BottomInv, Alive
<1>4. /\ stack # <<>> /\ Kind(1) = "dispatch" /\ stack \in Seq(Frames)
      /\ Len(stack) \in 1 .. Len(stack) /\ Top.kind = Kind(Len(stack))
  BY <1>1, <1>3, Depth DEF BottomInv, TypeInv, TypeOK
<1>5. stack' # <<>> /\ Kind(1)' = "dispatch" => BottomInv'
  BY <1>1, <1>3 DEF BottomInv
<1>6. CASE DispatchReturns
  <2>1. CASE Len(stack) # 1
    BY <1>4, <1>5, <1>6, <2>1, BottomStays DEF DispatchReturns
  <2>2. CASE Len(stack) = 1
    <3>1. incoming = <<>> /\ dispatch_queue = <<>> /\ UNCHANGED <<incoming, channel>>
      BY <1>6 DEF DispatchReturns, NothingToDispatch
    <3>2. stack' = <<>>
      BY <1>4, <1>6, <2>2, Popped DEF DispatchReturns
    <3>3. Pending = <<>>
      BY <3>1, ConcatEmptySeq DEF Pending, TypeInv, TypeOK
    <3>4. session = channel
      BY <3>3 DEF OrderInv, Leads
    <3>5. QED
      BY <1>1, <1>3, <3>1, <3>2, <3>4 DEF BottomInv
  <2>3. QED
    BY <2>1, <2>2
<1>7. CASE EvaluateReturns
  <2>1. Len(stack) # 1
    BY <1>4, <1>7 DEF EvaluateReturns
  <2>2. QED
    BY <1>4, <1>5, <1>7, <2>1, BottomStays DEF EvaluateReturns
<1>8. CASE WaitForFrontendMessageWhilePaused \/ PumpedOut \/ MessageLoopEnds
  <2>1. Len(stack) # 1
    BY <1>4, <1>8 DEF WaitForFrontendMessageWhilePaused, PumpedOut, MessageLoopEnds
  <2>2. \/ stack' = Caller \/ stack' = stack
        \/ stack' = Append(Caller, Frame("pump", NoSession))
        \/ stack' = Append(Caller, Frame("check", NoSession))
    BY <1>8 DEF WaitForFrontendMessageWhilePaused, PumpedOut, MessageLoopEnds
  <2>3. Frame("pump", NoSession) \in Frames /\ Frame("check", NoSession) \in Frames
    BY FrameType
  <2>4. QED
    BY <1>4, <1>5, <2>1, <2>2, <2>3, BottomStays
<1>9. CASE \/ InterruptCallback \/ RunTask \/ PauseOnBreak \/ TakeIncoming
           \/ DispatchStartSession \/ DispatchEndSession \/ DispatchSendMessage
  <2>1. \/ stack' = stack
        \/ stack' = Append(stack, Frame("dispatch", NoSession))
        \/ stack' = Append(stack, Frame("check", NoSession))
        \/ stack' = Append(stack, Frame("evaluate", channel))
    BY <1>9 DEF InterruptCallback, RunTask, PauseOnBreak, TakeIncoming, DispatchMessages,
         RunMessageLoop, DispatchStartSession, DispatchEndSession, DispatchSendMessage,
         AssertionFails
  <2>2. /\ Frame("dispatch", NoSession) \in Frames /\ Frame("check", NoSession) \in Frames
        /\ Frame("evaluate", channel) \in Frames
    BY FrameType DEF TypeInv, TypeOK
  <2>3. QED
    BY <1>4, <1>5, <2>1, <2>2, BottomStays
<1>10. QED
  BY <1>6, <1>7, <1>8, <1>9

LEMMA BottomStep ==
  ASSUME TypeInv, OrderInv, FrameInv, FlagInv, StateInv, ComeBackInv, ServerInv,
         BottomInv, [Next]_vars
  PROVE  BottomInv'
  BY IoThreadBottom, ProgramBottom, LoopBottom DEF Next, MainThread

-------------------------------------------------------------------------------
(***************************************************************************)
(* The inductive invariant, and what follows from it.                      *)
(***************************************************************************)
IInv ==
  /\ TypeInv
  /\ OrderInv
  /\ FrameInv
  /\ FlagInv
  /\ StateInv
  /\ ComeBackInv
  /\ ServerInv
  /\ BottomInv

LEMMA InitIInv == Init => IInv
<1>1. SUFFICES ASSUME Init PROVE IInv
  OBVIOUS
<1>2. stack = <<>> /\ dispatch_queue = <<>> /\ 1 .. Len(<<>>) = {} /\ incoming = <<>>
  BY <1>1 DEF Init
<1>3. TypeInv /\ OrderInv
  BY <1>1, InitTypeInv, InitOrder
<1>4. FrameInv /\ ComeBackInv
  BY <1>2 DEF FrameInv, ComeBackInv
<1>5. FlagInv /\ StateInv
  BY <1>1 DEF Init, FlagInv, StateInv, AssertionsHold
<1>6. ServerInv /\ BottomInv
  BY <1>1 DEF Init, ServerInv, BottomInv
<1>7. QED
  BY <1>3, <1>4, <1>5, <1>6 DEF IInv

\* The inductive invariant holds in every state.
THEOREM Invariance == Spec => []IInv
<1>1. IInv /\ [Next]_vars => IInv'
  BY TypeStep, OrderStep, FrameStep, FlagStep, StateStep, ComeBackStep, ServerStep,
     BottomStep DEF IInv
<1>2. QED
  BY <1>1, InitIInv, PTL DEF Spec

\* The asserts of the agent hold in every order of sessions, pauses and shutdown,
\* unless the server could not start.
THEOREM AssertsHold == Spec => []AssertionsHold
<1>1. IInv => AssertionsHold
  BY DEF IInv, StateInv
<1>2. QED
  BY <1>1, Invariance, PTL

\* Swapped entries belong to a dispatch that has not returned.
THEOREM SwappedHaveADispatcher == Spec => []SwappedEntriesHaveADispatcher
<1>1. IInv => SwappedEntriesHaveADispatcher
  <2>1. SUFFICES ASSUME IInv PROVE SwappedEntriesHaveADispatcher
    OBVIOUS
  <2>2. DOMAIN stack = 1 .. Len(stack)
    BY LenProperties DEF IInv, TypeInv, TypeOK
  <2>3. SUFFICES ASSUME dispatch_queue # <<>>
                 PROVE  \E i \in DOMAIN stack : stack[i].kind = "dispatch"
    BY DEF SwappedEntriesHaveADispatcher
  <2>4. PICK i \in 1 .. Len(stack) : Kind(i) = "dispatch"
    BY <2>1, <2>3 DEF IInv, FrameInv
  <2>5. i \in DOMAIN stack /\ stack[i].kind = "dispatch"
    BY <2>2, <2>4 DEF Kind
  <2>6. QED
    BY <2>5
<1>2. QED
  BY <1>1, Invariance, PTL

\* An entry in the incoming queue has a dispatch to come: a task, and while
\* JavaScript runs an interrupt too.
THEOREM DispatchComes == Spec => []NoLostDispatch
<1>1. IInv => NoLostDispatch
  <2>1. SUFFICES ASSUME IInv, incoming # <<>>, io # "schedule", ~dispatching
                 PROVE  tasks > 0 /\ (JsRuns => interrupts > 0)
    BY DEF NoLostDispatch
  <2>2. JsRuns => MayReachJs
    BY DEF JsRuns, MayReachJs, Base, On
  <2>3. ~TaskDispatches
    BY <2>1 DEF TaskDispatches
  <2>4. QED
    BY <2>1, <2>2, <2>3 DEF IInv, ComeBackInv
<1>2. QED
  BY <1>1, Invariance, PTL

\* The handler starts with the first frontend attached, unless that has left.
THEOREM StartAttaches == Spec => []StartAttachesTheFrontend
<1>1. IInv => StartAttachesTheFrontend
  BY DEF IInv, BottomInv, StartAttachesTheFrontend, Base
<1>2. QED
  BY <1>1, Invariance, PTL

\* Stop hands everything over before io_ is destroyed.
THEOREM StopEmpties == Spec => []StopLeavesNothing
<1>1. IInv => StopLeavesNothing
  <2>1. SUFFICES ASSUME IInv, phase = "done", io = "ended"
                 PROVE  channel = NoSession /\ incoming = <<>> /\ dispatch_queue = <<>>
    BY DEF StopLeavesNothing
  <2>2. stack = <<>> /\ incoming = <<>> /\ session = NoSession
    BY <2>1 DEF IInv, BottomInv, ServerInv
  <2>3. 1 .. Len(<<>>) = {}
    OBVIOUS
  <2>4. dispatch_queue = <<>>
    BY <2>1, <2>2, <2>3 DEF IInv, FrameInv
  <2>5. Pending = <<>>
    BY <2>1, <2>2, <2>4, ConcatEmptySeq DEF IInv, TypeInv, TypeOK, Pending
  <2>6. session = channel
    BY <2>1, <2>5 DEF IInv, OrderInv, Leads
  <2>7. QED
    BY <2>2, <2>4, <2>6
<1>2. QED
  BY <1>1, Invariance, PTL
===============================================================================
