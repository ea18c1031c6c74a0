---------------------- MODULE KernelCoordinatorProofs ----------------------
(***************************************************************************)
(* Proofs about KernelCoordinator, for any number of threads, any          *)
(* capacities and any bound on the number of calls.                        *)
(*                                                                         *)
(* TypeInv is the type invariant with what it needs to be inductive: the   *)
(* worker holds a message whenever it is not idle, and a thread that has   *)
(* reserved a sequence holds one that was handed out.                      *)
(***************************************************************************)
EXTENDS KernelCoordinator, TLAPS

WorkerHoldsMessage == worker # "idle" => envelope \in Message

TicketsHandedOut ==
  \A t \in Threads :
    pc[t] \in {"reserved", "sent", "waiting", "full", "disconnected"}
      => ticket[t] \in 1..(nextSequence - 1)

TypeInv == TypeOK /\ WorkerHoldsMessage /\ TicketsHandedOut

-----------------------------------------------------------------------------
\* The initial state is well typed.
LEMMA TypeInit == Init => TypeInv
<1> SUFFICES ASSUME Init PROVE TypeInv
  OBVIOUS
<1> USE CoordinatorAssumption DEF CoordinatorAssumption, Init
<1>0. shutdownStarted \in BOOLEAN /\ handleTaken \in BOOLEAN /\ workerExited \in BOOLEAN
  OBVIOUS
<1>1. SharedTypes
  <2>1. nextSequence \in 1..U64Max /\ joinOwner \in Threads \cup {NoThread}
    OBVIOUS
  <2> QED BY ONLY <1>0, <2>1, Zenon DEF SharedTypes
<1>2. MetricTypes
  <2>1. /\ submitted \in Nat /\ completed \in Nat /\ rejected \in Nat /\ published \in Nat
        /\ lastSequence \in 0..U64Max /\ pending \in Int /\ highWater \in Int
    OBVIOUS
  <2> QED BY ONLY <1>0, <2>1, Zenon DEF MetricTypes
<1>3. QueueTypes
  BY DEF QueueTypes
<1>4. ThreadTypes
  BY DEF ThreadTypes, ThreadSteps, Replies, Returns
<1>5. WorkerTypes
  BY DEF WorkerTypes, WorkerSteps, CommandAnswers
<1>6. HistoryTypes
  BY DEF HistoryTypes, Verdicts
<1>7. WorkerHoldsMessage /\ TicketsHandedOut
  BY DEF WorkerHoldsMessage, TicketsHandedOut
<1> QED BY <1>1, <1>2, <1>3, <1>4, <1>5, <1>6, <1>7 DEF TypeInv, TypeOK

\* Every step of execute and drain_events keeps the types.
LEMMA TypeExecute ==
  ASSUME TypeInv, NEW t \in Threads,
         \/ CheckShutdown(t) \/ Reserve(t) \/ TrySend(t) \/ CountSubmitted(t)
         \/ CountUnsent(t) \/ TakeReply(t) \/ CommandTimeout(t) \/ DrainEvents(t)
  PROVE  TypeOK'
<1> USE CoordinatorAssumption
        DEF TypeInv, TypeOK, threadVars, workerVars, joinVars, stateVars, history, metrics
<1>1. CASE CheckShutdown(t)
  <2> USE <1>1 DEF CheckShutdown
  <2>1. ThreadTypes'
    BY DEF ThreadTypes, ThreadSteps
  <2>2. SharedTypes' /\ MetricTypes' /\ QueueTypes' /\ WorkerTypes' /\ HistoryTypes'
    BY DEF SharedTypes, MetricTypes, QueueTypes, WorkerTypes, HistoryTypes
  <2> QED BY <2>1, <2>2 DEF TypeOK
<1>2. CASE Reserve(t)
  <2> USE <1>2 DEF Reserve
  <2>1. SharedTypes'
    BY DEF SharedTypes
  <2>2. MetricTypes'
    BY DEF MetricTypes
  <2>3. ThreadTypes'
    BY DEF ThreadTypes, ThreadSteps, SharedTypes
  <2>4. QueueTypes' /\ WorkerTypes' /\ HistoryTypes'
    BY DEF QueueTypes, WorkerTypes, HistoryTypes
  <2> QED BY <2>1, <2>2, <2>3, <2>4 DEF TypeOK
<1>3. CASE TrySend(t)
  <2> USE <1>3 DEF TrySend
  <2>1. QueueTypes'
    <3>1. [kind |-> "command", sequence |-> ticket[t], from |-> t] \in Message
      BY DEF TicketsHandedOut, Message, SharedTypes
    <3>2. channel \in Seq(Message) /\ Len(channel) \in Nat /\ Len(channel) <= CommandCapacity
      BY DEF QueueTypes
    <3> HIDE DEF TrySend
    <3>3. \/ channel' = channel
          \/ /\ Len(channel) < CommandCapacity
             /\ channel' = Append(channel, [kind |-> "command", sequence |-> ticket[t], from |-> t])
      BY DEF TrySend
    <3>4. channel' \in Seq(Message) /\ Len(channel') <= CommandCapacity
      BY ONLY <3>1, <3>2, <3>3, CoordinatorAssumption DEF CoordinatorAssumption
    <3>5. events' = events
      BY DEF TrySend
    <3> QED BY <3>4, <3>5 DEF QueueTypes
  <2>2. ThreadTypes'
    BY DEF ThreadTypes, ThreadSteps
  <2>3. SharedTypes' /\ MetricTypes' /\ WorkerTypes' /\ HistoryTypes'
    BY DEF SharedTypes, MetricTypes, WorkerTypes, HistoryTypes
  <2> QED BY <2>1, <2>2, <2>3 DEF TypeOK
<1>4. CASE CountSubmitted(t)
  <2> USE <1>4 DEF CountSubmitted
  <2>1. MetricTypes'
    BY DEF MetricTypes
  <2>2. ThreadTypes'
    BY DEF ThreadTypes, ThreadSteps
  <2>3. SharedTypes' /\ QueueTypes' /\ WorkerTypes' /\ HistoryTypes'
    BY DEF SharedTypes, QueueTypes, WorkerTypes, HistoryTypes
  <2> QED BY <2>1, <2>2, <2>3 DEF TypeOK
<1>5. CASE CountUnsent(t)
  <2> USE <1>5 DEF CountUnsent, ReturnCommand, Leave
  <2>1. MetricTypes'
    BY DEF MetricTypes
  <2>2. ThreadTypes'
    BY DEF ThreadTypes, ThreadSteps, Replies
  <2>3. HistoryTypes'
    BY DEF HistoryTypes, ThreadTypes, Replies, Verdicts
  <2>4. SharedTypes' /\ QueueTypes' /\ WorkerTypes'
    BY DEF SharedTypes, QueueTypes, WorkerTypes
  <2> QED BY <2>1, <2>2, <2>3, <2>4 DEF TypeOK
<1>6. CASE TakeReply(t)
  <2> USE <1>6 DEF TakeReply, ReturnCommand, Leave
  <2>1. ThreadTypes'
    BY DEF ThreadTypes, ThreadSteps, Replies
  <2>2. HistoryTypes'
    BY DEF HistoryTypes, ThreadTypes, Replies, Verdicts
  <2>3. SharedTypes' /\ MetricTypes' /\ QueueTypes' /\ WorkerTypes'
    BY DEF SharedTypes, MetricTypes, QueueTypes, WorkerTypes
  <2> QED BY <2>1, <2>2, <2>3 DEF TypeOK
<1>7. CASE CommandTimeout(t)
  <2> USE <1>7 DEF CommandTimeout, ReturnCommand, Leave
  <2>1. ThreadTypes'
    BY DEF ThreadTypes, ThreadSteps, Replies
  <2>2. HistoryTypes'
    BY DEF HistoryTypes, ThreadTypes, Replies, Verdicts
  <2>3. SharedTypes' /\ MetricTypes' /\ QueueTypes' /\ WorkerTypes'
    BY DEF SharedTypes, MetricTypes, QueueTypes, WorkerTypes
  <2> QED BY <2>1, <2>2, <2>3 DEF TypeOK
<1>8. CASE DrainEvents(t)
  <2> USE <1>8 DEF DrainEvents
  <2>1. QueueTypes'
    BY DEF QueueTypes
  <2>2. SharedTypes' /\ MetricTypes' /\ ThreadTypes' /\ WorkerTypes' /\ HistoryTypes'
    BY DEF SharedTypes, MetricTypes, ThreadTypes, WorkerTypes, HistoryTypes
  <2> QED BY <2>1, <2>2 DEF TypeOK
<1> QED BY <1>1, <1>2, <1>3, <1>4, <1>5, <1>6, <1>7, <1>8

\* Every step of shutdown and join_worker keeps the types.
LEMMA TypeShutdown ==
  ASSUME TypeInv, NEW t \in Threads,
         \/ BeginShutdown(t) \/ SendShutdown(t) \/ TakeShutdownReply(t)
         \/ ShutdownTimeout(t) \/ LockHandle(t) \/ FinishJoin(t)
  PROVE  TypeOK'
<1> USE CoordinatorAssumption
        DEF TypeInv, TypeOK, threadVars, workerVars, joinVars, stateVars, history, metrics
<1>1. CASE BeginShutdown(t)
  <2> USE <1>1 DEF BeginShutdown
  <2>1. SharedTypes'
    BY DEF SharedTypes
  <2>2. ThreadTypes'
    BY DEF ThreadTypes, ThreadSteps
  <2>3. MetricTypes' /\ QueueTypes' /\ WorkerTypes' /\ HistoryTypes'
    BY DEF MetricTypes, QueueTypes, WorkerTypes, HistoryTypes
  <2> QED BY <2>1, <2>2, <2>3 DEF TypeOK
<1>2. CASE SendShutdown(t)
  <2> USE <1>2 DEF SendShutdown
  <2>1. QueueTypes'
    BY DEF QueueTypes, Message
  <2>2. ThreadTypes'
    BY DEF ThreadTypes, ThreadSteps
  <2>3. SharedTypes' /\ MetricTypes' /\ WorkerTypes' /\ HistoryTypes'
    BY DEF SharedTypes, MetricTypes, WorkerTypes, HistoryTypes
  <2> QED BY <2>1, <2>2, <2>3 DEF TypeOK
<1>3. CASE TakeShutdownReply(t)
  <2> USE <1>3 DEF TakeShutdownReply, ReturnShutdown, Leave
  <2>1. ThreadTypes'
    BY DEF ThreadTypes, ThreadSteps, Replies, Returns, CommandAnswers
  <2>2. SharedTypes' /\ MetricTypes' /\ QueueTypes' /\ WorkerTypes' /\ HistoryTypes'
    BY DEF SharedTypes, MetricTypes, QueueTypes, WorkerTypes, HistoryTypes
  <2> QED BY <2>1, <2>2 DEF TypeOK
<1>4. CASE ShutdownTimeout(t)
  <2> USE <1>4 DEF ShutdownTimeout, ReturnShutdown, Leave
  <2>1. ThreadTypes'
    BY DEF ThreadTypes, ThreadSteps, Replies, Returns
  <2>2. SharedTypes' /\ MetricTypes' /\ QueueTypes' /\ WorkerTypes' /\ HistoryTypes'
    BY DEF SharedTypes, MetricTypes, QueueTypes, WorkerTypes, HistoryTypes
  <2> QED BY <2>1, <2>2 DEF TypeOK
<1>5. CASE LockHandle(t)
  <2> USE <1>5 DEF LockHandle, ReturnShutdown, Leave
  <2>1. SharedTypes'
    BY DEF SharedTypes
  <2>2. ThreadTypes'
    BY DEF ThreadTypes, ThreadSteps, Replies, Returns
  <2>3. MetricTypes' /\ QueueTypes' /\ WorkerTypes' /\ HistoryTypes'
    BY DEF MetricTypes, QueueTypes, WorkerTypes, HistoryTypes
  <2> QED BY <2>1, <2>2, <2>3 DEF TypeOK
<1>6. CASE FinishJoin(t)
  <2> USE <1>6 DEF FinishJoin, ReturnShutdown, Leave
  <2>1. SharedTypes'
    BY DEF SharedTypes
  <2>2. ThreadTypes'
    BY DEF ThreadTypes, ThreadSteps, Replies, Returns
  <2>3. MetricTypes' /\ QueueTypes' /\ WorkerTypes' /\ HistoryTypes'
    BY DEF MetricTypes, QueueTypes, WorkerTypes, HistoryTypes
  <2> QED BY <2>1, <2>2, <2>3 DEF TypeOK
<1> QED BY <1>1, <1>2, <1>3, <1>4, <1>5, <1>6

\* Every step of the worker keeps the types.
LEMMA TypeWorker ==
  ASSUME TypeInv, WorkerStep
  PROVE  TypeOK'
<1> USE CoordinatorAssumption
        DEF TypeInv, TypeOK, threadVars, workerVars, joinVars, stateVars, history, metrics
<1>1. CASE Receive
  <2> USE <1>1 DEF Receive
  <2>1. MetricTypes'
    BY DEF MetricTypes
  <2>2. QueueTypes'
    BY DEF QueueTypes
  <2>3. WorkerTypes'
    BY DEF WorkerTypes, WorkerSteps, CommandAnswers, QueueTypes
  <2>4. SharedTypes' /\ ThreadTypes' /\ HistoryTypes'
    BY DEF SharedTypes, ThreadTypes, HistoryTypes
  <2> QED BY <2>1, <2>2, <2>3, <2>4 DEF TypeOK
<1>2. CASE CheckEventSpace
  <2> USE <1>2 DEF CheckEventSpace
  <2>1. WorkerTypes'
    BY DEF WorkerTypes, WorkerSteps, CommandAnswers
  <2>2. SharedTypes' /\ MetricTypes' /\ QueueTypes' /\ ThreadTypes' /\ HistoryTypes'
    BY DEF SharedTypes, MetricTypes, QueueTypes, ThreadTypes, HistoryTypes
  <2> QED BY <2>1, <2>2 DEF TypeOK
<1>3. CASE Refuse
  <2> USE <1>3 DEF Refuse
  <2>1. WorkerTypes'
    BY DEF WorkerTypes, WorkerSteps, CommandAnswers
  <2>2. SharedTypes' /\ MetricTypes' /\ QueueTypes' /\ ThreadTypes' /\ HistoryTypes'
    BY DEF SharedTypes, MetricTypes, QueueTypes, ThreadTypes, HistoryTypes
  <2> QED BY <2>1, <2>2 DEF TypeOK
<1>4. CASE InstallAndFail
  <2> USE <1>4 DEF InstallAndFail
  <2>1. WorkerTypes'
    BY DEF WorkerTypes, WorkerSteps, CommandAnswers
  <2>2. HistoryTypes'
    BY DEF HistoryTypes
  <2>3. SharedTypes' /\ MetricTypes' /\ QueueTypes' /\ ThreadTypes'
    BY DEF SharedTypes, MetricTypes, QueueTypes, ThreadTypes
  <2> QED BY <2>1, <2>2, <2>3 DEF TypeOK
<1>5. CASE Commit
  <2> USE <1>5 DEF Commit
  <2>1. WorkerTypes'
    BY DEF WorkerTypes, WorkerSteps, CommandAnswers
  <2>2. HistoryTypes'
    BY DEF HistoryTypes
  <2>3. SharedTypes' /\ MetricTypes' /\ QueueTypes' /\ ThreadTypes'
    BY DEF SharedTypes, MetricTypes, QueueTypes, ThreadTypes
  <2> QED BY <2>1, <2>2, <2>3 DEF TypeOK
<1>6. CASE MarkShuttingDown
  <2> USE <1>6 DEF MarkShuttingDown
  <2>1. WorkerTypes'
    BY DEF WorkerTypes, WorkerSteps, CommandAnswers
  <2>2. SharedTypes' /\ MetricTypes' /\ QueueTypes' /\ ThreadTypes' /\ HistoryTypes'
    BY DEF SharedTypes, MetricTypes, QueueTypes, ThreadTypes, HistoryTypes
  <2> QED BY <2>1, <2>2 DEF TypeOK
<1>7. CASE PushEvent
  <2> USE <1>7 DEF PushEvent
  <2>1. MetricTypes'
    BY DEF MetricTypes
  <2>2. QueueTypes'
    <3>1. [sequence |-> envelope.sequence, revision |-> revision] \in Event
      BY DEF WorkerHoldsMessage, Message, WorkerTypes, Event
    <3> QED BY <3>1, SMTT(30) DEF QueueTypes
  <2>3. WorkerTypes'
    BY DEF WorkerTypes, WorkerSteps, CommandAnswers
  <2>4. HistoryTypes'
    BY DEF HistoryTypes
  <2>5. SharedTypes' /\ ThreadTypes'
    BY DEF SharedTypes, ThreadTypes
  <2> QED BY <2>1, <2>2, <2>3, <2>4, <2>5 DEF TypeOK
<1>8. CASE Answer
  <2> USE <1>8 DEF Answer, Deliver
  <2>1. MetricTypes'
    BY DEF MetricTypes, WorkerHoldsMessage, Message
  <2>2. ThreadTypes'
    BY DEF ThreadTypes, ThreadSteps, Replies, WorkerTypes, CommandAnswers
  <2>3. WorkerTypes'
    BY DEF WorkerTypes, WorkerSteps, CommandAnswers
  <2>4. SharedTypes' /\ QueueTypes' /\ HistoryTypes'
    BY DEF SharedTypes, QueueTypes, HistoryTypes
  <2> QED BY <2>1, <2>2, <2>3, <2>4 DEF TypeOK
<1>9. CASE AnswerShutdown
  <2> USE <1>9 DEF AnswerShutdown, Deliver
  <2>1. ThreadTypes'
    BY DEF ThreadTypes, ThreadSteps, Replies, WorkerTypes, CommandAnswers
  <2>2. WorkerTypes'
    BY DEF WorkerTypes, WorkerSteps, CommandAnswers
  <2>3. SharedTypes' /\ MetricTypes' /\ QueueTypes' /\ HistoryTypes'
    BY DEF SharedTypes, MetricTypes, QueueTypes, HistoryTypes
  <2> QED BY <2>1, <2>2, <2>3 DEF TypeOK
<1>10. CASE ReportExit
  <2> USE <1>10 DEF ReportExit
  <2>1. MetricTypes'
    BY DEF MetricTypes
  <2>2. WorkerTypes'
    BY DEF WorkerTypes, WorkerSteps, CommandAnswers
  <2>3. SharedTypes' /\ QueueTypes' /\ ThreadTypes' /\ HistoryTypes'
    BY DEF SharedTypes, QueueTypes, ThreadTypes, HistoryTypes
  <2> QED BY <2>1, <2>2, <2>3 DEF TypeOK
<1>11. CASE DropReceiver
  <2> USE <1>11 DEF DropReceiver
  <2>1. QueueTypes'
    BY DEF QueueTypes
  <2>2. ThreadTypes'
    BY DEF ThreadTypes, ThreadSteps, Replies
  <2>3. WorkerTypes'
    BY DEF WorkerTypes, WorkerSteps, CommandAnswers
  <2>4. SharedTypes' /\ MetricTypes' /\ HistoryTypes'
    BY DEF SharedTypes, MetricTypes, HistoryTypes
  <2> QED BY <2>1, <2>2, <2>3, <2>4 DEF TypeOK
<1> QED BY <1>1, <1>2, <1>3, <1>4, <1>5, <1>6, <1>7, <1>8, <1>9, <1>10, <1>11 DEF WorkerStep

-----------------------------------------------------------------------------
\* A worker that is not idle has received a message, which it keeps.
LEMMA HoldsNext == TypeInv /\ [Next]_vars => WorkerHoldsMessage'
<1> SUFFICES ASSUME TypeInv, [Next]_vars PROVE WorkerHoldsMessage'
  OBVIOUS
<1>1. CASE Receive
  BY <1>1 DEF Receive, WorkerHoldsMessage, TypeInv, TypeOK, QueueTypes
<1>2. CASE WorkerStep /\ ~Receive
  <2>1. worker # "idle" /\ UNCHANGED envelope
    BY <1>2 DEF WorkerStep, CheckEventSpace, Refuse, InstallAndFail, Commit, MarkShuttingDown,
       PushEvent, Answer, AnswerShutdown, ReportExit, DropReceiver
  <2> QED BY <2>1 DEF WorkerHoldsMessage, TypeInv
<1>3. CASE UNCHANGED <<worker, envelope>>
  BY <1>3 DEF WorkerHoldsMessage, TypeInv
<1>4. ASSUME NEW t \in Threads,
             \/ CallStep(t) \/ CheckShutdown(t) \/ BeginShutdown(t) \/ DrainEvents(t)
             \/ CommandTimeout(t) \/ ShutdownTimeout(t)
      PROVE  UNCHANGED <<worker, envelope>>
  BY <1>4 DEF CallStep, CheckShutdown, BeginShutdown, DrainEvents, CommandTimeout,
     ShutdownTimeout, Reserve, TrySend, CountSubmitted, CountUnsent, TakeReply, SendShutdown,
     TakeShutdownReply, LockHandle, FinishJoin, workerVars
<1> QED BY <1>1, <1>2, <1>3, <1>4 DEF Next, vars, workerVars

\* A sequence a thread holds was handed out, and stays so as the counter moves on.
LEMMA TicketsNext == TypeInv /\ [Next]_vars => TicketsHandedOut'
<1> SUFFICES ASSUME TypeInv, [Next]_vars PROVE TicketsHandedOut'
  OBVIOUS
<1> USE CoordinatorAssumption DEF TypeInv, TypeOK, SharedTypes, ThreadTypes, TicketsHandedOut
<1>1. CASE UNCHANGED <<pc, ticket, nextSequence>>
  BY <1>1
<1>2. CASE WorkerStep
  <2>1. UNCHANGED <<pc, ticket, nextSequence>>
    BY <1>2 DEF WorkerStep, Receive, CheckEventSpace, Refuse, InstallAndFail, Commit,
       MarkShuttingDown, PushEvent, Answer, AnswerShutdown, ReportExit, DropReceiver, threadVars
  <2> QED BY <2>1, <1>1
<1>3. ASSUME NEW t \in Threads, Reserve(t) PROVE TicketsHandedOut'
  BY <1>3 DEF Reserve
<1>4. ASSUME NEW t \in Threads, CheckShutdown(t) \/ TrySend(t) \/ CountSubmitted(t)
      PROVE  TicketsHandedOut'
  BY <1>4 DEF CheckShutdown, TrySend, CountSubmitted
<1>5. ASSUME NEW t \in Threads, CountUnsent(t) \/ TakeReply(t) \/ CommandTimeout(t)
      PROVE  TicketsHandedOut'
  BY <1>5 DEF CountUnsent, TakeReply, CommandTimeout, ReturnCommand, Leave
<1>6. ASSUME NEW t \in Threads, BeginShutdown(t) \/ SendShutdown(t) \/ TakeShutdownReply(t)
      PROVE  TicketsHandedOut'
  BY <1>6 DEF BeginShutdown, SendShutdown, TakeShutdownReply, ReturnShutdown, Leave
<1>7. ASSUME NEW t \in Threads, ShutdownTimeout(t) \/ LockHandle(t) \/ FinishJoin(t)
      PROVE  TicketsHandedOut'
  BY <1>7 DEF ShutdownTimeout, LockHandle, FinishJoin, ReturnShutdown, Leave
<1>8. ASSUME NEW t \in Threads, DrainEvents(t) PROVE TicketsHandedOut'
  BY <1>8 DEF DrainEvents, threadVars
<1> QED BY <1>1, <1>2, <1>3, <1>4, <1>5, <1>6, <1>7, <1>8 DEF Next, CallStep, vars, threadVars

LEMMA TypeNext == TypeInv /\ [Next]_vars => TypeInv'
<1> SUFFICES ASSUME TypeInv, [Next]_vars PROVE TypeOK'
  BY HoldsNext, TicketsNext DEF TypeInv
<1>1. CASE UNCHANGED vars
  <2> USE <1>1 DEF vars, joinVars, stateVars, threadVars, workerVars, history, metrics, TypeInv,
      TypeOK
  <2>1. SharedTypes' /\ MetricTypes' /\ QueueTypes'
    BY DEF SharedTypes, MetricTypes, QueueTypes
  <2>2. ThreadTypes' /\ WorkerTypes' /\ HistoryTypes'
    BY DEF ThreadTypes, WorkerTypes, HistoryTypes
  <2> QED BY <2>1, <2>2
<1>2. CASE WorkerStep
  BY <1>2, TypeWorker
<1>3. ASSUME NEW t \in Threads,
             \/ CallStep(t) \/ CheckShutdown(t) \/ BeginShutdown(t) \/ DrainEvents(t)
             \/ CommandTimeout(t) \/ ShutdownTimeout(t)
      PROVE  TypeOK'
  BY <1>3, TypeExecute, TypeShutdown DEF CallStep
<1> QED BY <1>1, <1>2, <1>3 DEF Next

\* Every reachable state has well-typed variables and queues within their
\* capacities.
THEOREM TypeCorrect == Spec => []TypeOK
<1>1. Spec => []TypeInv
  BY TypeInit, TypeNext, PTL DEF Spec
<1>2. TypeInv => TypeOK
  BY DEF TypeInv
<1> QED BY <1>1, <1>2, PTL

-----------------------------------------------------------------------------
(***************************************************************************)
(* What a thread's step leaves alone: the worker and everything the worker *)
(* writes, but for the events, which a thread may drain.                   *)
(***************************************************************************)
ThreadStep(t) ==
  \/ CallStep(t) \/ CheckShutdown(t) \/ BeginShutdown(t) \/ DrainEvents(t)
  \/ CommandTimeout(t) \/ ShutdownTimeout(t)

LEMMA ThreadFrame ==
  ASSUME NEW t \in Threads, ThreadStep(t)
  PROVE  /\ UNCHANGED <<worker, envelope, result, revision, shuttingDown, workerExited>>
         /\ events' = events \/ events' = <<>>
BY DEF ThreadStep, CallStep, CheckShutdown, BeginShutdown, DrainEvents, CommandTimeout,
   ShutdownTimeout, Reserve, TrySend, CountSubmitted, CountUnsent, TakeReply, SendShutdown,
   TakeShutdownReply, LockHandle, FinishJoin, workerVars, stateVars, metrics

LEMMA NextSplits ==
  ASSUME [Next]_vars
  PROVE  WorkerStep \/ (\E t \in Threads : ThreadStep(t)) \/ UNCHANGED vars
BY DEF Next, ThreadStep

-----------------------------------------------------------------------------
(***************************************************************************)
(* Room found is room kept: from ensure_event_space to push_event only     *)
(* drains touch the event queue.                                           *)
(***************************************************************************)
RoomKept == worker \in {"checked", "committed"} => Len(events) < EventCapacity

LEMMA RoomNext == TypeInv /\ RoomKept /\ [Next]_vars => RoomKept'
<1> SUFFICES ASSUME TypeInv, RoomKept, [Next]_vars PROVE RoomKept'
  OBVIOUS
<1> USE CoordinatorAssumption DEF CoordinatorAssumption, RoomKept
<1>1. CASE CheckEventSpace
  BY <1>1 DEF CheckEventSpace, stateVars
<1>2. CASE Commit \/ MarkShuttingDown
  BY <1>2 DEF Commit, MarkShuttingDown, stateVars
<1>3. CASE \/ Receive \/ Refuse \/ InstallAndFail \/ PushEvent \/ Answer \/ AnswerShutdown
           \/ ReportExit \/ DropReceiver
  BY <1>3 DEF Receive, Refuse, InstallAndFail, PushEvent, Answer, AnswerShutdown, ReportExit,
     DropReceiver
<1>4. ASSUME NEW t \in Threads, ThreadStep(t) PROVE RoomKept'
  BY <1>4, ThreadFrame
<1>5. CASE UNCHANGED vars
  BY <1>5 DEF vars, workerVars, stateVars
<1> QED BY <1>1, <1>2, <1>3, <1>4, <1>5, NextSplits DEF WorkerStep

\* A committed command, or shutdown, always finds room for its event, although
\* other threads drain between the check and the push.
THEOREM CommitsPublish == Spec => []CommittedIsPublishable
<1>1. Init => RoomKept
  BY DEF Init, RoomKept
<1>2. RoomKept => CommittedIsPublishable
  BY DEF RoomKept, CommittedIsPublishable
<1> QED BY <1>1, <1>2, TypeInit, TypeNext, RoomNext, PTL DEF Spec

-----------------------------------------------------------------------------
(***************************************************************************)
(* Every sequence handed out is pending, completed, rejected or in hand.   *)
(***************************************************************************)
LEMMA AccountNext == TypeInv /\ CallsAreAccounted /\ [Next]_vars => CallsAreAccounted'
<1> SUFFICES ASSUME TypeInv, CallsAreAccounted, [Next]_vars PROVE CallsAreAccounted'
  OBVIOUS
<1> USE DEF TypeInv, TypeOK, SharedTypes, MetricTypes, CallsAreAccounted, InHand
<1>1. CASE Receive
  BY <1>1 DEF Receive
<1>2. CASE CheckEventSpace \/ Refuse \/ InstallAndFail
  BY <1>2 DEF CheckEventSpace, Refuse, InstallAndFail, metrics
<1>3. CASE Commit \/ MarkShuttingDown
  BY <1>3 DEF Commit, MarkShuttingDown, metrics
<1>4. CASE PushEvent
  BY <1>4 DEF PushEvent
<1>5. CASE Answer
  BY <1>5 DEF Answer
<1>6. CASE AnswerShutdown \/ ReportExit \/ DropReceiver
  BY <1>6 DEF AnswerShutdown, ReportExit, DropReceiver, metrics
<1>7. ASSUME NEW t \in Threads, Reserve(t) PROVE CallsAreAccounted'
  BY <1>7 DEF Reserve, workerVars
<1>8. ASSUME NEW t \in Threads, CountUnsent(t) PROVE CallsAreAccounted'
  BY <1>8 DEF CountUnsent, workerVars
<1>9. ASSUME NEW t \in Threads, ThreadStep(t), ~Reserve(t), ~CountUnsent(t)
      PROVE  UNCHANGED <<nextSequence, pending, completed, rejected, worker, envelope>>
  BY <1>9 DEF ThreadStep, CallStep, CheckShutdown, BeginShutdown, DrainEvents, CommandTimeout,
     ShutdownTimeout, TrySend, CountSubmitted, TakeReply, SendShutdown, TakeShutdownReply,
     LockHandle, FinishJoin, workerVars, metrics
<1>10. CASE UNCHANGED <<nextSequence, pending, completed, rejected, worker, envelope>>
  BY <1>10
<1> QED BY <1>1, <1>2, <1>3, <1>4, <1>5, <1>6, <1>7, <1>8, <1>9, <1>10, NextSplits
        DEF WorkerStep, vars, workerVars, metrics

\* No call is lost from the counters, not even those dropped with the receiver.
THEOREM CallsAccounted == Spec => []CallsAreAccounted
<1>1. Init => CallsAreAccounted
  BY DEF Init, CallsAreAccounted, InHand
<1> QED BY <1>1, TypeInit, TypeNext, AccountNext, PTL DEF Spec

-----------------------------------------------------------------------------
(***************************************************************************)
(* Event revisions: the queue is sorted, and while a commit waits for its  *)
(* event every queued revision is older than the one it will carry.        *)
(***************************************************************************)
Sorted ==
  /\ \A i, j \in 1..Len(events) : i < j => events[i].revision < events[j].revision
  /\ \A i \in 1..Len(events) : events[i].revision <= revision
  /\ worker = "committed" => \A i \in 1..Len(events) : events[i].revision < revision

\* Queued events carry natural revisions.
LEMMA EventRevisionsAreNat ==
  ASSUME TypeInv
  PROVE  /\ revision \in Nat /\ Len(events) \in Nat
         /\ \A i \in 1..Len(events) : events[i].revision \in Nat
<1>1. events \in Seq(Event) /\ revision \in Nat
  BY DEF TypeInv, TypeOK, QueueTypes, WorkerTypes
<1>2. \A i \in 1..Len(events) : events[i] \in Event
  BY <1>1
<1> QED BY ONLY <1>1, <1>2 DEF Event

LEMMA SortedNext == TypeInv /\ Sorted /\ [Next]_vars => Sorted'
<1> SUFFICES ASSUME TypeInv, Sorted, [Next]_vars PROVE Sorted'
  OBVIOUS
<1> USE EventRevisionsAreNat DEF Sorted
<1>1. CASE InstallAndFail \/ Commit \/ MarkShuttingDown
  BY <1>1 DEF InstallAndFail, Commit, MarkShuttingDown, stateVars
<1>2. CASE PushEvent
  <2>1. CASE Len(events) >= EventCapacity
    BY <1>2, <2>1 DEF PushEvent
  <2>2. CASE ~(Len(events) >= EventCapacity)
    <3>1. events \in Seq(Event)
      BY DEF TypeInv, TypeOK, QueueTypes
    <3>2. /\ events' = Append(events, [sequence |-> envelope.sequence, revision |-> revision])
          /\ revision' = revision /\ worker' = "answering" /\ worker = "committed"
      BY <1>2, <2>2 DEF PushEvent
    <3>3. /\ Len(events') = Len(events) + 1
          /\ \A i \in 1..Len(events) : events'[i] = events[i]
          /\ events'[Len(events) + 1].revision = revision
      BY <3>1, <3>2
    <3> QED BY <3>2, <3>3
  <2> QED BY <2>1, <2>2
<1>3. CASE \/ Receive \/ CheckEventSpace \/ Refuse \/ Answer \/ AnswerShutdown \/ ReportExit
           \/ DropReceiver
  BY <1>3 DEF Receive, CheckEventSpace, Refuse, Answer, AnswerShutdown, ReportExit,
     DropReceiver, stateVars
<1>4. ASSUME NEW t \in Threads, ThreadStep(t) PROVE Sorted'
  BY <1>4, ThreadFrame
<1>5. CASE UNCHANGED vars
  BY <1>5 DEF vars, workerVars, stateVars
<1> QED BY <1>1, <1>2, <1>3, <1>4, <1>5, NextSplits DEF WorkerStep

\* Consumers that order events by kernel revision see the order of the commits.
THEOREM RevisionsIncrease == Spec => []EventRevisionsIncrease
<1>1. Init => Sorted
  BY DEF Init, Sorted
<1>2. Sorted => EventRevisionsIncrease
  BY DEF Sorted, EventRevisionsIncrease
<1> QED BY <1>1, <1>2, TypeInit, TypeNext, SortedNext, PTL DEF Spec

-----------------------------------------------------------------------------
(***************************************************************************)
(* After a shutdown: the flag in the state is set by the one message that  *)
(* ends the loop, so the worker is past its last commit from then on.      *)
(***************************************************************************)
PastLastCommit ==
  shuttingDown => \/ worker \in {"committed", "answering"} /\ envelope.kind = "shutdown"
                  \/ worker \in {"exit", "exiting", "gone"}

LEMMA PastNext == PastLastCommit /\ [Next]_vars => PastLastCommit'
<1> SUFFICES ASSUME PastLastCommit, [Next]_vars PROVE PastLastCommit'
  OBVIOUS
<1> USE DEF PastLastCommit
<1>1. CASE Receive \/ CheckEventSpace \/ Refuse \/ InstallAndFail \/ Commit
  BY <1>1 DEF Receive, CheckEventSpace, Refuse, InstallAndFail, Commit, stateVars
<1>2. CASE MarkShuttingDown \/ PushEvent \/ Answer \/ AnswerShutdown
  BY <1>2 DEF MarkShuttingDown, PushEvent, Answer, AnswerShutdown, stateVars
<1>3. CASE ReportExit \/ DropReceiver
  BY <1>3 DEF ReportExit, DropReceiver, stateVars
<1>4. ASSUME NEW t \in Threads, ThreadStep(t) PROVE PastLastCommit'
  BY <1>4, ThreadFrame
<1>5. CASE UNCHANGED vars
  BY <1>5 DEF vars, workerVars, stateVars
<1> QED BY <1>1, <1>2, <1>3, <1>4, <1>5, NextSplits DEF WorkerStep

\* A state that says shutting down is the last state: nothing commits after it.
THEOREM NothingCommitsAfterShutdown == Spec => NoCommitAfterShutdown
<1>1. Init => PastLastCommit
  BY DEF Init, PastLastCommit
<1>2. PastLastCommit /\ [Next]_vars => [shuttingDown => revision' = revision]_vars
  <2> SUFFICES ASSUME PastLastCommit, [Next]_vars, shuttingDown PROVE revision' = revision
    OBVIOUS
  <2>1. CASE Receive \/ CheckEventSpace \/ Refuse \/ PushEvent \/ Answer
    BY <2>1 DEF Receive, CheckEventSpace, Refuse, PushEvent, Answer, stateVars
  <2>2. CASE AnswerShutdown \/ ReportExit \/ DropReceiver
    BY <2>2 DEF AnswerShutdown, ReportExit, DropReceiver, stateVars
  <2>3. CASE InstallAndFail \/ Commit \/ MarkShuttingDown
    BY <2>3 DEF InstallAndFail, Commit, MarkShuttingDown, PastLastCommit
  <2>4. ASSUME NEW t \in Threads, ThreadStep(t) PROVE revision' = revision
    BY <2>4, ThreadFrame
  <2> QED BY <2>1, <2>2, <2>3, <2>4, NextSplits DEF WorkerStep, vars, stateVars
<1> QED BY <1>1, <1>2, PastNext, PTL DEF Spec, NoCommitAfterShutdown

-----------------------------------------------------------------------------
(***************************************************************************)
(* The join: whoever finds the handle taken and the mutex free comes after *)
(* a join that returned, and the worker reports its exit before it is      *)
(* gone.                                                                   *)
(***************************************************************************)
JoinInv ==
  /\ handleTaken /\ joinOwner = NoThread => worker = "gone"
  /\ worker \in {"exiting", "gone"} => workerExited
  /\ \A t \in Threads : returned[t] = "shutdown_ok" => worker = "gone"

LEMMA JoinNext == TypeInv /\ JoinInv /\ [Next]_vars => JoinInv'
<1> SUFFICES ASSUME TypeInv, JoinInv, [Next]_vars PROVE JoinInv'
  OBVIOUS
<1> USE CoordinatorAssumption
    DEF CoordinatorAssumption, JoinInv, TypeInv, TypeOK, ThreadTypes
<1>1. CASE \/ Receive \/ CheckEventSpace \/ Refuse \/ InstallAndFail \/ Commit
           \/ MarkShuttingDown
  BY <1>1 DEF Receive, CheckEventSpace, Refuse, InstallAndFail, Commit, MarkShuttingDown,
     joinVars, threadVars
<1>2. CASE \/ PushEvent \/ Answer \/ AnswerShutdown \/ ReportExit \/ DropReceiver
  BY <1>2 DEF PushEvent, Answer, AnswerShutdown, ReportExit, DropReceiver, joinVars,
     threadVars, metrics
<1>3. ASSUME NEW t \in Threads, LockHandle(t) PROVE JoinInv'
  BY <1>3 DEF LockHandle, ReturnShutdown, Leave, joinVars, workerVars, metrics
<1>4. ASSUME NEW t \in Threads, FinishJoin(t) PROVE JoinInv'
  BY <1>4 DEF FinishJoin, ReturnShutdown, Leave, workerVars, metrics
<1>5. ASSUME NEW t \in Threads, TakeShutdownReply(t) \/ ShutdownTimeout(t) PROVE JoinInv'
  BY <1>5 DEF TakeShutdownReply, ShutdownTimeout, ReturnShutdown, Leave, Replies,
     CommandAnswers, joinVars, workerVars, metrics
<1>6. ASSUME NEW t \in Threads, ThreadStep(t), ~LockHandle(t), ~FinishJoin(t),
             ~TakeShutdownReply(t), ~ShutdownTimeout(t)
      PROVE  UNCHANGED <<worker, workerExited, handleTaken, joinOwner, returned>>
  BY <1>6 DEF ThreadStep, CallStep, CheckShutdown, BeginShutdown, DrainEvents, CommandTimeout,
     Reserve, TrySend, CountSubmitted, CountUnsent, TakeReply, SendShutdown, ReturnCommand,
     joinVars, workerVars, metrics, threadVars
<1>7. CASE UNCHANGED <<worker, workerExited, handleTaken, joinOwner, returned>>
  BY <1>7
<1>8. CASE UNCHANGED vars
  BY <1>7, <1>8 DEF vars, workerVars, metrics, joinVars, threadVars
<1>9. ASSUME NEW t \in Threads, ThreadStep(t) PROVE JoinInv'
  BY ONLY <1>3, <1>4, <1>5, <1>6, <1>7, <1>9
<1>10. CASE WorkerStep
  BY ONLY <1>1, <1>2, <1>10 DEF WorkerStep
<1> QED BY <1>8, <1>9, <1>10, NextSplits

\* Ok from shutdown, whoever called it, means the worker has exited.
THEOREM ShutdownOkIsFinal == Spec => []ShutdownOkMeansWorkerGone
<1>1. Init => JoinInv
  BY DEF Init, JoinInv
<1>2. JoinInv => ShutdownOkMeansWorkerGone
  BY DEF JoinInv, ShutdownOkMeansWorkerGone
<1> QED BY <1>1, <1>2, TypeInit, TypeNext, JoinNext, PTL DEF Spec

-----------------------------------------------------------------------------
(***************************************************************************)
(* Answers: where a sequence is, and then what its command has done and    *)
(* what its caller is told.                                                *)
(***************************************************************************)
Holding == {"reserved", "sent", "waiting", "full", "disconnected"}
Unsent == {"reserved", "full", "disconnected"}
Listens == {"sent", "waiting", "shutdown_wait"}

Queued(s) == \E i \in 1..Len(channel) : channel[i].kind = "command" /\ channel[i].sequence = s
InWork(s) ==
  /\ worker \in {"received", "checked", "committed", "answering"}
  /\ envelope.kind = "command"
  /\ envelope.sequence = s

\* A shutdown has the last sequence; a command one that was handed out, and it is
\* either queued, once, or in work.
MessagesDiffer ==
  /\ \A i \in 1..Len(channel) :
       IF channel[i].kind = "shutdown" THEN channel[i].sequence = U64Max
       ELSE channel[i].sequence < nextSequence
  /\ \A i, j \in 1..Len(channel) :
       channel[i].kind = "command" /\ channel[j].kind = "command" /\ i # j
         => channel[i].sequence # channel[j].sequence
  /\ worker # "idle" =>
       IF envelope.kind = "shutdown" THEN envelope.sequence = U64Max
       ELSE envelope.sequence < nextSequence
  /\ \A s \in Sequences1 : ~(Queued(s) /\ InWork(s))

\* A sequence has one thread, which is answered when the worker is done with it.
TicketsDiffer ==
  /\ \A t, u \in Threads : pc[t] \in Holding /\ pc[u] \in Holding /\ t # u
       => ticket[t] # ticket[u]
  /\ \A t \in Threads : pc[t] \in Unsent => ~Queued(ticket[t]) /\ ~InWork(ticket[t])
  /\ \A t \in Threads : pc[t] \in {"shutdown_send", "shutdown_wait"} => ticket[t] = U64Max
  /\ \A t \in Threads : pc[t] \notin Listens => reply[t] = "none"
  /\ \A t \in Threads : pc[t] \in {"sent", "waiting"} /\ reply[t] \in CommandAnswers
       => ~Queued(ticket[t]) /\ ~InWork(ticket[t])

Agrees(answer, change) ==
  /\ answer = "ok" => change = "event"
  /\ answer = "refused" => change # "event"
  /\ answer \in {"command_queue_full", "unavailable", "event_queue_full"} => change = "none"

\* What a command has done so far, and what is said of it.
EffectsAgree ==
  /\ \A s \in Sequences1 : s >= nextSequence => effect[s] = "none" /\ verdict[s] = "open"
  /\ \A s \in Sequences1 : Queued(s) => effect[s] = "none"
  /\ \A s \in Sequences1 : InWork(s) =>
       /\ worker \in {"received", "checked"} => effect[s] = "none"
       /\ worker = "committed" => effect[s] = "changed"
       /\ worker = "answering" => Agrees(result, effect[s])
  /\ \A t \in Threads : pc[t] \in Unsent =>
       effect[ticket[t]] = "none" /\ verdict[ticket[t]] = "open"
  /\ \A t \in Threads : pc[t] \in {"sent", "waiting"} => Agrees(reply[t], effect[ticket[t]])
  /\ \A s \in Sequences1 : verdict[s] \notin {"open", "timed_out"} => ~Queued(s) /\ ~InWork(s)
  /\ AnswersAreTrue

\* Each command is in one place.
PlaceInv == MessagesDiffer /\ TicketsDiffer

\* A send queues the sequence of its message, if it is a command's.
LEMMA QueuedAfterSend ==
  ASSUME TypeInv, NEW m \in Message, channel' = Append(channel, m)
  PROVE  /\ Len(channel') = Len(channel) + 1 /\ Len(channel) \in Nat
         /\ \A i \in 1..Len(channel') :
              channel'[i] = IF i = Len(channel) + 1 THEN m ELSE channel[i]
         /\ \A s : Queued(s)' <=> Queued(s) \/ (m.kind = "command" /\ m.sequence = s)
<1>1. channel \in Seq(Message)
  BY DEF TypeInv, TypeOK, QueueTypes
<1>2. /\ Len(channel') = Len(channel) + 1 /\ Len(channel) \in Nat
      /\ \A i \in 1..Len(channel') :
              channel'[i] = IF i = Len(channel) + 1 THEN m ELSE channel[i]
  BY <1>1
<1> QED BY <1>2 DEF Queued

\* A receive takes the first message and moves the others up.
LEMMA QueuedAfterReceive ==
  ASSUME TypeInv, channel # <<>>, channel' = Tail(channel)
  PROVE  /\ Len(channel) \in Nat \ {0} /\ Len(channel') = Len(channel) - 1
         /\ Head(channel) = channel[1] /\ channel[1] \in Message
         /\ \A i \in 1..Len(channel') : channel'[i] = channel[i + 1]
         /\ \A s : Queued(s) <=>
              Queued(s)' \/ (channel[1].kind = "command" /\ channel[1].sequence = s)
<1>1. channel \in Seq(Message)
  BY DEF TypeInv, TypeOK, QueueTypes
<1>2. /\ Len(channel) \in Nat \ {0} /\ Len(channel') = Len(channel) - 1
      /\ Head(channel) = channel[1] /\ channel[1] \in Message
      /\ \A i \in 1..Len(channel') : channel'[i] = channel[i + 1]
  BY <1>1
<1>3. ASSUME NEW s, Queued(s), ~(channel[1].kind = "command" /\ channel[1].sequence = s)
      PROVE  Queued(s)'
  <2>1. PICK i \in 1..Len(channel) : channel[i].kind = "command" /\ channel[i].sequence = s
    BY <1>3 DEF Queued
  <2>2. i - 1 \in 1..Len(channel') /\ channel'[i - 1] = channel[i]
    BY <1>2, <1>3, <2>1
  <2> QED BY <2>1, <2>2 DEF Queued
<1>4. ASSUME NEW s, Queued(s)' PROVE Queued(s)
  <2>1. PICK i \in 1..Len(channel') : channel'[i].kind = "command" /\ channel'[i].sequence = s
    BY <1>4 DEF Queued
  <2>2. i + 1 \in 1..Len(channel)
    BY <1>2, <2>1
  <2> QED BY <1>2, <2>1, <2>2 DEF Queued
<1>5. ASSUME NEW s, channel[1].kind = "command", channel[1].sequence = s PROVE Queued(s)
  BY <1>2, <1>5 DEF Queued
<1> QED BY <1>2, <1>3, <1>4, <1>5

\* The types the proofs about places need.
LEMMA PlaceTypes ==
  ASSUME TypeInv
  PROVE  /\ nextSequence \in 1..U64Max /\ U64Max \in Nat
         /\ channel \in Seq(Message)
         /\ \A i \in 1..Len(channel) : channel[i] \in Message
         /\ worker # "idle" => envelope \in Message
         /\ \A t \in Threads :
              pc[t] \in Holding => ticket[t] \in Sequences1 /\ ticket[t] < nextSequence
<1> USE CoordinatorAssumption DEF CoordinatorAssumption
<1>1. nextSequence \in 1..U64Max /\ U64Max \in Nat /\ channel \in Seq(Message)
  BY DEF TypeInv, TypeOK, SharedTypes, QueueTypes
<1>2. \A i \in 1..Len(channel) : channel[i] \in Message
  BY <1>1
<1>3. ASSUME NEW t \in Threads, pc[t] \in Holding
      PROVE  ticket[t] \in Sequences1 /\ ticket[t] < nextSequence
  <2>1. ticket[t] \in 1..(nextSequence - 1)
    BY <1>3 DEF TypeInv, TicketsHandedOut, Holding
  <2> QED BY <1>1, <2>1 DEF Sequences1
<1> QED BY <1>1, <1>2, <1>3 DEF TypeInv, WorkerHoldsMessage

\* A step of a thread leaves every message in its place but for the one it sends,
\* with a sequence no other message and no other thread has.
LEMMA PlaceThread ==
  ASSUME TypeInv, PlaceInv, NEW t \in Threads, ThreadStep(t)
  PROVE  PlaceInv'
<1> USE DEF PlaceInv, threadVars, workerVars
<1>0. /\ nextSequence \in 1..U64Max /\ U64Max \in Nat
      /\ pc \in [Threads -> ThreadSteps] /\ ticket \in [Threads -> 0..U64Max]
      /\ reply \in [Threads -> Replies]
      /\ channel \in Seq(Message)
      /\ \A i \in 1..Len(channel) : channel[i] \in Message
      /\ worker # "idle" => envelope \in Message
      /\ \A u \in Threads :
           pc[u] \in Holding => ticket[u] \in Sequences1 /\ ticket[u] < nextSequence
  BY PlaceTypes DEF TypeInv, TypeOK, ThreadTypes
<1>w. UNCHANGED <<worker, envelope>> /\ \A s : InWork(s)' <=> InWork(s)
  BY ThreadFrame DEF InWork
<1>q. channel' = channel => \A s : Queued(s)' <=> Queued(s)
  BY DEF Queued
<1>m. CASE UNCHANGED <<channel, nextSequence>>
  <2>1. MessagesDiffer'
    BY <1>w, <1>q, <1>m DEF MessagesDiffer
  <2>2. CASE Leave(t)
    BY <1>0, <1>w, <1>q, <1>m, <2>1, <2>2
       DEF Leave, TicketsDiffer, Holding, Unsent, Listens
  <2>3. ASSUME UNCHANGED <<ticket, reply>>, NEW step, pc' = [pc EXCEPT ![t] = step],
               \/ pc[t] \notin Listens /\ step \in {"checked", "join", "joining"}
               \/ pc[t] = "reserved" /\ step \in {"full", "disconnected"}
               \/ pc[t] = "sent" /\ step = "waiting"
        PROVE  PlaceInv'
    BY <1>0, <1>w, <1>q, <1>m, <2>1, <2>3 DEF TicketsDiffer, Holding, Unsent, Listens
  <2>4. CASE UNCHANGED <<pc, ticket, reply>>
    BY <1>0, <1>w, <1>q, <1>m, <2>1, <2>4 DEF TicketsDiffer
  <2>5. CASE CheckShutdown(t)
    BY <2>3, <2>5 DEF CheckShutdown, Listens
  <2>6. CASE TrySend(t) /\ pc'[t] # "sent"
    BY <1>0, <2>3, <2>6 DEF TrySend
  <2>7. CASE CountSubmitted(t)
    BY <2>3, <2>7 DEF CountSubmitted
  <2>8. CASE CountUnsent(t) \/ TakeReply(t) \/ CommandTimeout(t) \/ ShutdownTimeout(t)
             \/ FinishJoin(t)
    BY <2>2, <2>8 DEF CountUnsent, TakeReply, CommandTimeout, ShutdownTimeout, FinishJoin,
       ReturnCommand, ReturnShutdown
  <2>9. CASE DrainEvents(t)
    BY <2>4, <2>9 DEF DrainEvents
  <2>10. CASE BeginShutdown(t)
    <3>1. CASE shutdownStarted
      BY <2>3, <2>10, <3>1 DEF BeginShutdown, Listens
    <3>2. CASE ~shutdownStarted
      <4>1. /\ pc[t] = "idle" /\ pc' = [pc EXCEPT ![t] = "shutdown_send"]
            /\ ticket' = [ticket EXCEPT ![t] = U64Max] /\ reply' = reply
        BY <2>10, <3>2 DEF BeginShutdown
      <4> QED BY <1>0, <1>w, <1>q, <1>m, <2>1, <4>1 DEF TicketsDiffer, Holding, Unsent, Listens
    <3> QED BY <3>1, <3>2
  <2>11. CASE TakeShutdownReply(t)
    <3>1. CASE reply[t] = "ok"
      <4>1. /\ pc[t] = "shutdown_wait" /\ pc' = [pc EXCEPT ![t] = "join"]
            /\ ticket' = ticket /\ reply' = [reply EXCEPT ![t] = "none"]
        BY <2>11, <3>1 DEF TakeShutdownReply
      <4> QED BY <1>0, <1>w, <1>q, <1>m, <2>1, <4>1 DEF TicketsDiffer, Holding, Unsent, Listens
    <3>2. CASE reply[t] # "ok"
      BY <2>2, <2>11, <3>2 DEF TakeShutdownReply, ReturnShutdown
    <3> QED BY <3>1, <3>2
  <2>12. CASE LockHandle(t)
    BY <2>2, <2>3, <2>12 DEF LockHandle, ReturnShutdown, Listens
  <2>13. ~Reserve(t) /\ ~SendShutdown(t) /\ ~(TrySend(t) /\ pc'[t] = "sent")
    <3>1. ASSUME Reserve(t) PROVE FALSE
      BY <1>0, <1>m, <3>1 DEF Reserve
    <3>2. ASSUME NEW m, channel' = Append(channel, m) PROVE FALSE
      <4>1. Len(channel') = Len(channel) + 1 /\ Len(channel) \in Nat
        BY <1>0, <3>2
      <4> QED BY <1>m, <4>1
    <3>3. ASSUME TrySend(t), pc'[t] = "sent" PROVE FALSE
      BY <1>0, <3>2, <3>3 DEF TrySend
    <3> QED BY <3>1, <3>2, <3>3 DEF SendShutdown
  <2> QED BY <2>5, <2>6, <2>7, <2>8, <2>9, <2>10, <2>11, <2>12, <2>13 DEF ThreadStep, CallStep
<1>1. CASE Reserve(t)
  <2>1. /\ channel' = channel /\ reply' = reply /\ pc[t] = "checked"
        /\ nextSequence < U64Max /\ nextSequence' = nextSequence + 1
        /\ ticket' = [ticket EXCEPT ![t] = nextSequence]
        /\ pc' = [pc EXCEPT ![t] = "reserved"]
    BY <1>1 DEF Reserve
  <2>2. MessagesDiffer'
    BY <1>0, <1>w, <1>q, <2>1, SMTT(30) DEF MessagesDiffer, Message
  <2>3. ~Queued(nextSequence) /\ ~InWork(nextSequence)
    BY <1>0 DEF MessagesDiffer, Queued, InWork, Message
  <2>4. TicketsDiffer'
    BY <1>0, <1>w, <1>q, <2>1, <2>3 DEF TicketsDiffer, Holding, Unsent, Listens
  <2> QED BY <2>2, <2>4
<1>2. ASSUME NEW m \in Message, channel' = Append(channel, m), UNCHANGED nextSequence,
             IF m.kind = "shutdown" THEN m.sequence = U64Max
             ELSE m.sequence < nextSequence /\ ~Queued(m.sequence) /\ ~InWork(m.sequence)
      PROVE  MessagesDiffer'
  <2>1. /\ Len(channel') = Len(channel) + 1 /\ Len(channel) \in Nat
        /\ \A i \in 1..Len(channel') :
              channel'[i] = IF i = Len(channel) + 1 THEN m ELSE channel[i]
        /\ \A s : Queued(s)' <=> Queued(s) \/ (m.kind = "command" /\ m.sequence = s)
    BY <1>2, QueuedAfterSend
  <2>2. \A i \in 1..Len(channel') :
          IF channel'[i].kind = "shutdown" THEN channel'[i].sequence = U64Max
          ELSE channel'[i].sequence < nextSequence
    BY <1>2, <2>1 DEF MessagesDiffer
  <2>3. ASSUME NEW i \in 1..Len(channel'), NEW j \in 1..Len(channel'), i < j,
               channel'[i].kind = "command", channel'[j].kind = "command"
        PROVE  channel'[i].sequence # channel'[j].sequence
    <3>1. i \in 1..Len(channel) /\ channel'[i] = channel[i]
      BY <2>1, <2>3
    <3>2. CASE j \in 1..Len(channel)
      BY <2>1, <2>3, <3>1, <3>2 DEF MessagesDiffer
    <3>3. CASE j = Len(channel) + 1
      BY <1>2, <2>1, <2>3, <3>1, <3>3 DEF Queued
    <3> QED BY <2>1, <3>2, <3>3
  <2>4. \A i, j \in 1..Len(channel') :
          channel'[i].kind = "command" /\ channel'[j].kind = "command" /\ i # j
            => channel'[i].sequence # channel'[j].sequence
    <3>1. \A i, j \in 1..Len(channel') : i # j => i < j \/ j < i
      BY <2>1
    <3> QED BY <2>3, <3>1
  <2>5. \A s \in Sequences1 : ~(Queued(s)' /\ InWork(s)')
    BY <1>2, <1>w, <2>1 DEF MessagesDiffer
  <2> QED BY <1>2, <1>w, <2>2, <2>4, <2>5 DEF MessagesDiffer
<1>3. CASE TrySend(t) /\ pc'[t] = "sent"
  <2> DEFINE m == [kind |-> "command", sequence |-> ticket[t], from |-> t]
  <2>1. /\ channel' = Append(channel, m) /\ pc[t] = "reserved"
        /\ pc' = [pc EXCEPT ![t] = "sent"] /\ UNCHANGED <<nextSequence, ticket, reply>>
    BY <1>0, <1>3 DEF TrySend
  <2>2. ticket[t] \in Sequences1 /\ ticket[t] < nextSequence /\ m \in Message
    BY <1>0, <2>1 DEF Holding, Sequences1, Message
  <2>3. ~Queued(ticket[t]) /\ ~InWork(ticket[t])
    BY <2>1 DEF TicketsDiffer, Unsent
  <2>4. MessagesDiffer'
    BY <1>2, <2>1, <2>2, <2>3
  <2>5. \A s : Queued(s)' <=> Queued(s) \/ s = ticket[t]
    BY <2>1, <2>2, QueuedAfterSend
  <2>6. \A u \in Threads : pc'[u] \in Holding => pc[u] \in Holding
    BY <1>0, <2>1 DEF Holding
  <2>7. ASSUME NEW u \in Threads, pc'[u] \in Unsent
        PROVE  ~Queued(ticket[u])' /\ ~InWork(ticket[u])'
    <3>1. u # t /\ pc[u] \in Unsent /\ pc[u] \in Holding /\ pc[t] \in Holding
      BY <1>0, <2>1, <2>7 DEF Unsent, Holding
    <3>2. ticket'[u] = ticket[u] /\ ticket[u] # ticket[t]
      BY <2>1, <3>1 DEF TicketsDiffer
    <3> QED BY <1>w, <2>5, <3>1, <3>2 DEF TicketsDiffer
  <2>8. ASSUME NEW u \in Threads, pc'[u] \in {"sent", "waiting"}, reply'[u] \in CommandAnswers
        PROVE  ~Queued(ticket[u])' /\ ~InWork(ticket[u])'
    <3>1. u # t
      BY <2>1, <2>8 DEF TicketsDiffer, Listens, CommandAnswers
    <3>2. pc[u] \in {"sent", "waiting"} /\ pc[u] \in Holding /\ pc[t] \in Holding
      BY <1>0, <2>1, <2>8, <3>1 DEF Holding
    <3>3. ticket'[u] = ticket[u] /\ ticket[u] # ticket[t]
      BY <2>1, <3>1, <3>2 DEF TicketsDiffer
    <3> QED BY <1>w, <2>1, <2>5, <2>8, <3>2, <3>3 DEF TicketsDiffer
  <2>9. /\ \A u \in Threads : pc'[u] \notin Listens => reply'[u] = "none"
        /\ \A u \in Threads : pc'[u] \in {"shutdown_send", "shutdown_wait"} => ticket'[u] = U64Max
    BY <1>0, <2>1 DEF TicketsDiffer, Listens
  <2>10. \A u, v \in Threads : pc'[u] \in Holding /\ pc'[v] \in Holding /\ u # v
          => ticket'[u] # ticket'[v]
    BY <2>1, <2>6 DEF TicketsDiffer
  <2>11. TicketsDiffer'
    BY <2>7, <2>8, <2>9, <2>10 DEF TicketsDiffer
  <2> QED BY <2>4, <2>11
<1>4. CASE SendShutdown(t)
  <2> DEFINE m == [kind |-> "shutdown", sequence |-> U64Max, from |-> t]
  <2>1. /\ channel' = Append(channel, m) /\ pc[t] = "shutdown_send"
        /\ pc' = [pc EXCEPT ![t] = "shutdown_wait"]
        /\ UNCHANGED <<nextSequence, ticket, reply>>
    BY <1>4 DEF SendShutdown
  <2>2. m \in Message
    BY <1>0 DEF Message
  <2>3. MessagesDiffer'
    BY <1>2, <2>1, <2>2
  <2>4. \A s : Queued(s)' <=> Queued(s)
    BY <2>1, <2>2, QueuedAfterSend
  <2>5. TicketsDiffer'
    BY <1>0, <1>w, <2>1, <2>4 DEF TicketsDiffer, Holding, Unsent, Listens
  <2> QED BY <2>3, <2>5
<1>5. \/ UNCHANGED <<channel, nextSequence>> \/ Reserve(t) \/ SendShutdown(t)
      \/ (TrySend(t) /\ pc'[t] = "sent")
  BY <1>0 DEF ThreadStep, CallStep, CheckShutdown, BeginShutdown, DrainEvents, CommandTimeout,
     ShutdownTimeout, TrySend, CountSubmitted, CountUnsent, TakeReply, TakeShutdownReply,
     LockHandle, FinishJoin
<1> QED BY <1>m, <1>1, <1>3, <1>4, <1>5

\* A step of the worker takes the first message, keeps it until it has answered
\* its caller, and drops the others when it goes.
LEMMA PlaceWorker ==
  ASSUME TypeInv, PlaceInv, WorkerStep
  PROVE  PlaceInv'
<1> USE DEF PlaceInv, threadVars, workerVars
<1>0. /\ nextSequence \in 1..U64Max /\ U64Max \in Nat
      /\ pc \in [Threads -> ThreadSteps] /\ ticket \in [Threads -> 0..U64Max]
      /\ reply \in [Threads -> Replies] /\ result \in CommandAnswers
      /\ channel \in Seq(Message)
      /\ worker # "idle" => envelope \in Message
      /\ \A u \in Threads :
           pc[u] \in Holding => ticket[u] \in Sequences1 /\ ticket[u] < nextSequence
  BY PlaceTypes DEF TypeInv, TypeOK, ThreadTypes, WorkerTypes
<1>p. UNCHANGED <<pc, ticket, nextSequence>>
  BY DEF WorkerStep, Receive, CheckEventSpace, Refuse, InstallAndFail, Commit, MarkShuttingDown,
     PushEvent, Answer, AnswerShutdown, ReportExit, DropReceiver
<1>1. CASE Receive
  <2>1. /\ channel # <<>> /\ channel' = Tail(channel) /\ envelope' = Head(channel)
        /\ worker = "idle" /\ worker' = "received" /\ reply' = reply
    BY <1>1 DEF Receive
  <2>2. /\ Len(channel) \in Nat \ {0} /\ Len(channel') = Len(channel) - 1
        /\ envelope' = channel[1] /\ channel[1] \in Message
        /\ \A i \in 1..Len(channel') : channel'[i] = channel[i + 1]
        /\ \A s : Queued(s) <=>
             Queued(s)' \/ (channel[1].kind = "command" /\ channel[1].sequence = s)
    BY <2>1, QueuedAfterReceive
  <2>3. \A s : InWork(s)' <=> channel[1].kind = "command" /\ channel[1].sequence = s
    BY <2>1, <2>2 DEF InWork
  <2>4. \A i \in 1..Len(channel') : i + 1 \in 1..Len(channel)
    BY <2>2
  <2>5. ASSUME NEW s, Queued(s)', InWork(s)' PROVE FALSE
    <3>1. PICK i \in 1..Len(channel') : channel'[i].kind = "command" /\ channel'[i].sequence = s
      BY <2>5 DEF Queued
    <3>2. i + 1 \in 1..Len(channel) /\ i + 1 # 1 /\ 1 \in 1..Len(channel)
      BY <2>2, <3>1
    <3> QED BY <2>2, <2>3, <2>5, <3>1, <3>2 DEF MessagesDiffer
  <2>6. MessagesDiffer'
    <3>1. 1 \in 1..Len(channel)
      BY <2>2
    <3>2. IF envelope'.kind = "shutdown" THEN envelope'.sequence = U64Max
          ELSE envelope'.sequence < nextSequence
      BY <2>2, <3>1 DEF MessagesDiffer
    <3>3. \A i, j \in 1..Len(channel') :
            channel'[i].kind = "command" /\ channel'[j].kind = "command" /\ i # j
              => channel'[i].sequence # channel'[j].sequence
      <4> SUFFICES ASSUME NEW i \in 1..Len(channel'), NEW j \in 1..Len(channel'), i # j,
                          channel'[i].kind = "command", channel'[j].kind = "command"
                   PROVE  channel'[i].sequence # channel'[j].sequence
        OBVIOUS
      <4>1. i + 1 \in 1..Len(channel) /\ j + 1 \in 1..Len(channel) /\ i + 1 # j + 1
        BY <2>4
      <4> QED BY <2>2, <4>1 DEF MessagesDiffer
    <3>4. \A i \in 1..Len(channel') :
            IF channel'[i].kind = "shutdown" THEN channel'[i].sequence = U64Max
            ELSE channel'[i].sequence < nextSequence
      BY <2>2, <2>4 DEF MessagesDiffer
    <3> QED BY <1>p, <2>5, <3>2, <3>3, <3>4 DEF MessagesDiffer
  <2>7. \A s : Queued(s)' \/ InWork(s)' => Queued(s)
    BY <2>2, <2>3
  <2>8. TicketsDiffer'
    BY <1>p, <2>1, <2>7 DEF TicketsDiffer
  <2> QED BY <2>6, <2>8
<1>2. CASE UNCHANGED <<channel, envelope, reply>> /\ worker # "idle" /\ worker' # "idle"
           /\ (worker' \in {"exiting", "gone"} \/ \A s : InWork(s)' <=> InWork(s))
  <2>1. \A s : Queued(s)' <=> Queued(s)
    BY <1>2 DEF Queued
  <2>2. \A s : InWork(s)' => InWork(s)
    BY <1>2 DEF InWork
  <2>3. MessagesDiffer'
    BY <1>p, <1>2, <2>1, <2>2 DEF MessagesDiffer
  <2>4. TicketsDiffer'
    BY <1>p, <1>2, <2>1, <2>2 DEF TicketsDiffer
  <2> QED BY <2>3, <2>4
<1>3. CASE \/ CheckEventSpace \/ Refuse \/ InstallAndFail \/ Commit \/ MarkShuttingDown
           \/ PushEvent \/ ReportExit
  <2>1. /\ UNCHANGED <<channel, envelope, reply>> /\ worker # "idle" /\ worker' # "idle"
        /\ \/ worker' = "exiting"
           \/ /\ worker \in {"received", "checked", "committed"}
              /\ worker' \in {"checked", "committed", "answering"}
    BY <1>3 DEF CheckEventSpace, Refuse, InstallAndFail, Commit, MarkShuttingDown, PushEvent,
       ReportExit
  <2> QED BY <1>2, <2>1 DEF InWork
<1>4. CASE Answer \/ AnswerShutdown
  <2>1. /\ UNCHANGED <<channel, envelope>> /\ worker = "answering"
        /\ worker' \in {"idle", "exit"} /\ envelope \in Message
        /\ reply' = IF Listening(envelope) THEN [reply EXCEPT ![envelope.from] = result]
                    ELSE reply
        /\ worker' = "exit" => envelope.kind = "shutdown"
    BY <1>0, <1>4 DEF Answer, AnswerShutdown, Deliver
  <2>2. \A s : (Queued(s)' <=> Queued(s)) /\ ~InWork(s)'
    BY <2>1 DEF Queued, InWork
  <2>3. MessagesDiffer'
    BY <1>p, <2>1, <2>2 DEF MessagesDiffer
  <2>4. \A t \in Threads : pc[t] \notin Listens => reply'[t] = "none"
    BY <1>0, <2>1 DEF TicketsDiffer, Listens, Listening, Message
  <2>5. ASSUME NEW t \in Threads, pc[t] \in {"sent", "waiting"}, reply'[t] \in CommandAnswers
        PROVE  ~Queued(ticket[t])
    <3>1. CASE reply'[t] = reply[t]
      BY <2>5, <3>1 DEF TicketsDiffer
    <3>2. CASE reply'[t] # reply[t]
      <4>1. Listening(envelope) /\ envelope.from = t /\ ticket[t] = envelope.sequence
        BY <1>0, <2>1, <3>2 DEF Message, Listening
      <4>2. ticket[t] \in Sequences1 /\ ticket[t] < nextSequence
        BY <1>0, <2>5 DEF Holding
      <4>3. envelope.kind = "command"
        BY <1>0, <2>1, <4>1, <4>2 DEF MessagesDiffer, Message
      <4>4. InWork(ticket[t])
        BY <2>1, <4>1, <4>3 DEF InWork
      <4> QED BY <4>2, <4>4 DEF MessagesDiffer
    <3> QED BY <3>1, <3>2
  <2>6. TicketsDiffer'
    BY <1>p, <2>2, <2>4, <2>5 DEF TicketsDiffer
  <2> QED BY <2>3, <2>6
<1>5. CASE DropReceiver
  <2>1. /\ channel' = <<>> /\ worker = "exiting" /\ worker' = "gone" /\ envelope' = envelope
        /\ reply' = [t \in Threads |->
             IF \E i \in 1..Len(channel) : channel[i].from = t /\ Listening(channel[i])
             THEN "dropped" ELSE reply[t]]
    BY <1>5 DEF DropReceiver
  <2>2. \A s : ~Queued(s)' /\ ~InWork(s)'
    BY <2>1 DEF Queued, InWork
  <2>3. MessagesDiffer'
    BY <1>p, <2>1, <2>2 DEF MessagesDiffer
  <2>4. \A t \in Threads : pc[t] \notin Listens => reply'[t] = "none"
    BY <2>1 DEF TicketsDiffer, Listens, Listening
  <2>5. TicketsDiffer'
    BY <1>p, <2>2, <2>4 DEF TicketsDiffer
  <2> QED BY <2>3, <2>5
<1> QED BY <1>1, <1>3, <1>4, <1>5 DEF WorkerStep

\* Every step of a caller or the worker keeps each command in one place.
LEMMA PlaceNext == TypeInv /\ PlaceInv /\ [Next]_vars => PlaceInv'
<1> SUFFICES ASSUME TypeInv, PlaceInv, [Next]_vars PROVE PlaceInv'
  OBVIOUS
<1>1. CASE UNCHANGED vars
  <2>1. \A s : (Queued(s)' <=> Queued(s)) /\ (InWork(s)' <=> InWork(s))
    BY <1>1 DEF vars, workerVars, Queued, InWork
  <2> QED BY <1>1, <2>1 DEF vars, threadVars, workerVars, PlaceInv, MessagesDiffer, TicketsDiffer
<1> QED BY <1>1, PlaceThread, PlaceWorker, NextSplits

\* A step of a thread changes no effect, and tells its caller what its answer, or
\* the send that failed, says.
LEMMA EffectsThread ==
  ASSUME TypeInv, PlaceInv, EffectsAgree, NEW t \in Threads, ThreadStep(t)
  PROVE  EffectsAgree'
<1> USE DEF threadVars, workerVars, history
<1>0. /\ nextSequence \in 1..U64Max /\ U64Max \in Nat
      /\ pc \in [Threads -> ThreadSteps] /\ ticket \in [Threads -> 0..U64Max]
      /\ reply \in [Threads -> Replies]
      /\ effect \in [Sequences1 -> {"none", "changed", "event"}]
      /\ verdict \in [Sequences1 -> Verdicts]
      /\ \A u \in Threads :
           pc[u] \in Holding => ticket[u] \in Sequences1 /\ ticket[u] < nextSequence
  BY PlaceTypes DEF TypeInv, TypeOK, ThreadTypes, HistoryTypes
<1>w. UNCHANGED <<worker, envelope, result>> /\ \A s : InWork(s)' <=> InWork(s)
  BY ThreadFrame DEF InWork
<1>q. channel' = channel => \A s : Queued(s)' <=> Queued(s)
  BY DEF Queued
<1>e. effect' = effect
  BY DEF ThreadStep, CallStep, CheckShutdown, BeginShutdown, DrainEvents, CommandTimeout,
     ShutdownTimeout, Reserve, TrySend, CountSubmitted, CountUnsent, TakeReply, SendShutdown,
     TakeShutdownReply, LockHandle, FinishJoin, ReturnCommand
<1>s. Sequences1 \subseteq Nat
  BY DEF Sequences1
<1>1. CASE UNCHANGED <<channel, nextSequence, verdict>>
           /\ \A u \in Threads :
                /\ pc'[u] \in Unsent => pc[u] \in Unsent /\ ticket'[u] = ticket[u]
                /\ pc'[u] \in {"sent", "waiting"} =>
                     /\ pc[u] \in {"sent", "waiting"}
                     /\ ticket'[u] = ticket[u] /\ reply'[u] = reply[u]
  BY <1>e, <1>q, <1>w, <1>1 DEF EffectsAgree, AnswersAreTrue
<1>2. CASE \/ CheckShutdown(t) \/ CountSubmitted(t) \/ DrainEvents(t) \/ BeginShutdown(t)
           \/ TakeShutdownReply(t)
  <2>1. UNCHANGED <<channel, nextSequence, verdict>>
    BY <1>2 DEF CheckShutdown, CountSubmitted, DrainEvents, BeginShutdown, TakeShutdownReply
  <2>2. \A u \in Threads :
          /\ pc'[u] \in Unsent => pc[u] \in Unsent /\ ticket'[u] = ticket[u]
          /\ pc'[u] \in {"sent", "waiting"} =>
               /\ pc[u] \in {"sent", "waiting"}
               /\ ticket'[u] = ticket[u] /\ reply'[u] = reply[u]
    BY <1>0, <1>2 DEF CheckShutdown, CountSubmitted, DrainEvents, BeginShutdown,
       TakeShutdownReply, ReturnShutdown, Leave, Unsent
  <2> QED BY <1>1, <2>1, <2>2
<1>3. CASE ShutdownTimeout(t) \/ LockHandle(t) \/ FinishJoin(t)
  <2>1. UNCHANGED <<channel, nextSequence, verdict>>
    BY <1>3 DEF ShutdownTimeout, LockHandle, FinishJoin
  <2>2. \A u \in Threads :
          /\ pc'[u] \in Unsent => pc[u] \in Unsent /\ ticket'[u] = ticket[u]
          /\ pc'[u] \in {"sent", "waiting"} =>
               /\ pc[u] \in {"sent", "waiting"}
               /\ ticket'[u] = ticket[u] /\ reply'[u] = reply[u]
    BY <1>0, <1>3 DEF ShutdownTimeout, LockHandle, FinishJoin, ReturnShutdown, Leave, Unsent
  <2> QED BY <1>1, <2>1, <2>2
<1>4. CASE Reserve(t)
  <2>1. /\ UNCHANGED <<channel, verdict, reply>> /\ nextSequence < U64Max
        /\ nextSequence' = nextSequence + 1 /\ pc[t] = "checked"
        /\ ticket' = [ticket EXCEPT ![t] = nextSequence]
        /\ pc' = [pc EXCEPT ![t] = "reserved"]
    BY <1>4 DEF Reserve
  <2>2. nextSequence \in Sequences1
    BY <1>0, <2>1 DEF Sequences1
  <2>3. \A s \in Sequences1 : s >= nextSequence' => effect'[s] = "none" /\ verdict'[s] = "open"
    BY <1>0, <1>e, <1>s, <2>1 DEF EffectsAgree
  <2>4. \A u \in Threads : pc'[u] \in Unsent =>
          effect'[ticket'[u]] = "none" /\ verdict'[ticket'[u]] = "open"
    BY <1>0, <1>e, <2>1, <2>2 DEF EffectsAgree, Unsent
  <2>5. \A u \in Threads : pc'[u] \in {"sent", "waiting"} =>
          Agrees(reply'[u], effect'[ticket'[u]])
    BY <1>0, <1>e, <2>1 DEF EffectsAgree
  <2> QED BY <1>e, <1>q, <1>w, <2>1, <2>3, <2>4, <2>5 DEF EffectsAgree, AnswersAreTrue
<1>5. CASE TrySend(t)
  <2>1. pc[t] = "reserved" /\ UNCHANGED <<nextSequence, verdict, ticket, reply>>
        /\ ticket[t] \in Sequences1
    BY <1>0, <1>5 DEF TrySend, Holding
  <2>2. CASE channel' = channel
    <3>1. \A u \in Threads :
            /\ pc'[u] \in Unsent => pc[u] \in Unsent
            /\ pc'[u] \in {"sent", "waiting"} => pc[u] \in {"sent", "waiting"}
      <4>1. \A m : channel # Append(channel, m)
        <5>1. channel \in Seq(Message)
          BY PlaceTypes
        <5> QED BY <5>1
      <4> QED BY <1>0, <1>5, <2>1, <2>2, <4>1 DEF TrySend, Unsent
    <3> QED BY <1>1, <2>1, <2>2, <3>1
  <2>3. CASE channel' # channel
    <3> DEFINE m == [kind |-> "command", sequence |-> ticket[t], from |-> t]
    <3>1. channel' = Append(channel, m) /\ pc' = [pc EXCEPT ![t] = "sent"] /\ m \in Message
      BY <1>0, <1>5, <2>1, <2>3 DEF TrySend, Message, Sequences1
    <3>2. \A s : Queued(s)' <=> Queued(s) \/ s = ticket[t]
      BY <3>1, QueuedAfterSend
    <3>3. effect[ticket[t]] = "none" /\ verdict[ticket[t]] = "open" /\ reply[t] = "none"
      BY <2>1 DEF EffectsAgree, PlaceInv, TicketsDiffer, Unsent, Listens
    <3>4. ~InWork(ticket[t])
      BY <2>1 DEF PlaceInv, TicketsDiffer, Unsent
    <3>5. \A u \in Threads : pc'[u] \in Unsent =>
            effect'[ticket'[u]] = "none" /\ verdict'[ticket'[u]] = "open"
      BY <1>0, <1>e, <2>1, <3>1 DEF EffectsAgree, Unsent
    <3>6. \A u \in Threads : pc'[u] \in {"sent", "waiting"} =>
            Agrees(reply'[u], effect'[ticket'[u]])
      BY <1>0, <1>e, <2>1, <3>1, <3>3 DEF EffectsAgree, Agrees
    <3> QED BY <1>e, <1>w, <2>1, <3>2, <3>3, <3>4, <3>5, <3>6 DEF EffectsAgree, AnswersAreTrue
  <2> QED BY <2>2, <2>3
<1>6. ASSUME UNCHANGED <<channel, nextSequence>>, Leave(t), pc[t] \in Holding, NEW answer,
             verdict' = [verdict EXCEPT ![ticket[t]] = answer],
             Agrees(answer, effect[ticket[t]]),
             answer # "timed_out" => ~Queued(ticket[t]) /\ ~InWork(ticket[t])
      PROVE  EffectsAgree'
  <2>1. ticket[t] \in Sequences1 /\ ticket[t] < nextSequence
    BY <1>0, <1>6
  <2>2. \A s \in Sequences1 : verdict'[s] = IF s = ticket[t] THEN answer ELSE verdict[s]
    BY <1>0, <1>6
  <2>3. \A s \in Sequences1 : s >= nextSequence' => effect'[s] = "none" /\ verdict'[s] = "open"
    BY <1>0, <1>e, <1>s, <1>6, <2>1, <2>2 DEF EffectsAgree
  <2>4. \A s \in Sequences1 :
          verdict'[s] \notin {"open", "timed_out"} => ~Queued(s)' /\ ~InWork(s)'
    BY <1>q, <1>w, <1>6, <2>2 DEF EffectsAgree
  <2>5. AnswersAreTrue'
    BY <1>e, <1>6, <2>2 DEF EffectsAgree, AnswersAreTrue, Agrees
  <2>6. ASSUME NEW u \in Threads, pc'[u] \in Holding
        PROVE  /\ u # t /\ pc'[u] = pc[u] /\ ticket'[u] = ticket[u] /\ reply'[u] = reply[u]
               /\ verdict'[ticket[u]] = verdict[ticket[u]]
    <3>1. u # t
      BY <1>0, <1>6, <2>6 DEF Leave, Holding
    <3>2. pc'[u] = pc[u] /\ ticket'[u] = ticket[u] /\ reply'[u] = reply[u]
      BY <1>0, <1>6, <3>1 DEF Leave
    <3>3. ticket[u] # ticket[t] /\ ticket[u] \in Sequences1
      BY <1>0, <1>6, <2>6, <3>1, <3>2 DEF PlaceInv, TicketsDiffer
    <3> QED BY <2>2, <3>1, <3>2, <3>3
  <2>7. \A u \in Threads : pc'[u] \in Unsent =>
          effect'[ticket'[u]] = "none" /\ verdict'[ticket'[u]] = "open"
    BY <1>e, <2>6 DEF EffectsAgree, Unsent, Holding
  <2>8. \A u \in Threads : pc'[u] \in {"sent", "waiting"} =>
          Agrees(reply'[u], effect'[ticket'[u]])
    BY <1>e, <2>6 DEF EffectsAgree, Holding
  <2> QED BY <1>e, <1>q, <1>w, <1>6, <2>3, <2>4, <2>5, <2>7, <2>8 DEF EffectsAgree
<1>7. CASE CountUnsent(t)
  <2> DEFINE answer == IF pc[t] = "full" THEN "command_queue_full" ELSE "unavailable"
  <2>1. /\ UNCHANGED <<channel, nextSequence>> /\ Leave(t) /\ pc[t] \in {"full", "disconnected"}
        /\ verdict' = [verdict EXCEPT ![ticket[t]] = answer]
    BY <1>7 DEF CountUnsent, ReturnCommand
  <2>2. /\ effect[ticket[t]] = "none" /\ ~Queued(ticket[t]) /\ ~InWork(ticket[t])
        /\ pc[t] \in Holding
    BY <2>1 DEF EffectsAgree, PlaceInv, TicketsDiffer, Unsent, Holding
  <2>3. Agrees(answer, effect[ticket[t]])
    BY <2>2 DEF Agrees
  <2> HIDE DEF answer
  <2> QED BY <1>6, <2>1, <2>2, <2>3
<1>8. CASE TakeReply(t)
  <2> DEFINE answer == IF reply[t] = "dropped" THEN "timed_out" ELSE reply[t]
  <2>1. /\ UNCHANGED <<channel, nextSequence>> /\ Leave(t) /\ pc[t] = "waiting"
        /\ verdict' = [verdict EXCEPT ![ticket[t]] = answer] /\ reply[t] # "none"
    BY <1>8 DEF TakeReply, ReturnCommand
  <2>2. pc[t] \in Holding /\ Agrees(answer, effect[ticket[t]])
    BY <2>1 DEF EffectsAgree, Agrees, Holding
  <2>3. answer # "timed_out" => ~Queued(ticket[t]) /\ ~InWork(ticket[t])
    BY <1>0, <2>1 DEF PlaceInv, TicketsDiffer, Replies
  <2> HIDE DEF answer
  <2> QED BY <1>6, <2>1, <2>2, <2>3
<1>9. CASE CommandTimeout(t)
  <2>1. /\ UNCHANGED <<channel, nextSequence>> /\ Leave(t) /\ pc[t] = "waiting"
        /\ verdict' = [verdict EXCEPT ![ticket[t]] = "timed_out"]
    BY <1>9 DEF CommandTimeout, ReturnCommand
  <2>2. pc[t] \in Holding /\ Agrees("timed_out", effect[ticket[t]])
    BY <2>1 DEF Agrees, Holding
  <2> QED BY <1>6, <2>1, <2>2
<1>10. CASE SendShutdown(t)
  <2> DEFINE m == [kind |-> "shutdown", sequence |-> U64Max, from |-> t]
  <2>1. /\ channel' = Append(channel, m) /\ pc[t] = "shutdown_send"
        /\ pc' = [pc EXCEPT ![t] = "shutdown_wait"]
        /\ UNCHANGED <<nextSequence, ticket, reply, verdict>>
    BY <1>10 DEF SendShutdown
  <2>2. m \in Message
    BY <1>0 DEF Message
  <2>3. \A s : Queued(s)' <=> Queued(s)
    BY <2>1, <2>2, QueuedAfterSend
  <2>4. \A u \in Threads :
          /\ pc'[u] \in Unsent => pc[u] \in Unsent
          /\ pc'[u] \in {"sent", "waiting"} => pc[u] \in {"sent", "waiting"}
    BY <1>0, <2>1 DEF Unsent
  <2> QED BY <1>e, <1>w, <2>1, <2>3, <2>4 DEF EffectsAgree, AnswersAreTrue
<1> QED BY <1>2, <1>3, <1>4, <1>5, <1>7, <1>8, <1>9, <1>10 DEF ThreadStep, CallStep

\* A step of the worker changes the effect of the command it has in hand, which
\* nobody has been told anything about.
LEMMA EffectsWorker ==
  ASSUME TypeInv, PlaceInv, RoomKept, EffectsAgree, WorkerStep
  PROVE  EffectsAgree'
<1> USE DEF threadVars, workerVars, history
<1>0. /\ nextSequence \in 1..U64Max /\ U64Max \in Nat
      /\ pc \in [Threads -> ThreadSteps] /\ ticket \in [Threads -> 0..U64Max]
      /\ reply \in [Threads -> Replies] /\ result \in CommandAnswers
      /\ effect \in [Sequences1 -> {"none", "changed", "event"}]
      /\ worker # "idle" => envelope \in Message
      /\ \A u \in Threads :
           pc[u] \in Holding => ticket[u] \in Sequences1 /\ ticket[u] < nextSequence
  BY PlaceTypes DEF TypeInv, TypeOK, ThreadTypes, WorkerTypes, HistoryTypes
<1>p. UNCHANGED <<pc, ticket, nextSequence, verdict>>
  BY DEF WorkerStep, Receive, CheckEventSpace, Refuse, InstallAndFail, Commit, MarkShuttingDown,
     PushEvent, Answer, AnswerShutdown, ReportExit, DropReceiver
<1>h. \A s \in Sequences1 : InWork(s) => s < nextSequence
  BY <1>0 DEF PlaceInv, MessagesDiffer, InWork, Message
<1>1. ASSUME UNCHANGED <<channel, reply>>,
             \A s \in Sequences1 : effect'[s] = effect[s] \/ InWork(s),
             \A s \in Sequences1 : InWork(s)' =>
               /\ InWork(s)
               /\ worker' \in {"received", "checked"} => effect'[s] = "none"
               /\ worker' = "committed" => effect'[s] = "changed"
               /\ worker' = "answering" => Agrees(result', effect'[s])
      PROVE  EffectsAgree'
  <2>1. \A s : Queued(s)' <=> Queued(s)
    BY <1>1 DEF Queued
  <2>2. \A s \in Sequences1 : Queued(s) => effect'[s] = effect[s]
    BY <1>1 DEF PlaceInv, MessagesDiffer
  <2>3. \A u \in Threads : pc[u] \in Unsent => effect'[ticket[u]] = effect[ticket[u]]
    BY <1>0, <1>1 DEF PlaceInv, TicketsDiffer, Unsent, Holding
  <2>4. ASSUME NEW u \in Threads, pc[u] \in {"sent", "waiting"}
        PROVE  Agrees(reply[u], effect'[ticket[u]])
    <3>1. CASE reply[u] \in CommandAnswers
      BY <1>0, <1>1, <2>4, <3>1 DEF PlaceInv, TicketsDiffer, Holding, EffectsAgree
    <3>2. CASE reply[u] \in {"none", "dropped"}
      BY <3>2 DEF Agrees
    <3> QED BY <1>0, <3>1, <3>2 DEF Replies
  <2>5. \A s \in Sequences1 : verdict[s] \notin {"open", "timed_out"} => effect'[s] = effect[s]
    BY <1>1 DEF EffectsAgree
  <2>6. AnswersAreTrue'
    BY <1>p, <2>5 DEF EffectsAgree, AnswersAreTrue
  <2>7. \A s \in Sequences1 : s >= nextSequence => effect'[s] = effect[s]
    <3>1. \A s \in Sequences1 : s >= nextSequence => ~InWork(s)
      BY <1>0, <1>h DEF Sequences1
    <3> QED BY <1>1, <3>1
  <2> QED BY <1>p, <1>1, <2>1, <2>2, <2>3, <2>4, <2>5, <2>6, <2>7 DEF EffectsAgree
<1>2. CASE Receive
  <2>1. /\ channel # <<>> /\ channel' = Tail(channel) /\ envelope' = Head(channel)
        /\ worker = "idle" /\ worker' = "received" /\ UNCHANGED <<reply, effect>>
    BY <1>2 DEF Receive
  <2>2. \A s : InWork(s)' \/ Queued(s)' => Queued(s)
    BY <2>1, QueuedAfterReceive DEF InWork
  <2> QED BY <1>p, <2>1, <2>2 DEF EffectsAgree, AnswersAreTrue
<1>3. CASE CheckEventSpace \/ Refuse
  <2>1. /\ UNCHANGED <<channel, reply, effect, envelope>>
        /\ worker \in {"received", "checked"} /\ worker' \in {"checked", "answering"}
        /\ worker' = "answering" => result' \in {"event_queue_full", "refused"}
    BY <1>3 DEF CheckEventSpace, Refuse
  <2>2. \A s : InWork(s)' => InWork(s)
    BY <2>1 DEF InWork
  <2>3. \A s \in Sequences1 : InWork(s) => effect[s] = "none"
    BY <2>1 DEF EffectsAgree
  <2>4. Agrees("event_queue_full", "none") /\ Agrees("refused", "none")
    BY DEF Agrees
  <2>5. \A s \in Sequences1 : InWork(s)' =>
          /\ InWork(s) /\ effect'[s] = "none"
          /\ worker' = "answering" => Agrees(result', effect'[s])
    BY <2>1, <2>2, <2>3, <2>4
  <2> QED BY <1>1, <2>1, <2>5
<1>4. CASE InstallAndFail \/ Commit
  <2>1. /\ UNCHANGED <<channel, reply, envelope>> /\ worker = "checked"
        /\ envelope.kind = "command" /\ envelope \in Message
        /\ effect' = [effect EXCEPT ![envelope.sequence] = "changed"]
        /\ \/ worker' = "committed"
           \/ worker' = "answering" /\ result' = "refused"
    BY <1>0, <1>4 DEF InstallAndFail, Commit
  <2>2. \A s : (InWork(s)' <=> InWork(s)) /\ (InWork(s) <=> s = envelope.sequence)
    BY <2>1 DEF InWork
  <2>3. \A s \in Sequences1 : effect'[s] = IF InWork(s) THEN "changed" ELSE effect[s]
    BY <1>0, <2>1, <2>2
  <2>4. Agrees("refused", "changed")
    BY DEF Agrees
  <2> QED BY <1>1, <2>1, <2>2, <2>3, <2>4
<1>5. CASE MarkShuttingDown
  <2>1. UNCHANGED <<channel, reply, envelope, effect>> /\ envelope.kind = "shutdown"
    BY <1>5 DEF MarkShuttingDown
  <2>2. \A s : ~InWork(s)'
    BY <2>1 DEF InWork
  <2> QED BY <1>1, <2>1, <2>2
<1>6. CASE PushEvent
  <2>1. /\ UNCHANGED <<channel, reply, envelope>> /\ worker = "committed"
        /\ worker' = "answering" /\ result' = "ok" /\ envelope \in Message
        /\ effect' = IF envelope.kind = "command"
                     THEN [effect EXCEPT ![envelope.sequence] = "event"] ELSE effect
    <3>1. Len(events) < EventCapacity /\ Len(events) \in Nat
      BY <1>6 DEF PushEvent, RoomKept, TypeInv, TypeOK, QueueTypes
    <3>2. ~(Len(events) >= EventCapacity)
      BY <3>1, CoordinatorAssumption DEF CoordinatorAssumption
    <3> QED BY <1>0, <1>6, <3>2 DEF PushEvent
  <2>2. \A s : /\ InWork(s)' <=> InWork(s)
               /\ InWork(s) <=> envelope.kind = "command" /\ s = envelope.sequence
    BY <2>1 DEF InWork
  <2>3. \A s \in Sequences1 : effect'[s] = IF InWork(s) THEN "event" ELSE effect[s]
    BY <1>0, <2>1, <2>2
  <2>4. Agrees("ok", "event")
    BY DEF Agrees
  <2> QED BY <1>1, <2>1, <2>2, <2>3, <2>4
<1>7. CASE Answer \/ AnswerShutdown
  <2>1. /\ UNCHANGED <<channel, envelope, effect>> /\ worker = "answering"
        /\ worker' \in {"idle", "exit"} /\ envelope \in Message
        /\ reply' = IF Listening(envelope) THEN [reply EXCEPT ![envelope.from] = result]
                    ELSE reply
    BY <1>0, <1>7 DEF Answer, AnswerShutdown, Deliver
  <2>2. \A s : (Queued(s)' <=> Queued(s)) /\ ~InWork(s)'
    BY <2>1 DEF Queued, InWork
  <2>3. ASSUME NEW u \in Threads, pc[u] \in {"sent", "waiting"}
        PROVE  Agrees(reply'[u], effect[ticket[u]])
    <3>1. CASE reply'[u] = reply[u]
      BY <2>3, <3>1 DEF EffectsAgree
    <3>2. CASE reply'[u] # reply[u]
      <4>1. Listening(envelope) /\ envelope.from = u /\ ticket[u] = envelope.sequence
            /\ reply'[u] = result
        BY <1>0, <2>1, <3>2 DEF Message, Listening
      <4>2. ticket[u] \in Sequences1 /\ ticket[u] < nextSequence
        BY <1>0, <2>3 DEF Holding
      <4>3. envelope.kind = "command"
        BY <1>0, <2>1, <4>1, <4>2 DEF PlaceInv, MessagesDiffer, Message
      <4>4. InWork(ticket[u])
        BY <2>1, <4>1, <4>3 DEF InWork
      <4> QED BY <2>1, <4>1, <4>2, <4>4 DEF EffectsAgree
    <3> QED BY <3>1, <3>2
  <2> QED BY <1>p, <2>1, <2>2, <2>3 DEF EffectsAgree, AnswersAreTrue
<1>8. CASE ReportExit
  <2>1. UNCHANGED <<channel, reply, effect>> /\ worker' = "exiting"
    BY <1>8 DEF ReportExit
  <2>2. \A s : ~InWork(s)'
    BY <2>1 DEF InWork
  <2> QED BY <1>1, <2>1, <2>2
<1>9. CASE DropReceiver
  <2>1. /\ channel' = <<>> /\ worker' = "gone" /\ effect' = effect
        /\ \A u \in Threads : reply'[u] \in {"dropped", reply[u]}
    BY <1>9 DEF DropReceiver
  <2>2. \A s : ~Queued(s)' /\ ~InWork(s)'
    BY <2>1 DEF Queued, InWork
  <2>3. \A u \in Threads : pc[u] \in {"sent", "waiting"} => Agrees(reply'[u], effect[ticket[u]])
    BY <2>1 DEF EffectsAgree, Agrees
  <2> QED BY <1>p, <2>1, <2>2, <2>3 DEF EffectsAgree, AnswersAreTrue
<1> QED BY <1>2, <1>3, <1>4, <1>5, <1>6, <1>7, <1>8, <1>9 DEF WorkerStep

\* Every step keeps what is recorded of each command in agreement.
LEMMA EffectsNext == TypeInv /\ RoomKept /\ PlaceInv /\ EffectsAgree /\ [Next]_vars => EffectsAgree'
<1> SUFFICES ASSUME TypeInv, RoomKept, PlaceInv, EffectsAgree, [Next]_vars PROVE EffectsAgree'
  OBVIOUS
<1>1. CASE UNCHANGED vars
  <2>1. \A s : (Queued(s)' <=> Queued(s)) /\ (InWork(s)' <=> InWork(s))
    BY <1>1 DEF vars, workerVars, Queued, InWork
  <2> QED BY <1>1, <2>1
         DEF vars, threadVars, workerVars, history, EffectsAgree, AnswersAreTrue
<1> QED BY <1>1, EffectsThread, EffectsWorker, NextSplits

\* What a caller is told is what its command did, and stays so: no later step of
\* the worker, no late answer and no drop touches it.
THEOREM AnswersStayTrue == Spec => []AnswersAreTrue
<1>1. Init => RoomKept
  BY DEF Init, RoomKept
<1>2. Init => PlaceInv /\ EffectsAgree
  <2> SUFFICES ASSUME Init PROVE PlaceInv /\ EffectsAgree
    OBVIOUS
  <2>1. \A s : ~Queued(s) /\ ~InWork(s)
    BY DEF Init, Queued, InWork
  <2>2. PlaceInv
    BY <2>1 DEF Init, PlaceInv, MessagesDiffer, TicketsDiffer, Holding, Unsent
  <2>3. EffectsAgree
    BY <2>1 DEF Init, EffectsAgree, AnswersAreTrue, Unsent
  <2> QED BY <2>2, <2>3
<1>3. EffectsAgree => AnswersAreTrue
  BY DEF EffectsAgree
<1> QED BY <1>1, <1>2, <1>3, TypeInit, TypeNext, RoomNext, PlaceNext, EffectsNext, PTL DEF Spec
=============================================================================
