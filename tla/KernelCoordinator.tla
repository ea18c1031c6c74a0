------------------------- MODULE KernelCoordinator -------------------------
(***************************************************************************)
(* The resident kernel's coordinator: any number of threads call execute,  *)
(* drain_events and shutdown on one Arc<PhoenixKernel>; one worker thread  *)
(* owns the receiving end of the bounded command channel and is the only   *)
(* writer of the kernel state and of the bounded event queue.              *)
(*                                                                         *)
(* A step is one access to memory the threads share (an atomic, the        *)
(* channel, the event mutex, the state lock).  Consecutive updates of the  *)
(* metric atomics by one thread are one step: KernelMetricAtoms::snapshot  *)
(* reads them one by one and promises nothing about a mixture.             *)
(*                                                                         *)
(* What a command does to the workspace, the documents and the scene is    *)
(* left to the modules about those; here it is refused, it commits (one    *)
(* state revision, one event), or it fails after installing a document     *)
(* (one state revision, no event).                                         *)
(***************************************************************************)
EXTENDS Integers, Sequences, FiniteSets

CONSTANTS
  Threads,          \* threads holding the Arc<PhoenixKernel>
  NoThread,         \* nobody holds the worker-handle mutex
  CommandCapacity,  \* COMMAND_CAPACITY
  EventCapacity,    \* EVENT_CAPACITY
  U64Max            \* u64::MAX, the sequence of the ShuttingDown event; the
                    \* model stops numbering commands before it

ASSUME CoordinatorAssumption ==
  /\ NoThread \notin Threads
  /\ CommandCapacity \in Nat \ {0}
  /\ EventCapacity \in Nat \ {0}
  /\ U64Max \in Nat \ {0}

VARIABLES
  \* shared by every thread
  shutdownStarted,  \* AtomicBool: a shutdown has begun
  nextSequence,     \* AtomicU64
  channel,          \* the messages between sender and receiver
  joinOwner,        \* who holds the mutex around the worker's JoinHandle
  handleTaken,      \* the JoinHandle has been taken out of the mutex
  revision,         \* KernelState.revision
  shuttingDown,     \* KernelState.shutting_down
  events,           \* the event queue
  \* shared too: KernelMetricAtoms
  submitted,        \* commands_submitted
  completed,        \* commands_completed
  rejected,         \* commands_rejected
  published,        \* events_published
  lastSequence,     \* last_sequence
  pending,          \* commands_pending
  highWater,        \* command_queue_high_water
  workerExited,     \* worker_exited
  \* per thread
  pc,               \* where the thread is inside execute or shutdown
  ticket,           \* the sequence of the call it is in
  reply,            \* what its reply channel holds
  returned,         \* what its last shutdown returned
  \* the worker
  worker,           \* where it is in coordinator_loop
  envelope,         \* the message it is handling
  result,           \* what it will answer
  \* history, read by no action
  effect,           \* what the command with a sequence did to the kernel
  verdict           \* what its caller was told

threadVars == <<pc, ticket, reply, returned>>
workerVars == <<worker, envelope, result>>
joinVars == <<joinOwner, handleTaken>>
metrics == <<submitted, completed, rejected, published, lastSequence, pending, highWater,
             workerExited>>
stateVars == <<revision, shuttingDown, events>>
history == <<effect, verdict>>
vars == <<shutdownStarted, nextSequence, channel, joinVars, stateVars, metrics,
          threadVars, workerVars, history>>

Sequences1 == 1..(U64Max - 1)          \* the sequences commands are given

Message == [kind: {"command", "shutdown"}, sequence: 1..U64Max, from: Threads]
Event == [sequence: 1..U64Max, revision: Nat]

CommandAnswers == {"ok", "refused", "event_queue_full"}
Replies == CommandAnswers \cup {"none", "dropped"}
Verdicts == CommandAnswers \cup {"open", "command_queue_full", "unavailable", "timed_out"}
Returns == CommandAnswers \cup {"none", "shutdown_ok", "timed_out"}

ThreadSteps == {"idle", "checked", "reserved", "sent", "waiting", "full", "disconnected",
                "shutdown_send", "shutdown_wait", "join", "joining"}
WorkerSteps == {"idle", "received", "checked", "committed", "answering", "exit",
                "exiting", "gone"}

SharedTypes ==
  /\ shutdownStarted \in BOOLEAN
  /\ nextSequence \in 1..U64Max
  /\ joinOwner \in Threads \cup {NoThread}
  /\ handleTaken \in BOOLEAN

MetricTypes ==
  /\ submitted \in Nat
  /\ completed \in Nat
  /\ rejected \in Nat
  /\ published \in Nat
  /\ lastSequence \in 0..U64Max
  /\ pending \in Int
  /\ highWater \in Int
  /\ workerExited \in BOOLEAN

QueueTypes ==
  /\ channel \in Seq(Message)
  /\ Len(channel) <= CommandCapacity
  /\ events \in Seq(Event)
  /\ Len(events) <= EventCapacity

ThreadTypes ==
  /\ pc \in [Threads -> ThreadSteps]
  /\ ticket \in [Threads -> 0..U64Max]
  /\ reply \in [Threads -> Replies]
  /\ returned \in [Threads -> Returns]

WorkerTypes ==
  /\ revision \in Nat
  /\ shuttingDown \in BOOLEAN
  /\ worker \in WorkerSteps
  /\ envelope \in Message \cup {[kind |-> "none"]}
  /\ result \in CommandAnswers

HistoryTypes ==
  /\ effect \in [Sequences1 -> {"none", "changed", "event"}]
  /\ verdict \in [Sequences1 -> Verdicts]

\* Every variable has its type and the two queues keep to their capacities.
TypeOK ==
  SharedTypes /\ MetricTypes /\ QueueTypes /\ ThreadTypes /\ WorkerTypes /\ HistoryTypes

\* start_internal: revision 1, sequences from 1, empty queues, a fresh worker.
Init ==
  /\ shutdownStarted = FALSE
  /\ nextSequence = 1
  /\ channel = <<>>
  /\ joinOwner = NoThread
  /\ handleTaken = FALSE
  /\ revision = 1
  /\ shuttingDown = FALSE
  /\ events = <<>>
  /\ submitted = 0
  /\ completed = 0
  /\ rejected = 0
  /\ published = 0
  /\ lastSequence = 0
  /\ pending = 0
  /\ highWater = 0
  /\ workerExited = FALSE
  /\ pc = [t \in Threads |-> "idle"]
  /\ ticket = [t \in Threads |-> 0]
  /\ reply = [t \in Threads |-> "none"]
  /\ returned = [t \in Threads |-> "none"]
  /\ worker = "idle"
  /\ envelope = [kind |-> "none"]
  /\ result = "ok"
  /\ effect = [s \in Sequences1 |-> "none"]
  /\ verdict = [s \in Sequences1 |-> "open"]

-----------------------------------------------------------------------------
(***************************************************************************)
(* execute                                                                 *)
(***************************************************************************)

\* Thread t leaves its call; its reply channel goes with it.
Leave(t) ==
  /\ pc' = [pc EXCEPT ![t] = "idle"]
  /\ ticket' = [ticket EXCEPT ![t] = 0]
  /\ reply' = [reply EXCEPT ![t] = "none"]

\* Thread t leaves execute: the history keeps what its caller is told.
ReturnCommand(t, answer) ==
  /\ Leave(t)
  /\ verdict' = [verdict EXCEPT ![ticket[t]] = answer]
  /\ UNCHANGED <<returned, effect>>

\* Thread t leaves shutdown.
ReturnShutdown(t, answer) ==
  /\ Leave(t)
  /\ returned' = [returned EXCEPT ![t] = answer]

\* The bound on the number of calls: every thread that passed the flag finds a
\* sequence below U64Max.
SequencesLeft ==
  nextSequence + Cardinality({t \in Threads : pc[t] = "checked"}) < U64Max

\* The shutdown flag is read first, alone.  A caller that finds it set gets
\* ShuttingDown back and has changed nothing.
CheckShutdown(t) ==
  /\ pc[t] = "idle"
  /\ ~shutdownStarted
  /\ SequencesLeft
  /\ pc' = [pc EXCEPT ![t] = "checked"]
  /\ UNCHANGED <<shutdownStarted, nextSequence, channel, joinVars, stateVars, metrics,
                 ticket, reply, returned, workerVars, history>>

\* next_sequence.fetch_add, then the pending count and its high-water mark:
\* all before the message is in the channel.
Reserve(t) ==
  /\ pc[t] = "checked"
  /\ nextSequence < U64Max
  /\ nextSequence' = nextSequence + 1
  /\ ticket' = [ticket EXCEPT ![t] = nextSequence]
  /\ pending' = pending + 1
  /\ highWater' = IF highWater > pending THEN highWater ELSE pending + 1
  /\ pc' = [pc EXCEPT ![t] = "reserved"]
  /\ UNCHANGED <<shutdownStarted, channel, joinVars, stateVars, submitted, completed,
                 rejected, published, lastSequence, workerExited, reply, returned,
                 workerVars, history>>

\* Changed for the check of TypeOK: send in place of try_send on a channel
\* without a bound.
TrySendUnbounded(t) ==
  /\ pc[t] = "reserved"
  /\ worker # "gone"
  /\ channel' = Append(channel, [kind |-> "command", sequence |-> ticket[t], from |-> t])
  /\ pc' = [pc EXCEPT ![t] = "sent"]
  /\ UNCHANGED <<shutdownStarted, nextSequence, joinVars, stateVars, metrics, ticket,
                 reply, returned, workerVars, history>>

\* try_send: the channel takes the message, is full, or has lost its receiver.
TrySend(t) ==
  /\ pc[t] = "reserved"
  /\ \/ /\ worker # "gone"
        /\ Len(channel) < CommandCapacity
        /\ channel' = Append(channel, [kind |-> "command", sequence |-> ticket[t], from |-> t])
        /\ pc' = [pc EXCEPT ![t] = "sent"]
     \/ /\ worker # "gone"
        /\ Len(channel) >= CommandCapacity
        /\ pc' = [pc EXCEPT ![t] = "full"]
        /\ UNCHANGED channel
     \/ /\ worker = "gone"
        /\ pc' = [pc EXCEPT ![t] = "disconnected"]
        /\ UNCHANGED channel
  /\ UNCHANGED <<shutdownStarted, nextSequence, joinVars, stateVars, metrics, ticket,
                 reply, returned, workerVars, history>>

\* A message in the channel is counted as submitted only now, when the worker
\* may already have answered it.
CountSubmitted(t) ==
  /\ pc[t] = "sent"
  /\ submitted' = submitted + 1
  /\ pc' = [pc EXCEPT ![t] = "waiting"]
  /\ UNCHANGED <<shutdownStarted, nextSequence, channel, joinVars, stateVars, completed,
                 rejected, published, lastSequence, pending, highWater, workerExited,
                 ticket, reply, returned, workerVars, history>>

\* Changed for the check of CallsAreAccounted: the disconnected branch forgets
\* to count the rejection.
CountUnsentWhenFull(t) ==
  /\ pc[t] \in {"full", "disconnected"}
  /\ pending' = pending - 1
  /\ rejected' = IF pc[t] = "full" THEN rejected + 1 ELSE rejected
  /\ ReturnCommand(t, IF pc[t] = "full" THEN "command_queue_full" ELSE "unavailable")
  /\ UNCHANGED <<shutdownStarted, nextSequence, channel, joinVars, stateVars, submitted,
                 completed, published, lastSequence, highWater, workerExited, workerVars>>

\* A message that was not sent is taken out of the pending count again.
CountUnsent(t) ==
  /\ pc[t] \in {"full", "disconnected"}
  /\ pending' = pending - 1
  /\ rejected' = rejected + 1
  /\ ReturnCommand(t, IF pc[t] = "full" THEN "command_queue_full" ELSE "unavailable")
  /\ UNCHANGED <<shutdownStarted, nextSequence, channel, joinVars, stateVars, submitted,
                 completed, published, lastSequence, highWater, workerExited, workerVars>>

\* recv_timeout yields the worker's answer, or an error when the worker dropped
\* the message unanswered; execute calls that error a timeout too.
TakeReply(t) ==
  /\ pc[t] = "waiting"
  /\ reply[t] # "none"
  /\ ReturnCommand(t, IF reply[t] = "dropped" THEN "timed_out" ELSE reply[t])
  /\ UNCHANGED <<shutdownStarted, nextSequence, channel, joinVars, stateVars, metrics,
                 workerVars>>

\* COMMAND_TIMEOUT runs out: the caller leaves, its message stays where it is.
CommandTimeout(t) ==
  /\ pc[t] = "waiting"
  /\ reply[t] = "none"
  /\ ReturnCommand(t, "timed_out")
  /\ UNCHANGED <<shutdownStarted, nextSequence, channel, joinVars, stateVars, metrics,
                 workerVars>>

\* drain_events by a thread that is in no call.
DrainEvents(t) ==
  /\ pc[t] = "idle"
  /\ events # <<>>
  /\ events' = <<>>
  /\ UNCHANGED <<shutdownStarted, nextSequence, channel, joinVars, revision, shuttingDown,
                 metrics, threadVars, workerVars, history>>

-----------------------------------------------------------------------------
(***************************************************************************)
(* shutdown and join_worker                                                *)
(***************************************************************************)

\* shutdown_started.swap: the first caller goes on to send, the others to join.
BeginShutdown(t) ==
  /\ pc[t] = "idle"
  /\ shutdownStarted' = TRUE
  /\ \/ /\ ~shutdownStarted
        /\ pc' = [pc EXCEPT ![t] = "shutdown_send"]
        /\ ticket' = [ticket EXCEPT ![t] = U64Max]
     \/ /\ shutdownStarted
        /\ pc' = [pc EXCEPT ![t] = "join"]
        /\ UNCHANGED ticket
  /\ UNCHANGED <<nextSequence, channel, joinVars, stateVars, metrics, reply, returned,
                 workerVars, history>>

\* The blocking send of the Shutdown message.  The worker leaves its loop only
\* for this one message, so the receiver is still there.
SendShutdown(t) ==
  /\ pc[t] = "shutdown_send"
  /\ Len(channel) < CommandCapacity
  /\ channel' = Append(channel, [kind |-> "shutdown", sequence |-> U64Max, from |-> t])
  /\ pc' = [pc EXCEPT ![t] = "shutdown_wait"]
  /\ UNCHANGED <<shutdownStarted, nextSequence, joinVars, stateVars, metrics, ticket, reply,
                 returned, workerVars, history>>

\* Only a successful answer is followed by the join.
TakeShutdownReply(t) ==
  /\ pc[t] = "shutdown_wait"
  /\ reply[t] # "none"
  /\ \/ /\ reply[t] = "ok"
        /\ pc' = [pc EXCEPT ![t] = "join"]
        /\ reply' = [reply EXCEPT ![t] = "none"]
        /\ UNCHANGED <<ticket, returned>>
     \/ /\ reply[t] # "ok"
        /\ ReturnShutdown(t, IF reply[t] = "dropped" THEN "timed_out" ELSE reply[t])
  /\ UNCHANGED <<shutdownStarted, nextSequence, channel, joinVars, stateVars, metrics,
                 workerVars, history>>

ShutdownTimeout(t) ==
  /\ pc[t] = "shutdown_wait"
  /\ reply[t] = "none"
  /\ ReturnShutdown(t, "timed_out")
  /\ UNCHANGED <<shutdownStarted, nextSequence, channel, joinVars, stateVars, metrics,
                 workerVars, history>>

\* Changed for the check of ShutdownOkMeansWorkerGone: the handle is taken in a
\* statement of its own, so the mutex is free again during the join.
LockHandleBriefly(t) ==
  /\ pc[t] = "join"
  /\ joinOwner = NoThread
  /\ \/ /\ ~handleTaken
        /\ handleTaken' = TRUE
        /\ pc' = [pc EXCEPT ![t] = "joining"]
        /\ UNCHANGED <<joinOwner, ticket, reply, returned>>
     \/ /\ handleTaken
        /\ ReturnShutdown(t, "shutdown_ok")
        /\ UNCHANGED joinVars
  /\ UNCHANGED <<shutdownStarted, nextSequence, channel, stateVars, metrics, workerVars,
                 history>>

\* join_worker takes the handle out of its mutex, if it is still there, and
\* keeps the mutex while it joins.
LockHandle(t) ==
  /\ pc[t] = "join"
  /\ joinOwner = NoThread
  /\ \/ /\ ~handleTaken
        /\ joinOwner' = t
        /\ handleTaken' = TRUE
        /\ pc' = [pc EXCEPT ![t] = "joining"]
        /\ UNCHANGED <<ticket, reply, returned>>
     \/ /\ handleTaken
        /\ ReturnShutdown(t, "shutdown_ok")
        /\ UNCHANGED joinVars
  /\ UNCHANGED <<shutdownStarted, nextSequence, channel, stateVars, metrics, workerVars,
                 history>>

FinishJoin(t) ==
  /\ pc[t] = "joining"
  /\ worker = "gone"
  /\ joinOwner' = NoThread
  /\ ReturnShutdown(t, "shutdown_ok")
  /\ UNCHANGED <<shutdownStarted, nextSequence, channel, handleTaken, stateVars, metrics,
                 workerVars, history>>

-----------------------------------------------------------------------------
(***************************************************************************)
(* coordinator_loop                                                        *)
(***************************************************************************)

\* Changed for the check of AnswersAreTrue: one reply channel per thread, so
\* that a late answer reaches the thread's next call.
ListeningPerThread(m) ==
  pc[m.from] \in {"sent", "waiting", "shutdown_wait"}

\* The reply channel of m still has its receiver.
Listening(m) ==
  /\ ticket[m.from] = m.sequence
  /\ pc[m.from] \in {"sent", "waiting", "shutdown_wait"}

\* Received commands leave the pending count before anything else happens.
Receive ==
  /\ worker = "idle"
  /\ channel # <<>>
  /\ envelope' = Head(channel)
  /\ channel' = Tail(channel)
  /\ worker' = "received"
  /\ pending' = IF Head(channel).kind = "command" THEN pending - 1 ELSE pending
  /\ UNCHANGED <<shutdownStarted, nextSequence, joinVars, stateVars, submitted, completed,
                 rejected, published, lastSequence, highWater, workerExited, threadVars,
                 result, history>>

\* Changed for the check of CommittedIsPublishable: > in place of >=.
CheckEventSpaceOffByOne ==
  /\ worker = "received"
  /\ \/ /\ Len(events) > EventCapacity
        /\ worker' = "answering"
        /\ result' = "event_queue_full"
     \/ /\ Len(events) <= EventCapacity
        /\ worker' = "checked"
        /\ UNCHANGED result
  /\ UNCHANGED <<shutdownStarted, nextSequence, channel, joinVars, stateVars, metrics,
                 threadVars, envelope, history>>

\* ensure_event_space: the first thing a command, and the shutdown, does.
CheckEventSpace ==
  /\ worker = "received"
  /\ \/ /\ Len(events) >= EventCapacity
        /\ worker' = "answering"
        /\ result' = "event_queue_full"
     \/ /\ Len(events) < EventCapacity
        /\ worker' = "checked"
        /\ UNCHANGED result
  /\ UNCHANGED <<shutdownStarted, nextSequence, channel, joinVars, stateVars, metrics,
                 threadVars, envelope, history>>

\* A command that fails before it changes anything.
Refuse ==
  /\ worker = "checked"
  /\ envelope.kind = "command"
  /\ worker' = "answering"
  /\ result' = "refused"
  /\ UNCHANGED <<shutdownStarted, nextSequence, channel, joinVars, stateVars, metrics,
                 threadVars, envelope, history>>

\* A save or tag whose document was committed and whose registry was not: the
\* new lease is installed, the revision moves, and the command fails.
InstallAndFail ==
  /\ worker = "checked"
  /\ envelope.kind = "command"
  /\ revision' = revision + 1
  /\ effect' = [effect EXCEPT ![envelope.sequence] = "changed"]
  /\ worker' = "answering"
  /\ result' = "refused"
  /\ UNCHANGED <<shutdownStarted, nextSequence, channel, joinVars, shuttingDown, events,
                 metrics, threadVars, envelope, verdict>>

\* Changed for the check of EventRevisionsIncrease: a command that forgets
\* checked_revision.
CommitSameRevision ==
  /\ worker = "checked"
  /\ envelope.kind = "command"
  /\ effect' = [effect EXCEPT ![envelope.sequence] = "changed"]
  /\ worker' = "committed"
  /\ UNCHANGED <<shutdownStarted, nextSequence, channel, joinVars, stateVars, metrics,
                 threadVars, envelope, result, verdict>>

\* The state lock is taken, the command's change and the next revision are
\* written, and the lock is released: the event is not out yet.
Commit ==
  /\ worker = "checked"
  /\ envelope.kind = "command"
  /\ revision' = revision + 1
  /\ effect' = [effect EXCEPT ![envelope.sequence] = "changed"]
  /\ worker' = "committed"
  /\ UNCHANGED <<shutdownStarted, nextSequence, channel, joinVars, shuttingDown, events,
                 metrics, threadVars, envelope, result, verdict>>

MarkShuttingDown ==
  /\ worker = "checked"
  /\ envelope.kind = "shutdown"
  /\ shuttingDown' = TRUE
  /\ revision' = revision + 1
  /\ worker' = "committed"
  /\ UNCHANGED <<shutdownStarted, nextSequence, channel, joinVars, events, metrics,
                 threadVars, envelope, result, history>>

\* push_event checks the capacity once more and would fail the command it is
\* called for, whose state is already committed.
PushEvent ==
  /\ worker = "committed"
  /\ IF Len(events) >= EventCapacity
     THEN /\ result' = "event_queue_full"
          /\ UNCHANGED <<events, published, effect>>
     ELSE /\ result' = "ok"
          /\ events' = Append(events, [sequence |-> envelope.sequence,
                                       revision |-> revision])
          /\ published' = published + 1
          /\ effect' = IF envelope.kind = "command"
                       THEN [effect EXCEPT ![envelope.sequence] = "event"]
                       ELSE effect
  /\ worker' = "answering"
  /\ UNCHANGED <<shutdownStarted, nextSequence, channel, joinVars, revision, shuttingDown,
                 submitted, completed, rejected, lastSequence, pending, highWater,
                 workerExited, threadVars, envelope, verdict>>

\* The answer reaches the caller if it still listens; the loop goes on after a
\* command and ends after the shutdown.
Deliver ==
  reply' = IF Listening(envelope) THEN [reply EXCEPT ![envelope.from] = result] ELSE reply

Answer ==
  /\ worker = "answering"
  /\ envelope.kind = "command"
  /\ \/ /\ result = "ok"
        /\ completed' = completed + 1
        /\ lastSequence' = envelope.sequence
        /\ UNCHANGED rejected
     \/ /\ result # "ok"
        /\ rejected' = rejected + 1
        /\ UNCHANGED <<completed, lastSequence>>
  /\ Deliver
  /\ worker' = "idle"
  /\ UNCHANGED <<shutdownStarted, nextSequence, channel, joinVars, stateVars, submitted,
                 published, pending, highWater, workerExited, pc, ticket, returned, envelope,
                 result, history>>

\* Changed for the check of NoCommitAfterShutdown: no break after the answer.
AnswerShutdownGoOn ==
  /\ worker = "answering"
  /\ envelope.kind = "shutdown"
  /\ Deliver
  /\ worker' = "idle"
  /\ UNCHANGED <<shutdownStarted, nextSequence, channel, joinVars, stateVars, metrics, pc,
                 ticket, returned, envelope, result, history>>

\* Changed for the check of ShutdownStopsWorker: the loop ends only when the
\* shutdown could publish its event.
AnswerShutdownIfOk ==
  /\ worker = "answering"
  /\ envelope.kind = "shutdown"
  /\ Deliver
  /\ \/ result = "ok" /\ worker' = "exit"
     \/ result # "ok" /\ worker' = "idle"
  /\ UNCHANGED <<shutdownStarted, nextSequence, channel, joinVars, stateVars, metrics, pc,
                 ticket, returned, envelope, result, history>>

AnswerShutdown ==
  /\ worker = "answering"
  /\ envelope.kind = "shutdown"
  /\ Deliver
  /\ worker' = "exit"
  /\ UNCHANGED <<shutdownStarted, nextSequence, channel, joinVars, stateVars, metrics, pc,
                 ticket, returned, envelope, result, history>>

ReportExit ==
  /\ worker = "exit"
  /\ workerExited' = TRUE
  /\ worker' = "exiting"
  /\ UNCHANGED <<shutdownStarted, nextSequence, channel, joinVars, stateVars, submitted,
                 completed, rejected, published, lastSequence, pending, highWater,
                 threadVars, envelope, result, history>>

\* Changed for the check of EveryCallReturns: the messages outlive the receiver
\* and keep their reply senders.
DropReceiverOnly ==
  /\ worker = "exiting"
  /\ worker' = "gone"
  /\ UNCHANGED <<shutdownStarted, nextSequence, channel, joinVars, stateVars, metrics,
                 threadVars, envelope, result, history>>

\* The thread function returns: the receiver goes, and with it every message
\* still in the channel and the reply senders they carry.
DropReceiver ==
  /\ worker = "exiting"
  /\ worker' = "gone"
  /\ channel' = <<>>
  /\ reply' = [t \in Threads |->
                 IF \E i \in 1..Len(channel) : channel[i].from = t /\ Listening(channel[i])
                 THEN "dropped" ELSE reply[t]]
  /\ UNCHANGED <<shutdownStarted, nextSequence, joinVars, stateVars, metrics, pc, ticket,
                 returned, envelope, result, history>>

-----------------------------------------------------------------------------
WorkerStep ==
  \/ Receive \/ CheckEventSpace \/ Refuse \/ InstallAndFail \/ Commit \/ MarkShuttingDown
  \/ PushEvent \/ Answer \/ AnswerShutdown \/ ReportExit \/ DropReceiver

\* What a thread inside a call does next, timeouts apart.
CallStep(t) ==
  \/ Reserve(t) \/ TrySend(t) \/ CountSubmitted(t) \/ CountUnsent(t) \/ TakeReply(t)
  \/ SendShutdown(t) \/ TakeShutdownReply(t) \/ LockHandle(t) \/ FinishJoin(t)

Next ==
  \/ WorkerStep
  \/ \E t \in Threads :
       \/ CallStep(t)
       \/ CheckShutdown(t)
       \/ BeginShutdown(t)
       \/ DrainEvents(t)
       \/ CommandTimeout(t)
       \/ ShutdownTimeout(t)

Spec == Init /\ [][Next]_vars

\* The worker thread and a thread inside a call are scheduled and the work of a
\* command is finite.  Nobody is obliged to call, to drain, or to time out.
Fairness == WF_vars(WorkerStep) /\ \A t \in Threads : WF_vars(CallStep(t))
FairSpec == Spec /\ Fairness

-----------------------------------------------------------------------------
(***************************************************************************)
(* What the coordinator guarantees                                         *)
(***************************************************************************)

\* A command whose state change is committed always gets its event out, and the
\* same for the shutdown: room found by ensure_event_space before the change is
\* still there at push_event, although other threads drain in between.
CommittedIsPublishable == worker = "committed" => Len(events) < EventCapacity

\* What a caller was told stays true whatever happens later: an accepted command
\* has published its event, a refused one has published none, and one rejected
\* before it was queued or for lack of event space never touched the state.
\* Only a timeout says nothing.
AnswersAreTrue ==
  \A s \in Sequences1 :
    /\ verdict[s] = "ok" => effect[s] = "event"
    /\ verdict[s] = "refused" => effect[s] # "event"
    /\ verdict[s] \in {"command_queue_full", "unavailable", "event_queue_full"}
         => effect[s] = "none"

\* Commands the worker has taken from the channel and not answered yet.
InHand ==
  IF worker \in {"received", "checked", "committed", "answering"} /\ envelope.kind = "command"
  THEN 1 ELSE 0

\* No call is lost from the counters: every sequence handed out is pending,
\* completed, rejected, or in the worker's hand, also after a shutdown, when the
\* messages dropped with the receiver stay pending for ever.
CallsAreAccounted ==
  nextSequence - 1 = pending + completed + rejected + InHand

\* Consumers that order events by kernel revision see them in the order of the
\* commits, and none from the future.
EventRevisionsIncrease ==
  /\ \A i, j \in 1..Len(events) : i < j => events[i].revision < events[j].revision
  /\ \A i \in 1..Len(events) : events[i].revision <= revision

\* A shutdown that returns Ok, whoever called it, returns after the worker is
\* gone.
ShutdownOkMeansWorkerGone ==
  \A t \in Threads : returned[t] = "shutdown_ok" => worker = "gone" /\ workerExited

\* Once the state says shutting down nothing commits any more.
NoCommitAfterShutdown == [][shuttingDown => revision' = revision]_vars

\* Every call returns even if no timeout ever fires: also the calls whose
\* messages are dropped with the receiver, those that find the event queue full,
\* and the second and later shutdowns.
EveryCallReturns == \A t \in Threads : pc[t] # "idle" ~> pc[t] = "idle"

\* A shutdown once begun stops the worker, whatever is queued before or behind
\* its message and whether or not it can publish its event.
ShutdownStopsWorker == shutdownStarted ~> worker = "gone"
=============================================================================
