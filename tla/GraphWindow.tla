---------------------------- MODULE GraphWindow ----------------------------
(***************************************************************************)
(* The embedded graph window: a thread with an event loop of its own, the  *)
(* viewport mailbox and the bounded command channel that the shell's UI    *)
(* thread and the proof thread use to drive it, and the start and the      *)
(* shutdown of the whole.                                                  *)
(*                                                                         *)
(* A step is one access to what threads share: the mailbox mutex, the      *)
(* channel, the loop's event queue, the kernel's snapshot.  The wake       *)
(* events CommandsReady and ViewportReady are handled alike, so only their *)
(* number is kept.  Renderer, telemetry samples and input events are left  *)
(* out; any of the fallible steps may fail, which makes the loop exit.     *)
(***************************************************************************)
EXTENDS Integers, Sequences, FiniteSets

CONSTANTS
  Shapes,           \* positions and sizes of a viewport
  NoShape,          \* the shape of ViewportGeometry::hidden()
  Manifolds,        \* the manifolds a view can show
  CommandCapacity,  \* COMMAND_CAPACITY
  MaxRevision,      \* bound: geometries published
  MaxGeneration,    \* bound: scene generations
  MaxWakes          \* bound: wake events queued or owed

ASSUME WindowAssumption ==
  /\ NoShape \notin Shapes
  /\ Manifolds # {}
  /\ CommandCapacity \in Nat \ {0}
  /\ MaxRevision \in Nat
  /\ MaxGeneration \in Nat \ {0}
  /\ MaxWakes \in Nat

\* The UI thread, the background thread of GraphProofHandle::run, and the
\* background task that shuts the window down.
Threads == {"ui", "proof", "closer"}

VARIABLES
  \* shared
  latest,       \* ViewportState.latest
  wakePending,  \* ViewportState.wake_pending
  proofActive,  \* ViewportState.proof_active
  channel,      \* GraphWindowCommands between sender and receiver
  pending,      \* GraphQueueMetrics.pending
  wakes,        \* user events in the event loop's queue
  scene,        \* the kernel's resident generation and the manifold it shows
  \* GraphWindow::start, on a background thread
  starter,      \* where it is
  ready,        \* what its ready channel holds
  \* the callers
  handle,       \* the shell's cell for the GraphWindow
  pc,           \* where each thread is
  job,          \* the command it sends or will send, "none" if it sends none
  wanted,       \* the geometry it is publishing, or has last published
  answer,       \* what its reply channel holds
  \* the window thread
  win,          \* where it is
  pass,         \* for what: a wake event ("wake") or about_to_wait ("idle")
  exiting,      \* ActiveEventLoop::exit was called
  taken,        \* the geometry next_after gave it
  applied,      \* applied_geometry and applied_viewport_revision
  loaded        \* loaded_generation and loaded_manifold

mailbox == <<latest, wakePending, proofActive>>
queue == <<channel, pending>>
startVars == <<starter, ready>>
callVars == <<pc, job, wanted, answer>>
loopVars == <<win, pass, exiting>>
viewVars == <<taken, applied>>
vars == <<mailbox, queue, wakes, scene, startVars, handle, callVars, loopVars, viewVars,
          loaded>>

Geometry == [shape: Shapes \cup {NoShape}, visible: BOOLEAN]
Stamped == [revision: 0..MaxRevision, geometry: Geometry]
Hidden == [shape |-> NoShape, visible |-> FALSE]
Scene == [generation: 1..MaxGeneration, manifold: Manifolds]
Jobs == {"none", "sync", "query", "shutdown"}

\* A "stale" query is one whose asker has stopped listening.
Command == [kind: {"sync", "query", "stale", "shutdown"}, from: Threads]

CallSteps == {"idle", "publish", "wake_viewport", "begin", "sending", "sent", "waiting",
              "cancel", "over", "join", "done"}
WindowSteps == {"init", "asleep", "dispatch", "viewport", "apply", "commands", "sync",
                "closing", "gone"}

MailboxTypes ==
  /\ latest \in Stamped
  /\ wakePending \in BOOLEAN
  /\ proofActive \in BOOLEAN

QueueTypes ==
  /\ channel \in Seq(Command)
  /\ Len(channel) <= CommandCapacity
  /\ pending \in Nat
  /\ wakes \in Nat

CallTypes ==
  /\ pc \in [Threads -> CallSteps]
  /\ job \in [Threads -> Jobs]
  /\ wanted \in [Threads -> Geometry]
  /\ answer \in [Threads -> {"none", "ok", "dropped"}]

StartTypes ==
  /\ starter \in {"waiting", "joining", "ok", "error"}
  /\ ready \in {"none", "ok", "error"}
  /\ handle \in {"none", "open", "taken"}

WindowTypes ==
  /\ win \in WindowSteps
  /\ pass \in {"wake", "idle"}
  /\ exiting \in BOOLEAN
  /\ taken \in Stamped
  /\ applied \in Stamped
  /\ scene \in Scene
  /\ loaded \in Scene

\* Every variable has its type; the channel keeps to its capacity, and the count
\* of pending commands never wraps below zero, also when sends fail.
TypeOK == MailboxTypes /\ QueueTypes /\ CallTypes /\ StartTypes /\ WindowTypes

\* The window thread has just been spawned.
Init ==
  /\ latest = [revision |-> 0, geometry |-> Hidden]
  /\ wakePending = FALSE
  /\ proofActive = FALSE
  /\ channel = <<>>
  /\ pending = 0
  /\ wakes = 0
  /\ scene \in {s \in Scene : s.generation = 1}
  /\ starter = "waiting"
  /\ ready = "none"
  /\ handle = "none"
  /\ pc = [t \in Threads |-> "idle"]
  /\ job = [t \in Threads |-> "none"]
  /\ wanted = [t \in Threads |-> Hidden]
  /\ answer = [t \in Threads |-> "none"]
  /\ win = "init"
  /\ pass = "idle"
  /\ exiting = FALSE
  /\ taken = latest
  /\ applied = latest
  /\ loaded = scene

-----------------------------------------------------------------------------
(***************************************************************************)
(* GraphWindow::start                                                      *)
(***************************************************************************)

\* resumed and initialize: the child window and its renderer come up on the
\* scene of the moment, or the loop is told to exit.
Initialize ==
  /\ win = "init"
  /\ \/ /\ ready' = "ok"
        /\ loaded' = scene
        /\ win' = "dispatch"
        /\ UNCHANGED exiting
     \/ /\ ready' = "error"
        /\ exiting' = TRUE
        /\ win' = "dispatch"
        /\ UNCHANGED loaded
  /\ UNCHANGED <<mailbox, queue, wakes, scene, starter, handle, callVars, pass, viewVars>>

\* The ready message arrives; an error is followed by a join.
TakeReady ==
  /\ starter = "waiting"
  /\ \/ ready = "ok" /\ starter' = "ok" /\ handle' = "open"
     \/ ready = "error" /\ starter' = "joining" /\ UNCHANGED handle
  /\ UNCHANGED <<mailbox, queue, wakes, scene, ready, callVars, loopVars, viewVars, loaded>>

\* The 30 seconds run out; the join follows at once.
ReadyTimeout ==
  /\ starter = "waiting"
  /\ ready = "none"
  /\ starter' = "joining"
  /\ UNCHANGED <<mailbox, queue, wakes, scene, ready, handle, callVars, loopVars, viewVars,
                 loaded>>

\* The join before start's error is returned.
StartFails ==
  /\ starter = "joining"
  /\ win = "gone"
  /\ starter' = "error"
  /\ UNCHANGED <<mailbox, queue, wakes, scene, ready, handle, callVars, loopVars, viewVars,
                 loaded>>

-----------------------------------------------------------------------------
(***************************************************************************)
(* The viewport mailbox                                                    *)
(***************************************************************************)

\* Thread t goes on to a step; back in "idle" it has no command to send.
GoTo(t, step) ==
  /\ pc' = [pc EXCEPT ![t] = step]
  /\ job' = IF step = "idle" THEN [job EXCEPT ![t] = "none"] ELSE job

\* Where a thread goes when a step of its call failed: the closer ignores it and
\* joins, the proof is over, the UI reports it.
AfterFailure(t) ==
  CASE job[t] = "shutdown" -> "join"
    [] t = "proof" -> "over"
    [] OTHER -> "idle"

\* Where a thread goes when it has published and needs no wake.
AfterPublish(t) == IF job[t] = "none" THEN "idle" ELSE "begin"

\* record: only a geometry that differs gets a revision, and only the first
\* one after the loop has caught up asks for a wake.
Record(t) ==
  \/ /\ latest.geometry = wanted[t]
     /\ GoTo(t, AfterPublish(t))
     /\ UNCHANGED <<latest, wakePending>>
  \/ /\ latest.geometry # wanted[t]
     /\ latest.revision < MaxRevision
     /\ latest' = [revision |-> latest.revision + 1, geometry |-> wanted[t]]
     /\ wakePending' = TRUE
     /\ GoTo(t, IF wakePending THEN AfterPublish(t) ELSE "wake_viewport")

\* Every thread inside a call owes at most two wakes: one for the viewport, one
\* for the command.
WakesLeft ==
  wakes + 2 * Cardinality({t \in Threads : pc[t] \notin {"idle", "done"}}) + 2 <= MaxWakes

\* Every thread about to publish finds a revision within the bound.
RevisionsLeft ==
  latest.revision + Cardinality({t \in Threads : pc[t] = "publish"}) < MaxRevision

\* set_viewport, with the geometry of the latest layout.
SetViewport ==
  /\ pc["ui"] = "idle"
  /\ handle = "open"
  /\ WakesLeft /\ RevisionsLeft
  /\ \E g \in Geometry :
       /\ g.shape \in Shapes
       /\ wanted' = [wanted EXCEPT !["ui"] = g]
  /\ pc' = [pc EXCEPT !["ui"] = "publish"]
  /\ job' = [job EXCEPT !["ui"] = "none"]
  /\ UNCHANGED <<mailbox, queue, wakes, scene, startVars, handle, answer, loopVars, viewVars,
                 loaded>>

\* hide_viewport reads the latest geometry, publishes it hidden and sends a
\* barrier.
HideViewport ==
  /\ pc["ui"] = "idle"
  /\ handle = "open"
  /\ WakesLeft /\ RevisionsLeft
  /\ wanted' = [wanted EXCEPT !["ui"] = [latest.geometry EXCEPT !.visible = FALSE]]
  /\ pc' = [pc EXCEPT !["ui"] = "publish"]
  /\ job' = [job EXCEPT !["ui"] = "query"]
  /\ UNCHANGED <<mailbox, queue, wakes, scene, startVars, handle, answer, loopVars, viewVars,
                 loaded>>

\* Changed for the check of ProofGeometryStays: the lease is not looked at.
PublishUiAlways ==
  /\ pc["ui"] = "publish"
  /\ Record("ui")
  /\ wanted' = [wanted EXCEPT !["ui"] = Hidden]
  /\ UNCHANGED <<proofActive, queue, wakes, scene, startVars, handle, answer, loopVars,
                 viewVars, loaded>>

\* publish_ui: while a proof holds its lease the UI's geometry is thrown away.
PublishUi ==
  /\ pc["ui"] = "publish"
  /\ \/ /\ proofActive
        /\ GoTo("ui", AfterPublish("ui"))
        /\ UNCHANGED <<latest, wakePending>>
     \/ /\ ~proofActive
        /\ Record("ui")
  /\ wanted' = [wanted EXCEPT !["ui"] = Hidden]
  /\ UNCHANGED <<proofActive, queue, wakes, scene, startVars, handle, answer, loopVars,
                 viewVars, loaded>>

\* begin_proof.  The proof thread has its handle while the window is open.
BeginProof ==
  /\ pc["proof"] = "idle"
  /\ ~proofActive
  /\ handle = "open"
  /\ proofActive' = TRUE
  /\ wanted' = [wanted EXCEPT !["proof"] = latest.geometry]
  /\ UNCHANGED <<latest, wakePending, queue, wakes, scene, startVars, handle, pc, job, answer,
                 loopVars, viewVars, loaded>>

\* The lease is dropped when the proof has done all it wants, or at once when one
\* of its calls failed.
EndProof ==
  /\ pc["proof"] \in {"idle", "over"}
  /\ proofActive
  /\ proofActive' = FALSE
  /\ GoTo("proof", "idle")
  /\ UNCHANGED <<latest, wakePending, queue, wakes, scene, startVars, handle, wanted, answer,
                 loopVars, viewVars, loaded>>

\* set_proof_viewport, always followed by a barrier.
SetProofViewport ==
  /\ pc["proof"] = "idle"
  /\ proofActive
  /\ WakesLeft /\ RevisionsLeft
  /\ \E g \in Geometry :
       /\ g.shape \in Shapes
       /\ wanted' = [wanted EXCEPT !["proof"] = g]
  /\ pc' = [pc EXCEPT !["proof"] = "publish"]
  /\ job' = [job EXCEPT !["proof"] = "query"]
  /\ UNCHANGED <<mailbox, queue, wakes, scene, startVars, handle, answer, loopVars, viewVars,
                 loaded>>

PublishProof ==
  /\ pc["proof"] = "publish"
  /\ Record("proof")
  /\ UNCHANGED <<proofActive, queue, wakes, scene, startVars, handle, wanted, answer, loopVars,
                 viewVars, loaded>>

\* send_event(ViewportReady); an error when the loop is gone ends the call.
WakeViewport(t) ==
  /\ pc[t] = "wake_viewport"
  /\ \/ /\ win \notin {"closing", "gone"}
        /\ wakes' = wakes + 1
        /\ GoTo(t, AfterPublish(t))
     \/ /\ win \in {"closing", "gone"}
        /\ GoTo(t, AfterFailure(t))
        /\ UNCHANGED wakes
  /\ UNCHANGED <<mailbox, queue, scene, startVars, handle, wanted, answer, loopVars,
                 viewVars, loaded>>

-----------------------------------------------------------------------------
(***************************************************************************)
(* Commands                                                                *)
(***************************************************************************)

\* The UI switches the manifold: the kernel's view changes, then the window is
\* told (sync_kernel_state).
SwitchManifold(t) ==
  /\ pc[t] = "idle"
  /\ \/ t = "ui" /\ handle = "open"
     \/ t = "proof" /\ proofActive
  /\ WakesLeft
  /\ \E m \in Manifolds : scene' = [scene EXCEPT !.manifold = m]
  /\ pc' = [pc EXCEPT ![t] = "begin"]
  /\ job' = [job EXCEPT ![t] = "sync"]
  /\ UNCHANGED <<mailbox, queue, wakes, startVars, handle, wanted, answer, loopVars, viewVars,
                 loaded>>

\* The proof asks: a barrier, a telemetry query, a focus probe.
Query ==
  /\ pc["proof"] = "idle"
  /\ proofActive
  /\ WakesLeft
  /\ pc' = [pc EXCEPT !["proof"] = "begin"]
  /\ job' = [job EXCEPT !["proof"] = "query"]
  /\ UNCHANGED <<mailbox, queue, wakes, scene, startVars, handle, wanted, answer, loopVars,
                 viewVars, loaded>>

\* The kernel makes a new generation resident: a registry scene after a save,
\* a tag or a NER batch, or a full scene.  None of them tells the window.
InstallGeneration ==
  /\ scene.generation < MaxGeneration
  /\ scene' = [scene EXCEPT !.generation = @ + 1]
  /\ UNCHANGED <<mailbox, queue, wakes, startVars, handle, callVars, loopVars, viewVars, loaded>>

\* The shell takes the GraphWindow out of its cell, between two of its own
\* calls, and a background task shuts it down.
BeginShutdown ==
  /\ pc["closer"] = "idle"
  /\ handle = "open"
  /\ pc["ui"] = "idle"
  /\ WakesLeft
  /\ handle' = "taken"
  /\ pc' = [pc EXCEPT !["closer"] = "begin"]
  /\ job' = [job EXCEPT !["closer"] = "shutdown"]
  /\ UNCHANGED <<mailbox, queue, wakes, scene, startVars, wanted, answer, loopVars, viewVars,
                 loaded>>

\* Changed for the check of TypeOK: the count is left to the
\* receiver.
BeginSendUncounted(t) ==
  /\ pc[t] = "begin"
  /\ pc' = [pc EXCEPT ![t] = "sending"]
  /\ UNCHANGED <<mailbox, queue, wakes, scene, startVars, handle, job, wanted, answer,
                 loopVars, viewVars, loaded>>

BeginSend(t) ==
  /\ pc[t] = "begin"
  /\ pending' = pending + 1
  /\ pc' = [pc EXCEPT ![t] = "sending"]
  /\ UNCHANGED <<mailbox, channel, wakes, scene, startVars, handle, job, wanted, answer,
                 loopVars, viewVars, loaded>>

\* What follows a send that went through, and one that failed.
AfterSend(t) ==
  CASE job[t] = "query" -> "waiting"
    [] job[t] = "shutdown" -> "join"
    [] OTHER -> "idle"

\* The blocking send: it waits for room, and fails when the receiver is gone.
Send(t) ==
  /\ pc[t] = "sending"
  /\ \/ /\ win # "gone"
        /\ Len(channel) < CommandCapacity
        /\ channel' = Append(channel, [kind |-> job[t], from |-> t])
        /\ pc' = [pc EXCEPT ![t] = "sent"]
     \/ /\ win = "gone"
        /\ pc' = [pc EXCEPT ![t] = "cancel"]
        /\ UNCHANGED channel
  /\ UNCHANGED <<mailbox, pending, wakes, scene, startVars, handle, job, wanted, answer,
                 loopVars, viewVars, loaded>>

CancelSend(t) ==
  /\ pc[t] = "cancel"
  /\ pending' = pending - 1
  /\ GoTo(t, AfterFailure(t))
  /\ UNCHANGED <<mailbox, channel, wakes, scene, startVars, handle, wanted, answer,
                 loopVars, viewVars, loaded>>

\* Changed for the check of CallsReturn: no wake after the send.
WakeCommandsNever(t) ==
  /\ pc[t] = "sent"
  /\ GoTo(t, AfterSend(t))
  /\ UNCHANGED <<mailbox, queue, wakes, scene, startVars, handle, wanted, answer,
                 loopVars, viewVars, loaded>>

\* send_event(CommandsReady): its error ends the call, the command stays in
\* the channel.
WakeCommands(t) ==
  /\ pc[t] = "sent"
  /\ \/ /\ win \notin {"closing", "gone"}
        /\ wakes' = wakes + 1
        /\ GoTo(t, AfterSend(t))
     \/ /\ win \in {"closing", "gone"}
        /\ GoTo(t, AfterFailure(t))
        /\ UNCHANGED wakes
  /\ UNCHANGED <<mailbox, queue, scene, startVars, handle, wanted, answer, loopVars,
                 viewVars, loaded>>

\* The answer, or the loss of the reply sender, which is a failure.
TakeAnswer(t) ==
  /\ pc[t] = "waiting"
  /\ answer[t] # "none"
  /\ GoTo(t, IF answer[t] = "ok" THEN "idle" ELSE AfterFailure(t))
  /\ answer' = [answer EXCEPT ![t] = "none"]
  /\ UNCHANGED <<mailbox, queue, wakes, scene, startVars, handle, wanted, loopVars, viewVars,
                 loaded>>

\* The 10 seconds run out: the caller leaves, its query stays where it is and
\* will be answered to nobody.
AnswerTimeout(t) ==
  /\ pc[t] = "waiting"
  /\ answer[t] = "none"
  /\ GoTo(t, AfterFailure(t))
  /\ channel' = [i \in DOMAIN channel |->
                   IF channel[i] = [kind |-> "query", from |-> t]
                   THEN [kind |-> "stale", from |-> t] ELSE channel[i]]
  /\ UNCHANGED <<mailbox, pending, wakes, scene, startVars, handle, wanted, answer, loopVars,
                 viewVars, loaded>>

Join ==
  /\ pc["closer"] = "join"
  /\ win = "gone"
  /\ pc' = [pc EXCEPT !["closer"] = "done"]
  /\ UNCHANGED <<mailbox, queue, wakes, scene, startVars, handle, job, wanted, answer,
                 loopVars, viewVars, loaded>>

-----------------------------------------------------------------------------
(***************************************************************************)
(* The window thread                                                       *)
(***************************************************************************)

\* The loop sleeps until there is a user event.
Awake ==
  /\ win = "asleep"
  /\ wakes > 0
  /\ win' = "dispatch"
  /\ UNCHANGED <<mailbox, queue, wakes, scene, startVars, handle, callVars, pass, exiting,
                 viewVars, loaded>>

\* An event of the operating system wakes it too: input, or one that ends the
\* loop (a close request, a frame that fails).
SystemEvent ==
  /\ win = "asleep"
  /\ win' = "dispatch"
  /\ exiting' \in BOOLEAN
  /\ UNCHANGED <<mailbox, queue, wakes, scene, startVars, handle, callVars, pass, viewVars,
                 loaded>>

\* user_event
UserEvent ==
  /\ win = "dispatch"
  /\ ~exiting
  /\ wakes > 0
  /\ wakes' = wakes - 1
  /\ pass' = "wake"
  /\ win' = "viewport"
  /\ UNCHANGED <<mailbox, queue, scene, startVars, handle, callVars, exiting, viewVars, loaded>>

\* about_to_wait, when no event is left.
AboutToWait ==
  /\ win = "dispatch"
  /\ ~exiting
  /\ wakes = 0
  /\ pass' = "idle"
  /\ win' = "viewport"
  /\ UNCHANGED <<mailbox, queue, wakes, scene, startVars, handle, callVars, exiting, viewVars,
                 loaded>>

\* Changed for the check of ViewportSettles: a reader
\* that has caught up leaves the flag set.
NextAfterKeepsFlag ==
  /\ win = "viewport"
  /\ \/ /\ latest.revision = applied.revision
        /\ win' = IF pass = "wake" THEN "commands" ELSE "sync"
        /\ UNCHANGED taken
     \/ /\ latest.revision # applied.revision
        /\ taken' = latest
        /\ win' = "apply"
  /\ UNCHANGED <<mailbox, queue, wakes, scene, startVars, handle, callVars, pass, exiting,
                 applied, loaded>>

\* next_after: caught up, the flag is cleared; otherwise the latest geometry.
NextAfter ==
  /\ win = "viewport"
  /\ \/ /\ latest.revision = applied.revision
        /\ wakePending' = FALSE
        /\ win' = IF pass = "wake" THEN "commands" ELSE "sync"
        /\ UNCHANGED taken
     \/ /\ latest.revision # applied.revision
        /\ taken' = latest
        /\ win' = "apply"
        /\ UNCHANGED wakePending
  /\ UNCHANGED <<latest, proofActive, queue, wakes, scene, startVars, handle, callVars, pass,
                 exiting, applied, loaded>>

\* apply_viewport, or its failure.
ApplyViewport ==
  /\ win = "apply"
  /\ \/ /\ applied' = taken
        /\ win' = "viewport"
        /\ UNCHANGED exiting
     \/ /\ exiting' = TRUE
        /\ win' = "dispatch"
        /\ UNCHANGED applied
  /\ UNCHANGED <<mailbox, queue, wakes, scene, startVars, handle, callVars, pass, taken, loaded>>

\* Changed for the check of ShutdownReturns: a Shutdown is read like any other
\* command.
ProcessCommandNoExit ==
  /\ win = "commands"
  /\ \/ /\ channel = <<>>
        /\ win' = "sync"
        /\ UNCHANGED <<queue, answer>>
     \/ /\ channel # <<>>
        /\ channel' = Tail(channel)
        /\ pending' = pending - 1
        /\ answer' = IF Head(channel).kind = "query"
                     THEN [answer EXCEPT ![Head(channel).from] = "ok"] ELSE answer
        /\ UNCHANGED win
  /\ UNCHANGED <<mailbox, wakes, scene, startVars, handle, pc, job, wanted, pass, exiting,
                 viewVars, loaded>>

\* One turn of process_commands.  After a Shutdown the rest stays unread.
ProcessCommand ==
  /\ win = "commands"
  /\ \/ /\ channel = <<>>
        /\ win' = "sync"
        /\ UNCHANGED <<queue, answer, exiting>>
     \/ /\ channel # <<>>
        /\ channel' = Tail(channel)
        /\ pending' = pending - 1
        /\ LET c == Head(channel) IN
             /\ answer' = IF c.kind = "query"
                          THEN [answer EXCEPT ![c.from] = "ok"] ELSE answer
             /\ exiting' = (exiting \/ c.kind = "shutdown")
             /\ win' = IF c.kind = "shutdown" THEN "sync" ELSE "commands"
  /\ UNCHANGED <<mailbox, wakes, scene, startVars, handle, pc, job, wanted, pass, viewVars,
                 loaded>>

\* sync_resident_scene: a new generation is projected whole, another manifold
\* of the same generation is switched to; either can fail.
SyncResidentScene ==
  /\ win = "sync"
  /\ \/ /\ loaded' = scene
        /\ win' = IF pass = "wake" THEN "dispatch" ELSE "asleep"
        /\ UNCHANGED exiting
     \/ /\ exiting' = TRUE
        /\ win' = "dispatch"
        /\ UNCHANGED loaded
  /\ pass' = "idle"
  /\ UNCHANGED <<mailbox, queue, wakes, scene, startVars, handle, callVars, viewVars>>

\* exiting: the loop cleans up and is gone; wakes are refused from here on.
LeaveLoop ==
  /\ win = "dispatch"
  /\ exiting
  /\ win' = "closing"
  /\ wakes' = 0
  /\ UNCHANGED <<mailbox, queue, scene, startVars, handle, callVars, pass, exiting, viewVars,
                 loaded>>

\* The application is dropped, and with it the receiver and every command left.
DropReceiver ==
  /\ win = "closing"
  /\ win' = "gone"
  /\ channel' = <<>>
  /\ answer' = [t \in Threads |->
                  IF /\ pc[t] = "waiting"
                     /\ \E i \in 1..Len(channel) : channel[i] = [kind |-> "query", from |-> t]
                  THEN "dropped" ELSE answer[t]]
  /\ UNCHANGED <<mailbox, pending, wakes, scene, startVars, handle, pc, job, wanted, pass,
                 exiting, viewVars, loaded>>

-----------------------------------------------------------------------------
WindowStep ==
  \/ Initialize \/ Awake \/ UserEvent \/ AboutToWait \/ NextAfter \/ ApplyViewport
  \/ ProcessCommand \/ SyncResidentScene \/ LeaveLoop \/ DropReceiver

StartStep == TakeReady \/ StartFails

\* What a thread inside a call does next, timeouts and the blocking send apart.
CallStep(t) ==
  \/ t = "ui" /\ PublishUi
  \/ t = "proof" /\ PublishProof
  \/ t = "proof" /\ pc[t] = "over" /\ EndProof
  \/ t = "closer" /\ Join
  \/ WakeViewport(t) \/ BeginSend(t) \/ CancelSend(t) \/ WakeCommands(t) \/ TakeAnswer(t)

Next ==
  \/ WindowStep \/ StartStep \/ ReadyTimeout \/ SystemEvent \/ InstallGeneration
  \/ SetViewport \/ HideViewport \/ BeginProof \/ EndProof \/ SetProofViewport \/ Query
  \/ BeginShutdown
  \/ \E t \in Threads : CallStep(t) \/ Send(t) \/ AnswerTimeout(t) \/ SwitchManifold(t)

Spec == Init /\ [][Next]_vars

\* Threads that can go on are scheduled.  A blocked send gets its turn: the
\* channel serves the senders it has blocked in order.  Nobody has to call, no
\* timeout has to run out and no system event has to come.
Fairness ==
  /\ WF_vars(WindowStep)
  /\ WF_vars(StartStep)
  /\ \A t \in Threads : WF_vars(CallStep(t)) /\ SF_vars(Send(t))

FairSpec == Spec /\ Fairness

-----------------------------------------------------------------------------
(***************************************************************************)
(* What is guaranteed                                                      *)
(***************************************************************************)

\* The loop never sleeps over work nobody will wake it for.  When it sleeps with
\* no event queued, a command in the channel, a geometry other than the latest
\* one published (with its revision), or a manifold the kernel has been switched
\* away from has a thread that still owes its wake: the coalescing of viewport
\* wakes loses none, and what was applied is what was published.
NeverSleepsOnWork ==
  win = "asleep" /\ wakes = 0 =>
    /\ channel # <<>> => \E t \in Threads : pc[t] = "sent"
    /\ applied # latest => \E t \in Threads : pc[t] = "wake_viewport"
    /\ loaded.manifold # scene.manifold => \E t \in Threads : job[t] = "sync"

\* While a proof holds the viewport, what it published last stays the latest
\* geometry: neither a layout nor a hide of the UI thread, even one begun before
\* the lease, gets in between.
ProofGeometryStays ==
  proofActive /\ pc["proof"] # "publish" => latest.geometry = wanted["proof"]

\* Every published geometry is applied, or a later one is, unless the window
\* goes.
ViewportSettles ==
  \A r \in 1..MaxRevision :
    []<>(latest.revision >= r => applied.revision >= r \/ win = "gone")

\* Every call of the UI and the proof thread returns even if no timeout runs
\* out, also a query the window leaves unread when it goes.
CallsReturn == \A t \in {"ui", "proof"} : []<>(pc[t] = "idle")

\* A shutdown returns, whatever is in the channel before its command and
\* whether or not the window has gone by itself.
ShutdownReturns == []<>(handle = "taken" => pc["closer"] = "done")

(***************************************************************************)
(* What the documents say and the code does not do                         *)
(***************************************************************************)

\* start's own error, "embedded graph initialization timed out": a start that
\* gave up waiting reports it.
StartReturns == starter = "joining" ~> starter = "error"

\* README, contract 14: "Shell and graph windows consume the same resident
\* generation": a generation that stays the resident one reaches the window.
GenerationReachesWindow ==
  <>[](starter = "ok" /\ win # "gone" /\ scene.generation = MaxGeneration)
    => []<>(win = "gone" \/ loaded.generation = scene.generation)
=============================================================================
