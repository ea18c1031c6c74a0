-------------------------- MODULE GraphWindowProofs --------------------------
(***************************************************************************)
(* Proofs about GraphWindow, for any shapes, manifolds and capacity and    *)
(* any bounds.                                                             *)
(*                                                                         *)
(* Three invariants on top of each other: the types with what the threads  *)
(* carry through a call (CallInv), the mailbox as the two sides see it     *)
(* (MailboxInv), and for every piece of work the one who still owes its    *)
(* wake (WorkInv).                                                         *)
(***************************************************************************)
EXTENDS GraphWindow, TLAPS

\* A thread that has counted a command it has not sent, or has yet to take back.
Counting(steps, t) == IF steps[t] \in {"sending", "cancel"} THEN 1 ELSE 0

\* Every command in the channel is counted, and so is every one about to be sent.
Counted == pending >= Len(channel) + Counting(pc, "ui") + Counting(pc, "proof") + Counting(pc, "closer")

\* A thread on its way to the channel has a command, and only a query is waited for.
Carries ==
  \A t \in Threads :
    /\ pc[t] \in {"begin", "sending", "sent", "cancel"} => job[t] # "none"
    /\ pc[t] = "waiting" => job[t] = "query"
    /\ job[t] = "sync" => pc[t] \in {"begin", "sending", "sent", "cancel", "over"}

CallInv == TypeOK /\ Counted /\ Carries

\* The window has read the mailbox up to some revision, and where it is at the
\* latest one it has the latest geometry.
MailboxInv ==
  /\ applied.revision <= taken.revision /\ taken.revision <= latest.revision
  /\ taken.revision = latest.revision => taken = latest
  /\ applied.revision = latest.revision => applied = latest
  /\ applied.revision # latest.revision => wakePending

\* The loop has been told to exit before it goes, and a call fails only after that.
LeavingInv ==
  /\ exiting => win \in {"dispatch", "closing", "gone"} \/ (win = "sync" /\ pass = "wake")
  /\ win = "commands" => pass = "wake"
  /\ win \in {"closing", "gone"} => exiting
  /\ \A t \in Threads : pc[t] = "cancel" => win = "gone"
  /\ \A t \in Threads : pc[t] = "over" /\ job[t] = "sync" => exiting

\* Who still owes the wake for a command, for a geometry and for a manifold.
WorkInv ==
  /\ channel # <<>> =>
       \/ exiting \/ wakes > 0 \/ \E t \in Threads : pc[t] = "sent"
       \/ pass = "wake" /\ win \in {"viewport", "apply", "commands"}
  /\ wakePending =>
       \/ exiting \/ wakes > 0 \/ \E t \in Threads : pc[t] = "wake_viewport"
       \/ win \in {"viewport", "apply"}
  /\ loaded.manifold # scene.manifold =>
       \/ exiting \/ wakes > 0 \/ \E t \in Threads : job[t] = "sync"
       \/ win \in {"viewport", "apply", "commands", "sync"}

-----------------------------------------------------------------------------
(***************************************************************************)
(* Types                                                                   *)
(***************************************************************************)
\* The window has just been spawned, nobody is in a call.
LEMMA CallInit == Init => CallInv
<1> SUFFICES ASSUME Init PROVE CallInv
  OBVIOUS
<1> USE WindowAssumption DEF WindowAssumption, Init
<1>1. Hidden \in Geometry
  BY DEF Hidden, Geometry
<1>2. latest \in Stamped /\ taken \in Stamped /\ applied \in Stamped
  BY <1>1 DEF Stamped
<1>3. MailboxTypes
  BY <1>2 DEF MailboxTypes
<1>4. QueueTypes
  BY DEF QueueTypes
<1>5. CallTypes
  BY <1>1 DEF CallTypes, CallSteps, Jobs
<1>6. StartTypes
  BY DEF StartTypes
<1>7. WindowTypes
  BY <1>2 DEF WindowTypes, WindowSteps
<1>8. Counted /\ Carries
  BY DEF Counted, Counting, Carries, Threads
<1> QED BY <1>3, <1>4, <1>5, <1>6, <1>7, <1>8 DEF CallInv, TypeOK

\* Going to a step keeps the types, and what the thread carries if the step may
\* follow with its command.
LEMMA GoToKeeps ==
  ASSUME CallTypes, Carries, NEW t \in Threads, NEW step \in CallSteps, GoTo(t, step),
         step \in {"begin", "sending", "sent", "cancel"} => job[t] # "none",
         step = "waiting" => job[t] = "query",
         job[t] = "sync" => step \in {"idle", "begin", "sending", "sent", "cancel", "over"}
  PROVE  /\ pc' \in [Threads -> CallSteps] /\ job' \in [Threads -> Jobs]
         /\ Carries'
BY DEF CallTypes, Carries, GoTo, Jobs

\* Where a call goes on is a step it may go to.
LEMMA AfterKeeps ==
  ASSUME CallTypes, Carries, NEW t \in Threads
  PROVE  /\ AfterPublish(t) \in {"idle", "begin"}
         /\ AfterPublish(t) = "begin" => job[t] # "none"
         /\ AfterSend(t) \in {"waiting", "join", "idle"}
         /\ AfterSend(t) = "waiting" => job[t] = "query"
         /\ AfterSend(t) = "join" => job[t] = "shutdown"
         /\ AfterFailure(t) \in {"join", "over", "idle"}
         /\ AfterFailure(t) = "join" => job[t] = "shutdown"
<1>1. AfterPublish(t) \in {"idle", "begin"} /\ (AfterPublish(t) = "begin" => job[t] # "none")
  BY DEF AfterPublish
<1>2. /\ AfterSend(t) \in {"waiting", "join", "idle"}
      /\ AfterSend(t) = "waiting" => job[t] = "query"
      /\ AfterSend(t) = "join" => job[t] = "shutdown"
  <2>1. CASE job[t] = "query"
    BY <2>1 DEF AfterSend
  <2>2. CASE job[t] = "shutdown"
    BY <2>2 DEF AfterSend
  <2>3. CASE job[t] \notin {"query", "shutdown"}
    BY <2>3 DEF AfterSend
  <2> QED BY <2>1, <2>2, <2>3
<1>3. /\ AfterFailure(t) \in {"join", "over", "idle"}
      /\ AfterFailure(t) = "join" => job[t] = "shutdown"
  <2>1. CASE job[t] = "shutdown"
    BY <2>1 DEF AfterFailure
  <2>2. CASE job[t] # "shutdown" /\ t = "proof"
    BY <2>2 DEF AfterFailure
  <2>3. CASE job[t] # "shutdown" /\ t # "proof"
    BY <2>3 DEF AfterFailure
  <2> QED BY <2>1, <2>2, <2>3
<1> QED BY <1>1, <1>2, <1>3

\* Publishing takes a thread back, on to its command, or to the wake it owes.
LEMMA RecordKeeps ==
  ASSUME CallTypes, MailboxTypes, Carries, NEW t \in Threads, pc[t] = "publish", Record(t)
  PROVE  /\ pc' \in [Threads -> CallSteps] /\ job' \in [Threads -> Jobs]
         /\ Carries'
         /\ latest' \in Stamped /\ wakePending' \in BOOLEAN
         /\ pc'[t] \in {"idle", "begin", "wake_viewport"}
         /\ \A u \in Threads : u # t => pc'[u] = pc[u]
<1> USE WindowAssumption DEF WindowAssumption
<1>1. job[t] # "sync"
  BY DEF Carries
<1>2. CASE latest.geometry = wanted[t] /\ GoTo(t, AfterPublish(t)) /\ UNCHANGED <<latest, wakePending>>
  <2>1. /\ pc' \in [Threads -> CallSteps] /\ job' \in [Threads -> Jobs] /\ Carries'
    BY <1>1, <1>2, GoToKeeps, AfterKeeps DEF CallSteps
  <2>2. pc' = [pc EXCEPT ![t] = AfterPublish(t)]
    BY <1>2 DEF GoTo
  <2> QED BY <1>2, <2>1, <2>2, AfterKeeps DEF MailboxTypes, CallTypes
<1>3. CASE /\ latest.revision < MaxRevision
           /\ latest' = [revision |-> latest.revision + 1, geometry |-> wanted[t]]
           /\ wakePending' = TRUE
           /\ GoTo(t, IF wakePending THEN AfterPublish(t) ELSE "wake_viewport")
  <2> DEFINE step == IF wakePending THEN AfterPublish(t) ELSE "wake_viewport"
  <2>1. step \in {"idle", "begin", "wake_viewport"} /\ (step = "begin" => job[t] # "none")
    BY AfterKeeps
  <2>2. GoTo(t, step)
    BY <1>3
  <2> HIDE DEF step
  <2>3. /\ pc' \in [Threads -> CallSteps] /\ job' \in [Threads -> Jobs] /\ Carries'
    BY <1>1, <2>1, <2>2, GoToKeeps DEF CallSteps
  <2>4. pc' = [pc EXCEPT ![t] = step]
    BY <2>2 DEF GoTo
  <2>5. latest' \in Stamped
    BY <1>3 DEF MailboxTypes, CallTypes, Stamped
  <2> QED BY <1>3, <2>1, <2>3, <2>4, <2>5 DEF CallTypes
<1> QED BY <1>2, <1>3 DEF Record

\* Calls of the UI thread and of the proof that publish a geometry.
LEMMA PublishersKeepCalls ==
  ASSUME CallInv, SetViewport \/ HideViewport \/ PublishUi \/ SetProofViewport \/ PublishProof
  PROVE  CallInv'
<1> USE WindowAssumption DEF WindowAssumption, CallInv, TypeOK
<1>1. StartTypes' /\ WindowTypes' /\ QueueTypes'
  BY DEF SetViewport, HideViewport, PublishUi, SetProofViewport, PublishProof, startVars,
         loopVars, viewVars, queue, StartTypes, WindowTypes, QueueTypes
<1>2. ASSUME NEW t \in Threads, NEW g \in Geometry, NEW j \in {"none", "query"}, pc[t] = "idle",
             wanted' = [wanted EXCEPT ![t] = g], pc' = [pc EXCEPT ![t] = "publish"],
             job' = [job EXCEPT ![t] = j], UNCHANGED <<mailbox, queue, answer>>
      PROVE  CallInv'
  <2>1. MailboxTypes'
    BY <1>2 DEF MailboxTypes, mailbox
  <2>2. CallTypes'
    BY <1>2 DEF CallTypes, CallSteps, Jobs
  <2>3. Counted'
    BY <1>2 DEF Counted, Counting, queue, CallTypes, Threads
  <2>4. Carries'
    BY <1>2 DEF Carries, CallTypes
  <2> QED BY <1>1, <2>1, <2>2, <2>3, <2>4
<1>3. ASSUME NEW t \in Threads, pc[t] = "publish",
             \/ GoTo(t, AfterPublish(t)) /\ UNCHANGED <<latest, wakePending>>
             \/ Record(t),
             wanted' \in [Threads -> Geometry], UNCHANGED <<proofActive, queue, answer>>
      PROVE  CallInv'
  <2>1. /\ pc' \in [Threads -> CallSteps] /\ job' \in [Threads -> Jobs] /\ Carries'
        /\ latest' \in Stamped /\ wakePending' \in BOOLEAN
        /\ pc'[t] \in {"idle", "begin", "wake_viewport"}
        /\ \A u \in Threads : u # t => pc'[u] = pc[u]
    <3>1. CASE Record(t)
      BY <1>3, <3>1, RecordKeeps
    <3>2. CASE GoTo(t, AfterPublish(t)) /\ UNCHANGED <<latest, wakePending>>
      <4>1. job[t] # "sync"
        BY <1>3 DEF Carries
      <4>2. pc' = [pc EXCEPT ![t] = AfterPublish(t)]
        BY <3>2 DEF GoTo
      <4> QED BY <1>3, <3>2, <4>1, <4>2, GoToKeeps, AfterKeeps DEF CallSteps, MailboxTypes, CallTypes
    <3> QED BY <1>3, <3>1, <3>2
  <2>2. MailboxTypes'
    BY <1>3, <2>1 DEF MailboxTypes
  <2>3. CallTypes'
    BY <1>3, <2>1 DEF CallTypes
  <2>4. Counted'
    BY <1>3, <2>1 DEF Counted, Counting, queue, Threads
  <2> QED BY <1>1, <2>1, <2>2, <2>3, <2>4
<1>4. latest.geometry \in Geometry /\ Hidden \in Geometry
  BY DEF MailboxTypes, Stamped, Geometry, Hidden
<1>5. CASE SetViewport
  BY <1>2, <1>5 DEF SetViewport, Threads
<1>6. CASE HideViewport
  <2>1. [latest.geometry EXCEPT !.visible = FALSE] \in Geometry
    BY <1>4 DEF Geometry
  <2> QED BY <1>2, <1>6, <2>1 DEF HideViewport, Threads
<1>7. CASE SetProofViewport
  BY <1>2, <1>7 DEF SetProofViewport, Threads
<1>8. CASE PublishUi
  <2>1. wanted' \in [Threads -> Geometry]
    BY <1>4, <1>8 DEF PublishUi, CallTypes
  <2> QED BY <1>3, <1>8, <2>1 DEF PublishUi, Threads
<1>9. CASE PublishProof
  <2>1. wanted' \in [Threads -> Geometry]
    BY <1>9 DEF PublishProof, CallTypes
  <2> QED BY <1>3, <1>9, <2>1 DEF PublishProof, Threads
<1> QED BY <1>5, <1>6, <1>7, <1>8, <1>9

\* Calls that send a command, and the lease and the shutdown around them.
LEMMA CallersKeepCalls ==
  ASSUME CallInv,
         \/ BeginProof \/ EndProof \/ Query \/ BeginShutdown \/ Join
         \/ \E t \in Threads :
              \/ SwitchManifold(t) \/ WakeViewport(t) \/ BeginSend(t) \/ Send(t)
              \/ CancelSend(t) \/ WakeCommands(t) \/ TakeAnswer(t) \/ AnswerTimeout(t)
  PROVE  CallInv'
<1> USE WindowAssumption DEF WindowAssumption, CallInv, TypeOK
<1>1. ASSUME NEW t \in Threads, NEW step \in CallSteps, NEW j \in Jobs,
             pc' = [pc EXCEPT ![t] = step], job' = [job EXCEPT ![t] = j],
             UNCHANGED <<wanted, answer>>,
             step \in {"begin", "sending", "sent", "cancel"} => j # "none",
             step = "waiting" => j = "query",
             j = "sync" => step \in {"begin", "sending", "sent", "cancel", "over"}
      PROVE  CallTypes' /\ Carries'
  BY <1>1 DEF CallTypes, Carries
<1>2. ASSUME NEW t \in Threads, NEW step \in CallSteps, GoTo(t, step),
             wanted' = wanted, answer' \in [Threads -> {"none", "ok", "dropped"}],
             step \in {"begin", "sending", "sent", "cancel"} => job[t] # "none",
             step = "waiting" => job[t] = "query",
             job[t] = "sync" => step \in {"idle", "begin", "sending", "sent", "cancel", "over"}
      PROVE  CallTypes' /\ Carries' /\ pc' = [pc EXCEPT ![t] = step]
  <2>1. pc' \in [Threads -> CallSteps] /\ job' \in [Threads -> Jobs] /\ Carries'
    BY <1>2, GoToKeeps
  <2> QED BY <1>2, <2>1 DEF CallTypes, GoTo
<1>3. ASSUME NEW t \in Threads, NEW step \in CallSteps \ {"sending", "cancel"},
             pc' = [pc EXCEPT ![t] = step], pc[t] \notin {"sending", "cancel"},
             pending' = pending, Len(channel') = Len(channel)
      PROVE  Counted'
  BY <1>3 DEF Counted, Counting, CallTypes, Threads
<1>0. \A t \in Threads : Counting(pc, t) \in {0, 1}
  BY DEF Counting
<1>4. CASE BeginProof
  <2>1. latest.geometry \in Geometry
    BY DEF MailboxTypes, Stamped
  <2>2. CallTypes' /\ Carries' /\ Counted'
    BY <1>4, <2>1 DEF BeginProof, CallTypes, Carries, Counted, Counting, queue, Threads
  <2> QED BY <1>4, <2>2 DEF BeginProof, MailboxTypes, QueueTypes, StartTypes, WindowTypes,
             queue, startVars, loopVars, viewVars
<1>5. CASE EndProof
  <2>1. CallTypes' /\ Carries' /\ pc' = [pc EXCEPT !["proof"] = "idle"]
    <3>1. GoTo("proof", "idle") /\ wanted' = wanted /\ answer' \in [Threads -> {"none", "ok", "dropped"}]
      BY <1>5 DEF EndProof, CallTypes
    <3> QED BY <3>1, <1>2 DEF CallSteps, Threads
  <2>2. Counted'
    BY <1>5, <2>1, <1>3 DEF EndProof, queue, Threads, CallSteps
  <2> QED BY <1>5, <2>1, <2>2 DEF EndProof, MailboxTypes, QueueTypes, StartTypes, WindowTypes,
             queue, startVars, loopVars, viewVars
<1>6. CASE Query
  <2>1. CallTypes' /\ Carries'
    BY <1>6, <1>1 DEF Query, Threads, CallSteps, Jobs
  <2>2. Counted'
    BY <1>6, <1>3 DEF Query, queue, Threads, CallSteps
  <2> QED BY <1>6, <2>1, <2>2 DEF Query, MailboxTypes, QueueTypes, StartTypes, WindowTypes,
             mailbox, queue, startVars, loopVars, viewVars
<1>7. CASE BeginShutdown
  <2>1. CallTypes' /\ Carries'
    BY <1>7, <1>1 DEF BeginShutdown, Threads, CallSteps, Jobs
  <2>2. Counted'
    BY <1>7, <1>3 DEF BeginShutdown, queue, Threads, CallSteps
  <2> QED BY <1>7, <2>1, <2>2 DEF BeginShutdown, MailboxTypes, QueueTypes, StartTypes,
             WindowTypes, mailbox, queue, startVars, loopVars, viewVars
<1>8. CASE Join
  <2>1. CallTypes' /\ Carries'
    BY <1>8 DEF Join, CallTypes, Carries, CallSteps, Threads
  <2>2. Counted'
    BY <1>8, <1>3 DEF Join, queue, Threads, CallSteps
  <2> QED BY <1>8, <2>1, <2>2 DEF Join, MailboxTypes, QueueTypes, StartTypes, WindowTypes,
             mailbox, queue, startVars, loopVars, viewVars
<1>9. ASSUME NEW t \in Threads, SwitchManifold(t)
      PROVE  CallInv'
  <2>1. CallTypes' /\ Carries'
    BY <1>9, <1>1 DEF SwitchManifold, CallSteps, Jobs
  <2>2. Counted'
    BY <1>9, <1>3 DEF SwitchManifold, queue, CallSteps
  <2>3. WindowTypes'
    BY <1>9 DEF SwitchManifold, WindowTypes, loopVars, viewVars, Scene
  <2> QED BY <1>9, <2>1, <2>2, <2>3 DEF SwitchManifold, MailboxTypes, QueueTypes, StartTypes,
             mailbox, queue, startVars
<1>10. ASSUME NEW t \in Threads, WakeViewport(t)
       PROVE  CallInv'
  <2>1. PICK step \in {"idle", "begin", "join", "over"} :
           GoTo(t, step) /\ (step = "begin" => job[t] # "none") /\ (job[t] = "sync" => step # "join")
    BY <1>10, AfterKeeps DEF WakeViewport
  <2>2. CallTypes' /\ Carries' /\ pc' = [pc EXCEPT ![t] = step]
    <3>1. wanted' = wanted /\ answer' \in [Threads -> {"none", "ok", "dropped"}]
      BY <1>10 DEF WakeViewport, CallTypes
    <3> QED BY <2>1, <3>1, <1>2 DEF CallSteps
  <2>3. Counted'
    BY <1>10, <2>2, <1>3 DEF WakeViewport, queue, CallSteps
  <2>4. QueueTypes'
    BY <1>10 DEF WakeViewport, QueueTypes, queue
  <2> QED BY <1>10, <2>2, <2>3, <2>4 DEF WakeViewport, MailboxTypes, StartTypes, WindowTypes,
             mailbox, startVars, loopVars, viewVars
<1>11. ASSUME NEW t \in Threads, BeginSend(t)
       PROVE  CallInv'
  <2>1. CallTypes' /\ Carries'
    BY <1>11 DEF BeginSend, CallTypes, Carries, CallSteps
  <2>2. Counted' /\ QueueTypes'
    <3>1. /\ pc' = [pc EXCEPT ![t] = "sending"] /\ Counting(pc, t) = 0
          /\ pending' = pending + 1 /\ channel' = channel /\ wakes' = wakes
      BY <1>11 DEF BeginSend, Counting
    <3>2. \A u \in Threads : Counting(pc', u) = Counting(pc, u) + (IF u = t THEN 1 ELSE 0)
      BY <3>1 DEF Counting, CallTypes
    <3> QED BY <3>1, <3>2, <1>0 DEF Counted, QueueTypes, Threads
  <2> QED BY <1>11, <2>1, <2>2 DEF BeginSend, MailboxTypes, StartTypes, WindowTypes,
             mailbox, startVars, loopVars, viewVars
<1>12. ASSUME NEW t \in Threads, Send(t)
       PROVE  CallInv'
  <2>1. CallTypes' /\ Carries'
    BY <1>12 DEF Send, CallTypes, Carries, CallSteps
  <2>2. Counted' /\ QueueTypes'
    <3>1. CASE /\ Len(channel) < CommandCapacity
               /\ channel' = Append(channel, [kind |-> job[t], from |-> t])
               /\ pc' = [pc EXCEPT ![t] = "sent"]
      <4>1. [kind |-> job[t], from |-> t] \in Command
        BY <1>12 DEF Send, Carries, CallTypes, Jobs, Command
      <4>2. channel' \in Seq(Command) /\ Len(channel') = Len(channel) + 1
        BY <3>1, <4>1 DEF QueueTypes
      <4>3. pending' = pending /\ wakes' = wakes /\ Counting(pc, t) = 1
        BY <1>12 DEF Send, Counting
      <4>4. \A u \in Threads : Counting(pc', u) = Counting(pc, u) - (IF u = t THEN 1 ELSE 0)
        BY <3>1, <4>3 DEF Counting, CallTypes
      <4>5. Counted'
        BY <4>2, <4>3, <4>4, <1>0 DEF Counted, QueueTypes, Threads
      <4> QED BY <3>1, <4>2, <4>3, <4>5 DEF QueueTypes
    <3>2. CASE pc' = [pc EXCEPT ![t] = "cancel"] /\ UNCHANGED channel
      BY <1>12, <3>2 DEF Send, Counted, Counting, QueueTypes, CallTypes, Threads
    <3> QED BY <1>12, <3>1, <3>2 DEF Send
  <2> QED BY <1>12, <2>1, <2>2 DEF Send, MailboxTypes, StartTypes, WindowTypes,
             mailbox, startVars, loopVars, viewVars
<1>13. ASSUME NEW t \in Threads, CancelSend(t)
       PROVE  CallInv'
  <2>1. PICK step \in {"idle", "join", "over"} :
           GoTo(t, step) /\ (job[t] = "sync" => step # "join")
    BY <1>13, AfterKeeps DEF CancelSend
  <2>2. CallTypes' /\ Carries' /\ pc' = [pc EXCEPT ![t] = step]
    <3>1. wanted' = wanted /\ answer' \in [Threads -> {"none", "ok", "dropped"}]
      BY <1>13 DEF CancelSend, CallTypes
    <3> QED BY <2>1, <3>1, <1>2 DEF CallSteps
  <2>3. Counted' /\ QueueTypes'
    <3>1. /\ pending' = pending - 1 /\ channel' = channel /\ wakes' = wakes
          /\ Counting(pc, t) = 1
      BY <1>13 DEF CancelSend, Counting
    <3>2. \A u \in Threads : Counting(pc', u) = Counting(pc, u) - (IF u = t THEN 1 ELSE 0)
      BY <2>2, <3>1 DEF Counting, CallTypes
    <3> QED BY <3>1, <3>2, <1>0 DEF Counted, QueueTypes, Threads
  <2> QED BY <1>13, <2>2, <2>3 DEF CancelSend, MailboxTypes, StartTypes, WindowTypes,
             mailbox, startVars, loopVars, viewVars
<1>14. ASSUME NEW t \in Threads, WakeCommands(t)
       PROVE  CallInv'
  <2>1. PICK step \in {"idle", "waiting", "join", "over"} :
           /\ GoTo(t, step)
           /\ step = "waiting" => job[t] = "query"
           /\ job[t] = "sync" => step \in {"idle", "over"}
    BY <1>14, AfterKeeps DEF WakeCommands
  <2>2. CallTypes' /\ Carries' /\ pc' = [pc EXCEPT ![t] = step]
    <3>1. wanted' = wanted /\ answer' \in [Threads -> {"none", "ok", "dropped"}]
      BY <1>14 DEF WakeCommands, CallTypes
    <3> QED BY <2>1, <3>1, <1>2 DEF CallSteps
  <2>3. Counted'
    BY <1>14, <2>2, <1>3 DEF WakeCommands, queue, CallSteps
  <2>4. QueueTypes'
    BY <1>14 DEF WakeCommands, QueueTypes, queue
  <2> QED BY <1>14, <2>2, <2>3, <2>4 DEF WakeCommands, MailboxTypes, StartTypes, WindowTypes,
             mailbox, startVars, loopVars, viewVars
<1>15. ASSUME NEW t \in Threads, TakeAnswer(t)
       PROVE  CallInv'
  <2>1. PICK step \in {"idle", "join", "over"} :
           GoTo(t, step) /\ (job[t] = "sync" => step # "join")
    BY <1>15, AfterKeeps DEF TakeAnswer
  <2>2. CallTypes' /\ Carries' /\ pc' = [pc EXCEPT ![t] = step]
    <3>1. wanted' = wanted /\ answer' \in [Threads -> {"none", "ok", "dropped"}]
      BY <1>15 DEF TakeAnswer, CallTypes
    <3> QED BY <2>1, <3>1, <1>2 DEF CallSteps
  <2>3. Counted'
    BY <1>15, <2>2, <1>3 DEF TakeAnswer, queue, CallSteps
  <2> QED BY <1>15, <2>2, <2>3 DEF TakeAnswer, MailboxTypes, QueueTypes, StartTypes, WindowTypes,
             mailbox, queue, startVars, loopVars, viewVars
<1>16. ASSUME NEW t \in Threads, AnswerTimeout(t)
       PROVE  CallInv'
  <2>1. PICK step \in {"idle", "join", "over"} :
           GoTo(t, step) /\ (job[t] = "sync" => step # "join")
    BY <1>16, AfterKeeps DEF AnswerTimeout
  <2>2. CallTypes' /\ Carries' /\ pc' = [pc EXCEPT ![t] = step]
    <3>1. wanted' = wanted /\ answer' \in [Threads -> {"none", "ok", "dropped"}]
      BY <1>16 DEF AnswerTimeout, CallTypes
    <3> QED BY <2>1, <3>1, <1>2 DEF CallSteps
  <2>3. channel' \in Seq(Command) /\ Len(channel') = Len(channel)
    <3>1. [kind |-> "stale", from |-> t] \in Command
      BY DEF Command
    <3>2. \A i \in 1..Len(channel) : channel[i] \in Command
      BY DEF QueueTypes
    <3>3. DOMAIN channel = 1..Len(channel) /\ Len(channel) \in Nat
      BY DEF QueueTypes
    <3> QED BY <1>16, <3>1, <3>2, <3>3 DEF AnswerTimeout
  <2>4. Counted'
    BY <1>16, <2>2, <2>3, <1>3 DEF AnswerTimeout, CallSteps
  <2> QED BY <1>16, <2>2, <2>3, <2>4 DEF AnswerTimeout, MailboxTypes, QueueTypes, StartTypes,
             WindowTypes, mailbox, startVars, loopVars, viewVars
<1> QED BY <1>4, <1>5, <1>6, <1>7, <1>8, <1>9, <1>10, <1>11, <1>12, <1>13, <1>14, <1>15, <1>16

\* The start of the window, its thread, and what the system and the kernel do.
LEMMA WindowKeepsCalls ==
  ASSUME CallInv,
         \/ WindowStep \/ StartStep \/ ReadyTimeout \/ SystemEvent \/ InstallGeneration
  PROVE  CallInv'
<1> USE WindowAssumption DEF WindowAssumption, CallInv, TypeOK
<1>1. ASSUME UNCHANGED <<mailbox, queue, scene, startVars, handle, callVars, viewVars, loaded>>,
             wakes' \in Nat, win' \in WindowSteps, pass' \in {"wake", "idle"}, exiting' \in BOOLEAN
      PROVE  CallInv'
  BY <1>1 DEF mailbox, queue, startVars, callVars, viewVars, MailboxTypes, QueueTypes,
         CallTypes, StartTypes, WindowTypes, Counted, Counting, Carries
<1>2. ASSUME UNCHANGED <<mailbox, queue, wakes, callVars>>,
             StartTypes', WindowTypes'
      PROVE  CallInv'
  BY <1>2 DEF mailbox, queue, callVars, MailboxTypes, QueueTypes, CallTypes, Counted, Counting,
         Carries
<1>3. CASE Initialize
  <2>1. StartTypes' /\ WindowTypes'
    BY <1>3 DEF Initialize, StartTypes, WindowTypes, WindowSteps, viewVars
  <2> QED BY <1>2, <1>3, <2>1 DEF Initialize
<1>4. CASE StartStep \/ ReadyTimeout
  <2>1. StartTypes' /\ WindowTypes'
    BY <1>4 DEF StartStep, TakeReady, StartFails, ReadyTimeout, StartTypes, WindowTypes,
           loopVars, viewVars
  <2> QED BY <1>2, <1>4, <2>1 DEF StartStep, TakeReady, StartFails, ReadyTimeout
<1>5. CASE Awake \/ SystemEvent \/ UserEvent \/ AboutToWait \/ LeaveLoop
  <2>1. /\ UNCHANGED <<mailbox, queue, scene, startVars, handle, callVars, viewVars, loaded>>
        /\ win' \in WindowSteps /\ pass' \in {"wake", "idle"}
    BY <1>5 DEF Awake, SystemEvent, UserEvent, AboutToWait, LeaveLoop, WindowTypes, WindowSteps
  <2>2. wakes' \in Nat /\ exiting' \in BOOLEAN
    BY <1>5 DEF Awake, SystemEvent, UserEvent, AboutToWait, LeaveLoop, WindowTypes, QueueTypes
  <2> QED BY <1>1, <2>1, <2>2
<1>6. CASE InstallGeneration
  <2>1. StartTypes' /\ WindowTypes'
    BY <1>6 DEF InstallGeneration, StartTypes, WindowTypes, Scene, startVars, loopVars, viewVars
  <2> QED BY <1>2, <1>6, <2>1 DEF InstallGeneration
<1>7. CASE NextAfter
  <2>1. StartTypes' /\ WindowTypes'
    BY <1>7 DEF NextAfter, StartTypes, MailboxTypes, WindowTypes, WindowSteps, startVars
  <2>2. MailboxTypes'
    BY <1>7 DEF NextAfter, MailboxTypes
  <2> QED BY <1>7, <2>1, <2>2 DEF NextAfter, queue, callVars, QueueTypes, CallTypes, Counted,
             Counting, Carries
<1>8. CASE ApplyViewport
  <2>1. StartTypes' /\ WindowTypes'
    BY <1>8 DEF ApplyViewport, StartTypes, WindowTypes, WindowSteps, startVars
  <2> QED BY <1>2, <1>8, <2>1 DEF ApplyViewport
<1>9. CASE SyncResidentScene
  <2>1. StartTypes' /\ WindowTypes'
    BY <1>9 DEF SyncResidentScene, StartTypes, WindowTypes, WindowSteps, startVars, viewVars
  <2> QED BY <1>2, <1>9, <2>1 DEF SyncResidentScene
<1>10. CASE ProcessCommand
  <2>1. StartTypes' /\ WindowTypes' /\ MailboxTypes'
    BY <1>10 DEF ProcessCommand, StartTypes, WindowTypes, WindowSteps, MailboxTypes, mailbox,
           startVars, viewVars
  <2>2. CASE channel = <<>> /\ UNCHANGED <<queue, answer>>
    BY <1>10, <2>1, <2>2 DEF ProcessCommand, queue, QueueTypes, CallTypes, Counted, Counting, Carries
  <2>3. CASE /\ channel # <<>> /\ channel' = Tail(channel) /\ pending' = pending - 1
    <3>1. Len(channel') = Len(channel) - 1 /\ channel' \in Seq(Command) /\ Len(channel) \in Nat
      BY <2>3 DEF QueueTypes
    <3>2. pc' = pc /\ wakes' = wakes /\ job' = job /\ wanted' = wanted
      BY <1>10 DEF ProcessCommand
    <3>3. \A t \in Threads : Counting(pc, t) \in {0, 1}
      BY DEF Counting
    <3>4. Counted' /\ QueueTypes'
      BY <2>3, <3>1, <3>2, <3>3 DEF Counted, QueueTypes, Threads
    <3>5. answer' \in [Threads -> {"none", "ok", "dropped"}]
      BY <1>10, <2>3 DEF ProcessCommand, CallTypes
    <3> QED BY <2>1, <3>2, <3>4, <3>5 DEF CallTypes, Carries
  <2> QED BY <1>10, <2>2, <2>3 DEF ProcessCommand
<1>11. CASE DropReceiver
  <2>1. StartTypes' /\ WindowTypes' /\ MailboxTypes'
    BY <1>11 DEF DropReceiver, StartTypes, WindowTypes, WindowSteps, MailboxTypes, mailbox,
           startVars, viewVars
  <2>2. channel' = <<>> /\ pending' = pending /\ pc' = pc /\ wakes' = wakes /\ job' = job
        /\ wanted' = wanted
    BY <1>11 DEF DropReceiver
  <2>3. Len(channel') = 0 /\ channel' \in Seq(Command) /\ Len(channel) \in Nat
    BY <2>2 DEF QueueTypes
  <2>4. answer' \in [Threads -> {"none", "ok", "dropped"}]
    BY <1>11 DEF DropReceiver, CallTypes
  <2>5. Counted' /\ QueueTypes'
    <3>1. \A t \in Threads : Counting(pc, t) \in {0, 1}
      BY DEF Counting
    <3> QED BY <2>2, <2>3, <3>1 DEF Counted, QueueTypes, Threads
  <2> QED BY <2>1, <2>2, <2>4, <2>5 DEF CallTypes, Carries
<1> QED BY <1>3, <1>4, <1>5, <1>6, <1>7, <1>8, <1>9, <1>10, <1>11 DEF WindowStep

\* A step that changes nothing keeps them.
LEMMA CallStutters == ASSUME CallInv, UNCHANGED vars PROVE CallInv'
BY DEF CallInv, TypeOK, vars, mailbox, queue, startVars, callVars, loopVars, viewVars,
       MailboxTypes, QueueTypes, CallTypes, StartTypes, WindowTypes, Counted, Counting, Carries

\* Every step keeps the types and the count.
LEMMA CallNext == CallInv /\ [Next]_vars => CallInv'
<1> SUFFICES ASSUME CallInv, [Next]_vars PROVE CallInv'
  OBVIOUS
<1>1. CASE SetViewport \/ HideViewport \/ PublishUi \/ SetProofViewport \/ PublishProof
  BY <1>1, PublishersKeepCalls
<1>2. CASE \/ BeginProof \/ EndProof \/ Query \/ BeginShutdown \/ Join
           \/ \E t \in Threads :
                \/ SwitchManifold(t) \/ WakeViewport(t) \/ BeginSend(t) \/ Send(t)
                \/ CancelSend(t) \/ WakeCommands(t) \/ TakeAnswer(t) \/ AnswerTimeout(t)
  BY <1>2, CallersKeepCalls
<1>3. CASE WindowStep \/ StartStep \/ ReadyTimeout \/ SystemEvent \/ InstallGeneration
  BY <1>3, WindowKeepsCalls
<1>4. CASE UNCHANGED vars
  BY <1>4, CallStutters
<1> QED BY <1>1, <1>2, <1>3, <1>4 DEF Next, CallStep

\* TypeOK: every variable keeps to its type, the channel to its capacity
\* (COMMAND_CAPACITY), and the count of pending commands, incremented before a
\* send and decremented by the receiver or by a failed send, never wraps below
\* zero.
THEOREM WindowTypeCorrect == Spec => []TypeOK
<1>1. Spec => []CallInv
  BY CallInit, CallNext, PTL DEF Spec
<1>2. CallInv => TypeOK
  BY DEF CallInv
<1> QED BY <1>1, <1>2, PTL

-----------------------------------------------------------------------------
(***************************************************************************)
(* The mailbox                                                             *)
(***************************************************************************)

\* The steps that touch the mailbox or what the window has of it.
MailboxStep == PublishUi \/ PublishProof \/ NextAfter \/ ApplyViewport

\* Every other step leaves the geometries and the flag alone.
LEMMA MailboxUntouched ==
  ASSUME [Next]_vars, ~MailboxStep
  PROVE  UNCHANGED <<latest, wakePending, taken, applied>>
<1>1. CASE WindowStep \/ StartStep \/ ReadyTimeout \/ SystemEvent \/ InstallGeneration
  BY <1>1 DEF MailboxStep, WindowStep, StartStep, Initialize, TakeReady, ReadyTimeout, StartFails,
         Awake, SystemEvent, UserEvent, AboutToWait, ProcessCommand, SyncResidentScene, LeaveLoop,
         DropReceiver, InstallGeneration, mailbox, viewVars
<1>2. CASE SetViewport \/ HideViewport \/ BeginProof \/ EndProof \/ SetProofViewport \/ Query
           \/ BeginShutdown
  BY <1>2 DEF SetViewport, HideViewport, BeginProof, EndProof, SetProofViewport, Query,
         BeginShutdown, mailbox, viewVars
<1>3. ASSUME NEW t \in Threads, CallStep(t) \/ Send(t) \/ AnswerTimeout(t) \/ SwitchManifold(t)
      PROVE  UNCHANGED <<latest, wakePending, taken, applied>>
  BY <1>3 DEF MailboxStep, CallStep, EndProof, Join, WakeViewport, BeginSend, CancelSend,
         WakeCommands, TakeAnswer, Send, AnswerTimeout, SwitchManifold, mailbox, viewVars
<1>4. CASE UNCHANGED vars
  BY <1>4 DEF vars, mailbox, viewVars
<1> QED BY <1>1, <1>2, <1>3, <1>4 DEF Next

\* The mailbox and what the window has of it stay in agreement.
LEMMA MailboxNext == CallInv /\ MailboxInv /\ [Next]_vars => MailboxInv'
<1> SUFFICES ASSUME CallInv, MailboxInv, [Next]_vars PROVE MailboxInv'
  OBVIOUS
<1>0. /\ latest \in Stamped /\ taken \in Stamped /\ applied \in Stamped
      /\ latest.revision \in Nat /\ taken.revision \in Nat /\ applied.revision \in Nat
  BY WindowAssumption DEF CallInv, TypeOK, MailboxTypes, WindowTypes, Stamped, WindowAssumption
<1>1. ASSUME NEW t \in Threads, Record(t), UNCHANGED <<taken, applied>>
      PROVE  MailboxInv'
  <2>1. CASE UNCHANGED <<latest, wakePending>>
    BY <1>1, <2>1 DEF MailboxInv
  <2>2. CASE latest' = [revision |-> latest.revision + 1, geometry |-> wanted[t]] /\ wakePending' = TRUE
    BY <1>0, <1>1, <2>2 DEF MailboxInv
  <2> QED BY <1>1, <2>1, <2>2 DEF Record
<1>2. CASE PublishUi
  <2>1. CASE UNCHANGED <<latest, wakePending>>
    BY <1>2, <2>1 DEF PublishUi, MailboxInv, viewVars
  <2> QED BY <1>1, <1>2, <2>1 DEF PublishUi, viewVars, Threads
<1>3. CASE PublishProof
  BY <1>1, <1>3 DEF PublishProof, viewVars, Threads
<1>4. CASE NextAfter
  BY <1>0, <1>4 DEF NextAfter, MailboxInv
<1>5. CASE ApplyViewport
  BY <1>0, <1>5 DEF ApplyViewport, MailboxInv, mailbox
<1>6. CASE ~MailboxStep
  BY <1>6, MailboxUntouched DEF MailboxInv
<1> QED BY <1>2, <1>3, <1>4, <1>5, <1>6 DEF MailboxStep

\* ProofGeometryStays: while a GraphProofHandle holds its lease, the latest
\* geometry is the one it published last: publish_ui throws away what a layout or
\* a hide of the UI thread brings, also when it began before the lease.
THEOREM ProofKeepsItsGeometry == Spec => []ProofGeometryStays
<1>1. Init => ProofGeometryStays
  BY DEF Init, ProofGeometryStays
<1>2. CallInv /\ ProofGeometryStays /\ [Next]_vars => ProofGeometryStays'
  <2> SUFFICES ASSUME CallInv, ProofGeometryStays, [Next]_vars PROVE ProofGeometryStays'
    OBVIOUS
  <2> USE DEF ProofGeometryStays
  <2>0. pc \in [Threads -> CallSteps] /\ wanted \in [Threads -> Geometry]
        /\ "ui" \in Threads /\ "proof" \in Threads
    BY DEF CallInv, TypeOK, CallTypes, Threads
  <2>1. CASE SetViewport \/ HideViewport \/ SetProofViewport
    BY <2>0, <2>1 DEF SetViewport, HideViewport, SetProofViewport, mailbox
  <2>2. CASE PublishUi
    BY <2>0, <2>2 DEF PublishUi, Record, GoTo
  <2>3. CASE PublishProof
    BY <2>0, <2>3 DEF PublishProof, Record, GoTo
  <2>4. CASE BeginProof \/ EndProof
    BY <2>0, <2>4 DEF BeginProof, EndProof
  <2>5. CASE \/ WindowStep \/ StartStep \/ ReadyTimeout \/ SystemEvent \/ InstallGeneration
             \/ UNCHANGED vars
    BY <2>5 DEF WindowStep, StartStep, Initialize, TakeReady, ReadyTimeout, StartFails,
           Awake, SystemEvent, UserEvent, AboutToWait, NextAfter, ApplyViewport, ProcessCommand,
           SyncResidentScene, LeaveLoop, DropReceiver, InstallGeneration, mailbox, callVars, vars
  <2>6. CASE Query \/ BeginShutdown \/ Join
    BY <2>0, <2>6 DEF Query, BeginShutdown, Join, mailbox
  <2>7. ASSUME NEW t \in Threads,
               \/ WakeViewport(t) \/ BeginSend(t) \/ CancelSend(t) \/ WakeCommands(t)
               \/ TakeAnswer(t) \/ Send(t) \/ AnswerTimeout(t) \/ SwitchManifold(t)
        PROVE  ProofGeometryStays'
    <3>1. UNCHANGED <<latest, proofActive, wanted>>
      BY <2>7 DEF WakeViewport, BeginSend, CancelSend, WakeCommands, TakeAnswer, Send,
             AnswerTimeout, SwitchManifold, mailbox
    <3>2. pc[t] # "publish" /\ \A u \in Threads : u # t => pc'[u] = pc[u]
      BY <2>0, <2>7 DEF WakeViewport, BeginSend, CancelSend, WakeCommands, TakeAnswer, Send,
             AnswerTimeout, SwitchManifold, GoTo
    <3> QED BY <2>0, <3>1, <3>2
  <2> QED BY <2>1, <2>2, <2>3, <2>4, <2>5, <2>6, <2>7 DEF Next, CallStep
<1>3. Spec => []CallInv
  BY CallInit, CallNext, PTL DEF Spec
<1> QED BY <1>1, <1>2, <1>3, PTL DEF Spec

-----------------------------------------------------------------------------
(***************************************************************************)
(* Leaving the loop                                                        *)
(***************************************************************************)

\* What a step of thread t inside a call leaves alone.
LEMMA OthersStay ==
  ASSUME CallInv, NEW t \in Threads,
         \/ WakeViewport(t) \/ BeginSend(t) \/ CancelSend(t) \/ WakeCommands(t)
         \/ TakeAnswer(t) \/ Send(t) \/ AnswerTimeout(t) \/ SwitchManifold(t)
  PROVE  /\ \A u \in Threads : u # t => pc'[u] = pc[u] /\ job'[u] = job[u]
         /\ UNCHANGED <<wakePending, applied, latest, loaded, loopVars>>
         /\ ~SwitchManifold(t) => scene' = scene
         /\ ~(WakeViewport(t) \/ WakeCommands(t)) => wakes' = wakes
         /\ job'[t] = job[t] \/ pc'[t] = "idle" \/ SwitchManifold(t)
BY DEF CallInv, TypeOK, CallTypes, WakeViewport, BeginSend, CancelSend, WakeCommands, TakeAnswer,
       Send, AnswerTimeout, SwitchManifold, GoTo, mailbox, viewVars

\* The same for the threads' other steps.
LEMMA OthersStayOnCall ==
  ASSUME CallInv, NEW t \in Threads,
         \/ t = "ui" /\ (SetViewport \/ HideViewport \/ PublishUi)
         \/ t = "proof" /\ (BeginProof \/ EndProof \/ SetProofViewport \/ PublishProof \/ Query)
         \/ t = "closer" /\ (BeginShutdown \/ Join)
  PROVE  /\ \A u \in Threads : u # t => pc'[u] = pc[u] /\ job'[u] = job[u]
         /\ UNCHANGED <<channel, wakes, scene, loaded, applied, loopVars>>
         /\ pc[t] \notin {"sending", "sent", "wake_viewport", "cancel"}
         /\ pc'[t] \notin {"cancel", "over"}
<1>1. CASE \/ t = "ui" /\ (SetViewport \/ HideViewport)
           \/ t = "proof" /\ (BeginProof \/ SetProofViewport \/ Query)
           \/ t = "closer" /\ (BeginShutdown \/ Join)
  BY <1>1 DEF CallInv, TypeOK, CallTypes, SetViewport, HideViewport, SetProofViewport, Query,
         BeginShutdown, Join, BeginProof, queue, viewVars, Threads
<1>2. CASE t = "proof" /\ EndProof
  BY <1>2 DEF CallInv, TypeOK, CallTypes, EndProof, GoTo, queue, viewVars, Threads
<1>3. CASE (PublishUi /\ t = "ui") \/ (PublishProof /\ t = "proof")
  <2>1. PICK step \in {"idle", "begin", "wake_viewport"} : GoTo(t, step)
    BY <1>3, AfterKeeps DEF PublishUi, PublishProof, Record, CallInv, TypeOK
  <2> QED BY <1>3, <2>1 DEF CallInv, TypeOK, CallTypes, PublishUi, PublishProof, GoTo, queue, viewVars
<1> QED BY <1>1, <1>2, <1>3

\* The loop goes once it has been told to, and only then do calls fail.
LEMMA LeavingNext == CallInv /\ LeavingInv /\ [Next]_vars => LeavingInv'
<1> SUFFICES ASSUME CallInv, LeavingInv, [Next]_vars PROVE LeavingInv'
  OBVIOUS
<1>1. CASE WindowStep
  <2>1. CASE Initialize
    BY <2>1 DEF LeavingInv, Initialize, callVars
  <2>2. CASE Awake
    BY <2>2 DEF LeavingInv, Awake, callVars
  <2>3. CASE UserEvent
    BY <2>3 DEF LeavingInv, UserEvent, callVars
  <2>4. CASE AboutToWait
    BY <2>4 DEF LeavingInv, AboutToWait, callVars
  <2>5. CASE NextAfter
    BY <2>5 DEF LeavingInv, NextAfter, callVars
  <2>6. CASE ApplyViewport
    BY <2>6 DEF LeavingInv, ApplyViewport, callVars
  <2>7. CASE ProcessCommand
    BY <2>7 DEF LeavingInv, ProcessCommand, callVars
  <2>8. CASE SyncResidentScene
    BY <2>8 DEF LeavingInv, SyncResidentScene, callVars
  <2>9. CASE LeaveLoop
    BY <2>9 DEF LeavingInv, LeaveLoop, callVars
  <2>10. CASE DropReceiver
    BY <2>10 DEF LeavingInv, DropReceiver, callVars
  <2> QED BY <1>1, <2>1, <2>2, <2>3, <2>4, <2>5, <2>6, <2>7, <2>8, <2>9, <2>10 DEF WindowStep
<1>2. CASE StartStep \/ ReadyTimeout \/ SystemEvent \/ InstallGeneration \/ UNCHANGED vars
  BY <1>2 DEF LeavingInv, StartStep, TakeReady, StartFails, ReadyTimeout, SystemEvent,
         InstallGeneration, callVars, loopVars, vars
<1>3. ASSUME NEW t \in Threads,
             \/ t = "ui" /\ (SetViewport \/ HideViewport \/ PublishUi)
             \/ t = "proof" /\ (BeginProof \/ EndProof \/ SetProofViewport \/ PublishProof \/ Query)
             \/ t = "closer" /\ (BeginShutdown \/ Join)
      PROVE  LeavingInv'
  <2>1. UNCHANGED loopVars /\ \A u \in Threads : u # t => pc'[u] = pc[u] /\ job'[u] = job[u]
    BY <1>3, OthersStayOnCall
  <2>2. pc'[t] \notin {"cancel", "over"}
    BY <1>3, OthersStayOnCall
  <2> QED BY <2>1, <2>2 DEF LeavingInv, loopVars
<1>4. ASSUME NEW t \in Threads,
             \/ WakeViewport(t) \/ BeginSend(t) \/ CancelSend(t) \/ WakeCommands(t)
             \/ TakeAnswer(t) \/ Send(t) \/ AnswerTimeout(t) \/ SwitchManifold(t)
      PROVE  LeavingInv'
  <2>1. UNCHANGED loopVars /\ \A u \in Threads : u # t => pc'[u] = pc[u] /\ job'[u] = job[u]
    BY <1>4, OthersStay
  <2>2. pc'[t] = "cancel" => win = "gone"
    BY <1>4, AfterKeeps DEF CallInv, TypeOK, CallTypes, WakeViewport, BeginSend, CancelSend, WakeCommands, TakeAnswer, Send,
           AnswerTimeout, SwitchManifold, GoTo
  <2>3. pc'[t] = "over" /\ job'[t] = "sync" => exiting
    BY <1>4, AfterKeeps DEF CallInv, TypeOK, CallTypes, Carries, LeavingInv, WakeViewport,
           BeginSend, CancelSend, WakeCommands, TakeAnswer, Send, AnswerTimeout, SwitchManifold, GoTo
  <2> QED BY <2>1, <2>2, <2>3 DEF LeavingInv, loopVars
<1> QED BY <1>1, <1>2, <1>3, <1>4 DEF Next, CallStep, Threads

-----------------------------------------------------------------------------
(***************************************************************************)
(* Work and wakes                                                          *)
(***************************************************************************)

\* The window has just been spawned: nothing to do yet.
LEMMA WindowInit == Init => MailboxInv /\ LeavingInv /\ WorkInv
<1> SUFFICES ASSUME Init PROVE MailboxInv /\ LeavingInv /\ WorkInv
  OBVIOUS
<1> USE DEF Init
<1>1. MailboxInv
  BY DEF MailboxInv
<1>2. LeavingInv
  BY DEF LeavingInv
<1>3. WorkInv
  BY DEF WorkInv
<1> QED BY <1>1, <1>2, <1>3

\* The loop does the work it has been woken for before it sleeps again.
LEMMA LoopKeepsWork ==
  ASSUME CallInv, MailboxInv, LeavingInv, WorkInv, WindowStep \/ SystemEvent
  PROVE  WorkInv'
<1> USE DEF WorkInv
<1>0. wakes \in Nat
  BY DEF CallInv, TypeOK, QueueTypes
<1>1. CASE Initialize
  BY <1>1 DEF Initialize, queue, callVars, mailbox
<1>2. CASE Awake \/ SystemEvent
  BY <1>2 DEF Awake, SystemEvent, LeavingInv, queue, callVars, mailbox
<1>3. CASE UserEvent
  BY <1>3 DEF UserEvent, queue, callVars, mailbox
<1>4. CASE AboutToWait
  BY <1>4 DEF AboutToWait, queue, callVars, mailbox
<1>5. CASE NextAfter
  BY <1>5 DEF NextAfter, queue, callVars
<1>6. CASE ApplyViewport
  BY <1>6 DEF ApplyViewport, queue, callVars, mailbox
<1>7. CASE ProcessCommand
  BY <1>7 DEF ProcessCommand, queue, mailbox
<1>8. CASE SyncResidentScene
  BY <1>8 DEF SyncResidentScene, queue, callVars, mailbox
<1>9. CASE LeaveLoop
  BY <1>9 DEF LeaveLoop, queue, callVars, mailbox
<1>10. CASE DropReceiver
  BY <1>10 DEF DropReceiver, LeavingInv, queue, mailbox
<1> QED BY <1>1, <1>2, <1>3, <1>4, <1>5, <1>6, <1>7, <1>8, <1>9, <1>10 DEF WindowStep

\* Whoever brings work wakes the loop for it, or owes the wake.
LEMMA CallsKeepWork ==
  ASSUME CallInv, LeavingInv, WorkInv, NEW t \in Threads,
         \/ WakeViewport(t) \/ BeginSend(t) \/ CancelSend(t) \/ WakeCommands(t)
         \/ TakeAnswer(t) \/ Send(t) \/ AnswerTimeout(t) \/ SwitchManifold(t)
  PROVE  WorkInv'
<1>0. wakes \in Nat /\ channel \in Seq(Command) /\ pc \in [Threads -> CallSteps]
      /\ job \in [Threads -> Jobs]
  BY DEF CallInv, TypeOK, QueueTypes, CallTypes
<1>1. /\ \A u \in Threads : u # t => pc'[u] = pc[u] /\ job'[u] = job[u]
      /\ UNCHANGED <<wakePending, loaded, win, pass, exiting>>
      /\ ~SwitchManifold(t) => scene' = scene
      /\ job'[t] = job[t] \/ pc'[t] = "idle" \/ SwitchManifold(t)
  BY OthersStay DEF loopVars
<1>2. CASE WakeViewport(t) \/ WakeCommands(t)
  <2>1. wakes' = wakes + 1 \/ exiting
    BY <1>2 DEF WakeViewport, WakeCommands, LeavingInv
  <2>2. wakes' > 0 \/ exiting'
    BY <1>0, <1>1, <2>1
  <2> QED BY <2>2 DEF WorkInv
<1>3. CASE \/ BeginSend(t) \/ CancelSend(t) \/ TakeAnswer(t) \/ Send(t) \/ AnswerTimeout(t)
           \/ SwitchManifold(t)
  <2>1. wakes' = wakes /\ pc[t] \notin {"sent", "wake_viewport"}
    BY <1>3 DEF BeginSend, CancelSend, TakeAnswer, Send, AnswerTimeout, SwitchManifold
  <2>2. channel' # <<>> => channel # <<>> \/ pc'[t] = "sent"
    BY <1>0, <1>3 DEF BeginSend, CancelSend, TakeAnswer, Send, AnswerTimeout, SwitchManifold, queue
  <2>3. job[t] = "sync" => job'[t] = "sync" \/ exiting
    BY <1>0, <1>3 DEF BeginSend, CancelSend, TakeAnswer, Send, AnswerTimeout, SwitchManifold,
           LeavingInv, CallInv, Carries
  <2>4. SwitchManifold(t) => job'[t] = "sync"
    BY <1>0 DEF SwitchManifold
  <2> QED BY <1>1, <2>1, <2>2, <2>3, <2>4 DEF WorkInv
<1> QED BY <1>2, <1>3

\* Publishing leaves the wake to whoever has set the flag; a lease, a query or a
\* shutdown begin and end without work.
LEMMA PublishersKeepWork ==
  ASSUME CallInv, LeavingInv, WorkInv, NEW t \in Threads,
         \/ t = "ui" /\ (SetViewport \/ HideViewport \/ PublishUi)
         \/ t = "proof" /\ (BeginProof \/ EndProof \/ SetProofViewport \/ PublishProof \/ Query)
         \/ t = "closer" /\ (BeginShutdown \/ Join)
  PROVE  WorkInv'
<1>0. pc \in [Threads -> CallSteps] /\ job \in [Threads -> Jobs]
  BY DEF CallInv, TypeOK, CallTypes
<1>1. /\ \A u \in Threads : u # t => pc'[u] = pc[u] /\ job'[u] = job[u]
      /\ UNCHANGED <<channel, wakes, scene, loaded, win, pass, exiting>>
      /\ pc[t] \notin {"sending", "sent", "wake_viewport", "cancel"}
  BY OthersStayOnCall DEF loopVars
<1>2. job[t] = "sync" => exiting
  <2>1. pc[t] \in {"idle", "publish", "over", "join"}
    BY DEF SetViewport, HideViewport, PublishUi, BeginProof, EndProof, SetProofViewport,
           PublishProof, Query, BeginShutdown, Join
  <2> QED BY <2>1 DEF CallInv, Carries, LeavingInv
<1>3. wakePending' => wakePending \/ pc'[t] = "wake_viewport"
  BY <1>0 DEF SetViewport, HideViewport, PublishUi, BeginProof, EndProof, SetProofViewport,
         PublishProof, Query, BeginShutdown, Join, Record, GoTo, mailbox
<1> QED BY <1>1, <1>2, <1>3 DEF WorkInv

\* Every step keeps a wake owed for every piece of work.
LEMMA WorkNext ==
  CallInv /\ MailboxInv /\ LeavingInv /\ WorkInv /\ [Next]_vars => WorkInv'
<1> SUFFICES ASSUME CallInv, MailboxInv, LeavingInv, WorkInv, [Next]_vars PROVE WorkInv'
  OBVIOUS
<1>1. CASE WindowStep \/ SystemEvent
  BY <1>1, LoopKeepsWork
<1>2. CASE StartStep \/ ReadyTimeout \/ InstallGeneration \/ UNCHANGED vars
  <2>1. UNCHANGED <<channel, wakePending, wakes, pc, job, win, pass, exiting, loaded, scene.manifold>>
    BY <1>2 DEF StartStep, TakeReady, StartFails, ReadyTimeout, InstallGeneration, callVars,
           loopVars, mailbox, queue, vars, CallInv, TypeOK, WindowTypes, Scene
  <2> QED BY <2>1 DEF WorkInv
<1>3. ASSUME NEW t \in Threads, CallStep(t) \/ Send(t) \/ AnswerTimeout(t) \/ SwitchManifold(t)
      PROVE  WorkInv'
  BY <1>3, CallsKeepWork, PublishersKeepWork DEF CallStep
<1>4. CASE SetViewport \/ HideViewport \/ BeginProof \/ EndProof \/ SetProofViewport \/ Query
           \/ BeginShutdown
  BY <1>4, PublishersKeepWork DEF Threads
<1> QED BY <1>1, <1>2, <1>3, <1>4 DEF Next

\* NeverSleepsOnWork: when the event loop sleeps with no user event queued, a
\* command in the channel, a geometry not yet applied or a manifold not yet shown
\* has a thread that still owes its wake, although only the first geometry since
\* the loop has caught up asks for one (ViewportState.wake_pending).
THEOREM LoopNeverSleepsOnWork == Spec => []NeverSleepsOnWork
<1> DEFINE IInv == CallInv /\ MailboxInv /\ LeavingInv /\ WorkInv
<1>1. Init => IInv
  BY CallInit, WindowInit
<1>2. IInv /\ [Next]_vars => IInv'
  BY CallNext, MailboxNext, LeavingNext, WorkNext
<1>3. IInv => NeverSleepsOnWork
  BY DEF MailboxInv, LeavingInv, WorkInv, NeverSleepsOnWork
<1>4. Spec => []IInv
  <2> HIDE DEF IInv
  <2> QED BY <1>1, <1>2, PTL DEF Spec
<1> HIDE DEF IInv
<1> QED BY <1>3, <1>4, PTL
=============================================================================
