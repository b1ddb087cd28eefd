----------------------------- MODULE DesktopProofs -----------------------------
(***************************************************************************)
(* The desktop program.  For any batches and any number of the user's      *)
(* acts, its session keeps its types, the coordinator serves its batches   *)
(* as a line does, and the window closes on nothing that runs.  For any    *)
(* programs, profiles, presets, inputs and jobs, and whatever fails, the   *)
(* draft is what the Create page shows, the detail panel commands the      *)
(* selected job, and an acknowledged save stays in its file, whose readers *)
(* agree.                                                                  *)
(*                                                                         *)
(* The session and the pages share nothing but the queues of their runner, *)
(* each in a model of its own (inbox and outbox, requests and signals).    *)
(***************************************************************************)
EXTENDS DesktopSession, DesktopPages, SequenceTheorems, TLAPS

-----------------------------------------------------------------------------
(* The coordinator and its threads                                         *)

\* _cancel_batch has a batch in hand.
InHand == worker.step \in {"cancel", "mark", "settle"} => worker.active \in Batches

\* After BeginShutDown the runner's thread waits for the finalizer, and ends only
\* with the pool's; the window closes only with the runner's thread.
Ending ==
    /\ pool = "finalizing" => worker.step = "shutdown"
    /\ worker.step = "gone" => pool = "ended"
    /\ window = "closed" => worker.step = "gone"

Inv == TypeOK /\ InHand /\ Ending

\* Before the first act.
LEMMA InitInv == Init => Inv
<1> SUFFICES ASSUME Init PROVE Inv
  OBVIOUS
<1>1. ~shutDown /\ shutDown \in BOOLEAN
  BY DEF Init, CoordinatorInit
<1>2. active = NoBatch /\ queued = <<>> /\ pool = "none"
  BY DEF Init, CoordinatorInit
<1>3. CoordinatorOK
  BY <1>1, <1>2 DEF CoordinatorOK, PoolStates
<1>4. InHand /\ Ending
  BY <1>2 DEF Init, InHand, Ending, Ready, Hand
<1>5. RunnerOK
  BY DEF Init, RunnerOK, Lives, Ready, Hand, Worker
<1>6. stopping \in BOOLEAN /\ shown \in BOOLEAN /\ closeWhenIdle \in BOOLEAN /\ late \in BOOLEAN
  BY DEF Init
<1>7. outbox = <<>> /\ window = "open" /\ waitingFor = {} /\ cancelAll = "no" /\ acts = 0
  BY DEF Init
<1>8. WindowOK
  BY <1>6, <1>7, MaxActsAssumption DEF WindowOK
<1> QED
  BY <1>3, <1>4, <1>5, <1>8 DEF Inv, TypeOK

-----------------------------------------------------------------------------
(* The coordinator by itself                                                *)

CoordinatorNext ==
    \/ StartTask \/ PostCompletion \/ ReleaseTask \/ BeginShutDown \/ FinishShutDown
    \/ \E b \in Batches : Schedule(b) \/ CancelQueued(b)

\* A batch removed from the queue leaves a sequence of batches.
LEMMA RemoveAtSeq ==
    ASSUME NEW S, NEW s \in Seq(S), NEW i \in DOMAIN s
    PROVE  RemoveAt(s, i) \in Seq(S)
BY DEF RemoveAt

\* Pumping a sequence of batches leaves the next of them active.
LEMMA PumpOK ==
    ASSUME NEW q \in Seq(Batches), Pump(q), shutDown \in BOOLEAN, ~shutDown, UNCHANGED shutDown
    PROVE  CoordinatorOK'
<1>1. ~shutDown' /\ shutDown' \in BOOLEAN
  OBVIOUS
<1>2. CASE q = <<>>
  BY <1>1, <1>2 DEF Pump, CoordinatorOK, PoolStates
<1>3. CASE q # <<>>
  <2>1. Head(q) \in Batches /\ Tail(q) \in Seq(Batches)
    BY <1>3
  <2>2. active' = Head(q) /\ queued' = Tail(q) /\ pool' = "submitted"
    BY <1>3 DEF Pump
  <2> QED
    BY <1>1, <2>1, <2>2, NoBatchAssumption DEF CoordinatorOK, PoolStates
<1> QED
  BY <1>2, <1>3

\* Every operation of the coordinator keeps its invariant.
LEMMA CoordinatorStep == CoordinatorOK /\ CoordinatorNext => CoordinatorOK'
<1> SUFFICES ASSUME CoordinatorOK, CoordinatorNext PROVE CoordinatorOK'
  OBVIOUS
<1>1. CASE StartTask \/ PostCompletion
  BY <1>1 DEF StartTask, PostCompletion, CoordinatorOK, PoolStates
<1>2. CASE ReleaseTask
  <2>1. shutDown \in BOOLEAN /\ ~shutDown /\ queued \in Seq(Batches)
    BY <1>2 DEF ReleaseTask, CoordinatorOK
  <2> QED
    BY <1>2, <2>1, PumpOK DEF ReleaseTask
<1>3. CASE BeginShutDown
  BY <1>3 DEF BeginShutDown, MayShutDown, CoordinatorOK, PoolStates
<1>4. CASE FinishShutDown
  BY <1>4 DEF FinishShutDown, CoordinatorOK, PoolStates
<1>5. ASSUME NEW b \in Batches, Schedule(b) PROVE CoordinatorOK'
  <2>1. Append(queued, b) \in Seq(Batches) /\ shutDown \in BOOLEAN /\ ~shutDown /\ UNCHANGED shutDown
    BY <1>5 DEF Schedule, CoordinatorOK
  <2>2. CASE active = NoBatch
    BY <1>5, <2>1, <2>2, PumpOK DEF Schedule
  <2>3. CASE active # NoBatch
    BY <1>5, <2>1, <2>3 DEF Schedule, CoordinatorOK
  <2> QED
    BY <2>2, <2>3
<1>6. ASSUME NEW b \in Batches, CancelQueued(b) PROVE CoordinatorOK'
  <2>1. queued' \in Seq(Batches)
    BY <1>6, RemoveAtSeq DEF CancelQueued, CoordinatorOK
  <2>2. queued = <<>> => queued' = <<>>
    BY <1>6 DEF CancelQueued
  <2> QED
    BY <1>6, <2>1, <2>2 DEF CancelQueued, CoordinatorOK
<1> QED
  BY <1>1, <1>2, <1>3, <1>4, <1>5, <1>6 DEF CoordinatorNext

\* A request the runner takes is a request, of the kind it takes it for.
LEMMA Taken ==
    ASSUME RunnerOK, NEW kind, Take(kind)
    PROVE  /\ Head(inbox) \in Requests /\ Head(inbox).kind = kind
           /\ inbox' \in Seq(Requests)
           /\ kind \in Commands => Head(inbox).batch \in Batches
<1>1. inbox \in Seq(Requests) /\ inbox # <<>>
  BY DEF RunnerOK, Take
<1>2. Head(inbox) \in Requests /\ Tail(inbox) \in Seq(Requests)
  BY <1>1
<1>3. Head(inbox).kind = kind /\ inbox' = Tail(inbox)
  BY DEF Take
<1>4. kind \in Commands => Head(inbox).batch \in Batches
  BY <1>2, <1>3 DEF Requests, Commands
<1> QED
  BY <1>2, <1>3, <1>4

\* Every step of the session is a step of the coordinator or leaves it alone.
LEMMA StepsCoordinator == RunnerOK /\ [Next]_vars => [CoordinatorNext]_coordinator
<1> SUFFICES ASSUME RunnerOK, [Next]_vars, ~UNCHANGED coordinator PROVE CoordinatorNext
  OBVIOUS
<1>1. CASE PoolStep
  BY <1>1 DEF PoolStep, Start, Finish, Release, Finalize, CoordinatorNext
<1>2. CASE Submit
  <2>1. Head(inbox).batch \in Batches
    BY <1>2, Taken DEF Submit, Commands
  <2>2. Schedule(Head(inbox).batch)
    BY <1>2 DEF Submit
  <2> QED
    BY <2>1, <2>2 DEF CoordinatorNext
<1>3. CASE StartAgain
  <2>1. Head(inbox).batch \in Batches
    BY <1>3, Taken DEF StartAgain, Commands
  <2>2. Schedule(Head(inbox).batch)
    BY <1>3 DEF StartAgain
  <2> QED
    BY <2>1, <2>2 DEF CoordinatorNext
<1>4. CASE CancelBatch
  <2>1. Head(inbox).batch \in Batches
    BY <1>4, Taken DEF CancelBatch, Commands
  <2> QED
    BY <1>4, <2>1 DEF CancelBatch, CoordinatorNext
<1>5. CASE SweepQueued
  <2>1. Head(worker.queue) \in Batches
    BY <1>5 DEF SweepQueued, RunnerOK, Worker
  <2>2. CancelQueued(Head(worker.queue))
    BY <1>5 DEF SweepQueued
  <2> QED
    BY <2>1, <2>2 DEF CoordinatorNext
<1>6. CASE Shutdown
  BY <1>6 DEF Shutdown, CoordinatorNext
<1>7. CASE StillScheduled \/ CancelRequested \/ CancelLocalWork \/ SweepActive
             \/ ShutdownRefused \/ ShutdownAgain \/ ShutdownReturns \/ Poll
  BY <1>7 DEF StillScheduled, CancelRequested, CancelLocalWork, SweepActive, Take,
              ShutdownRefused, ShutdownAgain, ShutdownReturns, Poll
<1>8. CASE Receives \/ Stopped \/ StopTimeout
  BY <1>8 DEF Receives, ReceiveState, ReceiveSubmitted, ReceiveAnswer, ReceiveCancelled,
              Receive, Stopped, StopTimeout
<1>9. CASE UserStep
  BY <1>9 DEF UserStep, UserSubmits, UserActs, Command, UserCloses, KeepOpen, CancelAndClose
<1>10. CASE UNCHANGED vars
  BY <1>10 DEF vars, coordinator
<1> QED
  BY <1>1, <1>2, <1>3, <1>4, <1>5, <1>6, <1>7, <1>8, <1>9, <1>10 DEF Next, WorkerStep

-----------------------------------------------------------------------------
(* The runner's thread and the window's                                     *)

\* What a queue of signals or requests stays.
LEMMA AppendSeq ==
    ASSUME NEW S, NEW s \in Seq(S), NEW e \in S
    PROVE  Append(s, e) \in Seq(S)
OBVIOUS

\* A signal more is still a sequence of signals.
LEMMA Told ==
    ASSUME WindowOK, NEW kind, [kind |-> kind] \in Signals, Tell(kind),
           UNCHANGED <<uiButOutbox, history>>
    PROVE  WindowOK'
<1>1. outbox' \in Seq(Signals)
  BY AppendSeq DEF Tell, WindowOK
<1> QED
  BY <1>1 DEF WindowOK, uiButOutbox, history

\* Where the window's thread does nothing.
LEMMA WindowKept == WindowOK /\ UNCHANGED <<ui, history>> => WindowOK'
BY DEF WindowOK, ui, history

\* The pool thread changes the journal and the markers of the active batch.
LEMMA PoolInv == ASSUME Inv, PoolStep PROVE RunnerOK' /\ WindowOK' /\ InHand' /\ Ending'
<1>1. UNCHANGED <<runner, ui, history>>
  BY DEF PoolStep, Start, Finish, Release, Finalize
<1>2. life' \in [Batches -> Lives] /\ marked' \subseteq Batches
  <2>1. life \in [Batches -> Lives] /\ marked \subseteq Batches
    BY DEF Inv, TypeOK, RunnerOK
  <2> QED
    BY <2>1 DEF PoolStep, Start, Finish, Release, Finalize, disk, Lives
<1>3. RunnerOK'
  BY <1>1, <1>2 DEF Inv, TypeOK, RunnerOK, runner
<1>4. WindowOK'
  BY <1>1, WindowKept DEF Inv, TypeOK
<1>5. UNCHANGED <<worker, window>>
  BY <1>1 DEF runner, ui
<1>6. pool # "ended" /\ (pool' = "finalizing" => pool = "finalizing")
  BY DEF PoolStep, Start, Finish, Release, Finalize, StartTask, PostCompletion, ReleaseTask,
         FinishShutDown, Pump
<1>7. InHand' /\ Ending'
  BY <1>5, <1>6 DEF Inv, InHand, Ending
<1> QED
  BY <1>3, <1>4, <1>7

\* The window's thread posts requests; only a thread that is gone lets it close.
LEMMA WindowInv ==
    ASSUME Inv, Receives \/ Stopped \/ StopTimeout \/ UserStep
    PROVE  RunnerOK' /\ WindowOK' /\ InHand' /\ Ending'
<1>1. UNCHANGED <<coordinator, disk, worker>>
  BY DEF Receives, ReceiveState, ReceiveSubmitted, ReceiveAnswer, ReceiveCancelled, Receive,
         Stopped, StopTimeout, UserStep, UserSubmits, UserActs, Command, UserCloses, KeepOpen,
         CancelAndClose, runner
<1>2. UNCHANGED <<life, marked, worker, pool>>
  BY <1>1 DEF coordinator, disk
<1>3. inbox' \in Seq(Requests)
  <2>1. inbox \in Seq(Requests)
    BY DEF Inv, TypeOK, RunnerOK
  <2>2. ASSUME NEW kind \in Commands, NEW b \in Batches, Command(kind, b) PROVE inbox' \in Seq(Requests)
    <3>1. [kind |-> kind, batch |-> b] \in Requests
      BY DEF Requests
    <3> QED
      BY <2>1, <2>2, <3>1, AppendSeq DEF Command, Ask
  <2>3. [kind |-> "cancel all", batch |-> NoBatch] \in Requests
    BY DEF Requests
  <2>4. [kind |-> "shutdown", batch |-> NoBatch] \in Requests
    BY DEF Requests
  <2>5. CASE Receives \/ Stopped \/ StopTimeout
    BY <2>1, <2>3, <2>4, <2>5, AppendSeq
       DEF Receives, ReceiveState, ReceiveSubmitted, ReceiveAnswer, ReceiveCancelled, Stop, Ask,
           Stopped, StopTimeout, runner
  <2>6. CASE UserSubmits
    BY <2>2, <2>6 DEF UserSubmits, Commands
  <2>7. ASSUME NEW b \in Batches, UserActs("start", b) \/ UserActs("cancel", b) PROVE inbox' \in Seq(Requests)
    BY <2>2, <2>7 DEF UserActs, Commands
  <2>8. CASE UserCloses \/ KeepOpen \/ CancelAndClose
    BY <2>1, <2>3, <2>4, <2>8, AppendSeq DEF UserCloses, KeepOpen, CancelAndClose, Stop, Ask, runner
  <2> QED
    BY <2>5, <2>6, <2>7, <2>8 DEF UserStep
<1>4. RunnerOK'
  BY <1>2, <1>3 DEF Inv, TypeOK, RunnerOK
<1>5. window' = "closed" => window = "closed" \/ worker.step = "gone"
  BY DEF Receives, ReceiveState, ReceiveSubmitted, ReceiveAnswer, ReceiveCancelled,
         Stopped, StopTimeout, UserStep, UserSubmits, UserActs, Command, UserCloses, KeepOpen,
         CancelAndClose
<1>6. InHand' /\ Ending'
  BY <1>2, <1>5 DEF Inv, InHand, Ending
<1>7. outbox' \in Seq(Signals)
  <2>1. outbox \in Seq(Signals)
    BY DEF Inv, TypeOK, WindowOK
  <2>2. ASSUME NEW kind, Receive(kind) PROVE outbox' \in Seq(Signals)
    BY <2>1, <2>2 DEF Receive
  <2>3. CASE Receives
    BY <2>2, <2>3 DEF Receives, ReceiveState, ReceiveSubmitted, ReceiveAnswer, ReceiveCancelled
  <2>4. CASE ~Receives
    <3>1. UNCHANGED outbox
      BY <2>4 DEF Stopped, StopTimeout, UserStep, UserSubmits, UserActs, Command, UserCloses,
                  KeepOpen, CancelAndClose
    <3> QED
      BY <2>1, <3>1
  <2> QED
    BY <2>3, <2>4
<1>8. acts' \in 0..MaxActs
  <2>1. acts \in 0..MaxActs
    BY DEF Inv, TypeOK, WindowOK
  <2>2. UNCHANGED acts \/ (acts < MaxActs /\ acts' = acts + 1)
    BY DEF Receives, ReceiveState, ReceiveSubmitted, ReceiveAnswer, ReceiveCancelled, Receive,
           Stopped, StopTimeout, UserStep, UserSubmits, UserActs, Command, UserCloses, KeepOpen,
           CancelAndClose, history
  <2> QED
    BY <2>1, <2>2, MaxActsAssumption
<1>9. WindowOK'
  <2>1. window' \in {"open", "dialog", "closed"} /\ cancelAll' \in {"no", "pending", "in flight"}
        /\ waitingFor' \subseteq {"submit", "command"}
    BY DEF Inv, TypeOK, WindowOK, Receives, ReceiveState, ReceiveSubmitted, ReceiveAnswer,
           ReceiveCancelled, Stopped, StopTimeout, UserStep, UserSubmits, UserActs, Command,
           UserCloses, KeepOpen, CancelAndClose
  <2>2. stopping' \in BOOLEAN /\ shown' \in BOOLEAN /\ closeWhenIdle' \in BOOLEAN /\ late' \in BOOLEAN
    BY DEF Inv, TypeOK, WindowOK, Receives, ReceiveState, ReceiveSubmitted, ReceiveAnswer,
           ReceiveCancelled, Receive, Stopped, StopTimeout, UserStep, UserSubmits, UserActs, Command,
           UserCloses, KeepOpen, CancelAndClose, Stop, history
  <2> QED
    BY <1>7, <1>8, <2>1, <2>2 DEF WindowOK
<1> QED
  BY <1>4, <1>6, <1>9

Steps == {"ready", "cancel", "mark", "settle", "sweep", "shutdown", "gone"}

\* What the runner's thread has in hand, newly taken or changed.
LEMMA HandOK ==
    ASSUME NEW step \in Steps, NEW q \in Seq(Batches), NEW a \in Batches \union {NoBatch},
           NEW batches \in SUBSET Batches
    PROVE  /\ Hand(step, q, a, batches) \in Worker
           /\ Hand(step, q, a, batches).step = step
           /\ Hand(step, q, a, batches).active = a
BY DEF Hand, Worker, Steps

\* The next step of the request in hand.
LEMMA NextStepOK ==
    ASSUME NEW w \in Worker, NEW step \in Steps
    PROVE  /\ [w EXCEPT !.step = step] \in Worker
           /\ [w EXCEPT !.step = step].step = step
           /\ [w EXCEPT !.step = step].active = w.active
BY DEF Worker, Steps

\* The next batch of cancel_local_work's snapshot.
LEMMA NextQueueOK ==
    ASSUME NEW w \in Worker, w.queue # <<>>
    PROVE  /\ Head(w.queue) \in Batches
           /\ [w EXCEPT !.queue = Tail(@)] \in Worker
           /\ [w EXCEPT !.queue = Tail(@)].step = w.step
           /\ [w EXCEPT !.queue = Tail(@)].active = w.active
<1>1. w.queue \in Seq(Batches)
  BY DEF Worker
<1>2. Head(w.queue) \in Batches /\ Tail(w.queue) \in Seq(Batches)
  BY <1>1
<1> QED
  BY <1>2 DEF Worker

\* Between requests, and after the last.
LEMMA RestOK == /\ Ready \in Worker /\ Ready.step = "ready"
                /\ Gone \in Worker /\ Gone.step = "gone"
<1>1. <<>> \in Seq(Batches) /\ NoBatch \in Batches \union {NoBatch} /\ {} \in SUBSET Batches
  OBVIOUS
<1>2. Ready \in Worker /\ Ready.step = "ready"
  BY <1>1 DEF Ready, Hand, Worker
<1>3. Gone \in Worker /\ Gone.step = "gone"
  BY <1>1 DEF Gone, Hand, Worker
<1> QED
  BY <1>2, <1>3

\* The runner's thread takes requests one by one; it ends when the pool has.
LEMMA WorkerInv ==
    ASSUME Inv, WorkerStep \/ Poll
    PROVE  RunnerOK' /\ WindowOK' /\ InHand' /\ Ending'
<1> USE DEF Inv, TypeOK
<1>1. worker \in Worker /\ inbox \in Seq(Requests) /\ marked \subseteq Batches
      /\ life \in [Batches -> Lives]
  BY DEF RunnerOK
<1>2. Ready \in Worker /\ Gone \in Worker /\ Ready.step = "ready" /\ Gone.step = "gone"
  BY RestOK
<1>3. UNCHANGED <<uiButOutbox, history>>
  BY DEF WorkerStep, Submit, StartAgain, CancelBatch, StillScheduled, CancelRequested,
         CancelLocalWork, SweepQueued, SweepActive, ShutdownRefused, Shutdown, ShutdownAgain,
         ShutdownReturns, Poll, ui, uiButOutbox
<1>4. inbox' \in Seq(Requests)
  <2>1. UNCHANGED inbox \/ (inbox # <<>> /\ inbox' = Tail(inbox))
    BY DEF WorkerStep, Submit, StartAgain, CancelBatch, StillScheduled, CancelRequested,
           CancelLocalWork, SweepQueued, SweepActive, ShutdownRefused, Shutdown, ShutdownAgain,
           ShutdownReturns, Poll, Take
  <2> QED
    BY <1>1, <2>1
<1>5. WindowOK'
  <2>1. ASSUME NEW kind \in {"busy", "idle", "submit done", "command done", "cancel all done", "cancel all failed"},
               Tell(kind)
        PROVE  WindowOK'
    BY <1>3, <2>1, Told DEF Signals
  <2>2. CASE UNCHANGED outbox
    BY <1>3, <2>2 DEF WindowOK, uiButOutbox, history
  <2>3. UNCHANGED outbox \/ \E kind \in {"busy", "idle", "submit done", "command done", "cancel all done", "cancel all failed"} : Tell(kind)
    BY DEF WorkerStep, Submit, StartAgain, CancelBatch, StillScheduled, CancelRequested,
         CancelLocalWork, SweepQueued, SweepActive, SweepFails, ShutdownRefused, Shutdown,
         ShutdownAgain, ShutdownReturns, Poll, ui
  <2> QED
    BY <2>1, <2>2, <2>3
<1>6. life' \in [Batches -> Lives] /\ marked' \subseteq Batches
  <2>1. ASSUME NEW b \in Batches, NEW f, RequestCancel(b, f)
        PROVE  life' \in [Batches -> Lives] /\ marked' \subseteq Batches
    BY <1>1, <2>1 DEF RequestCancel, Lives
  <2>2. CASE Submit
    BY <1>1, <2>2 DEF Submit, Lives
  <2>3. CASE CancelRequested
    <3>1. worker.active \in Batches
      BY <2>3 DEF CancelRequested, InHand
    <3>2. RequestCancel(worker.active, worker.step = "mark") \/ UNCHANGED disk
      BY <2>3 DEF CancelRequested
    <3>3. CASE RequestCancel(worker.active, worker.step = "mark")
      BY <1>1, <3>1, <3>3 DEF RequestCancel, Lives
    <3>4. CASE UNCHANGED disk
      BY <1>1, <3>4 DEF disk
    <3> QED
      BY <3>2, <3>3, <3>4
  <2>4. CASE SweepQueued
    <3>1. Head(worker.queue) \in Batches
      BY <1>1, <2>4 DEF SweepQueued, Worker
    <3> QED
      BY <1>1, <2>1, <2>4, <3>1 DEF SweepQueued, disk
  <2>5. CASE SweepActive
    BY <1>1, <2>1, <2>5 DEF SweepActive, disk, Worker
  <2> QED
    BY <1>1, <2>2, <2>3, <2>4, <2>5
       DEF WorkerStep, StartAgain, CancelBatch, StillScheduled, CancelLocalWork, ShutdownRefused,
           Shutdown, ShutdownAgain, ShutdownReturns, Poll, disk
<1>7. /\ worker' \in Worker
      /\ worker'.step \in {"cancel", "mark", "settle"} => worker'.active \in Batches
      /\ worker'.step = "gone" => pool' = "ended"
  <2>1. CASE CancelBatch
    <3>1. Head(inbox).batch \in Batches
      BY <2>1, Taken DEF CancelBatch, Commands
    <3>2. worker' = Hand("cancel", <<>>, Head(inbox).batch, {})
      BY <2>1 DEF CancelBatch
    <3>3. worker'.step = "cancel" /\ worker'.active = Head(inbox).batch
      BY <3>2 DEF Hand
    <3>4. worker' \in Worker
      BY <3>1, <3>2 DEF Hand, Worker
    <3> QED
      BY <3>1, <3>3, <3>4
  <2>2. CASE StillScheduled
    <3>1. PICK step \in {"mark", "settle"} : worker' = [worker EXCEPT !.step = step]
      BY <2>2 DEF StillScheduled
    <3>2. step \in Steps /\ worker.active \in Batches
      BY <2>2 DEF StillScheduled, InHand, Steps
    <3>3. worker' \in Worker /\ worker'.step = step /\ worker'.active = worker.active
      BY <1>1, <3>1, <3>2, NextStepOK
    <3> QED
      BY <3>1, <3>2, <3>3
  <2>3. CASE CancelLocalWork
    <3>1. worker' = Hand("sweep", queued, active, Scheduled)
      BY <2>3 DEF CancelLocalWork
    <3>2. queued \in Seq(Batches) /\ active \in Batches \union {NoBatch} /\ Scheduled \subseteq Batches
      BY DEF CoordinatorOK, Scheduled, ToSet
    <3> QED
      BY <3>1, <3>2, HandOK DEF Steps
  <2>4. CASE SweepQueued
    <3>1. worker.queue # <<>> /\ worker.step = "sweep"
          /\ (worker' = Ready \/ worker' = [worker EXCEPT !.queue = Tail(@)])
      BY <2>4 DEF SweepQueued, SweepFails
    <3> QED
      BY <1>1, <1>2, <3>1, NextQueueOK
  <2>5. CASE Shutdown
    <3>1. worker' = Hand("shutdown", <<>>, NoBatch, {})
      BY <2>5 DEF Shutdown
    <3>2. worker'.step = "shutdown"
      BY <3>1 DEF Hand
    <3>3. worker' \in Worker
      BY <3>1 DEF Hand, Worker
    <3> QED
      BY <3>2, <3>3
  <2>6. CASE ShutdownAgain
    BY <1>1, <1>2, <2>6 DEF ShutdownAgain, Take, CoordinatorOK, Ending, coordinator
  <2>7. CASE ShutdownReturns
    BY <1>1, <1>2, <2>7 DEF ShutdownReturns, coordinator
  <2>8. CASE CancelRequested \/ SweepActive
    BY <1>1, <1>2, <2>8 DEF CancelRequested, SweepActive, SweepFails
  <2>9. CASE Submit \/ StartAgain \/ ShutdownRefused \/ Poll
    BY <1>1, <2>9 DEF Submit, StartAgain, ShutdownRefused, Poll, Take
  <2> QED
    BY <2>1, <2>2, <2>3, <2>4, <2>5, <2>6, <2>7, <2>8, <2>9 DEF WorkerStep
<1>8. RunnerOK' /\ InHand'
  BY <1>4, <1>6, <1>7 DEF RunnerOK, InHand
<1>9. pool' = "finalizing" => worker'.step = "shutdown"
  <2>1. CASE Shutdown
    <3>1. worker' = Hand("shutdown", <<>>, NoBatch, {})
      BY <2>1 DEF Shutdown
    <3> QED
      BY <3>1 DEF Hand
  <2>2. CASE ~Shutdown
    <3>1. pool' = "finalizing" => pool = "finalizing"
      BY <2>2 DEF WorkerStep, Submit, StartAgain, CancelBatch, StillScheduled, CancelRequested,
             CancelLocalWork, SweepQueued, SweepActive, ShutdownRefused, ShutdownAgain,
             ShutdownReturns, Poll, Schedule, Pump, CancelQueued, coordinator
    <3>2. pool = "finalizing" => ~(WorkerStep \/ Poll)
      BY DEF Ending, WorkerStep, Submit, StartAgain, CancelBatch, StillScheduled, CancelRequested,
             CancelLocalWork, SweepQueued, SweepActive, ShutdownRefused, Shutdown, ShutdownAgain,
             ShutdownReturns, Poll, Take
    <3> QED
      BY <3>1, <3>2
  <2> QED
    BY <2>1, <2>2
<1>10. window' # "closed"
  BY <1>3 DEF Ending, WorkerStep, Submit, StartAgain, CancelBatch, StillScheduled, CancelRequested,
              CancelLocalWork, SweepQueued, SweepActive, ShutdownRefused, Shutdown, ShutdownAgain,
              ShutdownReturns, Poll, Take, uiButOutbox
<1>11. Ending'
  BY <1>7, <1>9, <1>10 DEF Ending
<1> QED
  BY <1>5, <1>8, <1>11

-----------------------------------------------------------------------------
(* The session                                                              *)

\* Every step keeps the invariant.
LEMMA StepInv == Inv /\ [Next]_vars => Inv'
<1> SUFFICES ASSUME Inv, [Next]_vars PROVE Inv'
  OBVIOUS
<1>1. CoordinatorOK'
  <2>1. CoordinatorOK /\ RunnerOK
    BY DEF Inv, TypeOK
  <2>2. [CoordinatorNext]_coordinator
    BY <2>1, StepsCoordinator
  <2>3. CASE CoordinatorNext
    BY <2>1, <2>3, CoordinatorStep
  <2>4. CASE UNCHANGED coordinator
    BY <2>1, <2>4 DEF coordinator, CoordinatorOK
  <2> QED
    BY <2>2, <2>3, <2>4
<1>2. RunnerOK' /\ WindowOK' /\ InHand' /\ Ending'
  <2>1. CASE PoolStep
    BY <2>1, PoolInv
  <2>2. CASE WorkerStep \/ Poll
    BY <2>2, WorkerInv
  <2>3. CASE Receives \/ Stopped \/ StopTimeout \/ UserStep
    BY <2>3, WindowInv
  <2>4. CASE UNCHANGED vars
    BY <2>4, WindowKept
       DEF vars, Inv, TypeOK, RunnerOK, InHand, Ending, coordinator, disk, runner, ui
  <2> QED
    BY <2>1, <2>2, <2>3, <2>4 DEF Next
<1> QED
  BY <1>1, <1>2 DEF Inv, TypeOK

\* The invariant holds throughout.
LEMMA Invariance == Spec => []Inv
<1> QED
  BY InitInv, StepInv, PTL DEF Spec

\* The types, and what the coordinator's own code goes by: a task is active as
\* long as the pool thread has one, and none waits behind no task.
THEOREM Typed == Spec => []TypeOK
<1>1. Inv => TypeOK
  BY DEF Inv
<1> QED
  BY <1>1, Invariance, PTL

\* When the window is closed nothing is scheduled, running or about to be:
\* whatever the user, the runner and the pool thread were doing.
THEOREM ClosedOnIdle == Spec => []ClosedIsIdle
<1>1. Inv => ClosedIsIdle
  <2> SUFFICES ASSUME Inv, window = "closed" PROVE Scheduled = {} /\ pool = "ended"
    BY DEF ClosedIsIdle
  <2>1. pool = "ended"
    BY DEF Inv, Ending
  <2>2. active = NoBatch /\ queued = <<>>
    BY <2>1 DEF Inv, TypeOK, CoordinatorOK
  <2> QED
    BY <2>1, <2>2 DEF Scheduled, ToSet
<1> QED
  BY <1>1, Invariance, PTL

-----------------------------------------------------------------------------
(* The coordinator's line                                                   *)

InLine == IF active = NoBatch THEN queued ELSE <<active>> \o queued
Served == pool \in {"working", "posted"}

\* An element before a sequence: what the two ends and a removal behind it do.
LEMMA ConsSeq ==
    ASSUME NEW S, NEW s \in Seq(S), NEW a \in S
    PROVE  /\ <<a>> \o s \in Seq(S) /\ <<a>> \o s # <<>>
           /\ Tail(<<a>> \o s) = s
           /\ \A e \in S : <<a>> \o Append(s, e) = Append(<<a>> \o s, e)
           /\ s # <<>> => <<Head(s)>> \o Tail(s) = s
<1>1. <<a>> \o s \in Seq(S) /\ <<a>> \o s # <<>>
  OBVIOUS
<1>2. Tail(<<a>> \o s) = s
  OBVIOUS
<1>3. ASSUME NEW e \in S PROVE <<a>> \o Append(s, e) = Append(<<a>> \o s, e)
  OBVIOUS
<1>4. s # <<>> => <<Head(s)>> \o Tail(s) = s
  OBVIOUS
<1> QED
  BY <1>1, <1>2, <1>3, <1>4

\* Removing the i-th behind an element is removing the next of the whole.
LEMMA ConsRemove ==
    ASSUME NEW S, NEW s \in Seq(S), NEW a \in S, NEW i \in 1..Len(s)
    PROVE  /\ i + 1 \in 2..Len(<<a>> \o s)
           /\ <<a>> \o RemoveAt(s, i) = RemoveAt(<<a>> \o s, i + 1)
<1>1. Len(<<a>> \o s) = Len(s) + 1
  OBVIOUS
<1>2. <<a>> \o SubSeq(s, 1, i - 1) = SubSeq(<<a>> \o s, 1, i)
  OBVIOUS
<1>3. SubSeq(s, i + 1, Len(s)) = SubSeq(<<a>> \o s, i + 2, Len(s) + 1)
  OBVIOUS
<1>4. <<a>> \in Seq(S) /\ SubSeq(s, 1, i - 1) \in Seq(S) /\ SubSeq(s, i + 1, Len(s)) \in Seq(S)
  OBVIOUS
<1>5. <<a>> \o (SubSeq(s, 1, i - 1) \o SubSeq(s, i + 1, Len(s)))
      = (<<a>> \o SubSeq(s, 1, i - 1)) \o SubSeq(s, i + 1, Len(s))
  <2> DEFINE u == SubSeq(s, 1, i - 1)
             v == SubSeq(s, i + 1, Len(s))
  <2>1. u \in Seq(S) /\ v \in Seq(S) /\ <<a>> \in Seq(S)
    BY <1>4
  <2> HIDE DEF u, v
  <2>2. <<a>> \o (u \o v) = (<<a>> \o u) \o v
    BY <2>1, ConcatAssociative
  <2> QED
    BY <2>2 DEF u, v
<1>6. i + 1 - 1 = i /\ i + 1 + 1 = i + 2
  OBVIOUS
<1>7. RemoveAt(<<a>> \o s, i + 1) = SubSeq(<<a>> \o s, 1, i) \o SubSeq(<<a>> \o s, i + 2, Len(s) + 1)
  BY <1>1, <1>6 DEF RemoveAt
<1>8. <<a>> \o RemoveAt(s, i) = RemoveAt(<<a>> \o s, i + 1)
  BY <1>2, <1>3, <1>5, <1>7 DEF RemoveAt
<1> QED
  BY <1>1, <1>8

\* What is in the mapped line is what is scheduled.
LEMMA InLineOK == CoordinatorOK => InLine \in Seq(Batches) /\ ToSet(InLine) = Scheduled
<1> SUFFICES ASSUME CoordinatorOK PROVE InLine \in Seq(Batches) /\ ToSet(InLine) = Scheduled
  OBVIOUS
<1>1. queued \in Seq(Batches) /\ active \in Batches \union {NoBatch}
  BY DEF CoordinatorOK
<1>2. CASE active = NoBatch
  BY <1>1, <1>2 DEF InLine, Scheduled
<1>3. CASE active # NoBatch
  <2>1. InLine = <<active>> \o queued
    BY <1>3 DEF InLine
  <2>2. InLine \in Seq(Batches)
    BY <1>1, <1>3, <2>1
  <2>3. Len(InLine) = Len(queued) + 1 /\ InLine[1] = active
        /\ \A j \in 1..Len(queued) : InLine[j + 1] = queued[j]
    BY <1>1, <1>3, <2>1
  <2>4. \A k \in 1..Len(InLine) : k = 1 \/ (k - 1 \in 1..Len(queued) /\ InLine[k] = queued[k - 1])
    BY <1>1, <2>2, <2>3
  <2>5. ToSet(InLine) \subseteq {active} \union ToSet(queued)
    BY <1>1, <2>2, <2>3, <2>4 DEF ToSet
  <2>6. {active} \union ToSet(queued) \subseteq ToSet(InLine)
    <3>1. \A j \in 1..Len(queued) : j + 1 \in 1..Len(InLine)
      BY <1>1, <2>3
    <3>2. 1 \in 1..Len(InLine)
      BY <1>1, <2>3
    <3> QED
      BY <1>1, <2>2, <2>3, <3>1, <3>2 DEF ToSet
  <2> QED
    BY <1>3, <2>2, <2>5, <2>6 DEF Scheduled
<1> QED
  BY <1>1, <1>2, <1>3

\* The line's actions, in the coordinator's terms.
LEMMA LineActions ==
    /\ InLine # <<>> /\ ~Served /\ Served' /\ InLine' = InLine => Line!Serve
    /\ Served /\ ~Served' /\ InLine' = Tail(InLine) => Line!Done
    /\ \A b \in Batches : b \notin ToSet(InLine) /\ InLine' = Append(InLine, b) /\ Served' = Served => Line!Join(b)
    /\ \A i \in 2..Len(InLine) : InLine' = RemoveAt(InLine, i) /\ Served' = Served => Line!Leave
<1>1. Served \in BOOLEAN /\ Served' \in BOOLEAN
  BY DEF Served
<1>2. InLine # <<>> /\ ~Served /\ Served' /\ InLine' = InLine => Line!Serve
  BY <1>1 DEF Line!Serve, InLine, Served
<1>3. Served /\ ~Served' /\ InLine' = Tail(InLine) => Line!Done
  BY <1>1 DEF Line!Done, InLine, Served
<1>4. ASSUME NEW b \in Batches, b \notin ToSet(InLine), InLine' = Append(InLine, b), Served' = Served PROVE Line!Join(b)
  BY <1>4 DEF Line!Join, Line!ToSet, ToSet, InLine, Served
<1>5. ASSUME NEW i \in 2..Len(InLine), InLine' = RemoveAt(InLine, i), Served' = Served PROVE Line!Leave
  BY <1>5 DEF Line!Leave, Line!RemoveAt, RemoveAt, InLine, Served
<1> QED
  BY <1>2, <1>3, <1>4, <1>5

\* Every operation of the coordinator is a step of the line, or none.
LEMMA LineStep == CoordinatorOK /\ CoordinatorNext => Line!Next \/ UNCHANGED <<InLine, Served>>
<1> SUFFICES ASSUME CoordinatorOK, CoordinatorNext PROVE Line!Next \/ UNCHANGED <<InLine, Served>>
  OBVIOUS
<1>1. queued \in Seq(Batches) /\ active \in Batches \union {NoBatch} /\ pool \in PoolStates
      /\ (active = NoBatch => queued = <<>>)
      /\ (active # NoBatch <=> pool \in {"submitted", "working", "posted"})
  BY DEF CoordinatorOK
<1>2. CASE StartTask
  <2>1. InLine' = InLine /\ InLine # <<>>
    BY <1>1, <1>2, ConsSeq DEF StartTask, InLine
  <2>2. ~Served /\ Served'
    BY <1>2 DEF StartTask, Served
  <2> QED
    BY <2>1, <2>2, LineActions DEF Line!Next
<1>3. CASE PostCompletion
  BY <1>3 DEF PostCompletion, InLine, Served
<1>4. CASE ReleaseTask
  <2>1. active \in Batches /\ Served /\ InLine = <<active>> \o queued
    BY <1>1, <1>4 DEF ReleaseTask, Served, InLine
  <2>2. Tail(InLine) = queued
    BY <1>1, <2>1, ConsSeq
  <2>3. ~Served' /\ InLine' = queued
    <3>1. CASE queued = <<>>
      BY <1>4, <3>1 DEF ReleaseTask, Pump, Served, InLine
    <3>2. CASE queued # <<>>
      <4>1. Head(queued) \in Batches
        BY <1>1, <3>2
      <4>2. active' # NoBatch /\ InLine' = <<Head(queued)>> \o Tail(queued) /\ ~Served'
        BY <1>4, <3>2, <4>1, NoBatchAssumption DEF ReleaseTask, Pump, Served, InLine
      <4> QED
        BY <1>1, <3>2, <4>1, <4>2, ConsSeq
    <3> QED
      BY <3>1, <3>2
  <2> QED
    BY <2>1, <2>2, <2>3, LineActions DEF Line!Next
<1>5. CASE BeginShutDown \/ FinishShutDown
  BY <1>1, <1>5 DEF BeginShutDown, FinishShutDown, MayShutDown, InLine, Served
<1>6. ASSUME NEW b \in Batches, Schedule(b) PROVE Line!Next
  <2>1. b \notin ToSet(InLine)
    BY <1>6, InLineOK DEF Schedule
  <2>2. InLine' = Append(InLine, b) /\ Served' = Served
    <3>1. CASE active = NoBatch
      <4>1. Pump(<<b>>)
        BY <1>1, <1>6, <3>1 DEF Schedule
      <4>2. active' = b /\ queued' = <<>> /\ pool' = "submitted"
        BY <4>1 DEF Pump
      <4>3. InLine' = <<b>> /\ InLine = <<>>
        BY <1>1, <3>1, <4>2, NoBatchAssumption DEF InLine
      <4> QED
        BY <1>1, <3>1, <4>2, <4>3 DEF Served
    <3>2. CASE active # NoBatch
      <4>1. active' = active /\ queued' = Append(queued, b) /\ pool' = pool
        BY <1>6, <3>2 DEF Schedule
      <4> QED
        BY <1>1, <3>2, <4>1, ConsSeq DEF InLine, Served
    <3> QED
      BY <3>1, <3>2
  <2> QED
    BY <2>1, <2>2, LineActions DEF Line!Next
<1>7. ASSUME NEW b \in Batches, CancelQueued(b), queued' # queued PROVE Line!Next
  <2>1. PICK i \in DOMAIN queued : queued' = RemoveAt(queued, i)
    BY <1>7 DEF CancelQueued
  <2>2. active' = active /\ active \in Batches /\ pool' = pool /\ i \in 1..Len(queued)
    <3>1. queued # <<>>
      BY <2>1
    <3> QED
      BY <1>1, <1>7, <2>1, <3>1 DEF CancelQueued
  <2>3. InLine = <<active>> \o queued /\ InLine' = <<active>> \o RemoveAt(queued, i)
    BY <2>1, <2>2, NoBatchAssumption DEF InLine
  <2>4. i + 1 \in 2..Len(InLine) /\ InLine' = RemoveAt(InLine, i + 1)
    BY <1>1, <2>2, <2>3, ConsRemove
  <2>5. Served' = Served
    BY <2>2 DEF Served
  <2> QED
    BY <2>4, <2>5, LineActions DEF Line!Next
<1> QED
  <2>1. ASSUME NEW b \in Batches, CancelQueued(b), queued' = queued PROVE UNCHANGED <<InLine, Served>>
    BY <2>1 DEF CancelQueued, InLine, Served
  <2> QED
    BY <1>2, <1>3, <1>4, <1>5, <1>6, <1>7, <2>1 DEF CoordinatorNext

\* Whatever the threads do, the coordinator's batches stand in one line, none
\* twice, and each is served alone, to its end, in the order of its schedule.
THEOREM OneLine == Spec => Line!Safety
<1>1. Init => Line!Init
  BY DEF Init, CoordinatorInit, Line!Init
<1>2. Inv /\ [Next]_vars => [Line!Next]_(Line!vars)
  <2> SUFFICES ASSUME Inv, [Next]_vars PROVE Line!Next \/ UNCHANGED <<InLine, Served>>
    BY DEF Line!vars, InLine, Served
  <2>1. CoordinatorOK /\ RunnerOK
    BY DEF Inv, TypeOK
  <2>2. [CoordinatorNext]_coordinator
    BY <2>1, StepsCoordinator
  <2>3. CASE UNCHANGED coordinator
    BY <2>3 DEF coordinator, InLine, Served
  <2> QED
    BY <2>1, <2>2, <2>3, LineStep
<1> QED
  BY <1>1, <1>2, Invariance, PTL DEF Spec, Line!Safety

-----------------------------------------------------------------------------
(* Requests and signals of one kind in a queue                              *)

\* A sequence of whatever messages.
IsQueue(q) == \E S : q \in Seq(S)

\* m is in the queue, and the only one of its kind there.
Only(q, kind, m) ==
    /\ m.kind = kind
    /\ \E i \in 1 .. Len(q) : q[i] = m /\ \A j \in 1 .. Len(q) : q[j].kind = kind => j = i

\* The queue r holds of this kind what q does.
Same(q, r, kind) ==
    /\ IsQueue(r)
    /\ Carries(r, kind) <=> Carries(q, kind)
    /\ \A m : Only(r, kind, m) <=> Only(q, kind, m)

\* One of this kind is under way, as a request or as its answer.
OneUnderWay(rq, sg, kind) ==
    \/ (\E m : Only(rq, kind, m)) /\ ~Carries(sg, kind)
    \/ ~Carries(rq, kind) /\ \E m : Only(sg, kind, m)

\* What is not in a queue can be put there, and is the only one.
LEMMA PutFirst ==
    ASSUME NEW q, NEW kind, NEW m, IsQueue(q), m.kind = kind, ~Carries(q, kind)
    PROVE  IsQueue(Append(q, m)) /\ Only(Append(q, m), kind, m) /\ Carries(Append(q, m), kind)
<1>1. PICK S : q \in Seq(S)
  BY DEF IsQueue
<1>2. q \in Seq(S \union {m})
  BY <1>1
<1>3. Append(q, m) \in Seq(S \union {m}) /\ Len(Append(q, m)) = Len(q) + 1 /\ Len(q) \in Nat
  BY <1>2
<1>4. Append(q, m)[Len(q) + 1] = m /\ \A i \in 1 .. Len(q) : Append(q, m)[i] = q[i]
  BY <1>2
<1>5. \A j \in 1 .. Len(q) + 1 : Append(q, m)[j].kind = kind => j = Len(q) + 1
  BY <1>3, <1>4 DEF Carries
<1>6. Len(q) + 1 \in 1 .. Len(Append(q, m))
  BY <1>3
<1> QED
  BY <1>3, <1>4, <1>5, <1>6 DEF IsQueue, Only, Carries

\* A queue has what it has of a kind, if one of another kind is put in it.
LEMMA PutOther ==
    ASSUME NEW q, NEW kind, NEW m, IsQueue(q), m.kind # kind
    PROVE  Same(q, Append(q, m), kind)
<1> DEFINE r == Append(q, m)
<1>1. PICK S : q \in Seq(S)
  BY DEF IsQueue
<1>2. q \in Seq(S \union {m})
  BY <1>1
<1>3. r \in Seq(S \union {m}) /\ Len(r) = Len(q) + 1 /\ Len(q) \in Nat
  BY <1>2
<1>4. r[Len(q) + 1] = m /\ \A i \in 1 .. Len(q) : r[i] = q[i]
  BY <1>2
<1> HIDE DEF r
<1>5. Carries(r, kind) <=> Carries(q, kind)
  BY <1>3, <1>4 DEF Carries
<1>6. ASSUME NEW n PROVE Only(r, kind, n) <=> Only(q, kind, n)
  <2>1. ASSUME Only(r, kind, n) PROVE Only(q, kind, n)
    BY <1>3, <1>4, <2>1 DEF Only
  <2>2. ASSUME Only(q, kind, n) PROVE Only(r, kind, n)
    BY <1>3, <1>4, <2>2 DEF Only
  <2> QED
    BY <2>1, <2>2
<1>7. IsQueue(r)
  BY <1>3 DEF IsQueue
<1> QED
  BY <1>5, <1>6, <1>7 DEF Same, r

\* The same, if one of another kind is taken from its head.
LEMMA TakeOther ==
    ASSUME NEW q, NEW kind, IsQueue(q), q # <<>>, Head(q).kind # kind
    PROVE  Same(q, Tail(q), kind)
<1> DEFINE r == Tail(q)
<1>1. PICK S : q \in Seq(S)
  BY DEF IsQueue
<1>2. r \in Seq(S) /\ Len(r) = Len(q) - 1 /\ Len(q) \in Nat /\ Len(q) >= 1 /\ Head(q) = q[1]
  BY <1>1
<1>3. \A i \in 1 .. Len(r) : r[i] = q[i + 1]
  BY <1>1
<1> HIDE DEF r
<1>4. \A i \in 1 .. Len(q) : i = 1 \/ (i - 1 \in 1 .. Len(r) /\ q[i] = r[i - 1])
  BY <1>2, <1>3
<1>a. \A i \in 1 .. Len(r) : i + 1 \in 1 .. Len(q)
  BY <1>2
<1>b. \A i \in 1 .. Len(q) : q[i].kind = kind => i - 1 \in 1 .. Len(r) /\ q[i] = r[i - 1]
  BY <1>2, <1>4
<1>5. Carries(r, kind) <=> Carries(q, kind)
  <2>1. ASSUME NEW i \in 1 .. Len(r), r[i].kind = kind PROVE Carries(q, kind)
    BY <1>3, <1>a, <2>1 DEF Carries
  <2>2. ASSUME NEW i \in 1 .. Len(q), q[i].kind = kind PROVE Carries(r, kind)
    BY <1>b, <2>2 DEF Carries
  <2> QED
    BY <2>1, <2>2 DEF Carries
<1>6. ASSUME NEW n PROVE Only(r, kind, n) <=> Only(q, kind, n)
  <2>1. ASSUME Only(r, kind, n) PROVE Only(q, kind, n)
    <3>1. PICK i \in 1 .. Len(r) : r[i] = n /\ \A j \in 1 .. Len(r) : r[j].kind = kind => j = i
      BY <2>1 DEF Only
    <3>2. i + 1 \in 1 .. Len(q) /\ q[i + 1] = n
      BY <1>2, <1>3, <3>1
    <3>3. ASSUME NEW j \in 1 .. Len(q), q[j].kind = kind PROVE j = i + 1
      <4>1. j - 1 \in 1 .. Len(r) /\ r[j - 1].kind = kind
        BY <1>b, <3>3
      <4> QED
        BY <3>1, <4>1
    <3> QED
      BY <2>1, <3>2, <3>3 DEF Only
  <2>2. ASSUME Only(q, kind, n) PROVE Only(r, kind, n)
    <3>1. PICK i \in 1 .. Len(q) : q[i] = n /\ \A j \in 1 .. Len(q) : q[j].kind = kind => j = i
      BY <2>2 DEF Only
    <3>2. i - 1 \in 1 .. Len(r) /\ r[i - 1] = n
      BY <1>2, <1>4, <2>2, <3>1 DEF Only
    <3>3. ASSUME NEW j \in 1 .. Len(r), r[j].kind = kind PROVE j = i - 1
      <4>1. j + 1 \in 1 .. Len(q) /\ q[j + 1].kind = kind
        BY <1>2, <1>3, <3>3
      <4> QED
        BY <3>1, <4>1
    <3> QED
      BY <2>2, <3>2, <3>3 DEF Only
  <2> QED
    BY <2>1, <2>2
<1>7. IsQueue(r)
  BY <1>2 DEF IsQueue
<1> QED
  BY <1>5, <1>6, <1>7 DEF Same, r

\* The only one of its kind, once at the head, is taken from there and none is left.
LEMMA TakeOnly ==
    ASSUME NEW q, NEW kind, NEW m, IsQueue(q), q # <<>>, Head(q).kind = kind, Only(q, kind, m)
    PROVE  Head(q) = m /\ IsQueue(Tail(q)) /\ ~Carries(Tail(q), kind)
<1> DEFINE r == Tail(q)
<1>1. PICK S : q \in Seq(S)
  BY DEF IsQueue
<1>2. r \in Seq(S) /\ Len(r) = Len(q) - 1 /\ Len(q) \in Nat /\ Len(q) >= 1 /\ Head(q) = q[1]
  BY <1>1
<1>3. \A i \in 1 .. Len(r) : r[i] = q[i + 1]
  BY <1>1
<1>4. PICK i \in 1 .. Len(q) : q[i] = m /\ \A j \in 1 .. Len(q) : q[j].kind = kind => j = i
  BY DEF Only
<1>5. i = 1
  BY <1>2, <1>4
<1> HIDE DEF r
<1>6. ASSUME NEW j \in 1 .. Len(r), r[j].kind = kind PROVE FALSE
  <2>1. j + 1 \in 1 .. Len(q) /\ q[j + 1].kind = kind
    BY <1>2, <1>3, <1>6
  <2> QED
    BY <1>4, <1>5, <2>1
<1> QED
  BY <1>2, <1>4, <1>5, <1>6 DEF IsQueue, Carries, r

\* A queue carries the head it has, and the only one of a kind; there is one such.
LEMMA HeadCarried ==
    ASSUME NEW q, IsQueue(q), q # <<>>
    PROVE  Carries(q, Head(q).kind)
<1>1. PICK S : q \in Seq(S)
  BY DEF IsQueue
<1>2. 1 \in 1 .. Len(q) /\ Head(q) = q[1]
  BY <1>1
<1> QED
  BY <1>2 DEF Carries

\* The only message of a kind is there, and no other is the only one.
LEMMA OnlyOne ==
    ASSUME NEW q, NEW kind, NEW m, Only(q, kind, m)
    PROVE  Carries(q, kind) /\ \A n : Only(q, kind, n) => n = m
BY DEF Only, Carries

\* A queue that is left alone twice is left alone.
LEMMA SameTwice ==
    ASSUME NEW q, NEW r, NEW s, NEW kind, Same(q, r, kind), Same(r, s, kind)
    PROVE  Same(q, s, kind)
BY DEF Same

\* Untouched, it is left alone.
LEMMA SameSelf == ASSUME NEW q, NEW kind, IsQueue(q) PROVE Same(q, q, kind)
BY DEF Same

\* Nothing sent, or one request.
LEMMA SendOne ==
    ASSUME NEW q, NEW m, IsQueue(q)
    PROVE  q \o <<>> = q /\ q \o <<m>> = Append(q, m)
<1>1. PICK S : q \in Seq(S)
  BY DEF IsQueue
<1>2. q \in Seq(S \union {m}) /\ <<m>> \in Seq(S \union {m})
  BY <1>1
<1> QED
  BY <1>2, ConcatProperties, AppendProperties, ConcatEmptySeq, AppendIsConcat

-----------------------------------------------------------------------------
(* What is under way                                                        *)

\* What is asked for while nothing of its kind is under way is the only one.
LEMMA Asking ==
    ASSUME NEW rq, NEW rq2, NEW sg, NEW sg2, NEW kind, NEW m, IsQueue(rq), m.kind = kind,
           ~Carries(rq, kind), ~Carries(sg, kind), rq2 = Append(rq, m), Same(sg, sg2, kind)
    PROVE  IsQueue(rq2) /\ OneUnderWay(rq2, sg2, kind) /\ Only(rq2, kind, m) /\ ~Carries(sg2, kind)
<1>1. IsQueue(rq2) /\ Only(rq2, kind, m)
  BY PutFirst
<1>2. ~Carries(sg2, kind)
  BY DEF Same
<1> QED
  BY <1>1, <1>2 DEF OneUnderWay

\* The one under way is served: its answer is.
LEMMA Serving ==
    ASSUME NEW rq, NEW rq2, NEW sg, NEW sg2, NEW kind, NEW a, IsQueue(rq), IsQueue(sg), rq # <<>>,
           Head(rq).kind = kind, a.kind = kind, OneUnderWay(rq, sg, kind),
           rq2 = Tail(rq), sg2 = Append(sg, a)
    PROVE  /\ Only(rq, kind, Head(rq))
           /\ OneUnderWay(rq2, sg2, kind) /\ ~Carries(rq2, kind) /\ Only(sg2, kind, a)
<1>1. Carries(rq, kind)
  BY HeadCarried
<1>2. PICK m : Only(rq, kind, m) /\ ~Carries(sg, kind)
  BY <1>1 DEF OneUnderWay
<1>3. Head(rq) = m /\ ~Carries(rq2, kind)
  BY <1>2, TakeOnly
<1>4. Only(sg2, kind, a)
  BY <1>2, PutFirst
<1> QED
  BY <1>2, <1>3, <1>4 DEF OneUnderWay

\* Its answer is taken: none is under way.
LEMMA Answered ==
    ASSUME NEW rq, NEW sg, NEW kind, IsQueue(sg), sg # <<>>, Head(sg).kind = kind, OneUnderWay(rq, sg, kind)
    PROVE  Only(sg, kind, Head(sg)) /\ ~Carries(rq, kind) /\ ~Carries(Tail(sg), kind)
<1>1. Carries(sg, kind)
  BY HeadCarried
<1>2. PICK m : Only(sg, kind, m) /\ ~Carries(rq, kind)
  BY <1>1 DEF OneUnderWay
<1> QED
  BY <1>2, TakeOnly

\* Queues that hold the same of a kind have the same under way.
LEMMA SameUnderWay ==
    ASSUME NEW rq, NEW sg, NEW rq2, NEW sg2, NEW kind, Same(rq, rq2, kind), Same(sg, sg2, kind),
           OneUnderWay(rq, sg, kind)
    PROVE  OneUnderWay(rq2, sg2, kind)
BY DEF Same, OneUnderWay

\* A queue less its head is a queue, and one with one more.
LEMMA QueueOps ==
    ASSUME NEW q, IsQueue(q)
    PROVE  /\ q # <<>> => IsQueue(Tail(q))
           /\ \A m : IsQueue(Append(q, m))
<1>1. PICK S : q \in Seq(S)
  BY DEF IsQueue
<1>2. q # <<>> => Tail(q) \in Seq(S)
  BY <1>1
<1>3. ASSUME NEW m PROVE Append(q, m) \in Seq(S \union {m})
  BY <1>1
<1> QED
  BY <1>2, <1>3 DEF IsQueue

-----------------------------------------------------------------------------
(* What each page asks for, and its answers                                 *)

\* The kinds each page sends.
CreateKinds == {"preview", "submit", "load", "test"} \union Saves
JobKinds == {"refresh", "detail", "scan", "start", "cancel", "command", "completion"}
DiagnosticsKinds == {"diagnose", "export"}

\* What is sent is nothing, or one message of this kind.
OfKind(sent, kind) == sent = <<>> \/ \E m : m.kind = kind /\ sent = <<m>>

\* A loader sends nothing, or the request it is for.
LEMMA Sends ==
    ASSUME NEW l, NEW m
    PROVE  OfKind(AskSends(l, m), m.kind) /\ OfKind(DoneSends(l, m), m.kind)
BY DEF OfKind, AskSends, DoneSends

\* What is sent of another kind leaves the queue as it was.
LEMMA SendOther ==
    ASSUME NEW q, NEW kind, NEW sent, NEW k, IsQueue(q), OfKind(sent, k), k # kind
    PROVE  Same(q, q \o sent, kind)
<1>1. CASE sent = <<>>
  BY <1>1, SendOne, SameSelf
<1>2. ASSUME NEW m, m.kind = k, sent = <<m>> PROVE Same(q, q \o sent, kind)
  <2>1. q \o sent = Append(q, m)
    BY <1>2, SendOne
  <2>2. Same(q, Append(q, m), kind)
    BY <1>2, PutOther
  <2> QED
    BY <2>1, <2>2
<1> QED
  BY <1>1, <1>2 DEF OfKind

\* What is sent joins a queue.
LEMMA SendQueue ==
    ASSUME NEW q, NEW sent, NEW k, IsQueue(q), OfKind(sent, k)
    PROVE  IsQueue(q \o sent)
<1>1. CASE sent = <<>>
  BY <1>1, SendOne
<1>2. ASSUME NEW m, sent = <<m>> PROVE IsQueue(q \o sent)
  <2>1. q \o sent = Append(q, m)
    BY <1>2, SendOne
  <2> QED
    BY <2>1, QueueOps
<1> QED
  BY <1>1, <1>2 DEF OfKind

\* So do two of other kinds.
LEMMA SendTwo ==
    ASSUME NEW q, NEW kind, NEW s, NEW k, NEW t, NEW l, IsQueue(q),
           OfKind(s, k), k # kind, OfKind(t, l), l # kind
    PROVE  Same(q, q \o s \o t, kind)
<1>1. Same(q, q \o s, kind)
  BY SendOther
<1>2. Same(q \o s, q \o s \o t, kind)
  BY <1>1, SendOther DEF Same
<1> QED
  BY <1>1, <1>2, SameTwice

\* And three.
LEMMA SendThree ==
    ASSUME NEW q, NEW kind, NEW s, NEW k, NEW t, NEW l, NEW u, NEW n, IsQueue(q),
           OfKind(s, k), k # kind, OfKind(t, l), l # kind, OfKind(u, n), n # kind
    PROVE  Same(q, q \o s \o t \o u, kind)
<1>1. Same(q, q \o s \o t, kind)
  BY SendTwo
<1>2. Same(q \o s \o t, q \o s \o t \o u, kind)
  BY <1>1, SendOther DEF Same
<1> QED
  BY <1>1, <1>2, SameTwice

\* Serving a request of another kind, with an answer of another kind, or a failure.
LEMMA ServeOther ==
    ASSUME NEW kind, NEW k, k # kind, IsQueue(requests), IsQueue(signals), Serve(k),
           \/ \E v : Reply(k, v)
           \/ Refuse(k)
           \/ Fault(k)
    PROVE  Same(requests, requests', kind) /\ Same(signals, signals', kind)
<1>1. Same(requests, requests', kind)
  BY TakeOther DEF Serve
<1>2. \E a : a.kind = k /\ signals' = Append(signals, a)
  BY DEF Reply, Refuse, Fault, Signal
<1> QED
  BY <1>1, <1>2, PutOther

\* Taking a signal of another kind.
LEMMA TakeSignalOther ==
    ASSUME NEW kind, NEW k, NEW ok, k # kind, IsQueue(signals), TakeSignal(k, ok)
    PROVE  Same(signals, signals', kind)
BY TakeOther DEF TakeSignal

\* A preview asked for is of no other kind.
LEMMA RequestPreviewOther ==
    ASSUME NEW kind, kind # "preview", IsQueue(requests), RequestPreview
    PROVE  Same(requests, requests', kind)
<1>1. OfKind(AskSends(previews, PreviewRequest), "preview")
  BY Sends DEF PreviewRequest, Request
<1>2. requests' = requests \/ requests' = requests \o AskSends(previews, PreviewRequest)
  BY DEF RequestPreview
<1> QED
  BY <1>1, <1>2, SendOther, SameSelf

\* The Create and Settings pages leave all other kinds alone.
LEMMA CreateOther ==
    ASSUME NEW kind, kind \notin CreateKinds, IsQueue(requests), IsQueue(signals), CreateStep
    PROVE  Same(requests, requests', kind) /\ Same(signals, signals', kind)
<1> kind \notin Saves /\ kind # "preview" /\ kind # "submit" /\ kind # "load" /\ kind # "test"
  BY DEF CreateKinds
<1>1. CASE CreateUser
  <2>1. UNCHANGED signals
    BY <1>1 DEF CreateUser, Add, RemoveInput, Clear, SetEntries, SetRecursive, Edit, Validate, SubmitBatch,
       SavePreset, DeletePreset, ChangePreset, SaveGlobal, SaveProvider, TestProvider, AskSettings, Act
  <2>2. CASE RequestPreview
    BY <2>1, <2>2, RequestPreviewOther, SameSelf
  <2>3. CASE UNCHANGED requests
    BY <2>1, <2>3, SameSelf
  <2>4. CASE \E op \in Saves \union {"submit", "test"} : \E v : requests' = Append(requests, Request(op, v))
    <3>1. PICK op \in Saves \union {"submit", "test"} : \E v : requests' = Append(requests, Request(op, v))
      BY <2>4
    <3>2. PICK v : requests' = Append(requests, Request(op, v))
      BY <3>1
    <3>3. Request(op, v).kind # kind
      BY DEF Request
    <3> QED
      BY <2>1, <3>2, <3>3, PutOther, SameSelf
  <2>5. ASSUME NEW e, SetEntries(e) PROVE RequestPreview
    BY <2>5 DEF SetEntries
  <2>6. SetRecursive => RequestPreview
    BY DEF SetRecursive
  <2>7. Edit \/ Validate => UNCHANGED requests
    BY DEF Edit, Validate
  <2>8. SubmitBatch => requests' = Append(requests, Request("submit", None))
    BY DEF SubmitBatch
  <2>9. ASSUME SavePreset \/ DeletePreset
        PROVE  \E op \in Saves : \E v : requests' = Append(requests, Request(op, v))
    BY <2>9 DEF SavePreset, DeletePreset, ChangePreset, Saves
  <2>10. ASSUME SaveGlobal \/ SaveProvider
         PROVE  \E op \in Saves : \E v : requests' = Append(requests, Request(op, v))
    BY <2>10 DEF SaveGlobal, SaveProvider, AskSettings, Saves
  <2>11. TestProvider => requests' = Append(requests, Request("test", 1))
    BY DEF TestProvider, AskSettings
  <2> QED
    BY <1>1, <2>2, <2>3, <2>4, <2>5, <2>6, <2>7, <2>8, <2>9, <2>10, <2>11 DEF CreateUser, Add, RemoveInput, Clear
<1>2. CASE CreateRunner
  <2>1. CASE ServePreview
    BY <2>1, ServeOther DEF ServePreview
  <2>2. CASE ServeSubmit
    BY <2>2, ServeOther DEF ServeSubmit
  <2>3. CASE ServeLoad
    BY <2>3, ServeOther DEF ServeLoad
  <2>4. CASE ServeTest
    BY <2>4, ServeOther DEF ServeTest
  <2>5. ASSUME NEW k \in Saves, ServeSave(k) PROVE Same(requests, requests', kind) /\ Same(signals, signals', kind)
    BY <2>5, ServeOther DEF ServeSave
  <2> QED
    BY <1>2, <2>1, <2>2, <2>3, <2>4, <2>5 DEF CreateRunner
<1>3. CASE CreateWindow
  <2>1. CASE OnPreview \/ OnPreviewFailure
    <3>1. OfKind(DoneSends(previews, Request("preview", Selection(entries, recursive))), "preview")
      BY Sends DEF Request
    <3> QED
      BY <2>1, <3>1, TakeSignalOther, SendOther DEF OnPreview, OnPreviewFailure
  <2>2. CASE OnSubmitted \/ OnSubmitFailure
    BY <2>2, TakeSignalOther, SameSelf DEF OnSubmitted, OnSubmitFailure
  <2>3. CASE OnTest
    BY <2>3, TakeSignalOther, SameSelf DEF OnTest
  <2>4. ASSUME NEW k \in Saves \union {"load"}, OnConfiguration(k)
        PROVE  Same(requests, requests', kind) /\ Same(signals, signals', kind)
    <3>1. Same(signals, signals', kind)
      BY <2>4, TakeSignalOther DEF OnConfiguration
    <3>2. UNCHANGED requests \/ RequestPreview
      BY <2>4 DEF OnConfiguration, SetConfiguration
    <3> QED
      BY <3>1, <3>2, RequestPreviewOther, SameSelf
  <2>5. ASSUME NEW k \in Saves, OnConfigurationFailure(k)
        PROVE  Same(requests, requests', kind) /\ Same(signals, signals', kind)
    BY <2>5, TakeSignalOther, SameSelf DEF OnConfigurationFailure
  <2> QED
    BY <1>3, <2>1, <2>2, <2>3, <2>4, <2>5 DEF CreateWindow
<1> QED
  BY <1>1, <1>2, <1>3 DEF CreateStep

\* The steps of the Queue and History pages that have nothing to do with a detail.
JobRest ==
    \/ Timer \/ CommandJob \/ CloseDialog \/ PollExecution \/ ServeRefresh \/ ServeScan
    \/ \E kind \in {"start", "cancel"} : ServeCommand(kind)
    \/ OnRefreshFailure \/ OnCommandFailure \/ OnScan \/ OnScanFailure \/ Elsewhere \/ Complete

\* They leave all other kinds alone.
LEMMA RestOther ==
    ASSUME NEW kind, kind \notin JobKinds \ {"detail"}, IsQueue(requests), IsQueue(signals), JobRest
    PROVE  Same(requests, requests', kind) /\ Same(signals, signals', kind)
<1> /\ kind # "refresh" /\ kind # "scan" /\ kind # "start" /\ kind # "cancel"
    /\ kind # "command" /\ kind # "completion"
  BY DEF JobKinds
<1> DEFINE RS == AskSends(refreshes, Refresh)
           RD == DoneSends(refreshes, Refresh)
           SD == DoneSends(scans, Request("scan", None))
<1>1. OfKind(RS, "refresh") /\ OfKind(RD, "refresh") /\ OfKind(SD, "scan")
  BY Sends DEF Refresh, Request
<1>2. CASE Timer
  BY <1>2, PutOther, SameSelf DEF Timer, Refresh, Request
<1>3. CASE CommandJob
  <2>1. PICK k \in {"start", "cancel"} : requests' = Append(requests, Request(k, selected))
    BY <1>3 DEF CommandJob
  <2> QED
    BY <1>3, <2>1, PutOther, SameSelf DEF CommandJob, Act, Request
<1>4. CASE CloseDialog
  <2>1. UNCHANGED signals
    BY <1>4 DEF CloseDialog, Act
  <2>2. \/ requests' = requests \o SD
        \/ \E s : (\E k \in {"start", "cancel"} : OfKind(s, k)) /\ requests' = requests \o s \o RS \o SD
    <3>1. ASSUME NEW j, NEW k \in {"start", "cancel"}
          PROVE  OfKind(IF command THEN <<>> ELSE <<Request(k, j)>>, k)
      BY DEF OfKind, Request
    <3> QED
      BY <1>4, <3>1 DEF CloseDialog
  <2>3. CASE requests' = requests \o SD
    BY <1>1, <2>1, <2>3, SendOther, SameSelf
  <2>4. ASSUME NEW s, NEW k \in {"start", "cancel"}, OfKind(s, k), requests' = requests \o s \o RS \o SD
        PROVE  Same(requests, requests', kind)
    BY <1>1, <2>4, SendThree
  <2> QED
    BY <2>1, <2>2, <2>3, <2>4, SameSelf
<1>5. CASE PollExecution
  BY <1>5, PutOther, SameSelf DEF PollExecution, Signal
<1>6. CASE ServeRefresh
  BY <1>6, ServeOther DEF ServeRefresh
<1>7. CASE ServeScan
  BY <1>7, ServeOther DEF ServeScan
<1>8. ASSUME NEW k \in {"start", "cancel"}, ServeCommand(k)
      PROVE  Same(requests, requests', kind) /\ Same(signals, signals', kind)
  <2>1. Same(requests, requests', kind)
    BY <1>8, TakeOther DEF ServeCommand, Serve
  <2>2. \E a : a.kind = "command" /\ signals' = Append(signals, a)
    BY <1>8 DEF ServeCommand, Reply, Refuse, Fault, Signal
  <2> QED
    BY <2>1, <2>2, PutOther
<1>9. CASE OnRefreshFailure
  BY <1>1, <1>9, TakeSignalOther, SendOther DEF OnRefreshFailure
<1>10. CASE OnCommandFailure
  BY <1>10, TakeSignalOther, SameSelf DEF OnCommandFailure
<1>11. CASE OnScan
  <2>1. UNCHANGED requests \/ requests' = requests \o SD
    BY <1>11 DEF OnScan
  <2> QED
    BY <1>1, <1>11, <2>1, TakeSignalOther, SendOther, SameSelf DEF OnScan
<1>12. CASE OnScanFailure
  BY <1>1, <1>12, TakeSignalOther, SendOther DEF OnScanFailure
<1>13. CASE Elsewhere \/ Complete
  BY <1>13, SameSelf DEF Elsewhere, Complete, Act, line
<1> QED
  BY <1>2, <1>3, <1>4, <1>5, <1>6, <1>7, <1>8, <1>9, <1>10, <1>11, <1>12, <1>13 DEF JobRest

\* What follows a selection sends, and what a snapshot brings about, is a detail's.
LEMMA DetailSent ==
    /\ \A j : OfKind(DetailSends(j), "detail") /\ OfKind(DoneSends(details, Request("detail", j)), "detail")
    /\ \A rows, reset : OfKind(NewRowsSends(rows, reset), "detail")
BY Sends DEF DetailSends, NewRowsSends, Request, OfKind

\* The Queue and History pages leave all other kinds alone.
LEMMA JobOther ==
    ASSUME NEW kind, kind \notin JobKinds, IsQueue(requests), IsQueue(signals), JobStep
    PROVE  Same(requests, requests', kind) /\ Same(signals, signals', kind)
<1> kind # "refresh" /\ kind # "detail" /\ kind # "scan" /\ kind # "command" /\ kind # "completion"
  BY DEF JobKinds
<1> DEFINE RS == AskSends(refreshes, Refresh)
           RD == DoneSends(refreshes, Refresh)
           SS == AskSends(scans, Request("scan", None))
<1>1. OfKind(RS, "refresh") /\ OfKind(RD, "refresh") /\ OfKind(SS, "scan")
  BY Sends DEF Refresh, Request
<1>2. CASE JobRest
  BY <1>2, RestOther DEF JobKinds
<1>3. ASSUME NEW j, NEW key, SelectJob(j, key)
      PROVE  Same(requests, requests', kind) /\ Same(signals, signals', kind)
  BY <1>3, DetailSent, SendOther, SameSelf DEF SelectJob, Act
<1>4. CASE ServeDetail
  BY <1>4, ServeOther DEF ServeDetail
<1>5. CASE OnSnapshot
  <2>1. Same(signals, signals', kind)
    BY <1>5, TakeSignalOther DEF OnSnapshot
  <2>2. \/ requests' = requests \o RD
        \/ \E s : OfKind(s, "detail") /\ requests' = requests \o s \o SS \o RD
    BY <1>5, DetailSent DEF OnSnapshot
  <2>3. ASSUME NEW s, OfKind(s, "detail"), requests' = requests \o s \o SS \o RD
        PROVE  Same(requests, requests', kind)
    BY <1>1, <2>3, SendThree
  <2> QED
    BY <1>1, <2>1, <2>2, <2>3, SendOther
<1>6. CASE OnDetail \/ OnDetailFailure
  <2>1. UNCHANGED requests \/ requests' = requests \o DoneSends(details, Request("detail", selected))
    BY <1>6 DEF OnDetail, OnDetailFailure, DetailDone
  <2>2. Same(signals, signals', kind)
    BY <1>6, TakeSignalOther DEF OnDetail, OnDetailFailure
  <2> QED
    BY <2>1, <2>2, DetailSent, SendOther, SameSelf
<1>7. CASE OnAck \/ OnCompletion
  <2>1. requests' = requests \o RS \o DetailSends(selected)
    BY <1>7 DEF OnAck, OnCompletion, RefreshAll
  <2>2. Same(signals, signals', kind)
    BY <1>7, TakeSignalOther DEF OnAck, OnCompletion
  <2> QED
    BY <1>1, <2>1, <2>2, DetailSent, SendTwo
<1> QED
  BY <1>2, <1>3, <1>4, <1>5, <1>6, <1>7
     DEF JobStep, JobUser, JobRunner, JobWindow, JobRest, SelectInQueue, SelectInHistory, Deselect

\* The runner of the Diagnostics page works on one of its two requests.  A writer
\* about to replace the destination without leave has seen no file there, unless
\* one came since.
Works == [step : {"recovery", "validate", "replace"}, kind : DiagnosticsKinds, queue : Nat,
          late : BOOLEAN, overwrite : BOOLEAN]
WorkInv ==
    /\ world \in Nat
    /\ work \in Works \union {NoWork}
    /\ work.step = "replace" /\ ~work.overwrite /\ ~work.late => target # "foreign"
    /\ taken \subseteq {"late"}

\* Before the first act the runner does nothing.
LEMMA InitWork == InitPages => WorkInv
BY DEF InitPages, DiagnosticsInit, WorkInv, NoWork

\* The steps of the Diagnostics page keep it so.
LEMMA WorkStep == WorkInv /\ [NextPages]_pagesVars => WorkInv'
<1> SUFFICES ASSUME WorkInv, [NextPages]_pagesVars PROVE WorkInv'
  OBVIOUS
<1>1. CASE UNCHANGED <<disk_, work>>
  BY <1>1 DEF disk_, WorkInv
<1>2. CASE WorldChanges
  BY <1>2 DEF WorldChanges, WorkInv
<1>3. CASE OthersWrite
  <2>1. /\ UNCHANGED <<world, taken>>
        /\ work' = IF work.step = "replace" THEN [work EXCEPT !.late = TRUE] ELSE work
    BY <1>3 DEF OthersWrite
  <2>2. CASE work.step = "replace"
    <3>1. work \in Works
      BY <2>2 DEF WorkInv, NoWork
    <3>2. work' \in Works /\ work'.late
      BY <2>1, <2>2, <3>1 DEF Works
    <3> QED
      BY <2>1, <3>2 DEF WorkInv
  <2> QED
    BY <2>1, <2>2 DEF WorkInv
<1>4. ASSUME NEW k \in {"diagnose", "export"}, StartWork(k) PROVE WorkInv'
  <2>1. UNCHANGED disk_
    BY <1>4 DEF StartWork
  <2>2. CASE UNCHANGED work
    BY <1>1, <2>1, <2>2
  <2>3. CASE ~UNCHANGED work
    <3>1. PICK overwrite \in BOOLEAN : overwrite = (k = "export" /\ Head(requests).arg)
      OBVIOUS
    <3>2. work' = [step |-> "recovery", kind |-> k, queue |-> world, late |-> FALSE, overwrite |-> overwrite]
      BY <1>4, <2>3, <3>1 DEF StartWork
    <3> QED
      BY <2>1, <3>2 DEF WorkInv, Works, DiagnosticsKinds, disk_
  <2> QED
    BY <2>2, <2>3
<1>5. CASE ScanForWork
  <2>1. UNCHANGED disk_ /\ work.step = "recovery"
    BY <1>5 DEF ScanForWork, Working
  <2>2. work \in Works
    BY <2>1 DEF WorkInv, NoWork
  <2>3. work' = NoWork \/ work' = [work EXCEPT !.step = "validate"]
    BY <1>5 DEF ScanForWork
  <2> QED
    BY <2>1, <2>2, <2>3 DEF WorkInv, Works, NoWork, disk_
<1>6. CASE ValidateDestination
  <2>1. UNCHANGED disk_ /\ work.step = "validate"
    BY <1>6 DEF ValidateDestination, Working
  <2>2. work \in Works
    BY <2>1 DEF WorkInv, NoWork
  <2>3. \/ work' = NoWork
        \/ work' = [work EXCEPT !.step = "replace"] /\ (target = None \/ work.overwrite)
    BY <1>6 DEF ValidateDestination
  <2> QED
    BY <2>1, <2>2, <2>3, TargetAssumption DEF WorkInv, Works, NoWork, disk_
<1>7. CASE ReplaceTarget
  <2>1. work' = NoWork /\ UNCHANGED world /\ work.step = "replace"
    BY <1>7 DEF ReplaceTarget, Working
  <2>2. taken' \subseteq {"late"}
    BY <1>7, <2>1 DEF ReplaceTarget, WorkInv
  <2> QED
    BY <2>1, <2>2 DEF WorkInv, NoWork
<1>8. CASE DiagnosticsStep
  BY <1>1, <1>2, <1>3, <1>4, <1>5, <1>6, <1>7, <1>8
     DEF DiagnosticsStep, DiagnosticsUser, DiagnosticsRunner, DiagnosticsWindow, RefreshDiagnostics,
         ChooseDestination, AnswerQuestion, OnDiagnostics, OnDiagnosticsFailure, OnExport
<1>9. CASE CreateStep
  BY <1>1, <1>9 DEF CreateStep, notCreate, diagnosticsVars
<1>10. CASE JobStep
  BY <1>1, <1>10 DEF JobStep, notJobs, diagnosticsVars
<1>11. CASE ConfigStep
  BY <1>1, <1>11 DEF ConfigStep, notConfig, diagnosticsVars
<1>12. CASE UNCHANGED pagesVars
  BY <1>1, <1>12 DEF pagesVars, diagnosticsVars
<1> QED
  BY <1>8, <1>9, <1>10, <1>11, <1>12 DEF NextPages

\* The Diagnostics page leaves all other kinds alone.
LEMMA DiagnosticsOther ==
    ASSUME NEW kind, kind \notin DiagnosticsKinds, IsQueue(requests), IsQueue(signals), WorkInv,
           DiagnosticsStep
    PROVE  Same(requests, requests', kind) /\ Same(signals, signals', kind)
<1> kind # "diagnose" /\ kind # "export"
  BY DEF DiagnosticsKinds
<1>1. OfKind(AskSends(diagnostics, Diagnose), "diagnose") /\ OfKind(DoneSends(diagnostics, Diagnose), "diagnose")
  BY Sends DEF Diagnose, Request
<1>2. ASSUME NEW overwrite, SendExport(overwrite) PROVE Same(requests, requests', kind)
  BY <1>2, PutOther DEF SendExport, Request
<1>3. CASE DiagnosticsUser
  <2>1. CASE RefreshDiagnostics
    BY <1>1, <2>1, SendOther, SameSelf DEF RefreshDiagnostics, Act
  <2>2. CASE ChooseDestination
    BY <1>2, <2>2, SameSelf DEF ChooseDestination, Act
  <2>3. CASE AnswerQuestion
    BY <1>2, <2>3, SameSelf DEF AnswerQuestion
  <2>4. CASE WorldChanges \/ OthersWrite
    BY <2>4, SameSelf DEF WorldChanges, OthersWrite, Act
  <2> QED
    BY <1>3, <2>1, <2>2, <2>3, <2>4 DEF DiagnosticsUser
<1>4. CASE DiagnosticsRunner
  <2>1. ASSUME NEW k \in {"diagnose", "export"}, StartWork(k)
        PROVE  Same(requests, requests', kind) /\ Same(signals, signals', kind)
    <3>1. Same(requests, requests', kind)
      BY <2>1, TakeOther DEF StartWork, Serve
    <3>2. UNCHANGED signals \/ Fault(k)
      BY <2>1 DEF StartWork
    <3> QED
      BY <3>1, <3>2, PutOther, SameSelf DEF Fault, Signal
  <2>2. ASSUME NEW k \in DiagnosticsKinds,
               UNCHANGED signals \/ (\E v : Reply(k, v)) \/ Refuse(k) \/ Fault(k)
        PROVE  Same(signals, signals', kind)
    BY <2>2, PutOther, SameSelf DEF Reply, Refuse, Fault, Signal
  <2>3. CASE ScanForWork
    <3>1. work.kind \in DiagnosticsKinds
      BY <2>3 DEF ScanForWork, Working, WorkInv, Works, NoWork
    <3> QED
      BY <2>2, <2>3, <3>1, SameSelf DEF ScanForWork, Working, DiagnosticsKinds
  <2>4. CASE ValidateDestination
    BY <2>2, <2>4, SameSelf DEF ValidateDestination, Working, DiagnosticsKinds
  <2>5. CASE ReplaceTarget
    BY <2>2, <2>5, SameSelf DEF ReplaceTarget, Working, DiagnosticsKinds
  <2> QED
    BY <1>4, <2>1, <2>3, <2>4, <2>5 DEF DiagnosticsRunner
<1>5. CASE DiagnosticsWindow
  BY <1>1, <1>5, TakeSignalOther, SendOther, SameSelf
     DEF DiagnosticsWindow, OnDiagnostics, OnDiagnosticsFailure, OnExport
<1> QED
  BY <1>3, <1>4, <1>5 DEF DiagnosticsStep

\* Nothing passes between the configuration files and the queues.
LEMMA ConfigOther ==
    ASSUME NEW kind, IsQueue(requests), IsQueue(signals), ConfigStep
    PROVE  Same(requests, requests', kind) /\ Same(signals, signals', kind)
<1>1. UNCHANGED <<requests, signals>>
  BY DEF ConfigStep, ConfigUser, ConfigPrograms, ConfigElsewhere, SaveLocale, SaveUserPreset, DeleteUserPreset,
     SaveOneProvider, May, Begin, EditByHand, SaveStep, OpenTemp, WriteTemp, ReplaceReal, UnlinkTemp, Stepping,
     ProgramDies, Act
<1> QED
  BY <1>1, SameSelf

-----------------------------------------------------------------------------
(* Drafts                                                                   *)

\* Every message of this kind under way is about v: it asks for v, or answers with it.
About(rq, sg, v) ==
    /\ \A m : Only(rq, "preview", m) => m.arg = v
    /\ \A m : Only(sg, "preview", m) /\ m.ok => m.value = v

\* The only one under way, be it the request or its answer, says what it is about.
LEMMA AboutRequest ==
    ASSUME NEW rq, NEW sg, NEW m, Only(rq, "preview", m), ~Carries(sg, "preview")
    PROVE  About(rq, sg, m.arg)
BY OnlyOne DEF About

\* The only answer under way settles what the previews are about.
LEMMA AboutAnswer ==
    ASSUME NEW rq, NEW sg, NEW m, NEW v, ~Carries(rq, "preview"), Only(sg, "preview", m), m.ok => m.value = v
    PROVE  About(rq, sg, v)
BY OnlyOne DEF About

\* Unless two previews crossed, one is under way as long as the loader is busy, and
\* a fresh one is about the list the page shows; the preview in hand is of that list.
DraftInv ==
    /\ IsQueue(requests) /\ IsQueue(signals)
    /\ previews \in Loader
    /\ previews.busy => draft = None
    /\ previews.queued => previews.busy
    /\ DraftCurrent
    /\ ~crossed =>
          /\ previews.busy => /\ OneUnderWay(requests, signals, "preview")
                              /\ previews.fresh \/ previews.queued
                              /\ previews.fresh => About(requests, signals, Selection(entries, recursive))
          /\ ~previews.busy => \/ ~InFlight("preview")
                               \/ ~previews.fresh /\ OneUnderWay(requests, signals, "preview")
          /\ ~previews.busy /\ ~previewFailed /\ preview \notin {None, EmptyPreview} =>
                preview = Selection(entries, recursive)

\* The requests there are at the start.
LEMMA FirstRequests ==
    ASSUME InitPages, NEW kind, kind \notin {"load", "refresh", "scan", "diagnose"}
    PROVE  IsQueue(requests) /\ ~Carries(requests, kind)
<1>1. ASSUME NEW m, requests = <<m>>, m.kind # kind PROVE IsQueue(requests) /\ ~Carries(requests, kind)
  <2>1. requests \in Seq({m}) /\ Len(requests) = 1 /\ requests[1] = m
    BY <1>1
  <2>2. \A i \in 1 .. Len(requests) : requests[i] = m
    BY <2>1
  <2>3. IsQueue(requests)
    BY <2>1 DEF IsQueue
  <2> QED
    BY <1>1, <2>2, <2>3 DEF Carries
<1>2. CASE requests = <<Refresh, Request("scan", None)>>
  <2>1. PICK m, n : m = Refresh /\ n = Request("scan", None)
    OBVIOUS
  <2>2. requests = <<m, n>> /\ m.kind # kind /\ n.kind # kind
    BY <1>2, <2>1 DEF Refresh, Request
  <2>3. requests \in Seq({m, n}) /\ Len(requests) = 2 /\ requests[1] = m /\ requests[2] = n
    BY <2>2
  <2>4. \A i \in 1 .. Len(requests) : requests[i] \in {m, n}
    BY <2>3
  <2>5. IsQueue(requests)
    BY <2>3 DEF IsQueue
  <2> QED
    BY <2>2, <2>4, <2>5 DEF Carries
<1>3. CASE requests = <<>>
  BY <1>3 DEF IsQueue, Carries
<1>4. Request("load", None).kind # kind /\ Diagnose.kind # kind
  BY DEF Request, Diagnose
<1> QED
  BY <1>1, <1>2, <1>3, <1>4 DEF InitPages

\* Before the first act there is no draft.
LEMMA InitDraft == InitPages => DraftInv
<1> SUFFICES ASSUME InitPages PROVE DraftInv
  OBVIOUS
<1>1. signals = <<>> /\ draft = None /\ preview = None /\ previews = Unasked
  BY DEF InitPages, CreateInit
<1>2. IsQueue(signals) /\ ~Carries(signals, "preview")
  BY <1>1 DEF IsQueue, Carries
<1>3. IsQueue(requests) /\ ~Carries(requests, "preview")
  BY FirstRequests
<1> QED
  BY <1>1, <1>2, <1>3 DEF DraftInv, Unasked, Load, Loader, DraftCurrent, InFlight

\* A step that leaves the list, its preview and what is under way as they were
\* leaves a draft current, or takes it away.
LEMMA DraftKept ==
    ASSUME DraftInv, Same(requests, requests', "preview"), Same(signals, signals', "preview"),
           UNCHANGED <<entries, recursive, preview, previews, crossed, previewFailed>>,
           draft' = None \/ (draft' = draft /\ form' = form)
    PROVE  DraftInv'
<1>1. IsQueue(requests') /\ IsQueue(signals')
  BY DEF Same
<1>2. OneUnderWay(requests, signals, "preview") => OneUnderWay(requests', signals', "preview")
  BY SameUnderWay
<1>3. \A v : About(requests, signals, v) => About(requests', signals', v)
  BY DEF About, Same
<1>4. InFlight("preview")' <=> InFlight("preview")
  BY DEF InFlight, Same
<1>5. DraftCurrent'
  BY DEF DraftInv, DraftCurrent
<1> QED
  BY <1>1, <1>2, <1>3, <1>4, <1>5 DEF DraftInv

\* After a request for a preview no draft is left, and the preview under way, if
\* it is the only one, is of the list as it is now.
LEMMA DraftRequested ==
    ASSUME DraftInv, RequestPreview, Same(signals, signals', "preview"), draft' = None
    PROVE  DraftInv'
<1>1. DraftCurrent'
  BY DEF DraftCurrent
<1>2. IsQueue(signals')
  BY DEF Same
<1>3. CASE entries' = {}
  <2>1. /\ preview' = EmptyPreview /\ previews' = Load(FALSE, FALSE, FALSE)
        /\ requests' = requests /\ crossed' = crossed
    BY <1>3 DEF RequestPreview
  <2>2. Same(requests, requests', "preview")
    BY <2>1, SameSelf DEF DraftInv
  <2>3. OneUnderWay(requests, signals, "preview") => OneUnderWay(requests', signals', "preview")
    BY <2>2, SameUnderWay
  <2>4. InFlight("preview")' <=> InFlight("preview")
    BY <2>2 DEF InFlight, Same
  <2> QED
    BY <1>1, <1>2, <2>1, <2>2, <2>3, <2>4 DEF DraftInv, Load, Loader, Same
<1>4. CASE entries' # {} /\ previews.busy
  <2>1. previews' = Load(TRUE, TRUE, FALSE) /\ crossed' = crossed /\ requests' = requests
    BY <1>4, SendOne DEF RequestPreview, AskFor, AskSends, DraftInv
  <2>2. OneUnderWay(requests, signals, "preview") => OneUnderWay(requests', signals', "preview")
    BY <2>1, SameUnderWay, SameSelf DEF DraftInv
  <2> QED
    BY <1>1, <1>2, <1>4, <2>1, <2>2 DEF DraftInv, Load, Loader
<1>5. CASE entries' # {} /\ ~previews.busy
  <2>1. PICK m : m = Request("preview", Selection(entries', recursive'))
    OBVIOUS
  <2>2. /\ previews' = Load(TRUE, FALSE, TRUE) /\ crossed' = InFlight("preview")
        /\ requests' = Append(requests, m)
    BY <1>5, <2>1, SendOne DEF RequestPreview, PreviewRequest, AskFor, AskSends, DraftInv, Dispatched
  <2>3. IsQueue(requests')
    BY <2>2, QueueOps DEF DraftInv
  <2>4. ~crossed' => /\ OneUnderWay(requests', signals', "preview")
                     /\ About(requests', signals', Selection(entries', recursive'))
    <3> SUFFICES ASSUME ~crossed'
                 PROVE  /\ OneUnderWay(requests', signals', "preview")
                        /\ About(requests', signals', Selection(entries', recursive'))
      OBVIOUS
    <3>1. IsQueue(requests) /\ ~Carries(requests, "preview") /\ ~Carries(signals, "preview")
      BY <2>2 DEF DraftInv, InFlight
    <3>2. m.kind = "preview" /\ m.arg = Selection(entries', recursive')
      BY <2>1 DEF Request
    <3>3. /\ OneUnderWay(requests', signals', "preview")
          /\ Only(requests', "preview", m) /\ ~Carries(signals', "preview")
      BY <2>2, <3>1, <3>2, Asking
    <3> QED
      BY <3>2, <3>3, AboutRequest
  <2> QED
    BY <1>1, <1>2, <2>2, <2>3, <2>4 DEF DraftInv, Load, Loader
<1> QED
  BY <1>3, <1>4, <1>5

\* The user's acts on the Create and Settings pages.
LEMMA DraftUser == DraftInv /\ CreateUser => DraftInv'
<1> SUFFICES ASSUME DraftInv, CreateUser PROVE DraftInv'
  OBVIOUS
<1>1. ASSUME Act("create") PROVE Same(signals, signals', "preview")
  BY <1>1, SameSelf DEF Act, DraftInv
<1>2. ASSUME NEW e, SetEntries(e) PROVE DraftInv'
  BY <1>1, <1>2, DraftRequested DEF SetEntries
<1>3. CASE SetRecursive
  BY <1>1, <1>3, DraftRequested DEF SetRecursive
<1>4. CASE Edit
  BY <1>1, <1>4, DraftKept, SameSelf DEF Edit, DraftInv
<1>5. CASE Validate
  <2>1. /\ UNCHANGED <<requests, signals, entries, recursive, form, preview, previews, crossed, previewFailed>>
        /\ ~previews.busy
        /\ draft' = None \/ (preview \notin {None, EmptyPreview} /\ draft' = Draft(preview, form))
    BY <1>5 DEF Validate, Act, shownForm
  <2>2. DraftCurrent'
    BY <2>1 DEF DraftInv, DraftCurrent
  <2> QED
    BY <2>1, <2>2 DEF DraftInv, InFlight
<1>6. ASSUME NEW k, NEW v, k # "preview", Act("create"), requests' = Append(requests, Request(k, v)),
             UNCHANGED <<shownForm, preview, draft, previews, crossed, previewFailed>>
      PROVE  DraftInv'
  <2>1. Same(requests, requests', "preview")
    BY <1>6, PutOther DEF DraftInv, Request
  <2> QED
    BY <1>1, <1>6, <2>1, DraftKept DEF shownForm
<1>7. CASE SubmitBatch
  BY <1>6, <1>7 DEF SubmitBatch
<1>8. ASSUME NEW op \in {"save preset", "delete preset"}, NEW p, ChangePreset(op, p) PROVE DraftInv'
  BY <1>6, <1>8 DEF ChangePreset
<1>9. ASSUME NEW op \in {"global", "provider", "test"}, NEW v, AskSettings(op, v) PROVE DraftInv'
  BY <1>6, <1>9 DEF AskSettings, answers
<1> QED
  BY <1>2, <1>3, <1>4, <1>5, <1>7, <1>8, <1>9
     DEF CreateUser, Add, RemoveInput, Clear, SavePreset, DeletePreset, SaveGlobal, SaveProvider, TestProvider

\* The runner's answers to them.
LEMMA DraftRunner == DraftInv /\ CreateRunner => DraftInv'
<1> SUFFICES ASSUME DraftInv, CreateRunner PROVE DraftInv'
  OBVIOUS
<1>1. UNCHANGED <<shownForm, draft, preview, previews, crossed, previewFailed>>
  BY DEF CreateRunner, ServePreview, ServeSubmit, ServeLoad, ServeTest, ServeSave, notStore, notAnswered, answers
<1>2. CASE ServePreview
  <2>1. PICK a : /\ a.kind = "preview"
                 /\ a.ok => a.value = Head(requests).arg
                 /\ signals' = Append(signals, a)
    BY <1>2 DEF ServePreview, Reply, Fault, Signal
  <2>2. requests # <<>> /\ Head(requests).kind = "preview" /\ requests' = Tail(requests)
    BY <1>2 DEF ServePreview, Serve
  <2>3. IsQueue(requests') /\ IsQueue(signals')
    BY <2>1, <2>2, QueueOps DEF DraftInv
  <2>4. Carries(requests, "preview")
    BY <2>2, HeadCarried DEF DraftInv
  <2>5. ASSUME OneUnderWay(requests, signals, "preview")
        PROVE  /\ OneUnderWay(requests', signals', "preview")
               /\ \A v : About(requests, signals, v) => About(requests', signals', v)
    <3>0. IsQueue(requests) /\ IsQueue(signals)
      BY DEF DraftInv
    <3>1. /\ Only(requests, "preview", Head(requests))
          /\ OneUnderWay(requests', signals', "preview")
          /\ ~Carries(requests', "preview") /\ Only(signals', "preview", a)
      BY <2>1, <2>2, <2>5, <3>0, Serving
    <3>2. ASSUME NEW v, About(requests, signals, v) PROVE About(requests', signals', v)
      <4>1. a.ok => a.value = v
        BY <2>1, <3>1, <3>2 DEF About
      <4> QED
        BY <3>1, <4>1, AboutAnswer
    <3> QED
      BY <2>1, <2>2, <3>1, <3>2
  <2>6. DraftCurrent'
    BY <1>1 DEF DraftInv, DraftCurrent, shownForm
  <2> QED
    BY <1>1, <2>3, <2>4, <2>5, <2>6 DEF DraftInv, InFlight, shownForm
<1>3. ASSUME NEW k, k # "preview", Serve(k), (\E v : Reply(k, v)) \/ Refuse(k) \/ Fault(k) PROVE DraftInv'
  BY <1>1, <1>3, ServeOther, DraftKept DEF DraftInv, shownForm
<1>4. CASE ServeSubmit
  BY <1>3, <1>4 DEF ServeSubmit
<1>5. CASE ServeLoad
  BY <1>3, <1>5 DEF ServeLoad
<1>6. CASE ServeTest
  BY <1>3, <1>6 DEF ServeTest
<1>7. ASSUME NEW k \in Saves, ServeSave(k) PROVE DraftInv'
  BY <1>3, <1>7 DEF ServeSave, Saves
<1> QED
  BY <1>2, <1>4, <1>5, <1>6, <1>7 DEF CreateRunner

\* The window takes the answer to a preview, or its failure.
LEMMA DraftAnswered == DraftInv /\ (OnPreview \/ OnPreviewFailure) => DraftInv'
<1> SUFFICES ASSUME DraftInv, OnPreview \/ OnPreviewFailure PROVE DraftInv'
  OBVIOUS
<1> DEFINE fresh == previews.fresh
<1>1. /\ UNCHANGED <<entries, recursive, form, draft>>
      /\ signals # <<>> /\ Head(signals).kind = "preview" /\ signals' = Tail(signals)
  BY DEF OnPreview, OnPreviewFailure, TakeSignal, shownForm
<1>2. /\ Head(signals).ok /\ fresh => preview' = Value /\ ~previewFailed'
      /\ ~Head(signals).ok /\ fresh => previewFailed'
      /\ ~fresh => preview' = preview /\ (previewFailed' <=> previewFailed)
      /\ preview' = preview \/ (Head(signals).ok /\ fresh)
  BY DEF OnPreview, OnPreviewFailure, TakeSignal
<1>3. IsQueue(requests) /\ IsQueue(signals) /\ IsQueue(signals') /\ Carries(signals, "preview")
  BY <1>1, QueueOps, HeadCarried DEF DraftInv
<1>4. CASE previews.queued
  <2>1. PICK m : m = Request("preview", Selection(entries, recursive))
    OBVIOUS
  <2>2. m.kind = "preview" /\ m.arg = Selection(entries, recursive)
    BY <2>1 DEF Request
  <2>3. /\ previews' = Load(TRUE, FALSE, TRUE)
        /\ requests' = Append(requests, m)
        /\ crossed' = (Carries(requests, "preview") \/ Carries(signals', "preview"))
    BY <1>3, <1>4, <2>1, SendOne DEF OnPreview, OnPreviewFailure, Done, DoneSends, Dispatched
  <2>4. draft' = None
    BY <1>1, <1>4 DEF DraftInv
  <2>5. IsQueue(requests')
    BY <1>3, <2>3, QueueOps
  <2>6. ~crossed' => /\ OneUnderWay(requests', signals', "preview")
                     /\ About(requests', signals', Selection(entries', recursive'))
    <3> SUFFICES ASSUME ~crossed'
                 PROVE  /\ OneUnderWay(requests', signals', "preview")
                        /\ About(requests', signals', Selection(entries', recursive'))
      OBVIOUS
    <3>1. ~Carries(requests, "preview") /\ ~Carries(signals', "preview") /\ Same(signals', signals', "preview")
      BY <1>3, <2>3, SameSelf
    <3>2. /\ OneUnderWay(requests', signals', "preview")
          /\ Only(requests', "preview", m) /\ ~Carries(signals', "preview")
      BY <1>3, <2>2, <2>3, <3>1, Asking
    <3> QED
      BY <1>1, <2>2, <3>2, AboutRequest
  <2> QED
    BY <1>3, <2>3, <2>4, <2>5, <2>6 DEF DraftInv, DraftCurrent, Load, Loader
<1>5. CASE ~previews.queued
  <2>1. /\ previews' = [previews EXCEPT !.busy = FALSE] /\ requests' = requests /\ crossed' = crossed
    BY <1>3, <1>5, SendOne DEF OnPreview, OnPreviewFailure, Done, DoneSends
  <2>2. /\ previews' \in Loader /\ ~previews'.busy /\ ~previews'.queued /\ previews'.fresh = fresh
    BY <1>5, <2>1 DEF DraftInv, Loader
  <2>3. ASSUME ~crossed
        PROVE  /\ ~InFlight("preview")'
               /\ previews.busy => fresh /\ draft = None
               /\ ~previews.busy => ~fresh
               /\ fresh /\ Head(signals).ok => Value = Selection(entries, recursive)
    <3>1. OneUnderWay(requests, signals, "preview")
      BY <1>3, <2>3 DEF DraftInv, InFlight
    <3>2. Only(signals, "preview", Head(signals)) /\ ~Carries(requests, "preview") /\ ~Carries(Tail(signals), "preview")
      BY <1>1, <1>3, <3>1, Answered
    <3>3. previews.busy => fresh /\ draft = None
      BY <1>5, <2>3 DEF DraftInv
    <3>4. ~previews.busy => ~fresh
      BY <1>3, <2>3 DEF DraftInv, InFlight
    <3>5. fresh => About(requests, signals, Selection(entries, recursive))
      BY <2>3, <3>3, <3>4 DEF DraftInv
    <3> QED
      BY <1>1, <2>1, <3>2, <3>3, <3>4, <3>5 DEF InFlight, About, Value
  <2>4. DraftCurrent'
    BY <1>1, <1>2, <2>1, <2>3 DEF DraftInv, DraftCurrent
  <2>5. ~crossed' /\ ~previewFailed' /\ preview' \notin {None, EmptyPreview} =>
            preview' = Selection(entries', recursive')
    BY <1>1, <1>2, <2>1, <2>3 DEF DraftInv
  <2> QED
    BY <1>1, <1>3, <2>1, <2>2, <2>3, <2>4, <2>5 DEF DraftInv
<1> QED
  BY <1>4, <1>5

\* The other answers.
LEMMA DraftWindow == DraftInv /\ CreateWindow => DraftInv'
<1> SUFFICES ASSUME DraftInv, CreateWindow PROVE DraftInv'
  OBVIOUS
<1>1. ASSUME NEW k, NEW ok, k # "preview", TakeSignal(k, ok) PROVE Same(signals, signals', "preview")
  BY <1>1, TakeSignalOther DEF DraftInv
<1>2. ASSUME UNCHANGED requests PROVE Same(requests, requests', "preview")
  BY <1>2, SameSelf DEF DraftInv
<1>3. CASE OnSubmitted
  <2>1. Same(requests, requests', "preview") /\ Same(signals, signals', "preview")
    BY <1>1, <1>2, <1>3 DEF OnSubmitted
  <2>2. /\ UNCHANGED crossed /\ draft' = None /\ preview' = None
        /\ previews' = Load(FALSE, FALSE, FALSE)
    BY <1>3 DEF OnSubmitted
  <2>3. OneUnderWay(requests, signals, "preview") => OneUnderWay(requests', signals', "preview")
    BY <2>1, SameUnderWay
  <2>4. InFlight("preview")' <=> InFlight("preview")
    BY <2>1 DEF InFlight, Same
  <2> QED
    BY <2>1, <2>2, <2>3, <2>4 DEF DraftInv, DraftCurrent, Load, Loader, Same
<1>4. CASE OnSubmitFailure
  BY <1>1, <1>2, <1>4, DraftKept DEF OnSubmitFailure, shownForm
<1>5. ASSUME NEW k \in Saves \union {"load"}, OnConfiguration(k) PROVE DraftInv'
  <2>1. Same(signals, signals', "preview")
    BY <1>1, <1>5 DEF OnConfiguration, Saves
  <2>2. CASE RequestPreview /\ draft' = None
    BY <2>1, <2>2, DraftRequested
  <2>3. CASE /\ UNCHANGED <<requests, entries, recursive, preview, previews, crossed>>
             /\ draft' = None \/ (draft' = draft /\ form' = form)
    BY <1>2, <1>5, <2>1, <2>3, DraftKept DEF OnConfiguration
  <2> QED
    BY <1>5, <2>2, <2>3 DEF OnConfiguration, SetConfiguration, shownForm
<1>6. ASSUME NEW k \in Saves, OnConfigurationFailure(k) PROVE DraftInv'
  BY <1>1, <1>2, <1>6, DraftKept DEF OnConfigurationFailure, shownForm, Saves
<1>7. CASE OnTest
  BY <1>1, <1>2, <1>7, DraftKept DEF OnTest, shownForm, answers
<1> QED
  BY <1>3, <1>4, <1>5, <1>6, <1>7, DraftAnswered DEF CreateWindow

\* Every step keeps drafts current.
LEMMA DraftStep == DraftInv /\ WorkInv /\ [NextPages]_pagesVars => DraftInv'
<1> SUFFICES ASSUME DraftInv, WorkInv, [NextPages]_pagesVars PROVE DraftInv'
  OBVIOUS
<1>1. IsQueue(requests) /\ IsQueue(signals)
  BY DEF DraftInv
<1>2. ASSUME UNCHANGED createVars, Same(requests, requests', "preview"), Same(signals, signals', "preview")
      PROVE  DraftInv'
  BY <1>2, DraftKept DEF createVars, shownForm, answers
<1>3. CASE CreateStep
  BY <1>3, DraftUser, DraftRunner, DraftWindow DEF CreateStep
<1>4. CASE JobStep
  BY <1>1, <1>2, <1>4, JobOther DEF JobStep, notJobs, JobKinds
<1>5. CASE DiagnosticsStep
  BY <1>1, <1>2, <1>5, DiagnosticsOther DEF DiagnosticsStep, notDiagnostics, DiagnosticsKinds
<1>6. CASE ConfigStep
  BY <1>1, <1>2, <1>6, ConfigOther DEF ConfigStep, notConfig
<1>7. CASE UNCHANGED pagesVars
  BY <1>1, <1>2, <1>7, SameSelf DEF pagesVars, line
<1> QED
  BY <1>3, <1>4, <1>5, <1>6, <1>7 DEF NextPages


-----------------------------------------------------------------------------
(* The detail panel                                                         *)

\* Every message about a detail under way is about job j.
OfJob(rq, sg, j) ==
    /\ \A m : Only(rq, "detail", m) => m.arg = j
    /\ \A m : Only(sg, "detail", m) /\ m.ok => m.value.job = j

\* As long as the loader is busy one detail is under way; unless another is wanted
\* after it, it is the selected job's.
PanelInv ==
    /\ IsQueue(requests) /\ IsQueue(signals)
    /\ details \in Loader
    /\ ~details.busy => ~InFlight("detail")
    /\ details.busy =>
          /\ OneUnderWay(requests, signals, "detail")
          /\ \E j : /\ j # None /\ OfJob(requests, signals, j)
                    /\ ~details.queued /\ selected # None => details.fresh /\ j = selected
    /\ selected = None => detail = None
    /\ PanelIsTarget

\* The only one under way says whose it is.
LEMMA JobOfRequest ==
    ASSUME NEW rq, NEW sg, NEW m, Only(rq, "detail", m), ~Carries(sg, "detail")
    PROVE  OfJob(rq, sg, m.arg)
BY OnlyOne DEF OfJob

\* The only answer under way settles which job the details are of.
LEMMA JobOfAnswer ==
    ASSUME NEW rq, NEW sg, NEW m, NEW j, ~Carries(rq, "detail"), Only(sg, "detail", m), m.ok => m.value.job = j
    PROVE  OfJob(rq, sg, j)
BY OnlyOne DEF OfJob

\* At the start no job is selected.
LEMMA InitPanel == InitPages => PanelInv
<1> SUFFICES ASSUME InitPages PROVE PanelInv
  OBVIOUS
<1>1. signals = <<>> /\ selected = None /\ detail = None /\ details = Unasked
  BY DEF InitPages, JobInit
<1>2. IsQueue(signals) /\ ~Carries(signals, "detail")
  BY <1>1 DEF IsQueue, Carries
<1>3. IsQueue(requests) /\ ~Carries(requests, "detail")
  BY FirstRequests
<1> QED
  BY <1>1, <1>2, <1>3 DEF PanelInv, Unasked, Load, Loader, PanelIsTarget, InFlight

\* What does not touch the selection, its detail or what is under way.
LEMMA PanelKept ==
    ASSUME PanelInv, Same(requests, requests', "detail"), Same(signals, signals', "detail"),
           UNCHANGED <<selected, detail, details, detailFailed>>
    PROVE  PanelInv'
<1>1. IsQueue(requests') /\ IsQueue(signals')
  BY DEF Same
<1>2. OneUnderWay(requests, signals, "detail") => OneUnderWay(requests', signals', "detail")
  BY SameUnderWay
<1>3. \A j : OfJob(requests, signals, j) => OfJob(requests', signals', j)
  BY DEF OfJob, Same
<1>4. InFlight("detail")' <=> InFlight("detail")
  BY DEF InFlight, Same
<1>5. PanelIsTarget'
  BY DEF PanelInv, PanelIsTarget
<1> QED
  BY <1>1, <1>2, <1>3, <1>4, <1>5 DEF PanelInv

\* The detail of the job selected from now on is asked for, once or twice, and
\* what else is sent is about something else.
LEMMA PanelAsks ==
    ASSUME PanelInv, NEW times \in {1, 2}, NEW p, NEW q, RefreshDetail(selected', times),
           Same(requests, p, "detail"), q = p \o DetailSends(selected'), Same(q, requests', "detail"),
           Same(signals, signals', "detail")
    PROVE  PanelInv'
<1>0. IsQueue(p) /\ IsQueue(signals) /\ IsQueue(requests') /\ IsQueue(signals')
  BY DEF Same, PanelInv
<1>1. CASE selected' = None
  <2>1. q = p /\ detail' = None /\ details' = details
    BY <1>0, <1>1, SendOne DEF DetailSends, RefreshDetail
  <2>0. Same(requests, requests', "detail")
    BY <2>1, SameTwice
  <2>2. OneUnderWay(requests, signals, "detail") => OneUnderWay(requests', signals', "detail")
    BY <2>0, SameUnderWay
  <2>3. \A j : OfJob(requests, signals, j) => OfJob(requests', signals', j)
    BY <2>0 DEF OfJob, Same
  <2>4. InFlight("detail")' <=> InFlight("detail")
    BY <2>0 DEF InFlight, Same
  <2> QED
    BY <1>0, <1>1, <2>1, <2>2, <2>3, <2>4 DEF PanelInv, PanelIsTarget
<1>2. CASE selected' # None /\ details.busy
  <2>1. q = p /\ details' = Load(TRUE, TRUE, FALSE)
    BY <1>0, <1>2, SendOne DEF DetailSends, AskSends, RefreshDetail, AskFor, Load
  <2>0. Same(requests, requests', "detail")
    BY <2>1, SameTwice
  <2>2. OneUnderWay(requests', signals', "detail")
    BY <1>2, <2>0, SameUnderWay DEF PanelInv
  <2>3. \A j : OfJob(requests, signals, j) => OfJob(requests', signals', j)
    BY <2>0 DEF OfJob, Same
  <2>4. \E j : j # None /\ OfJob(requests', signals', j)
    BY <1>2, <2>3 DEF PanelInv
  <2> QED
    BY <1>0, <1>2, <2>1, <2>2, <2>4 DEF PanelInv, PanelIsTarget, Load, Loader
<1>3. CASE selected' # None /\ ~details.busy
  <2>1. PICK m : m = Request("detail", selected')
    OBVIOUS
  <2>2. m.kind = "detail" /\ m.arg = selected'
    BY <2>1 DEF Request
  <2>3. q = Append(p, m) /\ (details' = Load(TRUE, FALSE, TRUE) \/ details' = Load(TRUE, TRUE, FALSE))
    BY <1>0, <1>3, <2>1, SendOne DEF DetailSends, AskSends, RefreshDetail, AskFor, Load, Dispatched
  <2>4. ~Carries(p, "detail") /\ ~Carries(signals, "detail")
    BY <1>3 DEF PanelInv, InFlight, Same
  <2>5. OneUnderWay(q, signals', "detail") /\ Only(q, "detail", m) /\ ~Carries(signals', "detail")
    BY <1>0, <2>2, <2>3, <2>4, Asking
  <2>6. Same(signals', signals', "detail")
    BY <1>0, SameSelf
  <2>7. OneUnderWay(requests', signals', "detail")
    BY <2>5, <2>6, SameUnderWay
  <2>8. Only(requests', "detail", m)
    BY <2>5 DEF Same
  <2>9. OfJob(requests', signals', selected')
    BY <2>2, <2>5, <2>8, JobOfRequest
  <2>10. \E j : /\ j # None /\ OfJob(requests', signals', j)
                /\ ~details'.queued /\ selected' # None => details'.fresh /\ j = selected'
    <3> WITNESS selected'
    <3> QED
      BY <1>3, <2>3, <2>9 DEF Load
  <2>11. details' \in Loader /\ details'.busy
    <3>1. CASE details' = Load(TRUE, FALSE, TRUE)
      BY <3>1 DEF Load, Loader
    <3>2. CASE details' = Load(TRUE, TRUE, FALSE)
      BY <3>2 DEF Load, Loader
    <3> QED
      BY <2>3, <3>1, <3>2
  <2> QED
    BY <1>0, <1>3, <2>7, <2>10, <2>11 DEF PanelInv, PanelIsTarget
<1> QED
  BY <1>1, <1>2, <1>3

\* The steps of the Queue and History pages that have to do with a detail.
LEMMA PanelServes == PanelInv /\ ServeDetail => PanelInv'
<1> SUFFICES ASSUME PanelInv, ServeDetail PROVE PanelInv'
  OBVIOUS
<1>1. UNCHANGED <<selected, detail, details, detailFailed>>
  BY DEF ServeDetail, jobVars, operations
<1>2. PICK a : /\ a.kind = "detail"
               /\ a.ok => a.value.job = Head(requests).arg
               /\ signals' = Append(signals, a)
  BY DEF ServeDetail, Reply, Fault, Signal, Detail
<1>3. requests # <<>> /\ Head(requests).kind = "detail" /\ requests' = Tail(requests)
  BY DEF ServeDetail, Serve
<1>4. IsQueue(requests) /\ IsQueue(signals) /\ IsQueue(requests') /\ IsQueue(signals')
  BY <1>2, <1>3, QueueOps DEF PanelInv
<1>5. details.busy /\ OneUnderWay(requests, signals, "detail")
  BY <1>3, <1>4, HeadCarried DEF PanelInv, InFlight
<1>6. /\ Only(requests, "detail", Head(requests))
      /\ OneUnderWay(requests', signals', "detail")
      /\ ~Carries(requests', "detail") /\ Only(signals', "detail", a)
  BY <1>2, <1>3, <1>4, <1>5, Serving
<1>7. ASSUME NEW j, OfJob(requests, signals, j) PROVE OfJob(requests', signals', j)
  <2>1. a.ok => a.value.job = j
    BY <1>2, <1>6, <1>7 DEF OfJob
  <2> QED
    BY <1>6, <2>1, JobOfAnswer
<1>8. PanelIsTarget'
  BY <1>1 DEF PanelInv, PanelIsTarget
<1> QED
  BY <1>1, <1>4, <1>5, <1>6, <1>7, <1>8 DEF PanelInv

\* An answer is shown only as the selected job's, and the next detail is asked for.
LEMMA PanelAnswered == PanelInv /\ (OnDetail \/ OnDetailFailure) => PanelInv'
<1> SUFFICES ASSUME PanelInv, OnDetail \/ OnDetailFailure PROVE PanelInv'
  OBVIOUS
<1>1. /\ signals # <<>> /\ Head(signals).kind = "detail" /\ signals' = Tail(signals)
      /\ UNCHANGED selected
      /\ DetailDone
  BY DEF OnDetail, OnDetailFailure, TakeSignal
<1>2. \/ /\ Head(signals).ok
         /\ detail' = IF details.fresh /\ Value.job = selected THEN Value ELSE detail
      \/ ~Head(signals).ok /\ detailFailed' /\ detail' = detail
  BY DEF OnDetail, OnDetailFailure, TakeSignal
<1>3. IsQueue(requests) /\ IsQueue(signals) /\ IsQueue(signals') /\ Carries(signals, "detail")
  BY <1>1, QueueOps, HeadCarried DEF PanelInv
<1>4. details.busy /\ OneUnderWay(requests, signals, "detail")
  BY <1>3 DEF PanelInv, InFlight
<1>5. Only(signals, "detail", Head(signals)) /\ ~Carries(requests, "detail") /\ ~Carries(signals', "detail")
  BY <1>1, <1>3, <1>4, Answered
<1>6. PICK j : /\ j # None /\ OfJob(requests, signals, j)
               /\ ~details.queued /\ selected # None => details.fresh /\ j = selected
  BY <1>4 DEF PanelInv
<1>7. Head(signals).ok => Value.job = j
  BY <1>5, <1>6 DEF OfJob, Value
<1>8. selected' = None => detail' = None
  BY <1>1, <1>2, <1>6, <1>7 DEF PanelInv
<1>9. CASE selected = None
  <2>1. details' = [details EXCEPT !.busy = FALSE] /\ requests' = requests
    BY <1>1, <1>9 DEF DetailDone
  <2>2. details' \in Loader /\ ~details'.busy
    BY <2>1 DEF PanelInv, Loader
  <2> QED
    BY <1>1, <1>3, <1>5, <1>8, <1>9, <2>1, <2>2 DEF PanelInv, PanelIsTarget, InFlight
<1>10. CASE selected # None /\ details.queued
  <2>1. PICK m : m = Request("detail", selected)
    OBVIOUS
  <2>2. m.kind = "detail" /\ m.arg = selected
    BY <2>1 DEF Request
  <2>3. requests' = Append(requests, m) /\ details' = Load(TRUE, FALSE, TRUE)
    BY <1>1, <1>3, <1>10, <2>1, SendOne DEF DetailDone, Done, DoneSends, Dispatched
  <2>4. Same(signals', signals', "detail")
    BY <1>3, SameSelf
  <2>5. IsQueue(requests') /\ OneUnderWay(requests', signals', "detail") /\ Only(requests', "detail", m)
    BY <1>3, <1>5, <2>2, <2>3, <2>4, Asking
  <2>6. OfJob(requests', signals', selected')
    BY <1>1, <1>5, <2>2, <2>5, JobOfRequest
  <2> QED
    BY <1>1, <1>3, <1>8, <1>10, <2>3, <2>5, <2>6 DEF PanelInv, PanelIsTarget, Load, Loader
<1>11. CASE selected # None /\ ~details.queued
  <2>1. details' = [details EXCEPT !.busy = FALSE] /\ requests' = requests
    BY <1>1, <1>3, <1>11, SendOne DEF DetailDone, Done, DoneSends
  <2>2. details' \in Loader /\ ~details'.busy
    BY <2>1 DEF PanelInv, Loader
  <2>3. detailFailed' \/ detail'.job = selected
    BY <1>2, <1>6, <1>7, <1>11
  <2> QED
    BY <1>1, <1>3, <1>5, <1>8, <1>11, <2>1, <2>2, <2>3 DEF PanelInv, PanelIsTarget, InFlight
<1> QED
  BY <1>9, <1>10, <1>11

\* The steps of the Queue and History pages.
LEMMA PanelJobs == PanelInv /\ JobStep => PanelInv'
<1> SUFFICES ASSUME PanelInv, JobStep PROVE PanelInv'
  OBVIOUS
<1>1. IsQueue(requests) /\ IsQueue(signals) /\ Same(requests, requests, "detail")
  BY SameSelf DEF PanelInv
<1>2. ASSUME NEW k, NEW ok, k # "detail", TakeSignal(k, ok) PROVE Same(signals, signals', "detail")
  BY <1>1, <1>2, TakeSignalOther
<1>3. CASE JobRest
  <2>1. Same(requests, requests', "detail") /\ Same(signals, signals', "detail")
    BY <1>1, <1>3, RestOther DEF JobKinds
  <2>2. UNCHANGED <<selected, detail, details, detailFailed>>
    BY <1>3 DEF JobRest, Timer, CommandJob, CloseDialog, PollExecution, ServeRefresh, ServeScan, ServeCommand,
       OnRefreshFailure, OnCommandFailure, OnScan, OnScanFailure, Elsewhere, Complete, operations, jobVars
  <2> QED
    BY <2>1, <2>2, PanelKept
<1>4. ASSUME NEW j, NEW key, SelectJob(j, key) PROVE PanelInv'
  <2>1. /\ selected' = j /\ RefreshDetail(j, 1) /\ requests' = requests \o DetailSends(j)
        /\ UNCHANGED signals
    BY <1>4 DEF SelectJob, Act
  <2>2. Same(requests', requests', "detail") /\ Same(signals, signals', "detail")
    BY <1>1, <2>1, DetailSent, SendQueue, SameSelf
  <2> QED
    BY <1>1, <2>1, <2>2, PanelAsks
<1>5. CASE OnSnapshot
  <2> DEFINE SS == AskSends(scans, Request("scan", None))
             RD == DoneSends(refreshes, Refresh)
             rows == Value.rows
  <2>1. OfKind(SS, "scan") /\ OfKind(RD, "refresh")
    BY Sends DEF Refresh, Request
  <2>2. Same(signals, signals', "detail") /\ UNCHANGED detailFailed
    BY <1>2, <1>5 DEF OnSnapshot
  <2> HIDE DEF SS, RD
  <2>3. CASE requests' = requests \o RD /\ UNCHANGED <<selected, detail, details>>
    BY <1>1, <2>1, <2>2, <2>3, SendOther, PanelKept
  <2>4. ASSUME NEW reset \in BOOLEAN, NewRows(rows, reset),
               requests' = requests \o NewRowsSends(rows, reset) \o SS \o RD
        PROVE  PanelInv'
    <3> DEFINE q == requests \o NewRowsSends(rows, reset)
    <3>1. IsQueue(q)
      BY <1>1, DetailSent, SendQueue
    <3>2. Same(q, requests', "detail")
      BY <2>1, <2>4, <3>1, SendTwo
    <3>3. CASE reset
      <4>1. q = requests \o DetailSends(selected') /\ RefreshDetail(selected', 2)
        BY <2>4, <3>3 DEF NewRows, NewRowsSends
      <4> QED
        BY <1>1, <2>2, <3>2, <4>1, PanelAsks
    <3>4. CASE ~reset /\ rows # table.rows /\ queueKey # None
      <4>1. q = requests \o DetailSends(selected') /\ RefreshDetail(selected', 1)
        BY <2>4, <3>4 DEF NewRows, NewRowsSends
      <4> QED
        BY <1>1, <2>2, <3>2, <4>1, PanelAsks
    <3>5. CASE ~reset /\ ~(rows # table.rows /\ queueKey # None)
      <4>1. q = requests /\ UNCHANGED <<selected, detail, details>>
        BY <1>1, <2>4, <3>5, SendOne DEF NewRows, NewRowsSends
      <4> QED
        BY <2>2, <3>2, <4>1, PanelKept
    <3> QED
      BY <3>3, <3>4, <3>5
  <2> QED
    BY <1>5, <2>3, <2>4 DEF OnSnapshot, SS, RD
<1>6. CASE OnAck \/ OnCompletion
  <2> DEFINE RS == AskSends(refreshes, Refresh)
  <2>1. /\ selected' = selected /\ RefreshDetail(selected, 1)
        /\ requests' = requests \o RS \o DetailSends(selected)
    BY <1>6 DEF OnAck, OnCompletion, RefreshAll
  <2>2. Same(signals, signals', "detail")
    BY <1>2, <1>6 DEF OnAck, OnCompletion
  <2>3. OfKind(RS, "refresh")
    BY Sends DEF Refresh, Request
  <2> HIDE DEF RS
  <2>4. Same(requests, requests \o RS, "detail") /\ IsQueue(requests \o RS)
    BY <1>1, <2>3, SendOther DEF Same
  <2>5. Same(requests', requests', "detail")
    BY <2>1, <2>4, DetailSent, SendQueue, SameSelf
  <2> QED
    BY <2>1, <2>2, <2>4, <2>5, PanelAsks
<1> QED
  BY <1>3, <1>4, <1>5, <1>6, PanelServes, PanelAnswered
     DEF JobStep, JobUser, JobRunner, JobWindow, JobRest, SelectInQueue, SelectInHistory, Deselect

\* Every step keeps the panel on its target.
LEMMA PanelStep == PanelInv /\ WorkInv /\ [NextPages]_pagesVars => PanelInv'
<1> SUFFICES ASSUME PanelInv, WorkInv, [NextPages]_pagesVars PROVE PanelInv'
  OBVIOUS
<1>1. IsQueue(requests) /\ IsQueue(signals)
  BY DEF PanelInv
<1>2. ASSUME UNCHANGED jobVars, Same(requests, requests', "detail"), Same(signals, signals', "detail")
      PROVE  PanelInv'
  BY <1>2, PanelKept DEF jobVars, operations
<1>3. CASE CreateStep
  BY <1>1, <1>2, <1>3, CreateOther DEF CreateStep, notCreate, CreateKinds, Saves
<1>4. CASE JobStep
  BY <1>4, PanelJobs
<1>5. CASE DiagnosticsStep
  BY <1>1, <1>2, <1>5, DiagnosticsOther DEF DiagnosticsStep, notDiagnostics, DiagnosticsKinds
<1>6. CASE ConfigStep
  BY <1>1, <1>2, <1>6, ConfigOther DEF ConfigStep, notConfig
<1>7. CASE UNCHANGED pagesVars
  BY <1>1, <1>2, <1>7, SameSelf DEF pagesVars, line
<1> QED
  BY <1>3, <1>4, <1>5, <1>6, <1>7 DEF NextPages

-----------------------------------------------------------------------------
(* The configuration files                                                  *)

\* The texts of a file, and the saves of it.
TextsOf(f) == IF f = "settings" THEN SettingsTexts ELSE ProviderTexts

Fds == {"closed", "temp", "real", "gone", "failed"}
SaveSteps == {"open", "write", "replace", "unlink"}
SettingsSaves == [step : SaveSteps, file : {"settings"}, fd : Fds, text : SettingsTexts,
                  presets : SUBSET Presets, keys : {{}}, saved : {{}}]
ProviderSaves == [step : SaveSteps, file : {"llm"}, fd : Fds, text : ProviderTexts,
                  presets : {{}}, keys : SUBSET Profiles, saved : SUBSET Profiles]
SavesOf(f) == IF f = "settings" THEN SettingsSaves ELSE ProviderSaves

\* Every file holds a text of its kind, and so does every save; a provider on the
\* page's account is full, and has a key that is a text, or none.
FilesOK ==
    /\ files \in [Files -> [real : SettingsTexts \union ProviderTexts \union {None},
                            temp : SettingsTexts \union ProviderTexts \union {None}]]
    /\ \A f \in Files : {files[f].real, files[f].temp} \subseteq TextsOf(f) \union {None}
SavesOK ==
    /\ saves \in [Programs -> {Idle} \union SettingsSaves \union ProviderSaves]
    /\ \A p \in Programs : saves[p].step = "write" => saves[p].fd \in {"temp", "real", "gone"}
HistoryOK ==
    /\ kept \in [presets : SUBSET Presets, keys : SUBSET Profiles, saved : SUBSET Profiles]
    /\ spoiled \in [Files -> BOOLEAN]
ConfigOK == FilesOK /\ SavesOK /\ HistoryOK

\* What is read from a text of settings.
LEMMA LoadedSettings == \A text \in SettingsTexts \union {None} : LoadSettings(text) \in SettingsTexts
BY DEF SettingsTexts, LoadSettings, SettingsText, Readable

\* What is read from a text of providers.
LEMMA LoadedProviders ==
    \A text \in ProviderTexts \union {None} : LoadProviders(text) \in [Profiles -> Providers \union {None}]
BY DEF ProviderTexts, LoadProviders, NoProviders, Tables, Readable

\* The texts a save may leave in a file.
LEMMA Scraps == \A f \in Files : Empty[f] \in TextsOf(f) /\ Torn[f] \in TextsOf(f)
<1>1. SettingsText("root", "en", {}) \in SettingsTexts
  BY DEF SettingsText, SettingsTexts, SettingsFaults
<1>2. NoProviders \in [Profiles -> Providers \union {None}]
  BY DEF NoProviders
<1>3. ProvidersText("ok", NoProviders) \in ProviderTexts /\ ProvidersText("root", NoProviders) \in ProviderTexts
  BY <1>2 DEF ProvidersText, ProviderTexts
<1> QED
  BY <1>1, <1>3 DEF Files, Empty, Torn, TextsOf

\* The files the user may have are texts.
LEMMA InitConfig == InitPages => ConfigOK
<1> SUFFICES ASSUME InitPages PROVE ConfigOK
  OBVIOUS
<1>1. \A f \in Files : AnyText[f] \subseteq TextsOf(f)
  <2>1. AnyText["settings"] \subseteq SettingsTexts
    BY DEF AnyText, SettingsTexts, SettingsText, SettingsFaults
  <2>2. AnyText["llm"] \subseteq ProviderTexts
    <3>1. \A own \in {h \in HandMade : h.form = "full" \/ h.key = "text"} \union {NoTable} :
              [NoProviders EXCEPT !["default"] = own] \in [Profiles -> Providers \union {None}]
      BY DEF NoProviders, Providers, HandMade
    <3>2. \A sibling \in {FullProvider, NoTable, Provider("hand", "refused", "text")} :
              [p \in Profiles |-> IF p = "default" THEN FullProvider ELSE sibling] \in [Profiles -> Providers \union {None}]
      <4>1. {FullProvider, NoTable, Provider("hand", "refused", "text")} \subseteq Providers
        BY DEF Providers, HandMade, Provider, FullProvider, NoTable
      <4> QED
        BY <4>1
    <3> QED
      BY <3>1, <3>2, Scraps DEF AnyText, ProviderTexts, ProvidersText, Files, TextsOf
  <2> QED
    BY <2>1, <2>2 DEF Files, TextsOf
<1>2. ConfigInit
  BY DEF InitPages
<1>3. \A f \in Files : files[f] \in [real : TextsOf(f) \union {None}, temp : {None}]
  BY <1>1, <1>2 DEF ConfigInit, NoFiles, Files
<1>4. files \in [Files -> [real : SettingsTexts \union ProviderTexts \union {None},
                            temp : SettingsTexts \union ProviderTexts \union {None}]]
  <2>1. DOMAIN files = Files /\ files = [f \in Files |-> files[f]]
    BY <1>2 DEF ConfigInit, NoFiles
  <2> QED
    BY <1>3, <2>1 DEF TextsOf
<1>5. \A f \in Files : {files[f].real, files[f].temp} \subseteq TextsOf(f) \union {None}
  BY <1>3
<1>6. saves \in [Programs -> {Idle}] /\ spoiled \in [Files -> BOOLEAN]
  BY <1>2 DEF ConfigInit
<1>7. kept \in [presets : SUBSET Presets, keys : SUBSET Profiles, saved : SUBSET Profiles]
  <2>1. LoadSettings(files["settings"].real) \in SettingsTexts
    BY <1>5, LoadedSettings DEF Files, TextsOf
  <2> QED
    BY <1>2, <2>1 DEF ConfigInit, SettingsTexts
<1> QED
  BY <1>4, <1>5, <1>6, <1>7 DEF ConfigOK, FilesOK, SavesOK, HistoryOK, Idle

\* A text put in a file, or in its temporary.
LEMMA PutText ==
    ASSUME FilesOK, NEW f \in Files, NEW fd \in {"real", "temp"}, NEW text \in TextsOf(f) \union {None},
           files' = [files EXCEPT ![f][fd] = text]
    PROVE  /\ FilesOK'
           /\ \A g \in Files \ {f} : files'[g] = files[g]
           /\ fd = "temp" => files'[f].temp = text /\ files'[f].real = files[f].real
           /\ fd = "real" => files'[f].real = text /\ files'[f].temp = files[f].temp
<1>1. text \in SettingsTexts \union ProviderTexts \union {None}
  BY DEF TextsOf
<1>2. CASE fd = "temp"
  <2>1. files' = [files EXCEPT ![f].temp = text]
    BY <1>2
  <2> QED
    BY <1>1, <1>2, <2>1 DEF FilesOK
<1>3. CASE fd = "real"
  <2>1. files' = [files EXCEPT ![f].real = text]
    BY <1>3
  <2> QED
    BY <1>1, <1>3, <2>1 DEF FilesOK
<1> QED
  BY <1>2, <1>3

\* A provider as the Settings page writes it.
FromPage(provider) == provider # None /\ provider.form = "full" /\ provider.key \in {"none", "text"}

\* A text has these presets of the user; or keys of these profiles, and those as
\* the page writes them.
Has(f, text, presets, keys, saved) ==
    IF f = "settings" THEN presets \subseteq LoadSettings(text).presets
    ELSE /\ \A profile \in keys : LET provider == LoadProviders(text)[profile]
                                  IN provider # None /\ provider.key = "text"
         /\ \A profile \in saved : FromPage(LoadProviders(text)[profile])

\* The text on its way to file f has what is kept, and what this save adds.
OnItsWay(f, save, content, presets, keys, saved) ==
    LET more(text) == Has(f, text, presets \union save.presets, keys \union save.keys, saved \union save.saved)
    IN /\ save.step = "open" => more(save.text)
       /\ save.step = "write" => more(save.text) /\ save.fd = "temp" /\ content.temp = Empty[f]
       /\ save.step = "replace" => more(save.text) /\ save.fd = "closed" /\ content.temp = save.text
       /\ save.step = "unlink" => save.fd = "failed" \/ (save.fd = "closed" /\ more(content.real))

\* Nothing has befallen file f: at most one program saves it, it has what is kept,
\* and so does what that program is about to put in its place.
FileInv(f) ==
    ~spoiled[f] =>
        /\ \A p, q \in Programs : SavedBy(p, f) /\ SavedBy(q, f) => p = q
        /\ Has(f, files[f].real, kept.presets, kept.keys, kept.saved)
        /\ \A p \in Programs : SavedBy(p, f) => OnItsWay(f, saves[p], files[f], kept.presets, kept.keys, kept.saved)

\* The inductive invariant of the configuration files.
ConfigInv == ConfigOK /\ \A f \in Files : FileInv(f)

\* A text that has something has less.
LEMMA HasLess ==
    ASSUME NEW f, NEW text, NEW P, NEW Q \in SUBSET P, NEW K, NEW L \in SUBSET K,
           NEW S, NEW T \in SUBSET S, Has(f, text, P, K, S)
    PROVE  Has(f, text, Q, L, T)
BY DEF Has

\* A text that is on its way with something is on its way with less.
LEMMA WayLess ==
    ASSUME NEW f, NEW save, NEW content, NEW P, NEW Q \in SUBSET P, NEW K, NEW L \in SUBSET K,
           NEW S, NEW T \in SUBSET S, OnItsWay(f, save, content, P, K, S)
    PROVE  OnItsWay(f, save, content, Q, L, T)
<1>1. /\ Q \union save.presets \subseteq P \union save.presets /\ L \union save.keys \subseteq K \union save.keys
      /\ T \union save.saved \subseteq S \union save.saved
  OBVIOUS
<1>2. \A text : Has(f, text, P \union save.presets, K \union save.keys, S \union save.saved) =>
                    Has(f, text, Q \union save.presets, L \union save.keys, T \union save.saved)
  BY <1>1, HasLess
<1> QED
  BY <1>2 DEF OnItsWay

\* What a file has depends on its own part of the history only.
LEMMA OtherHistory ==
    ASSUME NEW f \in Files, NEW P, NEW Q, NEW K, NEW L, NEW S, NEW T,
           f = "settings" => P = Q, f = "llm" => K = L /\ S = T
    PROVE  /\ \A text : Has(f, text, P, K, S) => Has(f, text, Q, L, T)
           /\ \A save, content : OnItsWay(f, save, content, P, K, S) => OnItsWay(f, save, content, Q, L, T)
<1>1. (f = "settings" /\ P = Q) \/ (f = "llm" /\ K = L /\ S = T)
  BY DEF Files
<1>2. \A text, R, M, U : Has(f, text, P \union R, K \union M, S \union U) =>
                             Has(f, text, Q \union R, L \union M, T \union U)
  BY <1>1 DEF Has
<1>3. \A text : Has(f, text, P, K, S) => Has(f, text, Q, L, T)
  BY <1>1 DEF Has
<1> QED
  BY <1>2, <1>3 DEF OnItsWay

\* A save under way is one of its file.
LEMMA SaveOf ==
    ASSUME SavesOK, NEW p \in Programs, NEW f \in Files, SavedBy(p, f)
    PROVE  saves[p] \in SavesOf(f)
BY DEF SavesOK, SavedBy, Busy, Idle, SavesOf, SettingsSaves, ProviderSaves, Files

\* The save of p moves on.
Moves(p, step, fd) == saves' = [saves EXCEPT ![p].step = step, ![p].fd = fd]

\* It is then a save of the same file and text.
LEMMA SetSave ==
    ASSUME SavesOK, NEW p \in Programs, NEW f \in Files, SavedBy(p, f),
           NEW step \in SaveSteps, NEW fd \in Fds, step = "write" => fd \in {"temp", "real", "gone"},
           Moves(p, step, fd)
    PROVE  /\ SavesOK'
           /\ saves'[p].step = step /\ saves'[p].fd = fd
           /\ saves'[p].file = f /\ saves'[p].text = saves[p].text
           /\ saves'[p].presets = saves[p].presets /\ saves'[p].keys = saves[p].keys
            /\ saves'[p].saved = saves[p].saved
           /\ \A q \in Programs \ {p} : saves'[q] = saves[q]
<1>1. saves[p] \in SavesOf(f)
  BY SaveOf
<1> saves' = [saves EXCEPT ![p] = [@ EXCEPT !.step = step, !.fd = fd]]
  BY <1>1 DEF Moves, SavesOK, SavesOf, SettingsSaves, ProviderSaves
<1>2. [saves[p] EXCEPT !.step = step, !.fd = fd] \in SavesOf(f)
  BY <1>1 DEF SavesOf, SettingsSaves, ProviderSaves
<1>3. SavesOf(f) \subseteq SettingsSaves \union ProviderSaves
  BY DEF SavesOf
<1>4. saves' \in [Programs -> {Idle} \union SettingsSaves \union ProviderSaves]
  BY <1>2, <1>3 DEF SavesOK
<1>5. /\ [saves[p] EXCEPT !.step = step, !.fd = fd].step = step
      /\ [saves[p] EXCEPT !.step = step, !.fd = fd].fd = fd
      /\ [saves[p] EXCEPT !.step = step, !.fd = fd].file = saves[p].file
      /\ [saves[p] EXCEPT !.step = step, !.fd = fd].text = saves[p].text
      /\ [saves[p] EXCEPT !.step = step, !.fd = fd].presets = saves[p].presets
      /\ [saves[p] EXCEPT !.step = step, !.fd = fd].keys = saves[p].keys
      /\ [saves[p] EXCEPT !.step = step, !.fd = fd].saved = saves[p].saved
  BY <1>1 DEF SavesOf, SettingsSaves, ProviderSaves
<1>6. saves'[p] = [saves[p] EXCEPT !.step = step, !.fd = fd]
  BY DEF SavesOK
<1>7. \A q \in Programs \ {p} : saves'[q] = saves[q]
  BY DEF SavesOK
<1>8. saves[p].file = f
  BY DEF SavedBy
<1>9. SavesOK'
  BY <1>4, <1>5, <1>6, <1>7 DEF SavesOK
<1> QED
  BY <1>5, <1>6, <1>7, <1>8, <1>9

\* Open files follow a renaming or a removal; a file that is not open does not.
LEMMA Followed ==
    ASSUME SavesOK, NEW f \in Files,
           NEW moved \in {[temp |-> "real", real |-> "gone"], [temp |-> "gone"]}
    PROVE  /\ Follow(f, moved) \in [Programs -> {Idle} \union SettingsSaves \union ProviderSaves]
           /\ \A q \in Programs : /\ Follow(f, moved)[q].step = saves[q].step
                                  /\ SavedBy(q, f) => Follow(f, moved)[q].file = f
                                  /\ SavedBy(q, f) \/ Follow(f, moved)[q] = saves[q]
                                  /\ saves[q].fd = "closed" => Follow(f, moved)[q] = saves[q]
                                  /\ saves[q].step = "write" => Follow(f, moved)[q].fd \in {"temp", "real", "gone"}
<1>1. DOMAIN moved \subseteq {"temp", "real"} /\ \A fd \in DOMAIN moved : moved[fd] \in {"real", "gone"}
  <2>1. CASE moved = [temp |-> "real", real |-> "gone"]
    BY <2>1
  <2>2. CASE moved = [temp |-> "gone"]
    BY <2>2
  <2> QED
    BY <2>1, <2>2
<1>2. SUFFICES ASSUME NEW q \in Programs
               PROVE  /\ Follow(f, moved)[q] \in {Idle} \union SettingsSaves \union ProviderSaves
                      /\ Follow(f, moved)[q].step = saves[q].step
                      /\ SavedBy(q, f) => Follow(f, moved)[q].file = f
                      /\ SavedBy(q, f) \/ Follow(f, moved)[q] = saves[q]
                      /\ saves[q].fd = "closed" => Follow(f, moved)[q] = saves[q]
                      /\ saves[q].step = "write" => Follow(f, moved)[q].fd \in {"temp", "real", "gone"}
  BY DEF Follow
<1>3. CASE SavedBy(q, f) /\ saves[q].fd \in DOMAIN moved
  <2>1. saves[q] \in SavesOf(f)
    BY <1>3, SaveOf
  <2>2. PICK fd \in {"real", "gone"} : fd = moved[saves[q].fd]
    BY <1>1, <1>3
  <2>3. Follow(f, moved)[q] = [saves[q] EXCEPT !.fd = fd]
    BY <1>3, <2>2 DEF Follow
  <2>4. [saves[q] EXCEPT !.fd = fd] \in SavesOf(f)
    BY <2>1 DEF SavesOf, SettingsSaves, ProviderSaves, Fds
  <2>5. /\ [saves[q] EXCEPT !.fd = fd].step = saves[q].step /\ [saves[q] EXCEPT !.fd = fd].fd = fd
        /\ [saves[q] EXCEPT !.fd = fd].file = saves[q].file
    BY <2>1 DEF SavesOf, SettingsSaves, ProviderSaves
  <2>6. saves[q].file = f
    BY <1>3 DEF SavedBy
  <2> QED
    BY <1>1, <1>3, <2>6, <2>3, <2>4, <2>5 DEF SavesOf
<1>4. CASE ~(SavedBy(q, f) /\ saves[q].fd \in DOMAIN moved)
  BY <1>4 DEF Follow, SavesOK, SavedBy
<1> QED
  BY <1>3, <1>4

\* A save that begins: the text it makes has what is kept from now on, and what it adds.
LEMMA BeginKeeps ==
    ASSUME ConfigInv, NEW p \in Programs, NEW f \in Files, NEW text \in TextsOf(f), NEW odd \in BOOLEAN,
           NEW presets \in SUBSET Presets, NEW keys \in SUBSET Profiles,
           NEW saved \in SUBSET Profiles,
           f = "settings" => keys = {} /\ saved = {}, f = "llm" => presets = {},
           May(p, f), Begin(p, f, text, odd, presets, keys, saved),
           HistoryOK', kept'.presets \subseteq kept.presets, kept'.keys \subseteq kept.keys,
           kept'.saved \subseteq kept.saved,
           ~spoiled[f] => Has(f, text, kept'.presets \union presets, kept'.keys \union keys, kept'.saved \union saved)
    PROVE  ConfigInv'
<1> DEFINE save == [step |-> "open", file |-> f, fd |-> "closed", text |-> Escaped(text, odd),
                    presets |-> presets, keys |-> keys, saved |-> saved]
<1>1. /\ ~Busy(p) /\ saves' = [saves EXCEPT ![p] = save] /\ files' = files
      /\ spoiled' = [spoiled EXCEPT ![f] = @ \/ odd \/ \E q \in Programs : SavedBy(q, f)]
  BY DEF Begin, May
<1>2. save \in SavesOf(f)
  <2>1. Escaped(text, odd) \in TextsOf(f)
    BY DEF Escaped, TextsOf, SettingsTexts, SettingsFaults, ProviderTexts, Files
  <2> QED
    BY <2>1 DEF SavesOf, SettingsSaves, ProviderSaves, Files, SaveSteps, Fds, TextsOf
<1>3. ConfigOK'
  <2>1. FilesOK'
    BY <1>1 DEF ConfigInv, ConfigOK, FilesOK
  <2>2. SavesOK'
    BY <1>1, <1>2 DEF ConfigInv, ConfigOK, SavesOK, SavesOf
  <2> QED
    BY <2>1, <2>2 DEF ConfigOK
<1>4. \A q \in Programs \ {p} : saves'[q] = saves[q]
  BY <1>1
<1>5. saves'[p] = save
  BY <1>1 DEF ConfigInv, ConfigOK, SavesOK
<1>6. ASSUME NEW g \in Files, ~spoiled'[g] PROVE FileInv(g)'
  <2>1. ~spoiled[g] /\ (g = f => ~odd /\ \A q \in Programs : ~SavedBy(q, f))
    BY <1>1, <1>6 DEF ConfigInv, ConfigOK, HistoryOK
  <2>2. /\ \A q, r \in Programs : SavedBy(q, g) /\ SavedBy(r, g) => q = r
        /\ Has(g, files[g].real, kept.presets, kept.keys, kept.saved)
        /\ \A q \in Programs : SavedBy(q, g) => OnItsWay(g, saves[q], files[g], kept.presets, kept.keys, kept.saved)
    BY <2>1 DEF ConfigInv, FileInv
  <2>3. Has(g, files'[g].real, kept'.presets, kept'.keys, kept'.saved)
    BY <1>1, <2>2, HasLess
  <2>4. CASE g = f
    <3>1. \A q \in Programs : SavedBy(q, g)' => q = p
      BY <1>4, <2>1, <2>4 DEF SavedBy, Busy
    <3>2. Escaped(text, odd) = text
      BY <2>1, <2>4 DEF Escaped
    <3>3. OnItsWay(g, saves'[p], files'[g], kept'.presets, kept'.keys, kept'.saved)
      BY <1>5, <2>1, <2>4, <3>2 DEF OnItsWay
    <3> QED
      BY <2>3, <3>1, <3>3 DEF FileInv
  <2>5. CASE g # f
    <3>1. \A q \in Programs : SavedBy(q, g)' => SavedBy(q, g) /\ saves'[q] = saves[q]
      BY <1>4, <1>5, <2>5 DEF SavedBy, Busy
    <3>2. ASSUME NEW q \in Programs, SavedBy(q, g)
          PROVE  OnItsWay(g, saves[q], files[g], kept'.presets, kept'.keys, kept'.saved)
      BY <2>2, <3>2, WayLess
    <3> QED
      BY <1>1, <2>2, <2>3, <3>1, <3>2 DEF FileInv
  <2> QED
    BY <2>4, <2>5
<1> QED
  BY <1>3, <1>6 DEF ConfigInv, FileInv

\* A step of the save of p touches file f alone, and of the other programs no more
\* than what they have open of that file.
Local(p, f) ==
    /\ UNCHANGED spoiled
    /\ \A g \in Files \ {f} : files'[g] = files[g]
    /\ saves'[p] = Idle \/ saves'[p].file = f
    /\ \A q \in Programs \ {p} :
          \/ saves'[q] = saves[q]
          \/ SavedBy(q, f) /\ saves'[q].step = saves[q].step /\ saves'[q].file = f
    /\ f = "settings" => kept'.keys = kept.keys /\ kept'.saved = kept.saved
    /\ f = "llm" => kept'.presets = kept.presets

\* What is kept stays in file f, and on its way there.
Carried(p, f) ==
    Has(f, files[f].real, kept.presets, kept.keys, kept.saved) /\ OnItsWay(f, saves[p], files[f], kept.presets, kept.keys, kept.saved) =>
        /\ Has(f, files'[f].real, kept'.presets, kept'.keys, kept'.saved)
        /\ saves'[p] = Idle \/ OnItsWay(f, saves'[p], files'[f], kept'.presets, kept'.keys, kept'.saved)

\* A step of a save that is alone with its file.
LEMMA SoleSaver ==
    ASSUME ConfigInv, NEW p \in Programs, NEW f \in Files, SavedBy(p, f), ConfigOK', Local(p, f), Carried(p, f)
    PROVE  ConfigInv'
<1> USE DEF Local
<1>1. SUFFICES ASSUME NEW g \in Files, ~spoiled[g] PROVE FileInv(g)'
  BY DEF ConfigInv, FileInv
<1>2. /\ \A q, r \in Programs : SavedBy(q, g) /\ SavedBy(r, g) => q = r
      /\ Has(g, files[g].real, kept.presets, kept.keys, kept.saved)
      /\ \A q \in Programs : SavedBy(q, g) => OnItsWay(g, saves[q], files[g], kept.presets, kept.keys, kept.saved)
  BY <1>1 DEF ConfigInv, FileInv
<1>3. CASE g = f
  <2>1. \A q \in Programs \ {p} : ~SavedBy(q, f)
    BY <1>2, <1>3
  <2>2. \A q \in Programs : SavedBy(q, f)' => q = p
    BY <2>1 DEF SavedBy, Busy
  <2>3. SavedBy(p, f)' => saves'[p] # Idle
    BY DEF SavedBy, Busy, Idle
  <2> QED
    BY <1>1, <1>2, <1>3, <2>2, <2>3 DEF FileInv, Carried
<1>4. CASE g # f
  <2>1. ASSUME NEW q \in Programs, SavedBy(q, g)' PROVE SavedBy(q, g) /\ saves'[q] = saves[q]
    <3>1. q # p
      BY <1>4, <2>1 DEF SavedBy, Busy, Idle
    <3>2. saves'[q] = saves[q] \/ saves'[q].file = f
      BY <3>1
    <3> QED
      BY <1>4, <2>1, <3>1, <3>2 DEF SavedBy, Busy
  <2>2. (g = "settings" => kept'.presets = kept.presets) /\ (g = "llm" => kept'.keys = kept.keys /\ kept'.saved = kept.saved)
    BY <1>4 DEF Files
  <2>3. files'[g] = files[g]
    BY <1>4
  <2>4. Has(g, files[g].real, kept'.presets, kept'.keys, kept'.saved)
    BY <1>2, <2>2, OtherHistory
  <2>5. ASSUME NEW q \in Programs, SavedBy(q, g)
        PROVE  OnItsWay(g, saves[q], files[g], kept'.presets, kept'.keys, kept'.saved)
    <3>1. OnItsWay(g, saves[q], files[g], kept.presets, kept.keys, kept.saved)
      BY <1>2, <2>5
    <3> QED
      BY <2>2, <3>1, OtherHistory
  <2>6. \A q, r \in Programs : SavedBy(q, g)' /\ SavedBy(r, g)' => q = r
    BY <1>2, <2>1
  <2>7. ASSUME NEW q \in Programs, SavedBy(q, g)'
        PROVE  OnItsWay(g, saves'[q], files'[g], kept'.presets, kept'.keys, kept'.saved)
    BY <2>1, <2>3, <2>5, <2>7
  <2> QED
    BY <2>3, <2>4, <2>6, <2>7 DEF FileInv
<1> QED
  BY <1>3, <1>4

\* Before the first save the files have what the history begins with.
LEMMA FirstConfig == InitPages => ConfigInv
<1> SUFFICES ASSUME InitPages PROVE ConfigInv
  OBVIOUS
<1>1. ConfigInit
  BY DEF InitPages
<1>2. \A p \in Programs, f \in Files : ~SavedBy(p, f)
  BY <1>1 DEF ConfigInit, SavedBy, Busy, Idle
<1>3. \A f \in Files : Has(f, files[f].real, kept.presets, kept.keys, kept.saved)
  BY <1>1 DEF ConfigInit, Has, Files
<1> QED
  BY <1>2, <1>3, InitConfig DEF ConfigInv, FileInv

\* What a save of the settings starts from has all presets that are kept.
LEMMA SettingsRead ==
    ASSUME ConfigInv
    PROVE  /\ SettingsBase \in SettingsTexts
           /\ ~spoiled["settings"] => kept.presets \subseteq SettingsBase.presets
           /\ \A text \in SettingsTexts : text.fault = "ok" => LoadSettings(text) = text
           /\ SettingsBase.fault = "ok"
<1>1. files["settings"].real \in SettingsTexts \union {None}
  BY DEF ConfigInv, ConfigOK, FilesOK, Files, TextsOf
<1>2. SettingsBase \in SettingsTexts /\ SettingsBase.fault = "ok"
  BY <1>1, LoadedSettings DEF SettingsBase, LoadSettings, SettingsText, Readable
<1>3. \A text \in SettingsTexts : text.fault = "ok" => LoadSettings(text) = text
  BY TextAssumption DEF LoadSettings, Readable
<1>4. ~spoiled["settings"] => kept.presets \subseteq SettingsBase.presets
  BY DEF ConfigInv, FileInv, Has, Files, SettingsBase
<1> QED
  BY <1>2, <1>3, <1>4

\* A save of the language keeps the presets.
LEMMA LocaleSaved == ASSUME ConfigInv, NEW p \in Programs, SaveLocale(p) PROVE ConfigInv'
<1>1. PICK l \in {"en", "zh"}, odd \in BOOLEAN :
          Begin(p, "settings", [SettingsBase EXCEPT !.locale = l], odd, {}, {}, {})
  BY DEF SaveLocale
<1>2. PICK text : text = [SettingsBase EXCEPT !.locale = l]
  OBVIOUS
<1>3. text \in SettingsTexts /\ text.fault = "ok" /\ text.presets = SettingsBase.presets
  BY <1>2, SettingsRead DEF SettingsTexts
<1>4. ~spoiled["settings"] => Has("settings", text, kept.presets \union {}, kept.keys \union {}, kept.saved \union {})
  BY <1>3, SettingsRead DEF Has
<1>5. kept' = kept /\ HistoryOK'
  BY <1>1 DEF SaveLocale, Begin, May, ConfigInv, ConfigOK, HistoryOK
<1>6. May(p, "settings") /\ Begin(p, "settings", text, odd, {}, {}, {})
  BY <1>1, <1>2 DEF SaveLocale, SaveUserPreset, DeleteUserPreset
<1>8. "settings" \in Files /\ "settings" # "llm" /\ text \in TextsOf("settings")
  BY <1>3 DEF Files, TextsOf
<1>9. {} \in SUBSET Presets /\ {} \in SUBSET Profiles
  OBVIOUS
<1>10. kept'.presets \subseteq kept.presets /\ kept'.keys \subseteq kept.keys /\ kept'.saved \subseteq kept.saved
  BY <1>5
<1> QED
  BY <1>4, <1>5, <1>6, <1>8, <1>9, <1>10, BeginKeeps

\* A save of a preset keeps the others, and has that one.
LEMMA PresetSaved == ASSUME ConfigInv, NEW p \in Programs, SaveUserPreset(p) PROVE ConfigInv'
<1>1. PICK x \in Presets, odd \in BOOLEAN :
          Begin(p, "settings", [SettingsBase EXCEPT !.presets = @ \union {x}], odd, {x}, {}, {})
  BY DEF SaveUserPreset
<1>2. PICK text : text = [SettingsBase EXCEPT !.presets = @ \union {x}]
  OBVIOUS
<1>3. text \in SettingsTexts /\ text.fault = "ok" /\ text.presets = SettingsBase.presets \union {x}
  BY <1>2, SettingsRead DEF SettingsTexts
<1>4. ~spoiled["settings"] => Has("settings", text, kept.presets \union {x}, kept.keys \union {}, kept.saved \union {})
  BY <1>3, SettingsRead DEF Has
<1>5. kept' = kept /\ HistoryOK'
  BY <1>1 DEF SaveUserPreset, Begin, May, ConfigInv, ConfigOK, HistoryOK
<1>6. May(p, "settings") /\ Begin(p, "settings", text, odd, {x}, {}, {})
  BY <1>1, <1>2 DEF SaveLocale, SaveUserPreset, DeleteUserPreset
<1>8. "settings" \in Files /\ "settings" # "llm" /\ text \in TextsOf("settings")
  BY <1>3 DEF Files, TextsOf
<1>9. {} \in SUBSET Presets /\ {} \in SUBSET Profiles
  OBVIOUS
<1>10. kept'.presets \subseteq kept.presets /\ kept'.keys \subseteq kept.keys /\ kept'.saved \subseteq kept.saved
  BY <1>5
<1> QED
  BY <1>4, <1>5, <1>6, <1>8, <1>9, <1>10, BeginKeeps

\* A preset the user deletes is not kept any more.
LEMMA PresetDeleted == ASSUME ConfigInv, NEW p \in Programs, DeleteUserPreset(p) PROVE ConfigInv'
<1>1. PICK x \in SettingsBase.presets, odd \in BOOLEAN :
          /\ Begin(p, "settings", [SettingsBase EXCEPT !.presets = @ \ {x}], odd, {}, {}, {})
          /\ kept' = [kept EXCEPT !.presets = @ \ {x}]
  BY DEF DeleteUserPreset
<1>2. PICK text : text = [SettingsBase EXCEPT !.presets = @ \ {x}]
  OBVIOUS
<1>3. text \in SettingsTexts /\ text.fault = "ok" /\ text.presets = SettingsBase.presets \ {x}
  BY <1>2, SettingsRead DEF SettingsTexts
<1>4. /\ kept'.presets = kept.presets \ {x} /\ kept'.keys = kept.keys /\ kept'.saved = kept.saved
      /\ kept' \in [presets : SUBSET Presets, keys : SUBSET Profiles, saved : SUBSET Profiles]
  BY <1>1 DEF ConfigInv, ConfigOK, HistoryOK
<1>5. ~spoiled["settings"] => Has("settings", text, kept'.presets \union {}, kept'.keys \union {}, kept'.saved \union {})
  BY <1>3, <1>4, SettingsRead DEF Has
<1>6. HistoryOK'
  BY <1>1, <1>4 DEF Begin, ConfigInv, ConfigOK, HistoryOK
<1>7. May(p, "settings") /\ Begin(p, "settings", text, odd, {}, {}, {})
  BY <1>1, <1>2 DEF SaveLocale, SaveUserPreset, DeleteUserPreset
<1>8. "settings" \in Files /\ "settings" # "llm" /\ text \in TextsOf("settings")
  BY <1>3 DEF Files, TextsOf
<1>9. {} \in SUBSET Presets /\ {} \in SUBSET Profiles
  OBVIOUS
<1>10. kept'.presets \subseteq kept.presets /\ kept'.keys \subseteq kept.keys /\ kept'.saved \subseteq kept.saved
  BY <1>4
<1> QED
  BY <1>5, <1>6, <1>7, <1>8, <1>9, <1>10, BeginKeeps

\* What a profile is written as keeps its key, is as the page writes it if it was
\* so, and is a table if it was one.
LEMMA WrittenAgain ==
    ASSUME NEW provider \in (Providers \union {None}) \ {NoTable}, NEW other \in Rewritten(provider)
    PROVE  /\ other \in (Providers \union {None}) \ {NoTable}
           /\ provider # None /\ provider.key = "text" => other # None /\ other.key = "text"
           /\ FromPage(provider) => FromPage(other)
<1>1. CASE provider = None
  BY <1>1 DEF Rewritten, FromPage
<1>2. CASE provider # None
  <2>1. PICK made \in {"hand", "page"}, shape \in {"full", "no kind", "blanks", "refused", "no table"},
             key \in {"none", "text", "number"} :
            /\ provider = [made |-> made, form |-> shape, key |-> key]
            /\ made = "page" => shape = "full" /\ key # "number"
            /\ shape # "no table"
    BY <1>2 DEF Providers, HandMade, NoTable, Provider
  <2>2. provider.made = made /\ provider.form = shape /\ provider.key = key
    BY <2>1
  <2>3. /\ other \in Providers
        /\ other.form = provider.form \/ (provider.form = "refused" /\ other.form # "no table")
        /\ other.key = provider.key \/ (provider.key = "number" /\ other.key = "text")
    BY <1>2 DEF Rewritten
  <2>4. NoTable.form = "no table"
    BY DEF NoTable, Provider
  <2>5. other # NoTable /\ other # None
    BY <2>1, <2>2, <2>3, <2>4, TextAssumption
  <2> QED
    BY <1>2, <2>1, <2>2, <2>3, <2>5 DEF FromPage
<1> QED
  BY <1>1, <1>2

\* A save of one provider keeps the keys of all, its own when the field is left blank.
LEMMA ProviderSaved == ASSUME ConfigInv, NEW p \in Programs, SaveOneProvider(p) PROVE ConfigInv'
<1>1. PICK real : real = files["llm"].real
  OBVIOUS
<1>2. PICK old : old = LoadProviders(real)
  OBVIOUS
<1>3. PICK profile \in Profiles, others \in Rewritings(old), typed \in BOOLEAN, odd \in BOOLEAN :
          Begin(p, "llm", ProvidersText("ok", [others EXCEPT ![profile] =
                    Provider("page", "full", KeySaved(old[profile], typed))]),
                odd, {}, IF typed THEN {profile} ELSE {}, {profile})
  BY <1>1, <1>2 DEF SaveOneProvider
<1>4. PICK new : new = Provider("page", "full", KeySaved(old[profile], typed))
  OBVIOUS
<1>5. PICK keys : keys = IF typed THEN {profile} ELSE {}
  OBVIOUS
<1>6. PICK text : text = ProvidersText("ok", [others EXCEPT ![profile] = new])
  OBVIOUS
<1>7. real \in ProviderTexts \union {None}
  BY <1>1 DEF ConfigInv, ConfigOK, FilesOK, Files, TextsOf
<1>8. old \in [Profiles -> Providers \union {None}] /\ \A k \in Profiles : old[k] # NoTable
  <2>1. old \in [Profiles -> Providers \union {None}]
    BY <1>2, <1>7, LoadedProviders
  <2>2. NoTable \in Providers
    BY DEF NoTable, Providers, HandMade
  <2> QED
    BY <1>2, <2>1, <2>2, TextAssumption DEF LoadProviders, Tables, NoProviders
<1>9. /\ new \in Providers /\ new # None /\ (typed => new.key = "text")
      /\ (old[profile] # None /\ old[profile].key = "text" => new.key = "text")
      /\ FromPage(new) /\ new # NoTable
  <2>1. new \in Providers
    BY <1>4 DEF Providers, Provider, KeySaved
  <2>2. new.key = KeySaved(old[profile], typed) /\ new.form = "full"
    BY <1>4 DEF Provider
  <2>3. new # None
    BY <2>1, TextAssumption
  <2>4. new # NoTable
    <3>1. NoTable.form = "no table"
      BY DEF NoTable, Provider
    <3> QED
      BY <2>2, <3>1
  <2>5. KeySaved(old[profile], typed) \in {"none", "text"}
    BY DEF KeySaved
  <2>6. /\ typed => new.key = "text"
        /\ old[profile] # None /\ old[profile].key = "text" => new.key = "text"
    BY <2>2 DEF KeySaved
  <2>7. FromPage(new)
    BY <2>2, <2>3, <2>5 DEF FromPage
  <2> QED
    BY <2>1, <2>3, <2>4, <2>6, <2>7
<1>10. /\ DOMAIN others = Profiles
       /\ \A k \in Profiles :
              /\ others[k] \in (Providers \union {None}) \ {NoTable}
              /\ old[k] # None /\ old[k].key = "text" => others[k] # None /\ others[k].key = "text"
              /\ FromPage(old[k]) => FromPage(others[k])
  <2>1. DOMAIN others = Profiles /\ \A k \in Profiles : others[k] \in Rewritten(old[k])
    BY <1>3 DEF Rewritings
  <2> QED
    BY <1>8, <2>1, WrittenAgain
<1>11. text \in ProviderTexts /\ LoadProviders(text) = [others EXCEPT ![profile] = new]
  <2>1. [others EXCEPT ![profile] = new] \in [Profiles -> Providers \union {None}]
    <3>1. others \in [Profiles -> Providers \union {None}]
      <4>1. others = [k \in Profiles |-> others[k]]
        BY <1>3, <1>10 DEF Rewritings
      <4> QED
        BY <1>10, <4>1
    <3> QED
      BY <1>9, <3>1
  <2>2. text \in ProviderTexts /\ text.fault = "ok" /\ text.providers = [others EXCEPT ![profile] = new]
    BY <1>6, <2>1 DEF ProvidersText, ProviderTexts
  <2>3. \A k \in Profiles : text.providers[k] # NoTable
    BY <1>9, <1>10, <2>2
  <2> QED
    BY <2>2, <2>3, TextAssumption DEF LoadProviders, Tables, Readable
<1>12. keys \in SUBSET Profiles /\ {profile} \in SUBSET Profiles
  BY <1>5
<1>13. ASSUME ~spoiled["llm"]
       PROVE  Has("llm", text, kept.presets, kept.keys \union keys, kept.saved \union {profile})
  <2>1. LoadProviders(text)[profile] = new
    BY <1>10, <1>11
  <2>2. \A k \in Profiles \ {profile} : LoadProviders(text)[k] = others[k]
    BY <1>10, <1>11
  <2>3. kept.keys \subseteq Profiles /\ kept.saved \subseteq Profiles
    BY DEF ConfigInv, ConfigOK, HistoryOK
  <2>4. /\ \A k \in kept.keys : old[k] # None /\ old[k].key = "text"
        /\ \A k \in kept.saved : FromPage(old[k])
    BY <1>1, <1>2, <1>13 DEF ConfigInv, FileInv, Has, Files
  <2>5. \A k \in kept.keys \union keys : LoadProviders(text)[k] # None /\ LoadProviders(text)[k].key = "text"
    BY <1>5, <1>9, <1>10, <2>1, <2>2, <2>3, <2>4
  <2>6. \A k \in kept.saved \union {profile} : FromPage(LoadProviders(text)[k])
    BY <1>9, <1>10, <2>1, <2>2, <2>3, <2>4
  <2> QED
    BY <2>5, <2>6 DEF Has
<1>14. kept' = kept /\ HistoryOK'
  BY <1>3 DEF SaveOneProvider, Begin, May, ConfigInv, ConfigOK, HistoryOK
<1>15. May(p, "llm") /\ Begin(p, "llm", text, odd, {}, keys, {profile})
  BY <1>3, <1>4, <1>5, <1>6 DEF SaveOneProvider
<1>16. /\ "llm" \in Files /\ "llm" # "settings" /\ text \in TextsOf("llm") /\ {} \in SUBSET Presets
       /\ kept'.presets \subseteq kept.presets /\ kept'.keys \subseteq kept.keys /\ kept'.saved \subseteq kept.saved
  BY <1>11, <1>14 DEF Files, TextsOf
<1>17. kept'.presets \union {} = kept.presets /\ kept'.keys = kept.keys /\ kept'.saved = kept.saved
  BY <1>14
<1>18. ~spoiled["llm"] => Has("llm", text, kept'.presets \union {}, kept'.keys \union keys, kept'.saved \union {profile})
  BY <1>13, <1>17
<1> QED
  BY <1>12, <1>14, <1>15, <1>16, <1>18, BeginKeeps

\* The temporary is opened, and is empty.
LEMMA Opened ==
    ASSUME ConfigInv, NEW p \in Programs, NEW f \in Files, OpenTemp(p, f)
    PROVE  ConfigInv'
<1>1. /\ SavedBy(p, f) /\ saves[p].step = "open" /\ UNCHANGED <<spoiled, kept>>
      /\ Moves(p, "write", "temp")
  BY DEF OpenTemp, Stepping, Moves
<1>2. files' = [files EXCEPT ![f]["temp"] = Empty[f]] /\ Empty[f] \in TextsOf(f)
  BY Scraps DEF OpenTemp
<1>3. /\ FilesOK' /\ files'[f].temp = Empty[f] /\ files'[f].real = files[f].real
      /\ \A g \in Files \ {f} : files'[g] = files[g]
  BY <1>2, PutText DEF ConfigInv, ConfigOK
<1>4. /\ SavesOK' /\ saves'[p].step = "write" /\ saves'[p].fd = "temp"
      /\ saves'[p].file = f /\ saves'[p].text = saves[p].text
      /\ saves'[p].presets = saves[p].presets /\ saves'[p].keys = saves[p].keys
            /\ saves'[p].saved = saves[p].saved
      /\ \A q \in Programs \ {p} : saves'[q] = saves[q]
  <2>1. SavesOK /\ "write" \in SaveSteps /\ "temp" \in Fds
    BY DEF ConfigInv, ConfigOK, SaveSteps, Fds
  <2> QED
    BY <1>1, <2>1, SetSave
<1>5. ConfigOK'
  BY <1>1, <1>3, <1>4 DEF ConfigInv, ConfigOK, HistoryOK
<1>6. OnItsWay(f, saves[p], files[f], kept.presets, kept.keys, kept.saved) =>
          OnItsWay(f, saves'[p], files'[f], kept'.presets, kept'.keys, kept'.saved)
  BY <1>1, <1>3, <1>4 DEF OnItsWay
<1>7. Local(p, f)
  BY <1>1, <1>3, <1>4 DEF Local
<1>8. Carried(p, f)
  BY <1>1, <1>3, <1>6 DEF Carried
<1> QED
  BY <1>1, <1>5, <1>7, <1>8, SoleSaver

\* The text is written, or part of it; the save of a file that is not spoiled
\* writes to an empty temporary.
LEMMA TextWritten ==
    ASSUME ConfigInv, NEW p \in Programs, NEW f \in Files, WriteTemp(p, f)
    PROVE  ConfigInv'
<1>1. SavedBy(p, f) /\ saves[p].step = "write" /\ UNCHANGED <<spoiled, kept>>
  <2>1. Stepping(p, f, "write") /\ UNCHANGED kept
    BY DEF WriteTemp
  <2> QED
    BY <2>1 DEF Stepping
<1>2. PICK fd \in {"temp", "real", "gone"} : fd = saves[p].fd
  BY <1>1 DEF ConfigInv, ConfigOK, SavesOK
<1>3. PICK text \in TextsOf(f) :
          /\ files' = IF fd = "gone" THEN files ELSE [files EXCEPT ![f][fd] = text]
          /\ \/ /\ Moves(p, "replace", "closed")
                /\ text = saves[p].text \/ (fd # "gone" /\ files[f][fd] # Empty[f])
             \/ Moves(p, "unlink", "failed")
  <2>1. saves[p].text \in TextsOf(f)
    BY <1>1, SaveOf DEF ConfigInv, ConfigOK, SavesOf, SettingsSaves, ProviderSaves, TextsOf, Files
  <2> QED
    BY <1>2, <2>1, Scraps DEF WriteTemp, Moves
<1>4. FilesOK' /\ \A g \in Files \ {f} : files'[g] = files[g]
  <2>1. CASE fd = "gone"
    BY <1>3, <2>1 DEF ConfigInv, ConfigOK, FilesOK
  <2>2. CASE fd # "gone"
    BY <1>2, <1>3, <2>2, PutText DEF ConfigInv, ConfigOK
  <2> QED
    BY <2>1, <2>2
<1>5. fd = "temp" => (files'[f].temp = text /\ files'[f].real = files[f].real)
  BY <1>3, PutText DEF ConfigInv, ConfigOK
<1>6. ASSUME NEW step \in {"replace", "unlink"}, NEW end \in {"closed", "failed"},
             Moves(p, step, end)
      PROVE  /\ SavesOK' /\ saves'[p].step = step /\ saves'[p].fd = end
             /\ saves'[p].file = f /\ saves'[p].text = saves[p].text
             /\ saves'[p].presets = saves[p].presets /\ saves'[p].keys = saves[p].keys
            /\ saves'[p].saved = saves[p].saved
             /\ \A q \in Programs \ {p} : saves'[q] = saves[q]
  <2>1. SavesOK /\ step \in SaveSteps /\ end \in Fds /\ step # "write"
    BY DEF ConfigInv, ConfigOK, SaveSteps, Fds
  <2> QED
    BY <1>1, <1>6, <2>1, SetSave
<1>7. SavesOK' /\ saves'[p].file = f /\ \A q \in Programs \ {p} : saves'[q] = saves[q]
  BY <1>3, <1>6
<1>8. ConfigOK'
  BY <1>1, <1>4, <1>7 DEF ConfigInv, ConfigOK, HistoryOK
<1>9. ASSUME OnItsWay(f, saves[p], files[f], kept.presets, kept.keys, kept.saved)
      PROVE  /\ fd = "temp"
             /\ OnItsWay(f, saves'[p], files'[f], kept'.presets, kept'.keys, kept'.saved)
  <2>1. /\ fd = "temp" /\ files[f].temp = Empty[f]
        /\ Has(f, saves[p].text, kept.presets \union saves[p].presets, kept.keys \union saves[p].keys,
                   kept.saved \union saves[p].saved)
    BY <1>1, <1>2, <1>9 DEF OnItsWay
  <2>2. CASE Moves(p, "unlink", "failed")
    BY <1>6, <2>1, <2>2 DEF OnItsWay
  <2>3. CASE Moves(p, "replace", "closed") /\ text = saves[p].text
    BY <1>1, <1>5, <1>6, <2>1, <2>3 DEF OnItsWay
  <2> QED
    BY <1>3, <2>1, <2>2, <2>3
<1>10. Local(p, f)
  BY <1>1, <1>4, <1>7 DEF Local
<1>11. Carried(p, f)
  BY <1>1, <1>5, <1>9 DEF Carried
<1> QED
  BY <1>1, <1>8, <1>10, <1>11, SoleSaver

\* The temporary takes the place of the file, and with it what it has.
LEMMA Replaced ==
    ASSUME ConfigInv, NEW p \in Programs, NEW f \in Files, ReplaceReal(p, f)
    PROVE  ConfigInv'
<1>0. PICK others : others = Follow(f, [temp |-> "real", real |-> "gone"])
  OBVIOUS
<1>1. SavedBy(p, f) /\ saves[p].step = "replace" /\ UNCHANGED <<spoiled, kept>>
  BY DEF ReplaceReal, Stepping
<1>2. CASE Moves(p, "unlink", "failed") /\ UNCHANGED files
  <2>1. /\ SavesOK' /\ saves'[p].step = "unlink" /\ saves'[p].fd = "failed"
        /\ saves'[p].file = f /\ \A q \in Programs \ {p} : saves'[q] = saves[q]
    <3>1. SavesOK /\ "unlink" \in SaveSteps /\ "failed" \in Fds
      BY DEF ConfigInv, ConfigOK, SaveSteps, Fds
    <3> QED
      BY <1>1, <1>2, <3>1, SetSave
  <2>2. ConfigOK'
    BY <1>1, <1>2, <2>1 DEF ConfigInv, ConfigOK, HistoryOK, FilesOK
  <2>3. OnItsWay(f, saves'[p], files'[f], kept'.presets, kept'.keys, kept'.saved)
    BY <2>1 DEF OnItsWay
  <2>4. Local(p, f)
    BY <1>1, <1>2, <2>1 DEF Local
  <2>5. Carried(p, f)
    BY <1>1, <1>2, <2>3 DEF Carried
  <2> QED
    BY <1>1, <2>2, <2>4, <2>5, SoleSaver
<1>3. CASE /\ files[f].temp # None
           /\ files' = [files EXCEPT ![f] = [real |-> files[f].temp, temp |-> None]]
           /\ \/ saves' = [others EXCEPT ![p].step = "unlink"]
              \/ saves' = [others EXCEPT ![p].step = "unlink", ![p].fd = "failed"]
  <2>1. /\ others \in [Programs -> {Idle} \union SettingsSaves \union ProviderSaves]
        /\ \A q \in Programs : /\ others[q].step = saves[q].step
                               /\ SavedBy(q, f) => others[q].file = f
                               /\ SavedBy(q, f) \/ others[q] = saves[q]
                               /\ saves[q].fd = "closed" => others[q] = saves[q]
                               /\ saves[q].step = "write" => others[q].fd \in {"temp", "real", "gone"}
    BY <1>0, Followed DEF ConfigInv, ConfigOK
  <2>2. PICK mine : mine = others[p]
    OBVIOUS
  <2>3. mine \in SavesOf(f)
    BY <1>1, <2>1, <2>2 DEF SavedBy, Busy, Idle, SavesOf, SettingsSaves, ProviderSaves, Files
  <2>4. PICK fd \in {mine.fd, "failed"} :
            /\ saves' = [others EXCEPT ![p] = [mine EXCEPT !.step = "unlink", !.fd = fd]]
    <3>1. CASE saves' = [others EXCEPT ![p].step = "unlink"]
      <4>1. saves' = [others EXCEPT ![p] = [mine EXCEPT !.step = "unlink", !.fd = mine.fd]]
        BY <2>1, <2>2, <2>3, <3>1 DEF SavesOf, SettingsSaves, ProviderSaves
      <4> QED
        BY <4>1
    <3>2. CASE saves' = [others EXCEPT ![p].step = "unlink", ![p].fd = "failed"]
      <4>1. saves' = [others EXCEPT ![p] = [mine EXCEPT !.step = "unlink", !.fd = "failed"]]
        BY <2>1, <2>2, <2>3, <3>2 DEF SavesOf, SettingsSaves, ProviderSaves
      <4> QED
        BY <4>1
    <3> QED
      BY <1>3, <3>1, <3>2
  <2>5. PICK save : save = [mine EXCEPT !.step = "unlink", !.fd = fd]
    OBVIOUS
  <2>6. /\ save \in SavesOf(f) /\ save.step = "unlink" /\ save.fd = fd /\ save.file = f
        /\ save.presets = mine.presets /\ save.keys = mine.keys /\ save.saved = mine.saved
    BY <2>3, <2>4, <2>5 DEF SavesOf, SettingsSaves, ProviderSaves, SaveSteps, Fds, Files
  <2>7. saves'[p] = save /\ \A q \in Programs \ {p} : saves'[q] = others[q]
    BY <2>1, <2>4, <2>5
  <2>8. SavesOK'
    <3>1. save \in SettingsSaves \union ProviderSaves
      BY <2>6 DEF SavesOf
    <3>2. saves' \in [Programs -> {Idle} \union SettingsSaves \union ProviderSaves]
      BY <2>1, <2>4, <2>5, <3>1
    <3> QED
      BY <2>1, <2>6, <2>7, <3>2 DEF SavesOK
  <2>9. FilesOK' /\ files'[f].real = files[f].temp /\ \A g \in Files \ {f} : files'[g] = files[g]
    BY <1>3 DEF ConfigInv, ConfigOK, FilesOK
  <2>10. ConfigOK'
    BY <1>1, <2>8, <2>9 DEF ConfigInv, ConfigOK, HistoryOK
  <2>11. \A q \in Programs \ {p} : \/ saves'[q] = saves[q]
                                   \/ SavedBy(q, f) /\ saves'[q].step = saves[q].step /\ saves'[q].file = f
    BY <2>1, <2>7
  <2>12. ASSUME OnItsWay(f, saves[p], files[f], kept.presets, kept.keys, kept.saved)
         PROVE  /\ Has(f, files'[f].real, kept'.presets, kept'.keys, kept'.saved)
                /\ OnItsWay(f, saves'[p], files'[f], kept'.presets, kept'.keys, kept'.saved)
    <3>1. /\ saves[p].fd = "closed" /\ files[f].temp = saves[p].text
          /\ Has(f, saves[p].text, kept.presets \union saves[p].presets, kept.keys \union saves[p].keys,
                   kept.saved \union saves[p].saved)
      BY <1>1, <2>12 DEF OnItsWay
    <3>2. mine = saves[p]
      BY <2>1, <2>2, <3>1
    <3>3. Has(f, files'[f].real, kept'.presets \union save.presets, kept'.keys \union save.keys,
            kept'.saved \union save.saved)
      BY <1>1, <2>6, <2>9, <3>1, <3>2
    <3>4. Has(f, files'[f].real, kept'.presets, kept'.keys, kept'.saved)
      BY <3>3, HasLess
    <3>5. fd = "closed" \/ fd = "failed"
      BY <2>4, <3>1, <3>2
    <3> QED
      BY <2>6, <2>7, <3>3, <3>4, <3>5 DEF OnItsWay
  <2>13. Local(p, f)
    BY <1>1, <2>6, <2>7, <2>9, <2>11 DEF Local
  <2>14. Carried(p, f)
    BY <2>12 DEF Carried
  <2> QED
    BY <1>1, <2>10, <2>13, <2>14, SoleSaver
<1> QED
  BY <1>0, <1>2, <1>3 DEF ReplaceReal, Moves

\* The save ends; what it wrote is kept from now on.
LEMMA Unlinked ==
    ASSUME ConfigInv, NEW p \in Programs, NEW f \in Files, UnlinkTemp(p, f)
    PROVE  ConfigInv'
<1>0. PICK others : others = Follow(f, [temp |-> "gone"])
  OBVIOUS
<1>1. /\ SavedBy(p, f) /\ saves[p].step = "unlink" /\ UNCHANGED spoiled
      /\ files' = [files EXCEPT ![f]["temp"] = None]
      /\ saves' = [others EXCEPT ![p] = Idle]
      /\ kept' = IF saves[p].fd = "failed" THEN kept
                 ELSE [presets |-> kept.presets \union saves[p].presets,
                       keys |-> kept.keys \union saves[p].keys,
                       saved |-> kept.saved \union saves[p].saved]
  BY <1>0 DEF UnlinkTemp, Stepping
<1>2. FilesOK' /\ files'[f].real = files[f].real /\ \A g \in Files \ {f} : files'[g] = files[g]
  BY <1>1, PutText DEF ConfigInv, ConfigOK
<1>3. /\ others \in [Programs -> {Idle} \union SettingsSaves \union ProviderSaves]
      /\ \A q \in Programs : /\ others[q].step = saves[q].step
                             /\ SavedBy(q, f) => others[q].file = f
                             /\ SavedBy(q, f) \/ others[q] = saves[q]
                             /\ saves[q].step = "write" => others[q].fd \in {"temp", "real", "gone"}
  <2>1. PICK moved : moved = [temp |-> "gone"]
    OBVIOUS
  <2> QED
    BY <1>0, <2>1, Followed DEF ConfigInv, ConfigOK
<1>4. saves'[p] = Idle /\ \A q \in Programs \ {p} : saves'[q] = others[q]
  BY <1>1, <1>3
<1>5. SavesOK'
  <2>1. saves' \in [Programs -> {Idle} \union SettingsSaves \union ProviderSaves]
    BY <1>1, <1>3
  <2> QED
    BY <1>3, <1>4, <2>1 DEF SavesOK, Idle
<1>6. saves[p] \in SavesOf(f)
  BY <1>1, SaveOf DEF ConfigInv, ConfigOK
<1>7. /\ saves[p].presets \in SUBSET Presets /\ saves[p].keys \in SUBSET Profiles
      /\ saves[p].saved \in SUBSET Profiles
      /\ f = "settings" => saves[p].keys = {} /\ saves[p].saved = {}
      /\ f = "llm" => saves[p].presets = {}
  BY <1>6 DEF SavesOf, SettingsSaves, ProviderSaves
<1>8. /\ HistoryOK'
      /\ f = "settings" => kept'.keys = kept.keys /\ kept'.saved = kept.saved
      /\ f = "llm" => kept'.presets = kept.presets
  BY <1>1, <1>7 DEF ConfigInv, ConfigOK, HistoryOK
<1>9. ConfigOK'
  BY <1>2, <1>5, <1>8 DEF ConfigOK
<1>10. \A q \in Programs \ {p} : \/ saves'[q] = saves[q]
                                 \/ SavedBy(q, f) /\ saves'[q].step = saves[q].step /\ saves'[q].file = f
  BY <1>3, <1>4
<1>11. ASSUME OnItsWay(f, saves[p], files[f], kept.presets, kept.keys, kept.saved),
              Has(f, files[f].real, kept.presets, kept.keys, kept.saved)
       PROVE  Has(f, files'[f].real, kept'.presets, kept'.keys, kept'.saved)
  <2>1. CASE saves[p].fd = "failed"
    BY <1>1, <1>2, <1>11, <2>1
  <2>2. CASE saves[p].fd # "failed"
    BY <1>1, <1>2, <1>11, <2>2 DEF OnItsWay
  <2> QED
    BY <2>1, <2>2
<1>12. Local(p, f)
  BY <1>1, <1>2, <1>4, <1>8, <1>10 DEF Local
<1>13. Carried(p, f)
  BY <1>4, <1>11 DEF Carried
<1> QED
  BY <1>1, <1>9, <1>12, <1>13, SoleSaver

\* A program that dies leaves the files as they are.
LEMMA Died ==
    ASSUME ConfigInv, NEW p \in Programs, ProgramDies(p)
    PROVE  ConfigInv'
<1>1. Busy(p) /\ saves' = [saves EXCEPT ![p] = Idle] /\ UNCHANGED <<spoiled, kept, files>>
  BY DEF ProgramDies
<1>2. saves'[p] = Idle /\ \A q \in Programs \ {p} : saves'[q] = saves[q]
  BY <1>1 DEF ConfigInv, ConfigOK, SavesOK
<1>3. SavesOK'
  <2>1. saves' \in [Programs -> {Idle} \union SettingsSaves \union ProviderSaves]
    BY <1>1 DEF ConfigInv, ConfigOK, SavesOK
  <2> QED
    BY <1>2, <2>1 DEF ConfigInv, ConfigOK, SavesOK, Idle
<1>4. ConfigOK'
  BY <1>1, <1>3 DEF ConfigInv, ConfigOK, FilesOK, HistoryOK
<1>5. PICK f \in Files : SavedBy(p, f)
  BY <1>1 DEF ConfigInv, ConfigOK, SavesOK, SavedBy, Busy, Idle, SettingsSaves, ProviderSaves, Files
<1>6. Local(p, f) /\ Carried(p, f)
  BY <1>1, <1>2 DEF Local, Carried
<1> QED
  BY <1>4, <1>5, <1>6, SoleSaver

\* An edit by hand that breaks a file is one of the exceptions.
LEMMA Edited ==
    ASSUME ConfigInv, NEW f \in Files, EditByHand(f)
    PROVE  ConfigInv'
<1>1. /\ files[f].real # None /\ UNCHANGED <<saves, kept>> /\ spoiled' = [spoiled EXCEPT ![f] = TRUE]
      /\ \E fault \in IF f = "llm" THEN {"root"} ELSE SettingsFaults :
            files' = [files EXCEPT ![f].real.fault = fault]
  BY DEF EditByHand
<1>2. PICK fault \in IF f = "llm" THEN {"root"} ELSE SettingsFaults :
          files' = [files EXCEPT ![f].real.fault = fault]
  BY <1>1
<1>3. files[f].real \in TextsOf(f)
  BY <1>1 DEF ConfigInv, ConfigOK, FilesOK
<1>4. PICK text : text = [files[f].real EXCEPT !.fault = fault]
  OBVIOUS
<1>5. text \in TextsOf(f)
  BY <1>2, <1>3, <1>4 DEF TextsOf, SettingsTexts, SettingsFaults, ProviderTexts, Files
<1>6. files' = [files EXCEPT ![f]["real"] = text]
  BY <1>2, <1>4 DEF ConfigInv, ConfigOK, FilesOK
<1>7. FilesOK' /\ \A g \in Files \ {f} : files'[g] = files[g]
  BY <1>5, <1>6, PutText DEF ConfigInv, ConfigOK
<1>8. HistoryOK' /\ spoiled'[f] /\ \A g \in Files \ {f} : spoiled'[g] = spoiled[g]
  BY <1>1 DEF ConfigInv, ConfigOK, HistoryOK
<1>9. ConfigOK'
  BY <1>1, <1>7, <1>8 DEF ConfigInv, ConfigOK, SavesOK
<1>10. ASSUME NEW g \in Files \ {f} PROVE FileInv(g)'
  BY <1>1, <1>7, <1>8, <1>10 DEF ConfigInv, FileInv, SavedBy, Busy
<1> QED
  BY <1>8, <1>9, <1>10 DEF ConfigInv, FileInv

\* Every step keeps the configuration files so.
LEMMA ConfigKept == ConfigInv /\ [NextPages]_pagesVars => ConfigInv'
<1> SUFFICES ASSUME ConfigInv, [NextPages]_pagesVars PROVE ConfigInv'
  OBVIOUS
<1>1. CASE UNCHANGED configVars
  BY <1>1 DEF configVars, ConfigInv, ConfigOK, FilesOK, SavesOK, HistoryOK, FileInv, SavedBy, Busy
<1>2. CASE ConfigStep
  <2>1. CASE ConfigUser
    BY <2>1, LocaleSaved, PresetSaved, PresetDeleted, ProviderSaved, Edited DEF ConfigUser
  <2>2. CASE ConfigPrograms
    <3>1. PICK p \in Programs : SaveStep(p)
      BY <2>2 DEF ConfigPrograms
    <3>2. PICK f \in Files : OpenTemp(p, f) \/ WriteTemp(p, f) \/ ReplaceReal(p, f) \/ UnlinkTemp(p, f)
      BY <3>1 DEF SaveStep
    <3> QED
      BY <3>1, <3>2, Opened, TextWritten, Replaced, Unlinked
  <2>3. CASE ConfigElsewhere
    BY <2>3, Died DEF ConfigElsewhere
  <2> QED
    BY <1>2, <2>1, <2>2, <2>3 DEF ConfigStep
<1> QED
  BY <1>1, <1>2 DEF NextPages, CreateStep, JobStep, DiagnosticsStep, notCreate, notJobs, notDiagnostics, pagesVars

\* A file that is neither edited nor saved twice has what is kept.
LEMMA KeptInFiles == ConfigInv /\ WorkInv => SavedKept
<1> SUFFICES ASSUME ConfigInv, WorkInv PROVE SavedKept
  OBVIOUS
<1>1. FileInv("settings") /\ FileInv("llm")
  BY DEF ConfigInv, Files
<1> QED
  BY <1>1 DEF FileInv, Has, SavedKept, WorkInv

\* Readers of one and the same text agree on the default profile.
LEMMA TextAgrees ==
    ASSUME NEW text \in ProviderTexts \union {None}
    PROVE  \/ \A envKey \in BOOLEAN :
                  CredentialShown(text, envKey) \in {"config", "environment"} <=> Accepted(text, "default", envKey)
           \/ Readable(text) /\ ~Tables(text)
           \/ /\ text.providers["default"].made = "hand"
              /\ \/ text.providers["default"].form \in {"no kind", "blanks"}
                 \/ text.providers["default"].key = "number"
<1>1. CASE ~Readable(text) \/ text.providers["default"] = None
  <2>1. LoadProviders(text)["default"] = None
    BY <1>1, ConfigAssumption DEF LoadProviders, NoProviders, Tables
  <2> QED
    BY <1>1, <2>1 DEF CredentialShown, Accepted
<1>2. CASE Readable(text) /\ text.providers["default"] # None
  <2>1. PICK provider : provider = text.providers["default"]
    OBVIOUS
  <2>2. provider \in Providers
    BY <1>2, <2>1, ConfigAssumption DEF ProviderTexts, Readable
  <2>3. PICK made \in {"hand", "page"}, shape \in {"full", "no kind", "blanks", "refused", "no table"},
             key \in {"none", "text", "number"} :
            /\ provider = [made |-> made, form |-> shape, key |-> key]
            /\ made = "page" => shape = "full" /\ key # "number"
    BY <2>2 DEF Providers, HandMade, NoTable, Provider
  <2>4. provider.made = made /\ provider.form = shape /\ provider.key = key
    BY <2>3
  <2>5. \A envKey : Accepted(text, "default", envKey) <=>
                      shape \in {"full", "blanks"} /\ (key = "text" \/ (key = "none" /\ envKey))
    BY <1>2, <2>1, <2>4 DEF Accepted
  <2>6. CASE Tables(text)
    <3>1. LoadProviders(text)["default"] = provider
      BY <2>1, <2>6 DEF LoadProviders
    <3>2. \A envKey : CredentialShown(text, envKey) =
                        CASE shape \in {"full", "no kind"} /\ key = "text" -> "config"
                          [] shape \in {"full", "no kind"} /\ key # "text" -> IF envKey THEN "environment" ELSE "missing"
                          [] OTHER -> "issue"
      BY <1>2, <2>1, <2>4, <2>6, <3>1 DEF CredentialShown, Readable
    <3> QED
      BY <2>1, <2>3, <2>4, <2>5, <3>2
  <2> QED
    BY <1>2, <2>6
<1> QED
  BY <1>1, <1>2

\* They agree on a profile the page saved, key or no key.
LEMMA SavedAgrees ==
    ASSUME NEW text \in ProviderTexts \union {None}, NEW profile \in Profiles,
           FromPage(LoadProviders(text)[profile]), NEW envKey \in BOOLEAN
    PROVE  /\ Accepted(text, profile, envKey) <=> envKey \/ text.providers[profile].key = "text"
           /\ profile = "default" =>
                  (CredentialShown(text, envKey) \in {"config", "environment"} <=> Accepted(text, profile, envKey))
<1>1. Tables(text) /\ LoadProviders(text)[profile] = text.providers[profile]
  BY DEF FromPage, LoadProviders, NoProviders
<1>2. PICK provider : provider = text.providers[profile]
  OBVIOUS
<1>3. /\ provider # None /\ provider.form = "full" /\ provider.key \in {"none", "text"}
      /\ Readable(text)
  BY <1>1, <1>2 DEF FromPage, Tables
<1>4. Accepted(text, profile, envKey) <=> envKey \/ provider.key = "text"
  BY <1>2, <1>3 DEF Accepted
<1>5. profile = "default" => CredentialShown(text, envKey) =
          IF provider.key = "text" THEN "config" ELSE IF envKey THEN "environment" ELSE "missing"
  BY <1>1, <1>2, <1>3 DEF CredentialShown
<1> QED
  BY <1>2, <1>4, <1>5

\* The readers of both files agree, and what the page saved a pipeline accepts.
LEMMA TextsAgree == ConfigInv => ReadersAgree
<1> SUFFICES ASSUME ConfigInv PROVE ReadersAgree
  OBVIOUS
<1>1. PICK text \in ProviderTexts \union {None} : text = files["llm"].real
  BY DEF ConfigInv, ConfigOK, FilesOK, Files, TextsOf
<1>2. ASSUME ~spoiled["llm"], NEW profile \in kept.saved
      PROVE  profile \in Profiles /\ FromPage(LoadProviders(text)[profile])
  BY <1>1, <1>2 DEF ConfigInv, ConfigOK, HistoryOK, FileInv, Has, Files
<1>3. ASSUME ~spoiled["llm"]
      PROVE  /\ \A profile \in kept.saved, envKey \in BOOLEAN :
                    Accepted(text, profile, envKey) <=> envKey \/ text.providers[profile].key = "text"
             /\ "default" \in kept.saved => \A envKey \in BOOLEAN :
                    CredentialShown(text, envKey) \in {"config", "environment"} <=> Accepted(text, "default", envKey)
  BY <1>2, <1>3, SavedAgrees
<1>4. files["settings"].real \in SettingsTexts \union {None}
  BY DEF ConfigInv, ConfigOK, FilesOK, Files, TextsOf
<1>5. \/ StartupLocale(files["settings"].real) = LoadSettings(files["settings"].real).locale
      \/ files["settings"].real.fault \in {"deep", "array"}
  BY <1>4 DEF StartupLocale, LoadSettings, SettingsText, SettingsTexts, SettingsFaults, Readable
<1>6. \/ \A envKey \in BOOLEAN :
             CredentialShown(text, envKey) \in {"config", "environment"} <=> Accepted(text, "default", envKey)
      \/ Readable(text) /\ ~Tables(text)
      \/ /\ text.providers["default"].made = "hand"
         /\ text.providers["default"].form \in {"no kind", "blanks"} \/ text.providers["default"].key = "number"
  BY TextAgrees
<1> QED
  BY <1>1, <1>3, <1>5, <1>6 DEF ReadersAgree

-----------------------------------------------------------------------------
(* The pages                                                                *)

\* Whatever the user does and whatever fails, the draft the page submits is the
\* one it shows, but for the named exceptions.
THEOREM DraftsCurrent == SpecPages => []DraftCurrent
<1>1. InitPages => DraftInv /\ WorkInv
  BY InitDraft, InitWork
<1>2. (DraftInv /\ WorkInv) /\ [NextPages]_pagesVars => (DraftInv /\ WorkInv)'
  BY DraftStep, WorkStep
<1>3. DraftInv => DraftCurrent
  BY DEF DraftInv
<1> QED
  BY <1>1, <1>2, <1>3, PTL DEF SpecPages

\* With no detail under way the commands of the panel go to the selected job.
THEOREM PanelOnTarget == SpecPages => []PanelIsTarget
<1>1. InitPages => PanelInv /\ WorkInv
  BY InitPanel, InitWork
<1>2. (PanelInv /\ WorkInv) /\ [NextPages]_pagesVars => (PanelInv /\ WorkInv)'
  BY PanelStep, WorkStep
<1>3. PanelInv => PanelIsTarget
  BY DEF PanelInv
<1> QED
  BY <1>1, <1>2, <1>3, PTL DEF SpecPages

\* What an acknowledged save wrote stays in its file, and an export takes the
\* place of no other program's file unasked, but for the named exceptions.
THEOREM SavesKept == SpecPages => []SavedKept
<1>1. InitPages => ConfigInv /\ WorkInv
  BY FirstConfig, InitWork
<1>2. (ConfigInv /\ WorkInv) /\ [NextPages]_pagesVars => (ConfigInv /\ WorkInv)'
  BY ConfigKept, WorkStep
<1> QED
  BY <1>1, <1>2, KeptInFiles, PTL DEF SpecPages

\* What the page saved and acknowledged a pipeline accepts as the page shows it,
\* whatever fails or dies later, and on any other file their readers agree, torn
\* texts included, but for the named exceptions.
THEOREM ReadersInAgreement == SpecPages => []ReadersAgree
<1>1. InitPages => ConfigInv
  BY FirstConfig
<1>2. ConfigInv /\ [NextPages]_pagesVars => ConfigInv'
  BY ConfigKept
<1>3. ConfigInv => ReadersAgree
  BY TextsAgree
<1> QED
  BY <1>1, <1>2, <1>3, PTL DEF SpecPages
=============================================================================
