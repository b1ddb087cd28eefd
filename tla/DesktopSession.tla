----------------------------- MODULE DesktopSession -----------------------------
(***************************************************************************)
(* The desktop program around the coordinator: the window's thread, the    *)
(* Application runner's thread behind a queue of requests, and the pool    *)
(* thread.  The subject is the end of the session: closing the window with *)
(* work scheduled, cancelling it, and shutting down, while commands and    *)
(* results are under way.                                                  *)
(*                                                                         *)
(* A batch is "absent", "open" (a job is not terminal) or "over"; how it   *)
(* runs is BatchService's subject.                                         *)
(***************************************************************************)
EXTENDS ExecutionCoordinator, Naturals

CONSTANT MaxActs    \* bounds the user's submits, starts, cancels and closes

ASSUME MaxActsAssumption == MaxActs \in Nat

VARIABLES
    \* the disk
    life,           \* what the journal of each batch amounts to
    marked,         \* the batches with a cancel-batch marker
    \* the runner's thread
    inbox,          \* the queued requests of the window
    worker,         \* the request in hand, and its local variables
    reported,       \* _last_execution_state
    \* the window's thread
    outbox,         \* the queued signals of the runner
    window,         \* "open", "dialog" (the question of closeEvent) or "closed"
    stopping,       \* in the wait of stop
    shown,          \* has_local_work, of the last state received
    closeWhenIdle,  \* _close_when_idle
    waitingFor,     \* _command_busy, _submission_busy
    cancelAll,      \* CancelLocalWork: "no", "pending" or "in flight"
    \* history
    acts,           \* how often the user gave a command or closed the window
    late            \* a stop gave up while its shutdown was still to be handled

disk == <<life, marked>>
runner == <<inbox, worker, reported>>
ui == <<outbox, window, stopping, shown, closeWhenIdle, waitingFor, cancelAll>>
history == <<acts, late>>
vars == <<coordinator, disk, runner, ui, history>>

Lives == {"absent", "open", "over"}
Commands == {"submit", "start", "cancel"}
Requests == [kind : Commands, batch : Batches]
              \union [kind : {"cancel all", "shutdown"}, batch : {NoBatch}]
Signals == [kind : {"busy", "idle", "submit done", "command done", "cancel all done", "cancel all failed"}]

\* worker.step: "ready" between requests; "cancel", then "mark" or "settle", in
\* _cancel_batch; "sweep" in cancel_local_work; "shutdown"; "gone".  queue and
\* active are the latter's snapshot, or active the batch in hand.
Worker == [step : {"ready", "cancel", "mark", "settle", "sweep", "shutdown", "gone"},
           queue : Seq(Batches), active : Batches \union {NoBatch}, snapshot : SUBSET Batches]
Hand(step, q, a, snapshot) == [step |-> step, queue |-> q, active |-> a, snapshot |-> snapshot]
Ready == Hand("ready", <<>>, NoBatch, {})
Gone == Hand("gone", <<>>, NoBatch, {})

Init ==
    /\ CoordinatorInit
    /\ life = [b \in Batches |-> "absent"] /\ marked = {}
    /\ inbox = <<>> /\ worker = Ready /\ reported = <<>>
    /\ outbox = <<>> /\ window = "open" /\ stopping = FALSE /\ shown = FALSE
    /\ closeWhenIdle = FALSE /\ waitingFor = {} /\ cancelAll = "no"
    /\ acts = 0 /\ late = FALSE

-----------------------------------------------------------------------------
(* The pool thread                                                          *)

\* A retry reopens a batch that was over, if it is still valid then.
Start ==
    /\ StartTask
    /\ life' \in {life, [life EXCEPT ![active] = "open"]}
    /\ UNCHANGED <<marked, runner, ui, history>>

\* The operation succeeded, failed, paused, or settled the cancellation it saw.
Finish ==
    /\ PostCompletion
    /\ \/ life' \in {life, [life EXCEPT ![active] = "over"]} /\ UNCHANGED marked
       \/ active \in marked /\ life' = [life EXCEPT ![active] = "over"]
          /\ marked' = marked \ {active}
    /\ UNCHANGED <<runner, ui, history>>

Release == ReleaseTask /\ UNCHANGED <<disk, runner, ui, history>>

\* close_shared_runtime, on the pool thread or in the caller.
Finalize == FinishShutDown /\ UNCHANGED <<disk, runner, ui, history>>

-----------------------------------------------------------------------------
(* The runner's thread                                                      *)

Tell(kind) == outbox' = Append(outbox, [kind |-> kind])

\* The next request is of this kind, and the runner takes it.
Take(kind) ==
    /\ worker.step = "ready" /\ inbox # <<>> /\ Head(inbox).kind = kind
    /\ inbox' = Tail(inbox)

uiButOutbox == <<window, stopping, shown, closeWhenIdle, waitingFor, cancelAll>>

\* submit: create_batch, then schedule, which only a shutdown can refuse.
Submit ==
    /\ Take("submit")
    /\ LET b == Head(inbox).batch IN
       /\ life' = [life EXCEPT ![b] = "open"]
       /\ \/ Schedule(b)
          \/ shutDown /\ UNCHANGED coordinator
    /\ Tell("submit done")
    /\ UNCHANGED <<marked, worker, reported, uiButOutbox, history>>

\* _resume_batch and _retry_job: refused as a conflict, by the preflight, or by
\* a shutdown; scheduled otherwise.  Only this thread schedules, so the
\* conflict check and schedule's own see the same.
StartAgain ==
    /\ Take("start")
    /\ \/ life[Head(inbox).batch] # "absent" /\ Schedule(Head(inbox).batch)
       \/ UNCHANGED coordinator
    /\ Tell("command done")
    /\ UNCHANGED <<disk, worker, reported, uiButOutbox, history>>

\* _cancel_batch, first step: what is queued goes.
CancelBatch ==
    /\ Take("cancel")
    /\ CancelQueued(Head(inbox).batch)
    /\ worker' = Hand("cancel", <<>>, Head(inbox).batch, {})
    /\ UNCHANGED <<disk, reported, ui, history>>

\* still_scheduled is read.
StillScheduled ==
    /\ worker.step = "cancel"
    /\ worker' = [worker EXCEPT !.step = IF worker.active \in Scheduled THEN "mark" ELSE "settle"]
    /\ UNCHANGED <<coordinator, disk, inbox, reported, ui, history>>

\* gateway.request_cancel on a batch that is open: a marker, and for one not
\* scheduled the settlement at once, unless the lease is another's or it fails.
RequestCancel(b, scheduled) ==
    IF scheduled
    THEN marked' = marked \union {b} /\ UNCHANGED life
    ELSE \/ life' = [life EXCEPT ![b] = "over"] /\ marked' = marked \ {b}
         \/ marked' = marked \union {b} /\ UNCHANGED life

\* On a batch that is over it raises batch.cancel_invalid.
CancelRequested ==
    /\ worker.step \in {"mark", "settle"}
    /\ \/ life[worker.active] = "open" /\ RequestCancel(worker.active, worker.step = "mark")
       \/ life[worker.active] # "open" /\ UNCHANGED disk
    /\ Tell("command done")
    /\ worker' = Ready
    /\ UNCHANGED <<coordinator, inbox, reported, uiButOutbox, history>>

\* cancel_local_work: the snapshot it goes by.
CancelLocalWork ==
    /\ Take("cancel all")
    /\ worker' = Hand("sweep", queued, active, Scheduled)
    /\ UNCHANGED <<coordinator, disk, reported, ui, history>>

\* An error ends the command: what comes after in the snapshot is left alone.
SweepFails == Tell("cancel all failed") /\ worker' = Ready

\* A batch that was queued and still is leaves the queue and is cancelled; one
\* that is not any more is passed over.
SweepQueued ==
    /\ worker.step = "sweep" /\ worker.queue # <<>>
    /\ LET b == Head(worker.queue)
           next == [worker EXCEPT !.queue = Tail(@)] IN
       \/ /\ b \notin ToSet(queued)
          /\ worker' = next /\ UNCHANGED <<coordinator, disk, outbox>>
       \/ /\ b \in ToSet(queued) /\ CancelQueued(b)
          /\ \/ life[b] # "open" /\ SweepFails /\ UNCHANGED disk
             \/ /\ life[b] = "open" /\ RequestCancel(b, FALSE)
                /\ \/ worker' = next /\ UNCHANGED outbox
                   \/ life'[b] # "over" /\ SweepFails
    /\ UNCHANGED <<inbox, reported, uiButOutbox, history>>

\* Then the one that was active gets its marker, and the command is accepted.
SweepActive ==
    /\ worker.step = "sweep" /\ worker.queue = <<>>
    /\ \/ worker.active = NoBatch /\ Tell("cancel all done") /\ worker' = Ready /\ UNCHANGED disk
       \/ /\ worker.active # NoBatch
          /\ \/ /\ life[worker.active] = "open" /\ RequestCancel(worker.active, TRUE)
                /\ Tell("cancel all done") /\ worker' = Ready
             \/ life[worker.active] # "open" /\ SweepFails /\ UNCHANGED disk
    /\ UNCHANGED <<coordinator, inbox, reported, uiButOutbox, history>>

\* worker.shutdown on a coordinator with work: the boundary and the polling stay.
ShutdownRefused ==
    /\ Take("shutdown")
    /\ ~shutDown /\ ~MayShutDown
    /\ UNCHANGED <<coordinator, disk, worker, reported, ui, history>>

Shutdown ==
    /\ Take("shutdown")
    /\ BeginShutDown
    /\ worker' = Hand("shutdown", <<>>, NoBatch, {})
    /\ UNCHANGED <<disk, reported, ui, history>>

\* The coordinator was shut down before, with a finalizer that failed.
ShutdownAgain ==
    /\ Take("shutdown")
    /\ shutDown /\ worker' = Gone
    /\ UNCHANGED <<coordinator, disk, reported, ui, history>>

\* The finalizer is done, and the thread with it; or it raised, and the
\* boundary and the polling stay.
ShutdownReturns ==
    /\ worker.step = "shutdown" /\ pool = "ended"
    /\ worker' \in {Gone, Ready}
    /\ UNCHANGED <<coordinator, disk, inbox, reported, ui, history>>

\* Mutant: a state is not sent once there is no work.
Poll_SkipsIdle ==
    /\ worker.step = "ready"
    /\ reported # Snapshot
    /\ reported' = Snapshot
    /\ IF HasWork(Snapshot) THEN Tell("busy") ELSE UNCHANGED outbox
    /\ UNCHANGED <<coordinator, disk, inbox, worker, uiButOutbox, history>>

\* poll_execution, on the runner's timer: a state goes out when it changed.
Poll ==
    /\ worker.step = "ready"
    /\ reported # Snapshot
    /\ reported' = Snapshot
    /\ Tell(IF HasWork(Snapshot) THEN "busy" ELSE "idle")
    /\ UNCHANGED <<coordinator, disk, inbox, worker, uiButOutbox, history>>

-----------------------------------------------------------------------------
(* The window's thread                                                      *)

Ask(kind, b) == inbox' = Append(inbox, [kind |-> kind, batch |-> b])

\* The user can use the window: no question is open, no stop is waited for.
Usable == window = "open" /\ ~stopping

\* _mutation_blocked
MutationBlocked == "command" \in waitingFor \/ cancelAll # "no"

Command(kind, b) ==
    /\ Usable /\ acts < MaxActs
    /\ acts' = acts + 1
    /\ Ask(kind, b)
    /\ UNCHANGED <<coordinator, disk, worker, reported, late>>
    /\ UNCHANGED <<outbox, window, stopping, shown, closeWhenIdle, cancelAll>>

\* CreateController.submit_draft; which new identifier the batch gets is all one.
UserSubmits ==
    /\ "submit" \notin waitingFor
    /\ \E b \in Batches : life[b] = "absent"
    /\ waitingFor' = waitingFor \union {"submit"}
    /\ Command("submit", CHOOSE b \in Batches : life[b] = "absent")

\* JobOperationsController: resume or retry, and cancel.
UserActs(kind, b) ==
    /\ ~MutationBlocked
    /\ life[b] # "absent"
    /\ waitingFor' = waitingFor \union {"command"}
    /\ Command(kind, b)

\* queue.stop, from closeEvent: the shutdown is posted and the thread waited for.
Stop == Ask("shutdown", NoBatch) /\ stopping' = TRUE

\* closeEvent
UserCloses ==
    /\ Usable /\ acts < MaxActs
    /\ acts' = acts + 1
    /\ \/ shown /\ window' = "dialog" /\ UNCHANGED <<inbox, stopping>>
       \/ ~shown /\ Stop /\ UNCHANGED window
    /\ UNCHANGED <<coordinator, disk, worker, reported, late>>
    /\ UNCHANGED <<outbox, shown, closeWhenIdle, waitingFor, cancelAll>>

KeepOpen ==
    /\ window = "dialog" /\ ~stopping
    /\ window' = "open"
    /\ UNCHANGED <<coordinator, disk, runner, history>>
    /\ UNCHANGED <<outbox, stopping, shown, closeWhenIdle, waitingFor, cancelAll>>

\* cancel_all_local_work: at once, or after the command that is under way.
CancelAndClose ==
    /\ window = "dialog" /\ ~stopping
    /\ window' = "open" /\ closeWhenIdle' = TRUE
    /\ \/ cancelAll # "no" /\ UNCHANGED <<cancelAll, inbox>>
       \/ /\ cancelAll = "no" /\ "command" \in waitingFor
          /\ cancelAll' = "pending" /\ UNCHANGED inbox
       \/ /\ cancelAll = "no" /\ "command" \notin waitingFor
          /\ cancelAll' = "in flight" /\ Ask("cancel all", NoBatch)
    /\ UNCHANGED <<coordinator, disk, worker, reported, history>>
    /\ UNCHANGED <<outbox, stopping, shown, waitingFor>>

\* The window's event loop takes a signal; so does the question's, but not the
\* wait of stop.
Receive(kind) ==
    /\ window # "closed" /\ ~stopping
    /\ outbox # <<>> /\ Head(outbox).kind = kind
    /\ outbox' = Tail(outbox)
    /\ UNCHANGED <<coordinator, disk, worker, reported, history>>

\* _on_execution_state: the window closes once idle, if that was asked.
ReceiveState ==
    \/ /\ Receive("busy")
       /\ shown' = TRUE
       /\ UNCHANGED <<inbox, window, stopping, closeWhenIdle, waitingFor, cancelAll>>
    \/ /\ Receive("idle")
       /\ shown' = FALSE /\ closeWhenIdle' = FALSE
       /\ \/ closeWhenIdle /\ Stop
          \/ ~closeWhenIdle /\ UNCHANGED <<inbox, stopping>>
       /\ UNCHANGED <<window, waitingFor, cancelAll>>

\* CreateController's answer.
ReceiveSubmitted ==
    /\ Receive("submit done")
    /\ waitingFor' = waitingFor \ {"submit"}
    /\ UNCHANGED <<inbox, window, stopping, shown, closeWhenIdle, cancelAll>>

\* JobOperationsController's answer, or its failure: a pending cancel-all goes out now.
ReceiveAnswer ==
    /\ Receive("command done")
    /\ waitingFor' = waitingFor \ {"command"}
    /\ \/ cancelAll = "pending" /\ cancelAll' = "in flight" /\ Ask("cancel all", NoBatch)
       \/ cancelAll # "pending" /\ UNCHANGED <<cancelAll, inbox>>
    /\ UNCHANGED <<window, stopping, shown, closeWhenIdle>>

\* The answer to the cancel-all; its failure takes back the intent to close.
ReceiveCancelled ==
    /\ \/ Receive("cancel all done") /\ UNCHANGED closeWhenIdle
       \/ Receive("cancel all failed") /\ closeWhenIdle' = FALSE
    /\ cancelAll' = "no"
    /\ UNCHANGED <<inbox, window, stopping, shown, waitingFor>>

\* The runner's thread ended: the window closes.
Stopped ==
    /\ stopping /\ worker.step = "gone"
    /\ stopping' = FALSE /\ window' = "closed"
    /\ UNCHANGED <<coordinator, disk, runner, history>>
    /\ UNCHANGED <<outbox, shown, closeWhenIdle, waitingFor, cancelAll>>

\* Five seconds passed: "Shutdown failed; window remains open."
StopTimeout ==
    /\ stopping /\ worker.step # "gone"
    /\ stopping' = FALSE
    /\ late' = (late \/ worker.step = "shutdown" \/ \E i \in DOMAIN inbox : inbox[i].kind = "shutdown")
    /\ UNCHANGED <<coordinator, disk, runner, acts>>
    /\ UNCHANGED <<outbox, window, shown, closeWhenIdle, waitingFor, cancelAll>>

-----------------------------------------------------------------------------
PoolStep == Start \/ Finish \/ Release \/ Finalize

WorkerStep ==
    \/ Submit \/ StartAgain \/ CancelBatch \/ StillScheduled \/ CancelRequested
    \/ CancelLocalWork \/ SweepQueued \/ SweepActive
    \/ ShutdownRefused \/ Shutdown \/ ShutdownAgain \/ ShutdownReturns

Receives == ReceiveState \/ ReceiveSubmitted \/ ReceiveAnswer \/ ReceiveCancelled

UserStep ==
    \/ UserSubmits
    \/ \E b \in Batches : UserActs("start", b) \/ UserActs("cancel", b)
    \/ UserCloses \/ KeepOpen \/ CancelAndClose

Next == PoolStep \/ WorkerStep \/ Poll \/ Receives \/ Stopped \/ StopTimeout \/ UserStep

\* The threads run and an operation ends; the timer fires between requests,
\* however many there are (strong fairness); the user need not act.
Fairness ==
    /\ WF_vars(Start) /\ WF_vars(Finish) /\ WF_vars(Release) /\ WF_vars(Finalize)
    /\ WF_vars(WorkerStep) /\ SF_vars(Poll)
    /\ WF_vars(Receives) /\ WF_vars(Stopped \/ StopTimeout)

Spec == Init /\ [][Next]_vars /\ Fairness

-----------------------------------------------------------------------------
(* Properties                                                               *)

RunnerOK ==
    /\ life \in [Batches -> Lives] /\ marked \subseteq Batches
    /\ inbox \in Seq(Requests) /\ worker \in Worker

WindowOK ==
    /\ outbox \in Seq(Signals) /\ window \in {"open", "dialog", "closed"}
    /\ stopping \in BOOLEAN /\ shown \in BOOLEAN /\ closeWhenIdle \in BOOLEAN
    /\ waitingFor \subseteq {"submit", "command"}
    /\ cancelAll \in {"no", "pending", "in flight"}
    /\ acts \in 0..MaxActs /\ late \in BOOLEAN

\* The types, and what _pump_unlocked and schedule go by: a task is active as
\* long as the pool thread has one, and none waits behind no task.
TypeOK == CoordinatorOK /\ RunnerOK /\ WindowOK

\* The coordinator keeps its promise among these threads: one batch at a time,
\* in the order they were scheduled, none lost, none stranded.
ImplementsLine == Line!Spec

\* "Active local work is cancelled before GUI shutdown; no tray/background
\* continuation." (docs/phase5_decision_record.md)  When the window is closed,
\* nothing is scheduled, running or about to be.
ClosedIsIdle == window = "closed" => Scheduled = {} /\ pool = "ended"

\* "Cancel work and close" comes to an end, the window closed or the failure
\* shown.  Two exceptions, named: a late shutdown, after which no state comes; and
\* work that became idle while the question was open, after which there
\* is no change of state to close upon, and the window stays.
CloseSettles == (closeWhenIdle /\ shown /\ ~late) ~> (~closeWhenIdle \/ late)

=============================================================================
