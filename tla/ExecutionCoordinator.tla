-------------------------- MODULE ExecutionCoordinator --------------------------
(***************************************************************************)
(* SerialExecutionCoordinator: one pool thread runs the scheduled batches, *)
(* in order.  Every operation below holds the coordinator's lock, but the  *)
(* three steps of the pool thread are apart: between two of them anybody   *)
(* may schedule, cancel, look or shut down.  A task is its batch, of which *)
(* no two are scheduled at once.                                           *)
(***************************************************************************)
EXTENDS Sequences, SequencesExt, FiniteSets

CONSTANTS Batches, NoBatch

ASSUME NoBatchAssumption == NoBatch \notin Batches

VARIABLES
    active,     \* _active: the batch handed to the pool, or NoBatch
    queued,     \* _queued: the batches behind it
    shutDown,   \* _shut_down
    pool        \* where the pool thread is

coordinator == <<active, queued, shutDown, pool>>

\* "none": no ThreadPoolExecutor yet.  "submitted": _run_task waits in it;
\* "working": in operation(); "posted": the completion is put, the lock not yet
\* taken.  "finalizing": the shutdown's finalizer; "ended": joined.
PoolStates == {"none", "idle", "submitted", "working", "posted", "finalizing", "ended"}

CoordinatorInit == active = NoBatch /\ queued = <<>> /\ shutDown = FALSE /\ pool = "none"

\* _scheduled_ids_unlocked, scheduled_batch_ids
Scheduled == ToSet(queued) \union ({active} \ {NoBatch})

\* snapshot
Snapshot == [active |-> active, queued |-> queued]
HasWork(s) == s.active # NoBatch \/ s.queued # <<>>

\* _pump_unlocked with nothing active and q behind.
Pump(q) ==
    IF q = <<>>
    THEN active' = NoBatch /\ queued' = q /\ pool' = "idle"
    ELSE active' = Head(q) /\ queued' = Tail(q) /\ pool' = "submitted"

\* schedule, when it does not raise batch.execution_active (shut down) or
\* batch.operation_conflict (scheduled).
Schedule(b) ==
    /\ ~shutDown /\ b \notin Scheduled
    /\ IF active = NoBatch
       THEN Pump(Append(queued, b))
       ELSE queued' = Append(queued, b) /\ UNCHANGED <<active, pool>>
    /\ UNCHANGED shutDown

\* cancel_queued: a queued task has no future yet, and goes; the active one is
\* not found.
CancelQueued(b) ==
    /\ \/ b \notin ToSet(queued) /\ UNCHANGED queued
       \/ \E i \in DOMAIN queued : queued[i] = b /\ queued' = RemoveAt(queued, i)
    /\ UNCHANGED <<active, shutDown, pool>>

\* The pool thread takes _run_task.
StartTask == pool = "submitted" /\ pool' = "working" /\ UNCHANGED <<active, queued, shutDown>>

\* operation() returns or raises: the completion is put either way.
PostCompletion == pool = "working" /\ pool' = "posted" /\ UNCHANGED <<active, queued, shutDown>>

\* Mutant: the next task is not pumped.
ReleaseTask_NoPump ==
    /\ pool = "posted"
    /\ active' = NoBatch /\ pool' = "idle"
    /\ UNCHANGED <<queued, shutDown>>

\* The task leaves _active and the next is pumped, under one lock.
ReleaseTask == pool = "posted" /\ Pump(queued) /\ UNCHANGED shutDown

\* Mutant: only the queue is looked at.
MayShutDown_QueueOnly == queued = <<>>

\* shutdown raises batch.execution_active otherwise.
MayShutDown == active = NoBatch /\ queued = <<>>

\* From here nothing can be scheduled.  The finalizer goes to the pool thread
\* if there is one, and runs in the caller if not.
BeginShutDown ==
    /\ ~shutDown /\ MayShutDown
    /\ shutDown' = TRUE /\ pool' = "finalizing"
    /\ UNCHANGED <<active, queued>>

\* The finalizer is over, well or not, and the executor is joined.
FinishShutDown == pool = "finalizing" /\ pool' = "ended" /\ UNCHANGED <<active, queued, shutDown>>

\* The types, and what _pump_unlocked and schedule go by.
CoordinatorOK ==
    /\ active \in Batches \union {NoBatch} /\ queued \in Seq(Batches)
    /\ shutDown \in BOOLEAN /\ pool \in PoolStates
    /\ active # NoBatch <=> pool \in {"submitted", "working", "posted"}
    /\ active = NoBatch => queued = <<>>
    /\ shutDown <=> pool \in {"finalizing", "ended"}

\* The promise to every caller, whatever the interleaving with the pool
\* thread: one at a time, in order, each to its end, none stranded.
Line == INSTANCE SerialLine WITH
            line <- IF active = NoBatch THEN queued ELSE <<active>> \o queued,
            served <- pool \in {"working", "posted"}
=============================================================================
