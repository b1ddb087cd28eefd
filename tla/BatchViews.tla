------------------------------ MODULE BatchViews ------------------------------
(***************************************************************************)
(* What the desktop shows of a batch and offers to do with it: the rows of *)
(* the queue, the job detail with its actions, and the recovery list read  *)
(* at start.  All three are read without the lease, by code of their own,  *)
(* from the journal, the markers, the lease file and the coordinator's     *)
(* schedule; the commands they lead to are checked by other code, in the   *)
(* gateway and the command service.  The operators here are those views    *)
(* and those checks over the state of BatchService; a view is one snapshot *)
(* of that state.                                                          *)
(***************************************************************************)
EXTENDS BatchService

\* The writer holds the lease, but for create, which runs without it.
LeaseActive == ~At("idle") /\ w.op # "create"

\* scheduled_batch_ids: active or waiting in the coordinator.
Scheduled == queued # NotQueued \/ w.op \in {"execute", "resume", "retry"}

Unfinished == {j \in Existing : batch[j].state \notin Terminal}

InputsAvailable == Unfinished \intersect lost = {}

\* A running job without a live writer reads as interrupted.
JobShown(j) ==
    IF batch[j].state = "running" /\ ~LeaseActive THEN "interrupted" ELSE batch[j].state

\* The stage a row is about: the running one, else the first that went wrong,
\* else the first that is not committed; 0 when all are.
ActiveStage(j) ==
    LET among(states) == {s \in Plan[batch[j].profile] : batch[j].stage[s] \in states}
        running == among({"running"})
        stopped == among({"interrupted", "failed", "cancelled"})
        open    == among(StageStates \ {"committed"})
    IN  IF running # {} THEN Least(running)
        ELSE IF stopped # {} THEN Least(stopped)
        ELSE IF open # {} THEN Least(open) ELSE 0

\* "Queue rows never show 'Interrupted / Running'".
StageShown(j) ==
    LET s == ActiveStage(j)
    IN  IF s = 0 THEN "none"
        ELSE IF JobShown(j) = "interrupted" /\ batch[j].stage[s] = "running" THEN "interrupted"
        ELSE batch[j].stage[s]

\* A pause reads as requested until the writer has stopped, then as paused.
PauseShown(j) == pause /\ JobShown(j) \notin Terminal

Paused(j) == PauseShown(j) /\ ~LeaseActive

\* One row of the queue; the job detail repeats it.
QueueRow(j) ==
    [state |-> JobShown(j), stage |-> ActiveStage(j), stageState |-> StageShown(j),
     cancel |-> CancelRequested(j), pause |-> PauseShown(j), paused |-> Paused(j)]

-----------------------------------------------------------------------------
(* The actions a job detail offers                                          *)

Actions == {"cancel-job", "cancel-batch", "pause", "resume", "retry", "run-again"}

\* The first stage that is not committed, while the input is there.
RetryOffered(j) ==
    /\ JobShown(j) \in {"failed", "cancelled", "interrupted"}
    /\ ~AllCommitted(batch[j]) /\ j \notin lost

\* Mutant: resume is offered with the batch's cancel marker in place.
Offers_IgnoresCancel(j) ==
    {a \in Actions :
        \/ a = "cancel-job" /\ JobShown(j) \notin Terminal /\ ~CancelRequested(j)
        \/ a = "cancel-batch" /\ Unfinished # {} /\ ~cancelBatch
        \/ a = "pause" /\ Scheduled /\ ~PauseShown(j) /\ ~cancelBatch
        \/ a = "resume" /\ ~Scheduled /\ ~LeaseActive /\ Unfinished # {} /\ InputsAvailable
                        /\ (PauseShown(j) \/ JobShown(j) \in {"pending", "interrupted"})
        \/ a = "retry" /\ RetryOffered(j) /\ ~Scheduled
        \/ a = "run-again" /\ JobShown(j) \in Terminal /\ j \notin lost}

\* _available_actions for job j.  A scheduled batch whose lease is held by
\* another process offers no pause; here only this process holds it.
Offers(j) ==
    {a \in Actions :
        \/ a = "cancel-job" /\ JobShown(j) \notin Terminal /\ ~CancelRequested(j)
        \/ a = "cancel-batch" /\ Unfinished # {} /\ ~cancelBatch
        \/ a = "pause" /\ Scheduled /\ ~PauseShown(j) /\ ~cancelBatch
        \/ a = "resume" /\ ~Scheduled /\ ~LeaseActive /\ Unfinished # {} /\ InputsAvailable
                        /\ ~cancelBatch
                        /\ (PauseShown(j) \/ JobShown(j) \in {"pending", "interrupted"})
        \/ a = "retry" /\ RetryOffered(j) /\ ~Scheduled
        \/ a = "run-again" /\ JobShown(j) \in Terminal /\ j \notin lost}

\* What the command thread does with the action: the guards of BatchService's
\* requests and of resume and retry, which run again copies but for its state.
Accepts(a, j) ==
    CASE a = "cancel-job"   -> batch[j].state \notin Terminal
      [] a = "cancel-batch" -> ~AllTerminal
      [] a = "pause"        -> ~AllTerminal /\ ~cancelBatch
      [] a = "resume"       -> ~Scheduled /\ ~LeaseActive /\ ResumeValid
      [] a = "retry"        -> ~Scheduled /\ ~LeaseActive
                               /\ ~AllCommitted(batch[j]) /\ Retryable(j, EarliestRetryStage(j))
      [] a = "run-again"    -> batch[j].state \in Terminal /\ j \notin lost

-----------------------------------------------------------------------------
(* The recovery list                                                        *)

BatchState ==
    LET states == {batch[j].state : j \in Existing}
    IN  CASE states \subseteq {"pending"} -> "pending"
          [] "running" \in states -> "running"
          [] states \intersect {"running", "interrupted"} = {"interrupted"} -> "interrupted"
          [] states \intersect {"running", "interrupted", "failed"} = {"failed"} -> "failed"
          [] states = {"succeeded"} -> "succeeded"
          [] states = {"cancelled"} -> "cancelled"
          [] OTHER -> "partial"

\* Mutant: a batch of which some jobs succeeded is taken for a finished one.
Listed_NotPartial ==
    /\ ~Scheduled /\ ~LeaseActive
    /\ Unfinished # {}
    /\ pause \/ BatchState \in {"pending", "interrupted", "running", "failed"}

\* RecoveryService.scan
Listed ==
    /\ ~Scheduled /\ ~LeaseActive
    /\ Unfinished # {}
    /\ pause \/ BatchState \in {"pending", "interrupted", "running", "partial", "failed"}

\* The dialog offers to resume unless an input is missing, and always to cancel.
CanResume == Listed /\ InputsAvailable

-----------------------------------------------------------------------------
(* Properties                                                               *)

\* What goes on over an attempt that was left open, by a crash or by an exception
\* that is no AppError, before anything closes it: a retry, which interrupts no
\* attempt; a new configuration, which makes its job pending; and the handler of
\* _run_job, when the end of the attempt could not be recorded or its workspace
\* not be removed.
RunOver == faults > 0 \/ (crashes > 0 /\ Offered \intersect {"retry", "config"} # {})

\* A row never shows a stage at work for a job that is not: whatever was cut
\* off, by a crash, a cancellation or a failure, reads as such in both columns,
\* and a job has its verdict only when none of its attempts is open.  Where it
\* was gone over, a job can get its verdict all the same, but never success.
RowsHonest ==
    \A j \in Existing :
        QueueRow(j).stageState = "running" =>
            \/ QueueRow(j).state = "running"
            \/ RunOver /\ QueueRow(j).state # "succeeded"

\* Every action a job detail offers is accepted if nothing moved since it was
\* read: the two lists of conditions, in job_detail and in the gateway, agree.
\* Two exceptions.  A job that was running when its process died is shown as
\* interrupted with a retry, which the gateway refuses (batch.retry_invalid)
\* as the journal still says running; and pause is offered between the last
\* verdict of a scheduled batch and its end, and refused as terminal.
OffersAccepted ==
    CommandThreadFree =>
        \A j \in Existing : \A a \in Offers(j) :
            \/ Accepts(a, j)
            \/ a = "retry" /\ batch[j].state = "running"
            \/ a = "pause" /\ AllTerminal

\* A batch that a crash, an error or a pause left unfinished is in the recovery
\* list as soon as nothing of it runs: it can be cancelled, and resumed by both
\* the dialog and some job's detail once its inputs are there, unless the
\* marker of a cancellation that was cut off is left.  Then the dialog offers
\* the resume all the same and the gateway refuses it.
RecoveryWorks ==
    CommandThreadFree /\ ~Scheduled /\ ~LeaseActive /\ Unfinished # {} =>
        /\ Listed /\ Accepts("cancel-batch", 0)
        /\ CanResume /\ ~cancelBatch =>
              /\ ResumeValid
              /\ \E j \in Existing : "resume" \in Offers(j)

=============================================================================
