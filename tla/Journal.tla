------------------------------- MODULE Journal -------------------------------
(***************************************************************************)
(* The batch journal as replay defines it: any sequence of events, each    *)
(* accepted by apply_event.  This is what a journal can say whoever wrote  *)
(* it; BatchService says which of these journals the service writes.       *)
(***************************************************************************)
EXTENDS Replay

CONSTANTS
    MaxAttempt   \* bound on attempt numbers

ASSUME MaxAttemptAssumption == MaxAttempt \in Nat

VARIABLES
    opened,      \* the journal holds its batch.created event
    batch        \* the projection of each job

vars == <<opened, batch>>

Created == {j \in Jobs : batch[j].state # "absent"}

NoJob(p) == [NewJob(p) EXCEPT !.state = "absent"]

Init ==
    /\ opened = FALSE
    /\ \E p \in Profiles : batch = [j \in Jobs |-> NoJob(p)]

\* batch.created is the first event and the only one of its type.
BatchCreated ==
    /\ ~opened
    /\ opened' = TRUE
    /\ UNCHANGED batch

\* One runtime signature for all jobs: _validate_common_runtime.
JobCreated(j, p) ==
    /\ opened
    /\ j \notin Created
    /\ \A k \in Created : batch[k].profile = p
    /\ batch' = [batch EXCEPT ![j] = NewJob(p)]
    /\ UNCHANGED opened

\* The projection of job j becomes r.
Apply(j, r) ==
    /\ j \in Created
    /\ batch' = [batch EXCEPT ![j] = r]
    /\ UNCHANGED opened

StageStarted(j, s, n) ==
    StartedOK(batch[j], s, n) /\ Apply(j, Started(batch[j], s, n))

StageClosed(j, s, n, outcome) ==
    ClosedOK(batch[j], s, n) /\ Apply(j, Closed(batch[j], s, outcome))

StageInvalidated(j, s, n) ==
    InvalidatedOK(batch[j], s, n) /\ Apply(j, Invalidated(batch[j], s))

RetryRequested(j, s) ==
    RetryOK(batch[j], s) /\ Apply(j, Retried(batch[j], s))

JobSucceeded(j) ==
    SucceededOK(batch[j]) /\ Apply(j, Ended(batch[j], "succeeded"))

JobFailed(j) ==
    FailedOK(batch[j]) /\ Apply(j, Ended(batch[j], "failed"))

JobCancelled(j) ==
    CancelledOK(batch[j]) /\ Apply(j, Ended(batch[j], "cancelled"))

ConfigUpdated(p, boundary) ==
    /\ opened
    /\ boundary \in Plan[p]
    /\ batch' = [j \in Jobs |->
                    IF j \in Created THEN Reconfigured(batch[j], p, boundary) ELSE batch[j]]
    /\ UNCHANGED opened

JobEvent(j) ==
    \/ \E p \in Profiles : JobCreated(j, p)
    \/ JobSucceeded(j)
    \/ JobFailed(j)
    \/ JobCancelled(j)
    \/ \E s \in Stages :
          \/ RetryRequested(j, s)
          \/ \E n \in 1..MaxAttempt :
                \/ StageStarted(j, s, n)
                \/ StageInvalidated(j, s, n)
                \/ \E outcome \in Outcomes : StageClosed(j, s, n, outcome)

Next ==
    \/ BatchCreated
    \/ \E j \in Jobs : JobEvent(j)
    \/ \E p \in Profiles, boundary \in Stages : ConfigUpdated(p, boundary)

Spec == Init /\ [][Next]_vars

-----------------------------------------------------------------------------
(* Properties                                                               *)

\* The projection always has the shape job.py and stage.py give it.
TypeOK ==
    /\ opened \in BOOLEAN
    /\ batch \in [Jobs -> JobRecord]
    /\ Created # {} => opened

\* A job whose projection says succeeded has every stage of its plan
\* committed, whatever events came before and after its job.succeeded: no
\* invalidation, restart or reconfiguration leaves the old verdict standing.
SucceededComplete ==
    \A j \in Jobs : batch[j].state = "succeeded" => AllCommitted(batch[j])

\* At every complete event boundary all jobs share one runtime configuration.
CommonRuntime ==
    \A j, k \in Created : batch[j].profile = batch[k].profile

\* A stage outside the plan has no history: a profile change never leaves an
\* open or a committed attempt of a stage that will not run again.
NoPlaceholder ==
    \A j \in Jobs : \A s \in Stages \ Plan[batch[j].profile] :
        batch[j].stage[s] = "pending" /\ batch[j].attempt[s] = 0

\* Attempt numbers of a stage that stays in the plan never go back: not on a
\* retry, an invalidation or a reconfiguration.  A number names one workspace
\* and one execution of the stage.
AttemptsGrow ==
    [][\A j \in Created : \A s \in Plan[batch[j].profile] \intersect Plan[batch[j].profile]' :
          batch'[j].attempt[s] >= batch[j].attempt[s]]_vars

\* Every attempt number is committed at most once: a stage becomes committed
\* only by closing the attempt that is running, and runs again only under a
\* larger number.
CommitOnce ==
    [][\A j \in Created : \A s \in Stages :
          /\ batch'[j].stage[s] = "committed" /\ batch[j].stage[s] # "committed"
                => batch[j].stage[s] = "running" /\ batch'[j].attempt[s] = batch[j].attempt[s]
          /\ batch'[j].stage[s] = "running" /\ batch[j].stage[s] # "running"
                => batch'[j].attempt[s] > batch[j].attempt[s]]_vars

=============================================================================
