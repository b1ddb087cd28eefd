----------------------------- MODULE BatchService -----------------------------
(***************************************************************************)
(* DurablePipelineService and StageExecutor running one batch, with the    *)
(* commands that drive and disturb them: create, execute, resume, retry,   *)
(* cancel, pause, process crashes and damaged artifacts.                   *)
(*                                                                         *)
(* The durable state is the journal (by its projection `batch'), the       *)
(* manifest, the control markers and the artifacts.  A command that writes *)
(* holds the batch lease, so at most one writer exists: the record `w'     *)
(* holds its program counter and the local variables that outlive a        *)
(* durable step.  Each action is one durable write or one read of a        *)
(* marker, so a crash and a cancel or pause request can fall between any   *)
(* two of them.  Outside `w' a request (`req') only writes markers.        *)
(***************************************************************************)
EXTENDS Replay

CONSTANTS
    NJobs,       \* jobs of the batch
    Drivers,     \* who may drive the batch: "gui" (LocalBatchGateway) or "cli"
    Offered,     \* which of the optional commands the environment uses
    MaxAttempt,  \* bound: no command starts once a stage used that many attempts
    MaxCrash,    \* bound on process crashes
    MaxFault,    \* bound on failing manifest writes and unexpected exceptions
    MaxRot       \* bound on damaged artifacts, stale cache keys, lost inputs

Commands == {"cancel-batch", "cancel-job", "pause", "retry", "config", "damage", "drift", "lose"}

ASSUME ServiceAssumption ==
    /\ NJobs \in Nat \ {0} /\ Jobs = 1..NJobs /\ 0 \notin Stages
    /\ Drivers \subseteq {"cli", "gui"} /\ Offered \subseteq Commands
    /\ {MaxAttempt, MaxCrash, MaxFault, MaxRot} \subseteq Nat

VARIABLES
    opened,        \* the journal holds its batch.created event
    batch,         \* projection of the durable journal
    cancelLogged,  \* jobs with a job.cancelled event in the journal
    projected,     \* the manifest is the projection of the whole journal
    cancelBatch,   \* control/cancel-batch exists
    cancelJob,     \* jobs whose control/cancel-<job> exists
    pause,         \* control/pause-batch exists
    damaged,       \* committed stages whose artifacts or outputs fail verification
    drifted,       \* committed stages whose cache key no longer matches
    lost,          \* jobs whose input file is gone
    leftover,      \* stages with a workspace directory for their next attempt
    queued,        \* the GUI's command waiting in the coordinator's queue
    w,             \* the writer
    req,           \* the cancel or pause request in progress
    crashes, faults, rots,
    driver         \* who drives the batch

journal == <<opened, batch, cancelLogged>>
markers == <<cancelBatch, cancelJob, pause>>
files   == <<damaged, drifted, lost, leftover>>
env     == <<queued, req, crashes, rots, driver>>
vars    == <<journal, projected, markers, files, w, env, faults>>

Terminal == {"succeeded", "failed", "cancelled"}

Existing == {j \in Jobs : batch[j].state # "absent"}

AllTerminal == \A j \in Existing : batch[j].state \in Terminal

Running == {js \in Existing \X Stages : batch[js[1]].stage[js[2]] = "running"}

Least(S) == CHOOSE x \in S : \A y \in S : x <= y

\* The first stage after s in the plan of job j, 0 past the end.
NextStage(j, s) ==
    LET later == {t \in Plan[batch[j].profile] : t > s}
    IN  IF later = {} THEN 0 ELSE Least(later)

-----------------------------------------------------------------------------
(* The writer's record                                                      *)

Idle ==
    [pc      |-> "idle",  \* next step; "idle": the lease is free
     op      |-> "none",  \* the command
     ret     |-> "idle",  \* where acknowledge_cancel_requests returns to
     job     |-> 0,       \* loop variable of run
     stage   |-> 0,       \* loop variable of _run_job
     skip    |-> {},      \* jobs run saw as failed or cancelled when its loop began
     seen    |-> FALSE,   \* batch_requested, as the caller of acknowledge read it
     whole   |-> FALSE,   \* batch_requested, as acknowledge read it
     targets |-> {},      \* jobs targeted by acknowledge
     todo    |-> {},      \* what a loop over jobs has still to handle
     error   |-> "none"]  \* the error that ended _run_job's loop

NoRequest == [step |-> "none", job |-> 0, scheduled |-> FALSE]

NotQueued == [op |-> "none", job |-> 0, stage |-> 0]

Gui == driver = "gui"

At(pc) == w.pc = pc

Goto(pc) == w' = [w EXCEPT !.pc = pc]

Stop == w' = Idle

Raise(error) == w' = [w EXCEPT !.pc = "caught", !.error = error]

CallAcknowledge(ret) == w' = [w EXCEPT !.pc = "acknowledge", !.ret = ret]

\* apply_event, then the fsynced append.
Append(j, r) ==
    /\ batch' = [batch EXCEPT ![j] = r]
    /\ projected' = FALSE

\* manifest.write: it replaces the file, or raises manifest.projection_failed,
\* before the file is replaced or after (the directory cannot be synced).
WriteManifest(done, failed) ==
    /\ \/ projected' = TRUE /\ done /\ UNCHANGED faults
       \/ faults < MaxFault /\ faults' = faults + 1 /\ failed /\ projected' \in {projected, TRUE}
    /\ UNCHANGED <<journal, markers, files, env>>

\* A step of the writer that only reads.
ReadOnly == UNCHANGED <<journal, projected, markers, files, env, faults>>

CancelRequested(j) == cancelBatch \/ j \in cancelJob

\* Every attempt number still has room for one more run of the pipeline.
AttemptsLeft == \A j \in Jobs, s \in Stages : batch[j].attempt[s] < MaxAttempt

Init ==
    /\ \E p \in Profiles : batch = [j \in Jobs |-> [NewJob(p) EXCEPT !.state = "absent"]]
    /\ opened = FALSE /\ cancelLogged = {} /\ projected = FALSE
    /\ cancelBatch = FALSE /\ cancelJob = {} /\ pause = FALSE
    /\ damaged = {} /\ drifted = {} /\ lost = {} /\ leftover = {}
    /\ queued = NotQueued
    /\ w = [Idle EXCEPT !.pc = "open", !.op = "create"]
    /\ req = NoRequest
    /\ crashes = 0 /\ faults = 0 /\ rots = 0
    /\ driver \in Drivers

-----------------------------------------------------------------------------
(* create and resume                                                        *)

\* batch.created
CreateBatch ==
    /\ At("open")
    /\ opened' = TRUE
    /\ Goto("create")
    /\ UNCHANGED <<batch, cancelLogged, projected, markers, files, env, faults>>

\* One job.created per job; the manifest is written once, at the end.
CreateJob ==
    /\ At("create") /\ Existing # Jobs
    /\ LET j == Least(Jobs \ Existing) IN Append(j, [batch[j] EXCEPT !.state = "pending"])
    /\ UNCHANGED <<opened, cancelLogged, markers, files, w, env, faults>>

\* The CLI goes on to run under the same lease; the GUI schedules the execution.
CreateManifest ==
    /\ At("create") /\ Existing = Jobs
    /\ \/ /\ faults < MaxFault /\ faults' = faults + 1
          /\ projected' \in {projected, TRUE}
          /\ Stop /\ UNCHANGED queued
       \/ /\ projected' = TRUE /\ UNCHANGED faults
          /\ IF Gui THEN Stop /\ queued' = [NotQueued EXCEPT !.op = "execute"]
             ELSE Goto("run") /\ UNCHANGED queued
    /\ UNCHANGED <<journal, markers, files, req, crashes, rots, driver>>

\* Nothing of the batch is scheduled and its lease is free.
Unscheduled == At("idle") /\ queued = NotQueued

\* The GUI handles one command after the other in one thread, which creates a
\* batch and finalizes a cancellation itself.
CommandThreadFree == req = NoRequest /\ Existing # {} /\ ~At("create") /\ w.op # "cancel"

\* The GUI refuses to resume a batch with a pending batch cancel, with nothing
\* left to run, or with a missing input it needs.
ResumeValid ==
    /\ ~cancelBatch
    /\ ~AllTerminal
    /\ \A j \in lost : batch[j].state \in Terminal

BeginResume == w' = [Idle EXCEPT !.pc = "reconcile", !.op = "resume"]

\* The CLI takes the lease at once; the GUI checks, then schedules.
StartResume ==
    /\ Unscheduled /\ Existing # {} /\ AttemptsLeft
    /\ Gui => CommandThreadFree
    /\ \/ ~Gui /\ BeginResume /\ UNCHANGED queued
       \/ /\ ~Gui /\ "config" \in Offered
          /\ w' = [Idle EXCEPT !.pc = "configure", !.op = "resume"]
          /\ UNCHANGED queued
       \/ /\ Gui /\ ResumeValid
          /\ queued' = [NotQueued EXCEPT !.op = "resume"]
          /\ UNCHANGED w
    /\ UNCHANGED <<journal, projected, markers, files, req, crashes, faults, rots, driver>>

\* Overrides given to the CLI's resume.  Before the boundary only stages are
\* kept that precede the first difference of the two plans: _earliest_change.
UpdateConfig(p, boundary) ==
    /\ At("configure")
    /\ boundary \in Plan[p]
    /\ LET old == Plan[batch[1].profile]
       IN  \A t \in (old \ Plan[p]) \union (Plan[p] \ old), kept \in Plan[p] :
              kept < boundary => kept < t
    /\ batch' = [j \in Jobs |->
                    IF j \in Existing THEN Reconfigured(batch[j], p, boundary) ELSE batch[j]]
    /\ projected' = FALSE
    /\ Goto("configured")
    /\ UNCHANGED <<opened, cancelLogged, markers, files, env, faults>>

ConfigManifest == At("configured") /\ WriteManifest(Goto("reconcile"), Stop)

\* Missing or stale manifests are rewritten.
Reconcile ==
    /\ At("reconcile")
    /\ IF projected THEN Goto("interrupt") /\ ReadOnly
       ELSE WriteManifest(Goto("interrupt"), Stop)

\* _interrupt_open_attempts: one stage.interrupted per open attempt.
InterruptAttempt ==
    /\ At("interrupt") /\ Running # {}
    /\ \E js \in Running :
          /\ \A other \in Running : js[1] <= other[1]
          /\ Append(js[1], Closed(batch[js[1]], js[2], "interrupted"))
    /\ UNCHANGED <<opened, cancelLogged, markers, files, w, env, faults>>

InterruptManifest ==
    At("interrupt") /\ Running = {} /\ WriteManifest(Goto("verify"), Stop)

\* _invalidate_corrupt_artifacts: the whole verification pass comes first.
Verify ==
    /\ At("verify")
    /\ LET bad(j) == {s \in Stages : batch[j].stage[s] = "committed" /\ <<j, s>> \in damaged}
       IN  w' = [w EXCEPT !.pc = "invalidate",
                          !.todo = {<<j, Least(bad(j))>> : j \in {k \in Existing : bad(k) # {}}}]
    /\ ReadOnly

InvalidateDamaged ==
    /\ At("invalidate") /\ w.todo # {}
    /\ LET js == CHOOSE x \in w.todo : \A y \in w.todo : x[1] <= y[1]
       IN  /\ Append(js[1], Invalidated(batch[js[1]], js[2]))
           /\ w' = [w EXCEPT !.todo = @ \ {js}]
    /\ UNCHANGED <<opened, cancelLogged, markers, files, env, faults>>

InvalidateManifest ==
    At("invalidate") /\ w.todo = {} /\ WriteManifest(CallAcknowledge("workspaces"), Stop)

\* Mutant: the workspaces of an earlier process stay.
RemoveWorkspaces_Kept == At("workspaces") /\ Goto("unpause") /\ ReadOnly

RemoveWorkspaces ==
    /\ At("workspaces")
    /\ leftover' = {}
    /\ Goto("unpause")
    /\ UNCHANGED <<journal, projected, markers, damaged, drifted, lost, env, faults>>

ClearPause ==
    /\ At("unpause")
    /\ pause' = FALSE
    /\ Goto("run")
    /\ UNCHANGED <<journal, projected, cancelBatch, cancelJob, files, env, faults>>

ResumeStep ==
    \/ \E p \in Profiles, boundary \in Stages : UpdateConfig(p, boundary)
    \/ ConfigManifest \/ Reconcile \/ InterruptAttempt \/ InterruptManifest \/ Verify
    \/ InvalidateDamaged \/ InvalidateManifest \/ RemoveWorkspaces \/ ClearPause

-----------------------------------------------------------------------------
(* retry, and the coordinator's queue                                       *)

EarliestRetryStage(j) ==
    Least({s \in Plan[batch[j].profile] : batch[j].stage[s] # "committed"})

\* Mutant: any stage of the plan can be retried at any time.
Retryable_Unchecked(j, s) == s \in Plan[batch[j].profile]

\* The CLI takes any stage replay accepts; the GUI the first that is not
\* committed, of a job that is failed, cancelled or interrupted.
Retryable(j, s) ==
    /\ RetryOK(batch[j], s)
    /\ Gui => /\ batch[j].state \in {"failed", "cancelled", "interrupted"}
              /\ ~AllCommitted(batch[j])
              /\ s = EarliestRetryStage(j)
              /\ j \notin lost

\* status() refuses a stale manifest or a damaged artifact; open attempts of
\* other jobs, markers and workspaces are left as they are.
BeginRetry(j, s) ==
    IF projected /\ \A js \in damaged : batch[js[1]].stage[js[2]] # "committed"
    THEN /\ Append(j, Retried(batch[j], s))
         /\ w' = [Idle EXCEPT !.pc = "retried", !.op = "retry", !.job = j]
    ELSE UNCHANGED <<batch, projected, w>>

StartRetry(j, s) ==
    /\ "retry" \in Offered
    /\ Unscheduled /\ AttemptsLeft
    /\ Gui => CommandThreadFree
    /\ j \in Existing /\ Retryable(j, s)
    /\ \/ ~Gui /\ BeginRetry(j, s) /\ UNCHANGED queued
       \/ /\ Gui /\ queued' = [op |-> "retry", job |-> j, stage |-> s]
          /\ UNCHANGED <<batch, projected, w>>
    /\ UNCHANGED <<opened, cancelLogged, markers, files, req, crashes, faults, rots, driver>>

\* The coordinator runs what is queued, which holds the lease from here on.  A
\* resume or a retry is validated once more.
Execute ==
    /\ queued # NotQueued /\ At("idle")
    /\ queued' = NotQueued
    /\ \/ /\ queued.op = "execute"
          /\ w' = [Idle EXCEPT !.pc = "run", !.op = "execute"]
          /\ UNCHANGED <<batch, projected>>
       \/ /\ queued.op = "resume" /\ ResumeValid
          /\ BeginResume
          /\ UNCHANGED <<batch, projected>>
       \/ /\ queued.op = "retry" /\ Retryable(queued.job, queued.stage)
          /\ BeginRetry(queued.job, queued.stage)
       \/ /\ \/ queued.op = "resume" /\ ~ResumeValid
             \/ queued.op = "retry" /\ ~Retryable(queued.job, queued.stage)
          /\ UNCHANGED <<batch, projected, w>>
    /\ UNCHANGED <<opened, cancelLogged, markers, files, req, crashes, faults, rots, driver>>

RetryManifest == At("retried") /\ WriteManifest(w' = [w EXCEPT !.pc = "run", !.job = 0], Stop)

-----------------------------------------------------------------------------
(* acknowledge_cancel_requests                                              *)

\* Back in the caller; "idle" when all it does is return or raise.
Return ==
    IF w.ret = "idle" THEN Stop
    ELSE w' = [w EXCEPT !.pc = w.ret, !.ret = "idle", !.whole = FALSE, !.targets = {}]

\* Mutant: a batch cancel leaves interrupted jobs alone.
Acknowledge_SkipsInterrupted ==
    /\ At("acknowledge")
    /\ LET active  == IF w.ret = "cancelled" THEN {w.job} ELSE {}
           targets == IF cancelBatch THEN {j \in Existing : batch[j].state # "interrupted"}
                      ELSE active \union (cancelJob \intersect Existing)
       IN  IF targets = {} THEN Return
           ELSE w' = [w EXCEPT !.pc = "closing", !.whole = cancelBatch,
                               !.targets = targets, !.todo = targets]
    /\ ReadOnly

\* _run_job names its own job as a target whatever the markers say.
Acknowledge ==
    /\ At("acknowledge")
    /\ LET active  == IF w.ret = "cancelled" THEN {w.job} ELSE {}
           targets == IF cancelBatch THEN Existing
                      ELSE active \union (cancelJob \intersect Existing)
       IN  IF targets = {} THEN Return
           ELSE w' = [w EXCEPT !.pc = "closing", !.whole = cancelBatch,
                               !.targets = targets, !.todo = targets]
    /\ ReadOnly

\* Close the open attempt of the next target, ...
CancelAttempt(j, s) ==
    /\ At("closing") /\ w.todo # {} /\ j = Least(w.todo)
    /\ <<j, s>> \in Running
    /\ Append(j, Closed(batch[j], s, "cancelled"))
    /\ UNCHANGED <<opened, cancelLogged, markers, files, w, env, faults>>

\* Mutant: the open attempt is not closed before the verdict.
CancelTarget_LeavesAttempt(j) ==
    /\ At("closing") /\ w.todo # {} /\ j = Least(w.todo)
    /\ w' = [w EXCEPT !.todo = @ \ {j}]
    /\ Append(j, Ended(batch[j], "cancelled"))
    /\ cancelLogged' = cancelLogged \union {j}
    /\ UNCHANGED <<opened, markers, files, env, faults>>

\* The job's cancellation is still to be recorded.
CancelDue(j) ==
    \/ batch[j].state \in {"pending", "running", "interrupted"}
    \/ batch[j].state = "cancelled" /\ j \notin cancelLogged

\* ... then record the cancellation unless the job is settled otherwise.
CancelTarget(j) ==
    /\ At("closing") /\ w.todo # {} /\ j = Least(w.todo)
    /\ \A s \in Stages : <<j, s>> \notin Running
    /\ w' = [w EXCEPT !.todo = @ \ {j}]
    /\ \/ /\ CancelDue(j)
          /\ Append(j, Ended(batch[j], "cancelled"))
          /\ cancelLogged' = cancelLogged \union {j}
       \/ /\ ~CancelDue(j)
          /\ UNCHANGED <<batch, cancelLogged, projected>>
    /\ UNCHANGED <<opened, markers, files, env, faults>>

AcknowledgeManifest ==
    At("closing") /\ w.todo = {} /\ WriteManifest(Goto("unmark"), Stop)

\* The markers go only after the manifest is written.
ClearBatchMarker ==
    /\ At("unmark")
    /\ cancelBatch' = (cancelBatch /\ ~w.whole)
    /\ Goto(IF w.whole THEN "unmark-pause" ELSE "unmark-jobs")
    /\ UNCHANGED <<journal, projected, cancelJob, pause, files, env, faults>>

ClearPauseMarker ==
    /\ At("unmark-pause")
    /\ pause' = FALSE
    /\ Goto("unmark-jobs")
    /\ UNCHANGED <<journal, projected, cancelBatch, cancelJob, files, env, faults>>

ClearJobMarker(j) ==
    /\ At("unmark-jobs")
    /\ j \in w.targets /\ batch[j].state \in Terminal
    /\ cancelJob' = cancelJob \ {j}
    /\ w' = [w EXCEPT !.targets = @ \ {j}]
    /\ UNCHANGED <<journal, projected, cancelBatch, pause, files, env, faults>>

Acknowledged ==
    /\ At("unmark-jobs")
    /\ \A j \in w.targets : batch[j].state \notin Terminal
    /\ Return
    /\ ReadOnly

AcknowledgeStep ==
    \/ Acknowledge \/ AcknowledgeManifest \/ ClearBatchMarker \/ ClearPauseMarker \/ Acknowledged
    \/ \E j \in Jobs :
          \/ CancelTarget(j) \/ ClearJobMarker(j)
          \/ \E s \in Stages : CancelAttempt(j, s)

-----------------------------------------------------------------------------
(* run: the loop over the jobs                                              *)

\* Mutant: a failed job is run again.
EnterLoop_RunsFailed ==
    w' = [w EXCEPT !.pc = "job", !.job = 1, !.seen = FALSE,
                   !.skip = {j \in Existing : batch[j].state = "cancelled"}]

\* The loop iterates over the jobs of the projection it began with.
EnterLoop ==
    w' = [w EXCEPT !.pc = "job", !.job = 1, !.seen = FALSE,
                   !.skip = {j \in Existing : batch[j].state \in {"cancelled", "failed"}}]

Run ==
    /\ At("run")
    /\ IF cancelBatch \/ cancelJob \intersect Existing # {}
       THEN w' = [w EXCEPT !.pc = "acknowledge", !.ret = "run-acknowledged", !.seen = cancelBatch]
       ELSE EnterLoop
    /\ ReadOnly

\* operation.cancelled ends a run that found a batch cancel, or the cancel of
\* its only job.
RunAcknowledged ==
    /\ At("run-acknowledged")
    /\ IF w.seen \/ Existing = {1} THEN Stop ELSE EnterLoop
    /\ ReadOnly

NextJob ==
    /\ At("job")
    /\ IF w.job \notin Existing THEN Stop
       ELSE IF w.job \in w.skip THEN w' = [w EXCEPT !.job = @ + 1]
       ELSE IF cancelBatch THEN CallAcknowledge("idle")
       ELSE Goto("job-pause")
    /\ ReadOnly

NextJobPause ==
    /\ At("job-pause")
    /\ IF pause THEN Stop
       ELSE w' = [w EXCEPT !.pc = "stage", !.stage = NextStage(w.job, 0)]
    /\ ReadOnly

AfterJob ==
    /\ At("after-job")
    /\ IF cancelBatch THEN CallAcknowledge("idle") ELSE Goto("after-job-pause")
    /\ ReadOnly

AfterJobPause ==
    /\ At("after-job-pause")
    /\ IF pause THEN Stop ELSE w' = [w EXCEPT !.pc = "job", !.job = @ + 1, !.stage = 0]
    /\ ReadOnly

RunStep ==
    \/ Run \/ RunAcknowledged \/ NextJob \/ NextJobPause \/ AfterJob \/ AfterJobPause

-----------------------------------------------------------------------------
(* _run_job and StageExecutor.execute                                       *)

CheckCancel ==
    /\ At("stage")
    /\ IF w.stage = 0 THEN Goto("succeed")
       ELSE IF CancelRequested(w.job) THEN Raise("cancelled")
       ELSE Goto("stage-pause")
    /\ ReadOnly

\* A pause stops before a stage that is not committed; a lost input fails the
\* first stage even when it is committed (its cache key hashes the input).
EnterStage ==
    /\ At("stage-pause")
    /\ LET r == batch[w.job]
           s == w.stage
           committed == r.stage[s] = "committed"
       IN  IF ~committed /\ pause THEN Goto("after-job")
           ELSE IF w.job \in lost /\ s = NextStage(w.job, 0) THEN Raise("error")
           ELSE IF ~committed THEN Goto("workspace")
           ELSE IF <<w.job, s>> \in drifted THEN Goto("invalidate-stage")
           ELSE IF <<w.job, s>> \in damaged THEN Raise("error")
           ELSE w' = [w EXCEPT !.pc = "stage", !.stage = NextStage(w.job, s)]
    /\ ReadOnly

\* A committed stage whose cache key changed runs again.
InvalidateStage ==
    /\ At("invalidate-stage")
    /\ Append(w.job, Invalidated(batch[w.job], w.stage))
    /\ Goto("workspace")
    /\ UNCHANGED <<opened, cancelLogged, markers, files, env, faults>>

\* mkdir(exist_ok=False) lies outside the try: FileExistsError ends the command.
MakeWorkspace ==
    /\ At("workspace")
    /\ IF <<w.job, w.stage>> \in leftover THEN Stop ELSE Goto("start")
    /\ leftover' = leftover \union {<<w.job, w.stage>>}
    /\ UNCHANGED <<journal, projected, markers, damaged, drifted, lost, env, faults>>

\* A start replay rejects is an error with nothing appended.
StartStage ==
    /\ At("start")
    /\ LET r == batch[w.job]
           n == r.attempt[w.stage] + 1
       IN  IF StartedOK(r, w.stage, n)
           THEN Append(w.job, Started(r, w.stage, n)) /\ Goto("started")
           ELSE Raise("error") /\ UNCHANGED <<batch, projected>>
    /\ leftover' = leftover \ {<<w.job, w.stage>>}
    /\ UNCHANGED <<opened, cancelLogged, markers, damaged, drifted, lost, env, faults>>

StartManifest == At("started") /\ WriteManifest(Goto("execute"), Goto("fail"))

\* The runner: outputs, an AppError, a cancellation if one is requested, or an
\* exception that is no AppError, which leaves the attempt open.  If the
\* workspace cannot be removed after that one, it becomes an AppError.
ExecuteStage ==
    /\ At("execute")
    /\ \/ /\ Goto(IF CancelRequested(w.job) THEN "cancel" ELSE "commit")
          /\ UNCHANGED faults
       \/ Goto("fail") /\ UNCHANGED faults
       \/ faults + 1 <= MaxFault /\ faults' = faults + 1 /\ Stop
       \/ faults + 2 <= MaxFault /\ faults' = faults + 2 /\ Raise("error")
    /\ UNCHANGED <<journal, projected, markers, files, env>>

\* stage.committed references artifacts that were just verified.
CommitStage ==
    /\ At("commit")
    /\ Append(w.job, Closed(batch[w.job], w.stage, "committed"))
    /\ damaged' = damaged \ {<<w.job, w.stage>>}
    /\ drifted' = drifted \ {<<w.job, w.stage>>}
    /\ Goto("committed")
    /\ UNCHANGED <<opened, cancelLogged, markers, lost, leftover, env, faults>>

\* After the commit an error is stage.post_commit_failed: the artifacts no
\* longer verify, the manifest cannot be written, the workspace not removed.
CommitManifest ==
    /\ At("committed")
    /\ IF <<w.job, w.stage>> \in damaged THEN Raise("post-commit") /\ ReadOnly
       ELSE \/ WriteManifest(w' = [w EXCEPT !.pc = "stage", !.stage = NextStage(w.job, w.stage)],
                             Raise("post-commit"))
            \/ /\ faults < MaxFault /\ faults' = faults + 1 /\ projected' = TRUE
               /\ Raise("post-commit")
               /\ UNCHANGED <<journal, markers, files, env>>

\* Mutant: only the job is failed, not its stage.
FailStage_JobOnly == At("fail") /\ Goto("fail-job") /\ ReadOnly

FailStage ==
    /\ At("fail")
    /\ Append(w.job, Closed(batch[w.job], w.stage, "failed"))
    /\ Goto("fail-job")
    /\ UNCHANGED <<opened, cancelLogged, markers, files, env, faults>>

\* Mutant: no manifest after job.failed.
FailJob_NoManifest ==
    /\ At("fail-job")
    /\ Append(w.job, Ended(batch[w.job], "failed"))
    /\ Raise("error")
    /\ UNCHANGED <<opened, cancelLogged, markers, files, env, faults>>

FailJob ==
    /\ At("fail-job")
    /\ Append(w.job, Ended(batch[w.job], "failed"))
    /\ Goto("failed")
    /\ UNCHANGED <<opened, cancelLogged, markers, files, env, faults>>

FailManifest == At("failed") /\ WriteManifest(Raise("error"), Raise("error"))

CancelStage ==
    /\ At("cancel")
    /\ Append(w.job, Closed(batch[w.job], w.stage, "cancelled"))
    /\ Goto("cancel-job")
    /\ UNCHANGED <<opened, cancelLogged, markers, files, env, faults>>

CancelJob ==
    /\ At("cancel-job")
    /\ Append(w.job, Ended(batch[w.job], "cancelled"))
    /\ cancelLogged' = cancelLogged \union {w.job}
    /\ Goto("cancel-manifest")
    /\ UNCHANGED <<opened, markers, files, env, faults>>

CancelManifest == At("cancel-manifest") /\ WriteManifest(Raise("cancelled"), Raise("cancelled"))

\* An error that fails the job, unless that is recorded already.
JobFails == w.error = "error" /\ batch[w.job].state # "failed" /\ FailedOK(batch[w.job])

\* _run_job's handler.  Any error but a cancellation ends the command.
Caught ==
    /\ At("caught")
    /\ IF w.error = "cancelled"
       THEN /\ w' = [w EXCEPT !.pc = "acknowledge", !.ret = "cancelled", !.seen = cancelBatch]
            /\ UNCHANGED <<batch, projected>>
       ELSE IF JobFails
       THEN Append(w.job, Ended(batch[w.job], "failed")) /\ Goto("caught-manifest")
       ELSE Stop /\ UNCHANGED <<batch, projected>>
    /\ UNCHANGED <<opened, cancelLogged, markers, files, env, faults>>

CaughtManifest == At("caught-manifest") /\ WriteManifest(Stop, Stop)

\* A job cancel in a batch of several jobs goes on with the next one, still by
\* the list the loop began with.
JobCancelled ==
    /\ At("cancelled")
    /\ IF w.seen \/ Existing = {1} THEN Stop
       ELSE w' = [w EXCEPT !.pc = "job", !.job = @ + 1, !.stage = 0, !.error = "none",
                           !.seen = FALSE]
    /\ ReadOnly

\* After the last stage: one more look at the markers, then job.succeeded.
Succeed ==
    /\ At("succeed")
    /\ LET r == batch[w.job]
       IN  IF r.state = "succeeded" THEN Goto("after-job") /\ UNCHANGED <<batch, projected>>
           ELSE IF CancelRequested(w.job) THEN Raise("cancelled") /\ UNCHANGED <<batch, projected>>
           ELSE IF SucceededOK(r)
           THEN Append(w.job, Ended(r, "succeeded")) /\ Goto("succeeded")
           ELSE Stop /\ UNCHANGED <<batch, projected>>
    /\ UNCHANGED <<opened, cancelLogged, markers, files, env, faults>>

SucceedManifest == At("succeeded") /\ WriteManifest(Goto("clear-marker"), Stop)

\* The job's own marker is dropped: the request came too late.
ClearMarker ==
    /\ At("clear-marker")
    /\ cancelJob' = cancelJob \ {w.job}
    /\ Goto("after-job")
    /\ UNCHANGED <<journal, projected, cancelBatch, pause, files, env, faults>>

JobStep ==
    \/ CheckCancel \/ EnterStage \/ InvalidateStage \/ MakeWorkspace \/ StartStage \/ StartManifest
    \/ ExecuteStage \/ CommitStage \/ CommitManifest
    \/ FailStage \/ FailJob \/ FailManifest \/ CancelStage \/ CancelJob \/ CancelManifest
    \/ Caught \/ CaughtManifest \/ JobCancelled \/ Succeed \/ SucceedManifest \/ ClearMarker

-----------------------------------------------------------------------------
(* An append that fails                                                     *)

\* journal.append raises and the journal is as it was (JournalFile has the line
\* that is cut short).  Most commands end by it.  A commit that was not recorded
\* fails its stage; elsewhere in _run_job the job is failed over whatever the
\* journal shows, even when a cancellation was being recorded.  Where the append
\* is all a command does (retry), failing is doing nothing and no step of its own.
AppendFails ==
    /\ faults < MaxFault /\ faults' = faults + 1
    /\ \/ /\ \/ w.pc \in {"open", "configure"}
             \/ At("create") /\ Existing # Jobs
             \/ At("interrupt") /\ Running # {}
             \/ At("invalidate") /\ w.todo # {}
             \/ At("closing") /\ \E j \in w.todo :
                   CancelDue(j) \/ \E s \in Stages : <<j, s>> \in Running
             \/ At("caught") /\ JobFails
             \/ /\ At("succeed") /\ batch[w.job].state # "succeeded"
                /\ ~CancelRequested(w.job) /\ SucceededOK(batch[w.job])
          /\ Stop /\ UNCHANGED leftover
       \/ At("commit") /\ Goto("fail") /\ UNCHANGED leftover
       \/ /\ w.pc \in {"invalidate-stage", "fail", "fail-job", "cancel", "cancel-job"}
          /\ Raise("error") /\ UNCHANGED leftover
       \/ /\ At("start") /\ StartedOK(batch[w.job], w.stage, batch[w.job].attempt[w.stage] + 1)
          /\ Raise("error") /\ leftover' = leftover \ {<<w.job, w.stage>>}
    /\ UNCHANGED <<journal, projected, markers, damaged, drifted, lost, env>>

-----------------------------------------------------------------------------
(* Requests: cancel and pause                                               *)

\* The GUI decides whether the batch is scheduled before it calls the gateway,
\* and takes it from the queue first if all of it is to be cancelled.  Job 0
\* stands for the whole batch.
RequestCancel(j) ==
    /\ CommandThreadFree
    /\ \/ /\ j = 0 /\ "cancel-batch" \in Offered /\ ~AllTerminal
          /\ queued' = NotQueued
       \/ /\ j \in Existing /\ "cancel-job" \in Offered /\ batch[j].state \notin Terminal
          /\ UNCHANGED queued
    /\ req' = [step |-> "cancel", job |-> j,
               scheduled |-> queued' # NotQueued \/ w.op \in {"execute", "resume", "retry"}]
    /\ UNCHANGED <<journal, projected, markers, files, w, crashes, faults, rots, driver>>

MarkCancel ==
    /\ req.step = "cancel"
    /\ \/ req.job = 0 /\ cancelBatch' = TRUE /\ UNCHANGED cancelJob
       \/ req.job # 0 /\ cancelJob' = cancelJob \union {req.job} /\ UNCHANGED cancelBatch
    /\ req' = IF ~Gui THEN NoRequest
              ELSE [req EXCEPT !.step = IF req.job = 0 THEN "drop-pause" ELSE "marked"]
    /\ UNCHANGED <<journal, projected, pause, files, queued, w, crashes, faults, rots, driver>>

DropPause ==
    /\ req.step = "drop-pause"
    /\ pause' = FALSE
    /\ req' = [req EXCEPT !.step = "marked"]
    /\ UNCHANGED <<journal, projected, cancelBatch, cancelJob, files, queued, w,
                   crashes, faults, rots, driver>>

\* An unscheduled batch whose lease is free is cancelled at once, under the
\* lease; otherwise the writer is trusted to see the marker.
FinalizeCancel ==
    /\ req.step = "marked"
    /\ req' = NoRequest
    /\ IF req.scheduled \/ ~At("idle") THEN UNCHANGED w
       ELSE w' = [Idle EXCEPT !.pc = "acknowledge", !.op = "cancel"]
    /\ UNCHANGED <<journal, projected, markers, files, queued, crashes, faults, rots, driver>>

RequestPause ==
    /\ "pause" \in Offered /\ Gui
    /\ CommandThreadFree
    /\ ~AllTerminal /\ ~cancelBatch
    /\ req' = [NoRequest EXCEPT !.step = "pause"]
    /\ UNCHANGED <<journal, projected, markers, files, queued, w, crashes, faults, rots, driver>>

MarkPause ==
    /\ req.step = "pause"
    /\ pause' = TRUE
    /\ req' = NoRequest
    /\ UNCHANGED <<journal, projected, cancelBatch, cancelJob, files, queued, w,
                   crashes, faults, rots, driver>>

RequestStep == MarkCancel \/ DropPause \/ FinalizeCancel \/ MarkPause

-----------------------------------------------------------------------------
(* The environment                                                          *)

\* The process disappears; durable state stays.
Crash ==
    /\ crashes < MaxCrash
    /\ ~Unscheduled \/ (Gui /\ req # NoRequest)
    /\ crashes' = crashes + 1
    /\ w' = Idle /\ queued' = NotQueued
    /\ req' = IF Gui THEN NoRequest ELSE req
    /\ UNCHANGED <<journal, projected, markers, files, faults, rots, driver>>

Rot(j, s) ==
    /\ rots < MaxRot
    /\ rots' = rots + 1
    /\ j \in Existing
    /\ \/ /\ "damage" \in Offered /\ batch[j].stage[s] = "committed"
          /\ damaged' = damaged \union {<<j, s>>} /\ UNCHANGED <<drifted, lost>>
       \/ /\ "drift" \in Offered /\ batch[j].stage[s] = "committed"
          /\ drifted' = drifted \union {<<j, s>>} /\ UNCHANGED <<damaged, lost>>
       \/ /\ "lose" \in Offered
          /\ lost' = lost \union {j} /\ UNCHANGED <<damaged, drifted>>
    /\ UNCHANGED <<journal, projected, markers, leftover, queued, w, req, crashes, faults, driver>>

WriterStep ==
    \/ CreateBatch \/ CreateJob \/ CreateManifest \/ ResumeStep \/ RetryManifest
    \/ AcknowledgeStep \/ RunStep \/ JobStep \/ AppendFails

Next ==
    \/ WriterStep \/ RequestStep \/ Execute \/ StartResume
    \/ \E j \in Jobs, s \in Stages : StartRetry(j, s) \/ Rot(j, s)
    \/ \E j \in Jobs \union {0} : RequestCancel(j)
    \/ RequestPause \/ Crash

Spec == Init /\ [][Next]_vars

\* The threads run: a command that has begun goes on, a request is carried
\* out, the coordinator executes what is queued.
Fairness == WF_vars(WriterStep) /\ WF_vars(RequestStep) /\ WF_vars(Execute)

\* ... and somebody resumes the batch as long as that is possible.
Operated == WF_vars(StartResume)

-----------------------------------------------------------------------------
(* Properties                                                               *)

Labels ==
    {"idle", "open", "create", "run", "configure", "configured", "reconcile", "interrupt", "verify",
     "invalidate", "workspaces", "unpause", "retried", "acknowledge", "closing", "unmark",
     "unmark-pause", "unmark-jobs", "run-acknowledged", "job", "job-pause", "stage",
     "stage-pause", "invalidate-stage", "workspace", "start", "started", "execute", "commit",
     "committed", "fail", "fail-job", "failed", "cancel", "cancel-job", "cancel-manifest",
     "caught", "caught-manifest", "cancelled", "succeed", "succeeded", "clear-marker",
     "after-job", "after-job-pause"}

\* What replay accepts, event by event: Journal's specification.
Replayed == INSTANCE Journal WITH MaxAttempt <- MaxAttempt + 1

\* The service implements the journal: every event it appends is one replay
\* accepts, in the state the journal is then in, and nothing else changes what
\* the journal says.  No command relies on an event that would be rejected
\* half-way, and no crash lets it append over a journal it has not read.
ImplementsJournal == Replayed!Spec

\* The variables keep their types; the local variables of the writer too.
TypeOK ==
    /\ batch \in [Jobs -> JobRecord] /\ cancelLogged \subseteq Jobs
    /\ {opened, projected, cancelBatch, pause, w.seen, w.whole} \subseteq BOOLEAN
    /\ cancelJob \union lost \union w.skip \union w.targets \subseteq Jobs
    /\ damaged \union drifted \union leftover \subseteq Jobs \X Stages
    /\ w.pc \in Labels /\ w.ret \in Labels /\ w.job \in 0..NJobs + 1
    /\ w.stage \in Stages \union {0}
    /\ w.error \in {"none", "error", "cancelled", "post-commit"}
    /\ queued \in [op : {"none", "execute", "resume", "retry"}, job : 0..NJobs,
                  stage : Stages \union {0}]
    /\ crashes \in 0..MaxCrash /\ faults \in 0..MaxFault /\ rots \in 0..MaxRot
    /\ driver \in Drivers

\* A stage is committed only on top of committed stages: across crashes,
\* retries, invalidations and new profiles, no stage keeps a result computed
\* from inputs that are no longer the committed ones.  (Replay alone does not
\* ensure it: it never looks past the preceding stage.)
CommittedPrefix ==
    \A j \in Existing : \A s, t \in Plan[batch[j].profile] :
        t < s /\ batch[j].stage[s] = "committed" => batch[j].stage[t] = "committed"

\* Until the first failed write or unexpected exception, a command that ends by
\* itself leaves a manifest of the whole journal, whichever of its returns and
\* errors it ends by, so that the next status and retry are not refused.  Named
\* exceptions: crashes, and an artifact damaged between the commit of its stage
\* and the verification after it (the error that ends the command, then, is
\* stage.post_commit_failed).
ManifestOnExit ==
    [][~At("idle") /\ w'.pc = "idle" /\ crashes' = crashes /\ faults' = 0
       => projected' \/ w.error = "post-commit"]_vars

\* A cancel marker is removed only with what it asked for.  The batch's: every
\* job has its verdict, no attempt is open and the manifest says so ("removes the
\* marker only after that write succeeds", docs/recovery.md).  A job's: the job
\* has a verdict that the manifest shows, and if it is cancelled the journal has
\* its job.cancelled.
CancelSettles ==
    [][/\ cancelBatch /\ ~cancelBatch' => AllTerminal /\ Running = {} /\ projected
       /\ \A j \in cancelJob \ cancelJob' :
             /\ batch[j].state \in Terminal /\ projected
             /\ batch[j].state = "cancelled" => j \in cancelLogged]_vars

\* "Failed and cancelled Jobs require an explicit `job.retry_requested` before
\* retry" (docs/invariants.md): nothing takes a job out of its verdict but a
\* retry of that job.  Named exceptions: a resume that finds one of its artifacts
\* damaged and invalidates the stage; a resume that closes an attempt which the
\* verdict had left open (the job is failed over an attempt whose end could not be
\* appended, or which an exception that is no AppError left open if its workspace
\* cannot be removed either); and a loop that comes to a job which was cancelled since it began.
RetryIsExplicit ==
    [][\A j \in Existing :
          batch[j].state \in {"failed", "cancelled"}
            /\ batch'[j].state \notin {"failed", "cancelled"}
          => \/ w'.pc = "retried" /\ w'.job = j
             \/ At("invalidate")
             \/ At("interrupt") /\ \E s \in Stages : batch[j].stage[s] = "running"
             \/ w.pc \in {"start", "invalidate-stage", "succeed"} /\ w.job = j /\ batch[j].state = "cancelled"]_vars

\* A batch that is resumed whenever it can be reaches verdicts for all its
\* jobs: no crash or damage between two steps leaves a state that every later
\* resume refuses or runs in vain.
EventuallySettled == <>[]AllTerminal

=============================================================================
