---------------------------- MODULE JournalProofs ----------------------------
(***************************************************************************)
(* Proofs about the journal, for any jobs, stages, profiles and plans, and *)
(* about what the stages contain.                                          *)
(*                                                                         *)
(* The invariants of Journal speak of one job at a time except             *)
(* CommonRuntime, so the work is done in lemmas on the transition          *)
(* functions of Replay: each keeps a job's record well formed (WellFormed  *)
(* below).  The step theorem only carries this from the one job an event   *)
(* names to the whole batch.                                               *)
(*                                                                         *)
(* StageContents implements Journal: its steps are events of the journal.  *)
(* And it is Fresh, with the stages and plans of the code (Pipeline):      *)
(* while a command runs, the stages behind it have the keys they would get *)
(* now, a key tells all that a stage was made of, and so, from the first   *)
(* stage on, each contains what it would contain if made now.              *)
(***************************************************************************)
EXTENDS StageContents, TLAPS

\* What holds of the record of every job: its type, a true verdict, and
\* nothing recorded for a stage outside its plan.
WellFormed(r) ==
    /\ r \in JobRecord
    /\ r.state = "succeeded" => AllCommitted(r)
    /\ \A s \in Stages \ Plan[r.profile] : r.stage[s] = "pending" /\ r.attempt[s] = 0

-----------------------------------------------------------------------------
(* The transition functions                                                 *)

\* A created job is well formed, and so is the record of an absent one:
\* _create_job.
LEMMA NewJobWellFormed ==
    ASSUME NEW p \in Profiles
    PROVE  WellFormed(NewJob(p)) /\ WellFormed(NoJob(p)) /\ NewJob(p).profile = p
BY PlanAssumption DEF WellFormed, NewJob, NoJob, JobRecord, JobStates, StageStates

\* stage.started keeps a record well formed: _apply_stage_event.
LEMMA StartedWellFormed ==
    ASSUME NEW r, WellFormed(r), NEW s \in Stages, NEW n \in Nat, StartedOK(r, s, n)
    PROVE  WellFormed(Started(r, s, n)) /\ Started(r, s, n).profile = r.profile
BY DEF WellFormed, Started, StartedOK, JobRecord, JobStates, StageStates

\* Closing the running attempt keeps a record well formed: _terminal_stage.
LEMMA ClosedWellFormed ==
    ASSUME NEW r, WellFormed(r), NEW s \in Stages, NEW n \in Nat, ClosedOK(r, s, n),
           NEW outcome \in Outcomes
    PROVE  WellFormed(Closed(r, s, outcome)) /\ Closed(r, s, outcome).profile = r.profile
BY DEF WellFormed, Closed, ClosedOK, Outcomes, JobRecord, JobStates, StageStates

\* Invalidating a suffix keeps a record well formed: _invalidate_suffix.
LEMMA InvalidatedWellFormed ==
    ASSUME NEW r, WellFormed(r), NEW s \in Stages, NEW n \in Nat, InvalidatedOK(r, s, n)
    PROVE  WellFormed(Invalidated(r, s)) /\ Invalidated(r, s).profile = r.profile
BY DEF WellFormed, Invalidated, InvalidatedOK, Suffix, JobRecord, JobStates, StageStates

\* Reopening a suffix keeps a record well formed: _retry_job.
LEMMA RetriedWellFormed ==
    ASSUME NEW r, WellFormed(r), NEW s \in Stages, RetryOK(r, s)
    PROVE  WellFormed(Retried(r, s)) /\ Retried(r, s).profile = r.profile
BY DEF WellFormed, Retried, RetryOK, Suffix, JobRecord, JobStates, StageStates

\* The verdict on a job keeps its record well formed; job.succeeded because
\* replay checks the stages first: _apply_job_terminal.
LEMMA EndedWellFormed ==
    ASSUME NEW r, WellFormed(r), NEW state \in {"succeeded", "failed", "cancelled"},
           state = "succeeded" => SucceededOK(r)
    PROVE  WellFormed(Ended(r, state)) /\ Ended(r, state).profile = r.profile
BY DEF WellFormed, Ended, SucceededOK, AllCommitted, JobRecord, JobStates

\* Projecting a job onto another plan keeps its record well formed:
\* _reconfigure_stages and the state change in _update_batch_config.
LEMMA ReconfiguredWellFormed ==
    ASSUME NEW r, WellFormed(r), r.state # "absent", NEW p \in Profiles,
           NEW boundary \in Stages
    PROVE  WellFormed(Reconfigured(r, p, boundary)) /\ Reconfigured(r, p, boundary).profile = p
<1> DEFINE q == Reconfigured(r, p, boundary)
<1>1. \A t \in Stages : ReconfiguredStage(r, p, boundary, t) \in StageStates
  BY DEF WellFormed, ReconfiguredStage, JobRecord, StageStates
<1>2. q \in JobRecord
  BY <1>1 DEF WellFormed, Reconfigured, JobRecord, JobStates
<1>3. q.state # "succeeded"
  BY DEF Reconfigured
<1>4. \A s \in Stages \ Plan[p] : q.stage[s] = "pending" /\ q.attempt[s] = 0
  BY DEF Reconfigured, ReconfiguredStage
<1> QED
  BY <1>2, <1>3, <1>4 DEF WellFormed, Reconfigured
-----------------------------------------------------------------------------
(* The batch                                                                *)

\* What every reachable batch satisfies.
Inv ==
    /\ TypeOK
    /\ \A j \in Jobs : WellFormed(batch[j])
    /\ CommonRuntime

\* The initial batch, with no event in the journal, satisfies Inv.
LEMMA InitInv == Init => Inv
<1> SUFFICES ASSUME Init PROVE Inv
  OBVIOUS
<1>1. PICK p \in Profiles : batch = [j \in Jobs |-> NoJob(p)]
  BY DEF Init
<1>2. Created = {}
  BY <1>1 DEF Created, NoJob, NewJob
<1> QED
  BY <1>1, <1>2, NewJobWellFormed DEF Init, Inv, TypeOK, CommonRuntime, WellFormed

\* An event about one job leaves Inv standing when the job's new record is
\* well formed and keeps its profile and its existence.
LEMMA ApplyInv ==
    ASSUME Inv, NEW j \in Jobs, NEW r, WellFormed(r), r.state # "absent",
           r.profile = batch[j].profile, Apply(j, r)
    PROVE  Inv'
<1>1. batch' = [batch EXCEPT ![j] = r] /\ opened' = opened /\ j \in Created
  BY DEF Apply
<1>2. \A k \in Jobs : batch'[k] = IF k = j THEN r ELSE batch[k]
  BY <1>1 DEF Inv, TypeOK
<1>3. \A k \in Jobs : batch'[k].profile = batch[k].profile
  BY <1>2
<1>4. Created' = Created
  BY <1>1, <1>2 DEF Created
<1>5. (\A k \in Jobs : WellFormed(batch[k]))'
  BY <1>2 DEF Inv
<1>6. CommonRuntime'
  BY <1>3, <1>4 DEF Inv, CommonRuntime, Created
<1> QED
  BY <1>1, <1>4, <1>5, <1>6 DEF Inv, TypeOK, WellFormed

\* Every event replay accepts preserves Inv.
LEMMA NextInv == Inv /\ [Next]_vars => Inv'
<1> SUFFICES ASSUME Inv, [Next]_vars PROVE Inv'
  OBVIOUS
<1>1. CASE BatchCreated
  BY <1>1 DEF BatchCreated, Inv, TypeOK, Created, CommonRuntime
<1>2. ASSUME NEW j \in Jobs, NEW p \in Profiles, JobCreated(j, p) PROVE Inv'
  <2>1. batch' = [batch EXCEPT ![j] = NewJob(p)] /\ opened' = opened /\ opened
    BY <1>2 DEF JobCreated
  <2>2. \A k \in Jobs : batch'[k] = IF k = j THEN NewJob(p) ELSE batch[k]
    BY <2>1 DEF Inv, TypeOK
  <2>3. \A k \in Created' : batch'[k].profile = p
    BY <1>2, <2>2, NewJobWellFormed DEF JobCreated, Created
  <2>4. (\A k \in Jobs : WellFormed(batch[k]))'
    BY <2>2, NewJobWellFormed DEF Inv
  <2> QED
    BY <2>1, <2>3, <2>4 DEF Inv, TypeOK, CommonRuntime, WellFormed
<1>3. ASSUME NEW j \in Jobs, NEW s \in Stages, NEW n \in 1..MaxAttempt, StageStarted(j, s, n)
      PROVE  Inv'
  <2>1. WellFormed(batch[j])
    BY DEF Inv
  <2>2. Started(batch[j], s, n).state # "absent"
    BY <2>1 DEF Started, WellFormed, JobRecord
  <2> QED
    BY <1>3, <2>1, <2>2, StartedWellFormed, ApplyInv, MaxAttemptAssumption DEF StageStarted
<1>4. ASSUME NEW j \in Jobs, NEW s \in Stages, NEW n \in 1..MaxAttempt,
             NEW outcome \in Outcomes, StageClosed(j, s, n, outcome)
      PROVE  Inv'
  <2>1. WellFormed(batch[j])
    BY DEF Inv
  <2>2. Closed(batch[j], s, outcome).state # "absent"
    BY <2>1 DEF Closed, Outcomes, WellFormed, JobRecord
  <2> QED
    BY <1>4, <2>1, <2>2, ClosedWellFormed, ApplyInv, MaxAttemptAssumption DEF StageClosed
<1>5. ASSUME NEW j \in Jobs, NEW s \in Stages, NEW n \in 1..MaxAttempt, StageInvalidated(j, s, n)
      PROVE  Inv'
  <2>1. WellFormed(batch[j])
    BY DEF Inv
  <2>2. Invalidated(batch[j], s).state # "absent"
    BY <2>1 DEF Invalidated, WellFormed, JobRecord
  <2> QED
    BY <1>5, <2>1, <2>2, InvalidatedWellFormed, ApplyInv, MaxAttemptAssumption
       DEF StageInvalidated
<1>6. ASSUME NEW j \in Jobs, NEW s \in Stages, RetryRequested(j, s) PROVE Inv'
  <2>1. WellFormed(batch[j])
    BY DEF Inv
  <2>2. Retried(batch[j], s).state # "absent"
    BY <2>1 DEF Retried, WellFormed, JobRecord
  <2> QED
    BY <1>6, <2>1, <2>2, RetriedWellFormed, ApplyInv DEF RetryRequested
<1>7. ASSUME NEW j \in Jobs, JobSucceeded(j) \/ JobFailed(j) \/ JobCancelled(j) PROVE Inv'
  <2>1. WellFormed(batch[j])
    BY DEF Inv
  <2>2. \A state \in {"succeeded", "failed", "cancelled"} :
            Ended(batch[j], state).state # "absent"
    BY <2>1 DEF Ended, WellFormed, JobRecord
  <2> QED
    BY <1>7, <2>1, <2>2, EndedWellFormed, ApplyInv DEF JobSucceeded, JobFailed, JobCancelled
<1>8. ASSUME NEW p \in Profiles, NEW boundary \in Stages, ConfigUpdated(p, boundary) PROVE Inv'
  <2>1. /\ opened' = opened
        /\ batch' = [j \in Jobs |-> IF j \in Created
                                    THEN Reconfigured(batch[j], p, boundary) ELSE batch[j]]
    BY <1>8 DEF ConfigUpdated
  <2>2. \A j \in Created : /\ WellFormed(batch'[j])
                           /\ batch'[j].profile = p
                           /\ batch'[j].state # "absent"
    BY <2>1, ReconfiguredWellFormed DEF Inv, Created, Reconfigured
  <2>3. \A j \in Jobs \ Created : batch'[j] = batch[j]
    BY <2>1
  <2>4. Created' = Created
    BY <2>2, <2>3 DEF Created
  <2>5. \A j \in Jobs : WellFormed(batch'[j])
    BY <2>2, <2>3 DEF Inv
  <2>6. TypeOK'
    BY <2>1, <2>4, <2>5 DEF Inv, TypeOK, WellFormed
  <2> QED
    BY <2>2, <2>4, <2>5, <2>6 DEF Inv, CommonRuntime
<1>9. CASE UNCHANGED vars
  BY <1>9 DEF vars, Inv, TypeOK, Created, CommonRuntime
<1> QED
  BY <1>1, <1>2, <1>3, <1>4, <1>5, <1>6, <1>7, <1>8, <1>9 DEF Next, JobEvent
-----------------------------------------------------------------------------
(* The theorems                                                             *)

\* The invariant holds throughout.
LEMMA SpecInv == Spec => []Inv
BY InitInv, NextInv, PTL DEF Spec

\* Replay never leaves the projection's types: the whole of apply_event.
THEOREM Typed == Spec => []TypeOK
BY SpecInv, PTL DEF Inv

\* "succeeded" in a projection always means a fully committed plan, for any
\* event sequence replay accepts.
THEOREM SucceededIsComplete == Spec => []SucceededComplete
<1>1. Inv => SucceededComplete
  BY DEF Inv, WellFormed, SucceededComplete
<1> QED
  BY <1>1, SpecInv, PTL

\* All jobs share one runtime configuration at every event boundary, for any
\* number of jobs.
THEOREM RuntimeIsCommon == Spec => []CommonRuntime
BY SpecInv, PTL DEF Inv

\* Profile changes leave no record for a stage that is not planned.
THEOREM NoPlaceholders == Spec => []NoPlaceholder
<1>1. Inv => NoPlaceholder
  BY DEF Inv, WellFormed, NoPlaceholder
<1> QED
  BY <1>1, SpecInv, PTL

\* What one event does to one existing job is one of these; the two action
\* properties follow from each in turn.
JobStep(r, q) ==
    \/ q = r
    \/ \E s \in Stages, n \in Nat : StartedOK(r, s, n) /\ q = Started(r, s, n)
    \/ \E s \in Stages, n \in Nat, outcome \in Outcomes :
          ClosedOK(r, s, n) /\ q = Closed(r, s, outcome)
    \/ \E s \in Stages : q = Invalidated(r, s)
    \/ \E s \in Stages : q = Retried(r, s)
    \/ \E state \in JobStates : q = Ended(r, state)
    \/ \E p \in Profiles, boundary \in Stages : q = Reconfigured(r, p, boundary)

\* Every event is a JobStep of each job that exists.
LEMMA NextIsJobStep ==
    ASSUME TypeOK, [Next]_vars, NEW j \in Created
    PROVE  JobStep(batch[j], batch'[j])
<1>1. j \in Jobs
  BY DEF Created
<1>2. CASE UNCHANGED vars \/ BatchCreated
  BY <1>2 DEF vars, BatchCreated, JobStep
<1>3. ASSUME NEW k \in Jobs, NEW p \in Profiles, JobCreated(k, p) PROVE JobStep(batch[j], batch'[j])
  BY <1>1, <1>3 DEF JobCreated, TypeOK, JobStep
<1>4. ASSUME NEW k \in Jobs, NEW s \in Stages, NEW n \in 1..MaxAttempt,
             \/ StageStarted(k, s, n)
             \/ StageInvalidated(k, s, n)
             \/ \E outcome \in Outcomes : StageClosed(k, s, n, outcome)
      PROVE  JobStep(batch[j], batch'[j])
  <2>1. n \in Nat
    BY MaxAttemptAssumption
  <2>2. CASE k # j
    BY <1>1, <1>4, <2>2 DEF StageStarted, StageInvalidated, StageClosed, Apply, TypeOK, JobStep
  <2>3. CASE k = j
    BY <1>1, <1>4, <2>1, <2>3 DEF StageStarted, StageInvalidated, StageClosed, Apply, TypeOK, JobStep
  <2> QED
    BY <2>2, <2>3
<1>5. ASSUME NEW k \in Jobs, NEW s \in Stages, RetryRequested(k, s) PROVE JobStep(batch[j], batch'[j])
  BY <1>1, <1>5 DEF RetryRequested, Apply, TypeOK, JobStep
<1>6. ASSUME NEW k \in Jobs, JobSucceeded(k) \/ JobFailed(k) \/ JobCancelled(k)
      PROVE  JobStep(batch[j], batch'[j])
  BY <1>1, <1>6 DEF JobSucceeded, JobFailed, JobCancelled, Apply, TypeOK, JobStep, JobStates
<1>7. ASSUME NEW p \in Profiles, NEW boundary \in Stages, ConfigUpdated(p, boundary)
      PROVE  JobStep(batch[j], batch'[j])
  BY <1>1, <1>7 DEF ConfigUpdated, JobStep
<1> QED
  BY <1>2, <1>3, <1>4, <1>5, <1>6, <1>7 DEF Next, JobEvent

\* A JobStep never lowers the attempt number of a stage planned before and after.
LEMMA JobStepAttempts ==
    ASSUME NEW r \in JobRecord, NEW q, JobStep(r, q), NEW s \in Plan[r.profile] \intersect Plan[q.profile],
           s \in Stages
    PROVE  q.attempt[s] >= r.attempt[s]
<1>1. r.attempt[s] \in Nat
  BY DEF JobRecord
<1>2. CASE \E t \in Stages, n \in Nat : StartedOK(r, t, n) /\ q = Started(r, t, n)
  BY <1>1, <1>2 DEF JobRecord, StartedOK, Started
<1>3. CASE q.attempt = r.attempt
  BY <1>1, <1>3
<1>4. CASE \E p \in Profiles, boundary \in Stages : q = Reconfigured(r, p, boundary)
  BY <1>1, <1>4 DEF Reconfigured
<1>5. CASE \/ q = r
           \/ \E t \in Stages, n \in Nat, outcome \in Outcomes : q = Closed(r, t, outcome)
           \/ \E t \in Stages : q = Invalidated(r, t) \/ q = Retried(r, t)
           \/ \E state \in JobStates : q = Ended(r, state)
  <2>1. q.attempt = r.attempt
    BY <1>5 DEF JobRecord, Closed, Invalidated, Retried, Ended
  <2> QED
    BY <1>1, <2>1
<1> QED
  BY <1>2, <1>3, <1>4, <1>5 DEF JobStep

\* The attempt numbers of a planned stage only grow, across retries,
\* invalidations and changes of configuration.
THEOREM AttemptsOnlyGrow == Spec => AttemptsGrow
<1>1. ASSUME Inv, [Next]_vars
      PROVE  \A j \in Created : \A s \in Plan[batch[j].profile] \intersect Plan[batch[j].profile]' :
                 batch'[j].attempt[s] >= batch[j].attempt[s]
  <2> SUFFICES ASSUME NEW j \in Created, NEW s \in Plan[batch[j].profile] \intersect Plan[batch'[j].profile]
               PROVE  batch'[j].attempt[s] >= batch[j].attempt[s]
    OBVIOUS
  <2>1. batch[j] \in JobRecord /\ s \in Stages
    BY <1>1, PlanAssumption DEF Inv, TypeOK, Created, JobRecord
  <2> QED
    BY <1>1, <2>1, NextIsJobStep, JobStepAttempts DEF Inv
<1> QED
  BY <1>1, SpecInv, PTL DEF Spec, AttemptsGrow

\* A JobStep commits only the running attempt and starts only a larger one.
LEMMA JobStepCommits ==
    ASSUME NEW r \in JobRecord, NEW q, JobStep(r, q), NEW s \in Stages
    PROVE  /\ q.stage[s] = "committed" /\ r.stage[s] # "committed"
                => r.stage[s] = "running" /\ q.attempt[s] = r.attempt[s]
           /\ q.stage[s] = "running" /\ r.stage[s] # "running"
                => q.attempt[s] > r.attempt[s]
<1>1. CASE \E p \in Profiles, boundary \in Stages : q = Reconfigured(r, p, boundary)
  BY <1>1 DEF Reconfigured, ReconfiguredStage
<1>2. CASE \E t \in Stages : q = Invalidated(r, t) \/ q = Retried(r, t)
  <2>1. PICK t \in Stages : q = Invalidated(r, t) \/ q = Retried(r, t)
    BY <1>2
  <2>2. CASE q = Invalidated(r, t)
    <3>1. q.stage[s] = r.stage[s] \/ q.stage[s] = "invalidated"
      BY <2>2 DEF JobRecord, Invalidated
    <3> QED
      BY <3>1
  <2>3. CASE q = Retried(r, t)
    <3>1. q.stage[s] = r.stage[s] \/ q.stage[s] = "pending"
      BY <2>3 DEF JobRecord, Retried
    <3> QED
      BY <3>1
  <2> QED
    BY <2>1, <2>2, <2>3
<1>3. CASE \E t \in Stages, n \in Nat : StartedOK(r, t, n) /\ q = Started(r, t, n)
  BY <1>3 DEF JobRecord, StartedOK, Started
<1>4. CASE \E t \in Stages, n \in Nat, outcome \in Outcomes :
              ClosedOK(r, t, n) /\ q = Closed(r, t, outcome)
  BY <1>4 DEF JobRecord, ClosedOK, Closed, Outcomes
<1>5. CASE q = r \/ \E state \in JobStates : q = Ended(r, state)
  BY <1>5 DEF JobRecord, Ended
<1> QED
  BY <1>1, <1>2, <1>3, <1>4, <1>5 DEF JobStep

\* One commit per attempt number, for any event sequence replay accepts.
THEOREM CommitsOnce == Spec => CommitOnce
<1> DEFINE Commits == \A j \in Created : \A s \in Stages :
              /\ batch'[j].stage[s] = "committed" /\ batch[j].stage[s] # "committed"
                    => batch[j].stage[s] = "running" /\ batch'[j].attempt[s] = batch[j].attempt[s]
              /\ batch'[j].stage[s] = "running" /\ batch[j].stage[s] # "running"
                    => batch'[j].attempt[s] > batch[j].attempt[s]
<1>1. ASSUME Inv, [Next]_vars PROVE Commits
  <2> SUFFICES ASSUME NEW j \in Created, NEW s \in Stages
               PROVE  /\ batch'[j].stage[s] = "committed" /\ batch[j].stage[s] # "committed"
                           => batch[j].stage[s] = "running" /\ batch'[j].attempt[s] = batch[j].attempt[s]
                      /\ batch'[j].stage[s] = "running" /\ batch[j].stage[s] # "running"
                           => batch'[j].attempt[s] > batch[j].attempt[s]
    OBVIOUS
  <2>1. batch[j] \in JobRecord
    BY <1>1 DEF Inv, TypeOK, Created
  <2> QED
    BY <1>1, <2>1, NextIsJobStep, JobStepCommits DEF Inv
<1> QED
  BY <1>1, SpecInv, PTL DEF Spec, CommitOnce

-----------------------------------------------------------------------------
(* The stages' contents: every step is an event of the journal              *)

\* The number of an attempt is within the bound, and a stage that is running
\* or committed has one.
Numbered(r) ==
    \A s \in Stages :
        /\ r.attempt[s] <= MaxAttempt
        /\ r.stage[s] \in {"running", "committed"} => r.attempt[s] >= 1

InvJob == Inv /\ Numbered(rec)

\* The job whose stages are followed is one of the jobs.
LEMMA JobIsOne == job \in Jobs
BY ContentsAssumption DEF job

\* A job that has not run has no attempts.
LEMMA CreatedIsNumbered ==
    ASSUME NEW p \in Profiles
    PROVE  Numbered(NewJob(p)) /\ Numbered(NoJob(p))
BY MaxAttemptAssumption DEF Numbered, NewJob, NoJob

\* What an event of the job does to its record.
LEMMA AppliedToJob ==
    ASSUME Inv, NEW r, Apply(job, r)
    PROVE  rec' = r /\ rec \in JobRecord /\ WellFormed(rec)
BY JobIsOne DEF Inv, TypeOK, Apply, rec

\* A journal begins empty, and its job without attempts.
LEMMA InitInvJob == InitContents => InvJob
<1> SUFFICES ASSUME InitContents PROVE InvJob
  OBVIOUS
<1>1. PICK p \in Profiles : batch = [j \in Jobs |-> NoJob(p)]
  BY DEF InitContents, Init
<1>2. rec = NoJob(p)
  BY <1>1, JobIsOne DEF rec
<1> QED
  BY <1>2, InitInv, CreatedIsNumbered DEF InitContents, InvJob

\* Every step of a command and of the world around it is an event that replay
\* accepts, within the bound on attempts, or leaves the journal as it is.
LEMMA NextIsEvent ==
    ASSUME InvJob, [NextContents]_allVars
    PROVE  [Next]_vars /\ Numbered(rec')
<1> USE DEF InvJob
<1>0. job \in Jobs /\ rec = batch[job] /\ rec \in JobRecord /\ WellFormed(rec) /\ Numbered(rec)
  BY JobIsOne DEF rec, Inv, TypeOK
<1>p. plan \subseteq Stages
  BY <1>0, PlanAssumption DEF plan, JobRecord
<1>u. CASE UNCHANGED vars
  BY <1>u DEF vars, rec
<1>1. CASE Create
  <2>1. CASE BatchCreated
    BY <1>0, <2>1 DEF BatchCreated, rec, Next
  <2>2. CASE JobCreated(job, rec.profile)
    <3>1. rec' = NewJob(rec.profile) /\ rec.profile \in Profiles
      BY <1>0, <2>2 DEF JobCreated, Inv, TypeOK, rec, JobRecord
    <3> QED
      BY <1>0, <2>2, <3>1, CreatedIsNumbered DEF Next, JobEvent
  <2> QED
    BY <1>1, <2>1, <2>2 DEF Create
<1>2. ASSUME NEW s \in Stages, NEW outcome \in Outcomes,
             s \in Open, StageClosed(job, s, rec.attempt[s], outcome)
      PROVE  [Next]_vars /\ Numbered(rec')
  <2>1. rec.attempt[s] \in 1..MaxAttempt
    BY <1>0, <1>2, MaxAttemptAssumption DEF Open, Numbered, JobRecord
  <2>2. [Next]_vars
    BY <1>0, <1>2, <2>1 DEF Next, JobEvent
  <2>3. rec' = Closed(rec, s, outcome)
    BY <1>0, <1>2, AppliedToJob DEF StageClosed
  <2> QED
    BY <1>0, <2>1, <2>2, <2>3 DEF Numbered, Closed, JobRecord
<1>3. CASE Interrupt
  BY <1>2, <1>3, <1>p DEF Interrupt, Open, Outcomes
<1>4. CASE Override
  <2>1. PICK q \in Profiles : \E boundary \in Plan[q] : ConfigUpdated(q, boundary)
    BY <1>4 DEF Override, ConfigUpdated
  <2>2. PICK boundary \in Stages : ConfigUpdated(q, boundary)
    BY <2>1, PlanAssumption
  <2>3. rec' = Reconfigured(rec, q, boundary)
    BY <1>0, <1>4, <2>2 DEF ConfigUpdated, Override, Idle, rec
  <2>4. Numbered(rec')
    BY <1>0, <2>3, MaxAttemptAssumption
       DEF Numbered, Reconfigured, ReconfiguredStage, JobRecord, StageStates
  <2> QED
    BY <2>2, <2>4 DEF Next
<1>5. CASE Retry
  <2>1. PICK s \in plan : RetryRequested(job, s)
    BY <1>5 DEF Retry
  <2>2. [Next]_vars
    BY <1>0, <1>p, <2>1 DEF Next, JobEvent
  <2>3. rec' = Retried(rec, s)
    BY <1>0, <2>1, AppliedToJob DEF RetryRequested
  <2>4. Numbered(rec')
    BY <1>0, <2>3 DEF Numbered, Retried, JobRecord
  <2> QED
    BY <2>2, <2>4
<1>6. CASE Invalidate
  <2>1. next \in Stages /\ StageInvalidated(job, next, rec.attempt[next]) /\ Committed(next)
    BY <1>6, <1>p DEF Invalidate, InLoop
  <2>2. rec.attempt[next] \in 1..MaxAttempt
    BY <1>0, <2>1, MaxAttemptAssumption DEF Committed, Numbered, JobRecord
  <2>3. [Next]_vars
    BY <1>0, <2>1, <2>2 DEF Next, JobEvent
  <2>4. rec' = Invalidated(rec, next)
    BY <1>0, <2>1, AppliedToJob DEF StageInvalidated
  <2>5. Numbered(rec')
    BY <1>0, <2>4 DEF Numbered, Invalidated, JobRecord
  <2> QED
    BY <2>3, <2>5
<1>7. CASE Start
  <2> DEFINE n == rec.attempt[next] + 1
  <2>1. next \in Stages /\ StageStarted(job, next, n)
    BY <1>7, <1>p DEF Start, InLoop
  <2>2. n \in 1..MaxAttempt
    BY <1>0, <1>7, <2>1, MaxAttemptAssumption DEF Start, JobRecord
  <2>3. [Next]_vars
    BY <1>0, <2>1, <2>2 DEF Next, JobEvent
  <2>4. rec' = Started(rec, next, n)
    BY <1>0, <2>1, AppliedToJob DEF StageStarted
  <2>5. Numbered(rec')
    BY <1>0, <2>2, <2>4 DEF Numbered, Started, JobRecord
  <2> QED
    BY <2>3, <2>5
<1>8. CASE Commit \/ Fail
  BY <1>2, <1>8, <1>p DEF Commit, Fail, Open, Outcomes
<1>9. CASE Succeed
  <2>1. rec' = Ended(rec, "succeeded")
    BY <1>0, <1>9, AppliedToJob DEF Succeed, JobSucceeded
  <2>2. Numbered(rec')
    BY <1>0, <2>1 DEF Numbered, Ended, JobRecord
  <2> QED
    BY <1>0, <1>9, <2>2 DEF Succeed, Next, JobEvent
<1>10. CASE Resume \/ Keep \/ Crash \/ End \/ ChangeSource \/ ChangeProvider \/ UNCHANGED allVars
  <2>1. UNCHANGED vars
    BY <1>10 DEF Resume, Keep, Crash, End, ChangeSource, ChangeProvider, allVars
  <2> QED
    BY <1>u, <2>1
<1> QED
  BY <1>1, <1>3, <1>4, <1>5, <1>6, <1>7, <1>8, <1>9, <1>10 DEF NextContents

\* Every step keeps what NextIsEvent needs.
LEMMA NextInvJob == InvJob /\ [NextContents]_allVars => InvJob'
BY NextIsEvent, NextInv DEF InvJob, Numbered, rec

\* So it holds throughout.
LEMMA SpecInvJob == SpecContents => []InvJob
BY InitInvJob, NextInvJob, PTL DEF SpecContents

\* Whatever a command does with the stages and their contents, whatever changes
\* under it and wherever it dies, it writes a journal that replay accepts; all
\* that is proved of those holds of its batches.
THEOREM ContentsImplementJournal == SpecContents => Spec
<1>1. InitContents => Init
  BY DEF InitContents
<1>2. InvJob /\ [NextContents]_allVars => [Next]_vars
  BY NextIsEvent
<1> QED
  BY <1>1, <1>2, SpecInvJob, PTL DEF SpecContents, Spec

-----------------------------------------------------------------------------
(* The stages' contents: what the pipeline of the code makes sure of        *)

\* The plans agree on the first three stages and on the last.
LEMMA PlanFacts ==
    ASSUME Pipeline, NEW p \in Profiles
    PROVE  /\ Plan[p] \subseteq Stages
           /\ {INSPECT, NORMALIZE, TRANSCRIBE, PUBLISH} \subseteq Plan[p]
BY DEF Pipeline, StagePlan, INSPECT, NORMALIZE, TRANSCRIBE, CORRECT_SOURCE, SEGMENT,
       TRANSLATE, REVIEW, EXPORT, PUBLISH

\* The stages one by one.
LEMMA StageNumbers ==
    ASSUME Pipeline
    PROVE  Stages = {1, 2, 3, 4, 5, 6, 7, 8, 9}
BY DEF Pipeline, INSPECT, PUBLISH

\* Some stages have a first one and a last one.
LEMMA Ends ==
    ASSUME Pipeline, NEW S \in SUBSET Stages, S # {}
    PROVE  /\ \E s \in S : \A t \in S : s <= t
           /\ \E s \in S : \A t \in S : t <= s
<1>1. \A s \in S : s \in {1, 2, 3, 4, 5, 6, 7, 8, 9}
  BY StageNumbers
<1>2. PICK u \in S : TRUE
  OBVIOUS
<1>3. \E s \in S : \A t \in S : s <= t
  BY <1>1, <1>2, SMTT(60)
<1>4. \E s \in S : \A t \in S : t <= s
  BY <1>1, <1>2, SMTT(60)
<1> QED
  BY <1>3, <1>4

\* A stage reads earlier stages of its plan.
LEMMA UsesEarlier ==
    ASSUME Pipeline, NEW p \in Profiles, NEW s \in Stages
    PROVE  Uses(p, s) \subseteq {t \in Plan[p] : t < s}
<1>1. Runners(p)[s].uses \subseteq {t \in Stages : t < s}
  <2>1. s \in {1, 2, 3, 4, 5, 6, 7, 8, 9} /\ p \in {"deterministic", "fast", "quality"}
    BY StageNumbers DEF Pipeline
  <2> QED
    BY <2>1, StageNumbers
       DEF Runners, Inspect, Normalize, Transcribe, CorrectSource, Segment, TranslateFast,
           TranslateQuality, Review, Export, Publish, LlmReads, INSPECT, NORMALIZE, TRANSCRIBE,
           CORRECT_SOURCE, SEGMENT, TRANSLATE, REVIEW, EXPORT
<1> QED
  BY <1>1 DEF Uses

\* A command begins with INSPECT.
LEMMA FirstIsInspect ==
    ASSUME Pipeline, NEW p \in Profiles
    PROVE  FirstOf(p) = INSPECT
<1>1. INSPECT \in Plan[p] /\ Plan[p] \subseteq Stages
  BY PlanFacts
<1>2. \A t \in Plan[p] : INSPECT <= t
  BY <1>1, StageNumbers DEF INSPECT
<1>3. \A s \in Plan[p] : (\A t \in Plan[p] : s <= t) => s = INSPECT
  BY <1>1, <1>2, StageNumbers DEF INSPECT
<1> QED
  BY <1>1, <1>2, <1>3 DEF FirstOf

\* After a stage comes the next one of the plan.
LEMMA AfterIsNext ==
    ASSUME Pipeline, rec.profile \in Profiles, NEW s \in plan
    PROVE  /\ After(s) \in plan \union {PUBLISH + 1}
           /\ After(s) # 0
           /\ s < After(s)
           /\ \A t \in plan : t < After(s) => t <= s
<1>1. plan \subseteq Stages /\ PUBLISH \in plan
  BY PlanFacts DEF plan
<1>2. CASE s = PUBLISH
  BY <1>1, <1>2, StageNumbers DEF After, PUBLISH
<1>3. CASE s # PUBLISH
  <2> DEFINE Later == {t \in plan : t > s}
  <2>1. PUBLISH > s
    BY <1>1, <1>3, StageNumbers DEF PUBLISH
  <2>2. Later \in SUBSET Stages /\ Later # {}
    BY <1>1, <2>1
  <2>3. \E t \in Later : \A u \in Later : t <= u
    BY <2>2, Ends
  <2>4. \E t \in plan : t > s /\ \A u \in plan : u > s => t <= u
    BY <2>3
  <2>5. After(s) \in plan /\ After(s) > s /\ \A u \in plan : u > s => After(s) <= u
    BY <1>3, <2>4 DEF After
  <2> QED
    BY <1>1, <2>5, StageNumbers
<1> QED
  BY <1>2, <1>3

\* A resume with another profile begins anew before the first stage that the
\* old plan did not have: _earliest_change.
LEMMA ChangeBeforeNewStages ==
    ASSUME Pipeline, NEW p \in Profiles, NEW q \in Profiles, NEW c, NEW d,
           NEW t \in Plan[q] \ Plan[p]
    PROVE  EarliestChange(c, p, d, q) <= t
<1> DEFINE Why ==
        (IF p = q THEN {}
         ELSE CASE q = "quality" -> {CORRECT_SOURCE}
                [] q # "quality" /\ p = "quality" -> {SEGMENT}
                [] q = "fast" /\ p = "deterministic" -> {TRANSLATE}
                [] OTHER -> {SEGMENT})
        \union (IF NoLlm \in {c.llm, d.llm} THEN {}
                ELSE {s \in {LlmStage(q)} : c.llm.provider # d.llm.provider \/ p # q}
                        \union {s \in {TRANSLATE} : c.llm.target # d.llm.target})
        \union {s \in {PUBLISH} : c.output # d.output}
<1>1. /\ p \in {"deterministic", "fast", "quality"} /\ q \in {"deterministic", "fast", "quality"}
      /\ p # q
      /\ t \in {CORRECT_SOURCE, TRANSLATE, REVIEW}
      /\ q # "quality" => t = TRANSLATE /\ q = "fast" /\ p = "deterministic"
  BY DEF Pipeline, StagePlan, INSPECT, NORMALIZE, TRANSCRIBE, CORRECT_SOURCE, SEGMENT,
         TRANSLATE, REVIEW, EXPORT, PUBLISH
<1>2. \E s \in Why : s <= t
  BY <1>1 DEF CORRECT_SOURCE, TRANSLATE, REVIEW
<1>3. Why \in SUBSET Stages
  BY StageNumbers DEF LlmStage, CORRECT_SOURCE, SEGMENT, TRANSLATE, PUBLISH
<1>4. \E s \in Why : \A u \in Why : s <= u
  BY <1>2, <1>3, Ends
<1>5. Earliest(Why) \in Why /\ \A u \in Why : Earliest(Why) <= u
  BY <1>4 DEF Earliest
<1>6. Earliest(Why) <= t
  <2> HIDE DEF Why
  <2>1. t \in Stages
    BY PlanFacts
  <2> QED
    BY <1>2, <1>3, <1>5, <2>1, StageNumbers
<1>7. TRANSCRIBE <= t
  BY <1>1 DEF TRANSCRIBE, CORRECT_SOURCE, TRANSLATE, REVIEW
<1> QED
  BY <1>6, <1>7 DEF EarliestChange

-----------------------------------------------------------------------------
(* The invariant behind Fresh                                               *)

\* A stage that is committed or running has all stages before it committed.
Prefix ==
    \A s \in plan : \A t \in plan :
        t < s /\ rec.stage[s] \in {"committed", "running"} => Committed(t)

\* A command has the stages behind it committed.
InRun ==
    Running =>
        /\ rec.state # "absent"
        /\ next \in plan \union {PUBLISH + 1}
        /\ \A t \in plan : t < next => Committed(t)

\* Stage s would get the key it has.  INSPECT only as long as the source is
\* the one it was given, or a change since then is known: to mixed, until
\* NORMALIZE is committed.
KeyIsNow(s) ==
    IF s = INSPECT
    THEN /\ key[s][1][1] = rec.profile
         /\ ~moved \/ (~mixed /\ ~Committed(NORMALIZE)) => key[s] = CacheKey(s)
    ELSE key[s] = CacheKey(s)

\* So it is for the stages a command has behind it and for the one it runs.
KeysAreNow ==
    Running => \A s \in plan : s < next \/ (s = next /\ s \in Open) => KeyIsNow(s)

\* What a stage contains was made under options that its key tells, from the
\* artifacts its key names.
Made(s) ==
    \E p \in Profiles : \E c \in Configs(p) :
        /\ key[s][1] = KeyOptions(c, p, s)
        /\ output[s] = {<<s, option, Value(c, p, option)>> : option \in Runners(p)[s].reads}
                          \union UNION {key[s][2][t] : t \in Uses(p, s)}

AllMade == \A s \in plan \ {INSPECT, NORMALIZE} : Committed(s) => Made(s)

\* INSPECT and NORMALIZE have read the source that INSPECT's key names.
SourceRead ==
    ~mixed =>
        /\ Committed(INSPECT) => output[INSPECT] = {<<INSPECT, "source", key[INSPECT][1][2][1]>>}
        /\ Committed(NORMALIZE) =>
              output[NORMALIZE] =
                  {<<NORMALIZE, "source", key[INSPECT][1][2][1]>>} \union output[INSPECT]

\* NORMALIZE's key is that of what INSPECT contains: while INSPECT is kept, so
\* is NORMALIZE.
NormalizeFollows ==
    Committed(NORMALIZE) =>
        key[NORMALIZE] = <<<<key[INSPECT][1][1], <<>>>>, [t \in {INSPECT} |-> output[INSPECT]]>>

Shaped ==
    /\ config \in Configs(rec.profile)
    /\ key = [s \in Stages |-> key[s]]
    /\ output = [s \in Stages |-> output[s]]

InLoopInv == Prefix /\ InRun /\ KeysAreNow
MadeInv == AllMade /\ SourceRead /\ NormalizeFollows

InvContents == InvJob /\ Shaped /\ InLoopInv /\ MadeInv

\* The part of InvContents that is about the journal, spelled out.
LEMMA RecordFacts ==
    ASSUME InvJob, Pipeline
    PROVE  /\ rec \in JobRecord
           /\ rec.profile \in Profiles
           /\ plan = Plan[rec.profile]
           /\ plan \subseteq Stages
           /\ {INSPECT, NORMALIZE, TRANSCRIBE, PUBLISH} \subseteq plan
           /\ job \in Jobs
           /\ rec.state # "absent" => opened
           /\ \A s \in Stages : Committed(s) => s \in plan
<1>1. job \in Jobs /\ rec = batch[job] /\ WellFormed(rec) /\ TypeOK
  BY JobIsOne DEF InvJob, Inv, rec
<1>2. rec \in JobRecord /\ rec.profile \in Profiles /\ plan = Plan[rec.profile]
  BY <1>1 DEF WellFormed, JobRecord, plan
<1>3. rec.state # "absent" => opened
  BY <1>1 DEF TypeOK, Created
<1>4. \A s \in Stages : Committed(s) => s \in plan
  BY <1>1, <1>2 DEF WellFormed, Committed
<1> QED
  BY <1>1, <1>2, <1>3, <1>4, PlanFacts

\* The key of a stage depends on its options and on the committed artifacts of
\* the stages before it; the source counts for INSPECT only.
LEMMA SameKey ==
    ASSUME NEW s, rec.profile' = rec.profile, config' = config,
           s = INSPECT => source' = source,
           \A t \in plan : t < s => (Committed(t)' <=> Committed(t)) /\ output'[t] = output[t]
    PROVE  CacheKey(s)' = CacheKey(s)
<1>1. plan' = plan
  BY DEF plan
<1>2. Inputs(s)' = Inputs(s)
  BY <1>1 DEF Inputs
<1>3. KeyOptions(config, rec.profile, s)' = KeyOptions(config, rec.profile, s)
  BY DEF KeyOptions, Snapshot, TRANSCRIBE, INSPECT, CORRECT_SOURCE, TRANSLATE, REVIEW, EXPORT, PUBLISH
<1>4. \A t \in Inputs(s) : output'[t] = output[t]
  BY DEF Inputs
<1> QED
  BY <1>2, <1>3, <1>4 DEF CacheKey

\* A key is a pair of options and inputs; the first of the options is the
\* profile, and the options of INSPECT hold the source.
LEMMA KeyParts ==
    ASSUME NEW s
    PROVE  /\ CacheKey(s)[1] = KeyOptions(config, rec.profile, s)
           /\ CacheKey(s)[2] = [t \in Inputs(s) |-> output[t]]
           /\ CacheKey(s)[1][1] = rec.profile
           /\ CacheKey(INSPECT)[1][2][1] = source
           /\ s = NORMALIZE => CacheKey(s)[1] = <<rec.profile, <<>>>>
BY DEF CacheKey, KeyOptions, INSPECT, NORMALIZE, TRANSCRIBE, CORRECT_SOURCE, TRANSLATE, REVIEW,
       EXPORT, PUBLISH

\* From TRANSCRIBE on no stage reads the source.
LEMMA NoSource ==
    ASSUME Pipeline, NEW p \in Profiles, NEW s \in Stages \ {INSPECT, NORMALIZE}
    PROVE  "source" \notin Runners(p)[s].reads
<1>1. s \in {3, 4, 5, 6, 7, 8, 9} /\ p \in {"deterministic", "fast", "quality"}
  BY StageNumbers DEF Pipeline, INSPECT, NORMALIZE
<1> QED
  BY <1>1 DEF Runners, Transcribe, CorrectSource, Segment, TranslateFast, TranslateQuality, Review,
              Export, Publish, LlmReads

\* So what the key of such a stage says of its contents does not change with it.
LEMMA MadeSame ==
    ASSUME Pipeline, NEW s \in Stages \ {INSPECT, NORMALIZE}, Made(s),
           key'[s] = key[s], output'[s] = output[s]
    PROVE  Made(s)'
<1>1. PICK p \in Profiles : \E c \in Configs(p) :
          /\ key[s][1] = KeyOptions(c, p, s)
          /\ output[s] = {<<s, option, Value(c, p, option)>> : option \in Runners(p)[s].reads}
                            \union UNION {key[s][2][t] : t \in Uses(p, s)}
  BY DEF Made
<1>2. PICK c \in Configs(p) :
          /\ key[s][1] = KeyOptions(c, p, s)
          /\ output[s] = {<<s, option, Value(c, p, option)>> : option \in Runners(p)[s].reads}
                            \union UNION {key[s][2][t] : t \in Uses(p, s)}
  BY <1>1
<1>3. KeyOptions(c, p, s)' = KeyOptions(c, p, s)
  BY DEF KeyOptions
<1>4. \A option \in Runners(p)[s].reads : Value(c, p, option)' = Value(c, p, option)
  BY NoSource DEF Value
<1> QED
  BY <1>2, <1>3, <1>4 DEF Made

\* What a stage is made of stays what it is while it is neither started nor
\* committed again.
LEMMA MadeKept ==
    ASSUME Pipeline, InvJob, Shaped, MadeInv, rec'.profile \in Profiles,
           \A s \in Plan[rec'.profile] : Committed(s)' =>
               Committed(s) /\ s \in plan /\ key'[s] = key[s] /\ output'[s] = output[s],
           mixed => mixed' \/ (~Committed(INSPECT)' /\ ~Committed(NORMALIZE)'),
           Committed(NORMALIZE)' => Committed(INSPECT)'
    PROVE  MadeInv'
<1>1. plan' = Plan[rec'.profile] /\ {INSPECT, NORMALIZE} \subseteq plan'
  BY PlanFacts DEF plan
<1>2. SourceRead'
  BY <1>1 DEF MadeInv, SourceRead
<1>3. NormalizeFollows'
  BY <1>1 DEF MadeInv, NormalizeFollows
<1>4. AllMade'
  <2> SUFFICES ASSUME NEW s \in plan' \ {INSPECT, NORMALIZE}, Committed(s)' PROVE Made(s)'
    BY DEF AllMade
  <2>1. s \in plan \ {INSPECT, NORMALIZE} /\ Committed(s) /\ key'[s] = key[s] /\ output'[s] = output[s]
    BY <1>1
  <2>2. Made(s)
    BY <2>1 DEF MadeInv, AllMade
  <2>3. s \in Stages
    BY <2>1, PlanFacts, RecordFacts
  <2> QED
    BY <2>1, <2>2, <2>3, MadeSame
<1> QED
  BY <1>2, <1>3, <1>4 DEF MadeInv

-----------------------------------------------------------------------------
(* The steps of a command and of the world                                  *)

\* A step that leaves the stages, the configuration and the contents alone, and
\* the source too: the loop is where it was, or has begun, ended or moved on.
LEMMA StagesKept ==
    ASSUME Pipeline, InvContents, rec' = rec, UNCHANGED <<config, contents>>, mixed => mixed'
    PROVE  Shaped' /\ MadeInv' /\ Prefix' /\ plan' = plan /\ Open' = Open
<1>1. rec'.profile \in Profiles /\ {INSPECT, NORMALIZE} \subseteq plan /\ plan = Plan[rec.profile]
  BY RecordFacts DEF InvContents
<1>2. plan' = plan /\ Open' = Open /\ (\A s : Committed(s)' <=> Committed(s))
  BY DEF plan, Open, Committed
<1>3. Committed(NORMALIZE) => Committed(INSPECT)
  BY <1>1 DEF InvContents, InLoopInv, Prefix, Committed, INSPECT, NORMALIZE
<1>4. MadeInv'
  BY <1>1, <1>2, <1>3, MadeKept DEF InvContents, contents
<1>5. Shaped'
  BY DEF InvContents, Shaped, contents, Configs
<1> QED
  BY <1>2, <1>4, <1>5 DEF InvContents, InLoopInv, Prefix, Committed

\* When a command begins, no stage is behind it, and INSPECT is not running.
LEMMA BegunInv ==
    ASSUME Pipeline, rec'.profile \in Profiles, rec'.state # "absent", next' = INSPECT,
           rec'.stage[INSPECT] # "running"
    PROVE  InRun' /\ KeysAreNow'
<1>1. plan' \subseteq Stages /\ INSPECT \in plan'
  BY PlanFacts DEF plan
<1>2. \A s \in plan' : ~(s < INSPECT)
  BY <1>1, StageNumbers DEF INSPECT
<1>3. INSPECT \notin Open'
  BY DEF Open
<1> QED
  BY <1>1, <1>2, <1>3 DEF InRun, KeysAreNow

\* Of a command that is not there the loop part says nothing.
LEMMA StoppedInv ==
    ASSUME next' = 0
    PROVE  InRun' /\ KeysAreNow'
BY DEF InRun, KeysAreNow, Running

\* resume begins with the stages as they are.
LEMMA ResumeStep ==
    ASSUME Pipeline, InvContents, Resume
    PROVE  Shaped' /\ InLoopInv' /\ MadeInv'
<1>1. rec' = rec /\ rec.state # "absent" /\ Open = {}
  BY DEF Resume, vars, rec, Idle, Created
<1>2. Shaped' /\ MadeInv' /\ Prefix'
  BY <1>1, StagesKept DEF Resume
<1>3. next' = INSPECT /\ rec.profile \in Profiles /\ INSPECT \in plan
  BY FirstIsInspect, RecordFacts DEF Resume, Begin, InvContents
<1>4. rec.stage[INSPECT] # "running"
  BY <1>1, <1>3 DEF Open
<1> QED
  BY <1>1, <1>2, <1>3, <1>4, BegunInv DEF InLoopInv

\* A stage that is kept has the key it would get now.
LEMMA KeepStep ==
    ASSUME Pipeline, InvContents, Keep
    PROVE  Shaped' /\ InLoopInv' /\ MadeInv'
<1>1. rec' = rec /\ Open = {} /\ next \in plan /\ next # 0 /\ next' = After(next)
      /\ Committed(next) /\ key[next] = CacheKey(next)
  BY DEF Keep, vars, rec, InLoop, Running
<1>2. Shaped' /\ MadeInv' /\ Prefix' /\ plan' = plan /\ Open' = Open
  BY <1>1, StagesKept DEF Keep, history
<1>3. /\ next' \in plan \union {PUBLISH + 1}
      /\ \A t \in plan : t < next' => t <= next
  BY <1>1, AfterIsNext, RecordFacts DEF InvContents
<1>4. plan \subseteq Stages
  BY RecordFacts DEF InvContents
<1>5. \A t \in plan : t < next' => t = next \/ t < next
  BY <1>1, <1>3, <1>4, StageNumbers
<1>6. \A t \in plan : t < next' => Committed(t) /\ KeyIsNow(t)
  <2>1. KeyIsNow(next)
    BY <1>1, KeyParts DEF KeyIsNow
  <2> QED
    BY <1>1, <1>5, <2>1 DEF InvContents, InLoopInv, InRun, KeysAreNow, Running
<1>7. \A t \in plan : (Committed(t)' <=> Committed(t)) /\ (KeyIsNow(t)' <=> KeyIsNow(t))
  BY <1>1 DEF Keep, files, contents, history, Committed, KeyIsNow, CacheKey, KeyOptions, Inputs,
              plan
<1>8. InRun'
  BY <1>1, <1>2, <1>3, <1>6, <1>7 DEF InvContents, InLoopInv, InRun, Running
<1>9. KeysAreNow'
  BY <1>1, <1>2, <1>6, <1>7 DEF KeysAreNow
<1> QED
  BY <1>2, <1>8, <1>9 DEF InLoopInv

\* Another source file: only INSPECT's key would be another, and moved and mixed
\* say so as long as it matters.
LEMMA ChangeSourceStep ==
    ASSUME Pipeline, InvContents, ChangeSource
    PROVE  Shaped' /\ InLoopInv' /\ MadeInv'
<1>1. rec' = rec /\ next' = next /\ key' = key
  BY DEF ChangeSource, vars, rec, contents
<1>2. Shaped' /\ MadeInv' /\ Prefix' /\ plan' = plan /\ Open' = Open
  BY <1>1, StagesKept DEF ChangeSource
<1>3. \A t \in plan : Committed(t)' <=> Committed(t)
  BY <1>1 DEF Committed
<1>4. InRun'
  BY <1>1, <1>2, <1>3 DEF InvContents, InLoopInv, InRun, Running
<1>5. ASSUME Running, NEW s \in plan, KeyIsNow(s) PROVE KeyIsNow(s)'
  <2>1. CASE s # INSPECT
    <3>1. CacheKey(s)' = CacheKey(s)
      BY <1>1, <1>3, <2>1, SameKey DEF ChangeSource, contents
    <3> QED
      BY <1>1, <1>5, <2>1, <3>1 DEF KeyIsNow
  <2>2. CASE s = INSPECT
    <3>1. moved' /\ (~mixed' => Committed(NORMALIZE)')
      BY <1>1, <1>5 DEF ChangeSource, Committed
    <3> QED
      BY <1>1, <1>5, <2>2, <3>1 DEF KeyIsNow
  <2> QED
    BY <2>1, <2>2
<1>6. KeysAreNow'
  BY <1>1, <1>2, <1>5 DEF InvContents, InLoopInv, KeysAreNow, Running
<1> QED
  BY <1>2, <1>4, <1>6 DEF InLoopInv

\* The provider's settings are in no key and in no stage, and a step that
\* stutters changes nothing.
LEMMA ChangeProviderStep ==
    ASSUME Pipeline, InvContents, ChangeProvider \/ UNCHANGED allVars
    PROVE  Shaped' /\ InLoopInv' /\ MadeInv'
<1>1. rec' = rec /\ UNCHANGED <<config, source, contents, next, history>>
  BY DEF ChangeProvider, allVars, vars, rec, files
<1>2. Shaped' /\ MadeInv' /\ Prefix' /\ plan' = plan /\ Open' = Open
  BY <1>1, StagesKept DEF history
<1>3. \A t \in plan : (Committed(t)' <=> Committed(t)) /\ (KeyIsNow(t)' <=> KeyIsNow(t))
  BY <1>1 DEF contents, history, Committed, KeyIsNow, CacheKey, KeyOptions, Inputs, plan
<1> QED
  BY <1>1, <1>2, <1>3 DEF InvContents, InLoopInv, InRun, KeysAreNow, Running

\* A command that dies or ends changes nothing.
LEMMA StopStep ==
    ASSUME Pipeline, InvContents, Crash \/ End
    PROVE  Shaped' /\ InLoopInv' /\ MadeInv'
<1>1. rec' = rec /\ UNCHANGED <<config, contents, history>> /\ next' = 0
  BY DEF Crash, End, vars, rec
<1> QED
  BY <1>1, StagesKept, StoppedInv DEF InLoopInv, history

\* A new job has nothing committed.
LEMMA CreateStep ==
    ASSUME Pipeline, InvContents, Create
    PROVE  Shaped' /\ InLoopInv' /\ MadeInv'
<1>1. CASE BatchCreated
  <2>1. rec' = rec /\ ~opened
    BY <1>1 DEF BatchCreated, rec
  <2>2. next' = 0
    BY <2>1 DEF Create
  <2> QED
    BY <2>1, <2>2, StagesKept, StoppedInv DEF Create, InLoopInv, history
<1>2. CASE JobCreated(job, rec.profile)
  <2>1. rec' = NewJob(rec.profile) /\ rec.profile \in Profiles /\ opened
    BY <1>2, RecordFacts DEF JobCreated, InvContents, InvJob, Inv, TypeOK, rec
  <2>2. next' = INSPECT
    BY <2>1, FirstIsInspect DEF Create
  <2>3. \A s \in Plan[rec'.profile] :
            s \in Stages /\ rec'.stage[s] = "pending" /\ rec'.profile = rec.profile
    BY <2>1, PlanFacts DEF NewJob
  <2>4. {INSPECT, NORMALIZE} \subseteq Plan[rec'.profile]
    BY <2>1, <2>3, PlanFacts DEF NewJob
  <2>5. MadeInv'
    BY <2>1, <2>3, <2>4, MadeKept DEF InvContents, Committed, NewJob
  <2>6. InRun' /\ KeysAreNow'
    BY <2>1, <2>2, <2>3, <2>4, BegunInv DEF NewJob
  <2>7. Prefix'
    BY <2>3 DEF Prefix, plan
  <2>8. Shaped'
    BY <2>1 DEF InvContents, Shaped, Create, contents, NewJob, Configs
  <2> QED
    BY <2>5, <2>6, <2>7, <2>8 DEF InLoopInv
<1> QED
  BY <1>1, <1>2 DEF Create

\* A command that ends with its stage, or one that finds it open, leaves the
\* committed stages as they are.
LEMMA CloseStep ==
    ASSUME Pipeline, InvContents, Interrupt \/ Fail
    PROVE  Shaped' /\ InLoopInv' /\ MadeInv'
<1>1. PICK s \in plan, outcome \in {"interrupted", "failed", "cancelled"} :
          rec.stage[s] = "running" /\ StageClosed(job, s, rec.attempt[s], outcome)
  BY DEF Interrupt, Fail, Open
<1>2. rec \in JobRecord /\ rec' = Closed(rec, s, outcome) /\ s \in Stages /\ rec = batch[job]
  BY <1>1, AppliedToJob, RecordFacts DEF InvContents, InvJob, StageClosed, rec
<1>3. /\ rec'.profile = rec.profile
      /\ \A t \in Stages : rec'.stage[t] = IF t = s THEN outcome ELSE rec.stage[t]
  BY <1>2 DEF Closed, JobRecord
<1>4. next' = 0 /\ UNCHANGED <<config, contents, history>>
  BY DEF Interrupt, Fail, Idle, Running
<1>5. plan' = plan /\ plan \subseteq Stages /\ {INSPECT, NORMALIZE} \subseteq plan
      /\ plan = Plan[rec.profile] /\ rec.profile \in Profiles
  BY <1>3, RecordFacts DEF plan, InvContents
<1>6. \A t \in plan : /\ Committed(t)' <=> Committed(t)
                      /\ rec'.stage[t] = "running" => rec.stage[t] = "running"
  BY <1>1, <1>3, <1>5 DEF Committed
<1>7. Prefix'
  BY <1>5, <1>6 DEF InvContents, InLoopInv, Prefix, Committed
<1>8. Committed(NORMALIZE) => Committed(INSPECT)
  BY <1>5 DEF InvContents, InLoopInv, Prefix, Committed, INSPECT, NORMALIZE
<1>9. MadeInv'
  BY <1>3, <1>4, <1>5, <1>6, <1>8, MadeKept DEF InvContents, contents, history
<1>10. Shaped'
  BY <1>3, <1>4 DEF InvContents, Shaped, contents, Configs
<1> QED
  BY <1>4, <1>7, <1>9, <1>10, StoppedInv DEF InLoopInv

\* What an override leaves committed was committed, before the first stage that
\* changes, and had all before it committed: the new plan adds none there.
LEMMA OverrideStep ==
    ASSUME Pipeline, InvContents, Override
    PROVE  Shaped' /\ InLoopInv' /\ MadeInv'
<1>1. PICK q \in Profiles : \E d \in Configs(q) :
          ConfigUpdated(q, EarliestChange(config, rec.profile, d, q)) /\ config' = d
  BY DEF Override
<1>2. PICK d \in Configs(q) :
          ConfigUpdated(q, EarliestChange(config, rec.profile, d, q)) /\ config' = d
  BY <1>1
<1> DEFINE b == EarliestChange(config, rec.profile, d, q)
<1>3. job \in Created /\ next = 0 /\ next' = 0 /\ UNCHANGED <<contents, history>>
  BY DEF Override, Idle, Running
<1>4. rec' = Reconfigured(rec, q, b) /\ rec \in JobRecord /\ rec.profile \in Profiles
      /\ plan = Plan[rec.profile] /\ plan \subseteq Stages
  BY <1>2, <1>3, RecordFacts DEF InvContents, ConfigUpdated, rec, Created
<1>5. rec'.profile = q /\ plan' = Plan[q] /\ Plan[q] \subseteq Stages
      /\ {INSPECT, NORMALIZE} \subseteq Plan[q]
  BY <1>4, PlanFacts DEF Reconfigured, plan
<1>6. b \in Stages /\ \A t \in Plan[q] \ plan : b <= t
  BY <1>2, <1>4, <1>5, ChangeBeforeNewStages DEF ConfigUpdated
<1> HIDE DEF b
<1>7. \A s \in Plan[q] : rec'.stage[s] \in {"committed", "running"} =>
          s \in plan /\ s < b /\ rec'.stage[s] = rec.stage[s]
  BY <1>4, <1>5 DEF Reconfigured, ReconfiguredStage, plan
<1>8. \A t \in Plan[q] \intersect plan : t < b => rec'.stage[t] = rec.stage[t]
  BY <1>4, <1>5 DEF Reconfigured, ReconfiguredStage, plan
<1>9. Prefix'
  <2> SUFFICES ASSUME NEW s \in Plan[q], NEW t \in Plan[q], t < s,
                      rec'.stage[s] \in {"committed", "running"}
               PROVE  Committed(t)'
    BY <1>5 DEF Prefix
  <2>1. s \in plan /\ s < b /\ rec.stage[s] \in {"committed", "running"}
    BY <1>7
  <2>2. t < b /\ t \in plan
    BY <1>5, <1>6, <2>1, StageNumbers
  <2>3. Committed(t)
    BY <2>1, <2>2 DEF InvContents, InLoopInv, Prefix
  <2> QED
    BY <1>8, <2>2, <2>3 DEF Committed
<1>10. \A s \in Plan[q] : Committed(s)' => Committed(s) /\ s \in plan
  BY <1>7 DEF Committed
<1>11. Committed(NORMALIZE)' => Committed(INSPECT)'
  BY <1>5, <1>9 DEF Prefix, Committed, INSPECT, NORMALIZE
<1>12. MadeInv'
  BY <1>3, <1>5, <1>10, <1>11, MadeKept DEF InvContents, contents, history
<1>13. Shaped'
  BY <1>2, <1>3, <1>5 DEF InvContents, Shaped, contents, Configs
<1> QED
  BY <1>3, <1>9, <1>12, <1>13, StoppedInv DEF InLoopInv

\* A retry puts the stage it names and all after it back; so none is left open.
LEMMA RetryStep ==
    ASSUME Pipeline, InvContents, Retry
    PROVE  Shaped' /\ InLoopInv' /\ MadeInv'
<1>1. PICK s \in plan : RetryRequested(job, s)
  BY DEF Retry
<1>2. /\ rec' = Retried(rec, s) /\ rec \in JobRecord /\ rec.profile \in Profiles
      /\ plan = Plan[rec.profile] /\ plan \subseteq Stages /\ {INSPECT, NORMALIZE} \subseteq plan
      /\ RetryOK(rec, s)
  BY <1>1, AppliedToJob, RecordFacts DEF InvContents, InvJob, RetryRequested, rec
<1>3. /\ rec'.profile = rec.profile /\ plan' = plan /\ rec'.state = "pending"
      /\ \A t \in plan : rec'.stage[t] = IF t >= s THEN "pending" ELSE rec.stage[t]
  BY <1>2 DEF Retried, Suffix, JobRecord, plan
<1>4. next' = INSPECT /\ UNCHANGED <<config, contents, mixed>>
  BY <1>2, FirstIsInspect DEF Retry, Begin
<1>5. rec'.stage[INSPECT] # "running"
  <2>1. CASE s = INSPECT
    BY <1>1, <1>3, <2>1 DEF INSPECT
  <2>2. CASE s # INSPECT
    <3> DEFINE Before == {t \in plan : t < s}
    <3>1. INSPECT \in Before /\ Before \in SUBSET Stages
      BY <1>1, <1>2, <2>2, StageNumbers DEF INSPECT
    <3>2. PICK t \in Before : \A u \in Before : u <= t
      BY <3>1, Ends
    <3>3. t \in Dependencies(rec.profile, s)
      BY <1>2, <3>2 DEF Dependencies
    <3>4. Committed(t)
      BY <1>2, <3>3 DEF RetryOK, DependenciesCommitted, Committed
    <3>5. Committed(INSPECT)
      <4>1. t = INSPECT \/ INSPECT < t
        BY <1>2, <3>2, StageNumbers DEF INSPECT
      <4> QED
        BY <1>2, <3>2, <3>4, <4>1 DEF InvContents, InLoopInv, Prefix, Committed
    <3> QED
      BY <1>2, <1>3, <3>5 DEF Committed
  <2> QED
    BY <2>1, <2>2
<1>6. \A t \in plan : /\ Committed(t)' => Committed(t)
                      /\ rec'.stage[t] = "running" => rec.stage[t] = "running"
  BY <1>3 DEF Committed
<1>7. Prefix'
  <2> SUFFICES ASSUME NEW t \in plan, NEW u \in plan, u < t,
                      rec'.stage[t] \in {"committed", "running"}
               PROVE  Committed(u)'
    BY <1>3 DEF Prefix
  <2>1. t < s /\ u < s
    BY <1>1, <1>2, <1>3, StageNumbers
  <2>2. Committed(u)
    BY <1>3, <2>1 DEF InvContents, InLoopInv, Prefix
  <2> QED
    BY <1>1, <1>2, <1>3, <2>1, <2>2, StageNumbers DEF Committed
<1>8. Committed(NORMALIZE)' => Committed(INSPECT)'
  BY <1>2, <1>3, <1>7 DEF Prefix, Committed, INSPECT, NORMALIZE
<1>9. MadeInv'
  BY <1>2, <1>3, <1>4, <1>6, <1>8, MadeKept DEF InvContents, contents
<1>10. Shaped'
  BY <1>3, <1>4 DEF InvContents, Shaped, contents, Configs
<1> QED
  BY <1>2, <1>3, <1>4, <1>5, <1>7, <1>9, <1>10, BegunInv DEF InLoopInv

\* The loop invalidates no stage behind it, and never NORMALIZE while INSPECT
\* is kept: its key would still be the one it has.
LEMMA InvalidateStep ==
    ASSUME Pipeline, InvContents, Invalidate
    PROVE  Shaped' /\ InLoopInv' /\ MadeInv'
<1>1. /\ next \in plan /\ next # 0 /\ Committed(next) /\ key[next] # CacheKey(next)
      /\ Open = {} /\ UNCHANGED <<config, files, contents, next, history>>
  BY DEF Invalidate, InLoop, Running
<1>2. /\ rec' = Invalidated(rec, next) /\ rec \in JobRecord /\ rec.profile \in Profiles
      /\ plan = Plan[rec.profile] /\ plan \subseteq Stages /\ {INSPECT, NORMALIZE} \subseteq plan
  BY AppliedToJob, RecordFacts DEF InvContents, InvJob, Invalidate, StageInvalidated, rec
<1>3. /\ rec'.profile = rec.profile /\ plan' = plan /\ rec'.state = "pending"
      /\ \A t \in plan : rec'.stage[t] = IF t >= next /\ rec.stage[t] = "committed"
                                         THEN "invalidated" ELSE rec.stage[t]
  BY <1>2 DEF Invalidated, Suffix, JobRecord, plan
<1>4. Open' = {}
  BY <1>1, <1>3 DEF Open
<1>5. \A t \in plan : /\ Committed(t)' => Committed(t)
                      /\ t < next => (Committed(t)' <=> Committed(t))
  BY <1>1, <1>2, <1>3, StageNumbers DEF Committed
<1>6. Prefix'
  <2> SUFFICES ASSUME NEW t \in plan, NEW u \in plan, u < t,
                      rec'.stage[t] \in {"committed", "running"}
               PROVE  Committed(u)'
    BY <1>3 DEF Prefix
  <2>1. rec.stage[t] = "committed" /\ t < next /\ u < next
    BY <1>1, <1>2, <1>3, <1>4, StageNumbers DEF Open
  <2>2. Committed(u)
    BY <2>1 DEF InvContents, InLoopInv, Prefix
  <2> QED
    BY <1>5, <2>1, <2>2
<1>7. InRun'
  BY <1>1, <1>3, <1>5 DEF InvContents, InLoopInv, InRun, Running
<1>8. next # NORMALIZE
  <2> SUFFICES ASSUME next = NORMALIZE PROVE FALSE
    OBVIOUS
  <2>1. KeyIsNow(INSPECT)
    BY <1>1, <1>2 DEF InvContents, InLoopInv, KeysAreNow, Running, INSPECT, NORMALIZE
  <2>2. Committed(INSPECT)
    BY <1>1, <1>2 DEF InvContents, InLoopInv, InRun, Running, INSPECT, NORMALIZE
  <2>3. Inputs(NORMALIZE) = {INSPECT}
    BY <1>2, <2>2, StageNumbers DEF Inputs, INSPECT, NORMALIZE
  <2>4. CacheKey(NORMALIZE) = <<<<rec.profile, <<>>>>, [t \in {INSPECT} |-> output[t]]>>
    BY <2>3 DEF CacheKey, KeyOptions, INSPECT, NORMALIZE, TRANSCRIBE, CORRECT_SOURCE, TRANSLATE,
                REVIEW, EXPORT, PUBLISH
  <2>5. [t \in {INSPECT} |-> output[t]] = [t \in {INSPECT} |-> output[INSPECT]]
    OBVIOUS
  <2>6. key[NORMALIZE] = CacheKey(NORMALIZE)
    BY <1>1, <2>1, <2>4, <2>5 DEF InvContents, MadeInv, NormalizeFollows, KeyIsNow
  <2> QED
    BY <1>1, <2>6
<1>9. KeysAreNow'
  <2> SUFFICES ASSUME NEW s \in plan, s < next PROVE KeyIsNow(s)'
    BY <1>1, <1>3, <1>4 DEF KeysAreNow, Running
  <2>1. KeyIsNow(s)
    BY <1>1 DEF InvContents, InLoopInv, KeysAreNow, Running
  <2>2. \A t \in plan : t < s => t < next
    BY <1>1, <1>2, StageNumbers
  <2>3. CacheKey(s)' = CacheKey(s)
    BY <1>1, <1>3, <1>5, <2>2, SameKey DEF files, contents
  <2>4. s = INSPECT => NORMALIZE < next
    BY <1>1, <1>2, <1>8, StageNumbers DEF INSPECT, NORMALIZE
  <2>5. s = INSPECT => (Committed(NORMALIZE)' <=> Committed(NORMALIZE))
    BY <1>2, <1>5, <2>4
  <2> QED
    BY <1>1, <1>3, <2>1, <2>3, <2>5 DEF KeyIsNow, contents, history
<1>10. Committed(NORMALIZE)' => Committed(INSPECT)'
  BY <1>2, <1>3, <1>6 DEF Prefix, Committed, INSPECT, NORMALIZE
<1>11. MadeInv'
  BY <1>1, <1>2, <1>3, <1>5, <1>10, MadeKept DEF InvContents, contents, history
<1>12. Shaped'
  BY <1>1, <1>3 DEF InvContents, Shaped, contents, Configs
<1> QED
  BY <1>6, <1>7, <1>9, <1>11, <1>12 DEF InLoopInv

\* A stage starts under the key it has now.
LEMMA StartStep ==
    ASSUME Pipeline, InvContents, Start
    PROVE  Shaped' /\ InLoopInv' /\ MadeInv'
<1>1. /\ next \in plan /\ next # 0 /\ ~Committed(next) /\ Open = {}
      /\ UNCHANGED <<config, files, output, next, moved>>
      /\ mixed' = (mixed /\ next # INSPECT)
      /\ key' = [key EXCEPT ![next] = CacheKey(next)]
  BY DEF Start, InLoop, Running
<1>2. /\ rec' = Started(rec, next, rec.attempt[next] + 1)
      /\ rec \in JobRecord /\ rec.profile \in Profiles
      /\ plan = Plan[rec.profile] /\ plan \subseteq Stages /\ {INSPECT, NORMALIZE} \subseteq plan
  BY AppliedToJob, RecordFacts DEF InvContents, InvJob, Start, StageStarted, rec
<1>3. /\ rec'.profile = rec.profile /\ plan' = plan /\ rec'.state = "running"
      /\ \A t \in plan : rec'.stage[t] = IF t = next THEN "running" ELSE rec.stage[t]
  BY <1>1, <1>2 DEF Started, JobRecord, plan
<1>4. /\ key' = [s \in Stages |-> key'[s]]
      /\ \A s \in Stages : key'[s] = IF s = next THEN CacheKey(next) ELSE key[s]
  BY <1>1 DEF InvContents, Shaped
<1>5. \A t \in plan : Committed(t)' <=> Committed(t)
  BY <1>1, <1>3 DEF Committed
<1>6. \A t \in plan : t < next => Committed(t)
  BY <1>1 DEF InvContents, InLoopInv, InRun, Running
<1>7. Prefix'
  BY <1>3, <1>5, <1>6 DEF InvContents, InLoopInv, Prefix, Committed
<1>8. InRun'
  BY <1>1, <1>3, <1>5 DEF InvContents, InLoopInv, InRun, Running
<1>9. \A s \in plan : CacheKey(s)' = CacheKey(s)
  BY <1>1, <1>3, <1>5, SameKey DEF files
<1>10. Open' = {next}
  BY <1>1, <1>3 DEF Open
<1>11. KeysAreNow'
  <2> SUFFICES ASSUME NEW s \in plan, s < next \/ s = next PROVE KeyIsNow(s)'
    BY <1>1, <1>3 DEF KeysAreNow
  <2>1. CASE s = next
    <3>1. key'[s] = CacheKey(s) /\ CacheKey(s)[1][1] = rec.profile
      BY <1>2, <1>4, <2>1, KeyParts
    <3> QED
      BY <1>3, <1>9, <3>1 DEF KeyIsNow
  <2>2. CASE s < next
    <3>1. KeyIsNow(s)
      BY <1>1, <2>2 DEF InvContents, InLoopInv, KeysAreNow, Running
    <3>2. s # next /\ key'[s] = key[s]
      BY <1>1, <1>2, <1>4, <2>2, StageNumbers
    <3>3. s = INSPECT /\ ~mixed' => ~mixed
      BY <1>1, <3>2
    <3>4. Committed(NORMALIZE)' <=> Committed(NORMALIZE)
      BY <1>2, <1>5
    <3> QED
      BY <1>1, <1>3, <1>9, <3>1, <3>2, <3>3, <3>4 DEF KeyIsNow
  <2> QED
    BY <2>1, <2>2
<1>12. Committed(NORMALIZE)' => Committed(INSPECT)'
  BY <1>2, <1>3, <1>7 DEF Prefix, Committed, INSPECT, NORMALIZE
<1>13. mixed => mixed' \/ (~Committed(INSPECT)' /\ ~Committed(NORMALIZE)')
  BY <1>1, <1>2, <1>5, <1>12
<1>14. MadeInv'
  BY <1>1, <1>2, <1>3, <1>4, <1>5, <1>12, <1>13, MadeKept DEF InvContents
<1>15. Shaped'
  BY <1>1, <1>3, <1>4 DEF InvContents, Shaped, Configs
<1> QED
  BY <1>7, <1>8, <1>11, <1>14, <1>15 DEF InLoopInv

\* The verdict changes no stage.
LEMMA SucceedStep ==
    ASSUME Pipeline, InvContents, Succeed
    PROVE  Shaped' /\ InLoopInv' /\ MadeInv'
<1>1. UNCHANGED <<config, files, contents, next, history>>
  BY DEF Succeed
<1>2. /\ rec' = Ended(rec, "succeeded") /\ rec \in JobRecord /\ rec.profile \in Profiles
      /\ plan = Plan[rec.profile] /\ {INSPECT, NORMALIZE} \subseteq plan
  BY AppliedToJob, RecordFacts DEF InvContents, InvJob, Succeed, JobSucceeded, rec
<1>3. /\ rec'.profile = rec.profile /\ plan' = plan /\ rec'.state = "succeeded"
      /\ rec'.stage = rec.stage /\ Open' = Open
  BY <1>2 DEF Ended, JobRecord, plan, Open
<1>4. \A t : Committed(t)' <=> Committed(t)
  BY <1>3 DEF Committed
<1>5. \A s : CacheKey(s)' = CacheKey(s)
  BY <1>1, <1>3, <1>4 DEF CacheKey, KeyOptions, Inputs, files, contents
<1>6. \A s : KeyIsNow(s)' <=> KeyIsNow(s)
  BY <1>1, <1>3, <1>4, <1>5 DEF KeyIsNow, contents, history
<1>7. InLoopInv'
  BY <1>1, <1>3, <1>4, <1>6 DEF InvContents, InLoopInv, Prefix, InRun, KeysAreNow, Running, Committed
<1>8. Committed(NORMALIZE) => Committed(INSPECT)
  BY <1>2 DEF InvContents, InLoopInv, Prefix, Committed, INSPECT, NORMALIZE
<1>9. MadeInv'
  BY <1>1, <1>2, <1>3, <1>4, <1>8, MadeKept DEF InvContents, contents, history
<1>10. Shaped'
  BY <1>1, <1>3 DEF InvContents, Shaped, contents, Configs
<1> QED
  BY <1>7, <1>9, <1>10

\* What a stage that commits contains is what its key says, from TRANSCRIBE on.
LEMMA CommitMakes ==
    ASSUME Pipeline, InvContents, Commit, NEW s, s = next, s \notin {INSPECT, NORMALIZE}
    PROVE  Made(s)'
<1>1. /\ rec.profile \in Profiles /\ plan = Plan[rec.profile] /\ plan \subseteq Stages
      /\ s \in plan /\ next # 0 /\ s \in Open
  BY RecordFacts DEF InvContents, Commit, Open, Running
<1>2. key' = key /\ output'[s] = Product(s)
  BY <1>1 DEF Commit, InvContents, Shaped
<1>3. key[s] = CacheKey(s)
  BY <1>1 DEF InvContents, InLoopInv, KeysAreNow, Running, KeyIsNow
<1>4. /\ key[s][1] = KeyOptions(config, rec.profile, s)
      /\ key[s][2] = [t \in Inputs(s) |-> output[t]]
  BY <1>3, KeyParts
<1>5. Uses(rec.profile, s) \subseteq Inputs(s)
  BY <1>1, UsesEarlier DEF InvContents, InLoopInv, InRun, Running, Inputs
<1>6. \A t \in Uses(rec.profile, s) : key[s][2][t] = output[t]
  BY <1>4, <1>5
<1>p. PICK p \in Profiles : p = rec.profile
  BY <1>1
<1>c. PICK c \in Configs(p) : c = config
  BY <1>p DEF InvContents, Shaped
<1>7. key[s][1] = KeyOptions(c, p, s)
  BY <1>4, <1>p, <1>c
<1>8. output'[s] = {<<s, option, Value(c, p, option)>> : option \in Runners(p)[s].reads}
                     \union UNION {key[s][2][t] : t \in Uses(p, s)}
  BY <1>2, <1>6, <1>p, <1>c DEF Product, Read
<1>9. (\A option \in Runners(p)[s].reads : Value(c, p, option)' = Value(c, p, option))
      /\ KeyOptions(c, p, s)' = KeyOptions(c, p, s)
  BY DEF Commit, files, Value, KeyOptions
<1> QED
  BY <1>2, <1>7, <1>8, <1>9 DEF Made

\* A stage commits: it joins those behind the command, under the key it started
\* with.
LEMMA CommitStep ==
    ASSUME Pipeline, InvContents, Commit
    PROVE  Shaped' /\ InLoopInv' /\ MadeInv'
<1>1. /\ next # 0 /\ next \in plan /\ rec.stage[next] = "running"
      /\ UNCHANGED <<config, files, key, history>>
      /\ next' = After(next)
      /\ output' = [output EXCEPT ![next] = Product(next)]
  BY DEF Commit, Running, Open
<1>2. /\ rec' = Closed(rec, next, "committed")
      /\ rec \in JobRecord /\ rec.profile \in Profiles
      /\ plan = Plan[rec.profile] /\ plan \subseteq Stages /\ {INSPECT, NORMALIZE} \subseteq plan
  BY AppliedToJob, RecordFacts DEF InvContents, InvJob, Commit, StageClosed, rec
<1>3. /\ rec'.profile = rec.profile /\ plan' = plan /\ rec'.state = "running"
      /\ \A t \in plan : rec'.stage[t] = IF t = next THEN "committed" ELSE rec.stage[t]
  BY <1>1, <1>2 DEF Closed, JobRecord, plan
<1>4. /\ output' = [s \in Stages |-> output'[s]]
      /\ \A s \in Stages : output'[s] = IF s = next THEN Product(next) ELSE output[s]
  BY <1>1 DEF InvContents, Shaped
<1>5. \A t \in plan : Committed(t)' <=> Committed(t) \/ t = next
  BY <1>3 DEF Committed
<1>6. \A t \in plan : t < next => Committed(t)
  BY <1>1 DEF InvContents, InLoopInv, InRun, Running
<1>7. Prefix'
  BY <1>3, <1>5, <1>6 DEF InvContents, InLoopInv, Prefix, Committed
<1>8. /\ next' \in plan \union {PUBLISH + 1}
      /\ \A t \in plan : t < next' => t = next \/ t < next
      /\ next' # 0 /\ next < next'
  BY <1>1, <1>2, AfterIsNext, StageNumbers
<1>9. InRun'
  BY <1>3, <1>5, <1>6, <1>8 DEF InRun
<1>10. \A s \in plan : s = next \/ s < next => CacheKey(s)' = CacheKey(s)
  <2> SUFFICES ASSUME NEW s \in plan, s = next \/ s < next PROVE CacheKey(s)' = CacheKey(s)
    OBVIOUS
  <2>1. \A t \in plan : t < s => t < next /\ t # next
    BY <1>1, <1>2, StageNumbers
  <2>2. \A t \in plan : t < s => (Committed(t)' <=> Committed(t)) /\ output'[t] = output[t]
    BY <1>2, <1>4, <1>5, <2>1
  <2> QED
    BY <1>1, <1>3, <2>2, SameKey DEF files
<1>11. \A s \in plan : s = next \/ s < next => KeyIsNow(s)
  BY <1>1 DEF InvContents, InLoopInv, KeysAreNow, Running, Open
<1>12. KeysAreNow'
  <2>1. next' \notin Open'
    <3> SUFFICES ASSUME next' \in plan, rec'.stage[next'] = "running" PROVE FALSE
      BY <1>3 DEF Open
    <3>1. next < next' /\ rec.stage[next'] = "running"
      BY <1>1, <1>2, <1>3, <1>8, StageNumbers
    <3> QED
      BY <1>1, <3>1 DEF InvContents, InLoopInv, Prefix, Committed
  <2>2. ASSUME NEW s \in plan, s = next \/ s < next PROVE KeyIsNow(s)'
    <3>1. KeyIsNow(s) /\ CacheKey(s)' = CacheKey(s)
      BY <1>10, <1>11, <2>2
    <3>2. Committed(NORMALIZE) => Committed(NORMALIZE)'
      BY <1>2, <1>5
    <3> QED
      BY <1>1, <1>3, <3>1, <3>2 DEF KeyIsNow, history
  <2> QED
    BY <1>3, <1>8, <2>1, <2>2 DEF KeysAreNow
<1>13. ASSUME next \notin {INSPECT, NORMALIZE} PROVE MadeInv'
  <2>1. \A s \in {INSPECT, NORMALIZE} :
            (Committed(s)' <=> Committed(s)) /\ key'[s] = key[s] /\ output'[s] = output[s]
    BY <1>1, <1>2, <1>4, <1>5, <1>13
  <2>2. SourceRead'
    BY <1>1, <2>1 DEF InvContents, MadeInv, SourceRead, history
  <2>3. NormalizeFollows'
    BY <2>1 DEF InvContents, MadeInv, NormalizeFollows
  <2>4. ASSUME NEW s \in plan \ {INSPECT, NORMALIZE}, Committed(s)' PROVE Made(s)'
    <3>1. CASE s = next
      BY <1>13, <3>1, CommitMakes
    <3>2. CASE s # next
      <4>1. s \in Stages /\ Made(s) /\ key'[s] = key[s] /\ output'[s] = output[s]
        BY <1>1, <1>2, <1>4, <1>5, <2>4, <3>2 DEF InvContents, MadeInv, AllMade
      <4> QED
        BY <2>4, <4>1, MadeSame
    <3> QED
      BY <3>1, <3>2
  <2>5. AllMade'
    BY <1>3, <2>4 DEF AllMade
  <2> QED
    BY <2>2, <2>3, <2>5 DEF MadeInv
<1>14. ASSUME next \in {INSPECT, NORMALIZE} PROVE MadeInv'
  <2>1. \A s \in plan \ {INSPECT} : Committed(s)' => s = NORMALIZE /\ next = NORMALIZE
    <3> SUFFICES ASSUME NEW s \in plan \ {INSPECT}, Committed(s), s # next PROVE FALSE
      BY <1>5, <1>14
    <3>1. next < s
      BY <1>1, <1>2, <1>14, StageNumbers DEF INSPECT, NORMALIZE
    <3> QED
      BY <1>1, <3>1 DEF InvContents, InLoopInv, Prefix, Committed
  <2>2. AllMade'
    BY <1>3, <2>1 DEF AllMade
  <2>3. KeyIsNow(INSPECT) /\ ~Committed(NORMALIZE)
    <3>1. INSPECT = next \/ INSPECT < next
      BY <1>14 DEF INSPECT, NORMALIZE
    <3>2. Committed(NORMALIZE) => Committed(INSPECT)
      BY <1>2 DEF InvContents, InLoopInv, Prefix, Committed, INSPECT, NORMALIZE
    <3> QED
      BY <1>1, <1>2, <1>11, <1>14, <3>1, <3>2 DEF Committed
  <2>4. ~mixed => key[INSPECT][1][2][1] = source
    BY <2>3, KeyParts DEF KeyIsNow
  <2>5. CASE next = INSPECT
    <3>1. ~Committed(NORMALIZE)'
      BY <1>2, <2>1, <2>5 DEF INSPECT, NORMALIZE
    <3>2. Product(INSPECT) = {<<INSPECT, "source", source>>}
      BY DEF Product, Read, Uses, Runners, Inspect, Value, INSPECT
    <3>3. output'[INSPECT] = Product(INSPECT)
      BY <1>2, <1>4, <2>5
    <3> QED
      BY <1>1, <2>2, <2>4, <3>1, <3>2, <3>3 DEF MadeInv, SourceRead, NormalizeFollows, history
  <2>6. CASE next = NORMALIZE
    <3>1. INSPECT \in Stages /\ NORMALIZE \in Stages /\ INSPECT # NORMALIZE
      BY <1>2 DEF INSPECT, NORMALIZE
    <3>2. Committed(INSPECT) /\ Committed(INSPECT)'
      BY <1>2, <1>5, <1>6, <2>6 DEF INSPECT, NORMALIZE
    <3>3. output'[INSPECT] = output[INSPECT] /\ output'[NORMALIZE] = Product(NORMALIZE)
      BY <1>4, <2>6, <3>1
    <3>4. Uses(rec.profile, NORMALIZE) = {INSPECT}
      BY <1>2 DEF Uses, Runners, Normalize, INSPECT, NORMALIZE
    <3>5. Read(NORMALIZE) = {<<NORMALIZE, "source", source>>}
      BY DEF Read, Runners, Normalize, Value, NORMALIZE
    <3>6. Product(NORMALIZE) = {<<NORMALIZE, "source", source>>} \union output[INSPECT]
      BY <3>4, <3>5 DEF Product
    <3>7. SourceRead'
      BY <1>1, <2>4, <3>2, <3>3, <3>6 DEF InvContents, MadeInv, SourceRead, history
    <3>8. key[NORMALIZE] = CacheKey(NORMALIZE)
      BY <1>1, <1>11, <2>6, <3>1 DEF KeyIsNow
    <3>9. Inputs(NORMALIZE) = {INSPECT}
      BY <1>2, <3>2, StageNumbers DEF Inputs, INSPECT, NORMALIZE
    <3>10. key[NORMALIZE] = <<<<rec.profile, <<>>>>, [t \in {INSPECT} |-> output[t]]>>
      BY <3>8, <3>9 DEF CacheKey, KeyOptions, INSPECT, NORMALIZE, TRANSCRIBE, CORRECT_SOURCE,
                        TRANSLATE, REVIEW, EXPORT, PUBLISH
    <3>11. [t \in {INSPECT} |-> output[t]] = [t \in {INSPECT} |-> output'[INSPECT]]
      BY <3>3
    <3>12. NormalizeFollows'
      BY <1>1, <2>3, <3>10, <3>11 DEF NormalizeFollows, KeyIsNow
    <3> QED
      BY <2>2, <3>7, <3>12 DEF MadeInv
  <2> QED
    BY <1>14, <2>5, <2>6
<1>15. Shaped'
  BY <1>1, <1>3, <1>4 DEF InvContents, Shaped, Configs
<1> QED
  BY <1>7, <1>9, <1>12, <1>13, <1>14, <1>15 DEF InLoopInv

-----------------------------------------------------------------------------
(* Fresh                                                                    *)

\* No command runs at first, and nothing is committed.
LEMMA InitInvContents == Pipeline /\ InitContents => InvContents
<1> SUFFICES ASSUME Pipeline, InitContents PROVE InvContents
  OBVIOUS
<1>1. InvJob
  BY InitInvJob
<1>2. PICK p \in Profiles : batch = [j \in Jobs |-> NoJob(p)]
  BY DEF InitContents, Init
<1>3. rec = NoJob(p) /\ plan \subseteq Stages /\ {INSPECT, NORMALIZE} \subseteq plan
  BY <1>1, <1>2, JobIsOne, RecordFacts DEF rec
<1>4. \A s \in plan : rec.stage[s] = "pending"
  BY <1>3 DEF NoJob, NewJob
<1> QED
  BY <1>1, <1>3, <1>4 DEF InvContents, Shaped, InLoopInv, MadeInv, Prefix, InRun, KeysAreNow,
      AllMade, SourceRead, NormalizeFollows, InitContents, Running, Committed

\* Every step of a command and of the world keeps the invariant.
LEMMA NextInvContents == Pipeline /\ InvContents /\ [NextContents]_allVars => InvContents'
<1> SUFFICES ASSUME Pipeline, InvContents, [NextContents]_allVars
             PROVE  Shaped' /\ InLoopInv' /\ MadeInv'
  BY NextInvJob DEF InvContents
<1>1. CASE Create \/ Override \/ Retry
  BY <1>1, CreateStep, OverrideStep, RetryStep
<1>2. CASE Resume \/ Keep \/ Crash \/ End
  BY <1>2, ResumeStep, KeepStep, StopStep
<1>3. CASE Interrupt \/ Invalidate \/ Fail
  BY <1>3, CloseStep, InvalidateStep
<1>4. CASE Start \/ Commit \/ Succeed
  BY <1>4, StartStep, CommitStep, SucceedStep
<1>5. CASE ChangeSource \/ ChangeProvider \/ UNCHANGED allVars
  BY <1>5, ChangeSourceStep, ChangeProviderStep
<1> QED
  BY <1>1, <1>2, <1>3, <1>4, <1>5 DEF NextContents

\* The options in the key of a stage tell what it reads of the job.
LEMMA OptionsTell ==
    ASSUME Pipeline, NEW p \in Profiles, NEW c \in Configs(p), NEW q \in Profiles,
           NEW d \in Configs(q), NEW s \in Stages \ {INSPECT, NORMALIZE},
           KeyOptions(c, p, s) = KeyOptions(d, q, s)
    PROVE  /\ p = q
           /\ \A option \in Runners(p)[s].reads : Value(c, p, option) = Value(d, q, option)
<1>1. p = q
  BY DEF KeyOptions
<1>2. s \in {3, 4, 5, 6, 7, 8, 9} /\ p \in {"deterministic", "fast", "quality"}
  BY StageNumbers DEF Pipeline, INSPECT, NORMALIZE
<1>3. CASE s = TRANSCRIBE
  <2>1. /\ KeyOptions(c, p, s)[2] = <<c.model, c.language>>
        /\ KeyOptions(d, q, s)[2] = <<d.model, d.language>>
    BY <1>3 DEF KeyOptions, INSPECT, TRANSCRIBE, CORRECT_SOURCE, TRANSLATE, REVIEW, EXPORT,
           PUBLISH
  <2>2. c.model = d.model /\ c.language = d.language
    BY <2>1
  <2> QED
    BY <1>1, <1>3, <2>2 DEF Runners, Transcribe, Value, TRANSCRIBE
<1>4. CASE s \in {CORRECT_SOURCE, TRANSLATE, REVIEW, EXPORT}
  <2>1. /\ KeyOptions(c, p, s)[2] = <<Snapshot(c, p)>>
        /\ KeyOptions(d, q, s)[2] = <<Snapshot(d, q)>>
    BY <1>4 DEF KeyOptions, INSPECT, TRANSCRIBE, CORRECT_SOURCE, TRANSLATE, REVIEW, EXPORT,
           PUBLISH
  <2>2. Snapshot(c, p) = Snapshot(d, q)
    BY <2>1
  <2>3. c.llm = d.llm
    BY <2>2 DEF Snapshot
  <2> QED
    BY <1>1, <1>2, <1>4, <2>3 DEF Runners, CorrectSource, TranslateFast, TranslateQuality, Review,
        Export, LlmReads, Value, CORRECT_SOURCE, TRANSLATE, REVIEW, EXPORT
<1>5. CASE s = SEGMENT
  BY <1>1, <1>5 DEF Runners, Segment, SEGMENT
<1>6. CASE s = PUBLISH
  <2>1. /\ KeyOptions(c, p, s)[2] = <<c.output, Snapshot(c, p)>>
        /\ KeyOptions(d, q, s)[2] = <<d.output, Snapshot(d, q)>>
    BY <1>6 DEF KeyOptions, TRANSCRIBE, INSPECT, CORRECT_SOURCE, TRANSLATE, REVIEW, EXPORT, PUBLISH
  <2>2. c.output = d.output
    BY <2>1
  <2> QED
    BY <1>1, <1>6, <2>2 DEF Runners, Publish, Value, PUBLISH
<1> QED
  BY <1>1, <1>2, <1>3, <1>4, <1>5, <1>6
     DEF TRANSCRIBE, CORRECT_SOURCE, SEGMENT, TRANSLATE, REVIEW, EXPORT, PUBLISH

\* The stages a stage depends on are itself and those that what it uses
\* depends on.
LEMMA SourcesAre ==
    ASSUME Pipeline, NEW p \in Profiles, NEW s \in Stages
    PROVE  Sources[p][s] = {s} \union UNION {Sources[p][t] : t \in Uses(p, s)}
<1> DEFINE IsClosed(S) == \A u \in S : Uses(p, u) \subseteq S
           From(t) == {u \in Stages : \A S \in SUBSET Stages : t \in S /\ IsClosed(S) => u \in S}
           All == {s} \union UNION {From(t) : t \in Uses(p, s)}
<1>1. \A t \in Stages : Sources[p][t] = From(t)
  BY DEF Sources
<1>2. \A u \in Stages : Uses(p, u) \subseteq Stages
  BY UsesEarlier, PlanFacts
<1>3. \A t \in Stages : t \in From(t)
  OBVIOUS
<1>4. ASSUME NEW t \in Stages PROVE IsClosed(From(t))
  <2> SUFFICES ASSUME NEW u \in From(t), NEW v \in Uses(p, u), NEW S \in SUBSET Stages,
                      t \in S, IsClosed(S)
               PROVE  v \in S
    BY <1>2
  <2>1. u \in S
    OBVIOUS
  <2> QED
    BY <2>1
<1>5. All \subseteq From(s)
  <2> SUFFICES ASSUME NEW t \in Uses(p, s), NEW u \in From(t), NEW S \in SUBSET Stages,
                      s \in S, IsClosed(S)
               PROVE  u \in S
    BY <1>3
  <2>1. t \in S
    OBVIOUS
  <2> QED
    BY <2>1
<1>6. From(s) \subseteq All
  <2>1. All \in SUBSET Stages /\ s \in All
    OBVIOUS
  <2>2. IsClosed(All)
    <3> SUFFICES ASSUME NEW u \in All, NEW v \in Uses(p, u) PROVE v \in All
      OBVIOUS
    <3>1. CASE u = s
      BY <1>2, <1>3, <3>1
    <3>2. ASSUME NEW t \in Uses(p, s), u \in From(t) PROVE v \in All
      <4>1. t \in Stages
        BY <1>2
      <4> QED
        BY <1>4, <3>2, <4>1
    <3> QED
      BY <3>1, <3>2
  <2> HIDE DEF All
  <2> QED
    BY <2>1, <2>2
<1> HIDE DEF From, All
<1>7. {Sources[p][t] : t \in Uses(p, s)} = {From(t) : t \in Uses(p, s)}
  BY <1>1, <1>2
<1> QED
  BY <1>1, <1>5, <1>6, <1>7 DEF All

\* What a stage would contain is what it reads and what the stages it uses
\* would contain.
LEMMA WantedIs ==
    ASSUME Pipeline, rec.profile \in Profiles, NEW s \in Stages
    PROVE  Wanted(s) = Read(s) \union UNION {Wanted(t) : t \in Uses(rec.profile, s)}
<1>1. Sources[rec.profile][s] = {s} \union UNION {Sources[rec.profile][t] : t \in Uses(rec.profile, s)}
  BY SourcesAre
<1> QED
  BY <1>1 DEF Wanted

\* At the end of a command each stage contains what it would be made of now,
\* from the artifacts that are there.
LEMMA EachIsProduct ==
    ASSUME Pipeline, InvContents, Running, next = PUBLISH + 1, ~moved, ~mixed, NEW s \in plan
    PROVE  output[s] = Product(s)
<1>1. /\ rec.profile \in Profiles /\ plan = Plan[rec.profile] /\ plan \subseteq Stages
      /\ {INSPECT, NORMALIZE} \subseteq plan
  BY RecordFacts DEF InvContents
<1>2. \A t \in plan : t < next
  BY <1>1, StageNumbers DEF PUBLISH
<1>3. \A t \in plan : Committed(t) /\ KeyIsNow(t)
  BY <1>2 DEF InvContents, InLoopInv, InRun, KeysAreNow
<1>4. \A t \in plan : key[t] = CacheKey(t)
  BY <1>3 DEF KeyIsNow
<1>5. key[INSPECT][1][2][1] = source
  BY <1>1, <1>4, KeyParts
<1>6. /\ output[INSPECT] = {<<INSPECT, "source", source>>}
      /\ output[NORMALIZE] = {<<NORMALIZE, "source", source>>} \union output[INSPECT]
  BY <1>1, <1>3, <1>5 DEF InvContents, MadeInv, SourceRead
<1>7. CASE s = INSPECT
  BY <1>6, <1>7 DEF Product, Read, Uses, Runners, Inspect, Value, INSPECT
<1>8. CASE s = NORMALIZE
  <2>1. Uses(rec.profile, NORMALIZE) = {INSPECT}
    BY <1>1 DEF Uses, Runners, Normalize, INSPECT, NORMALIZE
  <2>2. Read(NORMALIZE) = {<<NORMALIZE, "source", source>>}
    BY DEF Read, Runners, Normalize, Value, NORMALIZE
  <2> QED
    BY <1>6, <1>8, <2>1, <2>2 DEF Product
<1>9. CASE s \notin {INSPECT, NORMALIZE}
  <2>1. Made(s)
    BY <1>3, <1>9 DEF InvContents, MadeInv, AllMade
  <2>2. PICK p \in Profiles : \E c \in Configs(p) :
            /\ key[s][1] = KeyOptions(c, p, s)
            /\ output[s] = {<<s, option, Value(c, p, option)>> : option \in Runners(p)[s].reads}
                              \union UNION {key[s][2][t] : t \in Uses(p, s)}
    BY <2>1 DEF Made
  <2>3. PICK c \in Configs(p) :
            /\ key[s][1] = KeyOptions(c, p, s)
            /\ output[s] = {<<s, option, Value(c, p, option)>> : option \in Runners(p)[s].reads}
                              \union UNION {key[s][2][t] : t \in Uses(p, s)}
    BY <2>2
  <2>4. KeyOptions(c, p, s) = KeyOptions(config, rec.profile, s)
    BY <1>4, <2>3, KeyParts
  <2>5. /\ p = rec.profile
        /\ \A option \in Runners(p)[s].reads : Value(c, p, option) = Value(config, rec.profile, option)
    BY <1>1, <1>9, <2>4, OptionsTell DEF InvContents, Shaped
  <2>6. key[s][2] = [t \in Inputs(s) |-> output[t]]
    BY <1>4, KeyParts
  <2>7. Uses(p, s) \subseteq Inputs(s)
    BY <1>1, <1>3, <2>5, UsesEarlier DEF Inputs
  <2>8. \A t \in Uses(p, s) : key[s][2][t] = output[t]
    BY <2>6, <2>7
  <2> QED
    BY <2>3, <2>5, <2>8 DEF Product, Read
<1> QED
  BY <1>7, <1>8, <1>9

\* And so, from the first stage on, what it would contain if all were made now:
\* there is no first stage of which it is not true.
LEMMA InvIsFresh ==
    ASSUME Pipeline, InvContents
    PROVE  Fresh
<1> SUFFICES ASSUME Running, next = PUBLISH + 1, ~moved, ~mixed
             PROVE  \A s \in plan : output[s] = Wanted(s)
  BY DEF Fresh
<1> DEFINE Stale == {s \in plan : output[s] # Wanted(s)}
<1>1. rec.profile \in Profiles /\ plan = Plan[rec.profile] /\ plan \subseteq Stages
  BY RecordFacts DEF InvContents
<1> SUFFICES ASSUME Stale # {} PROVE FALSE
  OBVIOUS
<1>2. PICK s \in Stale : \A t \in Stale : s <= t
  BY <1>1, Ends
<1>3. Uses(rec.profile, s) \subseteq {t \in plan : t < s}
  BY <1>1, UsesEarlier
<1>4. \A t \in Uses(rec.profile, s) : output[t] = Wanted(t)
  BY <1>1, <1>2, <1>3, StageNumbers
<1>5. output[s] = Read(s) \union UNION {output[t] : t \in Uses(rec.profile, s)}
  BY EachIsProduct DEF Product
<1>6. Wanted(s) = Read(s) \union UNION {Wanted(t) : t \in Uses(rec.profile, s)}
  BY <1>1, WantedIs
<1> QED
  BY <1>4, <1>5, <1>6

\* With the stages and plans of the code, and for any options, any number of
\* attempts, changes and faults: what a command that leaves the job succeeded
\* has kept of earlier runs is what it would make now.
THEOREM SucceededIsFresh == Pipeline => (SpecContents => []Fresh)
<1> SUFFICES ASSUME Pipeline PROVE SpecContents => []Fresh
  OBVIOUS
<1>1. InitContents => InvContents
  BY InitInvContents
<1>2. InvContents /\ [NextContents]_allVars => InvContents'
  BY NextInvContents
<1>3. InvContents => Fresh
  BY InvIsFresh
<1> QED
  BY <1>1, <1>2, <1>3, PTL DEF SpecContents

=============================================================================
