------------------------------- MODULE Replay -------------------------------
(***************************************************************************)
(* What one journal event does to the projection of one job: the pure      *)
(* transition functions of core/domain/journal.py.  Every event has an     *)
(* operator XxxOK saying when replay accepts it and an operator giving the *)
(* projection it produces; a rejected event is the AppError                *)
(* "journal.transition_invalid".                                           *)
(*                                                                         *)
(* A job's projection is a record: its state, the pipeline profile of its  *)
(* configuration (the only part of it replay depends on), and the state    *)
(* and attempt number of each stage.  Stages are numbered by their place   *)
(* in the StageName enumeration; each plan is an increasing selection of   *)
(* them, so a plan is a set.  A stage outside the plan has no projection:  *)
(* it keeps the default of StageProjection, pending with attempt 0.        *)
(***************************************************************************)
EXTENDS Integers, FiniteSets

CONSTANTS
    Jobs,        \* job identifiers
    Stages,      \* positions in StageName
    Profiles,    \* pipeline profiles
    Plan         \* Plan[p]: the stages profile p runs

ASSUME PlanAssumption ==
    /\ Stages \subseteq Nat
    /\ Plan \in [Profiles -> (SUBSET Stages) \ {{}}]

JobStates == {"pending", "running", "interrupted", "failed", "cancelled", "succeeded"}

StageStates ==
    {"pending", "running", "interrupted", "failed", "cancelled", "committed", "invalidated"}

\* "absent": replay has not seen the job's job.created event.
JobRecord ==
    [state   : JobStates \union {"absent"},
     profile : Profiles,
     stage   : [Stages -> StageStates],
     attempt : [Stages -> Nat]]

-----------------------------------------------------------------------------
(* Plans                                                                    *)

\* The stage right before s in the plan, if any.
Dependencies(p, s) ==
    {d \in Plan[p] : d < s /\ \A t \in Plan[p] : t < s => t <= d}

Suffix(p, s) == {t \in Plan[p] : t >= s}

DependenciesCommitted(r, s) ==
    \A d \in Dependencies(r.profile, s) : r.stage[d] = "committed"

AllCommitted(r) == \A s \in Plan[r.profile] : r.stage[s] = "committed"

-----------------------------------------------------------------------------
(* Events                                                                   *)

\* job.created: the job's stages are those of its profile, all pending.
NewJob(p) ==
    [state   |-> "pending",
     profile |-> p,
     stage   |-> [s \in Stages |-> "pending"],
     attempt |-> [s \in Stages |-> 0]]

\* stage.started: a new attempt, and the dependency is committed.  The state
\* of the job is not looked at.
StartedOK(r, s, n) ==
    /\ s \in Plan[r.profile]
    /\ n > r.attempt[s]
    /\ r.stage[s] # "running"
    /\ DependenciesCommitted(r, s)

Started(r, s, n) ==
    [r EXCEPT !.state = "running", !.stage[s] = "running", !.attempt[s] = n]

\* stage.interrupted, stage.committed, stage.failed, stage.cancelled all close
\* the running attempt; only a commit leaves the job running.
Outcomes == {"interrupted", "committed", "failed", "cancelled"}

ClosedOK(r, s, n) ==
    /\ s \in Plan[r.profile]
    /\ r.stage[s] = "running"
    /\ n = r.attempt[s]

Closed(r, s, outcome) ==
    [r EXCEPT !.state = IF outcome = "committed" THEN "running" ELSE outcome,
              !.stage[s] = outcome]

\* stage.invalidated: committed stages from s on become invalidated; whatever
\* state the job is in, it is pending again.
InvalidatedOK(r, s, n) ==
    /\ s \in Plan[r.profile]
    /\ r.stage[s] = "committed"
    /\ n = r.attempt[s]

\* Mutant: the job keeps its verdict.
Invalidated_KeepsVerdict(r, s) ==
    [r EXCEPT !.stage = [t \in Stages |->
                  IF t \in Suffix(r.profile, s) /\ r.stage[t] = "committed"
                  THEN "invalidated" ELSE r.stage[t]]]

\* Mutant: the stages after s stay committed.
Invalidated_OnlyStage(r, s) == [r EXCEPT !.state = "pending", !.stage[s] = "invalidated"]

Invalidated(r, s) ==
    [r EXCEPT !.state = "pending",
              !.stage = [t \in Stages |->
                  IF t \in Suffix(r.profile, s) /\ r.stage[t] = "committed"
                  THEN "invalidated" ELSE r.stage[t]]]

\* job.retry_requested: the suffix is pending again and keeps its attempts.
RetryOK(r, s) ==
    /\ s \in Plan[r.profile]
    /\ r.stage[s] = "pending" => r.state \in {"failed", "cancelled"}
    /\ DependenciesCommitted(r, s)

Retried(r, s) ==
    [r EXCEPT !.state = "pending",
              !.stage = [t \in Stages |->
                  IF t \in Suffix(r.profile, s) THEN "pending" ELSE r.stage[t]]]

\* job.succeeded, job.failed, job.cancelled
SucceededOK(r) == r.state # "succeeded" /\ AllCommitted(r)

FailedOK(r) == r.state \in {"pending", "running", "failed"}

CancelledOK(r) == r.state \in {"pending", "running", "interrupted", "cancelled"}

Ended(r, state) == [r EXCEPT !.state = state]

\* batch.config_updated: every job is projected onto the plan of profile p.
\* A stage the old plan did not have starts from the default; from the
\* boundary on, a committed stage is invalidated and any other is pending.
ReconfiguredStage(r, p, boundary, t) ==
    IF t \notin Plan[r.profile] \intersect Plan[p] THEN "pending"
    ELSE IF t < boundary THEN r.stage[t]
    ELSE IF r.stage[t] = "committed" THEN "invalidated"
    ELSE "pending"

Reconfigured(r, p, boundary) ==
    [state   |-> IF r.state \in {"failed", "cancelled"} THEN r.state ELSE "pending",
     profile |-> p,
     stage   |-> [t \in Stages |-> ReconfiguredStage(r, p, boundary, t)],
     attempt |-> [t \in Stages |->
                     IF t \in Plan[r.profile] \intersect Plan[p] THEN r.attempt[t] ELSE 0]]

=============================================================================
