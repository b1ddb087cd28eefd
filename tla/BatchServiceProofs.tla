-------------------------- MODULE BatchServiceProofs --------------------------
(***************************************************************************)
(* Proofs about the service, for any number of jobs, any plans, drivers,   *)
(* commands and bounds: the types of its variables, that a stage is        *)
(* committed only on top of committed stages, that the service implements  *)
(* the journal, and its three action properties: a verdict is left by a    *)
(* retry, a cancel marker is dropped with what it asked for, and a command *)
(* that ends leaves a true manifest.  Then what the desktop's views of it  *)
(* promise: offered actions are accepted, a cut-off batch is recoverable,  *)
(* and a row does not show work that nobody does.                          *)
(*                                                                         *)
(* They all fail from most states of the right type: they rest on what the *)
(* writer knows of the journal at each place of its program.  The          *)
(* inductive invariant IInv has a part about the journal (JournalOK) and a *)
(* part about the writer's place in it (CreateKnows, LoopsKnow,            *)
(* StageKnows, RoomLeft, QueueOK).  A step is then looked at twice: what   *)
(* it does to the record of one job, by lemmas on the transition functions *)
(* of Replay, and where it takes the writer.  On top of IInv each action   *)
(* property has an invariant of its own: VerdictsKnown, MarkersKnown, and  *)
(* LeftoverOpen with RequestKnown and ManifestFollows.  So have the views: *)
(* ViewsKnown is about the stages of a job that a retry would start from,  *)
(* AttemptsKnown about the attempts that are open, and where.              *)
(***************************************************************************)
EXTENDS BatchViews, WellFoundedInduction, TLAPS

Writers ==
    [pc : Labels, op : {"none", "create", "execute", "resume", "retry", "cancel"},
     ret : {"idle", "workspaces", "run-acknowledged", "cancelled"},
     job : 0 .. NJobs + 1, stage : Stages \union {0}, skip : SUBSET Jobs, seen : BOOLEAN,
     whole : BOOLEAN, targets : SUBSET Jobs, todo : {w.todo},
     error : {"none", "error", "cancelled", "post-commit"}]

-----------------------------------------------------------------------------
(* What the journal says of one job                                         *)

\* Committed stages are the first ones of the plan.
Prefix(r) ==
    \A s, t \in Plan[r.profile] : t < s /\ r.stage[s] = "committed" => r.stage[t] = "committed"

Recorded(r) ==
    /\ r \in JobRecord
    /\ r.state = "absent" => r = [NewJob(r.profile) EXCEPT !.state = "absent"]
    /\ \A s \in Stages \ Plan[r.profile] : r.stage[s] = "pending" /\ r.attempt[s] = 0
    /\ \A s \in Stages : /\ r.attempt[s] <= MaxAttempt + 1
                         /\ r.stage[s] \in {"running", "committed"} => r.attempt[s] >= 1
    /\ Prefix(r)

JournalOK ==
    /\ opened \in BOOLEAN /\ batch \in [Jobs -> JobRecord]
    /\ \A j \in Jobs : Recorded(batch[j])
    /\ \A j, k \in Existing : batch[j].profile = batch[k].profile
    /\ Existing # {} => opened /\ 1 \in Existing

-----------------------------------------------------------------------------
(* What the writer knows at each place                                      *)

Acknowledging == {"acknowledge", "closing", "unmark", "unmark-pause", "unmark-jobs"}
BeforeLoop == {"open", "create", "run", "configure", "configured", "reconcile", "interrupt",
               "verify", "invalidate", "workspaces", "unpause", "run-acknowledged"}
Attempting == {"started", "execute", "commit", "fail", "cancel"}
ToStart == {"stage-pause", "invalidate-stage", "workspace", "start"}
OnStage == ToStart \union Attempting \union {"committed"}
OnJob == OnStage \union {"job-pause", "stage", "fail-job", "failed", "cancel-job", "cancel-manifest",
                         "caught", "caught-manifest", "cancelled", "succeed", "succeeded",
                         "clear-marker", "after-job", "after-job-pause"}

Current == batch[w.job]

\* create appends to the journal it has just opened.
CreateKnows ==
    /\ At("open") => ~opened
    /\ At("create") => opened
    /\ w.pc \in {"open", "create"} => \A j, k \in Jobs : batch[j].profile = batch[k].profile
    /\ At("configure") => Existing # {}

\* The loops of resume, retry and acknowledge_cancel_requests.
LoopsKnow ==
    /\ At("invalidate") => /\ w.todo \subseteq Existing \X Stages
                           /\ \A x \in w.todo : batch[x[1]].stage[x[2]] = "committed"
                           /\ \A x, y \in w.todo : x[1] = y[1] => x = y
    /\ At("closing") => w.todo \subseteq Existing
    /\ w.pc \notin Acknowledging => w.ret = "idle"
    /\ w.ret = "cancelled" => w.job \in Existing
    /\ w.pc \in BeforeLoop => w.job = 0
    /\ w.ret \in {"workspaces", "run-acknowledged"} => w.job = 0

\* The loop over the jobs and the stages of one.
StageKnows ==
    /\ w.pc \in OnJob => w.job \in Existing
    /\ w.pc \in OnStage => w.stage \in Plan[Current.profile]
    /\ At("stage") => w.stage \in Plan[Current.profile] \union {0}
    /\ At("invalidate-stage") => Current.stage[w.stage] = "committed"
    /\ w.pc \in {"workspace", "start"} => Current.stage[w.stage] # "committed"
    /\ w.pc \in Attempting =>
          /\ Current.stage[w.stage] = "running"
          /\ \A t \in Plan[Current.profile] : t < w.stage => Current.stage[t] = "committed"
    /\ At("fail-job") => Current.state = "failed"
    /\ At("cancel-job") => Current.state = "cancelled"

\* A number is left for one more attempt.
Fresh(j, s) == batch[j].attempt[s] < MaxAttempt \/ batch[j].attempt[s] = 0
AllFresh == \A j \in Jobs, s \in Stages : Fresh(j, s)

\* The command is over, or will be when the acknowledgement is.
Ending == At("idle") \/ (w.pc \in Acknowledging /\ w.ret = "idle")

\* What a command still has to start has such a number.
RoomLeft ==
    /\ queued # NotQueued => AllFresh /\ Ending
    /\ At("retried") => AllFresh
    /\ ~Ending => \A j \in Jobs, s \in Stages : j > w.job => Fresh(j, s)
    /\ w.pc \in {"job", "job-pause"} => \A s \in Stages : w.job \in Jobs => Fresh(w.job, s)
    /\ w.pc \in ToStart \union {"stage"} =>
          \A s \in Stages : w.stage # 0 /\ s >= w.stage => Fresh(w.job, s)
    /\ w.pc \in Attempting \union {"committed"} => \A s \in Stages : s > w.stage => Fresh(w.job, s)

QueueOK ==
    /\ queued \in [op : {"none", "execute", "resume", "retry"}, job : 0 .. NJobs,
                  stage : Stages \union {0}]
    /\ queued.op = "retry" => queued.job \in Existing /\ queued.stage \in Stages

Requests ==
    [step : {"none", "cancel", "drop-pause", "marked", "pause"}, job : Jobs \union {0},
     scheduled : BOOLEAN]

\* The rest of the state: its types are all that is needed of it.
RestOK ==
    /\ projected \in BOOLEAN /\ cancelBatch \in BOOLEAN /\ pause \in BOOLEAN
    /\ cancelLogged \subseteq Jobs /\ cancelJob \subseteq Jobs /\ lost \subseteq Jobs
    /\ damaged \subseteq Jobs \X Stages /\ drifted \subseteq Jobs \X Stages
    /\ leftover \subseteq Jobs \X Stages
    /\ crashes \in 0..MaxCrash /\ faults \in 0..MaxFault /\ rots \in 0..MaxRot
    /\ driver \in Drivers
    /\ req \in Requests

Inv == w \in Writers /\ JournalOK /\ CreateKnows /\ LoopsKnow /\ StageKnows /\ RoomLeft /\ QueueOK

-----------------------------------------------------------------------------
(* Numbers                                                                  *)

\* A set of naturals has a least element, and Least picks it.
LEMMA LeastIn ==
    ASSUME NEW S, S \subseteq Nat, S # {}
    PROVE  Least(S) \in S /\ \A y \in S : Least(S) <= y
<1>1. PICK x \in S : \A y \in S : <<y, x>> \notin OpToRel(<, Nat)
  BY NatLessThanWellFounded, WFMin, Zenon
<1>2. \A y \in S : ~(y < x)
  BY <1>1 DEF OpToRel
<1>3. \A y \in S : x <= y
  BY <1>2
<1> QED
  BY <1>3 DEF Least

\* Of the naturals below n in a set, if there are any, one is the greatest.
LEMMA GreatestBelow ==
    ASSUME NEW S, S \subseteq Nat, NEW n \in Nat, \E t \in S : t < n
    PROVE  \E d \in S : d < n /\ \A t \in S : t < n => t <= d
<1> DEFINE D == {n - t : t \in {u \in S : u < n}}
<1>1. D \subseteq Nat /\ D # {}
  OBVIOUS
<1>2. Least(D) \in D /\ \A y \in D : Least(D) <= y
  BY <1>1, LeastIn, Zenon
<1>3. PICK d \in S : d < n /\ Least(D) = n - d
  BY <1>2
<1>4. \A t \in S : t < n => n - d <= n - t
  BY <1>2, <1>3
<1> QED
  BY <1>3, <1>4

\* The stage after s is one of the plan, or there is none: the loop of _run_job.
LEMMA NextStageInPlan ==
    ASSUME NEW j \in Jobs, batch[j].profile \in Profiles, NEW s \in Stages \union {0}
    PROVE  /\ NextStage(j, s) \in Plan[batch[j].profile] \union {0}
           /\ NextStage(j, s) # 0 => NextStage(j, s) > s
<1> DEFINE P == Plan[batch[j].profile]
           L == {t \in P : t > s}
<1>1. P \subseteq Nat /\ L \subseteq Nat
  BY PlanAssumption
<1>2. CASE L = {}
  BY <1>2 DEF NextStage
<1>3. CASE L # {}
  <2>1. Least(L) \in L
    BY <1>1, <1>3, LeastIn
  <2> QED
    BY <1>3, <2>1 DEF NextStage
<1> QED
  BY <1>2, <1>3

-----------------------------------------------------------------------------
(* The transition functions                                                 *)

\* A created job is recorded as it should be, and so is an absent one.
LEMMA NewJobRecorded ==
    ASSUME NEW p \in Profiles
    PROVE  /\ Recorded(NewJob(p)) /\ NewJob(p).profile = p /\ NewJob(p).state = "pending"
           /\ Recorded([NewJob(p) EXCEPT !.state = "absent"])
           /\ [NewJob(p) EXCEPT !.state = "absent"].profile = p
           /\ [NewJob(p) EXCEPT !.state = "absent"].state = "absent"
<1>1. NewJob(p) \in JobRecord /\ [NewJob(p) EXCEPT !.state = "absent"] \in JobRecord
  BY DEF NewJob, JobRecord, JobStates, StageStates
<1>2. /\ NewJob(p).profile = p /\ NewJob(p).state = "pending"
      /\ NewJob(p).stage = [s \in Stages |-> "pending"]
      /\ NewJob(p).attempt = [s \in Stages |-> 0]
  BY DEF NewJob
<1> DEFINE q == [NewJob(p) EXCEPT !.state = "absent"]
<1>3. /\ q.profile = p /\ q.state = "absent"
      /\ q.stage = [s \in Stages |-> "pending"]
      /\ q.attempt = [s \in Stages |-> 0]
  BY DEF NewJob
<1>4. Plan[p] \subseteq Stages
  BY PlanAssumption
<1>5. Recorded(NewJob(p))
  BY <1>1, <1>2, <1>4, ServiceAssumption DEF Recorded, Prefix
<1>6. Recorded(q)
  <2>1. q = [NewJob(q.profile) EXCEPT !.state = "absent"]
    BY <1>3
  <2> HIDE DEF q
  <2> QED
    BY <1>1, <1>3, <1>4, <2>1, ServiceAssumption DEF Recorded, Prefix, q
<1> QED
  BY <1>2, <1>3, <1>5, <1>6

\* Replay checks the preceding stage; of a journal the service wrote it learns
\* that all earlier stages are committed.
LEMMA EarlierCommitted ==
    ASSUME NEW r, Recorded(r), NEW s \in Plan[r.profile], DependenciesCommitted(r, s),
           NEW t \in Plan[r.profile], t < s
    PROVE  r.stage[t] = "committed"
<1>1. Plan[r.profile] \subseteq Nat
  BY PlanAssumption DEF Recorded, JobRecord
<1>2. PICK d \in Plan[r.profile] : d < s /\ \A u \in Plan[r.profile] : u < s => u <= d
  BY <1>1, GreatestBelow
<1>3. r.stage[d] = "committed"
  BY <1>2 DEF DependenciesCommitted, Dependencies
<1>4. t = d \/ t < d
  BY <1>1, <1>2
<1> QED
  BY <1>3, <1>4 DEF Recorded, Prefix

\* The other way round: all earlier stages include the preceding one.
LEMMA DependencyIsEarlier ==
    ASSUME NEW r, NEW s, \A t \in Plan[r.profile] : t < s => r.stage[t] = "committed"
    PROVE  DependenciesCommitted(r, s)
BY DEF DependenciesCommitted, Dependencies

\* A new attempt of a stage that is not committed: _apply_stage_event.
LEMMA StartedRecorded ==
    ASSUME NEW r, Recorded(r), NEW s \in Stages, NEW n \in 1..MaxAttempt + 1,
           StartedOK(r, s, n), r.stage[s] # "committed"
    PROVE  Recorded(Started(r, s, n)) /\ Started(r, s, n).profile = r.profile
<1> DEFINE q == Started(r, s, n)
<1>0. MaxAttempt \in Nat /\ n \in Nat
  BY ServiceAssumption
<1>1. q \in JobRecord /\ q.profile = r.profile /\ q.state = "running"
  BY <1>0 DEF Started, Recorded, JobRecord, JobStates, StageStates
<1>2. \A t \in Stages : /\ q.stage[t] = IF t = s THEN "running" ELSE r.stage[t]
                        /\ q.attempt[t] = IF t = s THEN n ELSE r.attempt[t]
  BY DEF Started, Recorded, JobRecord
<1>3. Plan[r.profile] \subseteq Stages /\ s \in Plan[r.profile]
  BY PlanAssumption DEF Recorded, JobRecord, StartedOK
<1>4. Prefix(q)
  BY <1>1, <1>2, <1>3 DEF Recorded, Prefix
<1> QED
  BY <1>1, <1>2, <1>3, <1>4, ServiceAssumption DEF Recorded

\* The end of the running attempt: _terminal_stage.
LEMMA ClosedRecorded ==
    ASSUME NEW r, Recorded(r), NEW s \in Plan[r.profile], r.stage[s] = "running",
           NEW outcome \in Outcomes,
           outcome = "committed" => \A t \in Plan[r.profile] : t < s => r.stage[t] = "committed"
    PROVE  Recorded(Closed(r, s, outcome)) /\ Closed(r, s, outcome).profile = r.profile
<1> DEFINE q == Closed(r, s, outcome)
<1>1. s \in Stages
  BY PlanAssumption DEF Recorded, JobRecord
<1>2. q \in JobRecord /\ q.profile = r.profile /\ q.state # "absent" /\ q.attempt = r.attempt
  BY <1>1 DEF Closed, Outcomes, Recorded, JobRecord, JobStates, StageStates
<1>3. \A t \in Stages : q.stage[t] = IF t = s THEN outcome ELSE r.stage[t]
  BY <1>1 DEF Closed, Recorded, JobRecord
<1>4. Plan[r.profile] \subseteq Stages
  BY PlanAssumption DEF Recorded, JobRecord
<1>5. Prefix(q)
  <2> SUFFICES ASSUME NEW u \in Plan[r.profile], NEW t \in Plan[r.profile], t < u,
                      q.stage[u] = "committed"
               PROVE  q.stage[t] = "committed"
    BY <1>2 DEF Prefix
  <2>1. CASE u = s
    BY <1>1, <1>3, <1>4, <2>1, PlanAssumption
  <2>2. CASE u # s
    BY <1>3, <1>4, <2>2 DEF Recorded, Prefix
  <2> QED
    BY <2>1, <2>2
<1> QED
  BY <1>2, <1>3, <1>4, <1>5 DEF Recorded

\* The invalidation of a suffix of the committed stages: _invalidate_suffix.
LEMMA InvalidatedRecorded ==
    ASSUME NEW r, Recorded(r), NEW s \in Stages, r.stage[s] = "committed"
    PROVE  /\ Recorded(Invalidated(r, s)) /\ Invalidated(r, s).profile = r.profile
           /\ s \in Plan[r.profile]
<1> DEFINE q == Invalidated(r, s)
<1>1. q \in JobRecord /\ q.profile = r.profile /\ q.state = "pending" /\ q.attempt = r.attempt
  BY DEF Invalidated, Recorded, JobRecord, JobStates, StageStates
<1>2. \A t \in Stages : q.stage[t] = IF t \in Suffix(r.profile, s) /\ r.stage[t] = "committed"
                                     THEN "invalidated" ELSE r.stage[t]
  BY DEF Invalidated
<1>3. Plan[r.profile] \subseteq Stages /\ Stages \subseteq Nat
  BY PlanAssumption DEF Recorded, JobRecord
<1>4. Prefix(q)
  BY <1>1, <1>2, <1>3 DEF Recorded, Prefix, Suffix
<1>5. s \in Plan[r.profile]
  BY DEF Recorded
<1> QED
  BY <1>1, <1>2, <1>3, <1>4, <1>5 DEF Recorded, Suffix

\* A suffix that is pending again: _retry_job.
LEMMA RetriedRecorded ==
    ASSUME NEW r, Recorded(r), NEW s \in Stages
    PROVE  Recorded(Retried(r, s)) /\ Retried(r, s).profile = r.profile
<1> DEFINE q == Retried(r, s)
<1>1. q \in JobRecord /\ q.profile = r.profile /\ q.state = "pending" /\ q.attempt = r.attempt
  BY DEF Retried, Recorded, JobRecord, JobStates, StageStates
<1>2. \A t \in Stages : q.stage[t] = IF t \in Suffix(r.profile, s) THEN "pending" ELSE r.stage[t]
  BY DEF Retried
<1>3. Plan[r.profile] \subseteq Stages /\ Stages \subseteq Nat
  BY PlanAssumption DEF Recorded, JobRecord
<1>4. Prefix(q)
  BY <1>1, <1>2, <1>3 DEF Recorded, Prefix, Suffix
<1> QED
  BY <1>1, <1>2, <1>3, <1>4 DEF Recorded, Suffix

\* The verdict on a job: _apply_job_terminal.
LEMMA EndedRecorded ==
    ASSUME NEW r, Recorded(r), NEW state \in {"succeeded", "failed", "cancelled"}
    PROVE  Recorded(Ended(r, state)) /\ Ended(r, state).profile = r.profile
BY DEF Ended, Recorded, Prefix, JobRecord, JobStates

\* A stage that keeps its place precedes every difference of the two plans, so
\* what it was computed from keeps its place too: _earliest_change.
LEMMA ReconfiguredRecorded ==
    ASSUME NEW r, Recorded(r), r.state # "absent", NEW p \in Profiles, NEW boundary \in Plan[p],
           \A t \in (Plan[r.profile] \ Plan[p]) \union (Plan[p] \ Plan[r.profile]),
              kept \in Plan[p] : kept < boundary => kept < t
    PROVE  /\ Recorded(Reconfigured(r, p, boundary)) /\ Reconfigured(r, p, boundary).profile = p
           /\ Reconfigured(r, p, boundary).state # "absent"
<1> DEFINE q == Reconfigured(r, p, boundary)
<1>1. \A t \in Stages : ReconfiguredStage(r, p, boundary, t) \in StageStates
  BY DEF Recorded, ReconfiguredStage, JobRecord, StageStates
<1>2. q \in JobRecord /\ q.profile = p /\ q.state # "absent"
  BY <1>1 DEF Recorded, Reconfigured, JobRecord, JobStates
<1>3. \A t \in Stages : /\ q.stage[t] = ReconfiguredStage(r, p, boundary, t)
                        /\ q.attempt[t] = IF t \in Plan[r.profile] \intersect Plan[p]
                                          THEN r.attempt[t] ELSE 0
  BY DEF Reconfigured
<1>4. Plan[r.profile] \subseteq Stages /\ Plan[p] \subseteq Stages /\ Stages \subseteq Nat
  BY PlanAssumption DEF Recorded, JobRecord
<1>5. Prefix(q)
  <2> SUFFICES ASSUME NEW u \in Plan[p], NEW t \in Plan[p], t < u, q.stage[u] = "committed"
               PROVE  q.stage[t] = "committed"
    BY <1>2 DEF Prefix
  <2>1. u \in Plan[r.profile] /\ u < boundary /\ r.stage[u] = "committed"
    BY <1>3, <1>4 DEF ReconfiguredStage
  <2>2. t \in Plan[r.profile]
    <3> SUFFICES ASSUME t \notin Plan[r.profile] PROVE FALSE
      OBVIOUS
    <3>1. u < t
      BY <2>1, Zenon
    <3>2. u \in Nat /\ t \in Nat
      BY <1>4
    <3> QED
      BY <3>1, <3>2
  <2>3. t < boundary /\ r.stage[t] = "committed"
    BY <1>4, <2>1, <2>2 DEF Recorded, Prefix
  <2> QED
    BY <1>3, <1>4, <2>2, <2>3 DEF ReconfiguredStage
<1>6. \A s \in Stages \ Plan[p] : q.stage[s] = "pending" /\ q.attempt[s] = 0
  BY <1>3 DEF ReconfiguredStage
<1>7. \A s \in Stages : /\ q.attempt[s] <= MaxAttempt + 1
                        /\ q.stage[s] \in {"running", "committed"} => q.attempt[s] >= 1
  BY <1>3, ServiceAssumption DEF Recorded, ReconfiguredStage, JobRecord
<1> QED
  BY <1>2, <1>5, <1>6, <1>7 DEF Recorded

-----------------------------------------------------------------------------
(* The writer's place                                                       *)

\* What the writer knows, wherever it is.
Place == CreateKnows /\ LoopsKnow /\ StageKnows /\ RoomLeft

\* The journal and the queue stay as they are.
Still == batch' = batch /\ opened' = opened /\ queued' = queued

\* Where the writer goes, and the local variables Place speaks of there.
Moved(pc, ret, job, stage, todo) ==
    /\ w' \in Writers'
    /\ w'.pc = pc /\ w'.ret = ret /\ w'.job = job /\ w'.stage = stage /\ w'.todo = todo

\* The label changes and nothing else: Goto.
LEMMA GotoMoves ==
    ASSUME w \in Writers, NEW pc \in Labels, Goto(pc)
    PROVE  Moved(pc, w.ret, w.job, w.stage, w.todo)
BY DEF Writers, Goto, Moved

\* The release of the lease: Stop.
LEMMA StopMoves ==
    ASSUME Stop
    PROVE  Moved("idle", "idle", 0, 0, {})
BY ServiceAssumption DEF Writers, Stop, Idle, Moved, Labels

\* The error that ended the loop over the stages: Raise.
LEMMA RaiseMoves ==
    ASSUME w \in Writers, NEW error \in {"error", "cancelled", "post-commit"}, Raise(error)
    PROVE  Moved("caught", w.ret, w.job, w.stage, w.todo)
<1>1. error \in {"none", "error", "cancelled", "post-commit"} /\ "caught" \in Labels
  BY DEF Labels
<1> QED
  BY <1>1 DEF Writers, Raise, Moved

\* The call of acknowledge_cancel_requests before the writer returns.
LEMMA CallMoves ==
    ASSUME w \in Writers, CallAcknowledge("idle")
    PROVE  Moved("acknowledge", "idle", w.job, w.stage, w.todo)
<1>1. "acknowledge" \in Labels
  BY DEF Labels
<1> QED
  BY <1>1 DEF Writers, CallAcknowledge, Moved

\* The beginning of the loop over the jobs.
LEMMA EnterMoves ==
    ASSUME w \in Writers, EnterLoop
    PROVE  Moved("job", w.ret, 1, w.stage, w.todo)
<1> DEFINE skip == {j \in Existing : batch[j].state \in {"cancelled", "failed"}}
<1>1. skip \in SUBSET Jobs /\ 1 \in 0 .. NJobs + 1 /\ "job" \in Labels
  BY ServiceAssumption DEF Labels, Existing
<1>2. w' = [w EXCEPT !.pc = "job", !.job = 1, !.seen = FALSE, !.skip = skip]
  BY DEF EnterLoop
<1> HIDE DEF skip
<1> QED
  BY <1>1, <1>2 DEF Writers, Moved

\* When the journal and the queue stay, all that is left to show is the place.
LEMMA StillInv ==
    ASSUME Inv, Still, w' \in Writers', Place'
    PROVE  Inv'
BY DEF Inv, Still, Place, JournalOK, QueueOK, Existing

\* A command that ends, or is ended, knows nothing; what is queued then has
\* room for its attempts.
LEMMA StopInv ==
    ASSUME Inv, w' = Idle, batch' = batch, opened' = opened, QueueOK',
           queued' # NotQueued => AllFresh
    PROVE  Inv'
<1>1. Moved("idle", "idle", 0, 0, {})
  BY StopMoves DEF Stop
<1>2. JournalOK'
  BY DEF Inv, JournalOK, Existing
<1>3. CreateKnows' /\ LoopsKnow' /\ StageKnows'
  BY <1>1 DEF Moved, CreateKnows, LoopsKnow, StageKnows, At, BeforeLoop, OnJob, OnStage, ToStart,
     Attempting
<1>4. AllFresh' = AllFresh
  BY DEF AllFresh, Fresh
<1>5. RoomLeft'
  BY <1>1, <1>4 DEF Moved, RoomLeft, Ending, At, ToStart, Attempting, NotQueued
<1> QED
  BY <1>1, <1>2, <1>3, <1>5 DEF Moved, Inv

\* A command that ends and leaves the queue alone.
LEMMA StopStillInv ==
    ASSUME Inv, Stop, Still
    PROVE  Inv'
<1>1. QueueOK'
  BY DEF Inv, Still, QueueOK, Existing
<1>2. queued' # NotQueued => AllFresh
  BY DEF Inv, Still, RoomLeft
<1> QED
  BY <1>1, <1>2, StopInv DEF Stop, Still

\* The steps from one label to the next that need no new knowledge.
Onward ==
    {<<"configured", "reconcile">>, <<"reconcile", "interrupt">>, <<"interrupt", "verify">>,
     <<"workspaces", "unpause">>, <<"unpause", "run">>, <<"closing", "unmark">>,
     <<"unmark", "unmark-pause">>, <<"unmark", "unmark-jobs">>, <<"unmark-pause", "unmark-jobs">>,
     <<"unmark-jobs", "unmark-jobs">>, <<"after-job", "after-job-pause">>, <<"stage", "succeed">>,
     <<"stage-pause", "after-job">>, <<"workspace", "start">>, <<"started", "execute">>,
     <<"started", "fail">>, <<"execute", "cancel">>, <<"execute", "commit">>, <<"execute", "fail">>,
     <<"succeed", "after-job">>, <<"succeeded", "clear-marker">>, <<"clear-marker", "after-job">>,
     <<"stage", "caught">>, <<"stage-pause", "caught">>, <<"start", "caught">>,
     <<"execute", "caught">>, <<"committed", "caught">>, <<"failed", "caught">>,
     <<"cancel-manifest", "caught">>, <<"succeed", "caught">>, <<"commit", "fail">>,
     <<"invalidate-stage", "caught">>, <<"fail", "caught">>, <<"fail-job", "caught">>,
     <<"cancel", "caught">>, <<"cancel-job", "caught">>}

\* Such a step keeps the invariant.
LEMMA OnwardInv ==
    ASSUME Inv, Still, NEW pc, <<w.pc, pc>> \in Onward,
           Moved(pc, w.ret, w.job, w.stage, w.todo)
    PROVE  Inv'
<1>1. CreateKnows'
  BY DEF Onward, Moved, Inv, CreateKnows, At, Still, Existing
<1>2. LoopsKnow'
  BY DEF Onward, Moved, Inv, LoopsKnow, At, Still, Existing, BeforeLoop, Acknowledging
<1>3. StageKnows'
  BY DEF Onward, Moved, Inv, StageKnows, At, Still, Existing, Current, OnJob, OnStage, ToStart,
     Attempting
<1>4. RoomLeft'
  BY DEF Onward, Moved, Inv, RoomLeft, At, Still, Ending, AllFresh, Fresh, Acknowledging, ToStart,
     Attempting
<1> QED
  BY <1>1, <1>2, <1>3, <1>4, StillInv DEF Place, Moved

\* Nor does the way back from acknowledge_cancel_requests: Return.
LEMMA ReturnInv ==
    ASSUME Inv, Still, w.pc \in Acknowledging, Return
    PROVE  Inv'
<1>1. CASE w.ret = "idle"
  BY <1>1, StopStillInv DEF Return
<1>2. CASE w.ret # "idle"
  <2>1. Moved(w.ret, "idle", w.job, w.stage, w.todo)
    <3>1. w' = [w EXCEPT !.pc = w.ret, !.ret = "idle", !.whole = FALSE, !.targets = {}]
      BY <1>2 DEF Return
    <3>2. w \in Writers /\ w.ret \in Labels /\ {} \in SUBSET Jobs
      BY DEF Inv, Writers, Labels
    <3> QED
      BY <3>1, <3>2 DEF Writers, Moved
  <2>2. CreateKnows' /\ LoopsKnow' /\ StageKnows'
    BY <1>2, <2>1 DEF Moved, Inv, Writers, CreateKnows, LoopsKnow, StageKnows, At, Still, Existing,
       BeforeLoop, Acknowledging, OnJob, OnStage, ToStart, Attempting
  <2>3. RoomLeft'
    BY <1>2, <2>1 DEF Moved, Inv, Writers, RoomLeft, At, Still, Ending, AllFresh, Fresh,
       ToStart, Attempting, Acknowledging
  <2> QED
    BY <2>1, <2>2, <2>3, StillInv DEF Place, Moved
<1> QED
  BY <1>1, <1>2

\* Entering the loop over the jobs: every job is still to come.
LEMMA EnterInv ==
    ASSUME Inv, Still, w.pc \in {"run", "run-acknowledged"}, EnterLoop
    PROVE  Inv'
<1>1. Moved("job", w.ret, 1, w.stage, w.todo)
  BY EnterMoves DEF Inv
<1>2. CreateKnows' /\ LoopsKnow' /\ StageKnows'
  BY <1>1 DEF Moved, Inv, CreateKnows, LoopsKnow, StageKnows, At, Still, Existing,
     BeforeLoop, Acknowledging, OnJob, OnStage, ToStart, Attempting
<1>3. w.job = 0 /\ ~Ending
  BY DEF Inv, LoopsKnow, BeforeLoop, Ending, At, Acknowledging
<1>4. \A j \in Jobs, s \in Stages : Fresh(j, s)
  BY <1>3, ServiceAssumption DEF Inv, RoomLeft
<1>5. RoomLeft'
  BY <1>1, <1>3, <1>4 DEF Moved, Inv, RoomLeft, At, Still, Ending, AllFresh, Fresh,
     ToStart, Attempting, Acknowledging
<1> QED
  BY <1>1, <1>2, <1>5, StillInv DEF Place, Moved

\* A step of anybody else leaves the writer where it is.
LEMMA OthersInv ==
    ASSUME Inv, w' = w, batch' = batch, opened' = opened, QueueOK',
           queued' # NotQueued => AllFresh /\ Ending
    PROVE  Inv'
<1>1. w' \in Writers' /\ JournalOK'
  BY DEF Inv, Writers, JournalOK, Existing
<1>2. CreateKnows' /\ LoopsKnow' /\ StageKnows'
  BY DEF Inv, CreateKnows, LoopsKnow, StageKnows, At, Existing, Current
<1>3. RoomLeft'
  BY DEF Inv, RoomLeft, At, Ending, AllFresh, Fresh
<1> QED
  BY <1>1, <1>2, <1>3 DEF Inv

-----------------------------------------------------------------------------
(* Reading steps and writes of the manifest, the markers and the files      *)

\* Steps of create, resume and retry that leave the journal alone.
LEMMA ResumeReadsInv ==
    ASSUME Inv,
           \/ ConfigManifest \/ Reconcile \/ InterruptManifest \/ Verify \/ InvalidateManifest
           \/ RemoveWorkspaces \/ ClearPause \/ RetryManifest
    PROVE  Inv'
<1>1. Still /\ w \in Writers
  BY DEF ConfigManifest, Reconcile, InterruptManifest, Verify, InvalidateManifest, RemoveWorkspaces,
     ClearPause, RetryManifest, WriteManifest, ReadOnly, journal, env, Still, Inv
<1>2. CASE Stop
  BY <1>1, <1>2, StopStillInv
<1>3. ASSUME NEW pc \in Labels, <<w.pc, pc>> \in Onward, Goto(pc) PROVE Inv'
  BY <1>1, <1>3, GotoMoves, OnwardInv
<1>4. CASE ConfigManifest \/ Reconcile \/ InterruptManifest \/ RemoveWorkspaces \/ ClearPause
  BY <1>2, <1>3, <1>4 DEF ConfigManifest, Reconcile, InterruptManifest, RemoveWorkspaces,
     ClearPause,
     WriteManifest, At, Onward, Labels
<1>5. CASE Verify
  <2> DEFINE bad(j) == {s \in Stages : batch[j].stage[s] = "committed" /\ <<j, s>> \in damaged}
             todo == {<<j, Least(bad(j))>> : j \in {k \in Existing : bad(k) # {}}}
  <2>1. \A k \in Existing : bad(k) # {} => Least(bad(k)) \in bad(k)
    BY LeastIn, PlanAssumption
  <2>2. /\ todo \subseteq Existing \X Stages
        /\ \A x \in todo : batch[x[1]].stage[x[2]] = "committed"
        /\ \A x, y \in todo : x[1] = y[1] => x = y
    <3>1. ASSUME NEW x \in todo
          PROVE  \E j \in Existing : /\ x = <<j, Least(bad(j))>>
                                     /\ Least(bad(j)) \in Stages
                                     /\ batch[j].stage[Least(bad(j))] = "committed"
      <4>1. PICK j \in {k \in Existing : bad(k) # {}} : x = <<j, Least(bad(j))>>
        BY Zenon
      <4>2. j \in Existing /\ Least(bad(j)) \in bad(j)
        BY <2>1, <4>1
      <4> QED
        BY <4>1, <4>2
    <3> HIDE DEF bad, todo
    <3>2. \A x \in todo : x \in Existing \X Stages /\ batch[x[1]].stage[x[2]] = "committed"
      BY <3>1
    <3>3. \A x, y \in todo : x[1] = y[1] => x = y
      BY <3>1
    <3> QED
      BY <3>2, <3>3
  <2>3. w' = [w EXCEPT !.pc = "invalidate", !.todo = todo] /\ w.pc = "verify"
    BY <1>5 DEF Verify, At
  <2> HIDE DEF todo
  <2>4. Moved("invalidate", w.ret, w.job, w.stage, todo)
    <3>1. "invalidate" \in Labels
      BY DEF Labels
    <3> QED
      BY <1>1, <2>3, <3>1 DEF Writers, Moved
  <2>5. CreateKnows' /\ StageKnows'
    BY <1>1, <2>3, <2>4 DEF Moved, Inv, CreateKnows, StageKnows, At, Still, Existing,
       OnJob, OnStage, ToStart, Attempting
  <2>6. LoopsKnow'
    BY <1>1, <2>2, <2>3, <2>4 DEF Moved, Inv, LoopsKnow, At, Still, Existing, BeforeLoop,
       Acknowledging
  <2>7. RoomLeft'
    BY <1>1, <2>3, <2>4 DEF Moved, Inv, RoomLeft, At, Still, Ending, AllFresh, Fresh,
       ToStart, Attempting, Acknowledging
  <2> QED
    BY <1>1, <2>4, <2>5, <2>6, <2>7, StillInv DEF Place, Moved
<1>6. CASE InvalidateManifest
  <2>1. w.pc = "invalidate" /\ (CallAcknowledge("workspaces") \/ Stop)
    BY <1>6 DEF InvalidateManifest, WriteManifest, At
  <2>2. CASE CallAcknowledge("workspaces")
    <3>1. Moved("acknowledge", "workspaces", w.job, w.stage, w.todo)
      <4>1. "acknowledge" \in Labels
        BY DEF Labels
      <4> QED
        BY <1>1, <2>2, <4>1 DEF CallAcknowledge, Writers, Moved
    <3>2. CreateKnows' /\ LoopsKnow' /\ StageKnows'
      BY <1>1, <2>1, <3>1 DEF Moved, Inv, CreateKnows, LoopsKnow, StageKnows, At, Still, Existing,
         BeforeLoop, Acknowledging, OnJob, OnStage, ToStart, Attempting
    <3>3. RoomLeft'
      BY <1>1, <2>1, <3>1 DEF Moved, Inv, RoomLeft, At, Still, Ending, AllFresh, Fresh,
         ToStart, Attempting, Acknowledging
    <3> QED
      BY <1>1, <3>1, <3>2, <3>3, StillInv DEF Place, Moved
  <2> QED
    BY <1>2, <2>1, <2>2
<1>7. CASE RetryManifest
  <2>1. w.pc = "retried" /\ (w' = [w EXCEPT !.pc = "run", !.job = 0] \/ Stop)
    BY <1>7 DEF RetryManifest, WriteManifest, At
  <2>2. CASE w' = [w EXCEPT !.pc = "run", !.job = 0]
    <3>1. Moved("run", w.ret, 0, w.stage, w.todo)
      <4>1. 0 \in 0 .. NJobs + 1 /\ "run" \in Labels
        BY ServiceAssumption DEF Labels
      <4> QED
        BY <1>1, <2>2, <4>1 DEF Writers, Moved
    <3>2. CreateKnows' /\ LoopsKnow' /\ StageKnows'
      BY <1>1, <2>1, <3>1 DEF Moved, Inv, CreateKnows, LoopsKnow, StageKnows, At, Still, Existing,
         BeforeLoop, Acknowledging, OnJob, OnStage, ToStart, Attempting
    <3>3. RoomLeft'
      BY <1>1, <2>1, <3>1 DEF Moved, Inv, RoomLeft, At, Still, Ending, AllFresh, Fresh,
         ToStart, Attempting, Acknowledging
    <3> QED
      BY <1>1, <3>1, <3>2, <3>3, StillInv DEF Place, Moved
  <2> QED
    BY <1>2, <2>1, <2>2
<1> QED
  BY <1>4, <1>5, <1>6, <1>7

\* Steps of acknowledge_cancel_requests that leave the journal alone.
LEMMA AcknowledgeReadsInv ==
    ASSUME Inv, RestOK,
           \/ Acknowledge \/ AcknowledgeManifest \/ ClearBatchMarker \/ ClearPauseMarker
           \/ Acknowledged \/ \E j \in Jobs : ClearJobMarker(j)
    PROVE  Inv'
<1>1. Still /\ w \in Writers
  BY DEF Acknowledge, AcknowledgeManifest, ClearBatchMarker, ClearPauseMarker, Acknowledged,
     ClearJobMarker, WriteManifest, ReadOnly, journal, env, Still, Inv
<1>2. ASSUME NEW pc \in Labels, <<w.pc, pc>> \in Onward, Goto(pc) PROVE Inv'
  BY <1>1, <1>2, GotoMoves, OnwardInv
<1>3. CASE AcknowledgeManifest \/ ClearBatchMarker \/ ClearPauseMarker
  BY <1>1, <1>2, <1>3, StopStillInv DEF AcknowledgeManifest, ClearBatchMarker, ClearPauseMarker,
     WriteManifest, At, Onward, Labels
<1>4. CASE Acknowledged
  BY <1>1, <1>4, ReturnInv DEF Acknowledged, At, Acknowledging
<1>5. ASSUME NEW j \in Jobs, ClearJobMarker(j) PROVE Inv'
  <2>1. w.pc = "unmark-jobs" /\ w' = [w EXCEPT !.targets = @ \ {j}]
    BY <1>5 DEF ClearJobMarker, At
  <2>2. Moved("unmark-jobs", w.ret, w.job, w.stage, w.todo)
    BY <1>1, <2>1 DEF Writers, Moved
  <2> QED
    BY <1>1, <2>1, <2>2, OnwardInv DEF Onward
<1>6. CASE Acknowledge
  <2> DEFINE active  == IF w.ret = "cancelled" THEN {w.job} ELSE {}
             targets == IF cancelBatch THEN Existing
                        ELSE active \union (cancelJob \intersect Existing)
  <2>1. w.pc = "acknowledge"
    BY <1>6 DEF Acknowledge, At
  <2>2. CASE Return
    BY <1>1, <2>1, <2>2, ReturnInv DEF Acknowledging
  <2>3. CASE w' = [w EXCEPT !.pc = "closing", !.whole = cancelBatch, !.targets = targets,
                   !.todo = targets]
    <3>1. targets \subseteq Existing /\ Existing \subseteq Jobs
      BY DEF Inv, LoopsKnow, Existing
    <3> HIDE DEF targets
    <3>2. Moved("closing", w.ret, w.job, w.stage, targets)
      <4>1. targets \in SUBSET Jobs /\ cancelBatch \in BOOLEAN /\ "closing" \in Labels
        BY <3>1 DEF RestOK, Labels
      <4> QED
        BY <1>1, <2>3, <4>1 DEF Writers, Moved
    <3>3. CreateKnows' /\ LoopsKnow' /\ StageKnows'
      BY <1>1, <2>1, <3>1, <3>2 DEF Moved, Inv, CreateKnows, LoopsKnow, StageKnows, At, Still,
         Existing,
         BeforeLoop, Acknowledging, OnJob, OnStage, ToStart, Attempting
    <3>4. RoomLeft'
      BY <1>1, <2>1, <3>2 DEF Moved, Inv, RoomLeft, At, Still, Ending, AllFresh, Fresh,
         ToStart, Attempting, Acknowledging
    <3> QED
      BY <1>1, <3>2, <3>3, <3>4, StillInv DEF Place, Moved
  <2> QED
    BY <1>6, <2>2, <2>3 DEF Acknowledge
<1> QED
  BY <1>3, <1>4, <1>5, <1>6

\* Going on with the next stage of the same job: those from there on have room.
LEMMA AdvanceInv ==
    ASSUME Inv, Still, w.pc \in {"job-pause", "stage-pause", "committed"}, NEW s \in Stages \union {0},
           w.pc # "job-pause" => s = w.stage, w.pc = "job-pause" => s = 0,
           w' = [w EXCEPT !.pc = "stage", !.stage = NextStage(w.job, s)]
    PROVE  Inv'
<1> DEFINE next == NextStage(w.job, s)
<1>1. w \in Writers /\ w.job \in Existing /\ w.job \in Jobs
  BY DEF Inv, StageKnows, OnJob, OnStage, ToStart, Attempting, Existing
<1>2. Current.profile \in Profiles /\ Plan[Current.profile] \subseteq Stages /\ Stages \subseteq Nat
  BY <1>1, PlanAssumption DEF Inv, JournalOK, Recorded, JobRecord, Current
<1>3. next \in Plan[Current.profile] \union {0} /\ (next # 0 => next > s)
  BY <1>1, <1>2, NextStageInPlan DEF Current
<1> HIDE DEF next
<1>4. Moved("stage", w.ret, w.job, next, w.todo)
  <2>1. w' = [w EXCEPT !.pc = "stage", !.stage = next]
    BY DEF next
  <2>2. next \in Stages \union {0} /\ "stage" \in Labels
    BY <1>2, <1>3 DEF Labels
  <2> QED
    BY <1>1, <2>1, <2>2 DEF Writers, Moved
<1>5. CreateKnows' /\ LoopsKnow'
  BY <1>4 DEF Moved, Inv, CreateKnows, LoopsKnow, At, Still, Existing, BeforeLoop, Acknowledging
<1>6. StageKnows'
  BY <1>1, <1>3, <1>4 DEF Moved, StageKnows, At, Still, Existing, Current,
     OnJob, OnStage, ToStart, Attempting
<1>7. RoomLeft'
  <2>1. ~Ending
    BY DEF Ending, At, Acknowledging
  <2>2. \A t \in Stages : t > s => Fresh(w.job, t)
    <3>1. CASE w.pc = "job-pause"
      BY <1>1, <3>1 DEF Inv, RoomLeft
    <3>2. CASE w.pc = "stage-pause"
      <4>1. w.stage = s /\ w.stage \in Stages /\ w.stage # 0
        BY <1>2, <3>2, ServiceAssumption DEF Inv, StageKnows, OnStage, ToStart
      <4>2. \A t \in Stages : t >= s => Fresh(w.job, t)
        BY <3>2, <4>1 DEF Inv, RoomLeft, ToStart
      <4> QED
        BY <1>2, <4>1, <4>2
    <3>3. CASE w.pc = "committed"
      BY <3>3 DEF Inv, RoomLeft
    <3> QED
      BY <3>1, <3>2, <3>3
  <2>3. \A t \in Stages : next # 0 /\ t >= next => Fresh(w.job, t)
    <3>1. next # 0 => next \in Nat
      BY <1>2, <1>3
    <3> QED
      BY <1>2, <1>3, <2>2, <3>1, ServiceAssumption
  <2> QED
    BY <1>4, <2>1, <2>3 DEF Moved, Inv, RoomLeft, At, Still, Ending, AllFresh, Fresh,
       ToStart, Attempting, Acknowledging
<1> QED
  BY <1>4, <1>5, <1>6, <1>7, StillInv DEF Place, Moved

\* The loop goes on with another job.
LEMMA NextJobInv ==
    ASSUME Inv, Still, w.pc \in {"job", "after-job-pause", "cancelled"}, w.job \in Existing,
           NEW stage, Moved("job", w.ret, w.job + 1, stage, w.todo)
    PROVE  Inv'
<1>1. w \in Writers /\ w.ret = "idle" /\ ~Ending /\ w.job \in Nat /\ Jobs \subseteq Nat
  BY ServiceAssumption DEF Inv, LoopsKnow, Acknowledging, Ending, At, Existing
<1>2. CreateKnows' /\ LoopsKnow' /\ StageKnows'
  BY <1>1 DEF Moved, CreateKnows, LoopsKnow, StageKnows, At, BeforeLoop, Acknowledging,
     OnJob, OnStage, ToStart, Attempting
<1>3. \A j \in Jobs, s \in Stages : j >= w.job + 1 => Fresh(j, s)
  BY <1>1 DEF Inv, RoomLeft
<1>4. RoomLeft'
  BY <1>1, <1>3 DEF Moved, Inv, RoomLeft, At, Still, Ending, AllFresh, Fresh,
     ToStart, Attempting, Acknowledging
<1> QED
  BY <1>2, <1>4, StillInv DEF Place, Moved

\* A call of acknowledge_cancel_requests from the loop or from before it.
LEMMA CallInv ==
    ASSUME Inv, Still, NEW ret,
           \/ w.pc \in {"job", "after-job"} /\ ret = "idle"
           \/ w.pc = "run" /\ ret = "run-acknowledged"
           \/ w.pc = "caught" /\ ret = "cancelled",
           Moved("acknowledge", ret, w.job, w.stage, w.todo)
    PROVE  Inv'
<1>1. CreateKnows' /\ LoopsKnow' /\ StageKnows'
  BY DEF Moved, Inv, CreateKnows, LoopsKnow, StageKnows, At, Still, Existing,
     BeforeLoop, Acknowledging, OnJob, OnStage, ToStart, Attempting
<1>2. RoomLeft'
  BY DEF Moved, Inv, RoomLeft, At, Still, Ending, AllFresh, Fresh, ToStart, Attempting,
     Acknowledging
<1> QED
  BY <1>1, <1>2, StillInv DEF Place, Moved

\* The steps of run and of the loop over the jobs.
LEMMA RunStepInv ==
    ASSUME Inv, RestOK, RunStep
    PROVE  Inv'
<1>1. Still /\ w \in Writers
  BY DEF RunStep, Run, RunAcknowledged, NextJob, NextJobPause, AfterJob, AfterJobPause, ReadOnly,
     journal, env, Still, Inv
<1>2. CASE Stop
  BY <1>1, <1>2, StopStillInv
<1>3. CASE Run
  <2>1. w.pc = "run"
    BY <1>3 DEF Run, At
  <2>2. CASE w' = [w EXCEPT !.pc = "acknowledge", !.ret = "run-acknowledged", !.seen = cancelBatch]
    <3>1. cancelBatch \in BOOLEAN /\ "acknowledge" \in Labels
      BY DEF RestOK, Labels
    <3>2. Moved("acknowledge", "run-acknowledged", w.job, w.stage, w.todo)
      BY <1>1, <2>2, <3>1 DEF Writers, Moved
    <3> QED
      BY <1>1, <2>1, <3>2, CallInv
  <2> QED
    BY <1>1, <1>3, <2>1, <2>2, EnterInv DEF Run
<1>4. CASE RunAcknowledged
  BY <1>1, <1>2, <1>4, EnterInv DEF RunAcknowledged, At
<1>5. CASE NextJob
  <2>1. w.pc = "job"
    BY <1>5 DEF NextJob, At
  <2>2. CASE w.job \in Existing /\ w' = [w EXCEPT !.job = @ + 1]
    <3>1. w.job + 1 \in 0 .. NJobs + 1
      BY <2>2, ServiceAssumption DEF Existing
    <3>2. Moved("job", w.ret, w.job + 1, w.stage, w.todo)
      BY <1>1, <2>1, <2>2, <3>1 DEF Writers, Moved
    <3> QED
      BY <1>1, <2>1, <2>2, <3>2, NextJobInv
  <2>3. CASE CallAcknowledge("idle")
    BY <1>1, <2>1, <2>3, CallMoves, CallInv
  <2>4. CASE w.job \in Existing /\ Goto("job-pause")
    <3>1. Moved("job-pause", w.ret, w.job, w.stage, w.todo)
      BY <1>1, <2>4, GotoMoves DEF Labels
    <3>2. CreateKnows' /\ LoopsKnow' /\ StageKnows'
      BY <1>1, <2>1, <2>4, <3>1 DEF Moved, Inv, CreateKnows, LoopsKnow, StageKnows, At, Still,
         Existing,
         BeforeLoop, Acknowledging, OnJob, OnStage, ToStart, Attempting
    <3>3. RoomLeft'
      BY <1>1, <2>1, <3>1 DEF Moved, Inv, RoomLeft, At, Still, Ending, AllFresh, Fresh,
         ToStart, Attempting, Acknowledging
    <3> QED
      BY <1>1, <3>1, <3>2, <3>3, StillInv DEF Place, Moved
  <2> QED
    BY <1>2, <1>5, <2>2, <2>3, <2>4 DEF NextJob
<1>6. CASE NextJobPause
  BY <1>1, <1>2, <1>6, AdvanceInv DEF NextJobPause, At
<1>7. CASE AfterJob
  <2>1. w.pc = "after-job"
    BY <1>7 DEF AfterJob, At
  <2>2. CASE CallAcknowledge("idle")
    BY <1>1, <2>1, <2>2, CallMoves, CallInv
  <2>3. CASE Goto("after-job-pause")
    BY <1>1, <2>1, <2>3, GotoMoves, OnwardInv DEF Labels, Onward
  <2> QED
    BY <1>7, <2>2, <2>3 DEF AfterJob
<1>8. CASE AfterJobPause
  <2>1. w.pc = "after-job-pause" /\ w.job \in Existing
    BY <1>8 DEF AfterJobPause, At, Inv, StageKnows, OnJob
  <2>2. CASE w' = [w EXCEPT !.pc = "job", !.job = @ + 1, !.stage = 0]
    <3>1. w.job + 1 \in 0 .. NJobs + 1 /\ "job" \in Labels
      BY <2>1, ServiceAssumption DEF Existing, Labels
    <3>2. Moved("job", w.ret, w.job + 1, 0, w.todo)
      BY <1>1, <2>2, <3>1 DEF Writers, Moved
    <3> QED
      BY <1>1, <2>1, <3>2, NextJobInv
  <2> QED
    BY <1>2, <1>8, <2>2 DEF AfterJobPause
<1> QED
  BY <1>3, <1>4, <1>5, <1>6, <1>7, <1>8 DEF RunStep

\* The steps of _run_job and of StageExecutor that leave the journal alone.
LEMMA JobReadsInv ==
    ASSUME Inv,
           \/ CheckCancel \/ EnterStage \/ MakeWorkspace \/ StartManifest \/ ExecuteStage
           \/ CommitManifest \/ FailManifest \/ CancelManifest \/ CaughtManifest \/ JobCancelled
           \/ SucceedManifest \/ ClearMarker
    PROVE  Inv'
<1>1. Still /\ w \in Writers
  BY DEF CheckCancel, EnterStage, MakeWorkspace, StartManifest, ExecuteStage, CommitManifest,
     FailManifest, CancelManifest, CaughtManifest, JobCancelled, SucceedManifest, ClearMarker,
     WriteManifest, ReadOnly, journal, env, Still, Inv
<1>2. CASE Stop
  BY <1>1, <1>2, StopStillInv
<1>3. ASSUME NEW pc \in Labels, <<w.pc, pc>> \in Onward, Goto(pc) PROVE Inv'
  BY <1>1, <1>3, GotoMoves, OnwardInv
<1>4. ASSUME NEW error \in {"error", "cancelled", "post-commit"}, <<w.pc, "caught">> \in Onward,
             Raise(error)
      PROVE  Inv'
  BY <1>1, <1>4, RaiseMoves, OnwardInv
<1>5. CASE MakeWorkspace \/ StartManifest \/ ExecuteStage
  BY <1>2, <1>3, <1>4, <1>5 DEF MakeWorkspace, StartManifest, ExecuteStage, WriteManifest, At,
     Onward, Labels
<1>6. CASE FailManifest \/ CancelManifest \/ CaughtManifest \/ SucceedManifest \/ ClearMarker
  BY <1>2, <1>3, <1>4, <1>6 DEF FailManifest, CancelManifest, CaughtManifest, SucceedManifest,
     ClearMarker,
     WriteManifest, At, Onward, Labels
<1>7. CASE CommitManifest
  <2>1. w.pc = "committed" /\ w.stage \in Stages \union {0}
    BY <1>1, <1>7 DEF CommitManifest, At, Writers
  <2>2. CASE Raise("post-commit")
    BY <1>4, <2>1, <2>2 DEF Onward
  <2>3. CASE w' = [w EXCEPT !.pc = "stage", !.stage = NextStage(w.job, w.stage)]
    BY <1>1, <2>1, <2>3, AdvanceInv
  <2> QED
    BY <1>7, <2>2, <2>3 DEF CommitManifest, WriteManifest
<1>8. CASE JobCancelled
  <2>1. w.pc = "cancelled" /\ w.job \in Existing
    BY <1>8 DEF JobCancelled, At, Inv, StageKnows, OnJob
  <2>2. CASE w' = [w EXCEPT !.pc = "job", !.job = @ + 1, !.stage = 0, !.error = "none",
                            !.seen = FALSE]
    <3>1. w.job + 1 \in 0 .. NJobs + 1 /\ "job" \in Labels
      BY <2>1, ServiceAssumption DEF Existing, Labels
    <3>2. Moved("job", w.ret, w.job + 1, 0, w.todo)
      BY <1>1, <2>2, <3>1 DEF Writers, Moved
    <3> QED
      BY <1>1, <2>1, <3>2, NextJobInv
  <2> QED
    BY <1>2, <1>8, <2>2 DEF JobCancelled
<1>9. CASE CheckCancel
  <2>1. w.pc = "stage"
    BY <1>9 DEF CheckCancel, At
  <2>2. CASE w.stage # 0 /\ Goto("stage-pause")
    <3>1. Moved("stage-pause", w.ret, w.job, w.stage, w.todo)
      BY <1>1, <2>2, GotoMoves DEF Labels
    <3>2. CreateKnows' /\ LoopsKnow' /\ StageKnows'
      BY <1>1, <2>1, <2>2, <3>1 DEF Moved, Inv, CreateKnows, LoopsKnow, StageKnows, At, Still,
         Existing,
         BeforeLoop, Acknowledging, Current, OnJob, OnStage, ToStart, Attempting
    <3>3. RoomLeft'
      BY <1>1, <2>1, <3>1 DEF Moved, Inv, RoomLeft, At, Still, Ending, AllFresh, Fresh,
         ToStart, Attempting, Acknowledging
    <3> QED
      BY <1>1, <3>1, <3>2, <3>3, StillInv DEF Place, Moved
  <2> QED
    BY <1>3, <1>4, <1>9, <2>1, <2>2 DEF CheckCancel, Onward, Labels
<1>10. CASE EnterStage
  <2>1. w.pc = "stage-pause" /\ w.stage \in Stages \union {0}
    BY <1>1, <1>10 DEF EnterStage, At, Writers
  <2>2. ASSUME NEW pc \in {"workspace", "invalidate-stage"}, Goto(pc),
               pc = "workspace" <=> Current.stage[w.stage] # "committed"
        PROVE  Inv'
    <3>1. Moved(pc, w.ret, w.job, w.stage, w.todo)
      BY <1>1, <2>2, GotoMoves DEF Labels
    <3>2. CreateKnows' /\ LoopsKnow' /\ StageKnows'
      BY <1>1, <2>1, <2>2, <3>1 DEF Moved, Inv, CreateKnows, LoopsKnow, StageKnows, At, Still,
         Existing,
         BeforeLoop, Acknowledging, Current, OnJob, OnStage, ToStart, Attempting
    <3>3. RoomLeft'
      BY <1>1, <2>1, <2>2, <3>1 DEF Moved, Inv, RoomLeft, At, Still, Ending, AllFresh, Fresh,
         ToStart, Attempting, Acknowledging
    <3> QED
      BY <1>1, <3>1, <3>2, <3>3, StillInv DEF Place, Moved
  <2>3. CASE Goto("after-job")
    BY <1>3, <2>1, <2>3 DEF Onward, Labels
  <2>4. CASE Raise("error")
    BY <1>4, <2>1, <2>4 DEF Onward
  <2>5. CASE w' = [w EXCEPT !.pc = "stage", !.stage = NextStage(w.job, w.stage)]
    BY <1>1, <2>1, <2>5, AdvanceInv
  <2> QED
    BY <1>10, <2>2, <2>3, <2>4, <2>5 DEF EnterStage, Current
<1> QED
  BY <1>5, <1>6, <1>7, <1>8, <1>9, <1>10

\* An append that fails: the command ends, its stage fails or its job does.
LEMMA FailedAppendInv ==
    ASSUME Inv, RestOK, AppendFails
    PROVE  Inv' /\ RestOK' /\ Still
<1>1. Still /\ w \in Writers
  BY DEF AppendFails, journal, env, Still, Inv
<1>2. ASSUME Stop PROVE Inv'
  BY <1>1, <1>2, StopStillInv
<1>3. ASSUME At("commit"), Goto("fail") PROVE Inv'
  BY <1>1, <1>3, GotoMoves, OnwardInv DEF At, Onward, Labels
<1>4. ASSUME w.pc \in {"invalidate-stage", "fail", "fail-job", "cancel", "cancel-job", "start"},
             Raise("error")
      PROVE  Inv'
  BY <1>1, <1>4, RaiseMoves, OnwardInv DEF Onward
<1>5. Inv'
  BY <1>2, <1>3, <1>4 DEF AppendFails, At
<1>6. leftover' \subseteq Jobs \X Stages /\ faults' \in 0..MaxFault
  BY ServiceAssumption DEF AppendFails, RestOK
<1> QED
  BY <1>1, <1>5, <1>6 DEF AppendFails, RestOK, journal, markers, env

-----------------------------------------------------------------------------
(* Events                                                                   *)

\* Only the record of job j changes, to r.
Logged(j, r) ==
    /\ opened' = opened
    /\ Existing' = Existing
    /\ batch' \in [Jobs -> JobRecord]
    /\ \A k \in Jobs : batch'[k] = IF k = j THEN r ELSE batch[k]

\* An event about one job that keeps its record in order keeps the journal so.
LEMMA AppendLogged ==
    ASSUME JournalOK, NEW j \in Existing, NEW r, Recorded(r), r.state # "absent",
           r.profile = batch[j].profile, Append(j, r), opened' = opened
    PROVE  JournalOK' /\ Logged(j, r)
<1>1. batch' \in [Jobs -> JobRecord] /\ \A k \in Jobs : batch'[k] = IF k = j THEN r ELSE batch[k]
  BY DEF JournalOK, Append, Existing, Recorded
<1>2. Existing' = Existing
  BY <1>1 DEF Existing
<1>3. \A k \in Jobs : Recorded(batch'[k]) /\ batch'[k].profile = batch[k].profile
  BY <1>1 DEF JournalOK
<1>4. (\A k \in Jobs : Recorded(batch[k]))'
  BY <1>3 DEF Recorded, Prefix
<1>5. \A k, l \in Existing : batch'[k].profile = batch'[l].profile
  BY <1>3 DEF JournalOK, Existing
<1> QED
  BY <1>1, <1>2, <1>4, <1>5 DEF JournalOK, Logged

\* stage.started
LEMMA StartLogged ==
    ASSUME JournalOK, NEW j \in Existing, NEW s \in Stages, NEW n \in 1..MaxAttempt + 1,
           StartedOK(batch[j], s, n), batch[j].stage[s] # "committed",
           Append(j, Started(batch[j], s, n)), opened' = opened
    PROVE  JournalOK' /\ Logged(j, Started(batch[j], s, n)) /\ Replayed!Next
<1>1. Recorded(batch[j]) /\ j \in Jobs
  BY DEF JournalOK, Existing
<1>2. Started(batch[j], s, n).state # "absent"
  BY <1>1 DEF Started, Recorded, JobRecord
<1>3. Replayed!StageStarted(j, s, n)
  BY DEF Replayed!StageStarted, Replayed!Apply, Replayed!Created, Replayed!StartedOK,
     Replayed!Started,
     Replayed!DependenciesCommitted, Replayed!Dependencies, StartedOK, Started,
     DependenciesCommitted, Dependencies, Append, Existing
<1>4. Replayed!Next
  BY <1>1, <1>3 DEF Replayed!Next, Replayed!JobEvent
<1> QED
  BY <1>1, <1>2, <1>4, StartedRecorded, AppendLogged

\* stage.interrupted, stage.committed, stage.failed and stage.cancelled
LEMMA CloseLogged ==
    ASSUME JournalOK, NEW j \in Existing, NEW s \in Plan[batch[j].profile],
           batch[j].stage[s] = "running", NEW outcome \in Outcomes,
           outcome = "committed" =>
               \A t \in Plan[batch[j].profile] : t < s => batch[j].stage[t] = "committed",
           Append(j, Closed(batch[j], s, outcome)), opened' = opened
    PROVE  JournalOK' /\ Logged(j, Closed(batch[j], s, outcome)) /\ Replayed!Next
<1>1. Recorded(batch[j]) /\ j \in Jobs
  BY DEF JournalOK, Existing
<1>2. s \in Stages /\ batch[j].attempt[s] \in 1..MaxAttempt + 1
  BY <1>1, PlanAssumption, ServiceAssumption DEF Recorded, JobRecord
<1>3. Closed(batch[j], s, outcome).state # "absent"
  BY <1>1 DEF Closed, Outcomes, Recorded, JobRecord
<1>4. Replayed!StageClosed(j, s, batch[j].attempt[s], outcome)
  BY DEF Replayed!StageClosed, Replayed!Apply, Replayed!Created, Replayed!ClosedOK, Replayed!Closed,
     Closed, Append, Existing
<1>5. Replayed!Next
  BY <1>1, <1>2, <1>4 DEF Replayed!Next, Replayed!JobEvent, Replayed!Outcomes, Outcomes
<1> QED
  BY <1>1, <1>3, <1>5, ClosedRecorded, AppendLogged

\* stage.invalidated
LEMMA InvalidateLogged ==
    ASSUME JournalOK, NEW j \in Existing, NEW s \in Stages, batch[j].stage[s] = "committed",
           Append(j, Invalidated(batch[j], s)), opened' = opened
    PROVE  JournalOK' /\ Logged(j, Invalidated(batch[j], s)) /\ Replayed!Next
<1>1. Recorded(batch[j]) /\ j \in Jobs
  BY DEF JournalOK, Existing
<1>2. batch[j].attempt[s] \in 1..MaxAttempt + 1 /\ s \in Plan[batch[j].profile]
  BY <1>1, ServiceAssumption DEF Recorded, JobRecord
<1>3. Invalidated(batch[j], s).state # "absent"
  BY <1>1 DEF Invalidated, Recorded, JobRecord
<1>4. Replayed!StageInvalidated(j, s, batch[j].attempt[s])
  BY <1>2 DEF Replayed!StageInvalidated, Replayed!Apply, Replayed!Created, Replayed!InvalidatedOK,
     Replayed!Invalidated, Replayed!Suffix, Invalidated, Suffix, Append, Existing
<1>5. Replayed!Next
  BY <1>1, <1>2, <1>4 DEF Replayed!Next, Replayed!JobEvent
<1> QED
  BY <1>1, <1>3, <1>5, InvalidatedRecorded, AppendLogged

\* job.retry_requested
LEMMA RetryLogged ==
    ASSUME JournalOK, NEW j \in Existing, NEW s \in Stages, RetryOK(batch[j], s),
           Append(j, Retried(batch[j], s)), opened' = opened
    PROVE  JournalOK' /\ Logged(j, Retried(batch[j], s)) /\ Replayed!Next
<1>1. Recorded(batch[j]) /\ j \in Jobs
  BY DEF JournalOK, Existing
<1>2. Retried(batch[j], s).state # "absent"
  BY <1>1 DEF Retried, Recorded, JobRecord
<1>3. Replayed!RetryRequested(j, s)
  BY DEF Replayed!RetryRequested, Replayed!Apply, Replayed!Created, Replayed!RetryOK,
     Replayed!Retried,
     Replayed!Suffix, Replayed!DependenciesCommitted, Replayed!Dependencies, RetryOK, Retried,
     Suffix,
     DependenciesCommitted, Dependencies, Append, Existing
<1>4. Replayed!Next
  BY <1>1, <1>3 DEF Replayed!Next, Replayed!JobEvent
<1> QED
  BY <1>1, <1>2, <1>4, RetriedRecorded, AppendLogged

\* job.succeeded, job.failed and job.cancelled
LEMMA EndLogged ==
    ASSUME JournalOK, NEW j \in Existing, NEW state \in {"succeeded", "failed", "cancelled"},
           state = "succeeded" => SucceededOK(batch[j]),
           state = "failed" => FailedOK(batch[j]),
           state = "cancelled" => CancelledOK(batch[j]),
           Append(j, Ended(batch[j], state)), opened' = opened
    PROVE  JournalOK' /\ Logged(j, Ended(batch[j], state)) /\ Replayed!Next
<1>1. Recorded(batch[j]) /\ j \in Jobs
  BY DEF JournalOK, Existing
<1>2. Ended(batch[j], state).state # "absent"
  BY <1>1 DEF Ended, Recorded, JobRecord
<1>3. Replayed!JobSucceeded(j) \/ Replayed!JobFailed(j) \/ Replayed!JobCancelled(j)
  BY DEF Replayed!JobSucceeded, Replayed!JobFailed, Replayed!JobCancelled, Replayed!Apply,
     Replayed!Created,
     Replayed!SucceededOK, Replayed!AllCommitted, Replayed!FailedOK, Replayed!CancelledOK,
     Replayed!Ended,
     SucceededOK, AllCommitted, FailedOK, CancelledOK, Ended, Append, Existing
<1>4. Replayed!Next
  BY <1>1, <1>3 DEF Replayed!Next, Replayed!JobEvent
<1> QED
  BY <1>1, <1>2, <1>4, EndedRecorded, AppendLogged

\* A step that appends one accepted event.
Accepted == Inv' /\ Replayed!Next

\* Every event but stage.started leaves the attempt numbers as they are.
LEMMA SameAttempts ==
    ASSUME Inv, NEW j \in Jobs, NEW r, Logged(j, r), r.attempt = batch[j].attempt
    PROVE  AllFresh' = AllFresh /\ \A k \in Jobs, s \in Stages : Fresh(k, s)' = Fresh(k, s)
<1>1. \A k \in Jobs, s \in Stages : batch'[k].attempt[s] = batch[k].attempt[s]
  BY DEF Logged
<1> QED
  BY <1>1 DEF AllFresh, Fresh

\* No other event touches an attempt number.
LEMMA EventsKeepAttempts ==
    ASSUME NEW r, Recorded(r), NEW s \in Stages, NEW outcome \in Outcomes, NEW state
    PROVE  /\ Closed(r, s, outcome).attempt = r.attempt
           /\ Invalidated(r, s).attempt = r.attempt
           /\ Retried(r, s).attempt = r.attempt
           /\ Ended(r, state).attempt = r.attempt
BY DEF Recorded, JobRecord, Closed, Invalidated, Retried, Ended

\* The loops over the jobs that append: _interrupt_open_attempts and
\* _invalidate_corrupt_artifacts of resume.
LEMMA ResumeEventsInv ==
    ASSUME Inv, InterruptAttempt \/ InvalidateDamaged
    PROVE  Accepted
<1>1. w \in Writers /\ JournalOK /\ queued' = queued /\ opened' = opened
  BY DEF InterruptAttempt, InvalidateDamaged, Inv, env
<1>2. \A j \in Existing : j \in Jobs /\ Recorded(batch[j])
  BY <1>1 DEF JournalOK, Existing
<1>3. CASE InterruptAttempt
  <2>1. w.pc = "interrupt" /\ w' = w
    BY <1>3 DEF InterruptAttempt, At
  <2>2. PICK js \in Running : Append(js[1], Closed(batch[js[1]], js[2], "interrupted"))
    BY <1>3 DEF InterruptAttempt
  <2> DEFINE j == js[1]
             s == js[2]
             r == Closed(batch[j], s, "interrupted")
  <2>3. j \in Existing /\ s \in Stages /\ batch[j].stage[s] = "running"
    BY DEF Running
  <2>4. s \in Plan[batch[j].profile] /\ "interrupted" \in Outcomes
    BY <1>2, <2>3 DEF Recorded, Outcomes
  <2> HIDE DEF j, s
  <2>5. JournalOK' /\ Logged(j, r) /\ Replayed!Next
    <3>1. Append(j, r)
      BY <2>2 DEF j, s
    <3> QED
      BY <1>1, <2>3, <2>4, <3>1, CloseLogged
  <2>6. AllFresh' = AllFresh /\ \A k \in Jobs, t \in Stages : Fresh(k, t)' = Fresh(k, t)
    BY <1>2, <2>3, <2>4, <2>5, EventsKeepAttempts, SameAttempts
  <2>7. CreateKnows' /\ LoopsKnow' /\ StageKnows'
    BY <2>1, <2>5 DEF Logged, Inv, CreateKnows, LoopsKnow, StageKnows, At, BeforeLoop,
       Acknowledging,
       OnJob, OnStage, ToStart, Attempting
  <2>8. RoomLeft'
    BY <1>1, <2>1, <2>6 DEF Inv, RoomLeft, At, Ending, ToStart, Attempting, Acknowledging
  <2>9. w' \in Writers' /\ QueueOK'
    BY <1>1, <2>1, <2>5 DEF Inv, Writers, QueueOK, Logged
  <2> QED
    BY <2>5, <2>7, <2>8, <2>9 DEF Accepted, Inv
<1>4. CASE InvalidateDamaged
  <2> DEFINE js == CHOOSE x \in w.todo : \A y \in w.todo : x[1] <= y[1]
  <2>1. w.pc = "invalidate" /\ w.todo # {}
    BY <1>4 DEF InvalidateDamaged, At
  <2>2. /\ Append(js[1], Invalidated(batch[js[1]], js[2]))
        /\ w' = [w EXCEPT !.todo = @ \ {js}]
    BY <1>4 DEF InvalidateDamaged
  <2>3. /\ w.todo \subseteq Existing \X Stages
        /\ \A x \in w.todo : batch[x[1]].stage[x[2]] = "committed"
        /\ \A x, y \in w.todo : x[1] = y[1] => x = y
    BY <2>1 DEF Inv, LoopsKnow, At
  <2>4. js \in w.todo
    <3> DEFINE S == {x[1] : x \in w.todo}
    <3>1. S \subseteq Nat /\ S # {}
      BY <2>1, <2>3, ServiceAssumption DEF Existing
    <3>2. Least(S) \in S /\ \A y \in S : Least(S) <= y
      BY <3>1, LeastIn, Zenon
    <3>3. PICK x \in w.todo : x[1] = Least(S)
      BY <3>2
    <3>4. \A y \in w.todo : x[1] <= y[1]
      BY <3>2, <3>3
    <3> QED
      BY <3>4
  <2> DEFINE j == js[1]
             s == js[2]
             r == Invalidated(batch[j], s)
  <2>5. j \in Existing /\ s \in Stages /\ batch[j].stage[s] = "committed"
    BY <2>3, <2>4
  <2>6. \A x \in w.todo \ {js} : x[1] # j
    BY <2>3, <2>4
  <2> HIDE DEF js, j, s
  <2>7. JournalOK' /\ Logged(j, r) /\ Replayed!Next
    <3>1. Append(j, r)
      BY <2>2 DEF j, s
    <3> QED
      BY <1>1, <2>5, <3>1, InvalidateLogged
  <2>8. AllFresh' = AllFresh /\ \A k \in Jobs, t \in Stages : Fresh(k, t)' = Fresh(k, t)
    BY <1>2, <2>5, <2>7, EventsKeepAttempts, SameAttempts DEF Outcomes
  <2>9. Moved("invalidate", w.ret, w.job, w.stage, w.todo \ {js})
    BY <1>1, <2>1, <2>2 DEF Writers, Moved
  <2>10. \A x \in w.todo \ {js} : x[1] \in Jobs /\ batch'[x[1]] = batch[x[1]]
    BY <1>2, <2>3, <2>6, <2>7 DEF Logged
  <2>11. LoopsKnow'
    BY <2>1, <2>3, <2>7, <2>9, <2>10 DEF Moved, Logged, Inv, LoopsKnow, At, BeforeLoop,
       Acknowledging
  <2>12. CreateKnows' /\ StageKnows'
    BY <2>9 DEF Moved, CreateKnows, StageKnows, At, OnJob, OnStage, ToStart, Attempting
  <2>13. RoomLeft'
    BY <1>1, <2>1, <2>8, <2>9 DEF Moved, Inv, RoomLeft, At, Ending, ToStart, Attempting,
       Acknowledging
  <2>14. QueueOK'
    BY <1>1, <2>7 DEF Inv, QueueOK, Logged
  <2> QED
    BY <2>7, <2>9, <2>11, <2>12, <2>13, <2>14 DEF Accepted, Moved, Inv
<1> QED
  BY <1>3, <1>4

\* acknowledge_cancel_requests closes what is open, then records the verdict.
LEMMA AcknowledgeEventsInv ==
    ASSUME Inv, NEW j \in Jobs,
           CancelTarget(j) \/ \E s \in Stages : CancelAttempt(j, s)
    PROVE  Inv' /\ (Still \/ Replayed!Next)
<1>1. w \in Writers /\ JournalOK /\ queued' = queued /\ opened' = opened /\ w.pc = "closing"
  BY DEF CancelTarget, CancelAttempt, Inv, env, At
<1>2. \A k \in Existing : k \in Jobs /\ Recorded(batch[k])
  BY <1>1 DEF JournalOK, Existing
<1>3. ASSUME NEW r, Logged(j, r), r.attempt = batch[j].attempt, JournalOK', w.todo \subseteq Existing,
             NEW todo \in SUBSET w.todo, Moved("closing", w.ret, w.job, w.stage, todo)
      PROVE  Inv'
  <2>1. AllFresh' = AllFresh /\ \A k \in Jobs, t \in Stages : Fresh(k, t)' = Fresh(k, t)
    BY <1>3, SameAttempts
  <2>2. CreateKnows' /\ LoopsKnow' /\ StageKnows'
    BY <1>1, <1>3 DEF Moved, Logged, Inv, CreateKnows, LoopsKnow, StageKnows, At, BeforeLoop,
       Acknowledging,
       OnJob, OnStage, ToStart, Attempting
  <2>3. RoomLeft'
    BY <1>1, <1>3, <2>1 DEF Moved, Inv, RoomLeft, At, Ending, ToStart, Attempting, Acknowledging
  <2>4. QueueOK'
    BY <1>1, <1>3 DEF Inv, QueueOK, Logged
  <2> QED
    BY <1>3, <2>2, <2>3, <2>4 DEF Moved, Inv
<1>4. w.todo \subseteq Existing
  BY <1>1 DEF Inv, LoopsKnow, At
<1>5. ASSUME NEW s \in Stages, CancelAttempt(j, s) PROVE Inv' /\ Replayed!Next
  <2> DEFINE r == Closed(batch[j], s, "cancelled")
  <2>1. Append(j, r) /\ w' = w /\ j \in Existing /\ batch[j].stage[s] = "running"
    BY <1>5 DEF CancelAttempt, Running
  <2>2. s \in Plan[batch[j].profile] /\ "cancelled" \in Outcomes
    BY <1>2, <2>1 DEF Recorded, Outcomes
  <2>3. JournalOK' /\ Logged(j, r) /\ Replayed!Next
    BY <1>1, <2>1, <2>2, CloseLogged
  <2>4. r.attempt = batch[j].attempt
    BY <1>2, <2>1, <2>2, EventsKeepAttempts
  <2>5. Moved("closing", w.ret, w.job, w.stage, w.todo)
    BY <1>1, <2>1 DEF Moved, Writers
  <2> QED
    BY <1>3, <1>4, <2>3, <2>4, <2>5
<1>6. CASE CancelTarget(j)
  <2>1. w' = [w EXCEPT !.todo = @ \ {j}]
    BY <1>6 DEF CancelTarget
  <2>2. Moved("closing", w.ret, w.job, w.stage, w.todo \ {j})
    BY <1>1, <2>1 DEF Writers, Moved
  <2>3. CASE batch' = batch
    <3>1. Still
      BY <1>1, <2>3 DEF Still
    <3>2. CreateKnows' /\ LoopsKnow' /\ StageKnows'
      BY <1>1, <1>4, <2>2, <3>1 DEF Moved, Still, Existing, Inv, CreateKnows, LoopsKnow,
         StageKnows, At,
         BeforeLoop, Acknowledging, OnJob, OnStage, ToStart, Attempting
    <3>3. RoomLeft'
      BY <1>1, <2>2, <3>1 DEF Moved, Inv, RoomLeft, At, Still, Ending, AllFresh, Fresh,
         ToStart, Attempting, Acknowledging
    <3> QED
      BY <2>2, <3>1, <3>2, <3>3, StillInv DEF Place, Moved
  <2>4. CASE /\ Append(j, Ended(batch[j], "cancelled"))
             /\ batch[j].state \in {"pending", "running", "interrupted", "cancelled"}
    <3> DEFINE r == Ended(batch[j], "cancelled")
    <3>1. j \in Existing /\ CancelledOK(batch[j])
      BY <2>4 DEF Existing, CancelledOK
    <3>2. JournalOK' /\ Logged(j, r) /\ Replayed!Next
      BY <1>1, <2>4, <3>1, EndLogged
    <3>3. r.attempt = batch[j].attempt
      BY <1>2, <3>1 DEF Ended, Recorded, JobRecord
    <3> QED
      BY <1>3, <1>4, <2>2, <3>2, <3>3
  <2> QED
    BY <1>6, <2>3, <2>4 DEF CancelTarget, CancelDue
<1> QED
  BY <1>5, <1>6

\* job.created: the job takes the profile all jobs of the batch have.
LEMMA CreateJobInv ==
    ASSUME Inv, CreateJob
    PROVE  Accepted
<1>1. /\ w \in Writers /\ JournalOK /\ queued' = queued /\ opened' = opened /\ w' = w
      /\ w.pc = "create" /\ opened /\ \A j, k \in Jobs : batch[j].profile = batch[k].profile
  BY DEF CreateJob, Inv, env, CreateKnows, At
<1> DEFINE j == Least(Jobs \ Existing)
           p == batch[j].profile
<1>2. j \in Jobs \ Existing /\ \A k \in Jobs \ Existing : j <= k
  <2>1. Jobs \ Existing \subseteq Nat /\ Jobs \ Existing # {}
    BY ServiceAssumption DEF CreateJob, Existing
  <2> QED
    BY <2>1, LeastIn
<1>3. batch' = [batch EXCEPT ![j] = [batch[j] EXCEPT !.state = "pending"]]
  BY DEF CreateJob, Append
<1> HIDE DEF j
<1>4. Recorded(batch[j]) /\ batch[j].state = "absent" /\ p \in Profiles
  BY <1>1, <1>2 DEF JournalOK, Existing, Recorded, JobRecord
<1>5. [batch[j] EXCEPT !.state = "pending"] = NewJob(p)
  BY <1>4 DEF Recorded, NewJob
<1> DEFINE q == NewJob(p)
<1>a. Recorded(q) /\ q \in JobRecord /\ q.profile = p /\ q.state = "pending"
       /\ q.attempt = [s \in Stages |-> 0]
  <2>1. Recorded(q) /\ q.profile = p /\ q.state = "pending"
    BY <1>4, NewJobRecorded
  <2> QED
    BY <2>1 DEF Recorded, NewJob
<1> HIDE DEF q
<1>6. batch' \in [Jobs -> JobRecord] /\ \A k \in Jobs : batch'[k] = IF k = j THEN q ELSE batch[k]
  <2>1. batch \in [Jobs -> JobRecord] /\ batch' = [batch EXCEPT ![j] = q]
    BY <1>1, <1>3, <1>5 DEF JournalOK, q
  <2> QED
    BY <1>2, <1>a, <2>1
<1>7. Existing' = Existing \union {j}
  BY <1>2, <1>a, <1>6 DEF Existing
<1>8. \A k \in Jobs : Recorded(batch'[k]) /\ batch'[k].profile = p
  <2>1. \A k \in Jobs : Recorded(batch[k]) /\ batch[k].profile = p
    BY <1>1, <1>2 DEF JournalOK
  <2> QED
    BY <1>a, <1>6, <2>1
<1>9. JournalOK'
  <2>1. 1 \in Existing'
    <3>1. CASE Existing = {}
      <4>1. j = 1
        BY <1>2, <3>1, ServiceAssumption
      <4> QED
        BY <1>7, <4>1
    <3>2. CASE Existing # {}
      BY <1>1, <1>7, <3>2 DEF JournalOK
    <3> QED
      BY <3>1, <3>2
  <2>2. (\A k \in Jobs : Recorded(batch[k]))'
    BY <1>8 DEF Recorded, Prefix
  <2>3. \A k, l \in Existing' : batch'[k].profile = batch'[l].profile
    BY <1>8 DEF Existing
  <2> QED
    BY <1>1, <1>6, <2>1, <2>2, <2>3 DEF JournalOK
<1>10. Replayed!Next
  <2>1. \A k \in Existing : batch[k].profile = p
    BY <1>1, <1>2 DEF Existing
  <2>2. Replayed!JobCreated(j, p)
    BY <1>1, <1>2, <1>3, <1>5, <2>1 DEF Replayed!JobCreated, Replayed!Created, Replayed!NewJob,
       NewJob, Existing
  <2> QED
    BY <1>2, <1>4, <2>2 DEF Replayed!Next, Replayed!JobEvent
<1>11. \A k \in Jobs, s \in Stages : batch'[k].attempt[s] = batch[k].attempt[s]
        \/ batch'[k].attempt[s] = 0
  BY <1>a, <1>6
<1>12. AllFresh => AllFresh'
  BY <1>11 DEF AllFresh, Fresh
<1>13. CreateKnows' /\ LoopsKnow' /\ StageKnows'
  BY <1>1, <1>8 DEF Inv, CreateKnows, LoopsKnow, StageKnows, At, BeforeLoop, Acknowledging,
     OnJob, OnStage, ToStart, Attempting
<1>14. RoomLeft'
  <2>1. AllFresh
    BY <1>1, ServiceAssumption DEF Inv, RoomLeft, LoopsKnow, BeforeLoop, Ending, At,
       Acknowledging, AllFresh
  <2> QED
    BY <1>1, <1>12, <2>1 DEF Inv, RoomLeft, At, Ending, AllFresh, ToStart, Attempting, Acknowledging
<1>15. w' \in Writers' /\ QueueOK'
  BY <1>1, <1>7 DEF Inv, Writers, QueueOK
<1> QED
  BY <1>9, <1>10, <1>13, <1>14, <1>15 DEF Accepted, Inv

\* batch.config_updated: every job of the batch takes the new profile.
LEMMA UpdateConfigInv ==
    ASSUME Inv, NEW p \in Profiles, NEW boundary \in Stages, UpdateConfig(p, boundary)
    PROVE  Accepted
<1>1. /\ w \in Writers /\ JournalOK /\ queued' = queued /\ opened' = opened
      /\ w.pc = "configure" /\ Existing # {} /\ 1 \in Existing /\ opened
  BY DEF UpdateConfig, Inv, env, CreateKnows, At, JournalOK
<1>2. boundary \in Plan[p] /\ Goto("configured")
  BY DEF UpdateConfig
<1>3. \A j \in Existing : /\ j \in Jobs /\ Recorded(batch[j]) /\ batch[j].state # "absent"
                          /\ batch[j].profile = batch[1].profile
  BY <1>1 DEF JournalOK, Existing
<1>4. ASSUME NEW j \in Existing,
             NEW t \in (Plan[batch[j].profile] \ Plan[p]) \union (Plan[p] \ Plan[batch[j].profile]),
             NEW kept \in Plan[p], kept < boundary
      PROVE  kept < t
  <2>1. batch[j].profile = batch[1].profile
    BY <1>3
  <2> QED
    BY <1>4, <2>1 DEF UpdateConfig
<1>5. \A j \in Existing : /\ Recorded(Reconfigured(batch[j], p, boundary))
                          /\ Reconfigured(batch[j], p, boundary).profile = p
                          /\ Reconfigured(batch[j], p, boundary).state # "absent"
  BY <1>2, <1>3, <1>4, ReconfiguredRecorded
<1> DEFINE q(j) == Reconfigured(batch[j], p, boundary)
<1>6. batch' = [j \in Jobs |-> IF j \in Existing THEN q(j) ELSE batch[j]]
  BY DEF UpdateConfig
<1>7. \A j \in Existing : q(j).attempt \in [Stages -> Nat] /\
         \A s \in Stages : q(j).attempt[s] = batch[j].attempt[s] \/ q(j).attempt[s] = 0
  BY <1>3 DEF Reconfigured, Recorded, JobRecord
<1>8. Replayed!Next
  <2>1. Replayed!ConfigUpdated(p, boundary)
    BY <1>1, <1>2, <1>6 DEF Replayed!ConfigUpdated, Replayed!Created, Replayed!Reconfigured,
       Replayed!ReconfiguredStage, Reconfigured, ReconfiguredStage, Existing
  <2> QED
    BY <2>1 DEF Replayed!Next
<1> HIDE DEF q
<1>9. \A j \in Existing : Recorded(q(j)) /\ q(j).profile = p /\ q(j).state # "absent"
  BY <1>5 DEF q
<1>10. \A j \in Jobs : batch'[j] = IF j \in Existing THEN q(j) ELSE batch[j]
  BY <1>6
<1>11. Existing' = Existing
  BY <1>9, <1>10 DEF Existing
<1>12. \A j \in Jobs : Recorded(batch'[j])
  BY <1>1, <1>9, <1>10 DEF JournalOK
<1>13. JournalOK'
  <2>1. batch' \in [Jobs -> JobRecord]
    <3>1. \A j \in Jobs : (IF j \in Existing THEN q(j) ELSE batch[j]) \in JobRecord
      BY <1>10, <1>12 DEF Recorded
    <3> QED
      BY <1>6, <3>1
  <2>2. (\A j \in Jobs : Recorded(batch[j]))'
    BY <1>12 DEF Recorded, Prefix
  <2>3. \A k, l \in Existing' : batch'[k].profile = batch'[l].profile
    BY <1>9, <1>10, <1>11 DEF Existing
  <2> QED
    BY <1>1, <1>11, <2>1, <2>2, <2>3 DEF JournalOK
<1>14. \A k \in Jobs, s \in Stages : batch'[k].attempt[s] = batch[k].attempt[s]
        \/ batch'[k].attempt[s] = 0
  BY <1>7, <1>10
<1>15. AllFresh => AllFresh'
  BY <1>14 DEF AllFresh, Fresh
<1>16. Moved("configured", w.ret, w.job, w.stage, w.todo)
  BY <1>1, <1>2, GotoMoves DEF Labels
<1>17. CreateKnows' /\ LoopsKnow' /\ StageKnows'
  BY <1>1, <1>16 DEF Moved, Inv, CreateKnows, LoopsKnow, StageKnows, At, BeforeLoop, Acknowledging,
     OnJob, OnStage, ToStart, Attempting
<1>18. RoomLeft'
  <2>1. AllFresh /\ queued = NotQueued
    BY <1>1, ServiceAssumption DEF Inv, RoomLeft, LoopsKnow, BeforeLoop, Ending, At,
       Acknowledging, AllFresh
  <2> QED
    BY <1>1, <1>15, <1>16, <2>1 DEF Moved, RoomLeft, At, AllFresh, ToStart, Attempting
<1>19. QueueOK'
  BY <1>1, <1>11 DEF Inv, QueueOK
<1> QED
  BY <1>8, <1>13, <1>16, <1>17, <1>18, <1>19 DEF Accepted, Moved, Inv

\* job.retry_requested, by the CLI at once or by the coordinator.
LEMMA BeginRetryInv ==
    ASSUME Inv, NEW j \in Existing, NEW s \in Stages, RetryOK(batch[j], s), BeginRetry(j, s),
           AllFresh, w.pc = "idle", opened' = opened,
           queued' = NotQueued
    PROVE  Inv' /\ (batch' = batch \/ Replayed!Next)
<1>1. w \in Writers /\ JournalOK /\ j \in Jobs
  BY DEF Inv, Existing
<1>2. CASE batch' = batch /\ w' = w
  <2>1. QueueOK'
    BY <1>2, ServiceAssumption DEF QueueOK, NotQueued
  <2> QED
    BY <1>2, <2>1, OthersInv
<1>3. CASE /\ Append(j, Retried(batch[j], s))
           /\ w' = [Idle EXCEPT !.pc = "retried", !.op = "retry", !.job = j]
  <2> DEFINE r == Retried(batch[j], s)
  <2>1. JournalOK' /\ Logged(j, r) /\ Replayed!Next
    BY <1>1, <1>3, RetryLogged
  <2>2. r.attempt = batch[j].attempt
    BY <1>1, EventsKeepAttempts DEF JournalOK, Outcomes
  <2>3. AllFresh'
    BY <1>1, <2>1, <2>2, SameAttempts
  <2>4. Moved("retried", "idle", j, 0, {})
    <3>1. j \in 0 .. NJobs + 1
      BY <1>1, ServiceAssumption
    <3> QED
      <4>1. /\ Idle.ret = "idle" /\ Idle.stage = 0 /\ Idle.todo = {} /\ Idle.skip = {}
            /\ Idle.targets = {} /\ Idle.seen = FALSE /\ Idle.whole = FALSE /\ Idle.error = "none"
        BY DEF Idle
      <4>2. w' = [pc |-> "retried", op |-> "retry", ret |-> Idle.ret, job |-> j, stage |-> Idle.stage,
                  skip |-> Idle.skip, seen |-> Idle.seen, whole |-> Idle.whole,
                  targets |-> Idle.targets, todo |-> Idle.todo, error |-> Idle.error]
        BY <1>3 DEF Idle
      <4>3. w'.pc = "retried" /\ w'.ret = "idle" /\ w'.job = j /\ w'.stage = 0 /\ w'.todo = {}
        BY <4>1, <4>2
      <4>4. w' \in Writers'
        BY <3>1, <4>1, <4>2 DEF Writers, Labels
      <4> QED
        BY <4>3, <4>4 DEF Moved
  <2>5. CreateKnows' /\ LoopsKnow' /\ StageKnows'
    BY <2>4 DEF Moved, CreateKnows, LoopsKnow, StageKnows, At, BeforeLoop, Acknowledging,
       OnJob, OnStage, ToStart, Attempting
  <2>6. RoomLeft'
    BY <2>3, <2>4 DEF Moved, RoomLeft, At, AllFresh, ToStart, Attempting, NotQueued
  <2>7. QueueOK'
    BY ServiceAssumption DEF QueueOK, NotQueued
  <2> QED
    BY <2>1, <2>4, <2>5, <2>6, <2>7 DEF Moved, Inv
<1> QED
  BY <1>2, <1>3 DEF BeginRetry

\* The steps of _run_job that append, but for stage.started.
Appending ==
    {<<"invalidate-stage", "workspace">>, <<"commit", "committed">>, <<"fail", "fail-job">>,
     <<"fail-job", "failed">>, <<"cancel", "cancel-job">>, <<"cancel-job", "cancel-manifest">>,
     <<"caught", "caught-manifest">>, <<"succeed", "succeeded">>}

\* Such a step keeps the invariant.
LEMMA AppendingInv ==
    ASSUME Inv, NEW r, Logged(w.job, r), r.attempt = Current.attempt, r.profile = Current.profile,
           JournalOK', queued' = queued, NEW pc, <<w.pc, pc>> \in Appending,
           Moved(pc, w.ret, w.job, w.stage, w.todo),
           pc = "workspace" => r.stage[w.stage] # "committed",
           pc = "fail-job" => r.state = "failed",
           pc = "cancel-job" => r.state = "cancelled"
    PROVE  Inv'
<1>1. w \in Writers /\ w.job \in Existing /\ w.job \in Jobs /\ w.ret = "idle"
  BY DEF Inv, StageKnows, LoopsKnow, Acknowledging, Appending, OnJob, OnStage, ToStart,
     Attempting, Existing
<1>2. AllFresh' = AllFresh /\ \A k \in Jobs, t \in Stages : Fresh(k, t)' = Fresh(k, t)
  BY <1>1, SameAttempts DEF Current
<1>3. CreateKnows' /\ LoopsKnow'
  BY <1>1 DEF Appending, Moved, Logged, CreateKnows, LoopsKnow, At, BeforeLoop, Acknowledging
<1>4. Current' = r
  BY <1>1 DEF Moved, Logged, Current
<1>5. StageKnows'
  BY <1>1, <1>4 DEF Appending, Moved, Logged, Inv, StageKnows, At, OnJob, OnStage, ToStart,
     Attempting
<1>6. RoomLeft'
  BY <1>1, <1>2 DEF Appending, Moved, Inv, RoomLeft, At, Ending, ToStart, Attempting, Acknowledging
<1>7. QueueOK'
  BY DEF Inv, QueueOK, Logged
<1> QED
  BY <1>3, <1>5, <1>6, <1>7 DEF Moved, Inv

\* stage.started: the number that was left is used.
LEMMA StartStageInv ==
    ASSUME Inv, StartStage
    PROVE  Inv' /\ (Still \/ Replayed!Next)
<1>1. /\ w \in Writers /\ JournalOK /\ queued' = queued /\ opened' = opened /\ w.pc = "start"
      /\ w.job \in Existing /\ w.job \in Jobs /\ w.ret = "idle"
  BY DEF StartStage, Inv, env, At, StageKnows, LoopsKnow, Acknowledging, OnJob, OnStage, ToStart,
     Existing
<1> DEFINE j == w.job
           s == w.stage
           n == batch[j].attempt[s] + 1
           r == Started(batch[j], s, n)
<1>2. /\ Recorded(batch[j]) /\ s \in Plan[batch[j].profile] /\ batch[j].stage[s] # "committed"
      /\ Plan[batch[j].profile] \subseteq Stages /\ s \in Stages /\ s # 0 /\ Stages \subseteq Nat
  <2>1. Recorded(batch[j]) /\ batch[j].profile \in Profiles
    BY <1>1 DEF JournalOK, Recorded, JobRecord
  <2>2. s \in Plan[batch[j].profile] /\ batch[j].stage[s] # "committed"
    BY <1>1 DEF Inv, StageKnows, OnStage, ToStart, Current
  <2>3. Plan[batch[j].profile] \subseteq Stages /\ Stages \subseteq Nat
    BY <2>1, PlanAssumption
  <2>4. 0 \notin Stages
    BY ServiceAssumption
  <2> QED
    BY <2>1, <2>2, <2>3, <2>4
<1> HIDE DEF s
<1>a. s \in Nat /\ \A t \in Stages : t \in Nat
  BY <1>2
<1>3. CASE Raise("error") /\ batch' = batch
  BY <1>1, <1>3, RaiseMoves, OnwardInv DEF Still, Onward
<1>4. CASE StartedOK(batch[j], s, n) /\ Append(j, r) /\ Goto("started")
  <2>1. Fresh(j, s)
    <3>1. \A t \in Stages : w.stage # 0 /\ t >= w.stage => Fresh(w.job, t)
      BY <1>1 DEF Inv, RoomLeft, ToStart
    <3>2. s >= s
      BY <1>a
    <3> QED
      BY <1>1, <1>2, <3>1, <3>2 DEF s
  <2>2. n \in 1..MaxAttempt + 1
    BY <1>2, <2>1, ServiceAssumption DEF Fresh, Recorded, JobRecord
  <2>3. JournalOK' /\ Logged(j, r) /\ Replayed!Next
    BY <1>1, <1>2, <1>4, <2>2, StartLogged
  <2>4. \A t \in Plan[batch[j].profile] : t < s => batch[j].stage[t] = "committed"
    BY <1>2, <1>4, EarlierCommitted DEF StartedOK
  <2>5. /\ r.profile = batch[j].profile
        /\ \A t \in Stages : /\ r.stage[t] = IF t = s THEN "running" ELSE batch[j].stage[t]
                             /\ r.attempt[t] = IF t = s THEN n ELSE batch[j].attempt[t]
    BY <1>2 DEF Started, Recorded, JobRecord
  <2> HIDE DEF r, n
  <2>6. \A k \in Jobs, t \in Stages : (k # j \/ t # s) /\ Fresh(k, t) => Fresh(k, t)'
    BY <2>3, <2>5 DEF Fresh, Logged
  <2>7. Moved("started", w.ret, j, s, w.todo)
    BY <1>1, <1>4, GotoMoves DEF Labels, s
  <2>8. CreateKnows' /\ LoopsKnow'
    BY <1>1, <2>7 DEF Moved, CreateKnows, LoopsKnow, At, BeforeLoop, Acknowledging
  <2>9. Current' = r
    BY <1>1, <2>3, <2>7 DEF Moved, Logged, Current
  <2>10. StageKnows'
    BY <1>1, <1>2, <2>3, <2>4, <2>5, <2>7, <2>9 DEF Moved, Logged, StageKnows, At,
       OnJob, OnStage, ToStart, Attempting
  <2>11. RoomLeft'
    <3>1. ~Ending /\ queued = NotQueued /\ \A k \in Jobs, t \in Stages : k > j => Fresh(k, t)
      BY <1>1 DEF Inv, RoomLeft, Ending, At, Acknowledging
    <3>2. \A t \in Stages : t > s => Fresh(j, t)
      <4>1. \A t \in Stages : w.stage # 0 /\ t >= w.stage => Fresh(w.job, t)
        BY <1>1 DEF Inv, RoomLeft, ToStart
      <4>2. \A t \in Stages : t > s => t >= s
        BY <1>a
      <4> QED
        BY <1>2, <4>1, <4>2 DEF s
    <3>3. \A k \in Jobs, t \in Stages : k > j => Fresh(k, t)'
      BY <1>1, <2>6, <3>1, ServiceAssumption
    <3>4. \A t \in Stages : t > s => Fresh(j, t)'
      <4>1. \A t \in Stages : t > s => t # s
        BY <1>a
      <4> QED
        BY <1>1, <2>6, <2>7, <3>2, <4>1 DEF Moved
    <3> QED
      BY <1>1, <2>7, <3>1, <3>3, <3>4 DEF Moved, RoomLeft, At, ToStart, Attempting
  <2>12. QueueOK'
    BY <1>1, <2>3 DEF Inv, QueueOK, Logged
  <2> QED
    BY <2>3, <2>7, <2>8, <2>10, <2>11, <2>12 DEF Moved, Inv
<1> QED
  BY <1>3, <1>4 DEF StartStage, s

\* The other steps of _run_job and StageExecutor that append.
LEMMA JobEventsInv ==
    ASSUME Inv,
           \/ InvalidateStage \/ CommitStage \/ FailStage \/ FailJob \/ CancelStage \/ CancelJob
    PROVE  Accepted
<1>1. w \in Writers /\ JournalOK /\ queued' = queued /\ opened' = opened
  BY DEF InvalidateStage, CommitStage, FailStage, FailJob, CancelStage, CancelJob, Inv, env
<1>2. w.pc \in {"invalidate-stage", "commit", "fail", "fail-job", "cancel", "cancel-job"}
  BY DEF InvalidateStage, CommitStage, FailStage, FailJob, CancelStage, CancelJob, At
<1>3. w.job \in Existing /\ w.job \in Jobs /\ Recorded(Current)
  BY <1>1, <1>2 DEF Inv, StageKnows, OnJob, OnStage, ToStart, Attempting, Existing, JournalOK,
     Current
<1> DEFINE s == w.stage
<1>4. w.pc \notin {"fail-job", "cancel-job"} =>
         s \in Plan[Current.profile] /\ s \in Stages /\ s \in Nat
  BY <1>2, <1>3, PlanAssumption DEF Inv, StageKnows, OnStage, ToStart, Attempting, Recorded,
     JobRecord
<1>5. ASSUME NEW outcome \in {"committed", "failed", "cancelled"}, NEW pc \in Labels,
             <<w.pc, pc>> \in Appending, w.pc \in Attempting, Goto(pc),
             Append(w.job, Closed(Current, s, outcome)),
             pc = "fail-job" => outcome = "failed", pc = "cancel-job" => outcome = "cancelled"
      PROVE  Accepted
  <2> DEFINE r == Closed(Current, s, outcome)
  <2>1. /\ s \in Plan[Current.profile] /\ s \in Stages /\ Current.stage[s] = "running"
        /\ \A t \in Plan[Current.profile] : t < s => Current.stage[t] = "committed"
    BY <1>3, <1>5, PlanAssumption DEF Inv, StageKnows, OnStage, Attempting, Recorded, JobRecord
  <2>2. outcome \in Outcomes
    BY DEF Outcomes
  <2>3. JournalOK' /\ Logged(w.job, r) /\ Replayed!Next
    BY <1>1, <1>3, <1>5, <2>1, <2>2, CloseLogged DEF Current
  <2>4. r.attempt = Current.attempt /\ r.profile = Current.profile
    BY <1>3, <2>1, <2>2, EventsKeepAttempts, ClosedRecorded
  <2>5. outcome # "committed" => r.state = outcome
    BY <1>3 DEF Closed, Recorded, JobRecord
  <2>6. Moved(pc, w.ret, w.job, w.stage, w.todo)
    BY <1>1, <1>5, GotoMoves
  <2>7. pc # "workspace"
    BY <1>5 DEF Appending, Attempting
  <2> HIDE DEF r
  <2>8. Inv'
    BY <1>1, <1>5, <2>3, <2>4, <2>5, <2>6, <2>7, AppendingInv
  <2> QED
    BY <2>3, <2>8 DEF Accepted
<1>6. CASE CommitStage \/ FailStage \/ CancelStage
  BY <1>5, <1>6 DEF CommitStage, FailStage, CancelStage, At, Appending, Attempting, Labels, Current
<1>7. ASSUME NEW state \in {"failed", "cancelled"}, NEW pc \in {"failed", "cancel-manifest"},
             <<w.pc, pc>> \in Appending, Goto(pc), Current.state = state,
             Append(w.job, Ended(Current, state))
      PROVE  Accepted
  <2> DEFINE r == Ended(Current, state)
  <2>1. (state = "failed" => FailedOK(Current)) /\ (state = "cancelled" => CancelledOK(Current))
    BY <1>7 DEF FailedOK, CancelledOK
  <2>2. JournalOK' /\ Logged(w.job, r) /\ Replayed!Next
    BY <1>1, <1>3, <1>7, <2>1, EndLogged DEF Current
  <2>3. r.attempt = Current.attempt /\ r.profile = Current.profile
    BY <1>3 DEF Ended, Recorded, JobRecord
  <2>4. Moved(pc, w.ret, w.job, w.stage, w.todo)
    BY <1>1, <1>7, GotoMoves DEF Labels
  <2> HIDE DEF r
  <2>5. Inv'
    BY <1>1, <1>7, <2>2, <2>3, <2>4, AppendingInv
  <2> QED
    BY <2>2, <2>5 DEF Accepted
<1>8. CASE FailJob \/ CancelJob
  <2>1. At("fail-job") => Current.state = "failed"
    BY DEF Inv, StageKnows
  <2>2. At("cancel-job") => Current.state = "cancelled"
    BY DEF Inv, StageKnows
  <2> QED
    BY <1>7, <1>8, <2>1, <2>2 DEF FailJob, CancelJob, At, Appending, Current
<1>9. CASE InvalidateStage
  <2> DEFINE r == Invalidated(Current, s)
  <2>1. w.pc = "invalidate-stage" /\ Goto("workspace") /\ Append(w.job, r)
    BY <1>9 DEF InvalidateStage, At, Current
  <2>2. Current.stage[s] = "committed"
    BY <2>1 DEF Inv, StageKnows, At
  <2>3. s \in Plan[Current.profile] /\ s \in Stages /\ s \in Nat
    BY <1>4, <2>1
  <2>4. JournalOK' /\ Logged(w.job, r) /\ Replayed!Next
    BY <1>1, <1>3, <2>1, <2>2, <2>3, InvalidateLogged DEF Current
  <2>5. r.attempt = Current.attempt /\ r.profile = Current.profile /\ r.stage[s] = "invalidated"
    BY <1>3, <2>2, <2>3 DEF Invalidated, Suffix, Recorded, JobRecord
  <2>6. Moved("workspace", w.ret, w.job, w.stage, w.todo)
    BY <1>1, <2>1, GotoMoves DEF Labels
  <2> HIDE DEF r
  <2>7. Inv'
    BY <1>1, <2>1, <2>4, <2>5, <2>6, AppendingInv DEF Appending
  <2> QED
    BY <2>4, <2>7 DEF Accepted
<1> QED
  BY <1>6, <1>8, <1>9

\* The last look at a job: the handler of _run_job, and job.succeeded.
LEMMA JobEndsInv ==
    ASSUME Inv, RestOK, Caught \/ Succeed
    PROVE  Inv' /\ (Still \/ Replayed!Next)
<1>1. w \in Writers /\ JournalOK /\ queued' = queued /\ opened' = opened
       /\ w.pc \in {"caught", "succeed"}
  BY DEF Caught, Succeed, Inv, env, At
<1>2. w.job \in Existing /\ w.job \in Jobs /\ Recorded(Current)
  BY <1>1 DEF Inv, StageKnows, OnJob, Existing, JournalOK, Current
<1>3. ASSUME NEW state \in {"failed", "succeeded"}, NEW pc \in {"caught-manifest", "succeeded"},
             <<w.pc, pc>> \in Appending, Goto(pc), Append(w.job, Ended(Current, state)),
             state = "failed" => FailedOK(Current), state = "succeeded" => SucceededOK(Current)
      PROVE  Accepted
  <2> DEFINE r == Ended(Current, state)
  <2>1. JournalOK' /\ Logged(w.job, r) /\ Replayed!Next
    BY <1>1, <1>2, <1>3, EndLogged DEF Current
  <2>2. r.attempt = Current.attempt /\ r.profile = Current.profile
    BY <1>2 DEF Ended, Recorded, JobRecord
  <2>3. Moved(pc, w.ret, w.job, w.stage, w.todo)
    BY <1>1, <1>3, GotoMoves DEF Labels
  <2> HIDE DEF r
  <2>4. Inv'
    BY <1>1, <1>3, <2>1, <2>2, <2>3, AppendingInv
  <2> QED
    BY <2>1, <2>4 DEF Accepted
<1>4. CASE Stop /\ batch' = batch
  BY <1>1, <1>4, StopStillInv DEF Still
<1>5. CASE Caught
  <2>1. w.pc = "caught"
    BY <1>5 DEF Caught, At
  <2>2. CASE /\ w' = [w EXCEPT !.pc = "acknowledge", !.ret = "cancelled", !.seen = cancelBatch]
             /\ batch' = batch
    <3>1. cancelBatch \in BOOLEAN /\ "acknowledge" \in Labels
      BY DEF RestOK, Labels
    <3>2. Moved("acknowledge", "cancelled", w.job, w.stage, w.todo)
      BY <1>1, <2>2, <3>1 DEF Writers, Moved
    <3> QED
      BY <1>1, <2>1, <2>2, <3>2, CallInv DEF Still
  <2> QED
    BY <1>3, <1>4, <1>5, <2>1, <2>2 DEF Caught, JobFails, Appending, Current, Accepted
<1>6. CASE Succeed
  <2>1. w.pc = "succeed"
    BY <1>6 DEF Succeed, At
  <2>2. CASE Goto("after-job") /\ batch' = batch
    BY <1>1, <2>1, <2>2, GotoMoves, OnwardInv DEF Labels, Onward, Still
  <2>3. CASE Raise("cancelled") /\ batch' = batch
    BY <1>1, <2>1, <2>3, RaiseMoves, OnwardInv DEF Onward, Still
  <2> QED
    BY <1>3, <1>4, <1>6, <2>1, <2>2, <2>3 DEF Succeed, Appending, Current, Accepted
<1> QED
  BY <1>5, <1>6

-----------------------------------------------------------------------------
(* The beginning of commands, requests and the environment                  *)

\* A command that begins with numbers left everywhere.
LEMMA BeginInv ==
    ASSUME Inv, batch' = batch, opened' = opened, AllFresh, queued' = NotQueued,
           NEW pc \in {"run", "reconcile", "configure"}, pc = "configure" => Existing # {},
           Moved(pc, "idle", 0, 0, {})
    PROVE  Inv'
<1>1. JournalOK' /\ AllFresh'
  BY DEF Inv, JournalOK, Existing, AllFresh, Fresh
<1>2. CreateKnows' /\ LoopsKnow' /\ StageKnows'
  BY DEF Moved, CreateKnows, LoopsKnow, StageKnows, At, Existing, BeforeLoop, Acknowledging,
     OnJob, OnStage, ToStart, Attempting
<1>3. RoomLeft'
  BY <1>1 DEF Moved, RoomLeft, At, AllFresh, ToStart, Attempting
<1>4. QueueOK'
  BY ServiceAssumption DEF QueueOK, NotQueued
<1> QED
  BY <1>1, <1>2, <1>3, <1>4 DEF Moved, Inv

\* The record such a command begins with.
LEMMA BeginMoves ==
    ASSUME NEW pc \in {"run", "reconcile", "configure", "acknowledge"},
           NEW op \in {"execute", "resume", "cancel"},
           w' = [Idle EXCEPT !.pc = pc, !.op = op]
    PROVE  Moved(pc, "idle", 0, 0, {})
<1>1. 0 \in 0 .. NJobs + 1
  BY ServiceAssumption
<1>2. /\ Idle.ret = "idle" /\ Idle.job = 0 /\ Idle.stage = 0 /\ Idle.todo = {} /\ Idle.skip = {}
      /\ Idle.targets = {} /\ Idle.seen = FALSE /\ Idle.whole = FALSE /\ Idle.error = "none"
  BY DEF Idle
<1>3. w' = [pc |-> pc, op |-> op, ret |-> Idle.ret, job |-> Idle.job, stage |-> Idle.stage,
            skip |-> Idle.skip, seen |-> Idle.seen, whole |-> Idle.whole,
            targets |-> Idle.targets, todo |-> Idle.todo, error |-> Idle.error]
  BY DEF Idle
<1>4. pc \in Labels /\ op \in {"none", "create", "execute", "resume", "retry", "cancel"}
  BY DEF Labels
<1>5. /\ w'.pc = pc /\ w'.ret = "idle" /\ w'.job = 0 /\ w'.stage = 0 /\ w'.todo = {}
  BY <1>2, <1>3
<1>6. w' \in Writers'
  <2>1. /\ Idle.ret \in {"idle", "workspaces", "run-acknowledged", "cancelled"}
        /\ Idle.job \in 0 .. NJobs + 1 /\ Idle.stage \in Stages \union {0}
        /\ Idle.skip \in SUBSET Jobs /\ Idle.targets \in SUBSET Jobs
        /\ Idle.seen \in BOOLEAN /\ Idle.whole \in BOOLEAN
        /\ Idle.error \in {"none", "error", "cancelled", "post-commit"}
    BY <1>1, <1>2
  <2> QED
    BY <1>3, <1>4, <2>1 DEF Writers
<1> QED
  BY <1>5, <1>6 DEF Moved

\* batch.created is the first event: create makes a new directory.
LEMMA CreateBatchInv ==
    ASSUME Inv, CreateBatch
    PROVE  Accepted
<1>1. /\ w \in Writers /\ w.pc = "open" /\ ~opened /\ opened' = TRUE /\ batch' = batch
      /\ queued' = queued
  BY DEF CreateBatch, Inv, CreateKnows, At, env
<1>2. Moved("create", w.ret, w.job, w.stage, w.todo)
  BY <1>1, GotoMoves DEF CreateBatch, Labels
<1>3. JournalOK' /\ QueueOK'
  BY <1>1 DEF Inv, JournalOK, QueueOK, Existing
<1>4. CreateKnows' /\ LoopsKnow' /\ StageKnows'
  BY <1>1, <1>2 DEF Moved, Inv, CreateKnows, LoopsKnow, StageKnows, At, Existing, BeforeLoop,
     Acknowledging,
     OnJob, OnStage, ToStart, Attempting
<1>5. RoomLeft'
  BY <1>1, <1>2 DEF Moved, Inv, RoomLeft, At, Ending, AllFresh, Fresh, ToStart, Attempting,
     Acknowledging
<1>6. Replayed!Next
  BY <1>1 DEF Replayed!Next, Replayed!BatchCreated
<1> QED
  BY <1>2, <1>3, <1>4, <1>5, <1>6 DEF Accepted, Moved, Inv

\* The end of create: the CLI goes on to run, the GUI schedules.
LEMMA CreateManifestInv ==
    ASSUME Inv, CreateManifest
    PROVE  Inv' /\ batch' = batch /\ opened' = opened
<1>1. w \in Writers /\ batch' = batch /\ opened' = opened /\ w.pc = "create" /\ w.job = 0
       /\ w.ret = "idle"
  BY DEF CreateManifest, journal, Inv, At, LoopsKnow, BeforeLoop, Acknowledging
<1>2. AllFresh /\ queued = NotQueued
  <2>1. ~Ending
    BY <1>1 DEF Ending, At, Acknowledging
  <2>2. queued = NotQueued /\ \A j \in Jobs, s \in Stages : j > 0 => Fresh(j, s)
    BY <1>1, <2>1 DEF Inv, RoomLeft
  <2> QED
    BY <2>2, ServiceAssumption DEF AllFresh
<1>3. CASE Stop /\ queued' = queued
  BY <1>1, <1>3, StopStillInv DEF Still
<1>4. CASE Stop /\ queued' = [NotQueued EXCEPT !.op = "execute"]
  <2>1. QueueOK'
    BY <1>4, ServiceAssumption DEF QueueOK, NotQueued
  <2> QED
    BY <1>1, <1>2, <1>4, <2>1, StopInv DEF Stop
<1>5. CASE Goto("run") /\ queued' = queued
  <2>1. Moved("run", w.ret, w.job, w.stage, w.todo)
    BY <1>1, <1>5, GotoMoves DEF Labels
  <2>2. CreateKnows' /\ LoopsKnow' /\ StageKnows'
    BY <1>1, <2>1 DEF Moved, CreateKnows, LoopsKnow, StageKnows, At, Existing, BeforeLoop,
       Acknowledging,
       OnJob, OnStage, ToStart, Attempting
  <2>3. RoomLeft'
    BY <1>1, <1>2, <1>5, <2>1 DEF Moved, RoomLeft, At, AllFresh, Fresh, ToStart, Attempting
  <2> QED
    BY <1>1, <1>5, <2>1, <2>2, <2>3, StillInv DEF Place, Still, Moved
<1> QED
  BY <1>1, <1>3, <1>4, <1>5 DEF CreateManifest

\* The CLI's resume begins at once, the GUI's is queued.
LEMMA StartResumeInv ==
    ASSUME Inv, StartResume
    PROVE  Inv' /\ batch' = batch /\ opened' = opened
<1>1. /\ w \in Writers /\ batch' = batch /\ opened' = opened /\ w.pc = "idle" /\ queued = NotQueued
      /\ Existing # {}
  BY DEF StartResume, journal, Inv, At, Unscheduled
<1>2. AllFresh
  BY DEF StartResume, AttemptsLeft, AllFresh, Fresh
<1>3. CASE w' = w /\ queued' = [NotQueued EXCEPT !.op = "resume"]
  <2>1. QueueOK'
    BY <1>3, ServiceAssumption DEF QueueOK, NotQueued
  <2> QED
    BY <1>1, <1>2, <1>3, <2>1, OthersInv DEF Ending, At
<1>4. ASSUME NEW pc \in {"reconcile", "configure"}, queued' = queued,
             w' = [Idle EXCEPT !.pc = pc, !.op = "resume"]
      PROVE  Inv'
  BY <1>1, <1>2, <1>4, BeginMoves, BeginInv
<1> QED
  BY <1>1, <1>3, <1>4 DEF StartResume, BeginResume

\* So with retry.
LEMMA StartRetryInv ==
    ASSUME Inv, NEW j \in Jobs, NEW s \in Stages, StartRetry(j, s)
    PROVE  Inv' /\ opened' = opened /\ (batch' = batch \/ Replayed!Next)
<1>1. /\ w \in Writers /\ opened' = opened /\ w.pc = "idle" /\ queued = NotQueued
      /\ j \in Existing /\ RetryOK(batch[j], s)
  BY DEF StartRetry, Inv, At, Unscheduled, Retryable
<1>2. AllFresh
  BY DEF StartRetry, AttemptsLeft, AllFresh, Fresh
<1>3. CASE w' = w /\ batch' = batch /\ queued' = [op |-> "retry", job |-> j, stage |-> s]
  <2>1. QueueOK'
    BY <1>1, <1>3, ServiceAssumption DEF QueueOK, Existing
  <2> QED
    BY <1>1, <1>2, <1>3, <2>1, OthersInv DEF Ending, At
<1> QED
  BY <1>1, <1>2, <1>3, BeginRetryInv DEF StartRetry

\* The coordinator runs what is queued.
LEMMA ExecuteInv ==
    ASSUME Inv, Execute
    PROVE  Inv' /\ opened' = opened /\ (batch' = batch \/ Replayed!Next)
<1>1. w \in Writers /\ opened' = opened /\ w.pc = "idle" /\ queued' = NotQueued /\ AllFresh
  BY DEF Execute, Inv, At, RoomLeft
<1>2. ASSUME NEW pc \in {"run", "reconcile"}, NEW op \in {"execute", "resume"}, batch' = batch,
             w' = [Idle EXCEPT !.pc = pc, !.op = op]
      PROVE  Inv'
  BY <1>1, <1>2, BeginMoves, BeginInv
<1>3. CASE w' = w /\ batch' = batch
  <2>1. QueueOK'
    BY <1>1, ServiceAssumption DEF QueueOK, NotQueued
  <2> QED
    BY <1>1, <1>3, <2>1, OthersInv
<1>4. CASE /\ queued.op = "retry" /\ Retryable(queued.job, queued.stage)
           /\ BeginRetry(queued.job, queued.stage)
  <2>1. queued.job \in Existing /\ queued.stage \in Stages /\ RetryOK(batch[queued.job], queued.stage)
    BY <1>4 DEF Inv, QueueOK, Retryable
  <2> QED
    BY <1>1, <1>4, <2>1, BeginRetryInv
<1> QED
  BY <1>1, <1>2, <1>3, <1>4 DEF Execute, BeginResume

\* Requests write markers, and a cancellation may call acknowledge; a crash
\* ends the command; damage leaves the journal alone.
LEMMA OutsideInv ==
    ASSUME Inv, RestOK,
           \/ RequestStep \/ RequestPause \/ Crash
           \/ \E j \in Jobs \union {0} : RequestCancel(j)
           \/ \E j \in Jobs, s \in Stages : Rot(j, s)
    PROVE  Inv' /\ batch' = batch /\ opened' = opened
<1>1. w \in Writers /\ batch' = batch /\ opened' = opened
  BY DEF RequestStep, MarkCancel, DropPause, FinalizeCancel, MarkPause, RequestPause, Crash,
     RequestCancel,
     Rot, journal, Inv
<1>2. QueueOK /\ (queued # NotQueued => AllFresh /\ Ending)
  BY DEF Inv, RoomLeft
<1>3. queued' = queued \/ queued' = NotQueued
  BY DEF RequestStep, MarkCancel, DropPause, FinalizeCancel, MarkPause, RequestPause, Crash,
     RequestCancel, Rot
<1>4. QueueOK'
  BY <1>1, <1>2, <1>3, ServiceAssumption DEF QueueOK, Existing, NotQueued
<1>5. queued' # NotQueued => AllFresh /\ Ending
  BY <1>2, <1>3
<1>6. CASE w' = w
  BY <1>1, <1>4, <1>5, <1>6, OthersInv
<1>7. CASE w' = Idle
  BY <1>1, <1>4, <1>5, <1>7, StopInv
<1>8. CASE w' = [Idle EXCEPT !.pc = "acknowledge", !.op = "cancel"] /\ queued' = queued
  <2>1. Moved("acknowledge", "idle", 0, 0, {})
    BY <1>8, BeginMoves
  <2>2. CreateKnows' /\ LoopsKnow' /\ StageKnows'
    BY <2>1 DEF Moved, CreateKnows, LoopsKnow, StageKnows, At, BeforeLoop, Acknowledging,
       OnJob, OnStage, ToStart, Attempting
  <2>3. RoomLeft'
    BY <1>1, <1>5, <2>1 DEF Moved, RoomLeft, At, Ending, AllFresh, Fresh, Acknowledging, ToStart,
       Attempting
  <2> QED
    BY <1>1, <1>8, <2>1, <2>2, <2>3, StillInv DEF Place, Still, Moved
<1> QED
  BY <1>1, <1>6, <1>7, <1>8 DEF RequestStep, MarkCancel, DropPause, FinalizeCancel, MarkPause,
     RequestPause,
     Crash, RequestCancel, Rot

\* What a write of the manifest leaves, in place or not.
LEMMA ManifestRest ==
    ASSUME RestOK,
           \/ CreateManifest \/ RetryManifest \/ ConfigManifest \/ (Reconcile /\ ~projected)
           \/ InterruptManifest \/ InvalidateManifest \/ AcknowledgeManifest \/ StartManifest
           \/ CommitManifest \/ FailManifest \/ CancelManifest \/ CaughtManifest \/ SucceedManifest
    PROVE  RestOK'
<1>1. /\ projected' \in {projected, TRUE}
      /\ faults' = faults \/ (faults < MaxFault /\ faults' = faults + 1)
      /\ UNCHANGED <<cancelLogged, cancelBatch, cancelJob, pause, damaged, drifted, lost, leftover,
                     req, crashes, rots, driver>>
  BY DEF CreateManifest, RetryManifest, ConfigManifest, Reconcile, InterruptManifest,
     InvalidateManifest,
     AcknowledgeManifest, StartManifest, CommitManifest, FailManifest, CancelManifest,
     CaughtManifest,
     SucceedManifest, WriteManifest, ReadOnly, journal, markers, files, env
<1>2. projected' \in BOOLEAN
  BY <1>1, Zenon DEF RestOK
<1>3. faults' \in 0..MaxFault
  BY <1>1, ServiceAssumption DEF RestOK
<1> QED
  BY <1>1, <1>2, <1>3 DEF RestOK

\* The types of the manifest, the markers, the files, the counters and the
\* request hold after every step.
LEMMA RestInv ==
    ASSUME Inv, RestOK, [Next]_vars
    PROVE  RestOK'
<1>1. w.pc \in OnJob => w.job \in Jobs
  BY DEF Inv, StageKnows, Existing
<1>2. w.pc = "workspace" => w.stage \in Stages
  <2> SUFFICES ASSUME w.pc = "workspace" PROVE w.stage \in Stages
    OBVIOUS
  <2>1. w.job \in Existing /\ w.stage \in Plan[Current.profile]
    BY DEF Inv, StageKnows, OnJob, OnStage, ToStart
  <2>2. Current.profile \in Profiles
    BY <2>1 DEF Inv, JournalOK, Current, Existing, JobRecord
  <2> QED
    BY <2>1, <2>2, PlanAssumption
<1> USE DEF journal, markers, files, env
<1>3. CASE CreateBatch \/ CreateJob
             \/ \E p \in Profiles, boundary \in Stages : UpdateConfig(p, boundary)
  BY <1>3 DEF CreateBatch, CreateJob, UpdateConfig, Append, RestOK
<1>4. CASE (Reconcile /\ projected) \/ InterruptAttempt \/ Verify \/ InvalidateDamaged
            \/ RemoveWorkspaces \/ ClearPause
  BY <1>4 DEF Reconcile, InterruptAttempt, Verify, InvalidateDamaged, RemoveWorkspaces, ClearPause,
     ReadOnly, Append, RestOK
<1>5. CASE Acknowledge \/ ClearBatchMarker \/ ClearPauseMarker \/ Acknowledged
  BY <1>5 DEF Acknowledge, ClearBatchMarker, ClearPauseMarker, Acknowledged, ReadOnly, RestOK
<1>6. ASSUME NEW j \in Jobs,
             CancelTarget(j) \/ ClearJobMarker(j) \/ \E s \in Stages : CancelAttempt(j, s)
      PROVE  RestOK'
  BY <1>6 DEF CancelTarget, ClearJobMarker, CancelAttempt, Append, RestOK
<1>7. CASE RunStep
  BY <1>7 DEF RunStep, Run, RunAcknowledged, NextJob, NextJobPause, AfterJob, AfterJobPause,
     ReadOnly, RestOK
<1>8. CASE CheckCancel \/ EnterStage \/ InvalidateStage \/ StartStage
  BY <1>8 DEF CheckCancel, EnterStage, InvalidateStage, StartStage, ReadOnly, Append, RestOK
<1>17. CASE MakeWorkspace
  <2>1. <<w.job, w.stage>> \in Jobs \X Stages
    BY <1>1, <1>2, <1>17 DEF MakeWorkspace, At, OnJob, OnStage, ToStart
  <2>2. leftover' \subseteq Jobs \X Stages
    BY <1>17, <2>1 DEF MakeWorkspace, RestOK
  <2> QED
    BY <1>17, <2>2 DEF MakeWorkspace, RestOK
<1>9. CASE ExecuteStage
  BY <1>9, ServiceAssumption DEF ExecuteStage, RestOK
<1>10. CASE CommitStage \/ FailStage \/ FailJob \/ CancelStage \/ CancelJob
  BY <1>1, <1>10 DEF CommitStage, FailStage, FailJob, CancelStage, CancelJob, Append, At, OnJob,
     RestOK
<1>11. CASE Caught \/ JobCancelled \/ Succeed \/ ClearMarker
  BY <1>11 DEF Caught, JobCancelled, Succeed, ClearMarker, ReadOnly, Append, RestOK
<1>12. NoRequest \in Requests
  BY DEF NoRequest, Requests
<1>13. CASE RequestStep
  <2>1. req \in Requests
    BY DEF RestOK
  <2>2. req' \in Requests
    BY <1>12, <1>13, <2>1 DEF RequestStep, MarkCancel, DropPause, FinalizeCancel, MarkPause,
       Requests
  <2>3. req.job \in Jobs \union {0}
    BY <2>1 DEF Requests
  <2> QED
    BY <1>13, <2>2, <2>3 DEF RequestStep, MarkCancel, DropPause, FinalizeCancel, MarkPause, RestOK
<1>18. CASE RequestPause
  <2>1. req' = [step |-> "pause", job |-> NoRequest.job, scheduled |-> NoRequest.scheduled]
    BY <1>18 DEF RequestPause, NoRequest
  <2>2. req' \in Requests
    BY <2>1 DEF NoRequest, Requests
  <2> QED
    BY <1>18, <2>2 DEF RequestPause, RestOK
<1>19. ASSUME NEW j \in Jobs \union {0}, RequestCancel(j) PROVE RestOK'
  <2>1. req' \in Requests
    BY <1>19 DEF RequestCancel, Requests
  <2> QED
    BY <1>19, <2>1 DEF RequestCancel, RestOK
<1>14. CASE Execute \/ StartResume \/ \E j \in Jobs, s \in Stages : StartRetry(j, s)
  BY <1>14 DEF Execute, StartResume, StartRetry, BeginRetry, Append, RestOK
<1>15. CASE Crash
  BY <1>12, <1>15, ServiceAssumption DEF Crash, RestOK
<1>20. ASSUME NEW j \in Jobs, NEW s \in Stages, Rot(j, s) PROVE RestOK'
  <2>1. rots' \in 0..MaxRot
    BY <1>20, ServiceAssumption DEF Rot, RestOK
  <2>2. <<j, s>> \in Jobs \X Stages
    OBVIOUS
  <2>3. /\ damaged' \subseteq damaged \union {<<j, s>>} /\ drifted' \subseteq drifted \union {<<j, s>>}
        /\ lost' \subseteq lost \union {j}
    BY <1>20 DEF Rot
  <2>4. UNCHANGED <<projected, cancelLogged, cancelBatch, cancelJob, pause, leftover, crashes, faults,
                    driver, req>>
    BY <1>20 DEF Rot
  <2> QED
    BY <2>1, <2>2, <2>3, <2>4 DEF RestOK
<1>16. CASE UNCHANGED vars
  BY <1>16 DEF vars, RestOK
<1>21. CASE WriterStep
  BY <1>3, <1>4, <1>5, <1>6, <1>7, <1>8, <1>9, <1>10, <1>11, <1>17, <1>21, ManifestRest,
     FailedAppendInv
     DEF WriterStep, ResumeStep, AcknowledgeStep, JobStep
<1> QED
  BY <1>13, <1>14, <1>15, <1>16, <1>18, <1>19, <1>20, <1>21 DEF Next

-----------------------------------------------------------------------------
(* The theorems                                                             *)

\* What every reachable state satisfies.
IInv == Inv /\ RestOK

\* Nothing is in the journal, and the writer is about to create the batch.
LEMMA InitIInv == Init => IInv
<1> SUFFICES ASSUME Init PROVE IInv
  OBVIOUS
<1>1. PICK p \in Profiles : batch = [j \in Jobs |-> [NewJob(p) EXCEPT !.state = "absent"]]
  BY DEF Init
<1> DEFINE absent == [NewJob(p) EXCEPT !.state = "absent"]
<1>2. /\ Recorded(absent) /\ absent \in JobRecord /\ absent.profile = p /\ absent.state = "absent"
      /\ \A s \in Stages : absent.attempt[s] = 0
  BY NewJobRecorded DEF Recorded, NewJob
<1> HIDE DEF absent
<1>3. \A j \in Jobs : batch[j] = absent
  BY <1>1 DEF absent
<1>4. batch \in [Jobs -> JobRecord] /\ Existing = {}
  BY <1>1, <1>2, <1>3 DEF Existing, absent
<1>5. JournalOK
  BY <1>2, <1>3, <1>4 DEF JournalOK, Init
<1>6. /\ w \in Writers /\ w.pc = "open" /\ w.ret = "idle" /\ w.job = 0
  <2>1. 0 \in 0 .. NJobs + 1
    BY ServiceAssumption
  <2>2. w = [pc |-> "open", op |-> "create", ret |-> "idle", job |-> 0, stage |-> 0, skip |-> {},
             seen |-> FALSE, whole |-> FALSE, targets |-> {}, todo |-> {}, error |-> "none"]
    BY DEF Init, Idle
  <2>3. w.todo = {}
    BY <2>2
  <2> QED
    BY <2>1, <2>2, <2>3 DEF Writers, Labels
<1>7. CreateKnows /\ LoopsKnow /\ StageKnows
  BY <1>2, <1>3, <1>6 DEF Init, CreateKnows, LoopsKnow, StageKnows, At, BeforeLoop, Acknowledging,
     OnJob, OnStage, ToStart, Attempting
<1>8. RoomLeft
  BY <1>2, <1>3, <1>6 DEF Init, RoomLeft, At, Fresh, AllFresh, ToStart, Attempting, Acknowledging
<1>9. QueueOK
  BY ServiceAssumption DEF Init, QueueOK, NotQueued
<1>10. NoRequest \in Requests
  BY DEF NoRequest, Requests
<1>11. RestOK
  <2>1. 0 \in 0..MaxCrash /\ 0 \in 0..MaxFault /\ 0 \in 0..MaxRot
    BY ServiceAssumption
  <2> QED
    BY <1>10, <2>1 DEF Init, RestOK
<1> QED
  BY <1>5, <1>6, <1>7, <1>8, <1>9, <1>11 DEF IInv, Inv

\* Every step keeps the invariant and is a step of the journal: an event replay
\* accepts in the state the journal is in, or none.
LEMMA StepIInv ==
    ASSUME IInv, [Next]_vars
    PROVE  IInv' /\ (Replayed!Next \/ UNCHANGED <<opened, batch>>)
<1>1. Inv /\ RestOK
  BY DEF IInv
<1> SUFFICES Inv' /\ (Replayed!Next \/ UNCHANGED <<opened, batch>>)
  BY <1>1, RestInv DEF IInv
<1>2. CASE CreateBatch \/ CreateJob \/ CreateManifest \/ RetryManifest
  BY <1>1, <1>2, CreateBatchInv, CreateJobInv, CreateManifestInv, ResumeReadsInv
     DEF Accepted, RetryManifest, WriteManifest, journal
<1>3. CASE ResumeStep
  <2>1. ASSUME NEW p \in Profiles, NEW boundary \in Stages, UpdateConfig(p, boundary)
        PROVE  Inv' /\ Replayed!Next
    BY <1>1, <2>1, UpdateConfigInv DEF Accepted
  <2>2. CASE InterruptAttempt \/ InvalidateDamaged
    BY <1>1, <2>2, ResumeEventsInv DEF Accepted
  <2>3. CASE \/ ConfigManifest \/ Reconcile \/ InterruptManifest \/ Verify \/ InvalidateManifest
             \/ RemoveWorkspaces \/ ClearPause
    BY <1>1, <2>3, ResumeReadsInv
       DEF ConfigManifest, Reconcile, InterruptManifest, Verify, InvalidateManifest,
           RemoveWorkspaces,
           ClearPause, WriteManifest, ReadOnly, journal
  <2> QED
    BY <1>3, <2>1, <2>2, <2>3 DEF ResumeStep
<1>4. CASE AcknowledgeStep
  <2>1. ASSUME NEW j \in Jobs, CancelTarget(j) \/ \E s \in Stages : CancelAttempt(j, s)
        PROVE  Inv' /\ (Replayed!Next \/ UNCHANGED <<opened, batch>>)
    BY <1>1, <2>1, AcknowledgeEventsInv DEF Still
  <2>2. CASE \/ Acknowledge \/ AcknowledgeManifest \/ ClearBatchMarker \/ ClearPauseMarker
             \/ Acknowledged \/ \E j \in Jobs : ClearJobMarker(j)
    BY <1>1, <2>2, AcknowledgeReadsInv
       DEF Acknowledge, AcknowledgeManifest, ClearBatchMarker, ClearPauseMarker, Acknowledged,
           ClearJobMarker, WriteManifest, ReadOnly, journal
  <2> QED
    BY <1>4, <2>1, <2>2 DEF AcknowledgeStep
<1>5. CASE RunStep
  BY <1>1, <1>5, RunStepInv
     DEF RunStep, Run, RunAcknowledged, NextJob, NextJobPause, AfterJob, AfterJobPause, ReadOnly,
         journal
<1>6. CASE JobStep
  <2>1. CASE InvalidateStage \/ CommitStage \/ FailStage \/ FailJob \/ CancelStage \/ CancelJob
    BY <1>1, <2>1, JobEventsInv DEF Accepted
  <2>2. CASE StartStage \/ Caught \/ Succeed
    BY <1>1, <2>2, StartStageInv, JobEndsInv DEF Still
  <2>3. CASE \/ CheckCancel \/ EnterStage \/ MakeWorkspace \/ StartManifest \/ ExecuteStage
             \/ CommitManifest \/ FailManifest \/ CancelManifest \/ CaughtManifest \/ JobCancelled
             \/ SucceedManifest \/ ClearMarker
    BY <1>1, <2>3, JobReadsInv
       DEF CheckCancel, EnterStage, MakeWorkspace, StartManifest, ExecuteStage, CommitManifest,
           FailManifest, CancelManifest, CaughtManifest, JobCancelled, SucceedManifest, ClearMarker,
           WriteManifest, ReadOnly, journal
  <2> QED
    BY <1>6, <2>1, <2>2, <2>3 DEF JobStep
<1>7. CASE Execute \/ StartResume
  BY <1>1, <1>7, ExecuteInv, StartResumeInv
<1>8. ASSUME NEW j \in Jobs, NEW s \in Stages, StartRetry(j, s)
      PROVE  Inv' /\ (Replayed!Next \/ UNCHANGED <<opened, batch>>)
  BY <1>1, <1>8, StartRetryInv
<1>9. CASE \/ RequestStep \/ RequestPause \/ Crash
           \/ \E j \in Jobs \union {0} : RequestCancel(j)
           \/ \E j \in Jobs, s \in Stages : Rot(j, s)
  BY <1>1, <1>9, OutsideInv
<1>10. CASE UNCHANGED vars
  <2>1. QueueOK'
    BY <1>1, <1>10 DEF vars, journal, env, Inv, QueueOK, Existing
  <2>2. queued' # NotQueued => AllFresh /\ Ending
    BY <1>1, <1>10 DEF vars, env, Inv, RoomLeft
  <2> QED
    BY <1>1, <1>10, <2>1, <2>2, OthersInv DEF vars, journal
<1>11. CASE AppendFails
  BY <1>1, <1>11, FailedAppendInv DEF Still
<1> QED
  BY <1>2, <1>3, <1>4, <1>5, <1>6, <1>7, <1>8, <1>9, <1>10, <1>11 DEF Next, WriterStep

\* The invariant holds throughout.
LEMMA Invariant == Spec => []IInv
<1>1. IInv /\ [Next]_vars => IInv'
  BY StepIInv
<1> QED
  BY InitIInv, <1>1, PTL DEF Spec

\* The variables, and the local variables of the writer, keep their types.
THEOREM Typed == Spec => []TypeOK
<1>1. IInv => TypeOK
  <2> SUFFICES ASSUME IInv PROVE TypeOK
    OBVIOUS
  <2>1. w \in Writers /\ JournalOK /\ QueueOK /\ RestOK
    BY DEF IInv, Inv
  <2>2. /\ w.pc \in Labels /\ w.ret \in Labels /\ w.job \in 0..NJobs + 1
        /\ w.stage \in Stages \union {0} /\ w.error \in {"none", "error", "cancelled", "post-commit"}
        /\ w.skip \subseteq Jobs /\ w.targets \subseteq Jobs
    BY <2>1 DEF Writers, Labels
  <2>3. w.seen \in BOOLEAN /\ w.whole \in BOOLEAN /\ opened \in BOOLEAN
    BY <2>1, Zenon DEF Writers, JournalOK
  <2>4. {opened, projected, cancelBatch, pause, w.seen, w.whole} \subseteq BOOLEAN
    BY <2>1, <2>3, Zenon DEF RestOK
  <2> QED
    BY <2>1, <2>2, <2>4 DEF TypeOK, JournalOK, RestOK, QueueOK
<1> QED
  BY Invariant, <1>1, PTL

\* A stage is committed only on top of committed stages, whatever crashes,
\* retries, invalidations and new profiles there were: _run_job, resume, retry.
THEOREM CommittedInOrder == Spec => []CommittedPrefix
<1>1. IInv => CommittedPrefix
  BY DEF IInv, Inv, JournalOK, Recorded, Prefix, CommittedPrefix, Existing
<1> QED
  BY Invariant, <1>1, PTL

\* The service implements the journal: every event it appends is one replay
\* accepts, in the state the journal is then in.
THEOREM EventsAccepted == Spec => ImplementsJournal
<1>1. Init => Replayed!Init
  BY DEF Init, Replayed!Init, Replayed!NoJob, Replayed!NewJob, NewJob
<1>2. IInv /\ [Next]_vars => [Replayed!Next]_Replayed!vars
  BY StepIInv DEF Replayed!vars
<1> QED
  BY Invariant, <1>1, <1>2, PTL DEF Spec, ImplementsJournal, Replayed!Spec

-----------------------------------------------------------------------------
(* What the writer knows of verdicts, markers and the manifest              *)

\* The loop over the jobs runs none that has failed: those that had are
\* skipped, and it ends with the first that does.  _run_job
InLoop == w.pc \in OnJob \union {"job"} \/ w.ret = "cancelled"
JustFailed ==
    w.pc \in {"fail-job", "failed", "caught-manifest"} \/ (At("caught") /\ w.error # "cancelled")
VerdictsKnown ==
    /\ InLoop => \A k \in Existing :
          batch[k].state = "failed" => k \in w.skip \/ k < w.job \/ (k = w.job /\ JustFailed)
    /\ w.pc \in OnJob \/ w.ret = "cancelled" => w.job \notin w.skip
    /\ w.pc \in Attempting => Current.state = "running"

\* A target that acknowledge_cancel_requests is done with.
Settled(j) ==
    /\ batch[j].state \in Terminal /\ \A s \in Stages : batch[j].stage[s] # "running"
    /\ batch[j].state = "cancelled" => j \in cancelLogged

\* Markers are cleared for what was done before the manifest was written.
Unmarking == {"unmark", "unmark-pause", "unmark-jobs"}
MarkersKnown ==
    /\ w.pc \in {"closing"} \union Unmarking => w.targets \subseteq Existing
    /\ At("closing") => \A j \in w.targets \ w.todo : Settled(j)
    /\ w.pc \in Unmarking => projected /\ \A j \in w.targets : Settled(j)
    /\ w.pc \in {"closing", "unmark"} /\ w.whole => w.targets = Existing
    /\ w.pc \in {"succeeded", "clear-marker"} => Current.state = "succeeded"
    /\ At("clear-marker") => projected

\* A workspace that a crash left behind belongs to a stage that is not
\* committed; none is left where an attempt runs.
LeftoverOpen ==
    /\ \A js \in leftover : batch[js[1]].stage[js[2]] # "committed"
    /\ w.pc \in Attempting => <<w.job, w.stage>> \notin leftover

\* A cancel that the GUI finalizes itself: its marker stays until the command
\* that acknowledges it has begun.  That command does nothing else, and while
\* it is awaited no other has the lease or is queued.
Requested == req.step \in {"cancel", "drop-pause", "marked"} /\ Gui /\ ~req.scheduled
Marked == cancelBatch \/ cancelJob \intersect Existing # {}
RequestKnown ==
    /\ w.op = "none" => At("idle")
    /\ w.op = "cancel" => w.pc \in Acknowledging /\ w.ret = "idle"
    /\ w.op = "create" /\ Gui => w.pc \in {"open", "create"}
    /\ queued.op = "execute" => At("idle")
    /\ req.step \in {"drop-pause", "marked"} => Gui
    /\ Requested => /\ At("idle") /\ queued = NotQueued /\ Existing # {}
                    /\ req.job \in Existing \union {0}
                    /\ req.step # "cancel" => IF req.job = 0 THEN cancelBatch
                                              ELSE req.job \in cancelJob
    /\ At("acknowledge") /\ w.op = "cancel" => Existing # {} /\ Marked

\* Where the manifest shows the whole journal until something fails.
Shown == {"run", "run-acknowledged", "workspaces", "unpause", "job", "job-pause", "stage",
          "stage-pause", "invalidate-stage", "execute", "cancelled", "succeed", "after-job",
          "after-job-pause", "clear-marker"}
ManifestKnown ==
    /\ w.pc \in Shown \union Unmarking => projected
    /\ At("workspace") =>
          projected \/ (Current.state = "pending" /\ <<w.job, w.stage>> \notin leftover)
    /\ At("start") => projected \/ Current.state = "pending"
    /\ At("acknowledge") =>
          projected \/ w.ret = "cancelled" \/ (w.ret = "idle" /\ w.op = "cancel")
    /\ At("caught") =>
          \/ projected \/ w.error \in {"cancelled", "post-commit"}
          \/ w.error = "error" /\ Current.state = "pending"
    /\ queued.op = "execute" => projected
ManifestFollows == faults = 0 => ManifestKnown

-----------------------------------------------------------------------------
(* Verdicts: nothing but a retry takes a job out of one                     *)

\* One event is appended about a job, and nothing changes about the others.
LEMMA Appended ==
    ASSUME JournalOK, NEW j \in Existing, NEW r, r.state # "absent", Append(j, r)
    PROVE  /\ \A k \in Jobs : batch'[k] = IF k = j THEN r ELSE batch[k]
           /\ Existing' = Existing /\ projected' = FALSE
BY DEF JournalOK, Append, Existing

\* The label changes, or the label and the error.
Kept ==
    /\ w'.op = w.op /\ w'.ret = w.ret /\ w'.job = w.job /\ w'.stage = w.stage /\ w'.skip = w.skip
    /\ w'.whole = w.whole /\ w'.targets = w.targets /\ w'.todo = w.todo

\* A step to another place keeps the writer's locals.
LEMMA GotoKeeps ==
    ASSUME w \in Writers, NEW pc, Goto(pc)
    PROVE  w'.pc = pc /\ w'.error = w.error /\ Kept
BY DEF Writers, Goto, Kept

\* So does an error, which goes to the handler.
LEMMA RaiseKeeps ==
    ASSUME w \in Writers, NEW error, Raise(error)
    PROVE  w'.pc = "caught" /\ w'.error = error /\ Kept
BY DEF Writers, Raise, Kept

\* The end of a command leaves the writer as it was before any.
LEMMA StopIdles ==
    ASSUME Stop
    PROVE  /\ w'.pc = "idle" /\ w'.op = "none" /\ w'.ret = "idle" /\ w'.job = 0 /\ w'.targets = {}
           /\ w'.whole = FALSE
BY DEF Stop, Idle

\* Where an append that fails leaves the writer.
LEMMA FailedAppendMoves ==
    ASSUME w \in Writers, AppendFails
    PROVE  /\ UNCHANGED <<journal, projected, markers, damaged, drifted, lost, env>>
           /\ faults' = faults + 1 /\ leftover' \subseteq leftover
           /\ \/ Stop
              \/ w.pc = "commit" /\ w'.pc = "fail" /\ w'.error = w.error /\ Kept
              \/ /\ w.pc \in {"invalidate-stage", "fail", "fail-job", "cancel", "cancel-job", "start"}
                 /\ w'.pc = "caught" /\ w'.error = "error" /\ Kept
BY GotoKeeps, RaiseKeeps DEF AppendFails, At

\* What is not the writer's: the other threads, the user and the environment.
\* It leaves the writer alone, or puts it at the beginning or the end of a
\* command, and retries a job at most.
Outside ==
    \/ RequestStep \/ Execute \/ StartResume
    \/ \E j \in Jobs, s \in Stages : StartRetry(j, s) \/ Rot(j, s)
    \/ \E j \in Jobs \union {0} : RequestCancel(j)
    \/ RequestPause \/ Crash \/ UNCHANGED vars

\* What happens outside the writer's loops: a command starts, or a retry is
\* recorded, or the writer stays.
LEMMA OutsideMoves ==
    ASSUME Outside
    PROVE  /\ leftover' = leftover /\ faults' = faults
           /\ \/ w' = w /\ UNCHANGED <<batch, cancelLogged, projected>>
              \/ /\ w'.pc \in {"run", "reconcile", "configure", "acknowledge", "retried", "idle"}
                 /\ w'.ret = "idle"
           /\ batch' = batch \/ \E j, s : Append(j, Retried(batch[j], s))
<1>1. CASE RequestStep \/ RequestPause
  BY <1>1 DEF RequestStep, MarkCancel, DropPause, FinalizeCancel, MarkPause, RequestPause, Idle,
     journal, files
<1>2. CASE Crash \/ UNCHANGED vars \/ \E j \in Jobs \union {0} : RequestCancel(j)
  BY <1>2 DEF Crash, vars, RequestCancel, Idle, journal, files
<1>3. CASE Execute \/ StartResume
  BY <1>3 DEF Execute, StartResume, BeginResume, BeginRetry, Idle, journal, files
<1>4. CASE \E j \in Jobs, s \in Stages : StartRetry(j, s) \/ Rot(j, s)
  BY <1>4 DEF StartRetry, Rot, BeginRetry, Idle, journal, files
<1> QED
  BY <1>1, <1>2, <1>3, <1>4 DEF Outside

\* Outside the loop there is nothing to know.
LEMMA NoLoopVerdicts ==
    ASSUME w'.pc \notin OnJob \union {"job"}, w'.ret # "cancelled"
    PROVE  VerdictsKnown'
BY DEF VerdictsKnown, InLoop, OnJob, OnStage, Attempting, ToStart

\* The next place in the loop over the stages: nothing has happened to jobs.
LEMMA InLoopVerdicts ==
    ASSUME VerdictsKnown, batch' = batch, w.pc \in OnJob, w'.pc \in OnJob,
           w'.job = w.job, w'.skip = w.skip, JustFailed => JustFailed',
           w'.pc \in Attempting => w.pc \in Attempting
    PROVE  VerdictsKnown'
BY DEF VerdictsKnown, InLoop, Existing, Current

\* The next job: the one before has not failed.
LEMMA OnwardVerdicts ==
    ASSUME VerdictsKnown, Existing \subseteq Nat, w.job \in Nat, batch' = batch,
           w.pc \in OnJob \union {"job"}, w'.pc = "job",
           w'.job = w.job + 1, w'.skip = w.skip, w'.ret = "idle", ~JustFailed,
           w.pc = "job" => w.job \in w.skip
    PROVE  VerdictsKnown'
BY DEF VerdictsKnown, InLoop, Existing, JustFailed, At, OnJob, OnStage, Attempting, ToStart

\* The loop over the jobs: what it passes by it skips, or it has a verdict.
LEMMA LoopVerdicts ==
    ASSUME IInv, VerdictsKnown, RunStep
    PROVE  VerdictsKnown'
<1>1. w \in Writers /\ batch' = batch /\ LoopsKnow
  BY DEF IInv, Inv, RunStep, Run, RunAcknowledged, NextJob, NextJobPause, AfterJob, AfterJobPause,
     ReadOnly,
     journal
<1>2. w.job \in Nat /\ Existing \subseteq Nat
  BY <1>1, ServiceAssumption DEF Writers, Existing
<1>3. w.ret = "idle"
  BY <1>1 DEF LoopsKnow, RunStep, Run, RunAcknowledged, NextJob, NextJobPause, AfterJob,
     AfterJobPause, At,
     Acknowledging
<1>4. CASE Stop \/ CallAcknowledge("idle")
  <2>1. w'.pc \in {"idle", "acknowledge"} /\ w'.ret # "cancelled"
    BY <1>4, <1>1, StopIdles DEF CallAcknowledge, Writers
  <2> QED
    BY <2>1, NoLoopVerdicts DEF OnJob, OnStage, Attempting, ToStart
<1>5. CASE EnterLoop
  <2> DEFINE skip == {j \in Existing : batch[j].state \in {"cancelled", "failed"}}
  <2>1. w'.pc = "job" /\ w'.skip = skip /\ w'.ret = w.ret
    BY <1>1, <1>5 DEF EnterLoop, Writers
  <2> QED
    BY <1>1, <1>3, <2>1 DEF VerdictsKnown, InLoop, Existing, OnJob, OnStage, ToStart, Attempting
<1>6. CASE Run
  <2>1. CASE w' = [w EXCEPT !.pc = "acknowledge", !.ret = "run-acknowledged", !.seen = cancelBatch]
    <3>1. w'.pc = "acknowledge" /\ w'.ret = "run-acknowledged"
      BY <1>1, <2>1 DEF Writers
    <3> QED
      BY <3>1, NoLoopVerdicts DEF OnJob, OnStage, Attempting, ToStart
  <2> QED
    BY <1>5, <1>6, <2>1 DEF Run
<1>7. CASE NextJob
  <2>1. CASE w.job \in w.skip /\ w' = [w EXCEPT !.job = @ + 1]
    <3>1. w.pc = "job" /\ w'.pc = "job" /\ w'.job = w.job + 1 /\ w'.skip = w.skip /\ w'.ret = w.ret
      BY <1>1, <1>7, <2>1 DEF NextJob, At, Writers
    <3> QED
      BY <1>1, <1>2, <1>3, <2>1, <3>1, OnwardVerdicts DEF JustFailed, At
  <2>2. CASE w.job \in Existing /\ w.job \notin w.skip /\ Goto("job-pause")
    <3>1. w.pc = "job" /\ w'.pc = "job-pause" /\ Kept
      BY <1>1, <1>7, <2>2, GotoKeeps DEF NextJob, At
    <3> QED
      BY <1>1, <2>2, <3>1 DEF VerdictsKnown, InLoop, Existing, JustFailed, At, Kept, OnJob,
         OnStage, ToStart, Attempting
  <2> QED
    BY <1>4, <1>7, <2>1, <2>2 DEF NextJob
<1>8. CASE NextJobPause \/ AfterJob
  <2>1. CASE w' = [w EXCEPT !.pc = "stage", !.stage = NextStage(w.job, 0)] \/ Goto("after-job-pause")
    <3>1. w.pc \in {"job-pause", "after-job"} /\ w'.pc \in {"stage", "after-job-pause"}
           /\ w'.job = w.job /\ w'.skip = w.skip
      BY <1>1, <1>8, <2>1, GotoKeeps DEF NextJobPause, AfterJob, At, Kept, Writers
    <3> QED
      BY <1>1, <3>1, InLoopVerdicts DEF JustFailed, At, OnJob, OnStage, ToStart, Attempting
  <2> QED
    BY <1>4, <1>8, <2>1 DEF NextJobPause, AfterJob
<1>9. CASE AfterJobPause
  <2>1. CASE w' = [w EXCEPT !.pc = "job", !.job = @ + 1, !.stage = 0]
    <3>1. w.pc = "after-job-pause" /\ w'.pc = "job" /\ w'.job = w.job + 1 /\ w'.skip = w.skip
           /\ w'.ret = w.ret
      BY <1>1, <1>9, <2>1 DEF AfterJobPause, At, Writers
    <3> QED
      BY <1>1, <1>2, <1>3, <3>1, OnwardVerdicts DEF JustFailed, At, OnJob
  <2> QED
    BY <1>4, <1>9, <2>1 DEF AfterJobPause
<1> QED
  BY <1>4, <1>5, <1>6, <1>7, <1>8, <1>9 DEF RunStep, RunAcknowledged

\* The steps of a job that append nothing.
LEMMA QuietVerdicts ==
    ASSUME IInv, VerdictsKnown,
           \/ CheckCancel \/ EnterStage \/ MakeWorkspace \/ StartManifest \/ ExecuteStage
           \/ CommitManifest \/ FailManifest \/ CancelManifest \/ CaughtManifest \/ JobCancelled
           \/ SucceedManifest \/ ClearMarker
    PROVE  VerdictsKnown'
<1>1. w \in Writers /\ batch' = batch /\ LoopsKnow
  BY DEF IInv, Inv, CheckCancel, EnterStage, MakeWorkspace, StartManifest, ExecuteStage,
     CommitManifest,
     FailManifest, CancelManifest, CaughtManifest, JobCancelled, SucceedManifest, ClearMarker,
     WriteManifest, ReadOnly, journal
<1>2. w.job \in Nat /\ Existing \subseteq Nat
  BY <1>1, ServiceAssumption DEF Writers, Existing
<1>3. CASE Stop
  BY <1>3, NoLoopVerdicts, StopIdles DEF OnJob, OnStage, Attempting, ToStart
<1>4. ASSUME NEW pc, w.pc \in OnJob, pc # "caught", Goto(pc),
             <<w.pc, pc>> \in Onward \union {<<"stage", "stage-pause">>,
                                            <<"stage-pause", "workspace">>,
                                            <<"stage-pause", "invalidate-stage">>}
      PROVE  VerdictsKnown'
  <2>1. w'.pc = pc /\ w'.job = w.job /\ w'.skip = w.skip /\ w'.error = w.error
    BY <1>1, <1>4, GotoKeeps DEF Kept
  <2>2. w'.pc \in OnJob /\ (w'.pc \in Attempting => w.pc \in Attempting) /\ (JustFailed => JustFailed')
    BY <1>4, <2>1 DEF Onward, OnJob, OnStage, ToStart, Attempting, JustFailed, At
  <2> QED
    BY <1>1, <1>4, <2>1, <2>2, InLoopVerdicts
<1>5. ASSUME NEW error, Raise(error), w.pc \in OnJob, error = "cancelled" => ~JustFailed
      PROVE VerdictsKnown'
  <2>1. w'.pc = "caught" /\ w'.job = w.job /\ w'.skip = w.skip /\ w'.error = error
    BY <1>1, <1>5, RaiseKeeps DEF Kept
  <2>2. w'.pc \in OnJob /\ w'.pc \notin Attempting /\ (JustFailed => JustFailed')
    BY <1>5, <2>1 DEF OnJob, Attempting, JustFailed, At
  <2> QED
    BY <1>1, <1>5, <2>1, <2>2, InLoopVerdicts
<1>6. ASSUME NEW t, w' = [w EXCEPT !.pc = "stage", !.stage = t], w.pc \in OnJob, ~JustFailed
      PROVE VerdictsKnown'
  <2>1. w'.pc = "stage" /\ w'.job = w.job /\ w'.skip = w.skip
    BY <1>1, <1>6 DEF Writers
  <2>2. w'.pc \in OnJob /\ w'.pc \notin Attempting
    BY <2>1 DEF OnJob, Attempting
  <2> QED
    BY <1>1, <1>6, <2>1, <2>2, InLoopVerdicts
<1>7. CASE CheckCancel \/ MakeWorkspace \/ StartManifest \/ ExecuteStage
  BY <1>3, <1>4, <1>5, <1>7 DEF CheckCancel, MakeWorkspace, StartManifest, ExecuteStage,
     WriteManifest, At, Onward,
     OnJob, OnStage, ToStart, Attempting, JustFailed
<1>8. CASE FailManifest \/ CancelManifest \/ CaughtManifest \/ SucceedManifest \/ ClearMarker
  BY <1>3, <1>4, <1>5, <1>8 DEF FailManifest, CancelManifest, CaughtManifest, SucceedManifest,
     ClearMarker, WriteManifest, At, Onward,
     OnJob, OnStage, ToStart, Attempting, JustFailed
<1>9. CASE EnterStage \/ CommitManifest
  BY <1>4, <1>5, <1>6, <1>9 DEF EnterStage, CommitManifest, WriteManifest, At, Onward,
     OnJob, OnStage, ToStart, Attempting, JustFailed
<1>10. CASE JobCancelled
  <2>1. CASE w' = [w EXCEPT !.pc = "job", !.job = @ + 1, !.stage = 0, !.error = "none", !.seen = FALSE]
    <3>1. w.pc = "cancelled" /\ w'.pc = "job" /\ w'.job = w.job + 1 /\ w'.skip = w.skip
           /\ w'.ret = w.ret
      BY <1>1, <1>10, <2>1 DEF JobCancelled, At, Writers
    <3>2. w.ret = "idle"
      BY <1>1, <3>1 DEF LoopsKnow, Acknowledging
    <3> QED
      BY <1>1, <1>2, <3>1, <3>2, OnwardVerdicts DEF JustFailed, At, OnJob
  <2> QED
    BY <1>3, <1>10, <2>1 DEF JobCancelled
<1> QED
  BY <1>7, <1>8, <1>9, <1>10

\* An event about the job of the loop.
LEMMA EventVerdicts ==
    ASSUME JournalOK, VerdictsKnown, w.pc \in OnJob, w.job \in Existing, NEW r, Append(w.job, r),
           r.state # "absent", w'.pc \in OnJob, w'.job = w.job, w'.skip = w.skip,
           r.state = "failed" => JustFailed', w'.pc \in Attempting => r.state = "running"
    PROVE  VerdictsKnown'
<1>1. /\ \A k \in Jobs : batch'[k] = IF k = w.job THEN r ELSE batch[k]
      /\ Existing' = Existing /\ Existing \subseteq Jobs
  BY Appended DEF Existing
<1>2. Current' = r
  BY <1>1 DEF Current
<1>3. \A k \in Existing : batch'[k].state = "failed" =>
          k \in w'.skip \/ k < w'.job \/ (k = w'.job /\ JustFailed')
  <2> SUFFICES ASSUME NEW k \in Existing, batch'[k].state = "failed", k # w.job
               PROVE  k \in w.skip \/ k < w.job
    BY <1>1
  <2> QED
    BY <1>1 DEF VerdictsKnown, InLoop
<1> QED
  BY <1>1, <1>2, <1>3 DEF VerdictsKnown

\* The events of a job: it fails only where the loop ends.
LEMMA EventsVerdicts ==
    ASSUME IInv, VerdictsKnown,
           \/ InvalidateStage \/ StartStage \/ CommitStage \/ FailStage \/ FailJob
           \/ CancelStage \/ CancelJob \/ Caught \/ Succeed
    PROVE  VerdictsKnown'
<1>1. w \in Writers /\ JournalOK /\ LoopsKnow /\ w.pc \in OnJob
  BY DEF IInv, Inv, InvalidateStage, StartStage, CommitStage, FailStage, FailJob, CancelStage,
     CancelJob, Caught, Succeed, At,
     OnJob, OnStage, ToStart, Attempting
<1>2. w.job \in Existing /\ Current \in JobRecord
  BY <1>1 DEF IInv, Inv, StageKnows, JournalOK, Existing, Current
<1>3. ASSUME NEW s, NEW n, NEW state
      PROVE  /\ Invalidated(Current, s).state = "pending"
             /\ Started(Current, s, n).state = "running"
             /\ Ended(Current, state).state = state
             /\ Closed(Current, s, state).state = IF state = "committed" THEN "running" ELSE state
  BY <1>2 DEF Invalidated, Started, Ended, Closed, JobRecord
<1>4. ASSUME NEW r, r.state # "absent", Append(w.job, r), NEW pc \in OnJob, Goto(pc), pc # "caught",
             r.state = "failed" => pc \in {"fail-job", "failed", "caught-manifest"},
             pc \in Attempting => r.state = "running"
      PROVE VerdictsKnown'
  <2>1. w'.pc = pc /\ w'.job = w.job /\ w'.skip = w.skip
    BY <1>1, <1>4, GotoKeeps DEF Kept
  <2> QED
    BY <1>1, <1>2, <1>4, <2>1, EventVerdicts DEF JustFailed
<1>5. CASE InvalidateStage \/ CommitStage \/ FailStage \/ FailJob \/ CancelStage \/ CancelJob
  BY <1>3, <1>4, <1>5 DEF InvalidateStage, CommitStage, FailStage, FailJob, CancelStage,
     CancelJob, Current,
     OnJob, OnStage, ToStart, Attempting
<1>6. ASSUME NEW error, Raise(error), batch' = batch, error = "cancelled" => ~JustFailed
      PROVE VerdictsKnown'
  <2>1. w'.pc = "caught" /\ w'.job = w.job /\ w'.skip = w.skip /\ w'.error = error
    BY <1>1, <1>6, RaiseKeeps DEF Kept
  <2>2. w'.pc \in OnJob /\ w'.pc \notin Attempting /\ (JustFailed => JustFailed')
    BY <1>6, <2>1 DEF OnJob, Attempting, JustFailed, At
  <2> QED
    BY <1>1, <1>6, <2>1, <2>2, InLoopVerdicts
<1>7. CASE Stop
  BY <1>7, NoLoopVerdicts, StopIdles DEF OnJob, OnStage, Attempting, ToStart
<1>8. CASE StartStage
  BY <1>3, <1>4, <1>6, <1>8 DEF StartStage, Current, At, JustFailed, OnJob, OnStage, ToStart,
     Attempting
<1>9. CASE Succeed
  <2>1. CASE Goto("after-job") /\ batch' = batch
    <3>1. w.pc = "succeed" /\ w'.pc = "after-job" /\ w'.job = w.job /\ w'.skip = w.skip
      BY <1>1, <1>9, <2>1, GotoKeeps DEF Kept, Succeed, At
    <3> QED
      BY <1>1, <2>1, <3>1, InLoopVerdicts DEF JustFailed, At, OnJob, Attempting
  <2> QED
    BY <1>3, <1>4, <1>6, <1>7, <1>9, <2>1 DEF Succeed, Current, At, JustFailed, OnJob, Attempting
<1>10. CASE Caught
  <2>1. CASE /\ w.error = "cancelled" /\ batch' = batch
             /\ w' = [w EXCEPT !.pc = "acknowledge", !.ret = "cancelled", !.seen = cancelBatch]
    <3>1. w'.pc = "acknowledge" /\ w'.job = w.job /\ w'.skip = w.skip
      BY <1>1, <2>1 DEF Writers
    <3>2. w.pc = "caught" /\ ~JustFailed
      BY <1>10, <2>1 DEF Caught, At, JustFailed
    <3> QED
      BY <1>1, <2>1, <3>1, <3>2 DEF VerdictsKnown, InLoop, Existing, OnJob, OnStage, ToStart,
         Attempting
  <2>2. CASE Append(w.job, Ended(batch[w.job], "failed")) /\ Goto("caught-manifest")
    BY <1>3, <1>4, <2>2 DEF Current, OnJob, Attempting
  <2> QED
    BY <1>7, <1>10, <2>1, <2>2 DEF Caught
<1> QED
  BY <1>5, <1>8, <1>9, <1>10

\* An append that fails takes a job out of no verdict, and its error fails it.
LEMMA FailedAppendVerdicts ==
    ASSUME IInv, VerdictsKnown, AppendFails
    PROVE  VerdictsKnown'
<1>1. w \in Writers
  BY DEF IInv, Inv
<1>2. CASE Stop
  BY <1>2, NoLoopVerdicts, StopIdles DEF OnJob, OnStage, Attempting, ToStart
<1>3. CASE ~Stop
  <2>1. batch' = batch /\ Kept /\ w.pc \in OnJob /\ w'.pc \in {"fail", "caught"}
         /\ (w'.pc = "fail" => w.pc = "commit") /\ (w'.pc = "caught" => w'.error = "error")
    BY <1>1, <1>3, FailedAppendMoves DEF OnJob, OnStage, ToStart, Attempting, journal
  <2>2. w'.pc \in OnJob /\ (w'.pc \in Attempting => w.pc \in Attempting) /\ (JustFailed => JustFailed')
    BY <2>1 DEF OnJob, OnStage, Attempting, JustFailed, At
  <2> QED
    BY <2>1, <2>2, InLoopVerdicts DEF Kept
<1> QED
  BY <1>2, <1>3

\* acknowledge_cancel_requests fails no job.
LEMMA AcknowledgeVerdicts ==
    ASSUME IInv, VerdictsKnown, AcknowledgeStep
    PROVE  VerdictsKnown'
<1>1. w \in Writers /\ JournalOK /\ LoopsKnow /\ w.pc \in Acknowledging
  BY DEF IInv, Inv, AcknowledgeStep, Acknowledge, CancelTarget, CancelAttempt,
     AcknowledgeManifest, ClearBatchMarker, ClearPauseMarker,
     ClearJobMarker, Acknowledged, At, Acknowledging
<1>2. w.pc \notin OnJob \union {"job"} /\ \A k \in Existing : k \in Jobs
  BY <1>1 DEF Acknowledging, OnJob, OnStage, ToStart, Attempting, Existing
<1>3. \A k \in Existing : k \in Jobs /\ batch[k] \in JobRecord
  BY <1>1 DEF JournalOK, Existing
<1>4. Existing' = Existing /\ \A k \in Existing : batch'[k].state = "failed"
       => batch[k].state = "failed"
  <2>1. ASSUME NEW j \in Existing, NEW r, Append(j, r), r.state = "cancelled"
        PROVE  Existing' = Existing /\ \A k \in Existing : batch'[k].state = "failed"
                => batch[k].state = "failed"
    BY <1>1, <1>3, <2>1, Appended
  <2>2. ASSUME NEW j \in Jobs, CancelTarget(j) \/ \E s \in Stages : CancelAttempt(j, s)
        PROVE  \/ batch' = batch
               \/ j \in Existing /\ \E r : Append(j, r) /\ r.state = "cancelled"
    <3>1. \A s : batch[j] \in JobRecord => Closed(batch[j], s, "cancelled").state = "cancelled"
           /\ Ended(batch[j], "cancelled").state = "cancelled"
      BY DEF Closed, Ended, JobRecord
    <3>2. batch[j] \in JobRecord
      BY <1>1 DEF JournalOK
    <3>3. CASE \E s \in Stages : CancelAttempt(j, s)
      BY <3>1, <3>2, <3>3 DEF CancelAttempt, Running
    <3>4. CASE CancelTarget(j)
      <4>1. batch' = batch \/ (Append(j, Ended(batch[j], "cancelled")) /\ batch[j].state # "absent")
        BY <3>4 DEF CancelTarget, CancelDue
      <4> DEFINE r == Ended(batch[j], "cancelled")
      <4>2. r.state = "cancelled"
        BY <3>2 DEF Ended, JobRecord
      <4>3. batch' = batch \/ (j \in Existing /\ Append(j, r))
        BY <4>1 DEF Existing
      <4> HIDE DEF r
      <4> QED
        BY <4>2, <4>3
    <3> QED
      BY <2>2, <3>3, <3>4
  <2>3. CASE batch' = batch
    BY <2>3 DEF Existing
  <2>4. \/ batch' = batch \/ \E j \in Jobs : CancelTarget(j) \/ \E s \in Stages : CancelAttempt(j, s)
    BY DEF AcknowledgeStep, Acknowledge, AcknowledgeManifest, ClearBatchMarker, ClearPauseMarker,
       ClearJobMarker, Acknowledged,
       ReadOnly, WriteManifest, journal
  <2> QED
    BY <2>1, <2>2, <2>3, <2>4
<1>5. \/ w'.ret = w.ret /\ w'.job = w.job /\ w'.skip = w.skip /\ w'.pc \in Acknowledging
      \/ Return \/ Stop
  <2>1. ASSUME NEW pc \in Acknowledging, Goto(pc)
        PROVE  w'.ret = w.ret /\ w'.job = w.job /\ w'.skip = w.skip /\ w'.pc \in Acknowledging
    BY <1>1, <2>1, GotoKeeps DEF Kept
  <2>2. CASE Acknowledge
    BY <1>1, <2>2 DEF Acknowledge, Writers, Acknowledging
  <2>3. CASE \E j \in Jobs : CancelTarget(j) \/ ClearJobMarker(j)
              \/ \E s \in Stages : CancelAttempt(j, s)
    BY <1>1, <2>3 DEF CancelTarget, ClearJobMarker, CancelAttempt, Writers, Acknowledging
  <2>4. CASE AcknowledgeManifest \/ ClearPauseMarker
    BY <2>1, <2>4 DEF AcknowledgeManifest, ClearPauseMarker, WriteManifest, Acknowledging
  <2>5. CASE ClearBatchMarker
    <3>1. Goto("unmark-pause") \/ Goto("unmark-jobs")
      BY <2>5 DEF ClearBatchMarker
    <3> QED
      BY <2>1, <3>1 DEF Acknowledging
  <2> QED
    BY <2>2, <2>3, <2>4, <2>5 DEF AcknowledgeStep, Acknowledged
<1>6. CASE Stop
  BY <1>6, NoLoopVerdicts, StopIdles DEF OnJob, OnStage, Attempting, ToStart
<1>7. CASE w'.ret = w.ret /\ w'.job = w.job /\ w'.skip = w.skip /\ w'.pc \in Acknowledging
  <2>1. w'.pc \notin OnJob \union {"job"} /\ ~JustFailed
    BY <1>2, <1>7 DEF Acknowledging, OnJob, OnStage, ToStart, Attempting, JustFailed, At
  <2>2. w'.pc \notin Attempting
    BY <2>1 DEF OnJob, OnStage
  <2> QED
    BY <1>2, <1>4, <1>7, <2>1, <2>2 DEF VerdictsKnown, InLoop
<1>8. CASE w.ret # "idle" /\ Return
  <2>1. w'.pc = w.ret /\ w'.ret = "idle" /\ w'.job = w.job /\ w'.skip = w.skip
    BY <1>1, <1>8 DEF Return, Writers
  <2>2. CASE w.ret = "cancelled"
    <3>1. ~JustFailed /\ w'.pc \notin Attempting
      BY <1>2, <2>1, <2>2 DEF JustFailed, At, OnJob, Attempting
    <3>2. w.job \notin w.skip
      BY <2>2 DEF VerdictsKnown
    <3> QED
      BY <1>2, <1>4, <2>1, <2>2, <3>1, <3>2 DEF VerdictsKnown, InLoop
  <2>3. CASE w.ret # "cancelled"
    <3>1. w.ret \in {"workspaces", "run-acknowledged"}
      BY <1>1, <1>8, <2>3 DEF Writers
    <3> QED
      BY <2>1, <3>1, NoLoopVerdicts DEF OnJob, OnStage, Attempting, ToStart
  <2> QED
    BY <2>2, <2>3
<1> QED
  BY <1>5, <1>6, <1>7, <1>8 DEF Return

\* Whatever happens outside the loop.
LEMMA BeforeLoopVerdicts ==
    ASSUME IInv, VerdictsKnown,
           \/ CreateBatch \/ CreateJob \/ CreateManifest \/ ResumeStep \/ RetryManifest
    PROVE  VerdictsKnown'
<1>1. w \in Writers /\ LoopsKnow /\ w.pc \in BeforeLoop \union {"retried"}
  BY DEF IInv, Inv, CreateBatch, CreateJob, CreateManifest, ResumeStep, UpdateConfig,
     ConfigManifest, Reconcile, InterruptAttempt,
     InterruptManifest, Verify, InvalidateDamaged, InvalidateManifest, RemoveWorkspaces,
     ClearPause, RetryManifest, At, BeforeLoop
<1>2. w.ret = "idle" /\ w.pc \notin OnJob \union {"job"}
  BY <1>1 DEF LoopsKnow, BeforeLoop, Acknowledging, OnJob, OnStage, ToStart, Attempting
<1>3. CASE Stop
  BY <1>3, NoLoopVerdicts, StopIdles DEF OnJob, OnStage, Attempting, ToStart
<1>4. ASSUME NEW pc \in BeforeLoop, Goto(pc) PROVE VerdictsKnown'
  <2>1. w'.pc = pc /\ w'.ret = "idle"
    BY <1>1, <1>2, <1>4, GotoKeeps DEF Kept
  <2> QED
    BY <1>4, <2>1, NoLoopVerdicts DEF BeforeLoop, OnJob, OnStage, ToStart, Attempting
<1>5. CASE w' = w
  BY <1>2, <1>5, NoLoopVerdicts
<1>6. CASE CreateBatch \/ CreateJob \/ CreateManifest
  BY <1>3, <1>4, <1>5, <1>6 DEF CreateBatch, CreateJob, CreateManifest, BeforeLoop
<1>7. CASE RetryManifest
  <2>1. CASE w' = [w EXCEPT !.pc = "run", !.job = 0]
    <3>1. w'.pc = "run" /\ w'.ret = "idle"
      BY <1>1, <1>2, <2>1 DEF Writers
    <3> QED
      BY <3>1, NoLoopVerdicts DEF OnJob, OnStage, ToStart, Attempting
  <2> QED
    BY <1>3, <1>7, <2>1 DEF RetryManifest, WriteManifest
<1>8. CASE \/ ConfigManifest \/ Reconcile \/ InterruptAttempt \/ InterruptManifest
               \/ RemoveWorkspaces \/ ClearPause
           \/ \E p \in Profiles, boundary \in Stages : UpdateConfig(p, boundary)
  BY <1>3, <1>4, <1>5, <1>8 DEF UpdateConfig, ConfigManifest, Reconcile, InterruptAttempt,
     InterruptManifest, RemoveWorkspaces, ClearPause, WriteManifest, BeforeLoop
<1>9. CASE Verify \/ InvalidateDamaged \/ InvalidateManifest
  <2> DEFINE there == \/ Stop
                      \/ w'.pc \in {"invalidate", "acknowledge"} /\ w'.ret \in {"idle", "workspaces"}
  <2> SUFFICES there
    BY <1>3, NoLoopVerdicts DEF OnJob, OnStage, ToStart, Attempting
  <2>1. CASE Verify
    <3>1. w'.pc = "invalidate" /\ w'.ret = w.ret
      BY <1>1, <2>1 DEF Verify, Writers
    <3> QED
      BY <1>2, <3>1
  <2>2. CASE InvalidateDamaged
    <3>1. w'.pc = w.pc /\ w'.ret = w.ret /\ w.pc = "invalidate"
      BY <1>1, <2>2 DEF InvalidateDamaged, At, Writers
    <3> QED
      BY <1>2, <3>1
  <2>3. CASE InvalidateManifest
    <3>1. ASSUME CallAcknowledge("workspaces")
          PROVE  w'.pc = "acknowledge" /\ w'.ret = "workspaces"
      BY <1>1, <3>1 DEF CallAcknowledge, Writers
    <3>2. Stop \/ CallAcknowledge("workspaces")
      BY <2>3 DEF InvalidateManifest, WriteManifest
    <3> QED
      BY <3>1, <3>2
  <2> QED
    BY <1>9, <2>1, <2>2, <2>3
<1> QED
  BY <1>6, <1>7, <1>8, <1>9 DEF ResumeStep

\* Nor do the others run a loop.
LEMMA OutsideVerdicts ==
    ASSUME VerdictsKnown, Outside
    PROVE  VerdictsKnown'
<1>1. CASE w' = w /\ batch' = batch
  BY <1>1 DEF VerdictsKnown, InLoop, JustFailed, At, Existing, Current
<1>2. CASE /\ w'.pc \in {"run", "reconcile", "configure", "acknowledge", "retried", "idle"}
           /\ w'.ret = "idle"
  BY <1>2, NoLoopVerdicts DEF OnJob, OnStage, ToStart, Attempting
<1> QED
  BY <1>1, <1>2, OutsideMoves

\* What is known of the verdicts holds throughout.
LEMMA VerdictsInvariant == Spec => []VerdictsKnown
<1>1. Init => VerdictsKnown
  <2> SUFFICES ASSUME Init PROVE VerdictsKnown
    OBVIOUS
  <2>1. w.pc = "open" /\ w.ret = "idle"
    BY DEF Init, Idle
  <2> QED
    BY <2>1 DEF VerdictsKnown, InLoop, OnJob, OnStage, ToStart, Attempting
<1>2. IInv /\ VerdictsKnown /\ [Next]_vars => VerdictsKnown'
  BY LoopVerdicts, QuietVerdicts, EventsVerdicts, AcknowledgeVerdicts, BeforeLoopVerdicts,
     FailedAppendVerdicts, OutsideVerdicts
     DEF Next, WriterStep, JobStep, Outside
<1> QED
  BY Invariant, <1>1, <1>2, PTL DEF Spec

\* The one step that takes a job out of its verdict is a retry of that job, but
\* for the exceptions RetryIsExplicit names.
Excepted(j) ==
    \/ w'.pc = "retried" /\ w'.job = j
    \/ At("invalidate")
    \/ At("interrupt") /\ \E s \in Stages : batch[j].stage[s] = "running"
    \/ w.pc \in {"start", "invalidate-stage", "succeed"} /\ w.job = j /\ batch[j].state = "cancelled"

\* A job leaves its verdict only in the cases that RetryIsExplicit names.
LEMMA LeavingVerdict ==
    ASSUME IInv, VerdictsKnown, [Next]_vars, NEW j \in Existing,
           batch[j].state \in {"failed", "cancelled"}, batch'[j].state \notin {"failed", "cancelled"}
    PROVE  Excepted(j)
<1>1. w \in Writers /\ JournalOK /\ batch \in [Jobs -> JobRecord] /\ j \in Jobs
       /\ batch[j] \in JobRecord
  BY DEF IInv, Inv, JournalOK, Existing
<1>2. batch' # batch /\ \A k \in Existing : k \in Nat
  BY ServiceAssumption DEF Existing
<1>3. ASSUME NEW k \in Existing, NEW r, Append(k, r), r.state # "absent"
      PROVE  k = j /\ r.state \notin {"failed", "cancelled"}
  BY <1>1, <1>3, Appended
<1>4. ASSUME NEW k \in Existing, NEW s, NEW n, NEW state
      PROVE  /\ Invalidated(batch[k], s).state = "pending" /\ Retried(batch[k], s).state = "pending"
             /\ Started(batch[k], s, n).state = "running"
             /\ Ended(batch[k], state).state = state
             /\ Closed(batch[k], s, state).state = IF state = "committed" THEN "running" ELSE state
  <2>1. batch[k] \in JobRecord
    BY <1>1 DEF Existing
  <2> QED
    BY <2>1 DEF Invalidated, Retried, Started, Ended, Closed, JobRecord
<1>5. CASE CreateJob
  <2> DEFINE k == Least(Jobs \ Existing)
  <2>1. k \in Jobs \ Existing
    <3>1. Jobs \ Existing \subseteq Nat /\ Jobs \ Existing # {}
      BY <1>5, ServiceAssumption DEF CreateJob, Existing
    <3> QED
      BY <3>1, LeastIn
  <2>2. PICK r : batch' = [batch EXCEPT ![k] = r]
    BY <1>5 DEF CreateJob, Append
  <2> HIDE DEF k
  <2>3. batch'[j] = batch[j]
    BY <1>1, <2>1, <2>2
  <2> QED
    BY <2>3
<1>6. ASSUME NEW p \in Profiles, NEW boundary \in Stages, UpdateConfig(p, boundary) PROVE FALSE
  <2>1. batch'[j] = Reconfigured(batch[j], p, boundary)
    BY <1>1, <1>6 DEF UpdateConfig
  <2> QED
    BY <2>1 DEF Reconfigured
<1>7. CASE InterruptAttempt
  <2>1. PICK js \in Running : Append(js[1], Closed(batch[js[1]], js[2], "interrupted"))
    BY <1>7 DEF InterruptAttempt
  <2>2. js[1] \in Existing /\ js[2] \in Stages /\ batch[js[1]].stage[js[2]] = "running"
    BY <2>1 DEF Running
  <2>3. js[1] = j
    BY <1>3, <1>4, <2>1, <2>2
  <2> QED
    BY <1>7, <2>2, <2>3 DEF InterruptAttempt, Excepted
<1>8. CASE InvalidateDamaged
  BY <1>8 DEF InvalidateDamaged, Excepted
<1>9. ASSUME NEW k \in Existing, NEW s, BeginRetry(k, s) PROVE Excepted(j)
  <2>1. Append(k, Retried(batch[k], s))
         /\ w' = [Idle EXCEPT !.pc = "retried", !.op = "retry", !.job = k]
    BY <1>2, <1>9 DEF BeginRetry
  <2>2. w'.pc = "retried" /\ w'.job = k
    BY <2>1 DEF Idle
  <2> QED
    BY <1>3, <1>4, <1>9, <2>1, <2>2 DEF Excepted
<1>10. ASSUME NEW k \in Jobs, CancelTarget(k) \/ \E s \in Stages : CancelAttempt(k, s) PROVE FALSE
  <2>1. CASE \E s \in Stages : CancelAttempt(k, s)
    BY <1>3, <1>4, <2>1 DEF CancelAttempt, Running
  <2>2. CASE CancelTarget(k)
    <3>1. Append(k, Ended(batch[k], "cancelled")) /\ batch[k].state # "absent"
      BY <1>2, <2>2 DEF CancelTarget, CancelDue
    <3> QED
      BY <1>3, <1>4, <3>1 DEF Existing
  <2> QED
    BY <1>10, <2>1, <2>2
<1>11. ASSUME w.pc \in OnJob PROVE w.job \in Existing
  BY <1>11 DEF IInv, Inv, StageKnows
<1>12. ASSUME w.pc \in {"start", "invalidate-stage", "succeed", "commit"}, w.job = j
       PROVE  batch[j].state = "cancelled" /\ w.pc # "commit"
  BY <1>2, <1>12 DEF VerdictsKnown, InLoop, JustFailed, At, Current, OnJob, OnStage, ToStart,
     Attempting, IInv, Inv, JournalOK
<1>13. CASE StartStage \/ InvalidateStage \/ Succeed \/ CommitStage
  <2>1. w.pc \in {"start", "invalidate-stage", "succeed", "commit"} /\ w.job \in Existing
    BY <1>11, <1>13 DEF StartStage, InvalidateStage, Succeed, CommitStage, At, OnJob, OnStage,
       ToStart, Attempting
  <2>2. w.job = j
    BY <1>2, <1>3, <1>4, <1>13, <2>1 DEF StartStage, InvalidateStage, Succeed, CommitStage
  <2> QED
    BY <1>12, <2>1, <2>2 DEF Excepted
<1>14. CASE FailStage \/ FailJob \/ CancelStage \/ CancelJob \/ Caught
  <2>1. w.job \in Existing
    BY <1>11, <1>14 DEF FailStage, FailJob, CancelStage, CancelJob, Caught, At, OnJob, OnStage,
       ToStart, Attempting
  <2>2. CASE FailJob \/ CancelJob \/ Caught
    <3>1. Append(w.job, Ended(batch[w.job], "failed"))
           \/ Append(w.job, Ended(batch[w.job], "cancelled"))
      BY <1>2, <2>2 DEF FailJob, CancelJob, Caught
    <3> QED
      BY <1>3, <1>4, <2>1, <3>1
  <2>3. CASE FailStage \/ CancelStage
    <3>1. \/ Append(w.job, Closed(batch[w.job], w.stage, "failed"))
          \/ Append(w.job, Closed(batch[w.job], w.stage, "cancelled"))
      BY <2>3 DEF FailStage, CancelStage
    <3>2. \A state : Closed(batch[w.job], w.stage, state).state =
                        IF state = "committed" THEN "running" ELSE state
      BY <1>4, <2>1
    <3> QED
      BY <1>3, <2>1, <3>1, <3>2
  <2> QED
    BY <1>14, <2>2, <2>3
<1>15. CASE Execute
  <2>1. BeginRetry(queued.job, queued.stage) /\ queued.job \in Existing
    BY <1>2, <1>15 DEF Execute, IInv, Inv, QueueOK
  <2> QED
    BY <1>9, <2>1
<1>16. CASE \E k \in Jobs, s \in Stages : StartRetry(k, s) \/ Rot(k, s)
  BY <1>2, <1>9, <1>16 DEF StartRetry, Rot, journal
<1>17. CASE \/ RequestStep \/ StartResume \/ RequestPause \/ Crash \/ UNCHANGED vars
            \/ \E k \in Jobs \union {0} : RequestCancel(k)
  BY <1>2, <1>17 DEF RequestStep, MarkCancel, DropPause, FinalizeCancel, MarkPause, StartResume,
     RequestPause,
     Crash, RequestCancel, journal, vars
<1>18. CASE \/ CreateBatch \/ CreateManifest \/ RetryManifest \/ RunStep
            \/ ConfigManifest \/ Reconcile \/ InterruptManifest \/ Verify \/ InvalidateManifest
            \/ RemoveWorkspaces \/ ClearPause
  BY <1>2, <1>18 DEF CreateBatch, CreateManifest, RetryManifest, RunStep, Run, RunAcknowledged,
     NextJob, NextJobPause,
     AfterJob, AfterJobPause, ConfigManifest, Reconcile, InterruptManifest, Verify,
     InvalidateManifest,
     RemoveWorkspaces, ClearPause, WriteManifest, ReadOnly, journal
<1>19. CASE \/ Acknowledge \/ AcknowledgeManifest \/ ClearBatchMarker \/ ClearPauseMarker
                \/ Acknowledged
            \/ \E k \in Jobs : ClearJobMarker(k)
  BY <1>2, <1>19 DEF Acknowledge, AcknowledgeManifest, ClearBatchMarker, ClearPauseMarker,
     ClearJobMarker, Acknowledged,
     WriteManifest, ReadOnly, journal
<1>20. CASE \/ CheckCancel \/ EnterStage \/ MakeWorkspace \/ StartManifest \/ ExecuteStage
            \/ CommitManifest \/ FailManifest \/ CancelManifest \/ CaughtManifest \/ JobCancelled
            \/ SucceedManifest \/ ClearMarker
  BY <1>2, <1>20 DEF CheckCancel, EnterStage, MakeWorkspace, StartManifest, ExecuteStage,
     CommitManifest,
     FailManifest, CancelManifest, CaughtManifest, JobCancelled, SucceedManifest, ClearMarker,
     WriteManifest, ReadOnly, journal
<1>21. CASE AppendFails
  BY <1>2, <1>21 DEF AppendFails, journal
<1> QED
  BY <1>5, <1>6, <1>7, <1>8, <1>10, <1>13, <1>14, <1>15, <1>16, <1>17, <1>18, <1>19, <1>20, <1>21
     DEF Next, WriterStep, ResumeStep, AcknowledgeStep, JobStep

\* A job leaves its verdict by a retry of it; but for the named exceptions,
\* whatever faults, crashes and requests there are.
THEOREM RetriesAreExplicit == Spec => RetryIsExplicit
<1>1. IInv /\ VerdictsKnown /\ [Next]_vars
      => [\A j \in Existing :
            batch[j].state \in {"failed", "cancelled"}
              /\ batch'[j].state \notin {"failed", "cancelled"}
            => \/ w'.pc = "retried" /\ w'.job = j
               \/ At("invalidate")
               \/ At("interrupt") /\ \E s \in Stages : batch[j].stage[s] = "running"
               \/ w.pc \in {"start", "invalidate-stage", "succeed"} /\ w.job = j
                   /\ batch[j].state = "cancelled"]_vars
  BY LeavingVerdict DEF Excepted
<1> QED
  BY Invariant, VerdictsInvariant, <1>1, PTL DEF Spec, RetryIsExplicit

-----------------------------------------------------------------------------
(* Markers: a cancel request is dropped with what it asked for              *)

\* Where no acknowledgement and no success is under way, nothing is to know.
LEMMA NoMarkers ==
    ASSUME w'.pc \notin {"closing", "succeeded", "clear-marker"} \union Unmarking
    PROVE  MarkersKnown'
BY DEF MarkersKnown, Unmarking, At

\* acknowledge_cancel_requests, from its targets to its return.
LEMMA AcknowledgeMarkers ==
    ASSUME IInv, MarkersKnown, AcknowledgeStep
    PROVE  MarkersKnown'
<1>1. w \in Writers /\ JournalOK /\ LoopsKnow
  BY DEF IInv, Inv
<1>2. \A k \in Existing : k \in Jobs /\ batch[k] \in JobRecord
  BY <1>1 DEF JournalOK, Existing
<1>3. CASE Stop \/ Return
  <2>1. w'.pc \in {"idle", "workspaces", "run-acknowledged", "cancelled"}
    BY <1>1, <1>3, StopIdles DEF Return, Writers
  <2> QED
    BY <2>1, NoMarkers DEF Unmarking
<1>4. CASE Acknowledge
  <2> DEFINE active == IF w.ret = "cancelled" THEN {w.job} ELSE {}
             targets == IF cancelBatch THEN Existing ELSE active \union (cancelJob \intersect Existing)
  <2>1. CASE w' = [w EXCEPT !.pc = "closing", !.whole = cancelBatch, !.targets = targets,
                   !.todo = targets]
    <3>1. targets \subseteq Existing /\ (cancelBatch => targets = Existing)
      BY <1>1 DEF LoopsKnow
    <3> HIDE DEF targets
    <3>2. w'.pc = "closing" /\ w'.whole = cancelBatch /\ w'.targets = targets /\ w'.todo = targets
      BY <1>1, <2>1 DEF Writers
    <3>3. Existing' = Existing
      BY <1>4 DEF Acknowledge, ReadOnly, journal, Existing
    <3> QED
      BY <3>1, <3>2, <3>3 DEF MarkersKnown, Unmarking, At
  <2> QED
    BY <1>3, <1>4, <2>1 DEF Acknowledge
<1>5. ASSUME NEW j \in Jobs, NEW s \in Stages, CancelAttempt(j, s) PROVE MarkersKnown'
  <2> DEFINE r == Closed(batch[j], s, "cancelled")
  <2>1. /\ w.pc = "closing" /\ w' = w /\ j \in w.todo /\ j \in Existing /\ Append(j, r)
        /\ cancelLogged' = cancelLogged
    <3>1. w.pc = "closing" /\ w.todo \subseteq Nat /\ w.todo # {} /\ j = Least(w.todo)
      BY <1>1, <1>5, ServiceAssumption DEF CancelAttempt, LoopsKnow, At, Existing
    <3>2. j \in w.todo
      BY <3>1, LeastIn
    <3> QED
      BY <1>5, <3>1, <3>2 DEF CancelAttempt, Running
  <2>2. r.state # "absent"
    BY <1>2, <2>1 DEF Closed, JobRecord
  <2> HIDE DEF r
  <2>3. Existing' = Existing /\ \A k \in Existing : k # j => batch'[k] = batch[k]
    BY <1>1, <1>2, <2>1, <2>2, Appended
  <2> QED
    BY <2>1, <2>3 DEF MarkersKnown, Unmarking, At, Settled
<1>6. ASSUME NEW j \in Jobs, CancelTarget(j) PROVE MarkersKnown'
  <2> DEFINE r == Ended(batch[j], "cancelled")
  <2>1. /\ w.pc = "closing" /\ w'.pc = "closing" /\ w'.todo = w.todo \ {j} /\ w'.targets = w.targets
        /\ w'.whole = w.whole /\ j \in w.todo /\ j \in Existing
    <3>1. w.pc = "closing" /\ w.todo \subseteq Nat /\ w.todo # {} /\ j = Least(w.todo)
           /\ w.todo \subseteq Existing
      BY <1>1, <1>6, ServiceAssumption DEF CancelTarget, LoopsKnow, At, Existing
    <3>2. j \in w.todo
      BY <3>1, LeastIn
    <3>3. w' = [w EXCEPT !.todo = @ \ {j}]
      BY <1>6 DEF CancelTarget
    <3> QED
      BY <1>1, <3>1, <3>2, <3>3 DEF Writers
  <2>2. r.state = "cancelled" /\ r.stage = batch[j].stage
    BY <1>2, <2>1 DEF Ended, JobRecord
  <2>3. \A s \in Stages : batch[j].stage[s] # "running"
    BY <1>6, <2>1 DEF CancelTarget, Running
  <2>4. CASE Append(j, r) /\ cancelLogged' = cancelLogged \union {j}
    <3> HIDE DEF r
    <3>1. Existing' = Existing /\ \A k \in Existing : batch'[k] = IF k = j THEN r ELSE batch[k]
      BY <1>1, <1>2, <2>1, <2>2, <2>4, Appended
    <3>2. Settled(j)'
      BY <2>1, <2>2, <2>3, <2>4, <3>1 DEF Settled, Terminal
    <3>3. \A k \in Existing : k # j /\ Settled(k) => (Settled(k))'
      BY <2>4, <3>1 DEF Settled
    <3> QED
      BY <2>1, <3>1, <3>2, <3>3 DEF MarkersKnown, Unmarking, At
  <2>5. CASE /\ UNCHANGED <<batch, cancelLogged>>
             /\ \/ batch[j].state \in {"succeeded", "failed"}
                \/ batch[j].state = "cancelled" /\ j \in cancelLogged
    <3>1. Existing' = Existing /\ \A k \in Existing : Settled(k)' = Settled(k)
      BY <2>5 DEF Existing, Settled
    <3>2. Settled(j)
      BY <2>3, <2>5 DEF Settled, Terminal
    <3> QED
      BY <2>1, <3>1, <3>2 DEF MarkersKnown, Unmarking, At
  <2> QED
    <3>1. batch[j] \in JobRecord /\ batch[j].state # "absent"
      BY <1>2, <2>1 DEF Existing
    <3>2. CancelDue(j) \/ batch[j].state \in {"succeeded", "failed"}
           \/ (batch[j].state = "cancelled" /\ j \in cancelLogged)
      BY <3>1 DEF CancelDue, JobRecord, JobStates
    <3> QED
      BY <1>6, <2>4, <2>5, <3>2 DEF CancelTarget
<1>7. ASSUME w' # Idle, AcknowledgeManifest PROVE MarkersKnown'
  <2>1. Goto("unmark") /\ projected' = TRUE /\ UNCHANGED <<batch, cancelLogged>>
    BY <1>7 DEF AcknowledgeManifest, WriteManifest, Stop, journal
  <2>2. w.pc = "closing" /\ w.todo = {} /\ w'.pc = "unmark" /\ w'.targets = w.targets
         /\ w'.whole = w.whole
    BY <1>1, <1>7, <2>1, GotoKeeps DEF AcknowledgeManifest, At, Kept
  <2>3. Existing' = Existing /\ \A k \in Existing : Settled(k)' = Settled(k)
    BY <2>1 DEF Existing, Settled
  <2> QED
    BY <2>1, <2>2, <2>3 DEF MarkersKnown, Unmarking, At
<1>8. ASSUME NEW pc \in {"unmark-pause", "unmark-jobs"}, w.pc \in Unmarking, w'.pc = pc,
             w'.targets \subseteq w.targets, UNCHANGED <<batch, cancelLogged, projected>>
      PROVE  MarkersKnown'
  <2>1. Existing' = Existing /\ \A k \in Existing : Settled(k)' = Settled(k)
    BY <1>8 DEF Existing, Settled
  <2> QED
    BY <1>8, <2>1 DEF MarkersKnown, Unmarking, At
<1>9. CASE ClearBatchMarker \/ ClearPauseMarker
  <2>1. w.pc \in Unmarking /\ UNCHANGED <<batch, cancelLogged, projected>>
    BY <1>9 DEF ClearBatchMarker, ClearPauseMarker, At, Unmarking, journal
  <2>2. Goto("unmark-pause") \/ Goto("unmark-jobs")
    BY <1>9 DEF ClearBatchMarker, ClearPauseMarker
  <2>3. w'.pc \in {"unmark-pause", "unmark-jobs"} /\ w'.targets = w.targets
    BY <1>1, <2>2, GotoKeeps DEF Kept
  <2> QED
    BY <1>8, <2>1, <2>3
<1>10. ASSUME NEW j \in Jobs, ClearJobMarker(j) PROVE MarkersKnown'
  <2>1. w.pc = "unmark-jobs" /\ w' = [w EXCEPT !.targets = @ \ {j}] /\ UNCHANGED <<batch,
        cancelLogged, projected>>
    BY <1>10 DEF ClearJobMarker, At, journal
  <2>2. w'.pc = "unmark-jobs" /\ w'.targets = w.targets \ {j}
    BY <1>1, <2>1 DEF Writers
  <2> QED
    BY <1>8, <2>1, <2>2 DEF Unmarking
<1>11. CASE w' = Idle
  BY <1>3, <1>11 DEF Stop
<1> QED
  BY <1>3, <1>4, <1>5, <1>6, <1>7, <1>9, <1>10, <1>11 DEF AcknowledgeStep, Acknowledged

\* The success of a job, from its event to the removal of its marker.
LEMMA SucceedMarkers ==
    ASSUME IInv, MarkersKnown, Succeed \/ SucceedManifest \/ ClearMarker
    PROVE  MarkersKnown'
<1>1. w \in Writers /\ JournalOK /\ w.job \in Existing
  BY DEF IInv, Inv, StageKnows, Succeed, SucceedManifest, ClearMarker, At, OnJob
<1>2. CASE Stop
  BY <1>2, StopIdles, NoMarkers DEF Unmarking
<1>3. ASSUME NEW error, Raise(error) PROVE MarkersKnown'
  BY <1>1, <1>3, RaiseKeeps, NoMarkers DEF Unmarking
<1>4. CASE Goto("after-job")
  BY <1>1, <1>4, GotoKeeps, NoMarkers DEF Unmarking
<1>5. CASE Append(w.job, Ended(batch[w.job], "succeeded")) /\ Goto("succeeded")
  <2> DEFINE r == Ended(batch[w.job], "succeeded")
  <2>1. r.state = "succeeded"
    BY <1>1 DEF Ended, JournalOK, JobRecord, Existing
  <2>2. Append(w.job, r)
    BY <1>5
  <2> HIDE DEF r
  <2>3. batch'[w.job] = r
    BY <1>1, <2>1, <2>2, Appended DEF Existing
  <2>4. w'.pc = "succeeded" /\ w'.job = w.job
    BY <1>1, <1>5, GotoKeeps DEF Kept
  <2> QED
    BY <2>1, <2>3, <2>4 DEF MarkersKnown, Unmarking, At, Current
<1>6. CASE SucceedManifest /\ Goto("clear-marker")
  <2>1. w.pc = "succeeded" /\ w'.pc = "clear-marker" /\ w'.job = w.job
    BY <1>1, <1>6, GotoKeeps DEF SucceedManifest, At, Kept
  <2>2. projected' = TRUE /\ batch' = batch
    BY <1>6, <2>1, StopIdles DEF SucceedManifest, WriteManifest, journal
  <2> QED
    BY <2>1, <2>2 DEF MarkersKnown, Unmarking, At, Current
<1> QED
  BY <1>2, <1>3, <1>4, <1>5, <1>6 DEF Succeed, SucceedManifest, ClearMarker, WriteManifest

-----------------------------------------------------------------------------
(* The steps of a command                                                   *)

\* Labels that only some steps lead to: an attempt, an acknowledgement and the
\* success of a job.
Closing == {"closing", "unmark", "unmark-pause", "unmark-jobs"}
Reserved == Attempting \union Closing \union {"succeeded", "clear-marker", "configure"}

\* The command is over, or the same command is elsewhere.
Elsewhere == w' = Idle \/ (w'.op = w.op /\ w'.pc \notin Reserved)

\* The assignments by which a step leaves its label.
LEMMA GotoElsewhere ==
    ASSUME w \in Writers, NEW pc, pc \notin Reserved, Goto(pc)
    PROVE  Elsewhere
BY GotoKeeps DEF Kept, Elsewhere

\* An error leads away from the places where an attempt is open.
LEMMA RaiseElsewhere ==
    ASSUME w \in Writers, NEW error, Raise(error)
    PROVE  Elsewhere
BY RaiseKeeps DEF Kept, Elsewhere, Reserved, Attempting, Closing

\* So does a call of acknowledge_cancel.
LEMMA CallElsewhere ==
    ASSUME w \in Writers, NEW ret, CallAcknowledge(ret)
    PROVE  Elsewhere
<1>1. w'.pc = "acknowledge" /\ w'.op = w.op
  BY DEF CallAcknowledge, Writers
<1> QED
  BY <1>1 DEF Elsewhere, Reserved, Attempting, Closing

\* So does the beginning of the loop over the jobs.
LEMMA EnterElsewhere ==
    ASSUME w \in Writers, EnterLoop
    PROVE  Elsewhere
<1>1. w'.pc = "job" /\ w'.op = w.op
  BY DEF EnterLoop, Writers
<1> QED
  BY <1>1 DEF Elsewhere, Reserved, Attempting, Closing

\* So does the choice of the next stage.
LEMMA StageElsewhere ==
    ASSUME w \in Writers, NEW t, w' = [w EXCEPT !.pc = "stage", !.stage = t]
    PROVE  Elsewhere
<1>1. w'.pc = "stage" /\ w'.op = w.op
  BY DEF Writers
<1> QED
  BY <1>1 DEF Elsewhere, Reserved, Attempting, Closing

\* create, resume, retry and the loop over the jobs.
LEMMA CommandGoesOn ==
    ASSUME w \in Writers,
           CreateBatch \/ CreateJob \/ CreateManifest \/ ResumeStep \/ RetryManifest \/ RunStep
    PROVE  Elsewhere
<1>1. CASE Stop
  BY <1>1 DEF Stop, Elsewhere
<1>2. \A pc \in {"create", "run", "configured", "reconcile", "interrupt", "verify", "unpause",
                 "invalidate", "job", "acknowledge", "job-pause",
                 "after-job-pause"} : pc \notin Reserved
  BY DEF Reserved, Attempting, Closing
<1>3. CASE w' = w /\ w.pc \in {"create", "interrupt"}
  BY <1>2, <1>3 DEF Elsewhere
<1>4. CASE CreateBatch \/ CreateJob \/ CreateManifest \/ RetryManifest
  <2>1. CASE w' = [w EXCEPT !.pc = "run", !.job = 0]
    <3>1. w'.pc = "run" /\ w'.op = w.op
      BY <2>1 DEF Writers
    <3> QED
      BY <1>2, <3>1 DEF Elsewhere
  <2> QED
    BY <1>1, <1>2, <1>3, <1>4, <2>1, GotoElsewhere
       DEF CreateBatch, CreateJob, CreateManifest, RetryManifest, WriteManifest, At
<1>5. CASE ResumeStep
  <2>1. ASSUME NEW todo, w' = [w EXCEPT !.pc = "invalidate", !.todo = todo] PROVE Elsewhere
    <3>1. w'.pc = "invalidate" /\ w'.op = w.op
      BY <2>1 DEF Writers
    <3> QED
      BY <1>2, <3>1 DEF Elsewhere
  <2>2. CASE InvalidateDamaged
    <3>1. w'.pc = w.pc /\ w.pc = "invalidate" /\ w'.op = w.op
      BY <2>2 DEF InvalidateDamaged, At, Writers
    <3> QED
      BY <1>2, <3>1 DEF Elsewhere
  <2>3. CASE Verify \/ InvalidateManifest
    BY <1>1, <2>1, <2>3, CallElsewhere DEF Verify, InvalidateManifest, WriteManifest
  <2>4. CASE \/ ConfigManifest \/ Reconcile \/ InterruptAttempt \/ InterruptManifest
             \/ RemoveWorkspaces \/ ClearPause
             \/ \E p \in Profiles, boundary \in Stages : UpdateConfig(p, boundary)
    BY <1>1, <1>2, <1>3, <2>4, GotoElsewhere DEF UpdateConfig, ConfigManifest, Reconcile,
       InterruptAttempt, InterruptManifest, RemoveWorkspaces, ClearPause, WriteManifest, At
  <2> QED
    BY <1>5, <2>2, <2>3, <2>4 DEF ResumeStep
<1>6. CASE RunStep
  <2>1. CASE w' = [w EXCEPT !.pc = "acknowledge", !.ret = "run-acknowledged", !.seen = cancelBatch]
    <3>1. w'.pc = "acknowledge" /\ w'.op = w.op
      BY <2>1 DEF Writers
    <3> QED
      BY <1>2, <3>1 DEF Elsewhere
  <2>2. CASE \/ w' = [w EXCEPT !.job = @ + 1] /\ w.pc = "job"
             \/ w' = [w EXCEPT !.pc = "job", !.job = @ + 1, !.stage = 0]
    <3>1. w'.pc = "job" /\ w'.op = w.op
      BY <2>2 DEF Writers
    <3> QED
      BY <1>2, <3>1 DEF Elsewhere
  <2>3. CASE Run \/ RunAcknowledged
    BY <1>1, <2>1, <2>3, EnterElsewhere DEF Run, RunAcknowledged
  <2>4. CASE NextJob \/ NextJobPause
    BY <1>1, <1>2, <2>2, <2>4, GotoElsewhere, CallElsewhere, StageElsewhere
       DEF NextJob, NextJobPause, At
  <2>5. CASE AfterJob \/ AfterJobPause
    BY <1>1, <1>2, <2>2, <2>5, GotoElsewhere, CallElsewhere DEF AfterJob, AfterJobPause
  <2> QED
    BY <1>6, <2>3, <2>4, <2>5 DEF RunStep
<1> QED
  BY <1>4, <1>5, <1>6

\* The stages of a job, but for the attempt itself and the success.
LEMMA JobGoesOn ==
    ASSUME w \in Writers,
           \/ CheckCancel \/ EnterStage \/ InvalidateStage \/ MakeWorkspace \/ CommitStage
           \/ CommitManifest \/ FailStage \/ FailJob \/ FailManifest \/ CancelStage \/ CancelJob
           \/ CancelManifest \/ Caught \/ CaughtManifest \/ JobCancelled
    PROVE  Elsewhere
<1>1. CASE Stop
  BY <1>1 DEF Stop, Elsewhere
<1>2. \A pc \in {"succeed", "stage-pause", "after-job", "workspace", "invalidate-stage", "start",
                 "committed", "fail-job", "failed", "cancel-job", "cancel-manifest", "job",
                 "caught-manifest", "acknowledge"} : pc \notin Reserved
  BY DEF Reserved, Attempting, Closing
<1>3. CASE CheckCancel \/ EnterStage \/ InvalidateStage \/ MakeWorkspace
  BY <1>1, <1>2, <1>3, GotoElsewhere, RaiseElsewhere, StageElsewhere
     DEF CheckCancel, EnterStage, InvalidateStage, MakeWorkspace
<1>4. CASE CommitStage \/ CommitManifest
  BY <1>2, <1>4, GotoElsewhere, RaiseElsewhere, StageElsewhere
     DEF CommitStage, CommitManifest, WriteManifest
<1>5. CASE FailStage \/ FailJob \/ FailManifest \/ CancelStage \/ CancelJob \/ CancelManifest
  BY <1>2, <1>5, GotoElsewhere, RaiseElsewhere
     DEF FailStage, FailJob, FailManifest, CancelStage, CancelJob, CancelManifest, WriteManifest
<1>6. CASE Caught \/ CaughtManifest \/ JobCancelled
  <2>1. CASE \/ w' = [w EXCEPT !.pc = "acknowledge", !.ret = "cancelled", !.seen = cancelBatch]
             \/ w' = [w EXCEPT !.pc = "job", !.job = @ + 1, !.stage = 0, !.error = "none",
                      !.seen = FALSE]
    <3>1. w'.pc \in {"acknowledge", "job"} /\ w'.op = w.op
      BY <2>1 DEF Writers
    <3> QED
      BY <1>2, <3>1 DEF Elsewhere
  <2> QED
    BY <1>1, <1>2, <1>6, <2>1, GotoElsewhere DEF Caught, CaughtManifest, JobCancelled, WriteManifest
<1> QED
  BY <1>3, <1>4, <1>5, <1>6

\* The attempt, and then the success of the job.
LEMMA AttemptGoesOn ==
    ASSUME w \in Writers, StartStage \/ StartManifest \/ ExecuteStage
    PROVE  w' = Idle \/ (w'.op = w.op /\ w'.pc \in Attempting \union {"caught"})
<1>1. CASE Stop
  BY <1>1 DEF Stop
<1>2. ASSUME NEW pc, Goto(pc) \/ \E error : Raise(error) /\ pc = "caught"
      PROVE  w'.op = w.op /\ w'.pc = pc
  BY <1>2, GotoKeeps, RaiseKeeps DEF Kept
<1> QED
  BY <1>1, <1>2 DEF StartStage, StartManifest, ExecuteStage, WriteManifest, Attempting

\* After a success the writer goes on with its command, or the command is over.
LEMMA SuccessGoesOn ==
    ASSUME w \in Writers, Succeed \/ SucceedManifest \/ ClearMarker
    PROVE  \/ w' = Idle
           \/ w'.op = w.op /\ w'.pc \in {"succeeded", "clear-marker", "caught", "after-job"}
<1>1. CASE Stop
  BY <1>1 DEF Stop
<1>2. ASSUME NEW pc, Goto(pc) \/ \E error : Raise(error) /\ pc = "caught"
      PROVE  w'.op = w.op /\ w'.pc = pc
  BY <1>2, GotoKeeps, RaiseKeeps DEF Kept
<1> QED
  BY <1>1, <1>2 DEF Succeed, SucceedManifest, ClearMarker, WriteManifest

\* acknowledge_cancel_requests returns or goes on.
LEMMA AcknowledgeGoesOn ==
    ASSUME w \in Writers, AcknowledgeStep
    PROVE  /\ w.pc \in Acknowledging
           /\ \/ w' = Idle
              \/ w'.op = w.op /\ w'.pc = w.ret /\ w.ret # "idle"
              \/ w'.op = w.op /\ w'.pc \in Closing /\ w'.ret = w.ret
<1>1. w.pc \in Acknowledging
  BY DEF AcknowledgeStep, Acknowledge, CancelTarget, CancelAttempt, AcknowledgeManifest,
     ClearBatchMarker, ClearPauseMarker, ClearJobMarker, Acknowledged, At, Acknowledging
<1> DEFINE goal == \/ w' = Idle
                   \/ w'.op = w.op /\ w'.pc = w.ret /\ w.ret # "idle"
                   \/ w'.op = w.op /\ w'.pc \in Closing /\ w'.ret = w.ret
<1> SUFFICES goal
  BY <1>1
<1>2. CASE Stop \/ Return
  <2>1. CASE w' = [w EXCEPT !.pc = w.ret, !.ret = "idle", !.whole = FALSE, !.targets = {}]
              /\ w.ret # "idle"
    <3>1. w'.op = w.op /\ w'.pc = w.ret
      BY <2>1 DEF Writers
    <3> QED
      BY <2>1, <3>1
  <2> QED
    BY <1>2, <2>1 DEF Stop, Return
<1>3. ASSUME NEW pc \in Closing, Goto(pc) PROVE goal
  BY <1>3, GotoKeeps DEF Kept
<1>4. CASE Acknowledge
  <2> DEFINE active == IF w.ret = "cancelled" THEN {w.job} ELSE {}
             targets == IF cancelBatch THEN Existing ELSE active \union (cancelJob \intersect Existing)
  <2>1. CASE w' = [w EXCEPT !.pc = "closing", !.whole = cancelBatch, !.targets = targets,
                   !.todo = targets]
    <3> HIDE DEF targets
    <3>1. w'.op = w.op /\ w'.pc = "closing" /\ w'.ret = w.ret
      BY <2>1 DEF Writers
    <3> QED
      BY <3>1 DEF Closing
  <2> QED
    BY <1>2, <1>4, <2>1 DEF Acknowledge
<1>5. CASE AcknowledgeManifest \/ ClearBatchMarker \/ ClearPauseMarker \/ Acknowledged
  <2>1. \A pc \in {"unmark", "unmark-pause", "unmark-jobs"} : pc \in Closing
    BY DEF Closing
  <2> HIDE DEF goal
  <2> QED
    BY <1>2, <1>3, <1>5, <2>1
       DEF AcknowledgeManifest, ClearBatchMarker, ClearPauseMarker, Acknowledged, WriteManifest
<1>6. ASSUME NEW j \in Jobs, CancelTarget(j) \/ ClearJobMarker(j)
              \/ \E s \in Stages : CancelAttempt(j, s)
      PROVE  goal
  <2>1. \/ w' = w \/ w' = [w EXCEPT !.todo = @ \ {j}] \/ w' = [w EXCEPT !.targets = @ \ {j}]
    BY <1>6 DEF CancelTarget, ClearJobMarker, CancelAttempt
  <2>2. w'.pc = w.pc /\ w'.op = w.op /\ w'.ret = w.ret
    BY <2>1 DEF Writers
  <2>3. w.pc \in Closing
    BY <1>6 DEF CancelTarget, ClearJobMarker, CancelAttempt, At, Closing
  <2> QED
    BY <2>2, <2>3
<1> HIDE DEF goal
<1> QED
  BY <1>4, <1>5, <1>6 DEF AcknowledgeStep

\* The rest of the writer's program enters no such place.
LEMMA OtherMarkers ==
    ASSUME IInv,
           \/ CreateBatch \/ CreateJob \/ CreateManifest \/ ResumeStep \/ RetryManifest \/ RunStep
           \/ CheckCancel \/ EnterStage \/ InvalidateStage \/ MakeWorkspace \/ StartStage
           \/ StartManifest \/ ExecuteStage \/ CommitStage \/ CommitManifest
           \/ FailStage \/ FailJob \/ FailManifest \/ CancelStage \/ CancelJob \/ CancelManifest
           \/ Caught \/ CaughtManifest \/ JobCancelled \/ AppendFails
    PROVE  MarkersKnown'
<1>1. w \in Writers
  BY DEF IInv, Inv
<1>2. Elsewhere \/ w'.pc \in Attempting \union {"caught"}
  BY <1>1, CommandGoesOn, JobGoesOn, AttemptGoesOn, FailedAppendMoves
     DEF Elsewhere, Attempting, Stop, Kept
<1>3. w'.pc \notin {"closing", "succeeded", "clear-marker"} \union Unmarking
  BY <1>2 DEF Elsewhere, Reserved, Closing, Unmarking, Attempting, Idle
<1> QED
  BY <1>3, NoMarkers

\* Nor does anybody else, and what is known does not depend on them.
LEMMA OutsideMarkers ==
    ASSUME MarkersKnown, Outside
    PROVE  MarkersKnown'
<1>1. CASE w' = w /\ UNCHANGED <<batch, cancelLogged, projected>>
  <2>1. Existing' = Existing /\ \A k : Settled(k)' = Settled(k)
    BY <1>1 DEF Existing, Settled
  <2> QED
    BY <1>1, <2>1 DEF MarkersKnown, At, Current
<1>2. CASE w'.pc \in {"run", "reconcile", "configure", "acknowledge", "retried", "idle"}
  BY <1>2, NoMarkers DEF Unmarking
<1> QED
  BY <1>1, <1>2, OutsideMoves

\* What is known of the markers holds throughout.
LEMMA MarkersInvariant == Spec => []MarkersKnown
<1>1. Init => MarkersKnown
  BY DEF Init, Idle, MarkersKnown, Unmarking, At
<1>2. IInv /\ MarkersKnown /\ [Next]_vars => MarkersKnown'
  BY AcknowledgeMarkers, SucceedMarkers, OtherMarkers, OutsideMarkers
     DEF Next, WriterStep, JobStep, Outside
<1> QED
  BY Invariant, <1>1, <1>2, PTL DEF Spec

\* A cancel marker is removed only with what it asked for: no crash, fault or
\* request, at any step, makes the writer drop one it has not served.
THEOREM CancelsSettle == Spec => CancelSettles
<1>1. ASSUME IInv, MarkersKnown, [Next]_vars
      PROVE  /\ cancelBatch /\ ~cancelBatch' => AllTerminal /\ Running = {} /\ projected
             /\ \A j \in cancelJob \ cancelJob' :
                   /\ batch[j].state \in Terminal /\ projected
                   /\ batch[j].state = "cancelled" => j \in cancelLogged
  <2>1. CASE cancelBatch' = cancelBatch /\ cancelJob \subseteq cancelJob'
    BY <2>1
  <2>2. CASE ClearBatchMarker
    <3>1. At("unmark") /\ cancelJob' = cancelJob
      BY <2>2 DEF ClearBatchMarker
    <3>2. CASE w.whole
      <4>1. projected /\ \A k \in Existing : Settled(k)
        BY <1>1, <3>1, <3>2 DEF MarkersKnown, Unmarking, At
      <4> QED
        BY <3>1, <4>1 DEF Settled, AllTerminal, Running
    <3>3. CASE ~w.whole
      BY <1>1, <2>2, <3>1, <3>3 DEF ClearBatchMarker, IInv, RestOK
    <3> QED
      BY <3>2, <3>3
  <2>3. ASSUME NEW j \in Jobs, ClearJobMarker(j)
        PROVE  /\ cancelBatch' = cancelBatch /\ cancelJob' = cancelJob \ {j}
               /\ projected /\ Settled(j)
    BY <1>1, <2>3 DEF ClearJobMarker, MarkersKnown, Unmarking, At
  <2>4. CASE ClearMarker
    <3>1. cancelBatch' = cancelBatch /\ cancelJob' = cancelJob \ {w.job} /\ projected
           /\ Current.state = "succeeded"
      BY <1>1, <2>4 DEF ClearMarker, MarkersKnown, At
    <3> QED
      BY <3>1 DEF Current, Terminal
  <2>5. CASE Outside
    <3>1. (cancelBatch' = cancelBatch \/ cancelBatch' = TRUE) /\ cancelJob \subseteq cancelJob'
      BY <2>5 DEF Outside, RequestStep, MarkCancel, DropPause, FinalizeCancel, MarkPause,
         RequestPause, Crash, vars,
         RequestCancel, Execute, StartResume, StartRetry, Rot, markers
    <3> QED
      BY <3>1
  <2>6. CASE \/ CreateBatch \/ CreateJob \/ CreateManifest \/ ResumeStep \/ RetryManifest \/ RunStep
    BY <2>1, <2>6 DEF CreateBatch, CreateJob, CreateManifest, ResumeStep, UpdateConfig,
       ConfigManifest, Reconcile,
       InterruptAttempt, InterruptManifest, Verify, InvalidateDamaged, InvalidateManifest,
       RemoveWorkspaces, ClearPause,
       RetryManifest, RunStep, Run, RunAcknowledged, NextJob, NextJobPause, AfterJob, AfterJobPause,
       WriteManifest, ReadOnly, markers
  <2>7. CASE \/ Acknowledge \/ AcknowledgeManifest \/ ClearPauseMarker \/ Acknowledged
             \/ \E j \in Jobs : CancelTarget(j) \/ \E s \in Stages : CancelAttempt(j, s)
    BY <2>1, <2>7 DEF Acknowledge, AcknowledgeManifest, ClearPauseMarker, Acknowledged,
       CancelTarget, CancelAttempt,
       WriteManifest, ReadOnly, markers
  <2>8. CASE \/ CheckCancel \/ EnterStage \/ InvalidateStage \/ MakeWorkspace \/ StartStage
             \/ StartManifest \/ ExecuteStage \/ CommitStage \/ CommitManifest
    BY <2>1, <2>8 DEF CheckCancel, EnterStage, InvalidateStage, MakeWorkspace, StartStage,
       StartManifest,
       ExecuteStage, CommitStage, CommitManifest, WriteManifest, ReadOnly, markers
  <2>9. CASE \/ FailStage \/ FailJob \/ FailManifest \/ CancelStage \/ CancelJob \/ CancelManifest
             \/ Caught \/ CaughtManifest \/ JobCancelled \/ Succeed \/ SucceedManifest
    BY <2>1, <2>9 DEF FailStage, FailJob, FailManifest, CancelStage, CancelJob, CancelManifest,
       Caught, CaughtManifest,
       JobCancelled, Succeed, SucceedManifest, WriteManifest, ReadOnly, markers
  <2>10. CASE \E j \in Jobs : ClearJobMarker(j)
    BY <2>3, <2>10 DEF Settled
  <2>11. CASE AppendFails
    BY <2>1, <2>11 DEF AppendFails, markers
  <2> QED
    BY <1>1, <2>2, <2>4, <2>5, <2>6, <2>7, <2>8, <2>9, <2>10, <2>11
       DEF Next, WriterStep, AcknowledgeStep, JobStep, Outside
<1>2. IInv /\ MarkersKnown /\ [Next]_vars
      => [/\ cancelBatch /\ ~cancelBatch' => AllTerminal /\ Running = {} /\ projected
          /\ \A j \in cancelJob \ cancelJob' :
                /\ batch[j].state \in Terminal /\ projected
                /\ batch[j].state = "cancelled" => j \in cancelLogged]_vars
  BY <1>1
<1> QED
  BY Invariant, MarkersInvariant, <1>2, PTL DEF Spec, CancelSettles

-----------------------------------------------------------------------------
(* The manifest: a command that ends leaves it true                         *)

\* What the writer does is no request and schedules nothing.
LEMMA WriterAlone ==
    ASSUME WriterStep
    PROVE  /\ ~At("idle") /\ req' = req /\ driver' = driver /\ crashes' = crashes
           /\ faults' \in {faults, faults + 1, faults + 2}
           /\ queued' = queued \/ CreateManifest
<1>1. CASE CreateBatch \/ CreateJob \/ CreateManifest \/ ResumeStep \/ RetryManifest
  BY <1>1 DEF CreateBatch, CreateJob, CreateManifest, ResumeStep, UpdateConfig, ConfigManifest,
     Reconcile, InterruptAttempt, InterruptManifest, Verify, InvalidateDamaged, InvalidateManifest,
     RemoveWorkspaces, ClearPause, RetryManifest, WriteManifest, ReadOnly, env, At
<1>2. CASE AcknowledgeStep \/ RunStep
  BY <1>2 DEF AcknowledgeStep, Acknowledge, CancelTarget, CancelAttempt, AcknowledgeManifest,
     ClearBatchMarker, ClearPauseMarker, ClearJobMarker, Acknowledged, RunStep, Run,
     RunAcknowledged,
     NextJob, NextJobPause, AfterJob, AfterJobPause, WriteManifest, ReadOnly, env, At
<1>3. CASE JobStep
  BY <1>3 DEF JobStep, CheckCancel, EnterStage, InvalidateStage, MakeWorkspace, StartStage,
     StartManifest, ExecuteStage, CommitStage, CommitManifest, FailStage, FailJob, FailManifest,
     CancelStage, CancelJob, CancelManifest, Caught, CaughtManifest, JobCancelled, Succeed,
     SucceedManifest, ClearMarker, WriteManifest, ReadOnly, env, At
<1>4. CASE AppendFails
  BY <1>4 DEF AppendFails, env, At
<1> QED
  BY <1>1, <1>2, <1>3, <1>4 DEF WriterStep

\* The writer takes no step while a cancel waits to be finalized; a command
\* that finalizes one ends when it has served it.
LEMMA WriterRequests ==
    ASSUME IInv, RequestKnown, WriterStep
    PROVE  RequestKnown'
<1>1. w \in Writers
  BY DEF IInv, Inv
<1>2. /\ w.pc # "idle" /\ req' = req /\ Gui' = Gui /\ (queued' = queued \/ CreateManifest)
      /\ ~Requested' /\ w.op # "none"
  BY WriterAlone DEF At, Gui, RequestKnown, Requested
<1>3. CASE w' = Idle
  BY <1>2, <1>3 DEF RequestKnown, At, Idle
<1>4. ASSUME w'.op = w.op, queued' = queued, w.op # "cancel" \/ (w'.pc \in Closing /\ w'.ret = "idle"),
             w.op = "create" /\ Gui => w'.pc \in {"open", "create"}
      PROVE  RequestKnown'
  BY <1>2, <1>4 DEF RequestKnown, At, Closing, Acknowledging
<1>5. CASE AcknowledgeStep
  <2>1. /\ w.pc \in Acknowledging /\ queued' = queued
        /\ \/ w' = Idle
           \/ w'.op = w.op /\ w'.pc = w.ret /\ w.ret # "idle"
           \/ w'.op = w.op /\ w'.pc \in Closing /\ w'.ret = w.ret
    BY <1>1, <1>2, <1>5, AcknowledgeGoesOn DEF CreateManifest, At, Acknowledging
  <2>2. ~(w.op = "create" /\ Gui) /\ (w.op = "cancel" => w.ret = "idle")
    BY <2>1 DEF RequestKnown, Acknowledging
  <2> QED
    BY <1>3, <1>4, <2>1, <2>2
<1>6. CASE CreateBatch \/ CreateJob
  <2>1. w.pc \in {"open", "create"} /\ queued' = queued
    BY <1>2, <1>6 DEF CreateBatch, CreateJob, At, env
  <2>2. w'.op = w.op /\ w'.pc = "create"
    BY <1>1, <1>6, GotoKeeps DEF CreateBatch, CreateJob, At, Kept
  <2> QED
    BY <1>4, <2>1, <2>2 DEF RequestKnown, Acknowledging
<1>7. CASE CreateManifest
  <2>1. CASE ~Gui /\ Goto("run") /\ queued' = queued
    BY <1>1, <1>4, <1>7, <2>1, GotoKeeps DEF CreateManifest, RequestKnown, Acknowledging, At, Kept
  <2> QED
    BY <1>3, <1>7, <2>1 DEF CreateManifest, Stop
<1>8. CASE ResumeStep \/ RetryManifest \/ RunStep \/ JobStep
  <2>1. CASE ResumeStep \/ RetryManifest \/ RunStep
    <3>1. w.pc \notin Acknowledging \union {"open", "create"}
      BY <2>1 DEF ResumeStep, UpdateConfig, ConfigManifest,
         Reconcile, InterruptAttempt, InterruptManifest, Verify, InvalidateDamaged,
         InvalidateManifest,
         RemoveWorkspaces, ClearPause, RetryManifest, RunStep, Run, RunAcknowledged,
         NextJob, NextJobPause, AfterJob, AfterJobPause, At, Acknowledging
    <3>2. w' = Idle \/ w'.op = w.op
      BY <1>1, <2>1, CommandGoesOn DEF Elsewhere
    <3> QED
      BY <1>2, <1>3, <1>4, <3>1, <3>2 DEF RequestKnown, CreateManifest, At
  <2>2. CASE JobStep
    <3>1. w.pc \notin Acknowledging \union {"open", "create"}
      BY <2>2 DEF JobStep, CheckCancel, EnterStage, InvalidateStage, MakeWorkspace, StartStage,
         StartManifest, ExecuteStage, CommitStage, CommitManifest, FailStage, FailJob, FailManifest,
         CancelStage, CancelJob, CancelManifest, Caught, CaughtManifest, JobCancelled, Succeed,
         SucceedManifest, ClearMarker, At, Acknowledging
    <3>2. w' = Idle \/ w'.op = w.op
      BY <1>1, <2>2, JobGoesOn, AttemptGoesOn, SuccessGoesOn DEF JobStep, Elsewhere
    <3> QED
      BY <1>2, <1>3, <1>4, <3>1, <3>2 DEF RequestKnown, CreateManifest, At
  <2> QED
    BY <1>8, <2>1, <2>2
<1>9. CASE AppendFails
  <2>1. queued' = queued
    BY <1>9 DEF AppendFails, env
  <2>2. w' = Idle \/ (w.pc \in OnJob /\ w'.op = w.op)
    BY <1>1, <1>9, FailedAppendMoves DEF Stop, Kept, OnJob, OnStage, ToStart, Attempting
  <2> QED
    BY <1>3, <1>4, <2>1, <2>2 DEF RequestKnown, OnJob, OnStage, ToStart, Attempting, Acknowledging
<1> QED
  BY <1>5, <1>6, <1>7, <1>8, <1>9 DEF WriterStep

\* A request of the GUI is made when no command of its thread is under way, and
\* nothing begins before it is carried out.
LEMMA OutsideRequests ==
    ASSUME IInv, RequestKnown, Outside
    PROVE  RequestKnown'
<1>1. w \in Writers /\ (At("open") => Existing = {})
  BY DEF IInv, Inv, CreateKnows, JournalOK
<1>2. CASE Execute
  <2>1. At("idle") /\ queued # NotQueued /\ queued' = NotQueued /\ req' = req /\ Gui' = Gui
    BY <1>2 DEF Execute, Gui
  <2>2. ~Requested' /\ (req.step \in {"drop-pause", "marked"} => Gui)
    BY <2>1 DEF RequestKnown, Requested
  <2>3. w' = w \/ w'.op \in {"execute", "resume", "retry"}
    BY <1>2 DEF Execute, BeginResume, BeginRetry, Idle
  <2> QED
    BY <2>1, <2>2, <2>3 DEF RequestKnown, At, NotQueued, Acknowledging
<1>3. CASE StartResume \/ \E j \in Jobs, s \in Stages : StartRetry(j, s)
  <2>1. At("idle") /\ queued = NotQueued /\ (Gui => req = NoRequest) /\ req' = req /\ Gui' = Gui
    BY <1>3 DEF StartResume, StartRetry, Unscheduled, CommandThreadFree, Gui
  <2>2. ~Requested' /\ ~(req.step \in {"drop-pause", "marked"})
    BY <2>1 DEF RequestKnown, Requested, NoRequest
  <2>3. w' = w \/ w'.op \in {"resume", "retry"}
    BY <1>3 DEF StartResume, StartRetry, BeginResume, BeginRetry, Idle
  <2>4. queued'.op # "execute"
    BY <1>3, <2>1 DEF StartResume, StartRetry, NotQueued
  <2> QED
    BY <2>1, <2>2, <2>3, <2>4 DEF RequestKnown, At, Acknowledging
<1>4. ASSUME NEW j \in Jobs \union {0}, RequestCancel(j)
      PROVE  RequestKnown'
  <2>1. /\ w' = w /\ Gui' = Gui /\ Existing' = Existing /\ UNCHANGED <<batch, cancelBatch, cancelJob>>
        /\ queued' \in {queued, NotQueued} /\ j \in Existing \union {0} /\ Existing # {}
        /\ ~At("create") /\ w.op # "cancel" /\ req'.step = "cancel" /\ req'.job = j
        /\ ~req'.scheduled => queued' = NotQueued /\ w.op \notin {"execute", "resume", "retry"}
    BY <1>4 DEF RequestCancel, CommandThreadFree, journal, markers, Gui, Existing
  <2>2. Gui /\ ~req'.scheduled => w.op \in {"none", "create"}
    BY <1>1, <2>1 DEF Writers
  <2>3. Gui /\ ~req'.scheduled => At("idle")
    BY <1>1, <2>1, <2>2 DEF RequestKnown, At
  <2> QED
    BY <2>1, <2>3 DEF RequestKnown, Requested, At, Marked, NotQueued
<1>5. CASE MarkCancel \/ DropPause
  <2>1. /\ w' = w /\ Gui' = Gui /\ Existing' = Existing /\ queued' = queued
        /\ req'.step \in {"none", "drop-pause", "marked"}
        /\ req'.step # "none" => Gui /\ req'.scheduled = req.scheduled /\ req'.job = req.job
        /\ cancelJob \subseteq cancelJob' /\ (cancelBatch => cancelBatch')
        /\ req.step \in {"cancel", "drop-pause"}
        /\ req.step = "cancel" => IF req.job = 0 THEN cancelBatch' ELSE req.job \in cancelJob'
        /\ req.step = "drop-pause" => UNCHANGED <<cancelBatch, cancelJob>>
    BY <1>5 DEF MarkCancel, DropPause, journal, Gui, Existing, NoRequest, RequestKnown, IInv,
       RestOK, Requests
  <2>2. Marked => Marked'
    BY <2>1 DEF Marked
  <2>3. Requested' => Requested
    BY <2>1 DEF Requested
  <2> QED
    BY <2>1, <2>2, <2>3 DEF RequestKnown, Requested, At
<1>6. CASE FinalizeCancel
  <2>1. /\ req' = NoRequest /\ queued' = queued /\ Gui' = Gui /\ Existing' = Existing
        /\ UNCHANGED <<cancelBatch, cancelJob>>
    BY <1>6 DEF FinalizeCancel, journal, markers, Gui, Existing
  <2>2. CASE w' = w
    BY <2>1, <2>2 DEF RequestKnown, Requested, At, Marked, NoRequest
  <2>3. CASE w' # w
    <3>1. Requested /\ w'.pc = "acknowledge" /\ w'.op = "cancel" /\ w'.ret = "idle"
           /\ req.step = "marked"
      BY <1>6, <2>3 DEF FinalizeCancel, Idle, RequestKnown, Requested
    <3>2. queued = NotQueued /\ Existing # {} /\ Marked
      BY <1>1, <3>1, ServiceAssumption DEF RequestKnown, Marked, Existing
    <3> QED
      BY <2>1, <3>1, <3>2 DEF RequestKnown, Requested, At, Marked, NoRequest, NotQueued,
         Acknowledging
  <2> QED
    BY <2>2, <2>3
<1>7. CASE Crash
  BY <1>7 DEF Crash, RequestKnown, Requested, At, Idle, NotQueued, NoRequest, Gui
<1>8. CASE MarkPause \/ RequestPause \/ UNCHANGED vars \/ \E j \in Jobs, s \in Stages : Rot(j, s)
  <2>1. /\ w' = w /\ Gui' = Gui /\ Existing' = Existing /\ UNCHANGED <<queued, cancelBatch, cancelJob>>
        /\ req' = req \/ req'.step \in {"none", "pause"}
    BY <1>8 DEF MarkPause, RequestPause, vars, env, journal, markers, Rot, NoRequest, Gui, Existing
  <2> QED
    BY <2>1 DEF RequestKnown, Requested, At, Marked
<1> QED
  BY <1>2, <1>3, <1>4, <1>5, <1>6, <1>7, <1>8 DEF RequestStep, Outside

\* What is known of the requests holds throughout.
LEMMA RequestsInvariant == Spec => []RequestKnown
<1>1. Init => RequestKnown
  <2> SUFFICES ASSUME Init PROVE RequestKnown
    OBVIOUS
  <2>1. w.pc = "open" /\ w.op = "create" /\ queued = NotQueued /\ req = NoRequest
    BY DEF Init, Idle
  <2> QED
    BY <2>1 DEF RequestKnown, Requested, At, NotQueued, NoRequest
<1>2. IInv /\ RequestKnown /\ [Next]_vars => RequestKnown'
  BY WriterRequests, OutsideRequests DEF Next, Outside
<1> QED
  BY Invariant, <1>1, <1>2, PTL DEF Spec

\* An event that commits no stage.
Uncommitting(r, old) == \A s \in Stages : r.stage[s] = "committed" => old.stage[s] = "committed"
NoneCommitted == \A j \in Jobs : Uncommitting(batch'[j], batch[j])

\* Of the events only stage.committed commits one.
LEMMA EventsUncommit ==
    ASSUME NEW r \in JobRecord, NEW s
    PROVE  /\ \A outcome \in {"interrupted", "failed", "cancelled"} :
                 Uncommitting(Closed(r, s, outcome), r)
           /\ \A n : Uncommitting(Started(r, s, n), r)
           /\ Uncommitting(Invalidated(r, s), r) /\ Uncommitting(Retried(r, s), r)
           /\ \A state : Uncommitting(Ended(r, state), r)
           /\ \A p : Uncommitting(Reconfigured(r, p, s), r)
<1>1. r.stage \in [Stages -> StageStates]
  BY DEF JobRecord
<1>2. \A outcome \in {"interrupted", "failed", "cancelled"} : Uncommitting(Closed(r, s, outcome), r)
  BY <1>1 DEF JobRecord, Uncommitting, Closed
<1>3. \A n : Uncommitting(Started(r, s, n), r)
  BY <1>1 DEF JobRecord, Uncommitting, Started
<1>4. Uncommitting(Invalidated(r, s), r)
  BY <1>1 DEF JobRecord, Uncommitting, Invalidated
<1>5. Uncommitting(Retried(r, s), r)
  BY <1>1 DEF JobRecord, Uncommitting, Retried
<1>6. \A state : Uncommitting(Ended(r, state), r)
  BY <1>1 DEF JobRecord, Uncommitting, Ended
<1>7. \A p : Uncommitting(Reconfigured(r, p, s), r)
  BY <1>1 DEF JobRecord, Uncommitting, Reconfigured, ReconfiguredStage
<1> QED
  BY <1>2, <1>3, <1>4, <1>5, <1>6, <1>7

\* An event about one job changes the record of no other.
LEMMA AppendUncommits ==
    ASSUME JournalOK, NEW j, NEW r, Append(j, r), j \in Jobs => Uncommitting(r, batch[j])
    PROVE  NoneCommitted
BY DEF JournalOK, Append, NoneCommitted, Uncommitting

\* Only the step that commits a stage does.
LEMMA CommitsNothing ==
    ASSUME IInv, [Next]_vars
    PROVE  CommitStage \/ NoneCommitted
<1>1. JournalOK /\ \A j \in Jobs : batch[j] \in JobRecord
  BY DEF IInv, Inv, JournalOK
<1>2. CASE batch' = batch
  BY <1>2 DEF NoneCommitted, Uncommitting
<1>3. ASSUME NEW j, NEW s, NEW outcome \in {"interrupted", "failed", "cancelled"},
             Append(j, Closed(batch[j], s, outcome))
      PROVE  NoneCommitted
  BY <1>1, <1>3, AppendUncommits, EventsUncommit
<1>4. ASSUME NEW j, NEW state, Append(j, Ended(batch[j], state)) PROVE NoneCommitted
  BY <1>1, <1>4, AppendUncommits, EventsUncommit
<1>5. ASSUME NEW j, NEW s, Append(j, Invalidated(batch[j], s)) \/ Append(j, Retried(batch[j], s))
      PROVE NoneCommitted
  BY <1>1, <1>5, AppendUncommits, EventsUncommit
<1>6. CASE CreateBatch \/ CreateJob \/ CreateManifest \/ RetryManifest \/ RunStep
  <2>1. CASE CreateJob
    <3> DEFINE j == Least(Jobs \ Existing)
               r == [batch[j] EXCEPT !.state = "pending"]
    <3>1. Append(j, r)
      BY <2>1 DEF CreateJob
    <3>2. j \in Jobs => Uncommitting(r, batch[j])
      BY <1>1 DEF Uncommitting, JobRecord
    <3> QED
      BY <1>1, <3>1, <3>2, AppendUncommits
  <2> QED
    BY <1>2, <1>6, <2>1 DEF CreateBatch, CreateManifest, RetryManifest, RunStep, Run,
       RunAcknowledged,
       NextJob, NextJobPause, AfterJob, AfterJobPause, WriteManifest, ReadOnly, journal
<1>7. CASE ResumeStep
  <2>1. ASSUME NEW p \in Profiles, NEW b \in Stages, UpdateConfig(p, b) PROVE NoneCommitted
    <3>1. batch' = [k \in Jobs |-> IF k \in Existing THEN Reconfigured(batch[k], p, b) ELSE batch[k]]
      BY <2>1 DEF UpdateConfig
    <3>2. \A k \in Jobs : batch'[k] \in {Reconfigured(batch[k], p, b), batch[k]}
      BY <3>1
    <3>3. \A k \in Jobs : Uncommitting(Reconfigured(batch[k], p, b), batch[k])
      BY <1>1, EventsUncommit
    <3> QED
      BY <3>2, <3>3 DEF NoneCommitted, Uncommitting
  <2>2. CASE InterruptAttempt
    BY <1>3, <2>2 DEF InterruptAttempt
  <2>3. CASE InvalidateDamaged
    BY <1>5, <2>3 DEF InvalidateDamaged
  <2> QED
    BY <1>2, <1>7, <2>1, <2>2, <2>3 DEF ResumeStep, ConfigManifest, Reconcile, InterruptManifest,
       Verify,
       InvalidateManifest, RemoveWorkspaces, ClearPause, WriteManifest, ReadOnly, journal
<1>8. CASE AcknowledgeStep
  BY <1>2, <1>3, <1>4, <1>8 DEF AcknowledgeStep, Acknowledge, CancelTarget, CancelAttempt,
     AcknowledgeManifest, ClearBatchMarker, ClearPauseMarker, ClearJobMarker, Acknowledged,
     WriteManifest, ReadOnly, journal
<1>9. CASE JobStep
  <2>1. CASE StartStage
    <3>1. CASE Append(w.job, Started(batch[w.job], w.stage, batch[w.job].attempt[w.stage] + 1))
      BY <1>1, <3>1, AppendUncommits, EventsUncommit
    <3> QED
      BY <1>2, <2>1, <3>1 DEF StartStage
  <2>2. CASE InvalidateStage \/ FailStage \/ CancelStage
    BY <1>3, <1>5, <2>2 DEF InvalidateStage, FailStage, CancelStage
  <2>3. CASE FailJob \/ CancelJob \/ Caught \/ Succeed
    BY <1>2, <1>4, <2>3 DEF FailJob, CancelJob, Caught, Succeed
  <2> QED
    BY <1>2, <1>9, <2>1, <2>2, <2>3 DEF JobStep, CheckCancel, EnterStage, MakeWorkspace,
       StartManifest,
       ExecuteStage, CommitManifest, FailManifest, CancelManifest, CaughtManifest, JobCancelled,
       SucceedManifest, ClearMarker, WriteManifest, ReadOnly, journal
<1>10. CASE Outside
  BY <1>2, <1>5, <1>10, OutsideMoves
<1>11. CASE AppendFails
  BY <1>2, <1>11 DEF AppendFails, journal
<1> QED
  BY <1>6, <1>7, <1>8, <1>9, <1>10, <1>11 DEF Next, WriterStep, Outside

\* Workspaces are made for stages that are not committed, and the one of an
\* attempt is taken before the attempt begins.
LEMMA LeftoverStep ==
    ASSUME IInv, LeftoverOpen, [Next]_vars
    PROVE  LeftoverOpen'
<1>1. /\ w \in Writers /\ leftover \subseteq Jobs \X Stages /\ \A j \in Jobs : batch[j] \in JobRecord
      /\ StageKnows /\ (w.pc \in OnJob => w.job \in Jobs)
      /\ batch \in [Jobs -> JobRecord]
  BY DEF IInv, Inv, RestOK, JournalOK, StageKnows, Existing
<1>2. ASSUME NoneCommitted, leftover' \subseteq leftover,
             w'.pc \in Attempting => <<w'.job, w'.stage>> \notin leftover'
      PROVE  LeftoverOpen'
  BY <1>1, <1>2 DEF LeftoverOpen, NoneCommitted, Uncommitting
<1>3. CASE CommitStage
  <2>1. /\ w.pc = "commit" /\ w.job \in Jobs /\ w'.pc = "committed" /\ leftover' = leftover
        /\ Append(w.job, Closed(batch[w.job], w.stage, "committed"))
    BY <1>1, <1>3, GotoKeeps DEF CommitStage, At, files, OnJob, OnStage, Attempting
  <2>2. <<w.job, w.stage>> \notin leftover
    BY <2>1 DEF LeftoverOpen, Attempting
  <2>3. \A js \in leftover : batch'[js[1]].stage[js[2]] # "committed"
    <3> SUFFICES ASSUME NEW js \in leftover PROVE batch'[js[1]].stage[js[2]] # "committed"
      OBVIOUS
    <3>1. js[1] \in Jobs /\ js[2] \in Stages /\ batch[js[1]].stage[js[2]] # "committed"
           /\ js = <<js[1], js[2]>>
      BY <1>1 DEF LeftoverOpen
    <3>2. CASE js[1] # w.job
      BY <1>1, <2>1, <3>1, <3>2 DEF Append
    <3>3. CASE js[1] = w.job /\ js[2] # w.stage
      <4> DEFINE r == Closed(batch[w.job], w.stage, "committed")
      <4>1. r.stage[js[2]] = batch[w.job].stage[js[2]]
        BY <1>1, <2>1, <3>1, <3>3 DEF Closed, JobRecord
      <4>2. batch'[w.job] = r
        BY <1>1, <2>1 DEF Append
      <4> QED
        BY <3>1, <3>3, <4>1, <4>2
    <3> QED
      BY <2>2, <3>1, <3>2, <3>3
  <2> QED
    BY <2>1, <2>3 DEF LeftoverOpen, Attempting
<1>4. CASE MakeWorkspace
  <2>1. /\ w.pc = "workspace" /\ w.job \in Jobs /\ w.stage \in Stages /\ batch' = batch
        /\ leftover' = leftover \union {<<w.job, w.stage>>} /\ batch[w.job].stage[w.stage] # "committed"
    BY <1>1, <1>4, PlanAssumption DEF MakeWorkspace, At, journal, StageKnows, OnJob, OnStage,
       ToStart, Current,
       JobRecord
  <2>2. w'.pc \notin Attempting
    BY <1>1, <1>4, JobGoesOn DEF Elsewhere, Idle, Reserved, Attempting
  <2> QED
    BY <2>1, <2>2 DEF LeftoverOpen
<1>5. CASE StartStage
  <2>1. leftover' = leftover \ {<<w.job, w.stage>>}
    BY <1>5 DEF StartStage
  <2>2. w'.job = w.job /\ w'.stage = w.stage
    BY <1>1, <1>5, GotoKeeps, RaiseKeeps DEF StartStage, Kept
  <2>3. NoneCommitted
    BY <1>5, CommitsNothing DEF StartStage, CommitStage, At
  <2> QED
    BY <1>2, <2>1, <2>2, <2>3
<1>6. CASE StartManifest \/ ExecuteStage
  <2>1. leftover' = leftover /\ batch' = batch /\ w.pc \in Attempting
    BY <1>6 DEF StartManifest, ExecuteStage, WriteManifest, files, journal, At, Attempting
  <2>2. w' = Idle \/ (w'.job = w.job /\ w'.stage = w.stage)
    BY <1>1, <1>6, GotoKeeps, RaiseKeeps DEF StartManifest, ExecuteStage, WriteManifest, Stop, Kept
  <2> QED
    BY <2>1, <2>2 DEF LeftoverOpen, Idle, Attempting
<1>9. CASE AppendFails
  <2>1. NoneCommitted /\ leftover' \subseteq leftover
    BY <1>1, <1>9, FailedAppendMoves DEF NoneCommitted, Uncommitting, journal
  <2>2. w'.pc \in Attempting => w.pc = "commit" /\ Kept
    BY <1>1, <1>9, FailedAppendMoves DEF Attempting, Stop, Idle
  <2> QED
    BY <1>2, <2>1, <2>2 DEF LeftoverOpen, Attempting, Kept
<1>7. CASE WriterStep /\ ~(\/ CommitStage \/ MakeWorkspace \/ StartStage \/ StartManifest
                         \/ ExecuteStage \/ AppendFails)
  <2>1. w'.pc \notin Attempting
    <3>1. CASE AcknowledgeStep
      BY <1>1, <3>1, AcknowledgeGoesOn DEF Idle, Closing, Attempting, Writers
    <3>2. CASE Succeed \/ SucceedManifest \/ ClearMarker
      BY <1>1, <3>2, SuccessGoesOn DEF Idle, Attempting
    <3> QED
      BY <1>1, <1>7, <3>1, <3>2, CommandGoesOn, JobGoesOn
         DEF WriterStep, JobStep, Elsewhere, Idle, Reserved, Attempting
  <2>2. leftover' \subseteq leftover
    <3>1. CASE CreateBatch \/ CreateJob \/ CreateManifest \/ ResumeStep \/ RetryManifest
      BY <3>1 DEF CreateBatch, CreateJob, CreateManifest, ResumeStep, UpdateConfig, ConfigManifest,
         Reconcile, InterruptAttempt, InterruptManifest, Verify, InvalidateDamaged,
         InvalidateManifest,
         RemoveWorkspaces, ClearPause, RetryManifest, WriteManifest, ReadOnly, files
    <3>2. CASE AcknowledgeStep \/ RunStep
      BY <3>2 DEF AcknowledgeStep, Acknowledge, CancelTarget, CancelAttempt, AcknowledgeManifest,
         ClearBatchMarker, ClearPauseMarker, ClearJobMarker, Acknowledged, RunStep, Run,
         RunAcknowledged,
         NextJob, NextJobPause, AfterJob, AfterJobPause, WriteManifest, ReadOnly, files
    <3>3. CASE JobStep
      BY <1>7, <3>3 DEF JobStep, CheckCancel, EnterStage, InvalidateStage,
         CommitManifest, FailStage, FailJob, FailManifest,
         CancelStage, CancelJob, CancelManifest, Caught, CaughtManifest, JobCancelled, Succeed,
         SucceedManifest, ClearMarker, WriteManifest, ReadOnly, files
    <3> QED
      BY <1>7, <3>1, <3>2, <3>3 DEF WriterStep
  <2>3. NoneCommitted
    BY <1>7, CommitsNothing
  <2> QED
    BY <1>2, <2>1, <2>2, <2>3
<1>8. CASE Outside
  <2>1. leftover' = leftover
    BY <1>8, OutsideMoves
  <2>2. w' = w \/ w'.pc \in {"run", "reconcile", "configure", "acknowledge", "retried", "idle"}
    BY <1>8, OutsideMoves
  <2>3. w'.pc \in Attempting => w' = w
    BY <2>2 DEF Attempting
  <2>4. CommitStage => w' # w
    BY <1>1, GotoKeeps DEF CommitStage, At
  <2> QED
    BY <1>2, <1>3, <2>1, <2>3, CommitsNothing DEF LeftoverOpen
<1> QED
  BY <1>3, <1>4, <1>5, <1>6, <1>7, <1>8, <1>9 DEF Next, Outside

\* What a step must leave behind when nothing has failed: what is known of the
\* manifest and, if the command ends, a true manifest.
Follows ==
    /\ ManifestKnown'
    /\ ~At("idle") /\ w'.pc = "idle" => projected' \/ w.error = "post-commit"

\* The manifest is true, or the label promises nothing about it.
LEMMA ShownFollows ==
    ASSUME projected'
    PROVE  Follows
BY DEF Follows, ManifestKnown

\* The second case: at these places nothing is promised.
LEMMA SilentFollows ==
    ASSUME NEW pc, w'.pc = pc, queued'.op # "execute",
           pc \notin Shown \union Unmarking \union {"workspace", "start", "acknowledge", "caught",
                                                    "idle"}
    PROVE  Follows
BY DEF Follows, ManifestKnown, At

\* Steps from where the manifest is shown that append nothing.
LEMMA ReadsFollow ==
    ASSUME RestOK, ManifestKnown,
           \/ RunStep \/ CheckCancel \/ EnterStage \/ JobCancelled \/ RemoveWorkspaces \/ ClearPause
           \/ ClearBatchMarker \/ ClearPauseMarker \/ ClearMarker \/ Acknowledged
           \/ \E j \in Jobs : ClearJobMarker(j)
    PROVE  Follows
<1>1. CASE RunStep \/ CheckCancel \/ EnterStage \/ JobCancelled \/ RemoveWorkspaces \/ ClearPause
  <2>1. w.pc \in Shown /\ projected' = projected
    BY <1>1 DEF RunStep, Run, RunAcknowledged, NextJob, NextJobPause, AfterJob, AfterJobPause,
       CheckCancel, EnterStage, JobCancelled, RemoveWorkspaces, ClearPause, ReadOnly, At, Shown
  <2> QED
    BY <2>1, ShownFollows DEF ManifestKnown
<1>2. CASE \/ ClearBatchMarker \/ ClearPauseMarker \/ ClearMarker \/ Acknowledged
           \/ \E j \in Jobs : ClearJobMarker(j)
  <2>1. w.pc \in Shown \union Unmarking /\ projected' = projected
    BY <1>2 DEF ClearBatchMarker, ClearPauseMarker, ClearMarker, Acknowledged, ClearJobMarker,
       ReadOnly, At, Shown, Unmarking
  <2> QED
    BY <2>1, ShownFollows DEF ManifestKnown
<1> QED
  BY <1>1, <1>2

\* Writes of the manifest that do not fail.
LEMMA WritesFollow ==
    ASSUME RestOK, faults' = faults,
           \/ CreateManifest \/ ConfigManifest \/ Reconcile \/ InterruptManifest
           \/ InvalidateManifest \/ RetryManifest \/ AcknowledgeManifest \/ StartManifest
           \/ FailManifest \/ CancelManifest \/ CaughtManifest \/ SucceedManifest
    PROVE  Follows
<1>1. faults \in Nat /\ faults' # faults + 1
  BY ServiceAssumption DEF RestOK
<1>2. projected'
  BY <1>1 DEF CreateManifest, ConfigManifest, Reconcile, InterruptManifest, InvalidateManifest,
     RetryManifest, AcknowledgeManifest, StartManifest, FailManifest, CancelManifest,
     CaughtManifest, SucceedManifest, WriteManifest, ReadOnly
<1> QED
  BY <1>2, ShownFollows

\* Events after which the command has the manifest still to write.
LEMMA EventsFollow ==
    ASSUME IInv, RequestKnown, faults' = faults, WriterStep,
           \/ CreateBatch \/ CreateJob \/ InterruptAttempt \/ Verify \/ InvalidateDamaged
           \/ \E p \in Profiles, boundary \in Stages : UpdateConfig(p, boundary)
           \/ \E j \in Jobs : CancelTarget(j) \/ \E s \in Stages : CancelAttempt(j, s)
           \/ ExecuteStage \/ CommitStage \/ FailStage \/ FailJob \/ CancelStage \/ CancelJob
    PROVE  Follows
<1>1. w \in Writers /\ faults \in Nat
  BY ServiceAssumption DEF IInv, Inv, RestOK
<1>2. queued'.op # "execute"
  <2>1. CASE CreateManifest
    <3>1. At("create") /\ Existing = Jobs
      BY <2>1 DEF CreateManifest
    <3> QED
      BY <3>1 DEF CreateBatch, CreateJob, InterruptAttempt, Verify, InvalidateDamaged, UpdateConfig,
         CancelTarget, CancelAttempt, ExecuteStage, CommitStage, FailStage, FailJob, CancelStage,
         CancelJob, At
  <2> QED
    BY <2>1, WriterAlone DEF RequestKnown, At
<1> DEFINE silent == {"create", "interrupt", "invalidate", "configured", "closing", "cancel", "commit",
                      "fail", "committed", "fail-job", "failed", "cancel-job", "cancel-manifest"}
<1>3. ASSUME NEW pc \in silent, w'.pc = pc PROVE Follows
  BY <1>2, <1>3, SilentFollows DEF Shown, Unmarking
<1>4. ASSUME NEW pc \in silent, Goto(pc) PROVE Follows
  BY <1>1, <1>3, <1>4, GotoKeeps
<1>5. ASSUME w' = w, w.pc \in silent PROVE Follows
  BY <1>3, <1>5
<1>6. ASSUME NEW pc \in silent, w.pc = pc, NEW todo,
             w' = [w EXCEPT !.todo = todo] \/ w' = [w EXCEPT !.pc = pc, !.todo = todo]
      PROVE  Follows
  <2>1. w'.pc = pc
    BY <1>1, <1>6 DEF Writers
  <2> QED
    BY <1>3, <2>1
<1>7. CASE CreateBatch \/ CreateJob \/ InterruptAttempt \/ InvalidateDamaged
  BY <1>4, <1>5, <1>6, <1>7 DEF CreateBatch, CreateJob, InterruptAttempt, InvalidateDamaged, At
<1>8. CASE Verify
  <2>1. ASSUME NEW todo, w' = [w EXCEPT !.pc = "invalidate", !.todo = todo] PROVE Follows
    <3>1. w'.pc = "invalidate"
      BY <1>1, <2>1 DEF Writers
    <3> QED
      BY <1>3, <3>1
  <2> QED
    BY <1>8, <2>1 DEF Verify
<1>9. CASE \E p \in Profiles, boundary \in Stages : UpdateConfig(p, boundary)
  BY <1>4, <1>9 DEF UpdateConfig
<1>10. CASE \E j \in Jobs : CancelTarget(j) \/ \E s \in Stages : CancelAttempt(j, s)
  BY <1>5, <1>6, <1>10 DEF CancelTarget, CancelAttempt, At
<1>11. CASE ExecuteStage
  BY <1>1, <1>4, <1>11 DEF ExecuteStage
<1>12. CASE CommitStage \/ FailStage \/ FailJob \/ CancelStage \/ CancelJob
  BY <1>4, <1>12 DEF CommitStage, FailStage, FailJob, CancelStage, CancelJob
<1> QED
  BY <1>7, <1>8, <1>9, <1>10, <1>11, <1>12

\* The entry of a stage up to its start, and what its errors come to.
LEMMA StageFollows ==
    ASSUME IInv, LeftoverOpen, RequestKnown, ManifestKnown, faults' = faults, WriterStep,
           \/ InvalidateStage \/ MakeWorkspace \/ StartStage \/ CommitManifest \/ Caught \/ Succeed
    PROVE  Follows
<1>1. /\ w \in Writers /\ faults \in Nat /\ projected \in BOOLEAN /\ JournalOK
      /\ w.job \in Existing /\ batch[w.job] \in JobRecord /\ w.job \in Jobs
  <2>1. w.job \in Existing /\ JournalOK
    BY DEF IInv, Inv, StageKnows, InvalidateStage, MakeWorkspace, StartStage, CommitManifest,
       Caught,
       Succeed, At, OnJob, OnStage, ToStart
  <2> QED
    BY <2>1, ServiceAssumption DEF IInv, Inv, RestOK, JournalOK, Existing
<1>2. queued'.op # "execute"
  <2>1. ~CreateManifest
    BY DEF CreateManifest, InvalidateStage, MakeWorkspace, StartStage, CommitManifest, Caught,
       Succeed, At
  <2> QED
    BY <2>1, WriterAlone DEF RequestKnown, At
<1> DEFINE silent == {"started", "caught-manifest", "succeeded"}
<1>3. ASSUME NEW pc \in silent, Goto(pc) PROVE Follows
  <2>1. w'.pc = pc
    BY <1>1, <1>3, GotoKeeps
  <2> QED
    BY <1>2, <1>3, <2>1, SilentFollows DEF Shown, Unmarking
<1>4. CASE projected /\ projected' = projected
  BY <1>4, ShownFollows
<1>5. CASE InvalidateStage
  <2> DEFINE r == Invalidated(batch[w.job], w.stage)
  <2>1. r.state = "pending"
    BY <1>1 DEF Invalidated, JobRecord
  <2>2. Append(w.job, r) /\ Goto("workspace") /\ leftover' = leftover /\ w.pc = "invalidate-stage"
    BY <1>5 DEF InvalidateStage, files, At
  <2> HIDE DEF r
  <2>3. batch'[w.job] = r
    BY <1>1, <2>2 DEF Append, JournalOK
  <2>4. w'.pc = "workspace" /\ w'.job = w.job /\ w'.stage = w.stage
    BY <1>1, <2>2, GotoKeeps DEF Kept
  <2>5. <<w.job, w.stage>> \notin leftover
    BY <2>2 DEF IInv, Inv, StageKnows, At, Current, LeftoverOpen
  <2> QED
    BY <1>2, <2>1, <2>2, <2>3, <2>4, <2>5 DEF Follows, ManifestKnown, Current, At, Shown, Unmarking
<1>6. CASE MakeWorkspace
  <2>1. w.pc = "workspace" /\ batch' = batch /\ projected' = projected
    BY <1>6 DEF MakeWorkspace, journal, At
  <2>2. CASE projected
    BY <1>4, <2>1, <2>2
  <2>3. CASE Current.state = "pending" /\ <<w.job, w.stage>> \notin leftover
    <3>1. w'.pc = "start" /\ w'.job = w.job
      BY <1>1, <1>6, <2>3, GotoKeeps DEF MakeWorkspace, Kept
    <3> QED
      BY <1>2, <2>1, <2>3, <3>1 DEF Follows, ManifestKnown, Current, At, Shown, Unmarking
  <2> QED
    BY <2>1, <2>2, <2>3 DEF ManifestKnown, At
<1>7. CASE StartStage
  <2>1. CASE Goto("started")
    BY <1>3, <2>1
  <2>2. CASE Raise("error") /\ UNCHANGED <<batch, projected>>
    <3>1. w'.pc = "caught" /\ w'.error = "error" /\ w'.job = w.job
      BY <1>1, <2>2, RaiseKeeps DEF Kept
    <3>2. projected \/ Current.state = "pending"
      BY <1>7 DEF StartStage, ManifestKnown, At
    <3> QED
      BY <1>2, <2>2, <3>1, <3>2 DEF Follows, ManifestKnown, Current, At, Shown, Unmarking
  <2> QED
    BY <1>7, <2>1, <2>2 DEF StartStage
<1>8. CASE CommitManifest
  <2>1. CASE Raise("post-commit")
    <3>1. w'.pc = "caught" /\ w'.error = "post-commit"
      BY <1>1, <2>1, RaiseKeeps
    <3> QED
      BY <1>2, <3>1 DEF Follows, ManifestKnown, At, Shown, Unmarking
  <2>2. CASE ~Raise("post-commit")
    BY <1>1, <1>8, <2>2, ShownFollows DEF CommitManifest, WriteManifest
  <2> QED
    BY <2>1, <2>2
<1>9. CASE Caught
  <2>1. CASE w.error = "cancelled"
    <3>1. w' = [w EXCEPT !.pc = "acknowledge", !.ret = "cancelled", !.seen = cancelBatch]
      BY <1>9, <2>1 DEF Caught
    <3>2. w'.pc = "acknowledge" /\ w'.ret = "cancelled"
      BY <1>1, <3>1 DEF Writers
    <3> QED
      BY <1>2, <3>2 DEF Follows, ManifestKnown, At, Shown, Unmarking
  <2>2. CASE Goto("caught-manifest")
    BY <1>3, <2>2
  <2>3. CASE Stop /\ UNCHANGED <<batch, projected>> /\ w.error # "cancelled"
             /\ ~JobFails
    <3>1. projected \/ w.error = "post-commit"
      BY <1>9, <2>3 DEF Caught, JobFails, ManifestKnown, At, Current, FailedOK
    <3>2. w'.pc = "idle"
      BY <2>3, StopIdles
    <3> QED
      BY <1>2, <1>4, <2>3, <3>1, <3>2 DEF Follows, ManifestKnown, At, Shown, Unmarking
  <2> QED
    BY <1>9, <2>1, <2>2, <2>3 DEF Caught
<1>10. CASE Succeed
  <2>1. projected
    BY <1>10 DEF Succeed, ManifestKnown, At, Shown
  <2>2. projected' = projected \/ Goto("succeeded")
    BY <1>10 DEF Succeed
  <2> QED
    BY <1>3, <1>4, <2>1, <2>2
<1> QED
  BY <1>5, <1>6, <1>7, <1>8, <1>9, <1>10

\* acknowledge_cancel_requests: the command that only finalizes a cancel finds
\* its marker.
LEMMA AcknowledgeFollows ==
    ASSUME IInv, RequestKnown, ManifestKnown, Acknowledge
    PROVE  Follows
<1>1. w \in Writers /\ w.pc = "acknowledge" /\ projected' = projected /\ queued' = queued
  BY DEF IInv, Inv, Acknowledge, At, ReadOnly, env
<1>2. queued'.op # "execute"
  BY <1>1 DEF RequestKnown, At
<1> DEFINE active  == IF w.ret = "cancelled" THEN {w.job} ELSE {}
           targets == IF cancelBatch THEN Existing ELSE active \union (cancelJob \intersect Existing)
<1>3. CASE w' = [w EXCEPT !.pc = "closing", !.whole = cancelBatch, !.targets = targets,
                 !.todo = targets]
  <2> HIDE DEF targets
  <2>1. w'.pc = "closing"
    BY <1>1, <1>3 DEF Writers
  <2> QED
    BY <1>2, <2>1, SilentFollows DEF Shown, Unmarking
<1>4. CASE targets = {}
  <2>1. w.ret # "cancelled" /\ (Existing # {} => ~Marked)
    BY <1>4 DEF Marked, IInv, Inv, LoopsKnow
  <2>2. w.op # "cancel"
    BY <1>1, <2>1 DEF RequestKnown, At
  <2>3. projected
    BY <1>1, <2>1, <2>2 DEF ManifestKnown, At
  <2> QED
    BY <1>1, <2>3, ShownFollows
<1> QED
  BY <1>3, <1>4 DEF Acknowledge

\* The other threads and the environment.
LEMMA OutsideFollows ==
    ASSUME IInv, RequestKnown, ManifestKnown, crashes' = crashes, Outside
    PROVE  Follows
<1>1. crashes \in Nat /\ crashes' # crashes + 1
  BY ServiceAssumption DEF IInv, RestOK
<1>2. CASE w' = w /\ UNCHANGED <<batch, projected, leftover>>
            /\ (queued'.op = "execute" => queued'.op = queued.op)
  BY <1>2 DEF Follows, ManifestKnown, At, Current
<1>3. CASE projected /\ projected' = projected
  BY <1>3, ShownFollows
<1>4. CASE FinalizeCancel /\ w' # w
  <2>1. w'.pc = "acknowledge" /\ w'.op = "cancel" /\ w'.ret = "idle" /\ queued' = queued
    BY <1>4 DEF FinalizeCancel, Idle
  <2>2. queued = NotQueued
    BY <1>4 DEF FinalizeCancel, RequestKnown, Requested
  <2> QED
    BY <2>1, <2>2 DEF Follows, ManifestKnown, At, Shown, Unmarking, NotQueued
<1>5. ASSUME w'.pc \in {"reconcile", "configure", "retried"}, queued'.op # "execute" PROVE Follows
  BY <1>5, SilentFollows DEF Shown, Unmarking
<1>6. CASE Execute
  <2>1. queued.op = "execute" => projected
    BY DEF ManifestKnown
  <2>2. queued' = NotQueued /\ leftover' = leftover
    BY <1>6 DEF Execute, files
  <2>3. queued.op # "execute" => UNCHANGED <<batch, projected, w>> \/ w'.pc \in {"reconcile", "retried"}
    BY <1>6 DEF Execute, BeginResume, BeginRetry, Idle
  <2>4. queued.op = "execute" => projected' = projected
    BY <1>6 DEF Execute
  <2> QED
    BY <1>2, <1>3, <1>5, <2>1, <2>2, <2>3, <2>4 DEF NotQueued
<1>7. CASE StartResume \/ \E j \in Jobs, s \in Stages : StartRetry(j, s)
  <2>1. queued'.op # "execute" /\ leftover' = leftover
    BY <1>7 DEF StartResume, StartRetry, Unscheduled, NotQueued, files
  <2>2. UNCHANGED <<batch, projected, w>> \/ w'.pc \in {"reconcile", "configure", "retried"}
    BY <1>7 DEF StartResume, StartRetry, BeginResume, BeginRetry, Idle, journal
  <2> QED
    BY <1>2, <1>5, <2>1, <2>2
<1>8. CASE \E j \in Jobs \union {0} : RequestCancel(j)
  BY <1>2, <1>8 DEF RequestCancel, NotQueued, journal, files
<1>9. CASE \/ MarkCancel \/ DropPause \/ MarkPause \/ (FinalizeCancel /\ w' = w)
           \/ RequestPause \/ UNCHANGED vars \/ \E j \in Jobs, s \in Stages : Rot(j, s)
  BY <1>2, <1>9 DEF MarkCancel, DropPause, MarkPause, FinalizeCancel, RequestPause, vars, Rot,
     journal,
     files, env
<1> QED
  BY <1>1, <1>4, <1>6, <1>7, <1>8, <1>9 DEF Outside, RequestStep, Crash

\* Until something fails every step leaves what is known of the manifest.
LEMMA StepFollows ==
    ASSUME IInv, LeftoverOpen, RequestKnown, ManifestFollows, [Next]_vars, faults' = 0,
           crashes' = crashes
    PROVE  Follows
<1>1. faults \in Nat
  BY ServiceAssumption DEF IInv, RestOK
<1>2. CASE WriterStep
  <2>1. faults' = faults /\ ManifestKnown
    BY <1>1, <1>2, WriterAlone DEF ManifestFollows
  <2>2. CASE CreateBatch \/ CreateJob \/ CreateManifest \/ ResumeStep \/ RetryManifest
    BY <1>2, <2>1, <2>2, ReadsFollow, WritesFollow, EventsFollow DEF ResumeStep, IInv
  <2>3. CASE AcknowledgeStep \/ RunStep
    BY <1>2, <2>1, <2>3, ReadsFollow, WritesFollow, EventsFollow, AcknowledgeFollows
       DEF AcknowledgeStep, IInv
  <2>4. CASE JobStep
    BY <1>2, <2>1, <2>4, ReadsFollow, WritesFollow, EventsFollow, StageFollows DEF JobStep, IInv
  <2>5. ~AppendFails
    BY <1>1 DEF AppendFails
  <2> QED
    BY <1>2, <2>2, <2>3, <2>4, <2>5 DEF WriterStep
<1>3. CASE Outside
  BY <1>3, OutsideMoves, OutsideFollows DEF ManifestFollows
<1> QED
  BY <1>2, <1>3 DEF Next, Outside

\* What is known of the workspaces and the manifest holds throughout.
LEMMA ManifestInvariant == Spec => [](LeftoverOpen /\ ManifestFollows)
<1>1. Init => LeftoverOpen /\ ManifestFollows
  <2> SUFFICES ASSUME Init PROVE LeftoverOpen /\ ManifestKnown
    BY DEF ManifestFollows
  <2>1. w.pc = "open" /\ leftover = {} /\ queued = NotQueued
    BY DEF Init, Idle
  <2> QED
    BY <2>1 DEF LeftoverOpen, ManifestKnown, At, Attempting, Shown, Unmarking, NotQueued
<1>2. ASSUME IInv, LeftoverOpen, RequestKnown, ManifestFollows, [Next]_vars
      PROVE  ManifestFollows'
  <2>1. CASE crashes' = crashes
    BY <1>2, <2>1, StepFollows DEF ManifestFollows, Follows
  <2>2. CASE crashes' # crashes
    <3>1. Crash
      BY <1>2, <2>2, WriterAlone DEF Next, RequestStep, MarkCancel, DropPause, FinalizeCancel,
         MarkPause,
         RequestPause, vars, env, RequestCancel, Execute, StartResume, StartRetry, Rot
    <3> QED
      BY <3>1 DEF Crash, ManifestFollows, ManifestKnown, Idle, NotQueued, At, Shown, Unmarking
  <2> QED
    BY <2>1, <2>2
<1>3. IInv /\ RequestKnown /\ LeftoverOpen /\ ManifestFollows /\ [Next]_vars
      => LeftoverOpen' /\ ManifestFollows'
  BY <1>2, LeftoverStep
<1> QED
  BY Invariant, RequestsInvariant, <1>1, <1>3, PTL DEF Spec

\* Until the first failed write or unexpected exception a command that ends by
\* itself leaves a manifest of the whole journal, whichever of its returns and
\* errors it ends by.
THEOREM ManifestsAreLeft == Spec => ManifestOnExit
<1>1. IInv /\ RequestKnown /\ LeftoverOpen /\ ManifestFollows /\ [Next]_vars
      => [~At("idle") /\ w'.pc = "idle" /\ crashes' = crashes /\ faults' = 0
            => projected' \/ w.error = "post-commit"]_vars
  BY StepFollows DEF Follows
<1> QED
  BY Invariant, RequestsInvariant, ManifestInvariant, <1>1, PTL DEF Spec, ManifestOnExit

-----------------------------------------------------------------------------
(* What the desktop shows and offers                                        *)

\* The first stage a retry would run is not one that was never begun: an
\* attempt that is or was open began when all stages before its own were done.
\* And success is that of all stages.
Coherent(r) ==
    /\ \A s, t \in Plan[r.profile] : t < s /\ r.stage[s] = "running" => r.stage[t] # "pending"
    /\ r.state = "interrupted" =>
          \A s \in Plan[r.profile] : r.stage[s] = "pending" =>
              \E t \in Plan[r.profile] : t < s /\ r.stage[t] # "committed"
    /\ r.state = "succeeded" => AllCommitted(r)

ViewsKnown == lost \subseteq Existing /\ \A j \in Existing : Coherent(batch[j])

\* One event is appended, about a job and a stage of its plan, or all jobs get
\* a new configuration, or the journal stays as it is.
Event(j, r) ==
    \/ \E s \in Plan[batch[j].profile], n \in Nat :
          /\ StartedOK(batch[j], s, n) /\ r = Started(batch[j], s, n)
          /\ At("start") /\ j = w.job /\ s = w.stage
    \/ \E s \in Plan[batch[j].profile], outcome \in Outcomes :
          /\ batch[j].stage[s] = "running" /\ r = Closed(batch[j], s, outcome)
    \/ \E s \in Stages : r \in {Invalidated(batch[j], s), Retried(batch[j], s)}
    \/ r = Ended(batch[j], "succeeded") /\ AllCommitted(batch[j])
    \/ \E state \in {"failed", "cancelled"} : r = Ended(batch[j], state)

\* Each step appends one event at most.
LEMMA StepEvents ==
    ASSUME IInv, [Next]_vars
    PROVE  \/ batch' = batch \/ CreateJob
           \/ \E p \in Profiles, b \in Stages : UpdateConfig(p, b)
           \/ \E j \in Existing : \E r : Event(j, r) /\ Append(j, r)
<1>1. /\ \A j \in Jobs : batch[j] \in JobRecord /\ Recorded(batch[j])
      /\ StageKnows /\ LoopsKnow /\ QueueOK
      /\ \A j \in Existing : /\ batch[j].profile \in Profiles
                            /\ Plan[batch[j].profile] \subseteq Stages
      /\ \A j \in Existing, s \in Stages :
            batch[j].stage[s] = "running" => s \in Plan[batch[j].profile]
  BY PlanAssumption DEF IInv, Inv, JournalOK, Recorded, JobRecord, Existing
<1> DEFINE goal == \E j \in Existing : \E r : Event(j, r) /\ Append(j, r)
<1>2. CASE CreateBatch \/ CreateJob \/ CreateManifest \/ RetryManifest \/ RunStep
  BY <1>2 DEF CreateBatch, CreateManifest, RetryManifest, RunStep, Run,
     RunAcknowledged,
     NextJob, NextJobPause, AfterJob, AfterJobPause, WriteManifest, ReadOnly, journal
<1>3. CASE ResumeStep
  <2>1. CASE InterruptAttempt
    <3>1. PICK js \in Running : Append(js[1], Closed(batch[js[1]], js[2], "interrupted"))
      BY <2>1 DEF InterruptAttempt
    <3>2. js[1] \in Existing /\ js[2] \in Plan[batch[js[1]].profile]
          /\ batch[js[1]].stage[js[2]] = "running" /\ "interrupted" \in Outcomes
      BY <1>1, <3>1 DEF Running, Outcomes
    <3>3. Event(js[1], Closed(batch[js[1]], js[2], "interrupted"))
      BY <3>2 DEF Event
    <3> QED
      BY <3>1, <3>2, <3>3
  <2>2. CASE InvalidateDamaged
    <3> DEFINE js == CHOOSE x \in w.todo : \A y \in w.todo : x[1] <= y[1]
    <3>1. Append(js[1], Invalidated(batch[js[1]], js[2])) /\ At("invalidate") /\ w.todo # {}
      BY <2>2 DEF InvalidateDamaged
    <3>2. js \in w.todo
      <4>1. w.todo # {} /\ \A x \in w.todo : x[1] \in Nat
        BY <1>1, <3>1, ServiceAssumption DEF LoopsKnow, Existing
      <4>2. \E x \in w.todo : \A y \in w.todo : x[1] <= y[1]
        <5> DEFINE S == {x[1] : x \in w.todo}
        <5>1. S \subseteq Nat /\ S # {}
          BY <4>1
        <5> HIDE DEF S
        <5>2. Least(S) \in S /\ \A y \in S : Least(S) <= y
          BY <5>1, LeastIn
        <5> QED
          BY <5>2 DEF S
      <4> QED
        BY <4>2
    <3> HIDE DEF js
    <3>3. js[1] \in Existing /\ js[2] \in Stages
      BY <1>1, <3>1, <3>2 DEF LoopsKnow
    <3>4. Event(js[1], Invalidated(batch[js[1]], js[2]))
      BY <3>3 DEF Event
    <3> QED
      BY <3>1, <3>3, <3>4
  <2> QED
    BY <1>3, <2>1, <2>2 DEF ResumeStep, ConfigManifest, Reconcile, InterruptManifest,
       Verify, InvalidateManifest, RemoveWorkspaces, ClearPause, WriteManifest, ReadOnly, journal
<1>4. CASE AcknowledgeStep
  <2>1. ASSUME NEW j \in Jobs, NEW s \in Stages, CancelAttempt(j, s) PROVE goal
    <3>1. j \in Existing /\ s \in Plan[batch[j].profile] /\ batch[j].stage[s] = "running"
           /\ Append(j, Closed(batch[j], s, "cancelled")) /\ "cancelled" \in Outcomes
      BY <1>1, <2>1 DEF CancelAttempt, Running, Outcomes
    <3>2. Event(j, Closed(batch[j], s, "cancelled"))
      BY <3>1 DEF Event
    <3> QED
      BY <3>1, <3>2
  <2>2. ASSUME NEW j \in Jobs, CancelTarget(j) PROVE goal \/ batch' = batch
    <3>1. batch' = batch \/ (j \in Existing /\ Append(j, Ended(batch[j], "cancelled")))
      BY <2>2 DEF CancelTarget, CancelDue, Existing
    <3>2. Event(j, Ended(batch[j], "cancelled"))
      BY DEF Event, Terminal
    <3> QED
      BY <3>1, <3>2
  <2> QED
    BY <1>4, <2>1, <2>2 DEF AcknowledgeStep, Acknowledge, AcknowledgeManifest, ClearBatchMarker,
       ClearPauseMarker, ClearJobMarker, Acknowledged, WriteManifest, ReadOnly, journal
<1>5. CASE JobStep
  <2> DEFINE j == w.job
             s == w.stage
  <2>1. w.pc \in OnJob => j \in Existing
    BY <1>1 DEF StageKnows
  <2>2. w.pc \in OnStage => s \in Plan[batch[j].profile] /\ s \in Stages /\ w.pc \in OnJob
    BY <1>1, <2>1 DEF StageKnows, Current, OnJob
  <2>3. w.pc \in Attempting => batch[j].stage[s] = "running"
    BY <1>1 DEF StageKnows, Current
  <2>4. CASE StartStage
    <3> DEFINE n == batch[j].attempt[s] + 1
    <3>1. At("start") /\ w.pc \in OnStage
      BY <2>4 DEF StartStage, At, OnStage, ToStart
    <3>2. n \in Nat
      BY <1>1, <2>1, <2>2, <3>1 DEF JobRecord, Existing
    <3>3. batch' = batch \/ (StartedOK(batch[j], s, n) /\ Append(j, Started(batch[j], s, n)))
      BY <2>4 DEF StartStage
    <3>4. StartedOK(batch[j], s, n) => Event(j, Started(batch[j], s, n))
      BY <2>2, <3>1, <3>2 DEF Event
    <3> QED
      BY <2>1, <2>2, <3>1, <3>3, <3>4
  <2>5. CASE CommitStage \/ FailStage \/ CancelStage
    <3>1. PICK outcome \in Outcomes : Append(j, Closed(batch[j], s, outcome))
      BY <2>5 DEF CommitStage, FailStage, CancelStage, Outcomes
    <3>2. w.pc \in Attempting /\ w.pc \in OnStage
      BY <2>5 DEF CommitStage, FailStage, CancelStage, At, Attempting, OnStage
    <3>3. Event(j, Closed(batch[j], s, outcome))
      BY <2>2, <2>3, <3>2 DEF Event
    <3> QED
      BY <2>1, <2>2, <3>1, <3>2, <3>3
  <2>6. CASE InvalidateStage
    <3>1. w.pc \in OnStage /\ Append(j, Invalidated(batch[j], s))
      BY <2>6 DEF InvalidateStage, At, OnStage, ToStart
    <3>2. Event(j, Invalidated(batch[j], s))
      BY <2>2, <3>1 DEF Event
    <3> QED
      BY <2>1, <2>2, <3>1, <3>2
  <2>7. CASE FailJob \/ CancelJob \/ Caught \/ Succeed
    <3>1. w.pc \in OnJob
      BY <2>7 DEF FailJob, CancelJob, Caught, Succeed, At, OnJob
    <3>2. \/ batch' = batch
          \/ Append(j, Ended(batch[j], "succeeded")) /\ AllCommitted(batch[j])
          \/ \E state \in {"failed", "cancelled"} : Append(j, Ended(batch[j], state))
      BY <2>7 DEF FailJob, CancelJob, Caught, Succeed, SucceededOK
    <3>3. /\ AllCommitted(batch[j]) => Event(j, Ended(batch[j], "succeeded"))
          /\ \A state \in {"failed", "cancelled"} : Event(j, Ended(batch[j], state))
      BY DEF Event
    <3> QED
      BY <2>1, <3>1, <3>2, <3>3
  <2> QED
    BY <1>5, <2>4, <2>5, <2>6, <2>7 DEF JobStep, CheckCancel, EnterStage, MakeWorkspace,
       StartManifest, ExecuteStage, CommitManifest, FailManifest, CancelManifest, CaughtManifest,
       JobCancelled, SucceedManifest, ClearMarker, WriteManifest, ReadOnly, journal
<1>6. CASE Outside
  <2>1. ASSUME NEW j \in Existing, NEW s \in Stages, BeginRetry(j, s) PROVE batch' = batch \/ goal
    <3>1. Event(j, Retried(batch[j], s))
      BY DEF Event
    <3> QED
      BY <2>1, <3>1 DEF BeginRetry
  <2>2. CASE RequestStep \/ RequestPause \/ Crash \/ UNCHANGED vars
             \/ StartResume \/ (\E j \in Jobs \union {0} : RequestCancel(j))
             \/ \E j \in Jobs, s \in Stages : Rot(j, s)
    BY <2>2 DEF RequestStep, MarkCancel, DropPause, FinalizeCancel, MarkPause, RequestPause,
       Crash, vars, RequestCancel, StartResume, Rot, journal
  <2>3. CASE \E j \in Jobs, s \in Stages : StartRetry(j, s)
    BY <2>1, <2>3 DEF StartRetry
  <2>4. CASE Execute
    BY <1>1, <2>1, <2>4 DEF Execute, QueueOK
  <2> QED
    BY <1>6, <2>2, <2>3, <2>4 DEF Outside
<1>7. CASE AppendFails
  BY <1>7 DEF AppendFails, journal
<1> QED
  BY <1>2, <1>3, <1>4, <1>5, <1>6, <1>7 DEF Next, WriterStep, Outside

\* Every event leaves the records of the other jobs, and of the jobs there are
\* none goes.
LEMMA EventsAppend ==
    ASSUME IInv, NEW j \in Existing, NEW r, Event(j, r), Append(j, r)
    PROVE  /\ \A k \in Jobs : batch'[k] = IF k = j THEN r ELSE batch[k]
           /\ Existing' = Existing
<1>1. JournalOK /\ batch[j] \in JobRecord /\ batch[j].state # "absent"
  BY DEF IInv, Inv, JournalOK, Existing
<1>2. r.state # "absent"
  <2>1. CASE \E state : r = Ended(batch[j], state) /\ state # "absent"
    BY <1>1, <2>1 DEF Ended, JobRecord
  <2>2. CASE \/ \E s \in Stages, n \in Nat : r = Started(batch[j], s, n)
             \/ \E s \in Stages, outcome \in Outcomes : r = Closed(batch[j], s, outcome)
             \/ \E s \in Stages : r \in {Invalidated(batch[j], s), Retried(batch[j], s)}
    BY <1>1, <2>2 DEF Started, Closed, Outcomes, Invalidated, Retried, JobRecord
  <2>3. Plan[batch[j].profile] \subseteq Stages
    BY <1>1, PlanAssumption DEF JobRecord
  <2> QED
    BY <2>1, <2>2, <2>3 DEF Event
<1> QED
  BY <1>1, <1>2, Appended

\* No event takes apart what hangs together.
LEMMA EventsCoherent ==
    ASSUME IInv, NEW j \in Existing, Coherent(batch[j]), NEW r, Event(j, r)
    PROVE  Coherent(r)
<1> DEFINE q == batch[j]
           P == Plan[q.profile]
<1>1. q \in JobRecord /\ Recorded(q) /\ P \subseteq Stages /\ P \subseteq Nat /\ P = Plan[q.profile]
  BY PlanAssumption DEF IInv, Inv, JournalOK, Recorded, JobRecord, Existing
<1>2. /\ \A s, t \in P : t < s /\ q.stage[s] = "running" => q.stage[t] # "pending"
      /\ q.state = "interrupted" => \A s \in P : q.stage[s] = "pending" =>
            \E t \in P : t < s /\ q.stage[t] # "committed"
  BY DEF Coherent
<1>3. \A s, t \in P : t < s /\ DependenciesCommitted(q, s) => q.stage[t] = "committed"
  BY <1>1, EarlierCommitted
<1> DEFINE started == \E s \in P, n \in Nat : StartedOK(q, s, n) /\ r = Started(q, s, n)
           closed == \E s \in P, outcome \in Outcomes :
                        q.stage[s] = "running" /\ r = Closed(q, s, outcome)
           reset == \E s \in Stages : r \in {Invalidated(q, s), Retried(q, s)}
           ended == \/ r = Ended(q, "succeeded") /\ AllCommitted(q)
                    \/ \E state \in {"failed", "cancelled"} : r = Ended(q, state)
<1>0. started \/ closed \/ reset \/ ended
  BY DEF Event
<1> HIDE DEF q, P
<1>4. CASE started
  <2>1. PICK s \in P, n \in Nat : StartedOK(q, s, n) /\ r = Started(q, s, n)
    BY <1>4
  <2>2. r.state = "running" /\ r.profile = q.profile
        /\ \A t \in Stages : r.stage[t] = IF t = s THEN "running" ELSE q.stage[t]
    BY <1>1, <2>1 DEF Started, JobRecord
  <2>3. \A t \in P : t < s => q.stage[t] = "committed"
    BY <1>3, <2>1 DEF StartedOK
  <2> QED
    BY <1>1, <1>2, <2>2, <2>3 DEF Coherent
<1>5. CASE closed
  <2>1. PICK s \in P, outcome \in Outcomes : q.stage[s] = "running" /\ r = Closed(q, s, outcome)
    BY <1>5
  <2>2. r.profile = q.profile /\ (r.state = "interrupted" => outcome = "interrupted")
        /\ r.state # "succeeded"
        /\ \A t \in Stages : r.stage[t] = IF t = s THEN outcome ELSE q.stage[t]
    BY <1>1, <2>1 DEF Closed, JobRecord, Outcomes
  <2>3. ASSUME NEW u \in P, r.stage[u] = "pending"
        PROVE  \E t \in P : t < u /\ (r.state = "interrupted" => r.stage[t] # "committed")
    <3>1. u # s /\ q.stage[u] = "pending" /\ s \in Nat /\ u \in Nat
      BY <1>1, <2>2, <2>3 DEF Outcomes
    <3>2. s < u
      BY <1>2, <2>1, <3>1
    <3> QED
      BY <1>1, <2>2, <3>2
  <2> QED
    BY <1>1, <1>2, <2>2, <2>3 DEF Coherent, Outcomes
<1>6. CASE \E s \in Stages : r = Invalidated(q, s)
  <2>1. r.profile = q.profile /\ r.state = "pending"
        /\ \A t \in Stages : r.stage[t] \in {q.stage[t], "invalidated"}
    BY <1>1, <1>6 DEF Invalidated, JobRecord
  <2> QED
    BY <1>1, <1>2, <2>1 DEF Coherent
<1>7. CASE \E s \in Stages : r = Retried(q, s)
  <2>1. PICK s \in Stages : r = Retried(q, s)
    BY <1>7
  <2>2. r.profile = q.profile /\ r.state = "pending"
        /\ \A t \in P : r.stage[t] = IF t >= s THEN "pending" ELSE q.stage[t]
    BY <1>1, <2>1 DEF Retried, JobRecord, Suffix
  <2>3. s \in Nat
    BY PlanAssumption
  <2> QED
    BY <1>1, <1>2, <2>2, <2>3 DEF Coherent
<1>8. CASE ended
  <2>1. r.profile = q.profile /\ r.state # "interrupted" /\ r.stage = q.stage
        /\ (r.state = "succeeded" => AllCommitted(q))
    BY <1>1, <1>8 DEF Ended, JobRecord
  <2> QED
    BY <1>1, <1>2, <2>1 DEF Coherent, AllCommitted
<1> QED
  BY <1>0, <1>4, <1>5, <1>6, <1>7, <1>8

\* A new plan keeps an open attempt only where it keeps all stages before it.
LEMMA ReconfiguredCoherent ==
    ASSUME IInv, NEW p \in Profiles, NEW b \in Stages, UpdateConfig(p, b), NEW j \in Existing,
           Coherent(batch[j])
    PROVE  Coherent(Reconfigured(batch[j], p, b))
<1> DEFINE q == batch[j]
           old == Plan[q.profile]
           new == Plan[p]
           r == Reconfigured(q, p, b)
<1>1. /\ q \in JobRecord /\ b \in Nat
      /\ old \subseteq Nat /\ new \subseteq Nat /\ new \subseteq Stages
      /\ 1 \in Existing /\ batch[1].profile = q.profile
  BY PlanAssumption, ServiceAssumption DEF IInv, Inv, JournalOK, JobRecord, Existing
<1>2. \A s, t \in new : s \in old /\ s < b /\ t < s => t \in old
  <2>1. \A t \in (old \ new) \union (new \ old), kept \in new : kept < b => kept < t
    BY <1>1 DEF UpdateConfig
  <2>2. \A s, t \in new : t < s => ~(s < t)
    BY <1>1
  <2> QED
    BY <2>1, <2>2
<1>3. r.profile = p /\ r.state # "interrupted" /\ r.state # "succeeded"
      /\ \A t \in new : /\ r.stage[t] = "running" => t \in old /\ t < b /\ q.stage[t] = "running"
                        /\ t \in old /\ t < b => r.stage[t] = q.stage[t]
  BY <1>1 DEF Reconfigured, ReconfiguredStage
<1>4. \A s, t \in old : t < s /\ q.stage[s] = "running" => q.stage[t] # "pending"
  BY DEF Coherent
<1> HIDE DEF q, old, new, r
<1>5. ASSUME NEW s \in new, NEW t \in new, t < s, r.stage[s] = "running"
      PROVE  r.stage[t] # "pending"
  <2>1. s \in old /\ s < b /\ q.stage[s] = "running"
    BY <1>3, <1>5
  <2>2. t \in old /\ t < b
    BY <1>1, <1>2, <1>5, <2>1
  <2> QED
    BY <1>3, <1>4, <1>5, <2>1, <2>2
<1> QED
  BY <1>3, <1>5 DEF Coherent, q, r, new

\* Steps that log nothing lose no input but of a job that is there.
LEMMA InputsLost ==
    ASSUME [Next]_vars
    PROVE  lost' = lost \/ (batch' = batch /\ \E j \in Existing : lost' = lost \union {j})
<1>1. CASE CreateBatch \/ CreateJob \/ CreateManifest \/ RetryManifest \/ RunStep \/ ResumeStep
  BY <1>1 DEF CreateBatch, CreateJob, CreateManifest, RetryManifest, RunStep, Run, RunAcknowledged,
     NextJob, NextJobPause, AfterJob, AfterJobPause, WriteManifest, ReadOnly, files, ResumeStep,
     UpdateConfig, ConfigManifest, Reconcile, InterruptAttempt, InterruptManifest, Verify,
     InvalidateDamaged, InvalidateManifest, RemoveWorkspaces, ClearPause
<1>2. CASE AcknowledgeStep
  BY <1>2 DEF AcknowledgeStep, Acknowledge, CancelTarget, CancelAttempt,
     AcknowledgeManifest, ClearBatchMarker, ClearPauseMarker, ClearJobMarker, Acknowledged,
     WriteManifest, ReadOnly, files
<1>3. CASE JobStep
  BY <1>3 DEF JobStep, CheckCancel, EnterStage, InvalidateStage, MakeWorkspace, StartStage,
     StartManifest, ExecuteStage, CommitStage, CommitManifest, FailStage, FailJob, FailManifest,
     CancelStage, CancelJob, CancelManifest, Caught, CaughtManifest, JobCancelled, Succeed,
     SucceedManifest, ClearMarker, WriteManifest, ReadOnly, files
<1>4. CASE Outside
  <2>1. ASSUME NEW j \in Jobs, NEW s \in Stages, Rot(j, s)
        PROVE  batch' = batch /\ j \in Existing /\ lost' \in {lost, lost \union {j}}
    BY <2>1 DEF Rot, journal
  <2>2. CASE RequestStep \/ RequestPause \/ Crash \/ UNCHANGED vars
             \/ StartResume \/ Execute \/ (\E j \in Jobs \union {0} : RequestCancel(j))
             \/ \E j \in Jobs, s \in Stages : StartRetry(j, s)
    BY <2>2 DEF RequestStep, MarkCancel, DropPause, FinalizeCancel, MarkPause, RequestPause,
       Crash, vars, RequestCancel, StartResume, Execute, StartRetry, files
  <2> QED
    BY <1>4, <2>1, <2>2 DEF Outside
<1>5. CASE AppendFails
  BY <1>5 DEF AppendFails
<1> QED
  BY <1>1, <1>2, <1>3, <1>4, <1>5 DEF Next, WriterStep, Outside

\* What the views rest on holds throughout.
LEMMA ViewsInvariant == Spec => []ViewsKnown
<1>1. Init => ViewsKnown
  <2> SUFFICES ASSUME Init PROVE ViewsKnown
    OBVIOUS
  <2>1. lost = {} /\ Existing = {}
    BY DEF Init, Existing, NewJob
  <2> QED
    BY <2>1 DEF ViewsKnown
<1>2. ASSUME IInv, ViewsKnown, [Next]_vars PROVE ViewsKnown'
  <2>1. \A j \in Existing : Coherent(batch[j])
    BY <1>2 DEF ViewsKnown
  <2>2. CASE batch' = batch
    <3>1. Existing' = Existing /\ lost' \subseteq Existing
      BY <1>2, <2>2, InputsLost DEF Existing, ViewsKnown
    <3> QED
      BY <2>1, <2>2, <3>1 DEF ViewsKnown, Coherent
  <2>3. ASSUME batch' # batch, Existing \subseteq Existing',
               \A j \in Existing' : Coherent(batch'[j])
        PROVE  ViewsKnown'
    <3>1. lost' = lost
      BY <1>2, <2>3, InputsLost
    <3> QED
      BY <1>2, <2>3, <3>1 DEF ViewsKnown, Coherent
  <2>4. CASE CreateJob
    <3> DEFINE j == Least(Jobs \ Existing)
               r == [batch[j] EXCEPT !.state = "pending"]
    <3>1. j \in Jobs \ Existing /\ JournalOK /\ Append(j, r)
      <4>1. Jobs \ Existing # {} /\ Jobs \ Existing \subseteq Nat
        BY <2>4, ServiceAssumption DEF CreateJob, Existing
      <4> QED
        BY <1>2, <2>4, <4>1, LeastIn DEF CreateJob, IInv, Inv
    <3>2. batch[j] \in JobRecord /\ batch[j].state = "absent" /\ Recorded(batch[j])
      BY <3>1 DEF JournalOK, Existing
    <3>3. batch[j].stage = [s \in Stages |-> "pending"] /\ Plan[batch[j].profile] \subseteq Stages
      BY <3>2, PlanAssumption DEF Recorded, NewJob, JobRecord
    <3>4. r.state = "pending" /\ r.stage = batch[j].stage /\ r.profile = batch[j].profile
      BY <3>2 DEF JobRecord
    <3>5. Coherent(r)
      BY <3>3, <3>4 DEF Coherent
    <3>6. \A k \in Jobs : batch'[k] = IF k = j THEN r ELSE batch[k]
      BY <3>1 DEF JournalOK, Append
    <3> HIDE DEF j, r
    <3>7. Existing \subseteq Existing' /\ \A k \in Existing' : k = j \/ k \in Existing
      BY <3>1, <3>6 DEF Existing
    <3>8. \A k \in Existing' : Coherent(batch'[k])
      BY <2>1, <3>1, <3>5, <3>6, <3>7 DEF Existing
    <3> QED
      BY <2>2, <2>3, <3>7, <3>8
  <2>5. ASSUME NEW p \in Profiles, NEW b \in Stages, UpdateConfig(p, b) PROVE ViewsKnown'
    <3>1. \A k \in Jobs : batch'[k] =
            IF k \in Existing THEN Reconfigured(batch[k], p, b) ELSE batch[k]
      BY <2>5 DEF UpdateConfig
    <3>2. \A k \in Jobs : Reconfigured(batch[k], p, b).state # "absent"
      BY DEF Reconfigured
    <3>3. Existing' = Existing
      BY <3>1, <3>2 DEF Existing
    <3>4. \A k \in Existing : Coherent(Reconfigured(batch[k], p, b))
      BY <1>2, <2>1, <2>5, ReconfiguredCoherent
    <3>5. \A k \in Existing : k \in Jobs
      BY DEF Existing
    <3>6. \A k \in Existing' : Coherent(batch'[k])
      BY <3>1, <3>3, <3>4, <3>5
    <3> QED
      BY <2>2, <2>3, <3>3, <3>6
  <2>6. ASSUME NEW j \in Existing, NEW r, Event(j, r), Append(j, r) PROVE ViewsKnown'
    <3>1. Coherent(r)
      BY <1>2, <2>1, <2>6, EventsCoherent
    <3>2. Existing' = Existing /\ \A k \in Jobs : batch'[k] = IF k = j THEN r ELSE batch[k]
      BY <1>2, <2>6, EventsAppend
    <3>3. \A k \in Existing' : Coherent(batch'[k])
      BY <2>1, <3>1, <3>2 DEF Existing
    <3> QED
      BY <2>2, <2>3, <3>2, <3>3
  <2> QED
    BY <1>2, <2>2, <2>4, <2>5, <2>6, StepEvents
<1> QED
  BY Invariant, <1>1, <1>2, PTL DEF Spec

\* The stage a retry would run: the stages before it are committed, and replay
\* takes the retry of a job that is failed, cancelled or interrupted.
LEMMA RetryTaken ==
    ASSUME IInv, NEW j \in Existing, Coherent(batch[j]), ~AllCommitted(batch[j]),
           batch[j].state \in {"failed", "cancelled", "interrupted"}
    PROVE  RetryOK(batch[j], EarliestRetryStage(j))
<1> DEFINE r == batch[j]
           P == Plan[r.profile]
           open == {s \in P : r.stage[s] # "committed"}
           s == Least(open)
<1>1. P \subseteq Nat /\ open # {}
  BY PlanAssumption DEF IInv, Inv, JournalOK, JobRecord, Existing, AllCommitted
<1>2. s \in open /\ s \in Nat /\ \A t \in open : s <= t
  <2>1. open \subseteq Nat
    BY <1>1
  <2> HIDE DEF open
  <2> QED
    BY <1>1, <2>1, LeastIn
<1>3. \A t \in P : t < s => r.stage[t] = "committed"
  <2> SUFFICES ASSUME NEW t \in P, t < s, t \in open PROVE FALSE
    OBVIOUS
  <2>1. t \in Nat /\ s <= t
    BY <1>1, <1>2
  <2> HIDE DEF open, s, P
  <2> QED
    BY <1>2, <2>1
<1>4. DependenciesCommitted(r, s)
  BY <1>3, DependencyIsEarlier
<1>5. r.stage[s] = "pending" => r.state # "interrupted"
  <2>1. r.state = "interrupted" => \A u \in P : r.stage[u] = "pending" =>
            \E t \in P : t < u /\ r.stage[t] # "committed"
    BY DEF Coherent
  <2> QED
    BY <1>2, <1>3, <2>1
<1>6. EarliestRetryStage(j) = s
  BY DEF EarliestRetryStage
<1> QED
  BY <1>2, <1>4, <1>5, <1>6 DEF RetryOK

\* Nobody holds the lease of a batch of which nothing is scheduled when the
\* thread that commands it is free.
LEMMA LeaseFree ==
    ASSUME IInv, RequestKnown, CommandThreadFree, ~Scheduled
    PROVE  ~LeaseActive
<1>1. w \in Writers
  BY DEF IInv, Inv
<1>2. w.op \in {"none", "create"}
  BY <1>1 DEF Scheduled, CommandThreadFree, Writers
<1> QED
  BY <1>2 DEF LeaseActive, RequestKnown

\* In any state the gateway takes every action a job detail offers, but for the
\* retry of a job that was running and a pause that comes after the last verdict.
THEOREM OffersHold == Spec => []OffersAccepted
<1>1. IInv /\ ViewsKnown /\ RequestKnown => OffersAccepted
  <2> SUFFICES ASSUME IInv, ViewsKnown, RequestKnown, CommandThreadFree,
                      NEW j \in Existing, NEW a \in Offers(j),
                      ~(a = "retry" /\ batch[j].state = "running"), ~(a = "pause" /\ AllTerminal)
               PROVE  Accepts(a, j)
    BY DEF OffersAccepted
  <2>1. batch[j].state \in JobStates /\ lost \subseteq Existing /\ Coherent(batch[j])
    BY DEF IInv, Inv, JournalOK, JobRecord, Existing, ViewsKnown
  <2>2. JobShown(j) = batch[j].state \/ (JobShown(j) = "interrupted" /\ batch[j].state = "running")
    BY DEF JobShown
  <2>3. a = "cancel-job" => Accepts(a, j)
    BY <2>1, <2>2 DEF Offers, Accepts, Terminal
  <2>4. a = "cancel-batch" => Accepts(a, j)
    BY DEF Offers, Accepts, Unfinished, AllTerminal
  <2>5. a = "pause" => Accepts(a, j)
    BY DEF Offers, Accepts
  <2>6. a = "resume" => Accepts(a, j)
    BY <2>1 DEF Offers, Accepts, ResumeValid, InputsAvailable, Unfinished, AllTerminal
  <2>7. a = "retry" => Accepts(a, j)
    <3> SUFFICES ASSUME a = "retry" PROVE Accepts(a, j)
      OBVIOUS
    <3>1. RetryOffered(j) /\ ~Scheduled
      BY DEF Offers
    <3>2. /\ batch[j].state \in {"failed", "cancelled", "interrupted"}
          /\ ~AllCommitted(batch[j]) /\ j \notin lost
      BY <2>2, <3>1 DEF RetryOffered
    <3>3. RetryOK(batch[j], EarliestRetryStage(j))
      BY <2>1, <3>2, RetryTaken
    <3> QED
      BY <3>1, <3>2, <3>3, LeaseFree DEF Accepts, Retryable
  <2>8. a = "run-again" => Accepts(a, j)
    BY <2>2 DEF Offers, Accepts, Terminal
  <2>9. a \in Actions
    BY DEF Offers
  <2> QED
    BY <2>3, <2>4, <2>5, <2>6, <2>7, <2>8, <2>9 DEF Actions
<1> QED
  BY Invariant, ViewsInvariant, RequestsInvariant, <1>1, PTL

\* A batch that was cut off anywhere is in the recovery list, can be cancelled,
\* and resumed once its inputs are there, unless a cancellation was cut off too.
THEOREM RecoveryHolds == Spec => []RecoveryWorks
<1>1. IInv /\ ViewsKnown => RecoveryWorks
  <2> SUFFICES ASSUME IInv, ViewsKnown, CommandThreadFree, ~Scheduled, ~LeaseActive, Unfinished # {}
               PROVE  /\ Listed /\ Accepts("cancel-batch", 0)
                      /\ CanResume /\ ~cancelBatch =>
                            ResumeValid /\ \E j \in Existing : "resume" \in Offers(j)
    BY DEF RecoveryWorks
  <2>1. lost \subseteq Existing /\ \A j \in Existing : batch[j].state \in JobStates
    BY DEF IInv, Inv, JournalOK, JobRecord, Existing, ViewsKnown
  <2>2. PICK j \in Existing : batch[j].state \notin Terminal
    BY DEF Unfinished
  <2>3. BatchState \in {"pending", "interrupted", "running", "partial", "failed"}
    <3> DEFINE states == {batch[k].state : k \in Existing}
    <3>1. states # {"succeeded"} /\ states # {"cancelled"}
      BY <2>2 DEF Terminal
    <3> HIDE DEF states
    <3>2. BatchState =
            CASE states \subseteq {"pending"} -> "pending"
              [] "running" \in states -> "running"
              [] states \intersect {"running", "interrupted"} = {"interrupted"} -> "interrupted"
              [] states \intersect {"running", "interrupted", "failed"} = {"failed"} -> "failed"
              [] states = {"succeeded"} -> "succeeded"
              [] states = {"cancelled"} -> "cancelled"
              [] OTHER -> "partial"
      BY DEF BatchState, states
    <3> QED
      BY <3>1, <3>2
  <2>4. Listed
    BY <2>3 DEF Listed
  <2>5. Accepts("cancel-batch", 0)
    BY <2>2 DEF Accepts, AllTerminal
  <2>6. CanResume /\ ~cancelBatch => ResumeValid
    BY <2>1, <2>2 DEF CanResume, ResumeValid, InputsAvailable, Unfinished, AllTerminal
  <2>7. JobShown(j) \in {"pending", "interrupted"}
    BY <2>1, <2>2 DEF JobShown, JobStates, Terminal
  <2>8. CanResume /\ ~cancelBatch => "resume" \in Offers(j)
    BY <2>7 DEF CanResume, Offers, Actions
  <2> QED
    BY <2>2, <2>4, <2>5, <2>6, <2>8
<1> QED
  BY Invariant, ViewsInvariant, <1>1, PTL

-----------------------------------------------------------------------------
(* The attempts that are open                                              *)

\* Where an attempt that was left open may still be open: at rest, before
\* _interrupt_open_attempts, and in a cancel that the GUI finalizes itself.
Before == {"idle", "configure", "configured", "reconcile", "interrupt"}
Behind == w.pc \notin Attempting \union Before /\ ~(w.op = "cancel" /\ w.pc \in Acknowledging)

\* An open attempt is the only one of a job that reads as running.
OneOpen ==
    \A js \in Running : /\ batch[js[1]].state = "running"
                        /\ \A other \in Running : other[1] = js[1] => other = js

OpenKnown ==
    /\ OneOpen
    /\ w.pc \in Attempting => Running = {<<w.job, w.stage>>}
    /\ Behind => Running = {}
    /\ w.pc \notin Attempting /\ crashes + faults = 0 => Running = {}
    /\ queued.op = "execute" => Running = {}
AttemptsKnown ==
    /\ At("configure") => "config" \in Offered
    /\ queued.op = "retry" => "retry" \in Offered
    /\ RunOver \/ OpenKnown

\* Nothing but stage.started opens an attempt.
LEMMA NoneOpened ==
    ASSUME IInv, [Next]_vars, ~At("start")
    PROVE  Running' \subseteq Running
<1>1. /\ \A j \in Jobs : batch[j] \in JobRecord /\ Recorded(batch[j])
      /\ \A j \in Existing : j \in Jobs
  BY DEF IInv, Inv, JournalOK, Existing
<1>2. ASSUME \A j \in Existing' : \A s \in Stages :
                batch'[j].stage[s] = "running" => j \in Existing /\ batch[j].stage[s] = "running"
      PROVE  Running' \subseteq Running
  BY <1>2 DEF Running
<1>3. CASE batch' = batch
  BY <1>3 DEF Running, Existing
<1>4. CASE CreateJob
  <2> DEFINE j == Least(Jobs \ Existing)
             r == [batch[j] EXCEPT !.state = "pending"]
  <2>1. j \in Jobs \ Existing /\ JournalOK /\ Append(j, r)
    <3>1. Jobs \ Existing # {} /\ Jobs \ Existing \subseteq Nat
      BY <1>4, ServiceAssumption DEF CreateJob, Existing
    <3> QED
      BY <1>4, <3>1, LeastIn DEF CreateJob, IInv, Inv
  <2>2. batch[j] \in JobRecord /\ batch[j].state = "absent" /\ Recorded(batch[j])
    BY <2>1, <1>1 DEF Existing
  <2>3. batch[j].stage = [s \in Stages |-> "pending"]
    BY <2>2 DEF Recorded, NewJob, JobRecord
  <2>4. r.stage = batch[j].stage
    BY <2>2 DEF JobRecord
  <2>5. \A k \in Jobs : batch'[k] = IF k = j THEN r ELSE batch[k]
    BY <2>1 DEF JournalOK, Append
  <2> HIDE DEF j, r
  <2>6. ASSUME NEW k \in Existing', NEW s \in Stages, batch'[k].stage[s] = "running"
        PROVE  k \in Existing /\ batch[k].stage[s] = "running"
    BY <2>1, <2>3, <2>4, <2>5, <2>6 DEF Existing
  <2> QED
    BY <1>2, <2>6
<1>5. ASSUME NEW p \in Profiles, NEW b \in Stages, UpdateConfig(p, b)
      PROVE  Running' \subseteq Running
  <2>1. \A k \in Jobs : batch'[k] =
          IF k \in Existing THEN Reconfigured(batch[k], p, b) ELSE batch[k]
    BY <1>5 DEF UpdateConfig
  <2>2. \A k \in Jobs : \A s \in Stages :
            Reconfigured(batch[k], p, b).stage[s] = "running" => batch[k].stage[s] = "running"
    BY DEF Reconfigured, ReconfiguredStage
  <2>3. ASSUME NEW k \in Existing', NEW s \in Stages, batch'[k].stage[s] = "running"
        PROVE  k \in Existing /\ batch[k].stage[s] = "running"
    BY <2>1, <2>2, <2>3 DEF Existing
  <2> QED
    BY <1>2, <2>3
<1>6. ASSUME NEW j \in Existing, NEW r, Event(j, r), Append(j, r) PROVE Running' \subseteq Running
  <2>1. Existing' = Existing /\ \A k \in Jobs : batch'[k] = IF k = j THEN r ELSE batch[k]
    BY <1>6, EventsAppend
  <2>2. \A s \in Stages : r.stage[s] = "running" => batch[j].stage[s] = "running"
    <3> DEFINE q == batch[j]
    <3>1. q \in JobRecord
      BY <1>1
    <3>0. \/ \E s \in Stages : r \in {Invalidated(q, s), Retried(q, s)}
          \/ \E s \in Plan[q.profile], outcome \in Outcomes : r = Closed(q, s, outcome)
          \/ \E state : r = Ended(q, state)
      BY <1>6 DEF Event
    <3> SUFFICES \A s \in Stages : r.stage[s] = "running" => q.stage[s] = "running"
      OBVIOUS
    <3> HIDE DEF q
    <3>2. \A s \in Plan[q.profile], outcome \in Outcomes : \A t \in Stages :
            Closed(q, s, outcome).stage[t] = "running" => q.stage[t] = "running"
      BY <3>1 DEF Closed, JobRecord, Outcomes
    <3>3. \A s, t \in Stages : /\ Invalidated(q, s).stage[t] = "running" => q.stage[t] = "running"
                               /\ Retried(q, s).stage[t] = "running" => q.stage[t] = "running"
      BY <3>1 DEF Invalidated, Retried, JobRecord
    <3>4. \A state : Ended(q, state).stage = q.stage
      BY <3>1 DEF Ended, JobRecord
    <3>5. CASE \E s \in Stages : r \in {Invalidated(q, s), Retried(q, s)}
      BY <3>3, <3>5
    <3>6. CASE \E s \in Plan[q.profile], outcome \in Outcomes : r = Closed(q, s, outcome)
      BY <3>2, <3>6
    <3>7. CASE \E state : r = Ended(q, state)
      BY <3>4, <3>7
    <3> QED
      BY <3>0, <3>5, <3>6, <3>7
  <2>3. ASSUME NEW k \in Existing', NEW s \in Stages, batch'[k].stage[s] = "running"
        PROVE  k \in Existing /\ batch[k].stage[s] = "running"
    BY <1>1, <2>1, <2>2, <2>3
  <2> QED
    BY <1>2, <2>3
<1> QED
  BY <1>3, <1>4, <1>5, <1>6, StepEvents

\* No attempt is open, or all that are stay so or are closed.
LEMMA NoneLeft ==
    ASSUME Running' = {}, w'.pc \notin Attempting
    PROVE  OpenKnown'
BY DEF OpenKnown, OneOpen

\* After a crash or a fault, what was left open stays known while it only shrinks.
LEMMA SomeLeft ==
    ASSUME OpenKnown, Running # {}, OneOpen', queued' = queued \/ queued'.op # "execute",
           w'.pc \in Before \/ (w'.op = "cancel" /\ w'.pc \in Acknowledging),
           crashes' + faults' # 0
    PROVE  OpenKnown'
<1>1. w'.pc \notin Attempting
  BY DEF Before, Acknowledging, Attempting
<1>2. queued'.op # "execute"
  BY DEF OpenKnown
<1> QED
  BY <1>1, <1>2 DEF OpenKnown, Behind

\* Where the journal stays as it is, so do the open attempts.
LEMMA StillOpen ==
    ASSUME batch' = batch
    PROVE  Running' = Running /\ OneOpen' = OneOpen
BY DEF Running, Existing, OneOpen

\* One job loses its open attempt, or has none.
LEMMA OtherOpen ==
    ASSUME OneOpen, Running' \subseteq Running,
           NEW j, \A k \in Jobs : k # j => batch'[k] = batch[k],
           \A s \in Stages : <<j, s>> \notin Running'
    PROVE  OneOpen'
<1> SUFFICES ASSUME NEW js \in Running'
             PROVE  /\ batch'[js[1]].state = "running"
                    /\ \A other \in Running' : other[1] = js[1] => other = js
  BY DEF OneOpen
<1>1. js[1] \in Jobs /\ js[2] \in Stages /\ js = <<js[1], js[2]>>
  BY DEF Running, Existing
<1>2. js[1] # j
  BY <1>1
<1> QED
  BY <1>1, <1>2 DEF OneOpen

\* The exceptions stay.
LEMMA RunOverStays ==
    ASSUME IInv, [Next]_vars
    PROVE  /\ RunOver => RunOver'
           /\ crashes + faults # 0 => crashes' + faults' # 0
           /\ crashes \in Nat /\ faults \in Nat
<1>1. crashes \in Nat /\ faults \in Nat
  BY ServiceAssumption DEF IInv, RestOK
<1>2. crashes' \in {crashes, crashes + 1} /\ faults' \in {faults, faults + 1, faults + 2}
  <2>1. CASE WriterStep
    BY <2>1, WriterAlone
  <2>2. CASE Outside
    <3>1. faults' = faults
      BY <2>2, OutsideMoves
    <3>2. crashes' \in {crashes, crashes + 1}
      BY <2>2 DEF Outside, RequestStep, MarkCancel, DropPause, FinalizeCancel, MarkPause,
         RequestPause, Crash, vars, env, RequestCancel, StartResume, Execute, StartRetry, Rot
    <3> QED
      BY <3>1, <3>2
  <2> QED
    BY <2>1, <2>2 DEF Next, Outside
<1>3. crashes' \in Nat /\ faults' \in Nat /\ crashes' >= crashes /\ faults' >= faults
  BY <1>1, <1>2
<1>4. ASSUME NEW a \in Nat, NEW b \in Nat, b >= a
      PROVE  (a > 0 => b > 0) /\ (a # 0 => b # 0)
  BY <1>4
<1>5. (faults > 0 => faults' > 0) /\ (crashes > 0 => crashes' > 0)
  BY <1>1, <1>3, <1>4
<1>6. crashes + faults # 0 => crashes' + faults' # 0
  <2>1. ASSUME NEW a \in Nat, NEW b \in Nat PROVE a + b # 0 <=> a > 0 \/ b > 0
    BY <2>1
  <2> QED
    BY <1>1, <1>3, <1>5, <2>1
<1>7. (Offered \intersect {"retry", "config"})' = Offered \intersect {"retry", "config"}
  OBVIOUS
<1> QED
  BY <1>1, <1>5, <1>7, <1>6 DEF RunOver

\* No append fails before the exceptions begin, and nothing else is a fault.
LEMMA NoFault ==
    ASSUME IInv, ~RunOver', [Next]_vars
    PROVE  faults' = 0 /\ faults = 0 /\ ~AppendFails /\ ~(faults' = faults + 1) /\ ~(faults' = faults + 2)
<1>1. crashes \in Nat /\ faults \in Nat /\ faults' \in Nat /\ faults' >= faults
  <2>1. CASE WriterStep
    BY <2>1, RunOverStays, WriterAlone
  <2>2. CASE Outside
    BY <2>2, RunOverStays, OutsideMoves
  <2> QED
    BY <2>1, <2>2, RunOverStays DEF Next, Outside, vars
<1>2. faults' = 0 /\ faults = 0
  BY <1>1 DEF RunOver
<1> QED
  BY <1>1, <1>2 DEF AppendFails

\* The steps the writer can take at some of its places, when no append fails.
LEMMA StepsAt ==
    ASSUME WriterStep, ~AppendFails
    PROVE  /\ w.pc \in Attempting =>
                 StartManifest \/ ExecuteStage \/ CommitStage \/ FailStage \/ CancelStage
           /\ At("start") => StartStage
           /\ w.pc \in {"configured", "reconcile", "interrupt"} =>
                 ConfigManifest \/ Reconcile \/ InterruptAttempt \/ InterruptManifest
           /\ w.pc \in Acknowledging => AcknowledgeStep
BY DEF WriterStep, CreateBatch, CreateJob, CreateManifest, RetryManifest, RunStep, Run,
   RunAcknowledged, NextJob, NextJobPause, AfterJob, AfterJobPause, ResumeStep, UpdateConfig,
   ConfigManifest, Reconcile, InterruptAttempt, InterruptManifest, Verify, InvalidateDamaged,
   InvalidateManifest, RemoveWorkspaces, ClearPause, JobStep, CheckCancel, EnterStage,
   InvalidateStage, MakeWorkspace, StartStage, StartManifest, ExecuteStage, CommitStage,
   CommitManifest, FailStage, FailJob, FailManifest, CancelStage, CancelJob, CancelManifest,
   Caught, CaughtManifest, JobCancelled, Succeed, SucceedManifest, ClearMarker,
   AcknowledgeStep, Acknowledge, CancelTarget, CancelAttempt, AcknowledgeManifest,
   ClearBatchMarker, ClearPauseMarker, ClearJobMarker, Acknowledged, At, Attempting, Acknowledging

\* An attempt is closed: it was its job's only one.
LEMMA AttemptCloses ==
    ASSUME IInv, OneOpen, NEW j \in Jobs, NEW s \in Stages, <<j, s>> \in Running,
           NEW outcome \in Outcomes, Append(j, Closed(batch[j], s, outcome))
    PROVE  OneOpen'
<1>1. batch[j] \in JobRecord /\ JournalOK /\ j \in Existing
  BY DEF IInv, Inv, JournalOK, Running
<1>2. /\ Closed(batch[j], s, outcome).state # "absent"
      /\ \A t \in Stages : Closed(batch[j], s, outcome).stage[t] =
                                IF t = s THEN outcome ELSE batch[j].stage[t]
  BY <1>1 DEF Closed, JobRecord, Outcomes
<1>3. Existing' = Existing /\ \A k \in Jobs : batch'[k] = IF k = j THEN Closed(batch[j], s, outcome)
                                                          ELSE batch[k]
  BY <1>1, <1>2, Appended
<1>4. \A t \in Stages : t # s => <<j, t>> \notin Running
  BY DEF OneOpen
<1>5. \A t \in Stages : t # s => batch[j].stage[t] # "running"
  BY <1>1, <1>4 DEF Running
<1>6. \A t \in Stages : batch'[j].stage[t] # "running"
  BY <1>1, <1>2, <1>3, <1>5 DEF Outcomes
<1>7. \A t \in Stages : <<j, t>> \notin Running'
  BY <1>6 DEF Running
<1>8. ASSUME NEW k \in Existing', NEW t \in Stages, batch'[k].stage[t] = "running"
      PROVE  k \in Existing /\ batch[k].stage[t] = "running"
  BY <1>3, <1>6, <1>8 DEF Existing
<1>9. Running' \subseteq Running
  BY <1>8 DEF Running
<1> QED
  BY <1>3, <1>7, <1>9, OtherOpen

\* No attempt opens where nothing is open, but by stage.started.
LEMMA Resting ==
    ASSUME OpenKnown, batch' = batch, queued' = queued \/ queued'.op # "execute",
           w'.pc \in Before \/ (w'.op = "cancel" /\ w'.pc \in Acknowledging),
           Running = {} \/ crashes' + faults' # 0
    PROVE  OpenKnown'
<1>1. Running' = Running /\ OneOpen'
  BY StillOpen DEF OpenKnown
<1>2. w'.pc \notin Attempting
  BY DEF Before, Acknowledging, Attempting
<1>3. CASE Running = {}
  BY <1>1, <1>2, <1>3, NoneLeft
<1>4. CASE Running # {}
  BY <1>1, <1>4, SomeLeft
<1> QED
  BY <1>3, <1>4

\* The writer stays where it is.
LEMMA Waiting ==
    ASSUME OpenKnown, UNCHANGED <<batch, w>>, queued' = queued \/ queued'.op # "execute",
           crashes' + faults' = 0 => crashes + faults = 0
    PROVE  OpenKnown'
<1>1. Running' = Running /\ OneOpen'
  BY StillOpen DEF OpenKnown
<1> QED
  BY <1>1 DEF OpenKnown, Behind

\* Where a new configuration is possible, it was offered; so for a retry.
LEMMA OptionsTaken ==
    ASSUME IInv, AttemptsKnown, [Next]_vars
    PROVE  /\ At("configure")' => "config" \in Offered
           /\ queued'.op = "retry" => "retry" \in Offered
<1>1. w \in Writers
  BY DEF IInv, Inv
<1>2. \A pc \in Attempting \union Closing \union
                {"idle", "interrupt", "caught", "succeeded", "clear-marker", "after-job",
                 "workspaces", "run-acknowledged", "cancelled"} : pc # "configure"
  BY DEF Attempting, Closing
<1>3. CASE WriterStep
  <2>1. w'.pc # "configure"
    <3>1. CASE AcknowledgeStep
      BY <1>1, <1>2, <3>1, AcknowledgeGoesOn DEF Writers, Idle
    <3>2. CASE \/ StartStage \/ StartManifest \/ ExecuteStage
               \/ Succeed \/ SucceedManifest \/ ClearMarker
      BY <1>1, <1>2, <3>2, AttemptGoesOn, SuccessGoesOn DEF Idle
    <3>3. CASE Elsewhere
      BY <3>3 DEF Elsewhere, Idle, Reserved
    <3>4. CASE AppendFails
      <4>1. CASE Stop
        BY <4>1 DEF Stop, Idle
      <4>2. CASE w'.pc \in {"fail", "caught"}
        BY <4>2
      <4> QED
        BY <1>1, <3>4, <4>1, <4>2, FailedAppendMoves
    <3> QED
      BY <1>1, <1>3, <3>1, <3>2, <3>3, <3>4, CommandGoesOn, JobGoesOn DEF WriterStep, JobStep
  <2>2. queued' = queued \/ queued'.op = "execute"
    BY <1>3, WriterAlone DEF CreateManifest, NotQueued
  <2> QED
    BY <2>1, <2>2 DEF AttemptsKnown, At
<1>4. CASE StartResume
  <2>1. w' = w \/ w'.pc = "reconcile" \/ "config" \in Offered
    BY <1>4 DEF StartResume, BeginResume, Idle
  <2>2. queued' = queued \/ queued'.op = "resume"
    BY <1>4 DEF StartResume, NotQueued
  <2> QED
    BY <2>1, <2>2 DEF AttemptsKnown, At
<1>5. CASE Execute \/ \E j \in Jobs, s \in Stages : StartRetry(j, s)
  <2>1. w' = w \/ w'.pc \in {"run", "reconcile", "retried"}
    BY <1>5 DEF Execute, StartRetry, BeginResume, BeginRetry, Idle
  <2>2. queued' = queued \/ queued'.op = "none" \/ "retry" \in Offered
    BY <1>5 DEF Execute, StartRetry, NotQueued
  <2> QED
    BY <2>1, <2>2 DEF AttemptsKnown, At
<1>6. CASE \/ RequestStep \/ RequestPause \/ Crash \/ UNCHANGED vars
           \/ \E j \in Jobs \union {0} : RequestCancel(j)
           \/ \E j \in Jobs, s \in Stages : Rot(j, s)
  <2>1. w' = w \/ w'.pc \in {"acknowledge", "idle"}
    <3>1. CASE FinalizeCancel
      BY <3>1 DEF FinalizeCancel, Idle
    <3>2. CASE \/ MarkCancel \/ DropPause \/ MarkPause \/ RequestPause \/ UNCHANGED vars
               \/ \E j \in Jobs \union {0} : RequestCancel(j)
               \/ \E j \in Jobs, s \in Stages : Rot(j, s)
      BY <3>2 DEF MarkCancel, DropPause, MarkPause, RequestPause, vars, RequestCancel, Rot
    <3>3. CASE Crash
      BY <3>3 DEF Crash, Idle
    <3> QED
      BY <1>6, <3>1, <3>2, <3>3 DEF RequestStep
  <2>2. queued' = queued \/ queued'.op = "none"
    BY <1>6 DEF RequestStep, MarkCancel, DropPause, FinalizeCancel, MarkPause, RequestPause, Crash,
       vars, env, RequestCancel, Rot, NotQueued
  <2> QED
    BY <2>1, <2>2 DEF AttemptsKnown, At
<1> QED
  BY <1>3, <1>4, <1>5, <1>6 DEF Next

\* The steps of an attempt.
LEMMA AttemptKnows ==
    ASSUME IInv, VerdictsKnown, OpenKnown, ~RunOver', [Next]_vars, WriterStep, w.pc \in Attempting
    PROVE  OpenKnown'
<1> DEFINE js == <<w.job, w.stage>>
<1>1. w \in Writers /\ Running = {js} /\ queued.op # "execute"
  BY DEF OpenKnown, IInv, Inv
<1>2. /\ w.job \in Existing /\ w.job \in Jobs /\ w.stage \in Stages /\ JournalOK
      /\ batch[w.job] \in JobRecord
  BY PlanAssumption DEF IInv, Inv, StageKnows, OnJob, OnStage, JournalOK, Current, JobRecord,
     Existing
<1>3. queued' = queued
  BY WriterAlone DEF CreateManifest, At, Attempting
<1>4. crashes \in Nat /\ faults \in Nat /\ crashes' = crashes
  BY RunOverStays, WriterAlone
<1>5. StartManifest \/ ExecuteStage \/ CommitStage \/ FailStage \/ CancelStage
  BY StepsAt, NoFault
<1>6. CASE StartManifest \/ ExecuteStage
  <2>1. batch' = batch
    BY <1>6 DEF StartManifest, ExecuteStage, WriteManifest, journal
  <2>2. CASE \E pc \in Attempting : Goto(pc)
    <3>1. w'.pc \in Attempting /\ w'.job = w.job /\ w'.stage = w.stage
      BY <1>1, <2>2, GotoKeeps DEF Kept
    <3>2. Running' = Running /\ OneOpen'
      BY <2>1, StillOpen DEF OpenKnown
    <3> QED
      BY <1>1, <1>3, <3>1, <3>2 DEF OpenKnown, Behind
  <2>3. ~(faults' = faults + 1) /\ ~(faults' = faults + 2)
    BY NoFault
  <2>5. {"execute", "fail", "cancel", "commit"} \subseteq Attempting
    BY DEF Attempting
  <2> QED
    BY <1>6, <2>2, <2>3, <2>5 DEF StartManifest, ExecuteStage, WriteManifest
<1>7. CASE CommitStage \/ FailStage \/ CancelStage
  <2>1. PICK outcome \in Outcomes : Append(w.job, Closed(batch[w.job], w.stage, outcome))
    BY <1>7 DEF CommitStage, FailStage, CancelStage, Outcomes
  <2>2. batch'[w.job] = Closed(batch[w.job], w.stage, outcome)
    BY <1>2, <2>1 DEF Append, JournalOK
  <2>3. batch'[w.job].stage[w.stage] # "running"
    BY <1>2, <2>2 DEF Closed, JobRecord, Outcomes
  <2>4. Running' \subseteq Running
    BY NoneOpened DEF At, Attempting
  <2>5. js \notin Running'
    BY <2>3 DEF Running
  <2>6. w'.pc \notin Attempting
    BY <1>1, <1>7, JobGoesOn DEF Elsewhere, Reserved, Idle, Attempting
  <2> QED
    BY <1>1, <2>4, <2>5, <2>6, NoneLeft
<1> QED
  BY <1>5, <1>6, <1>7

\* stage.started, when no other attempt is open.
LEMMA StartKnows ==
    ASSUME IInv, RequestKnown, OpenKnown, StartStage
    PROVE  OpenKnown'
<1> DEFINE js == <<w.job, w.stage>>
           r == batch[w.job]
           n == r.attempt[w.stage] + 1
<1>1. w \in Writers /\ At("start") /\ queued' = queued
  BY DEF IInv, Inv, StartStage, env
<1>2. Running = {} /\ queued.op # "execute"
  BY <1>1 DEF OpenKnown, Behind, At, Attempting, Before, Acknowledging, RequestKnown
<1>3. w.job \in Existing /\ w.job \in Jobs /\ w.stage \in Stages /\ JournalOK /\ r \in JobRecord
  BY <1>1, PlanAssumption
     DEF IInv, Inv, StageKnows, OnJob, OnStage, ToStart, At, JournalOK, Current, JobRecord, Existing
<1>4. CASE Raise("error") /\ batch' = batch
  BY <1>1, <1>2, <1>4, RaiseKeeps, StillOpen, NoneLeft DEF Attempting
<1>5. CASE Append(w.job, Started(r, w.stage, n)) /\ Goto("started")
  <2>1. /\ Started(r, w.stage, n).state = "running"
        /\ \A s \in Stages : Started(r, w.stage, n).stage[s] =
                                IF s = w.stage THEN "running" ELSE r.stage[s]
    BY <1>3 DEF Started, JobRecord
  <2> HIDE DEF r, n
  <2>2. Existing' = Existing /\ \A k \in Jobs : batch'[k] = IF k = w.job THEN Started(r, w.stage, n)
                                                            ELSE batch[k]
    BY <1>3, <1>5, <2>1, Appended
  <2>3. \A k \in Existing, s \in Stages : batch[k].stage[s] # "running"
    <3> SUFFICES ASSUME NEW k \in Existing, NEW s \in Stages, batch[k].stage[s] = "running"
                 PROVE  FALSE
      OBVIOUS
    <3>1. <<k, s>> \in Running
      BY DEF Running
    <3> QED
      BY <1>2, <3>1
  <2>4. \A k \in Existing, s \in Stages :
           batch'[k].stage[s] = "running" <=> k = w.job /\ s = w.stage
    BY <1>3, <2>1, <2>2, <2>3 DEF Existing, r
  <2>5. Running' = {js}
    BY <1>3, <2>2, <2>4 DEF Running
  <2>6. w'.pc = "started" /\ w'.job = w.job /\ w'.stage = w.stage
    BY <1>1, <1>5, GotoKeeps DEF Kept
  <2>7. OneOpen'
    BY <1>3, <2>1, <2>2, <2>5 DEF OneOpen
  <2> QED
    BY <1>1, <1>2, <2>5, <2>6, <2>7 DEF OpenKnown, Behind, Attempting
<1> QED
  BY <1>4, <1>5 DEF StartStage

\* A step of the writer where no attempt is open.
LEMMA NothingOpens ==
    ASSUME IInv, [Next]_vars, WriterStep, Running = {}, w.pc \notin Attempting, ~At("start"),
           ~AppendFails
    PROVE  OpenKnown'
<1>1. w \in Writers
  BY DEF IInv, Inv
<1>2. Running' = {}
  BY NoneOpened
<1>3. ~(StartStage \/ StartManifest \/ ExecuteStage)
  BY DEF StartStage, StartManifest, ExecuteStage, At, Attempting
<1>4. \A pc \in Closing \union {"idle", "succeeded", "clear-marker", "caught", "after-job",
                                "workspaces", "run-acknowledged", "cancelled"} :
          pc \notin Attempting
  BY DEF Closing, Attempting
<1>5. CASE AcknowledgeStep
  BY <1>1, <1>2, <1>4, <1>5, AcknowledgeGoesOn, NoneLeft DEF Writers, Idle
<1>6. CASE Succeed \/ SucceedManifest \/ ClearMarker
  BY <1>1, <1>2, <1>4, <1>6, SuccessGoesOn, NoneLeft DEF Idle
<1>7. CASE Elsewhere
  BY <1>2, <1>4, <1>7, NoneLeft DEF Elsewhere, Idle, Reserved
<1> QED
  BY <1>1, <1>3, <1>5, <1>6, <1>7, CommandGoesOn, JobGoesOn DEF WriterStep, JobStep

\* resume closes what is open, one attempt after the other.
LEMMA ResumeCloses ==
    ASSUME IInv, RequestKnown, AttemptsKnown, OpenKnown, ~RunOver', [Next]_vars, WriterStep,
           Running # {}, w.pc \in Before
    PROVE  OpenKnown'
<1>1. w \in Writers /\ queued.op # "execute"
  BY DEF IInv, Inv, OpenKnown
<1>2. /\ ~At("idle") /\ queued' = queued
      /\ w.pc \in {"configure", "configured", "reconcile", "interrupt"}
  BY WriterAlone DEF CreateManifest, At, Before
<1>3. /\ crashes + faults # 0 /\ crashes' + faults' # 0 /\ crashes \in Nat /\ faults \in Nat
      /\ ~RunOver
  BY <1>2, RunOverStays DEF OpenKnown, At, Attempting
<1>4. ~At("configure")
  <2> SUFFICES ASSUME At("configure") PROVE FALSE
    OBVIOUS
  <2>1. "config" \in Offered
    BY DEF AttemptsKnown
  <2>2. crashes > 0
    BY <1>3, NoFault
  <2> QED
    BY <1>3, <2>1, <2>2 DEF RunOver
<1>5. ConfigManifest \/ Reconcile \/ InterruptAttempt \/ InterruptManifest
  BY <1>2, <1>4, StepsAt, NoFault DEF At
<1>6. CASE ConfigManifest \/ Reconcile
  <2>1. Goto("reconcile") \/ Goto("interrupt") \/ Stop
    BY <1>6 DEF ConfigManifest, Reconcile, WriteManifest
  <2>2. w'.pc \in Before
    BY <1>1, <2>1, GotoKeeps, StopIdles DEF Before
  <2>3. batch' = batch
    BY <1>6 DEF ConfigManifest, Reconcile, WriteManifest, ReadOnly, journal
  <2> QED
    BY <1>2, <1>3, <2>2, <2>3, Resting
<1>7. CASE InterruptAttempt
  <2>1. PICK js \in Running : Append(js[1], Closed(batch[js[1]], js[2], "interrupted"))
    BY <1>7 DEF InterruptAttempt
  <2>2. w' = w
    BY <1>7 DEF InterruptAttempt
  <2>3. js[1] \in Jobs /\ js[2] \in Stages /\ js = <<js[1], js[2]>> /\ "interrupted" \in Outcomes
    BY DEF Running, Existing, Outcomes
  <2>4. OneOpen'
    BY <2>1, <2>3, AttemptCloses DEF OpenKnown
  <2> QED
    BY <1>2, <1>3, <2>2, <2>4, SomeLeft
<1> QED
  BY <1>5, <1>6, <1>7 DEF InterruptManifest

\* The GUI's own cancel closes what is open of its targets.
LEMMA CancelCloses ==
    ASSUME IInv, RequestKnown, OpenKnown, [Next]_vars, AcknowledgeStep, w.op = "cancel",
           Running # {}
    PROVE  OpenKnown'
<1>1. w \in Writers /\ queued.op # "execute" /\ OneOpen
  BY DEF IInv, Inv, OpenKnown
<1>2. w.pc \in Acknowledging /\ w.ret = "idle"
  BY DEF RequestKnown
<1>3. queued' = queued
  BY <1>2, WriterAlone DEF WriterStep, CreateManifest, At, Acknowledging
<1>4. crashes' + faults' # 0
  BY <1>2, RunOverStays DEF OpenKnown, Acknowledging, Attempting
<1>5. w'.pc \in Before \/ (w'.op = "cancel" /\ w'.pc \in Acknowledging)
  BY <1>1, <1>2, AcknowledgeGoesOn DEF Before, Idle, Closing, Acknowledging
<1>6. ASSUME OneOpen' PROVE OpenKnown'
  BY <1>3, <1>4, <1>5, <1>6, SomeLeft
<1>7. CASE batch' = batch
  BY <1>1, <1>6, <1>7, StillOpen
<1>8. ASSUME NEW j \in Jobs, NEW s \in Stages, CancelAttempt(j, s) PROVE OpenKnown'
  <2>1. <<j, s>> \in Running /\ Append(j, Closed(batch[j], s, "cancelled"))
    BY <1>8 DEF CancelAttempt
  <2> QED
    BY <1>1, <1>6, <2>1, AttemptCloses DEF Outcomes
<1>9. ASSUME NEW j \in Jobs, CancelTarget(j), batch' # batch PROVE OpenKnown'
  <2>1. /\ \A s \in Stages : <<j, s>> \notin Running
        /\ \A k \in Jobs : k # j => batch'[k] = batch[k]
    BY <1>9 DEF CancelTarget, Append, IInv, Inv, JournalOK
  <2>2. Running' \subseteq Running
    BY <1>2, NoneOpened DEF At, Acknowledging
  <2> QED
    BY <1>1, <1>6, <2>1, <2>2, OtherOpen
<1> QED
  BY <1>7, <1>8, <1>9 DEF AcknowledgeStep, Acknowledge, AcknowledgeManifest, ClearBatchMarker,
     ClearPauseMarker, ClearJobMarker, Acknowledged, WriteManifest, ReadOnly, journal

\* Nobody but the writer opens an attempt; what they begin is on the way to
\* closing it, when it does not begin over it.
LEMMA OutsideKnows ==
    ASSUME IInv, AttemptsKnown, OpenKnown, ~RunOver, ~RunOver', [Next]_vars, Outside
    PROVE  OpenKnown'
<1>1. crashes \in Nat /\ faults \in Nat /\ (crashes + faults # 0 => crashes' + faults' # 0)
  BY RunOverStays
<1>2. Running # {} /\ w.pc \notin Attempting => crashes + faults # 0 /\ crashes > 0
  BY <1>1, NoFault DEF OpenKnown
<1>3. "retry" \in Offered /\ w.pc \notin Attempting => Running = {}
  BY <1>2 DEF RunOver
<1>4. At("idle") => w.pc \notin Attempting
  BY DEF At, Attempting
<1>5. CASE StartResume
  <2>1. batch' = batch /\ At("idle") /\ (queued' = queued \/ queued'.op # "execute")
    BY <1>5 DEF StartResume, Unscheduled, journal, NotQueued
  <2>2. w' = w \/ w'.pc \in Before
    BY <1>5 DEF StartResume, BeginResume, Idle, Before
  <2>3. w'.pc \in Before
    BY <2>1, <2>2 DEF At, Before
  <2> QED
    BY <1>1, <1>2, <1>4, <2>1, <2>3, Resting
<1>6. CASE Execute
  <2>1. At("idle") /\ queued' = NotQueued /\ queued'.op # "execute"
    BY <1>6 DEF Execute, NotQueued
  <2>2. CASE queued.op = "execute" \/ queued.op = "retry"
    <3>1. Running = {}
      BY <1>3, <1>4, <2>1, <2>2 DEF OpenKnown, AttemptsKnown
    <3>2. Running' = {}
      BY <2>1, <3>1, NoneOpened DEF At
    <3>3. w' = w \/ w'.pc \in {"run", "retried", "reconcile"}
      BY <1>6 DEF Execute, BeginRetry, BeginResume, Idle
    <3> QED
      BY <2>1, <3>2, <3>3, NoneLeft DEF At, Attempting
  <2>3. CASE queued.op = "resume"
    <3>1. batch' = batch /\ (w' = w \/ w'.pc = "reconcile")
      BY <1>6, <2>3 DEF Execute, BeginResume, Idle
    <3>2. w'.pc \in Before
      BY <2>1, <3>1 DEF At, Before
    <3> QED
      BY <1>1, <1>2, <1>4, <2>1, <3>1, <3>2, Resting
  <2> QED
    BY <1>6, <2>2, <2>3 DEF Execute
<1>7. ASSUME NEW j \in Jobs, NEW s \in Stages, StartRetry(j, s) PROVE OpenKnown'
  <2>1. At("idle") /\ Running = {}
    BY <1>3, <1>4, <1>7 DEF StartRetry, Unscheduled
  <2>2. Running' = {}
    BY <2>1, NoneOpened DEF At
  <2>3. w' = w \/ w'.pc = "retried"
    BY <1>7 DEF StartRetry, BeginRetry, Idle
  <2> QED
    BY <2>1, <2>2, <2>3, NoneLeft DEF At, Attempting
<1>8. CASE FinalizeCancel
  <2>1. batch' = batch /\ queued' = queued /\ crashes' = crashes /\ faults' = faults
    BY <1>8 DEF FinalizeCancel, journal
  <2>2. CASE w' = w
    BY <2>1, <2>2, Waiting
  <2>3. CASE w' # w
    <3>1. At("idle") /\ w'.op = "cancel" /\ w'.pc = "acknowledge"
      BY <1>8, <2>3 DEF FinalizeCancel, Idle
    <3> QED
      BY <1>1, <1>2, <1>4, <2>1, <3>1, Resting DEF Acknowledging
  <2> QED
    BY <2>2, <2>3
<1>9. CASE Crash
  <2>1. batch' = batch /\ w'.pc = "idle" /\ queued'.op # "execute" /\ crashes' = crashes + 1
        /\ faults' = faults
    BY <1>9 DEF Crash, journal, Idle, NotQueued
  <2>2. crashes' + faults' # 0
    BY <1>1, <2>1
  <2> QED
    BY <2>1, <2>2, Resting DEF Before
<1>10. CASE \/ MarkCancel \/ DropPause \/ MarkPause \/ RequestPause \/ UNCHANGED vars
            \/ \E j \in Jobs \union {0} : RequestCancel(j)
            \/ \E j \in Jobs, s \in Stages : Rot(j, s)
  <2>1. /\ UNCHANGED <<batch, w, crashes, faults>>
        /\ queued' = queued \/ queued'.op # "execute"
    BY <1>10 DEF MarkCancel, DropPause, MarkPause, RequestPause, vars, env, journal, RequestCancel,
       Rot, NotQueued
  <2> QED
    BY <2>1, Waiting
<1> QED
  BY <1>5, <1>6, <1>7, <1>8, <1>9, <1>10 DEF Outside, RequestStep

\* What is known of the open attempts holds throughout.
LEMMA AttemptsInvariant == Spec => []AttemptsKnown
<1>1. Init => AttemptsKnown
  <2> SUFFICES ASSUME Init PROVE AttemptsKnown
    OBVIOUS
  <2>1. Existing = {} /\ w.pc = "open" /\ queued.op = "none"
    BY DEF Init, Existing, NewJob, Idle, NotQueued
  <2>2. Running = {}
    BY <2>1 DEF Running
  <2> QED
    BY <2>1, <2>2 DEF AttemptsKnown, OpenKnown, OneOpen, At, Attempting
<1>2. ASSUME IInv, RequestKnown, VerdictsKnown, AttemptsKnown, [Next]_vars PROVE AttemptsKnown'
  <2>1. SUFFICES ASSUME ~RunOver' PROVE OpenKnown'
    BY <1>2, OptionsTaken DEF AttemptsKnown, At
  <2>2. ~RunOver /\ OpenKnown
    BY <1>2, <2>1, RunOverStays DEF AttemptsKnown
  <2>3. CASE Outside
    BY <1>2, <2>1, <2>2, <2>3, OutsideKnows
  <2>4. CASE WriterStep
    <3>0. ~AppendFails
      BY <1>2, <2>1, NoFault
    <3>1. CASE w.pc \in Attempting
      BY <1>2, <2>1, <2>2, <2>4, <3>1, AttemptKnows
    <3>2. CASE At("start")
      BY <1>2, <2>2, <2>4, <3>0, <3>2, StepsAt, StartKnows
    <3>3. CASE Running = {} /\ w.pc \notin Attempting /\ ~At("start")
      BY <1>2, <2>4, <3>0, <3>3, NothingOpens
    <3>4. CASE Running # {} /\ w.pc \in Before
      BY <1>2, <2>1, <2>2, <2>4, <3>4, ResumeCloses
    <3>5. CASE Running # {} /\ w.op = "cancel" /\ w.pc \in Acknowledging
      BY <1>2, <2>2, <2>4, <3>0, <3>5, StepsAt, CancelCloses
    <3> QED
      BY <2>2, <3>1, <3>2, <3>3, <3>4, <3>5 DEF OpenKnown, Behind
  <2> QED
    BY <1>2, <2>3, <2>4 DEF Next, Outside
<1> QED
  BY Invariant, VerdictsInvariant, RequestsInvariant, <1>1, <1>2, PTL DEF Spec

\* No row shows a stage at work for a job that is not, whatever was cut off; but
\* for a job whose open attempt was gone over, and that one has not succeeded.
THEOREM RowsAreHonest == Spec => []RowsHonest
<1>1. IInv /\ ViewsKnown /\ AttemptsKnown => RowsHonest
  <2> SUFFICES ASSUME IInv, AttemptsKnown, NEW j \in Existing, Coherent(batch[j]),
                      StageShown(j) = "running"
               PROVE  JobShown(j) = "running" \/ (RunOver /\ JobShown(j) # "succeeded")
    BY DEF RowsHonest, QueueRow, ViewsKnown
  <2>1. batch[j] \in JobRecord /\ Plan[batch[j].profile] \subseteq Nat
        /\ Plan[batch[j].profile] \subseteq Stages
    BY PlanAssumption DEF IInv, Inv, JournalOK, JobRecord, Existing
  <2> DEFINE s == ActiveStage(j)
  <2>2. s # 0 /\ batch[j].stage[s] = "running" /\ JobShown(j) # "interrupted"
    BY DEF StageShown
  <2>3. s \in Plan[batch[j].profile]
    <3> DEFINE P == Plan[batch[j].profile]
               among(states) == {t \in P : batch[j].stage[t] \in states}
    <3>1. \A states : among(states) # {} => Least(among(states)) \in P
      BY <2>1, LeastIn
    <3>2. \/ s = 0 \/ \E states : among(states) # {} /\ s = Least(among(states))
      BY DEF ActiveStage
    <3> QED
      BY <2>2, <3>1, <3>2
  <2>4. batch[j].state # "succeeded"
    BY <2>2, <2>3 DEF Coherent, AllCommitted
  <2>5. <<j, s>> \in Running
    BY <2>1, <2>2, <2>3 DEF Running
  <2>6. OpenKnown => batch[j].state = "running"
    BY <2>5 DEF OpenKnown, OneOpen
  <2> QED
    BY <2>2, <2>4, <2>6 DEF JobShown, AttemptsKnown
<1> QED
  BY Invariant, ViewsInvariant, AttemptsInvariant, <1>1, PTL

=============================================================================
