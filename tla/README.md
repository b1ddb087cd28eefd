# VideoCaptioner in TLA+

This directory is the verification development of VideoCaptioner (`src/captioner`,
`src/runtime_worker`): TLA+ modules that model its core, TLC configurations that
check them on small instances, and TLAPS proofs for every value of the constants.
Paths below are relative to `src/` of the repository; module paths start at
`src/captioner/`.

`tlc -config X.cfg M` runs a configuration, `tlapm M.tla` checks proofs.
`PROJECT.json` lists components, runs, hazards, theorems, the mutants, and the
source lines behind every definition.

Contents: 1 the system - 2 the modules - 3 the runs - 4 bounds and fairness -
5 proofs - 6 what was found - 7 what is not modelled - 8 plan.

## 1. The system

A *batch* is a list of *jobs* (one input file each); a job runs a *plan* of
*stages*: inspect, normalize, transcribe, correct source, segment, translate,
review, export, publish, of which the profiles `deterministic`, `fast` and
`quality` take some. Everything durable of a batch lives in `batches/<id>/`: the
event journal `journal.jsonl` (the truth), `manifest.json` (its projection),
`control/` (cancel and pause markers), `lease.json` (the writer lease), and one
workspace per attempt. Artifacts are blobs in a store that all batches share.

| Component | State | Operations | Interacts with |
|---|---|---|---|
| Journal replay (`core/domain/journal.py`) | state and profile per job, state and attempt per stage | one transition per event type, each with the checks that reject it | the pipeline appends only what replay accepts |
| Durable pipeline (`core/application/durable_pipeline.py`, `stage_executor.py`) | locals of one command | create, run, resume, update config, retry, acknowledge | journal, manifest, markers, artifacts, workspaces |
| CLI (`cli/commands/batch.py`) | none | run, resume, retry, cancel | lease around the pipeline; cancel writes a marker without it |
| GUI gateway, commands (`local_batch_gateway.py`, `batch_commands.py`) | none | create, execute, resume, retry, cancel, pause | validates without the lease, queues, validates again under it |
| Execution coordinator | active task, queue, completions | schedule, cancel_queued, drain, shutdown | GUI command thread, one pool thread |
| Journal file, manifest store | lines, torn tail, what is on the disk; one file | append, repair_and_read, read_snapshot; write, reconcile, inspect | one writer, any readers |
| Writer lease (`batch_lease.py`) | lease file, guard lock | acquire, reclaim, release, inspect | every writer; status and the GUI inspect it |
| Stages (`adapters/pipeline/stages.py`) | none | one execute per stage | artifacts in, artifacts out; LLM executor |
| Text policies (`core/policies`, `core/domain/subtitle_validation.py`, ...) | none | segmentation, line breaking, facts, terms, validation of answers and tracks | the stages |
| Artifact store, output transaction | blobs; five published files | put, verify, remove_corrupt; commit with rollback | export, publish, resume's verification |
| LLM chunk executor, cache, client | tasks, written cache keys, slots | plan, ask, repair, halve, collect, clean up | HTTP, answer cache |
| Runtime manager and repository | installations, version directories, active pointer | install, register, activate, roll back, remove, recover | worker client, doctor |
| ASR worker client and worker | one subprocess session | start, doctor, transcribe, cancel, shutdown, terminate | messages over two pipes |
| Configuration (`toml_configuration_store.py`, `configuration.py`) | settings.toml, llm.toml | load, save | Settings page, start of the program, pipeline |
| Desktop program (`gui/`) | window, runner thread, pages and their controllers | submit, command, preview, save, select, refresh, close | requests and signals between two threads |

What is hard here: a crash between any two durable writes; cancel and pause
requests that only leave markers, acknowledged later by whoever runs; commands
validated without the lease and executed much later from a queue; projections kept
in locals over many awaits; answers that arrive for what the user has changed
since; stale leases and reused pids; short writes and failing fsyncs; blobs and
temporaries shared by programs that exclude each other from nothing; a cached
answer or a committed stage that no longer fits what it was made for; texts that
pass every check one by one and fail together.

What makes each component correct: **journal** - verdicts are true, attempts are
never reused, one configuration per batch. **Pipeline** - it appends only what
replay accepts; no verdict changes without a retry; committed stages are a prefix
of the plan; a batch that is resumed settles. **Journal file** - readable, keeps
what it acknowledged. **Manifest** - never ahead, current when a command returns.
**Lease** - one writer, truthful to readers without the guard. **Stages** - what is
kept is what a run from nothing would make; a track that is published has every
word once, in order, with the facts, script and terms it should have.
**Artifacts and outputs** - all five files or the earlier five; what is committed is
stored. **LLM** - a failed execution leaves no answer behind; slots come back.
**Runtime** - the slot moves only to what passed its doctor, whatever crashes.
**Worker** - no process without its lock, one outcome per request.
**Configuration** - what was acknowledged stays, all readers agree.
**Desktop** - a draft is what is on the screen, a command goes to the job that is
shown, the pages come to show the truth, the window closes on nothing that runs.

## 2. The modules

```
Replay <-- Journal                                WriterLock <.. BatchLease <-- BatchLeaseProofs
  ^          ^  ^                                   JournalFile <----+-- MCBatchFiles
  |          |  +-- StageContents <------------+-- JournalProofs
  |          +..(refined by)                   +-- MCStageContents
  +---- BatchService <-- BatchViews <-- MCBatchService, BatchServiceProofs
                                               |
  Texts <-- Segmentation <-- Translations <----+

SerialLine <.. ExecutionCoordinator <-- DesktopSession <----------------+-- DesktopProofs
PageLine <-- CreatePages, JobPages, DiagnosticsPages, ConfigFiles <-- DesktopPages <-- MCDesktopPages
ChunkPlanning <-- LlmChunks <-- MCLlmChunks, LlmChunksProofs
Publication <-- MCPublication, PublicationProofs     JournalFile <-- JournalFileProofs
ActiveSlot <.. RuntimeStore <-- RuntimeProofs --> WorkerSession
```
(`<--` is EXTENDS, `<..` a refinement; the right side is the detailed one)

**One batch.**
- **Replay** - the transitions of `journal.py` as operators on one job's record:
  `StartedOK`/`Started`, `ClosedOK`/`Closed`, and so on. The `OK` operators are the
  checks that raise, the others the projection returned. A stage is a number, its
  dependency the preceding stage of the plan.
- **Journal** - the specification of `apply_event`, one action per event type,
  enabled when replay accepts it. This is the abstract specification of a batch:
  any history that can be read back.
- **BatchService** - commands running on one batch. `w` is the writer (program
  counter and the locals that outlive a step), `req` a request in progress,
  `queued` the coordinator's queue as the batch sees it. An action is one durable
  write or one read of a marker, in the order of the code; `Crash` ends the process
  between any two, and any of the writes can fail (`WriteManifest`, `AppendFails`). `driver` is fixed in a behaviour: CLI commands take the lease and
  validate under it, GUI commands validate, wait, and validate again.
- **BatchViews** - what the desktop shows of that batch and offers to do with it:
  queue rows, job detail, recovery list, all read without the lease by code of
  their own, beside the checks of the gateway the offers lead to.
- **StageContents** - what committed stages contain. It conjoins Journal's actions
  with cache keys (`_cache_config`) and artifacts, while options, profile, provider
  settings and the source change between commands that fail, die and retry. An
  artifact is the set of everything that was read to make it.
- **JournalFile** - `JsonlJournal` below the level of events: append is check,
  write, sync, each of which can fail or be the last before a crash or power loss.
- **WriterLock**, **BatchLease** - claims that race for the FileLock guard, read the
  owner, reclaim, replace, sync and release while processes are born, die and take
  each other's pids; `probe` is a caller of `inspect_batch_lease`. **MCBatchFiles** runs
  the two beside each other, one in a behaviour: what joins them, that the holder of
  the lease is the journal's one writer, is BatchService's.

**What the stages make.**
- **Texts** - graphemes, width, the facts (numbers) of a text and what is written
  to them, terms, scripts.
- **Segmentation** - `segment_transcript_dp` (hard cuts, the dynamic program with its
  windows and tie-breaks, the repair of times), `break_lines`, and the validation of
  tracks, as functions, beside a reference definition: the best of all divisions.
- **Translations** - a state machine of the text stages over those: CORRECT_SOURCE
  with its terminology, SEGMENT, both TRANSLATE stages, REVIEW, EXPORT. The model's
  answers are any texts of small sets, complete, reordered or with one missing.
- **ChunkPlanning**, **LlmChunks** - the plan of a stage (`plan_chunks`) and of a
  review (`AnomalyChunkPlanner`), and one executor's tasks over cache and client:
  slots, retries, one repair, halving, cleanup, cancellation, event loops.
- **Publication** - export and publish of several batches over one store and one
  directory: staging, replacement with rollback, receipt, damaged blobs; a batch may
  overwrite or not, and a command can fail after its last replace (cleanup).

**Runtimes.**
- **ActiveSlot**, **RuntimeStore** - commands of several processes over the version
  directories, installation records and the pointer with its pending activation;
  `ActiveSlot` is the promise: it moves only to what passed its doctor. Nothing syncs
  a directory after a removal, so `past` has what each removed record and directory was:
  a power loss may bring it back, in `ActiveSlot` by `Return`.
- **WorkerSession** - both ends of a worker session: the caller, the event
  generator and the worker, over two pipes, with every timeout.

**Desktop.**
- **ExecutionCoordinator**, **SerialLine**, **DesktopSession** - the serial executor
  among the threads of the program: window, runner, pool. `SerialLine` is its
  promise: one line of batches, the first served alone and to its end.
- **PageLine** - what pages share: the runner's two queues and the coalescing loader.
  **CreatePages**, **JobPages** - the Create and Settings, the Queue and History pages
  with their controllers. **ConfigFiles** - the saves behind the Settings page, step by
  step, by two programs, over texts that a user may have written by hand. **DiagnosticsPages** - the page's snapshots, the question about
  a file at the destination, and the writer of bundles. **DesktopPages** composes the
  four; a behaviour shows one of them, as they share only the two queues.

Definitions named `X_Something`, with the comment *Mutant:*, are broken variants of
`X`. No specification uses them; each property is shown to fail when one of them
takes the place of the definition it varies, which says that the property depends
on that piece of the code.

## 3. The runs

Every run passes within five minutes on two workers.

| Run | Instance | Shows |
|---|---|---|
| `service_events` | CLI or GUI, 1 job, 2 profiles of up to 3 stages, config, retry, damage, drift, lost input, 2 faults (stages, manifest writes, appends), 1 crash; 222,363 states | `ImplementsJournal` (the service implements Journal), `CommittedPrefix`, `RowsHonest` where attempts are gone over |
| `service_cancel` | GUI, 2 jobs, cancel batch, cancel job, pause, a lost input, 1 crash; 2,374,433 states | `RowsHonest` (a row says what the journal and the lease say), `OffersAccepted` (what is offered is accepted), `RecoveryWorks`, `ManifestOnExit`, `CancelSettles` |
| `service_settles` | CLI under fairness, 2 jobs of one stage, cancel batch, cancel job, and either 1 damage or drift and 1 crash, or 2 faults; 1,385,045 states | `EventuallySettled`, `RetryIsExplicit` |
| `stage_contents` | 1 job, all three profiles and nine stages, 2 changes, 1 fault; beside it 1 - 4 small words through SEGMENT and 1 - 2 through the LLM stages | `SucceededComplete`, `Fresh` (no stage keeps what a run from nothing would not make), `CuesRight` |
| `batch_files` | 5 events, 2 crashes, 2 power losses, 1 short write, 2 failing fsyncs; beside it 3 claims, 2 hosts, 2 pids (symmetric claims and pids); 2,625,146 states | `CrashesReadable`, `AckedKept`, `ManifestNotAhead` of the journal file, `InspectionTrue`, `ImplementsLock` of the lease |
| `publication` | 2 batches, 2 contents, 2 directories, sets of 2 files, 1 fault; 396,499 states | `ReceiptTrue`, `Whole` (never a mixture), `PublishedAtLast` |
| `llm_chunks` | 3 items in 2 chunks, 1 slot, 2 executions, 1 fault; and 1920 plans of four items, each with every selection for a review; 224,852 states | `FailureLeavesNothing` (a failed execution leaves no answer), `EarlierKept` (nor takes one of an earlier execution), `Ends` (also: no slot is lost but in the one named way), `PlansRight` |
| `llm_cancellation` | the executor of `llm_chunks` | `CancellationRetains`, what docs/llm.md says of a cancellation: violated, see 6 |
| `runtime_store` | 1 managed and 1 external Runtime, 2 processes, 1 user, 4 commands, 1 interruption or power loss; 758,412 states | `Protected`, `InUseIntact`, `ImplementsSlot`, `Repaired` |
| `worker_session` | 3 requests, 1 progress message each, 2 faults; 463,461 states | `LockedWhileAlive`, `OwnResult`, `CancelEnds` |
| `desktop_session` | 2 batches, 4 acts of the user | `ClosedIsIdle`, `ImplementsLine`, `CloseSettles` |
| `desktop_pages` | 2 inputs, 1 preset, 2 jobs, 2 programs, 1 destination of exports; 4 edits, 2 clicks, 2 saves, 4 acts on the Diagnostics page, 2 faults; 722,948 states | `DraftCurrent`, `PanelIsTarget`, `SavedKept`, `ReadersAgree`, `EventuallyShown` |

`CuesRight` puts three claims together. `RightTrack`: the division into cues equals
the best of all divisions the windows admit, the times are repaired to a valid
track, and every word is in one cue. `FailureExplained`: answers that were accepted
fail their stage later only for the reasons it names. `TranslationRight`: what
reaches the end has the times and words of the source track, the target's script,
and the facts that were spoken.

## 4. Bounds and fairness

**Bounds.** Two jobs are needed where one job's step meets another's projection
(cancel, run loop, acknowledge); one elsewhere, as the jobs share nothing else.
One stage is enough for `service_settles`, which is about what settles a job, not
about its plan; stages {1, 3} give a first and a last stage; three, with 2 only in the
second plan, give a middle one and a profile change; `stage_contents` has all nine.
`MaxAttempt` bounds the commands, not the steps: no command starts once a stage used
up its attempts. 2 attempts allow a crash, a retry and the attempt after it; 5 (9)
are more than the faults of `service_settles` (`stage_contents`) can use up, so the
bound never stops the operator there. Two changes reach a value that changes and
changes back. Five journal events allow appends before, between and after the
faults. Three claims let two race for what a third left. Two files of an output set
are the first, which was replaced, and the last, which fails. Three items in chunks
of two give a chunk that is halved beside one that cannot be. Three worker requests
let the second meet what the first left and the third what the second did. Four
words are the fewest where two windows of three overlap. What faults the models
have is bounded by one or two, enough for a fault in the handling of a fault where
the code handles one: two in `service_settles` let the handler of a failed append fail,
there without a crash or damage beside them (`OneKind`). A provider's
profile that a user wrote is full with any key, or of any other form with a text for a
key; `TextAgrees` is about every combination.

`CHECK_DEADLOCK FALSE` appears where the system really may stop: a batch with its
attempts used up, a closed window, a finished session.

**Fairness.** Threads that nothing blocks make their next step (weak fairness); every
wait in them has a timeout. *Service*: the writer, the queue, the requester; in
`service_settles` also an operator who resumes whenever it is possible, as the
service never starts a command itself. *Session*: pool, runner, window; the runner's
timer is one more source of events in one Qt loop, which requests cannot starve
(strong fairness of `Poll`). *Pages*: both threads, both timers, and a save under way.
Nothing is assumed of the user. *Worker*: the client's tasks and its timeouts, nothing
of the worker. *Runtimes*: a process that runs goes on, and somebody gives a command
that recovers, if only to list. *LLM*: the loop runs what is ready, a request ends by
its timeout. *Publication*: commands go on, and the user of a job that is not
published keeps resuming (strong fairness, as other commands disable it) and retrying.

## 5. Proofs

`JournalProofs` - for any finite or infinite sets of jobs, stages, profiles and
plans: `Typed`, `SucceededIsComplete`, `RuntimeIsCommon`, `NoPlaceholders`,
`AttemptsOnlyGrow`, `CommitsOnce`. The induction is carried by `WellFormed`, a
predicate on one job's record: each transition of Replay keeps it (a lemma each),
and `Inv` lifts it to the batch with `CommonRuntime`. The verdict is inductive only
together with the type and the absence of history outside the plan, because a
reconfiguration judges a job by another plan.

The same module proves of StageContents that it implements Journal
(`ContentsImplementJournal`, for any plans: each step is an event or a stutter, and
only an event that replay accepts), and `SucceededIsFresh`. The latter compares what a
job keeps from many commands with what nobody has computed, a run from nothing, so the
invariant has to say what each key still knows: a stage behind a command, or under it,
would get the key it has (`KeysAreNow`, with `Prefix` and `InRun` on where that is); a
stage that is committed was made under *some* configuration with that key, from the
artifacts that the key names (`AllMade`). Two configurations with one key agree on
everything the stage reads, so by the least stage at which the two runs would differ
there is none. INSPECT and NORMALIZE are apart: they read the source again after it was
hashed for the key, and `SourceRead` and `NormalizeFollows` say until when that is the
same source, which is where `moved` and `mixed` come from. Assumed is `Pipeline`: the
stages, profiles and plans are those of `stage.py`, as the argument depends on who reads
whose artifacts; `MCStageContents` states it as an ASSUME that TLC evaluates. Values,
changes and faults are any.

`JournalFileProofs` - for any bounds: `FailedNeverAppear` without exception;
`ReadableAfterCrashes` until a write is cut short; `AckedIsKept` until then or until
an fsync fails; `ManifestFollows` until the process dies or an fsync fails. The
exceptions are exactly the faults after which TLC finds the plain statements
violated. Invariants: `Cursor` ties the writer's sequence number to the file,
`CleanInv` says that an open journal ends with a newline, `KeptInv` that the synced
lines hold what was acknowledged, `SyncedInv` that only the line being written is
not on the disk.

`BatchLeaseProofs` - for any claims, hosts and pids: `HolderIsNamed`, `LeaseIsLock`
(the refinement) and `InspectionIsTrue`. `Inv`: claims in progress run in living
processes, the guard belongs to the one claim in a guarded block, the file names
every claim between `os.replace` and the end of its release, and what a claim
reclaims belongs to none of those. A reused pid only makes a stale lease look alive,
so it cannot admit a second writer. For inspections, `Watched`: as long as there was
a holder at every moment, it is the same one, because the lock passes through nobody.

`DesktopProofs` - of the session, for any batches and any number of acts: `Typed`,
`ClosedOnIdle` and `OneLine`, the safety part of `ImplementsLine`. `CoordinatorOK` is
inductive by itself, and every step of the session is one of the coordinator or
leaves it alone; so `LineStep` need only map the coordinator's operations to the
line's. `ClosedOnIdle` needs `Ending`: while the finalizer runs, the runner's thread
waits for it; it ends only with the pool thread, and the window closes only when it
has ended. Assumed: `NoBatch` is no batch, and `MaxActs` is a number.

Of the pages, for any inputs, presets, jobs, programs and profiles, and any number of
acts and faults: `DraftsCurrent`, `PanelOnTarget`, `SavesKept`, `ReadersInAgreement`.
The first two follow one kind of message through the two queues (`Only`, `OneUnderWay`)
and show that the other pages and kinds leave it alone (`Same`, a lemma per page).
`DraftInv`: as long as the loader is busy exactly one preview is under way, and unless
another is queued behind it, it asks about the list the page shows; `PanelInv` says the
same of details, with the job they are of. An answer is dropped by its generation alone,
so it counts that nothing older can be under way with a newer one, which is what
`crossed` excepts. `ConfigInv` is about a file that nothing excepted has befallen
(`FileInv`): one program at most saves it, it has the presets and keys that are kept, and
at each step of the save the text on its way has them too, with those it adds
(`OnItsWay`): in the program, then in an empty temporary opened by it, then in the file.
So a save that fails or dies anywhere loses nothing. That the readers agree rests on
the same invariant: it follows which profiles the last acknowledged save of the page
wrote (`kept.saved`), and that each is in the file, or in the text on its way, as the page
writes it (`WrittenAgain`: also when a later save writes it again), so that the pipeline
takes it with a key (`SavedAgrees`). What was written by hand is compared reader by
reader (`TextAgrees`), which is where the exceptions come from; `TextsAgree` joins the two. `WorkInv` keeps an export
from a file seen at its destination. TLC checked each invariant before it was proved.
Assumed: `None` is no text, no provider and no file at a destination.

`BatchServiceProofs` - for any jobs, plans, drivers, commands and bounds: `Typed`;
`CommittedInOrder`; `EventsAccepted`, the refinement of Journal, which says that replay
accepts what the service appends; and the action properties `RetriesAreExplicit`,
`CancelsSettle` and `ManifestsAreLeft`. None is inductive: from most states of the right
type the next append would be refused. `IInv` says what the writer knows of the journal
at each place: `JournalOK` of every job's record (`Recorded`: a stage outside the plan
is untouched, the committed ones are a prefix), `CreateKnows`, `LoopsKnow` and
`StageKnows` of the batch, the loops and the stage at hand, `RoomLeft` of the attempts
that the bound leaves, `QueueOK` of what is queued, and `RestOK` of the remaining types.
Lemmas on Replay's transitions keep a record, lemmas on the control operators say where
the writer goes, and each action joins the two. Upon `IInv` stands one invariant for
each action property: `VerdictsKnown` (the loops that append to a job with a verdict
are the three exceptions), `MarkersKnown` (what the writer has established when it is
about to remove a marker), and for the manifest `RequestKnown` (a request in progress
on an idle batch has the lease), `LeftoverOpen` and `ManifestFollows` (from which places
on the manifest is true, until the first fault). A failing append is one more action in
each induction (`FailedAppendInv`, `FailedAppendVerdicts`): it changes nothing but where
the writer is. TLC checked each on the runs of the service before it was proved.

The same module proves what BatchViews promises: `OffersHold`, `RecoveryHolds` and
`RowsAreHonest`. The views compute from the journal alone what the gateway decides with
replay's checks, so the proofs need to know which records there are. `ViewsKnown`: an
input is lost of a job that exists, and a record is `Coherent`, that is, an open attempt
began when no stage before it was still to begin, an interrupted job has begun the stage
its retry would run, and a job that succeeded has committed all stages. From it follows
`RetryTaken`: replay accepts the retry that is offered. `AttemptsKnown` says where an
attempt can be open: the one the writer is at, or one per running job that a crash left,
as long as nothing fails (`NoFault`) and nothing but a resume, which closes them, or a
cancel goes on.
`StepEvents` reduces each step to one event at most, so both are checked event by event.

`RuntimeProofs` - of the worker session, for any number of calls, progress messages and
faults: `Typed`, `LockIsKept`, `ResultIsOwn`. `Inv` follows a result from the worker to
the caller: on the pipe it answers a request the worker has done (`Answered`), the
generator that reads it belongs to the call that waits (`Quiet`, `Attached`), what it
yields is that request's (`Handed`), and `shutdown` hands on a failure only
(`NoResultAtStop`).

Of the store below it, for any number of Runtimes, processes, clients, commands and
interruptions: `StoreTypes`, `SlotIsProtected`, `PayloadInUse` and `StoreImplementsSlot`.
`StoreInv` has the manager lock (`OneWorks`), what every command has established at the
step it is at (`InPlace`: a Runtime is probed and promoted under its record, the slot
moves to one that is available, a deletion has the use lock of a Runtime outside the
slot until its record is gone), that a record is never without its directory
(`RecordHasDir`) nor the slot without a record (`PointedKnown`), and that only what has no
record now has one that a power loss can bring back (`PastGone`), so that `Return` never
meets a Runtime that was installed again: a record turns in one way at a time
(`RecordTurns`). The manager's promises
rest on this order of its writes: a removal takes the use lock, then the payload, then
the record, and an installation brings directory and record in one rename, so that an
interruption between any two leaves nothing half there that the slot or a worker counts
on. A client that took the lock file of a directory as it was being unlinked holds the
lock no longer, which is the case `InUseIntact` leaves out. Assumed: managed and external Runtimes are
different, and so are processes and clients.

`LlmChunksProofs` - for any plan, answers, slots and bounds: `Typed`, `SlotsAreCounted`,
`FailureLeavesNone`. `SlotsReturned` is inductive with the type and `OnlyRunningHold`: the
tasks of an execution that is over hold nothing. That a failure leaves nothing needs
`StoppingOK`: the slots of stopped tasks are free again, and an execution that is over has
no keys left to take away. The count needs that the chunks are
finite, whatever the plan (`ChunksFinite`), and that one step changes one task (`OneTask`)
or drops them all.

`PublicationProofs` - for any jobs, contents, directories, faults and number of files
(the code has five, the run two): `Typed`, `ReceiptsAreTrue`, `PublishesWhole` and
`CommittedIsStored` (in a store that nothing damages, no batch loses a committed blob to
another, which no run checks). None is inductive: that a receipt is true depends on what the attempt
knew of its files long before. `Held` says it, for a job that nobody disturbed, place by
place: the files counted as replaced hold its content and the others what it found
(`Replaced`), through the commit and back through the rollback, and all are its own from
the end of the transaction on. `Staged` says that an attempt begins with nothing replaced
and its Export committed. A step of another job keeps both, since it leaves the files
alone or takes the job out of `alone` (`OthersGood`). For the store, `Stored`: without
damage no blob is bad, so that no command has one to remove; every step but a removal is
`Sound` for all batches, whichever share the blob. TLC checked the invariant with two
faults before it was proved. Assumed: there is at least one file, and neither "none" nor
"user" is a content.

Only model-checked: liveness and fairness (outside the prover's reach, as is
ENABLED): `EventuallySettled`, `EventuallyShown`, `Repaired`, `CancelEnds`, `Ends`,
`PublishedAtLast`, `CloseSettles`, and of `ImplementsLine` the liveness; and what the folds and recursive functions of Texts, Segmentation and
ChunkPlanning compute (`CuesRight`, `PlansRight`), which would need induction over data.
Every other property of the runs is a theorem.

## 6. What was found

Most of what the code means to keep, it keeps. Where it does not, most often the
property that meets the case names it as an exception, and without that exception TLC
finds the property violated. Those are marked (E); the others were met while modelling,
and the model shows them but no property rests on them.

*Batches.*
- `RetryIsExplicit` (E, three): resume verifies the artifacts of failed and cancelled
  jobs too; a damaged one makes the job pending, and the loop runs it. The loop also
  goes on with the job tuple it read at its start (`durable_pipeline.py:147`): a job
  cancelled since runs again and may succeed. And an exception that is no AppError
  leaves the attempt open; if its workspace cannot be removed either
  (`stage_executor.py:238`), or if the append of an attempt's end fails, the loop fails the
  job over it, and the next resume closes the attempt and with it takes the job out of its
  verdict. docs/recovery.md: "Failed or cancelled Jobs are not resumed automatically". The
  third came to light in the proof; `service_settles` meets it with a failing append.
- `ManifestOnExit` (E): `stage.post_commit_failed` (an artifact damaged between its
  commit and the verification after it) ends the command with the old manifest.
- `OffersAccepted` (E, two): retry is offered for a job shown as interrupted, and pause
  after the last verdict of a batch that still runs; the gateway refuses both.
  `RecoveryWorks` (E): the dialog offers a resume beside the marker of a cancellation
  that was cut off, and the gateway refuses it.
- `RowsHonest` (E, `RunOver`): `retry` leaves open the attempts a crash left in other
  jobs, an update of the configuration makes their jobs pending before resume closes
  them (`durable_pipeline.py:179`, `402`), and the handler of `_run_job` fails a job over
  an attempt whose end could not be appended or whose workspace cannot be removed. Such a
  job is failed, or cancelled, with a stage that the queue shows at work. Success it never
  reaches, which `service_events` checks for one job that meets the last two, and the proof for
  any; `service_cancel`, where none of the three is offered, checks the rows without the
  exception.
- A failing append while a cancellation is recorded (`stage_executor.py:174`) makes the
  handler fail the job instead: what was cancelled reads as failed. The marker is still
  there, and the next command clears it: no document says that the verdict is to be
  `cancelled`, and `CancelSettles` asks for a verdict only.
- A cancel request decided on a schedule read earlier (`local_batch_gateway.py:154`) may
  find the command over; its marker then stays until the next one.
- `AckedKept` (E): `append` returns when the event reads back after a failing fsync,
  which the page cache always shows. `ManifestNotAhead` (E): a line written but not
  synced is replayed and projected to a synced manifest. `CrashesReadable` (E): the append
  after a short write joins the fragment and makes the journal unreadable.
- `Fresh` (E, `moved` and `mixed`): the source is hashed for the key, read
  again for media.json and once more by NORMALIZE, which does not compare; a file
  replaced in between is mixed into a job whose key names the other version.
- docs/recovery.md:48-55 promises less work than `_cache_config` does: any change of
  the profile reruns from INSPECT, any LLM change in `quality` from CORRECT_SOURCE.

*Texts.*
- `LosesBlank` (E): `break_lines` may split at a blank beside a CJK character or before
  closing punctuation, `join_rendered_lines` does not give it back, and the
  validation fails the stage (`subtitle.text_mismatch`), although
  docs/subtitle-policy.md says that content is retained.
- `Fused` (E): corrections are canonical, so a corrected word loses the blank at its ends,
  and SEGMENT joins the words as they are: "3 cats" becomes "3cats", "1, 2" becomes
  "1,2". TRANSLATE then demands the fused fact, REVIEW compares with the words that
  were spoken, and no answer satisfies both.
- Accepted answers are cached, so a retry reads the same answers and fails the same
  way; only a change of the provider settings helps.
- `NotCut` (E): `AnomalyChunkPlanner` raises `llm.item_too_large` inside the trial of a
  longer chunk where `ChunkPlanner` alone would end the chunk before it
  (`llm_anomalies.py:156`, called from `llm_chunking.py:371`): a review whose anomalies
  fit several requests but not one fails.

*LLM.* `Ends` (E, counted in `leaked`): the slot is released after an await in a finally clause; a
task cancelled a second time there never releases it, and a semaphore bound to an
event loop that is over fails every later request (`openai_compatible.py:118-125`,
`295`). The second cancellation is either the caller's, when it strikes where a task is
asking, or comes of itself when several ask: `gather` cancels all of them, and
`_cancel_tasks` those that have not ended with that. The run has the latter.
`FailureLeavesNothing` (E): a put that fails after its replace, a crash before the
aggregate validation, and a failing removal leave answers behind. `llm_cancellation`
finds docs/llm.md:147-148 ("Cancellation removes incomplete tasks and temporary Cache files
while retaining already committed valid entries") false: the cleanup of a cancelled
execution removes every key it wrote (`llm_chunk_executor.py:199`, the same handler as for
a failure). So `FailureLeavesNothing` claims nothing of cancelled executions, and
`EarlierKept` says what does survive them: the answers of earlier ones.

*Publication.* README.md:218-220 says that cancellation or failure rolls back the
outputs of the run; after the last replace (before the receipt is committed) it does
not. Resume collects damaged blobs and removes them later, in a store all batches
share (`durable_pipeline.py:442`): another batch may lose one it has just put.

*Runtimes.* The directory is not synced after a record is removed
(`filesystem_runtime_repository.py:244`, `274`): after a power loss a removed Runtime may be
registered and verified again, without a doctor's run. The slot never names it before it is
activated like any other, and `ActiveSlot` says exactly that: a removal can be undone until
something settles it. A crash while a record is rewritten leaves a temporary that the static
doctor rejects for ever; activating the current Runtime with an activation pending
can mark it failed; `use_lock` reads the record before it locks
(`filesystem_runtime_repository.py:60`). In `WorkerSession`, progress that arrives
before the acknowledgement of a cancellation ends the generator, so the cancellation
times out; after a termination that times out every later start is refused.

*Desktop.* `CloseSettles` (E): the request posted by a `stop` that gave up ends the
runner later under an open window; an idle state that arrives while the question of
`closeEvent` is open is not seen again. `DraftCurrent` (E): a preview of a cleared list is
accepted for the refilled one; a failed preview leaves the old one usable. The proof
showed the first case to be wider than the run's bounds reach: with five acts, the answer
for the cleared list sends a queued preview while that of the refilled list is still on
its way, and the latter passes for the newer one, as one generation is remembered
(`create_controller.py:306`); `crossed` covers it now.
`PanelIsTarget` (E): buttons follow the detail shown last, commands go to the job selected
last. `EventuallyShown` (E): answers about presets are dropped while a test or a failed
save is pending (`settings_controller.py:147`); a save that fails after `os.replace`
(`chmod`, `toml_configuration_store.py:105`, or the read-back, `configuration.py:311`) has
changed the file while the pages keep the old values (`unseen`); a selection made in History is lost
when the model is reset. `SavedKept` (E): overlapping saves of two programs share one
temporary; a text with a control character makes the file unreadable, and the next save
starts from defaults, against "Invalid configuration loads safe defaults without
overwriting the invalid file" (docs/phase5_decision_record.md). `ReadersAgree` (E): the
page and the pipeline validate profiles written by hand differently. The pipeline refuses
a profile without a kind, which the page takes for granted, and a key that is no text, which
the page overlooks; it strips the name of a tokenizer (`infrastructure/config.py:136`), while
the page refuses one with blanks around it (`configuration.py:226`); and the page refuses
the whole llm.toml when any profile is no table (`toml_configuration_store.py:606-608`),
while the pipeline looks at its own (`infrastructure/config.py:208-211`). A language that is an array ends the start of the program with a
TypeError (`634`), where any other wrong one gives `en`. Also: a save of a profile writes the
others without their unknown fields and with other types as text
(`toml_configuration_store.py:159-179`), which can make a refused profile an accepted
one; and presets whose names differ only in blanks load as one name and are written as
two tables, after which the file cannot be read. An export replaces
a file that came to its destination after the writer looked, unasked (E, `late`); and it
reports a failure when only the mode or the directory's sync fails, with the bundle in
place.

## 7. What is not modelled

- The legacy `job.config_updated`; events' identity, timestamps, JSON and size limits.
- CLI and GUI on one batch at the same moment: they exclude each other through the
  lease, which is modelled on its own. Hosts sharing a directory over a network file
  system (docs/recovery.md disclaims them); FileLock is taken to exclude.
- What INSPECT, NORMALIZE and TRANSCRIBE compute (ffprobe, ffmpeg, faster-whisper), the
  formats of ASS, SRT and WebVTT, the codecs of domain objects: no state of their own.
- In Texts: signs, units, currencies, slashes, dates, telephone numbers,
  abbreviations, opening brackets, combining marks, and the JSON shape of answers.
- The request's overhead is the same for every window in ChunkPlanning; prompts and
  context payloads enter it as a number. Provider errors are transient or permanent.
- What a power loss does to deletions in staging and `.recovery`: they are taken to stay
  deleted, as the next recovery would repeat them.
- A retry whose append fails: nothing is done, and the command may be given again.
- A raw OSError in the middle of one replace of the output transaction.
- Contents of archives and manifests of Runtimes, checks of the doctor, field
  validation of worker messages: outcomes. The model registry and runtime selection
  (pure checks over records) and run_single, which keeps nothing durable.
- Layout, wording, translation of the interface, logging; the contents of diagnostic
  reports; paging and ordering of the queue.
- In DesktopSession: whatever neither schedules work nor ends a session.

## 8. Plan

Model registry and selection; the archive's staging down to its files.
