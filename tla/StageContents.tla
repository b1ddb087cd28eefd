----------------------------- MODULE StageContents -----------------------------
(***************************************************************************)
(* What the committed stages of a job contain.  The journal says that a    *)
(* stage is committed, under which cache key and with which artifacts;     *)
(* run takes the artifacts as they are if the key has not changed.  Here   *)
(* the events of Journal carry the keys and the contents, while resumes    *)
(* change the configuration, the user changes the source file, and stages  *)
(* fail, are cancelled or die.                                             *)
(*                                                                         *)
(* An artifact is what it was made from: a set of triples <<stage, option, *)
(* value>>, one for everything a stage read to make it or that was read to *)
(* make what the stage read.                                               *)
(*                                                                         *)
(* One job is followed: the jobs of a batch share the configuration, which *)
(* a resume changes for all of them, and nothing that is said here.        *)
(***************************************************************************)
EXTENDS Journal

CONSTANTS
    Values,      \* of a language, a model, ...; sources, provider settings
    MaxChanges,  \* bound: options and files changed, and retries
    MaxFaults    \* bound: failed, cancelled and dying commands

ASSUME ContentsAssumption ==
    /\ Jobs # {}
    /\ Values # {} /\ MaxChanges \in Nat /\ MaxFaults \in Nat

VARIABLES
    config,   \* options of the job, but for its profile
    source,   \* version of the input file
    provider, \* settings of the LLM provider in the configuration file
    key,      \* of each stage: the cache key of its last attempt
    output,   \* of each stage: what it committed last
    next,     \* the stage the loop of a command has come to
    moved,    \* history: the source changed under the running command
    mixed,    \* history: it may have changed between INSPECT's key and NORMALIZE
    changes, faults

contents == <<key, output>>
files == <<source, provider>>
history == <<moved, mixed>>
counts == <<changes, faults>>
allVars == <<vars, config, files, contents, next, history, counts>>

-----------------------------------------------------------------------------
(* Stages and options                                                       *)

INSPECT == 1
NORMALIZE == 2
TRANSCRIBE == 3
CORRECT_SOURCE == 4
SEGMENT == 5
TRANSLATE == 6
REVIEW == 7
EXPORT == 8
PUBLISH == 9

StagePlan ==
    [deterministic |-> {INSPECT, NORMALIZE, TRANSCRIBE, SEGMENT, EXPORT, PUBLISH},
     fast    |-> {INSPECT, NORMALIZE, TRANSCRIBE, SEGMENT, TRANSLATE, EXPORT, PUBLISH},
     quality |-> INSPECT .. PUBLISH]

\* The stages, profiles and plans of the code.
Pipeline ==
    /\ Stages = INSPECT .. PUBLISH
    /\ Profiles = {"deterministic", "fast", "quality"}
    /\ Plan = StagePlan

job == CHOOSE j \in Jobs : TRUE
rec == batch[job]
plan == Plan[rec.profile]
Committed(s) == rec.stage[s] = "committed"

\* model: reference, device and compute type of the ASR engine.  The LLM
\* snapshot holds what the provider's settings were when it was taken; a
\* deterministic job has none.
NoLlm == [target |-> "none", provider |-> "none"]
Configs(p) ==
    [model : Values, language : Values, output : Values,
     llm : IF p = "deterministic" THEN {NoLlm} ELSE [target : Values, provider : Values]]

\* The snapshot as a whole repeats the profile and the language.
Snapshot(c, p) == <<c.llm, c.language, p>>

-----------------------------------------------------------------------------
(* Keys and contents                                                        *)

\* Mutant: the source counts by its path.
KeyOptions_NoSource(c, p, s) ==
    <<p, CASE s = TRANSCRIBE -> <<c.model, c.language>>
           [] s \in {CORRECT_SOURCE, TRANSLATE, REVIEW, EXPORT} -> <<Snapshot(c, p)>>
           [] s = PUBLISH -> <<c.output, Snapshot(c, p)>>
           [] OTHER -> <<>> >>

\* _cache_config, without what no resume can change.
KeyOptions(c, p, s) ==
    <<p, CASE s = INSPECT -> <<source>>
           [] s = TRANSCRIBE -> <<c.model, c.language>>
           [] s \in {CORRECT_SOURCE, TRANSLATE, REVIEW, EXPORT} -> <<Snapshot(c, p)>>
           [] s = PUBLISH -> <<c.output, Snapshot(c, p)>>
           [] OTHER -> <<>> >>

\* The artifacts of the earlier stages of the plan that are committed.
Inputs(s) == {t \in plan : t < s /\ Committed(t)}

CacheKey(s) == <<KeyOptions(config, rec.profile, s), [t \in Inputs(s) |-> output[t]]>>

\* What the runner of a stage reads of the job, and the stages whose artifacts
\* it reads.
Inspect == [reads |-> {"source"}, uses |-> {}]

\* The source once more: what media.json says of it is not compared.
Normalize == [reads |-> {"source"}, uses |-> {INSPECT}]

Transcribe == [reads |-> {"model", "language"}, uses |-> {NORMALIZE}]

LlmReads == {"profile", "target", "provider"}

CorrectSource == [reads |-> LlmReads, uses |-> {TRANSCRIBE}]

Segment == [reads |-> {}, uses |-> {TRANSCRIBE, CORRECT_SOURCE}]

TranslateFast == [reads |-> LlmReads, uses |-> {TRANSCRIBE, SEGMENT}]

TranslateQuality == [reads |-> LlmReads, uses |-> {TRANSCRIBE, CORRECT_SOURCE, SEGMENT}]

Review == [reads |-> LlmReads, uses |-> {TRANSCRIBE, CORRECT_SOURCE, TRANSLATE}]

\* The track of the last stage that makes one.
Export(p) ==
    [reads |-> {"target"},
     uses  |-> CASE p = "deterministic" -> {TRANSCRIBE, SEGMENT}
                 [] p = "fast" -> {TRANSCRIBE, TRANSLATE}
                 [] p = "quality" -> {TRANSCRIBE, CORRECT_SOURCE, REVIEW}]

Publish == [reads |-> {"output"}, uses |-> {EXPORT}]

Runners(p) ==
    <<Inspect, Normalize, Transcribe, CorrectSource, Segment,
      IF p = "quality" THEN TranslateQuality ELSE TranslateFast,
      Review, Export(p), Publish>>

\* Corrections are read if there are any.
Uses(p, s) == Runners(p)[s].uses \intersect Plan[p]

Value(c, p, option) ==
    CASE option = "source" -> source
      [] option = "profile" -> p
      [] option \in {"target", "provider"} -> c.llm[option]
      [] OTHER -> c[option]

Read(s) ==
    {<<s, option, Value(config, rec.profile, option)>> :
        option \in Runners(rec.profile)[s].reads}

Product(s) == Read(s) \union UNION {output[t] : t \in Uses(rec.profile, s)}

\* The stages a stage depends on, itself included: the fewest that have it and
\* what they use.
Sources ==
    [p \in Profiles |-> [s \in Stages |->
        {t \in Stages : \A S \in SUBSET Stages :
            s \in S /\ (\A u \in S : Uses(p, u) \subseteq S) => t \in S}]]

\* What the stage would contain if all were made now, from nothing.
Wanted(s) == UNION {Read(t) : t \in Sources[rec.profile][s]}

-----------------------------------------------------------------------------
(* Commands                                                                 *)

Running == next # 0
Open == {s \in plan : rec.stage[s] = "running"}

FirstValue == CHOOSE v \in Values : TRUE

\* Values are interchangeable: a batch begins with any one of them.
InitContents ==
    /\ Init
    /\ source = FirstValue /\ provider = FirstValue
    /\ config \in {c \in Configs(rec.profile) :
                     \A v \in {c.model, c.language, c.output, c.llm.target, c.llm.provider} :
                        v \in {FirstValue, "none"}}
    /\ key = [s \in Stages |-> <<>>] /\ output = [s \in Stages |-> {}]
    /\ next = 0 /\ moved = FALSE /\ mixed = FALSE /\ changes = 0 /\ faults = 0

FirstOf(p) == CHOOSE s \in Plan[p] : \A t \in Plan[p] : s <= t

Create ==
    /\ \/ BatchCreated
       \/ JobCreated(job, rec.profile)
    /\ next' = IF opened THEN FirstOf(rec.profile) ELSE 0
    /\ UNCHANGED <<config, files, contents, history, counts>>

\* The provider's settings must be those of the snapshot, but for the key.
Bound(c) == c.llm = NoLlm \/ c.llm.provider = provider

\* resume: open attempts are interrupted before the loop begins, and before
\* that the overrides are applied.
Begin ==
    /\ next' = FirstOf(rec.profile)
    /\ moved' = FALSE

Idle == ~Running /\ job \in Created

Resume ==
    /\ Idle /\ Bound(config) /\ Open = {}
    /\ Begin
    /\ UNCHANGED <<vars, config, files, contents, mixed, counts>>

Interrupt ==
    /\ Idle
    /\ \E s \in Open : StageClosed(job, s, rec.attempt[s], "interrupted")
    /\ UNCHANGED <<config, files, contents, next, history, counts>>

\* The options in which two configurations differ.  An override taken
\* literally may renew the snapshot, and with it the provider's settings.
Changed(c, p, d, q) ==
    {o \in {"model", "language", "output"} : c[o] # d[o]}
        \union {o \in {"profile"} : p # q}
        \union {o \in {"target"} : NoLlm \notin {c.llm, d.llm} /\ c.llm.target # d.llm.target}

Earliest(S) == CHOOSE s \in S : \A t \in S : s <= t

\* A stage of the LLM, or the first one the plan has instead.
LlmStage(p) == IF CORRECT_SOURCE \in Plan[p] THEN CORRECT_SOURCE ELSE TRANSLATE

\* _earliest_change: where the resume with other options begins anew.
EarliestChange(c, p, d, q) ==
    IF c.model # d.model \/ c.language # d.language THEN TRANSCRIBE
    ELSE Earliest(
        (IF p = q THEN {}
         ELSE CASE q = "quality" -> {CORRECT_SOURCE}
                [] q # "quality" /\ p = "quality" -> {SEGMENT}
                [] q = "fast" /\ p = "deterministic" -> {TRANSLATE}
                [] OTHER -> {SEGMENT})
        \union (IF NoLlm \in {c.llm, d.llm} THEN {}
                ELSE {s \in {LlmStage(q)} : c.llm.provider # d.llm.provider \/ p # q}
                        \union {s \in {TRANSLATE} : c.llm.target # d.llm.target})
        \union {s \in {PUBLISH} : c.output # d.output})

\* A resume with overrides; the event covers all jobs.
Override ==
    /\ Idle
    /\ \E q \in Profiles : \E d \in Configs(q) :
         LET different == Changed(config, rec.profile, d, q) IN
         /\ Bound(d) /\ <<d, q>> # <<config, rec.profile>>
         /\ changes + Cardinality(different) <= MaxChanges
         /\ changes' = changes + Cardinality(different)
         /\ ConfigUpdated(q, EarliestChange(config, rec.profile, d, q))
         /\ config' = d
    /\ UNCHANGED <<files, contents, next, history, faults>>

\* retry: the loop begins at once, whatever is open.
Retry ==
    /\ Idle /\ Bound(config)
    /\ \E s \in plan : RetryRequested(job, s)
    /\ changes < MaxChanges /\ changes' = changes + 1
    /\ Begin
    /\ UNCHANGED <<config, files, contents, mixed, faults>>

-----------------------------------------------------------------------------
(* The loop of _run_job, and StageExecutor                                  *)

After(s) == IF s = PUBLISH THEN PUBLISH + 1 ELSE CHOOSE t \in plan : t > s /\ \A u \in plan : u > s => t <= u

InLoop == Running /\ next \in plan /\ rec.state \notin {"failed", "cancelled"} /\ Open = {}

\* A stage whose key is still the one it was committed under is kept.
Keep ==
    /\ InLoop /\ Committed(next) /\ key[next] = CacheKey(next)
    /\ next' = After(next)
    /\ UNCHANGED <<vars, config, files, contents, history, counts>>

Invalidate ==
    /\ InLoop /\ Committed(next) /\ key[next] # CacheKey(next)
    /\ StageInvalidated(job, next, rec.attempt[next])
    /\ UNCHANGED <<config, files, contents, next, history, counts>>

\* The key is taken before the attempt begins.
Start ==
    /\ InLoop /\ ~Committed(next) /\ rec.attempt[next] < MaxAttempt
    /\ StageStarted(job, next, rec.attempt[next] + 1)
    /\ key' = [key EXCEPT ![next] = CacheKey(next)]
    /\ mixed' = (mixed /\ next # INSPECT)
    /\ UNCHANGED <<config, files, output, next, moved, counts>>

\* The runner reads what it needs, at the latest when it commits.
Commit ==
    /\ Running /\ next \in Open
    /\ StageClosed(job, next, rec.attempt[next], "committed")
    /\ output' = [output EXCEPT ![next] = Product(next)]
    /\ next' = After(next)
    /\ UNCHANGED <<config, files, key, history, counts>>

Fault == faults < MaxFaults /\ faults' = faults + 1 /\ UNCHANGED changes

\* A stage fails or is cancelled: two events of the journal, and no more.
Fail ==
    /\ Running /\ next \in Open /\ Fault
    /\ \E outcome \in {"failed", "cancelled"} :
          StageClosed(job, next, rec.attempt[next], outcome)
    /\ next' = 0
    /\ UNCHANGED <<config, files, contents, history>>

Crash ==
    /\ Running /\ Fault
    /\ next' = 0
    /\ UNCHANGED <<vars, config, files, contents, history>>

Succeed ==
    /\ Running /\ next = PUBLISH + 1 /\ rec.state # "succeeded"
    /\ JobSucceeded(job)
    /\ UNCHANGED <<config, files, contents, next, history, counts>>

\* The command ends; it passes over what failed or was cancelled before.
End ==
    /\ Running
    /\ \/ next = PUBLISH + 1 /\ rec.state = "succeeded"
       \/ rec.state \in {"failed", "cancelled"}
    /\ next' = 0
    /\ UNCHANGED <<vars, config, files, contents, history, counts>>

-----------------------------------------------------------------------------
(* The world                                                                *)

\* The user replaces the input file.  A stage that is between its key and its
\* commit, or NORMALIZE after it, may see the other one.
ChangeSource ==
    /\ changes < MaxChanges /\ changes' = changes + 1 /\ UNCHANGED faults
    /\ \E v \in Values \ {source} : source' = v
    /\ moved' = Running
    /\ mixed' = (mixed \/ (Running /\ ~Committed(NORMALIZE)))
    /\ UNCHANGED <<vars, config, provider, contents, next>>

ChangeProvider ==
    /\ changes < MaxChanges /\ changes' = changes + 1 /\ UNCHANGED faults
    /\ \E v \in Values \ {provider} : provider' = v
    /\ UNCHANGED <<vars, config, source, contents, next, history>>

NextContents ==
    \/ Create \/ Resume \/ Interrupt \/ Override \/ Retry
    \/ Keep \/ Invalidate \/ Start \/ Commit \/ Fail \/ Crash \/ Succeed \/ End
    \/ ChangeSource \/ ChangeProvider

SpecContents == InitContents /\ [][NextContents]_allVars

-----------------------------------------------------------------------------
(* Properties                                                               *)

\* When a command leaves the job succeeded, every stage of its plan contains
\* what it would contain if the whole job were run now from nothing: whatever
\* was configured, interrupted, retried, failed or replaced before, no stage
\* keeps a result of other options, of another source or of a stage that has
\* been run again.  Two exceptions: the source changed under that command, or
\* it changed while NORMALIZE had yet to read what INSPECT's key names, and
\* has changed back.
Fresh ==
    Running /\ next = PUBLISH + 1 /\ rec.state = "succeeded" /\ ~moved /\ ~mixed =>
        \A s \in plan : output[s] = Wanted(s)

=============================================================================
