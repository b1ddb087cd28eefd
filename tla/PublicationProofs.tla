--------------------------- MODULE PublicationProofs ---------------------------
(***************************************************************************)
(* Proofs about the publication of output files, for any jobs, contents,   *)
(* directories and number of files, and any number of faults.              *)
(*                                                                         *)
(* A job's files depend on its own command and on whoever else writes to   *)
(* the same directory.  `Held' below says what an attempt that nobody      *)
(* disturbed knows of its files at each place of its command; a step of    *)
(* another job keeps it, since it either leaves the files of the job alone *)
(* or takes the job out of `alone' (OthersKept).  The store is shared by   *)
(* all batches; `Stored' says that without damage no blob is ever bad, so  *)
(* that no resume has anything to remove.                                  *)
(***************************************************************************)
EXTENDS Publication, TLAPS

Values == Contents \union {"none", "user"}

\* The places of a command.
Attempts == Attempting \union {"checked", "received", "succeed"}
Steps == {"idle", "resume", "run", "next"} \union Attempts

Records == [at : Steps, bad : SUBSET Refs, found : SUBSET Refs, prev : [Index -> Values],
            done : 0 .. NumFiles, recovery : BOOLEAN, why : {"none", "failed", "cancelled"}]

Verdicts == {"open", "interrupted", "succeeded", "failed", "cancelled"}

\* The types, with what a command remembers.
Shaped ==
    /\ content \in [Jobs -> Contents] /\ dir \in [Jobs -> Dirs] /\ overwrite \in [Jobs -> BOOLEAN]
    /\ files \in [Places -> Values]
    /\ blob \in [Refs -> {"none", "good", "bad"}]
    /\ export \subseteq Jobs /\ publish \subseteq Jobs /\ tried \subseteq Jobs
    /\ verdict \in [Jobs -> Verdicts]
    /\ job \in [Jobs -> Records]
    /\ marker \subseteq Jobs /\ alone \subseteq Jobs
    /\ damage \in BOOLEAN /\ faults \in 0 .. MaxFaults

\* The attempt of Publish, up to stage.committed.
InPublish == {"match", "read"} \union Publishing

\* An attempt of Publish has its Export and no Publish yet; it starts with no
\* file replaced.  Only a job with an Export is published.
Staged(j) ==
    /\ j \in publish => j \in export
    /\ job[j].at \in InPublish => j \in export /\ j \notin publish
    /\ job[j].at \in {"match", "read"} => job[j].done = 0

\* What an undisturbed job knows of its files: those that it replaced hold its
\* content and the others what it found; all of them are its own from the end
\* of the transaction on.
Replaced(j) ==
    \A i \in Index : files[<<dir[j], i>>] = IF i <= job[j].done THEN content[j] ELSE job[j].prev[i]

Held(j) ==
    j \in alone =>
        /\ j \in publish => AllMine(j)
        /\ job[j].at \in {"verify", "receipt", "receipting", "published"} => AllMine(j)
        /\ job[j].at \in {"commit", "rollback"} => Replaced(j)

\* Without damage no blob is bad, and nobody is about to remove one.
Stored ==
    ~damage => /\ \A r \in Refs : blob[r] # "bad"
               /\ \A j \in Jobs : /\ job[j].bad = {}
                                  /\ j \in export => blob[ExportRef(j)] = "good"
                                  /\ j \in publish => blob[ReceiptRef(j)] = "good"

Invariant ==
    /\ Shaped
    /\ \A j \in Jobs : Staged(j)
    /\ \A j \in Jobs : Held(j)
    /\ Stored

-----------------------------------------------------------------------------
(* What a command remembers                                                 *)

\* A command that is over remembers nothing.
LEMMA IdleRecord == Idle \in Records /\ Idle.at = "idle" /\ Idle.bad = {}
BY PublicationAssumption DEF Idle, Records, Steps, Values

\* A command goes on to another place and forgets nothing: Goto.
LEMMA GotoMoves ==
    ASSUME Shaped, NEW j \in Jobs, NEW place \in Steps, Goto(j, place)
    PROVE  /\ job' \in [Jobs -> Records]
           /\ \A k \in Jobs \ {j} : job'[k] = job[k]
           /\ job'[j].at = place /\ job'[j].bad = job[j].bad
           /\ job'[j].done = job[j].done /\ job'[j].prev = job[j].prev
<1>1. job[j] \in Records /\ job' = [job EXCEPT ![j] = [job[j] EXCEPT !.at = place]]
  BY DEF Goto, Shaped
<1>2. DEFINE r == [job[j] EXCEPT !.at = place]
<1>3. r \in Records /\ r.at = place /\ r.bad = job[j].bad /\ r.done = job[j].done /\ r.prev = job[j].prev
  BY <1>1 DEF Records
<1>4. job' = [job EXCEPT ![j] = r]
  BY <1>1
<1> HIDE DEF r
<1>5. job'[j] = r /\ \A k \in Jobs \ {j} : job'[k] = job[k]
  BY <1>4 DEF Shaped
<1>6. job' \in [Jobs -> Records]
  BY <1>3, <1>4 DEF Shaped
<1> QED
  BY <1>3, <1>5, <1>6

\* A command remembers something else: Remember.
LEMMA RememberMoves ==
    ASSUME Shaped, NEW j \in Jobs, NEW r \in Records, Remember(j, r)
    PROVE  /\ job' \in [Jobs -> Records]
           /\ job'[j] = r
           /\ \A k \in Jobs \ {j} : job'[k] = job[k]
BY DEF Remember, Shaped

\* A command ends: it remembers nothing, and its verdict is recorded.
LEMMA EndMoves ==
    ASSUME Shaped, NEW j \in Jobs, NEW result \in Verdicts, End(j, result)
    PROVE  /\ job' \in [Jobs -> Records] /\ verdict' \in [Jobs -> Verdicts]
           /\ job'[j] = Idle
           /\ \A k \in Jobs \ {j} : job'[k] = job[k]
BY IdleRecord DEF End, Shaped

\* What ends a command, the types that change with it, and that nothing is
\* remembered: an error or an acknowledged cancellation.
Ended(j) ==
    /\ job' \in [Jobs -> Records] /\ verdict' \in [Jobs -> Verdicts] /\ marker' \subseteq Jobs
    /\ job'[j] = Idle
    /\ \A k \in Jobs \ {j} : job'[k] = job[k]

\* The three ways in which an attempt of a job ends.
LEMMA Ends ==
    ASSUME Shaped, NEW j \in Jobs
    PROVE  /\ Fail(j) => Ended(j)
           /\ Cancelled(j) => Ended(j)
           /\ \A result \in Verdicts : End(j, result) /\ marker' = marker => Ended(j)
<1>1. verdict[j] \in Verdicts /\ "failed" \in Verdicts /\ "cancelled" \in Verdicts
  BY DEF Shaped, Verdicts
<1>2. ASSUME Fail(j) PROVE Ended(j)
  <2>1. PICK result \in Verdicts : End(j, result)
    BY <1>1, <1>2 DEF Fail
  <2> QED
    BY <1>2, <2>1, EndMoves DEF Ended, Fail, Shaped
<1>3. ASSUME Cancelled(j) PROVE Ended(j)
  <2>1. Acknowledged(j, verdict[j]) \in Verdicts
    BY <1>1 DEF Acknowledged
  <2>2. PICK result \in Verdicts : End(j, result)
    BY <1>3, <2>1 DEF Cancelled
  <2> QED
    BY <1>3, <2>2, EndMoves DEF Ended, Cancelled, Shaped
<1>4. ASSUME NEW result \in Verdicts, End(j, result), marker' = marker PROVE Ended(j)
  BY <1>4, EndMoves DEF Ended, Shaped
<1> QED
  BY <1>2, <1>3, <1>4

\* stage.started of Export and of Publish: StageExecutor.execute.
LEMMA StartMoves ==
    ASSUME Shaped, NEW j \in Jobs, NEW place \in Steps, Start(j, place)
    PROVE  /\ job' \in [Jobs -> Records] /\ verdict' \in [Jobs -> Verdicts]
           /\ \A k \in Jobs \ {j} : job'[k] = job[k]
           /\ job'[j].at = place /\ job'[j].bad = {} /\ job'[j].done = 0
<1> DEFINE recovery == place = "match" /\ j \in tried
           r == [Idle EXCEPT !.at = place, !.recovery = recovery]
<1>1. recovery \in BOOLEAN
  OBVIOUS
<1>2. Remember(j, r)
  BY DEF Start
<1> HIDE DEF recovery
<1>3. r \in Records /\ r.at = place /\ r.bad = {} /\ r.done = 0
  BY <1>1, IdleRecord DEF Records, Idle
<1> HIDE DEF r
<1>4. verdict' \in [Jobs -> Verdicts]
  BY DEF Start, Shaped, Verdicts
<1> QED
  BY <1>2, <1>3, <1>4, RememberMoves

-----------------------------------------------------------------------------
(* One step of a job                                                        *)

\* What the step of a job does not touch: another job's command and journal,
\* and the files of another job that stays undisturbed.
Others(j) ==
    /\ UNCHANGED options
    /\ \A k \in Jobs \ {j} :
         /\ job'[k] = job[k]
         /\ k \in export' <=> k \in export
         /\ k \in publish' <=> k \in publish
         /\ k \in alone' => /\ k \in alone
                            /\ \A i \in Index : files'[<<dir[k], i>>] = files[<<dir[k], i>>]

Kept(j) == Shaped' /\ Others(j)

\* A fault is counted; neither it nor its absence damages a blob.
LEMMA Counted ==
    ASSUME Shaped
    PROVE  /\ Fault => faults' \in 0 .. MaxFaults /\ damage' \in BOOLEAN /\ damage' = damage
           /\ NoFault => faults' \in 0 .. MaxFaults /\ damage' \in BOOLEAN /\ damage' = damage
BY PublicationAssumption DEF Shaped, Fault, NoFault, counts

\* The blobs of a job: what Export and Publish store.
LEMMA RefsOfJobs ==
    ASSUME Shaped, NEW j \in Jobs
    PROVE  ExportRef(j) \in Refs /\ ReceiptRef(j) \in Refs
BY DEF Shaped, ExportRef, ReceiptRef, Refs

\* The files of a job.
LEMMA PlacesOfJobs ==
    ASSUME Shaped, NEW j \in Jobs, NEW i \in Index
    PROVE  <<dir[j], i>> \in Places /\ files[<<dir[j], i>>] \in Values /\ content[j] \in Values
BY DEF Shaped, Places, Values

\* A job writes to a file of its own, and whoever shares its directory is
\* disturbed: os.replace.
LEMMA Writes ==
    ASSUME Shaped, NEW j \in Jobs, NEW i \in Index, NEW value \in Values, Write(j, i, value)
    PROVE  /\ files' \in [Places -> Values] /\ alone' \subseteq alone
           /\ files'[<<dir[j], i>>] = value
           /\ \A h \in Index \ {i} : files'[<<dir[j], h>>] = files[<<dir[j], h>>]
           /\ \A k \in Jobs \ {j} : k \in alone' =>
                \A h \in Index : files'[<<dir[k], h>>] = files[<<dir[k], h>>]
<1>1. <<dir[j], i>> \in Places /\ files' = [files EXCEPT ![<<dir[j], i>>] = value]
  BY PlacesOfJobs DEF Write
<1>2. files' \in [Places -> Values] /\ files'[<<dir[j], i>>] = value
  BY <1>1 DEF Shaped
<1>3. \A h \in Index \ {i} : files'[<<dir[j], h>>] = files[<<dir[j], h>>]
  BY <1>1, PlacesOfJobs DEF Shaped
<1>4. ASSUME NEW k \in Jobs \ {j}, k \in alone', NEW h \in Index
      PROVE  files'[<<dir[k], h>>] = files[<<dir[k], h>>]
  BY <1>1, <1>4, PlacesOfJobs DEF Shaped, Write
<1> QED
  BY <1>2, <1>3, <1>4 DEF Write

\* A committed blob that a resume finds bad.
BadCommitted(j, r) ==
    /\ blob[r] # "good"
    /\ \/ j \in export /\ r = ExportRef(j)
       \/ j \in publish /\ r = ReceiptRef(j)

\* A resume marks for removal only committed blobs that are not good:
\* _invalidate_corrupt_artifacts.
LEMMA ResumeKept ==
    ASSUME Shaped, NEW j \in Jobs, Resume(j)
    PROVE  /\ Kept(j) /\ job'[j].at = "resume"
           /\ \A r \in job'[j].bad : BadCommitted(j, r)
<1> DEFINE committed == {r \in {ExportRef(j)} : j \in export} \union {r \in {ReceiptRef(j)} : j \in publish}
           wrong == {r \in committed : blob[r] # "good"}
           m == [Idle EXCEPT !.at = "resume", !.bad = wrong, !.found = wrong]
<1>1. \A r \in wrong : BadCommitted(j, r)
  BY DEF BadCommitted
<1>2. Remember(j, m)
  BY DEF Resume
<1>3. wrong \subseteq Refs
  BY <1>1, RefsOfJobs DEF BadCommitted
<1> HIDE DEF wrong
<1>4. m \in Records /\ m.at = "resume" /\ m.bad = wrong
  BY <1>3, IdleRecord DEF Records, Idle, Steps
<1> HIDE DEF m
<1>5. /\ job' \in [Jobs -> Records] /\ job'[j] = m /\ \A k \in Jobs \ {j} : job'[k] = job[k]
  BY <1>2, <1>4, RememberMoves
<1>6. Kept(j)
  BY <1>5 DEF Resume, Kept, Others, Shaped, options, journal, counts
<1> QED
  BY <1>1, <1>4, <1>5, <1>6

\* remove_corrupt takes one of the blobs that the command found bad.
LEMMA RemoveKept ==
    ASSUME Shaped, NEW j \in Jobs, RemoveCorrupt(j)
    PROVE  /\ Kept(j) /\ job'[j].at = "resume" /\ job'[j].bad \subseteq job[j].bad
           /\ job[j].bad # {}
<1>1. PICK r \in job[j].bad : /\ blob' = [blob EXCEPT ![r] = "none"]
                              /\ Remember(j, [job[j] EXCEPT !.bad = @ \ {r}])
  BY DEF RemoveCorrupt
<1> DEFINE m == [job[j] EXCEPT !.bad = @ \ {r}]
<1>2. job[j] \in Records /\ job[j].at = "resume"
  BY DEF Shaped, RemoveCorrupt, At
<1>3. m \in Records /\ m.at = "resume" /\ m.bad \subseteq job[j].bad
  BY <1>2 DEF Records
<1>4. Remember(j, m)
  BY <1>1
<1> HIDE DEF m
<1>5. /\ job' \in [Jobs -> Records] /\ job'[j] = m /\ \A k \in Jobs \ {j} : job'[k] = job[k]
  BY <1>3, <1>4, RememberMoves
<1>6. blob' \in [Refs -> {"none", "good", "bad"}]
  BY <1>1 DEF Shaped
<1>7. Kept(j)
  BY <1>5, <1>6 DEF RemoveCorrupt, Kept, Others, Shaped, options, journal, counts
<1> QED
  BY <1>1, <1>3, <1>5, <1>7

\* The stages that are found bad are reopened, and the loop starts: run.
LEMMA Settles ==
    ASSUME Shaped, NEW j \in Jobs, NEW stages \in SUBSET {"export", "publish"}, Settle(j, stages)
    PROVE  /\ job' \in [Jobs -> Records] /\ verdict' \in [Jobs -> Verdicts]
           /\ marker' \subseteq Jobs
           /\ \A k \in Jobs \ {j} : job'[k] = job[k]
           /\ job'[j].at = "run" /\ job'[j].bad = job[j].bad
           /\ export' \subseteq export /\ export \ {j} \subseteq export'
           /\ publish' \subseteq publish /\ publish \ {j} \subseteq publish'
           /\ j \notin export' => j \notin export \/ j \notin publish'
<1>1. Goto(j, "run") /\ "run" \in Steps
  BY DEF Settle, Steps
<1>2. verdict' \in [Jobs -> Verdicts]
  BY DEF Settle, Shaped, Verdicts, Acknowledged
<1> QED
  BY <1>1, <1>2, GotoMoves DEF Settle, Shaped

\* The look at the targets reopens stages of its own job at most.
LEMMA CheckKept ==
    ASSUME Shaped, NEW j \in Jobs, CheckTargets(j)
    PROVE  /\ Kept(j) /\ job'[j].at \in {"run", "idle"} /\ job'[j].bad = {}
           /\ UNCHANGED <<files, blob, alone, damage, faults>>
           /\ export' \subseteq export /\ publish' \subseteq publish
           /\ j \notin export' => j \notin export \/ j \notin publish'
<1>1. UNCHANGED <<options, files, blob, tried, alone, damage, faults>> /\ job[j].bad = {}
  BY DEF CheckTargets, counts
<1>2. CASE End(j, verdict[j]) /\ UNCHANGED <<export, publish, marker>>
  <2>1. Ended(j)
    BY <1>2, Ends DEF Shaped
  <2> QED
    BY <1>1, <1>2, <2>1, IdleRecord DEF Ended, Kept, Others, Shaped, options
<1>3. CASE Settle(j, BadStages(j) \union {s \in {"publish"} : Targeted(j) /\ ~AllMine(j)})
  <2> DEFINE stages == BadStages(j) \union {s \in {"publish"} : Targeted(j) /\ ~AllMine(j)}
  <2>1. stages \in SUBSET {"export", "publish"}
    BY DEF BadStages
  <2>2. Settle(j, stages)
    BY <1>3
  <2> HIDE DEF stages
  <2>3. /\ job' \in [Jobs -> Records] /\ verdict' \in [Jobs -> Verdicts]
        /\ marker' \subseteq Jobs
        /\ \A k \in Jobs \ {j} : job'[k] = job[k]
        /\ job'[j].at = "run" /\ job'[j].bad = job[j].bad
        /\ export' \subseteq export /\ export \ {j} \subseteq export'
        /\ publish' \subseteq publish /\ publish \ {j} \subseteq publish'
        /\ j \notin export' => j \notin export \/ j \notin publish'
    BY <2>1, <2>2, Settles
  <2> QED
    BY <1>1, <2>3 DEF Kept, Others, Shaped, options
<1> QED
  BY <1>2, <1>3 DEF CheckTargets

\* What a step of a job does to the shared store, but for a removal: no blob is
\* lost, nothing more is to be removed, and only what is stored is committed.
Sound(j) ==
    /\ \A r \in Refs : blob'[r] \in {blob[r], "good"}
    /\ job'[j].bad \subseteq job[j].bad
    /\ damage' = damage
    /\ j \in export' => j \in export \/ blob'[ExportRef(j)] = "good"
    /\ j \in publish' => j \in publish \/ blob'[ReceiptRef(j)] = "good"

\* What a step of a job keeps of its own part of the invariant.
Good(j) == Kept(j) /\ Staged(j)' /\ Held(j)'

\* A command that ends leaves nothing to say but of a published job.
LEMMA EndsGood ==
    ASSUME Shaped, NEW j \in Jobs, Staged(j), Held(j), Ended(j),
           UNCHANGED <<options, files, export, publish, alone>>,
           blob' \in [Refs -> {"none", "good", "bad"}], tried' \subseteq Jobs,
           damage' \in BOOLEAN, faults' \in 0 .. MaxFaults
    PROVE  Good(j) /\ job'[j].bad = {}
<1>1. job'[j].at = "idle" /\ job'[j].bad = {}
  BY IdleRecord DEF Ended
<1>2. Kept(j)
  BY DEF Ended, Kept, Others, Shaped, options
<1>3. Staged(j)'
  BY <1>1 DEF Staged, InPublish, Publishing
<1>4. Held(j)'
  BY <1>1 DEF Held, AllMine, Mine, options
<1> QED
  BY <1>1, <1>2, <1>3, <1>4 DEF Good

\* A command that goes on outside Publish, with the files as they are.
LEMMA GoesOnGood ==
    ASSUME Shaped, NEW j \in Jobs, Staged(j), Held(j),
           NEW place \in Steps \ InPublish, Goto(j, place),
           UNCHANGED <<options, files, publish, alone>>,
           export' \in {export, export \union {j}},
           verdict' \in [Jobs -> Verdicts], marker' \subseteq Jobs,
           blob' \in [Refs -> {"none", "good", "bad"}], tried' \subseteq Jobs,
           damage' \in BOOLEAN, faults' \in 0 .. MaxFaults
    PROVE  Good(j) /\ job'[j].bad = job[j].bad
<1>1. /\ job' \in [Jobs -> Records] /\ \A k \in Jobs \ {j} : job'[k] = job[k]
      /\ job'[j].at = place /\ job'[j].bad = job[j].bad
  BY GotoMoves
<1>2. Kept(j)
  BY <1>1 DEF Kept, Others, Shaped, options
<1>3. Staged(j)'
  BY <1>1 DEF Staged, InPublish
<1>4. Held(j)'
  BY <1>1 DEF Held, AllMine, Mine, options, InPublish, Publishing
<1> QED
  BY <1>1, <1>2, <1>3, <1>4 DEF Good

\* retry.
LEMMA RetryGood ==
    ASSUME Shaped, NEW j \in Jobs, Staged(j), Held(j), Retry(j)
    PROVE  Good(j) /\ Sound(j)
<1>1. Goto(j, "run") /\ "run" \in Steps \ InPublish
  BY DEF Retry, Steps, InPublish, Publishing
<1>2. verdict' \in [Jobs -> Verdicts]
  BY DEF Retry, Shaped, Verdicts
<1>3. UNCHANGED <<options, files, blob, export, publish, tried, marker, alone, damage, faults>>
  BY DEF Retry, counts
<1>4. Good(j) /\ job'[j].bad = job[j].bad
  BY <1>1, <1>2, <1>3, GoesOnGood DEF Shaped
<1> QED
  BY <1>3, <1>4 DEF Sound

\* The loop over the stages: _run_job.
LEMMA RunGood ==
    ASSUME Shaped, NEW j \in Jobs, Staged(j), Held(j), Run(j)
    PROVE  Good(j) /\ Sound(j)
<1>1. UNCHANGED <<options, files, blob, export, publish, alone, damage, faults>>
  BY DEF Run, counts
<1>2. CASE Ended(j) /\ tried' = tried
  <2>1. Good(j) /\ job'[j].bad = {}
    BY <1>1, <1>2, EndsGood DEF Shaped
  <2> QED
    BY <1>1, <2>1 DEF Sound
<1>3. CASE j \notin export /\ Start(j, "export") /\ UNCHANGED <<tried, marker>>
  <2>1. /\ job' \in [Jobs -> Records] /\ verdict' \in [Jobs -> Verdicts]
        /\ \A k \in Jobs \ {j} : job'[k] = job[k]
        /\ job'[j].at = "export" /\ job'[j].bad = {}
    BY <1>3, StartMoves DEF Steps, Attempts, Attempting
  <2>2. Kept(j)
    BY <1>1, <1>3, <2>1 DEF Kept, Others, Shaped, options
  <2>3. Staged(j)' /\ Held(j)'
    BY <1>1, <2>1 DEF Staged, Held, AllMine, Mine, options, InPublish, Publishing
  <2> QED
    BY <1>1, <2>1, <2>2, <2>3 DEF Good, Sound
<1>4. CASE Passed(j) /\ j \notin publish /\ Start(j, "match") /\ tried' = tried \union {j} /\ UNCHANGED marker
  <2>1. /\ job' \in [Jobs -> Records] /\ verdict' \in [Jobs -> Verdicts]
        /\ \A k \in Jobs \ {j} : job'[k] = job[k]
        /\ job'[j].at = "match" /\ job'[j].bad = {} /\ job'[j].done = 0
    BY <1>4, StartMoves DEF Steps, Attempts, Attempting
  <2>2. Kept(j)
    BY <1>1, <1>4, <2>1 DEF Kept, Others, Shaped, options
  <2>3. Staged(j)' /\ Held(j)'
    BY <1>1, <1>4, <2>1 DEF Staged, Held, AllMine, Mine, options, InPublish, Publishing, Passed
  <2> QED
    BY <1>1, <2>1, <2>2, <2>3 DEF Good, Sound
<1>5. verdict[j] \in Verdicts /\ "succeeded" \in Verdicts
  BY DEF Shaped, Verdicts
<1>6. /\ Fail(j) => Ended(j)
      /\ Cancelled(j) => Ended(j)
      /\ End(j, verdict[j]) /\ marker' = marker => Ended(j)
      /\ End(j, "succeeded") /\ marker' = marker => Ended(j)
  BY <1>5, Ends
<1> QED
  BY <1>2, <1>3, <1>4, <1>6 DEF Run

-----------------------------------------------------------------------------
(* The store                                                                *)

\* A put, a refusal and the look after a commit change one blob at most, and
\* leave the command where they go to or ended: put_file and verify.
Stores(j, ref, from, to) ==
    \/ PutExisting(j, ref, from, to)
    \/ PutMissing(j, ref, from, to)
    \/ PutReplace(j, ref, from, to)
    \/ RefuseStage(j, ref, from)
    \/ AfterCommit(j, ref, from, to)

\* A step that puts a blob goes on or ends its attempt, and damages no blob.
LEMMA StoreMoves ==
    ASSUME Shaped, NEW j \in Jobs, NEW ref \in Refs, NEW from, NEW to, Stores(j, ref, from, to)
    PROVE  /\ At(j, from)
           /\ \/ Goto(j, to) /\ verdict' = verdict /\ marker' = marker
              \/ Ended(j)
           /\ \A r \in Refs : blob'[r] \in {blob[r], "good"}
           /\ blob' \in [Refs -> {"none", "good", "bad"}]
           /\ damage' = damage /\ damage' \in BOOLEAN /\ faults' \in 0 .. MaxFaults
<1>1. verdict[j] \in Verdicts
  BY DEF Shaped
<1>2. /\ Fail(j) => Ended(j)
      /\ End(j, verdict[j]) /\ marker' = marker => Ended(j)
  BY <1>1, Ends
<1>3. CASE PutExisting(j, ref, from, to)
  BY <1>2, <1>3 DEF PutExisting, Shaped, counts
<1>4. CASE PutMissing(j, ref, from, to)
  BY <1>2, <1>4 DEF PutMissing, Shaped, counts
<1>5. CASE PutReplace(j, ref, from, to)
  BY <1>2, <1>5, Counted DEF PutReplace, Shaped
<1>6. CASE RefuseStage(j, ref, from)
  BY <1>2, <1>6 DEF RefuseStage, Shaped, counts
<1>7. CASE AfterCommit(j, ref, from, to)
  BY <1>2, <1>7 DEF AfterCommit, Shaped, counts
<1> QED
  BY <1>3, <1>4, <1>5, <1>6, <1>7 DEF Stores

\* Export, up to the verified commit of its artifacts.
LEMMA ExportGood ==
    ASSUME Shaped, NEW j \in Jobs, Staged(j), Held(j), ExportStage(j)
    PROVE  Good(j) /\ Sound(j)
<1> DEFINE ref == ExportRef(j)
<1>1. UNCHANGED <<options, files, publish, tried, alone>> /\ ref \in Refs
  BY RefsOfJobs DEF ExportStage
<1>2. CASE At(j, "export") /\ Cancelled(j) /\ UNCHANGED <<blob, export, counts>>
  <2>1. Ended(j)
    BY <1>2, Ends
  <2>2. Good(j) /\ job'[j].bad = {}
    BY <1>1, <1>2, <2>1, EndsGood DEF Shaped, counts
  <2> QED
    BY <1>1, <1>2, <2>2 DEF Sound, counts
<1>3. ASSUME NEW from, NEW to \in Steps \ InPublish, Stores(j, ref, from, to), export' = export
      PROVE  Good(j) /\ Sound(j)
  <2>1. /\ \/ Goto(j, to) /\ verdict' = verdict /\ marker' = marker
           \/ Ended(j)
        /\ \A r \in Refs : blob'[r] \in {blob[r], "good"}
        /\ blob' \in [Refs -> {"none", "good", "bad"}]
        /\ damage' = damage /\ damage' \in BOOLEAN /\ faults' \in 0 .. MaxFaults
    BY <1>1, <1>3, StoreMoves
  <2>2. CASE Ended(j)
    <3>1. Good(j) /\ job'[j].bad = {}
      BY <1>1, <1>3, <2>1, <2>2, EndsGood DEF Shaped
    <3> QED
      BY <1>1, <1>3, <2>1, <3>1 DEF Sound
  <2>3. CASE Goto(j, to) /\ verdict' = verdict /\ marker' = marker
    <3>1. Good(j) /\ job'[j].bad = job[j].bad
      BY <1>1, <1>3, <2>1, <2>3, GoesOnGood DEF Shaped
    <3> QED
      BY <1>1, <1>3, <2>1, <3>1 DEF Sound
  <2> QED
    BY <2>1, <2>2, <2>3
<1>4. CASE CommitStage(j, ref, "exported", "checked") /\ export' = export \union {j}
  <2>1. /\ Goto(j, "checked") /\ blob[ref] = "good"
        /\ UNCHANGED <<blob, verdict, marker, damage, faults>>
    BY <1>4 DEF CommitStage, counts
  <2>2. "checked" \in Steps \ InPublish
    BY DEF Steps, Attempts, InPublish, Publishing
  <2>3. Good(j) /\ job'[j].bad = job[j].bad
    BY <1>1, <1>4, <2>1, <2>2, GoesOnGood DEF Shaped
  <2> QED
    BY <1>1, <1>4, <2>1, <2>3 DEF Sound
<1>5. {"export", "exporting", "exported", "checked", "next"} \subseteq Steps \ InPublish
  BY DEF Steps, Attempts, Attempting, InPublish, Publishing
<1>6. \/ At(j, "export") /\ Cancelled(j) /\ UNCHANGED <<blob, export, counts>>
      \/ Stores(j, ref, "export", "exported") /\ export' = export
      \/ Stores(j, ref, "export", "exporting") /\ export' = export
      \/ Stores(j, ref, "exporting", "exported") /\ export' = export
      \/ CommitStage(j, ref, "exported", "checked") /\ export' = export \union {j}
      \/ Stores(j, ref, "exported", "checked") /\ export' = export
      \/ Stores(j, ref, "checked", "next") /\ export' = export
  BY DEF ExportStage, Stores
<1> QED
  BY <1>2, <1>3, <1>4, <1>5, <1>6


-----------------------------------------------------------------------------
(* The output set                                                           *)

\* Files that are all there go straight to verification.
LEMMA MatchGood ==
    ASSUME Shaped, NEW j \in Jobs, Staged(j), Held(j), Match(j)
    PROVE  Good(j) /\ Sound(j)
<1>1. UNCHANGED <<options, files, blob, journal, marker, alone, damage, faults>> /\ job[j].at = "match"
  BY DEF Match, At, counts
<1>2. PICK place \in {"verify", "read"} : Goto(j, place) /\ (place = "verify" <=> AllMine(j))
  BY DEF Match
<1>3. /\ job' \in [Jobs -> Records] /\ \A k \in Jobs \ {j} : job'[k] = job[k]
      /\ job'[j].at = place /\ job'[j].bad = job[j].bad /\ job'[j].done = job[j].done
  BY <1>2, GotoMoves DEF Steps, Attempts, Attempting
<1>4. Kept(j)
  BY <1>1, <1>3 DEF Kept, Others, Shaped, options, journal
<1>5. Staged(j)'
  BY <1>1, <1>3 DEF Staged, InPublish, Publishing, journal
<1>6. Held(j)'
  BY <1>1, <1>2, <1>3 DEF Held, AllMine, Mine, options, journal
<1> QED
  BY <1>1, <1>3, <1>4, <1>5, <1>6 DEF Good, Sound, journal

\* The old bytes are remembered as they are; from here on the job knows them.
LEMMA ReadGood ==
    ASSUME Shaped, NEW j \in Jobs, Staged(j), Held(j), Read(j)
    PROVE  Good(j) /\ Sound(j)
<1>1. UNCHANGED <<options, files, blob, export, publish, tried>> /\ job[j].at = "read"
  BY DEF Read, At
<1>2. CASE Ended(j) /\ alone' = alone /\ damage' = damage /\ faults' \in 0 .. MaxFaults
  <2>1. Good(j) /\ job'[j].bad = {}
    BY <1>1, <1>2, EndsGood DEF Shaped
  <2> QED
    BY <1>1, <1>2, <2>1 DEF Sound
<1>3. CASE /\ Remember(j, [job[j] EXCEPT !.at = "commit", !.prev = [i \in Index |-> files[<<dir[j], i>>]]])
           /\ alone' = alone \union {j}
           /\ UNCHANGED <<verdict, marker, counts>>
  <2> DEFINE found == [i \in Index |-> files[<<dir[j], i>>]]
             m == [job[j] EXCEPT !.at = "commit", !.prev = found]
  <2>1. found \in [Index -> Values]
    BY PlacesOfJobs
  <2>2. \A i \in Index : found[i] = files[<<dir[j], i>>]
    OBVIOUS
  <2>3. Remember(j, m)
    BY <1>3
  <2>4. job[j] \in Records /\ job[j].done = 0
    BY <1>1 DEF Shaped, Staged
  <2> HIDE DEF found
  <2>5. m \in Records /\ m.at = "commit" /\ m.bad = job[j].bad /\ m.done = 0 /\ m.prev = found
    BY <2>1, <2>4 DEF Records, Steps, Attempts, Attempting
  <2> HIDE DEF m
  <2>6. job' \in [Jobs -> Records] /\ job'[j] = m /\ \A k \in Jobs \ {j} : job'[k] = job[k]
    BY <2>3, <2>5, RememberMoves
  <2>7. Kept(j)
    BY <1>1, <1>3, <2>6 DEF Kept, Others, Shaped, options, counts
  <2>8. Staged(j)'
    BY <1>1, <2>5, <2>6 DEF Staged, InPublish, Publishing
  <2>9. Held(j)'
    <3>1. \A i \in Index : ~(i <= 0)
      BY DEF Index
    <3>2. Replaced(j)'
      BY <1>1, <2>2, <2>5, <2>6, <3>1 DEF Replaced, options
    <3>3. j \notin publish'
      BY <1>1 DEF Staged, InPublish
    <3> QED
      BY <2>5, <2>6, <3>2, <3>3 DEF Held
  <2> QED
    BY <1>1, <1>3, <2>5, <2>6, <2>7, <2>8, <2>9 DEF Good, Sound, counts
<1>4. Fail(j) \/ Cancelled(j) => Ended(j)
  BY Ends
<1> QED
  BY <1>2, <1>3, <1>4, Counted DEF Read, Shaped, counts

\* The undoing begins with the files as they are.
LEMMA UndoMoves ==
    ASSUME Shaped, NEW j \in Jobs, Staged(j), Held(j), job[j].at = "commit",
           NEW why \in {"failed", "cancelled"}, Undo(j, why),
           UNCHANGED <<options, files, blob, export, publish, tried, verdict, marker, alone>>,
           damage' = damage, faults' \in 0 .. MaxFaults
    PROVE  Good(j) /\ Sound(j)
<1> DEFINE m == [job[j] EXCEPT !.at = "rollback", !.why = why]
<1>1. m \in Records /\ m.at = "rollback" /\ m.bad = job[j].bad /\ m.done = job[j].done /\ m.prev = job[j].prev
  BY DEF Shaped, Records, Steps, Attempts, Attempting
<1>2. Remember(j, m)
  BY DEF Undo
<1> HIDE DEF m
<1>3. job' \in [Jobs -> Records] /\ job'[j] = m /\ \A k \in Jobs \ {j} : job'[k] = job[k]
  BY <1>1, <1>2, RememberMoves
<1>4. Kept(j)
  BY <1>3 DEF Kept, Others, Shaped, options
<1>5. Staged(j)'
  BY <1>1, <1>3 DEF Staged, InPublish, Publishing
<1>6. Held(j)'
  BY <1>1, <1>3 DEF Held, AllMine, Mine, Replaced, options
<1> QED
  BY <1>1, <1>3, <1>4, <1>5, <1>6 DEF Good, Sound

\* One file is written, forwards or back: what is replaced is counted.
LEMMA WriteMoves ==
    ASSUME Shaped, NEW j \in Jobs, Staged(j), Held(j), job[j].at \in {"commit", "rollback"},
           NEW i \in Index, NEW value \in Values, Write(j, i, value), NEW n \in 0 .. NumFiles,
           Remember(j, [job[j] EXCEPT !.done = n]),
           \/ i = job[j].done + 1 /\ n = i /\ value = content[j]
           \/ i = job[j].done /\ n = i - 1 /\ value = job[j].prev[i],
           UNCHANGED <<options, blob, export, publish, tried, verdict, marker, counts>>
    PROVE  Good(j) /\ Sound(j)
<1> DEFINE m == [job[j] EXCEPT !.done = n]
<1>1. job[j] \in Records
  BY DEF Shaped
<1>2. m \in Records /\ m.at = job[j].at /\ m.bad = job[j].bad /\ m.done = n /\ m.prev = job[j].prev
  BY <1>1 DEF Records
<1>3. Remember(j, m)
  OBVIOUS
<1> HIDE DEF m
<1>4. job' \in [Jobs -> Records] /\ job'[j] = m /\ \A k \in Jobs \ {j} : job'[k] = job[k]
  BY <1>2, <1>3, RememberMoves
<1>5. /\ files' \in [Places -> Values] /\ alone' \subseteq alone
      /\ files'[<<dir[j], i>>] = value
      /\ \A h \in Index \ {i} : files'[<<dir[j], h>>] = files[<<dir[j], h>>]
      /\ \A k \in Jobs \ {j} : k \in alone' =>
           \A h \in Index : files'[<<dir[k], h>>] = files[<<dir[k], h>>]
  BY Writes
<1>6. Kept(j)
  BY <1>4, <1>5 DEF Kept, Others, Shaped, options, counts
<1>7. Staged(j)'
  BY <1>2, <1>4 DEF Staged, InPublish, Publishing
<1>8. ASSUME Replaced(j) PROVE Replaced(j)'
  <2> SUFFICES ASSUME NEW h \in Index
               PROVE  files'[<<dir[j], h>>] = IF h <= n THEN content[j] ELSE job[j].prev[h]
    BY <1>2, <1>4 DEF Replaced, options
  <2>1. job[j].done \in Nat /\ h \in Nat /\ i \in Nat /\ n \in Nat
    BY <1>1, PublicationAssumption DEF Records, Index
  <2>2. files[<<dir[j], h>>] = IF h <= job[j].done THEN content[j] ELSE job[j].prev[h]
    BY <1>8 DEF Replaced
  <2>3. CASE h = i
    BY <1>5, <2>1, <2>3
  <2>4. CASE h # i
    <3>1. h <= n <=> h <= job[j].done
      BY <2>1, <2>4
    <3> QED
      BY <1>5, <2>2, <2>4, <3>1
  <2> QED
    BY <2>3, <2>4
<1>9. Held(j)'
  BY <1>2, <1>4, <1>5, <1>8 DEF Held, Staged, InPublish, Publishing
<1> QED
  BY <1>2, <1>4, <1>6, <1>7, <1>9 DEF Good, Sound, counts

\* One file after the other is replaced: commit_output_set.
LEMMA CommitGood ==
    ASSUME Shaped, NEW j \in Jobs, Staged(j), Held(j), Commit(j)
    PROVE  Good(j) /\ Sound(j)
<1> DEFINE i == job[j].done + 1
<1>1. UNCHANGED <<options, blob, export, publish, tried, verdict, marker>> /\ job[j].at = "commit"
  BY DEF Commit, At, journal
<1>2. job[j] \in Records /\ job[j].done \in 0 .. NumFiles /\ NumFiles \in Nat
  BY PublicationAssumption DEF Shaped, Records
<1>3. CASE i > NumFiles /\ Goto(j, "verify") /\ UNCHANGED <<files, alone, counts>>
  <2>1. /\ job' \in [Jobs -> Records] /\ \A k \in Jobs \ {j} : job'[k] = job[k]
        /\ job'[j].at = "verify" /\ job'[j].bad = job[j].bad
    BY <1>3, GotoMoves DEF Steps, Attempts, Attempting
  <2>2. Kept(j)
    BY <1>1, <1>3, <2>1 DEF Kept, Others, Shaped, options, counts
  <2>3. Staged(j)'
    BY <1>1, <2>1 DEF Staged, InPublish, Publishing
  <2>4. \A h \in Index : h <= job[j].done
    BY <1>2, <1>3 DEF Index
  <2>5. Replaced(j) => AllMine(j)
    BY <2>4 DEF Replaced, AllMine, Mine
  <2>6. Held(j)'
    BY <1>1, <1>3, <2>1, <2>5 DEF Held, AllMine, Mine, options, Staged, InPublish, Publishing
  <2> QED
    BY <1>1, <1>3, <2>1, <2>2, <2>3, <2>6 DEF Good, Sound, counts
<1>4. CASE /\ i <= NumFiles /\ Write(j, i, content[j])
           /\ Remember(j, [job[j] EXCEPT !.done = i])
           /\ UNCHANGED counts
  <2>1. i \in Index /\ i \in 0 .. NumFiles
    BY <1>2, <1>4 DEF Index
  <2>2. content[j] \in Values
    BY DEF Shaped, Values
  <2> QED
    BY <1>1, <1>4, <2>1, <2>2, WriteMoves
<1>5. CASE /\ Undo(j, "failed") /\ UNCHANGED <<files, alone>>
           /\ damage' = damage /\ faults' \in 0 .. MaxFaults
  BY <1>1, <1>5, UndoMoves
<1> QED
  BY <1>3, <1>4, <1>5, Counted DEF Commit, Shaped, counts

\* A cancellation between two files turns to the rollback.
LEMMA InterruptGood ==
    ASSUME Shaped, NEW j \in Jobs, Staged(j), Held(j), Interrupt(j)
    PROVE  Good(j) /\ Sound(j)
BY UndoMoves DEF Interrupt, At, journal, counts, Shaped

\* The rollback takes back what was replaced last: _rollback.
LEMMA RollbackGood ==
    ASSUME Shaped, NEW j \in Jobs, Staged(j), Held(j), Rollback(j)
    PROVE  Good(j) /\ Sound(j)
<1> DEFINE i == job[j].done
<1>1. UNCHANGED <<options, blob, export, publish, tried>> /\ job[j].at = "rollback"
  BY DEF Rollback, At
<1>2. CASE /\ i > 0 /\ Write(j, i, job[j].prev[i])
           /\ Remember(j, [job[j] EXCEPT !.done = @ - 1])
           /\ UNCHANGED <<verdict, marker, counts>>
  <2>1. job[j] \in Records
    BY DEF Shaped
  <2>2. i \in Index /\ i - 1 \in 0 .. NumFiles
    BY <1>2, <2>1, PublicationAssumption DEF Records, Index
  <2>3. job[j].prev[i] \in Values
    BY <2>1, <2>2 DEF Records
  <2>4. Remember(j, [job[j] EXCEPT !.done = i - 1])
    BY <1>2
  <2> QED
    BY <1>1, <1>2, <2>2, <2>3, <2>4, WriteMoves
<1>3. CASE /\ Ended(j) /\ UNCHANGED <<files, alone>>
           /\ damage' = damage /\ faults' \in 0 .. MaxFaults
  <2>1. Good(j) /\ job'[j].bad = {}
    BY <1>1, <1>3, EndsGood DEF Shaped
  <2> QED
    BY <1>1, <1>3, <2>1 DEF Sound
<1>4. Fail(j) \/ Cancelled(j) => Ended(j)
  BY Ends
<1> QED
  BY <1>2, <1>3, <1>4, Counted DEF Rollback, Shaped, counts

\* The files are verified after the transaction.
LEMMA VerifyGood ==
    ASSUME Shaped, NEW j \in Jobs, Staged(j), Held(j), Verify(j)
    PROVE  Good(j) /\ Sound(j)
<1>1. UNCHANGED <<options, files, blob, export, publish, tried, damage, faults>> /\ job[j].at = "verify"
  BY DEF Verify, At, counts
<1>2. CASE AllMine(j) /\ Goto(j, "receipt") /\ alone' = alone \union {j} /\ UNCHANGED <<verdict, marker>>
  <2>1. /\ job' \in [Jobs -> Records] /\ \A k \in Jobs \ {j} : job'[k] = job[k]
        /\ job'[j].at = "receipt" /\ job'[j].bad = job[j].bad
    BY <1>2, GotoMoves DEF Steps, Attempts, Attempting
  <2>2. Kept(j)
    BY <1>1, <1>2, <2>1 DEF Kept, Others, Shaped, options
  <2>3. Staged(j)'
    BY <1>1, <2>1 DEF Staged, InPublish, Publishing
  <2>4. Held(j)'
    BY <1>1, <1>2, <2>1 DEF Held, AllMine, Mine, options
  <2> QED
    BY <1>1, <2>1, <2>2, <2>3, <2>4 DEF Good, Sound
<1>3. CASE Fail(j) /\ alone' = alone
  <2>1. Ended(j)
    BY <1>3, Ends
  <2>2. Good(j) /\ job'[j].bad = {}
    BY <1>1, <1>3, <2>1, EndsGood DEF Shaped
  <2> QED
    BY <1>1, <2>2 DEF Sound
<1> QED
  BY <1>2, <1>3 DEF Verify

\* The receipt is stored, and Publish committed, with the files as they were
\* verified.
LEMMA ReceiptGood ==
    ASSUME Shaped, NEW j \in Jobs, Staged(j), Held(j), Receipt(j)
    PROVE  Good(j) /\ Sound(j)
<1> DEFINE ref == ReceiptRef(j)
           After == {"receipt", "receipting", "published"}
<1>1. UNCHANGED <<options, files, export, tried, alone>> /\ ref \in Refs
  BY RefsOfJobs DEF Receipt
<1>2. ASSUME Ended(j), UNCHANGED <<blob, publish, damage, faults>> PROVE Good(j) /\ Sound(j)
  <2>1. Good(j) /\ job'[j].bad = {}
    BY <1>1, <1>2, EndsGood DEF Shaped
  <2> QED
    BY <1>1, <1>2, <2>1 DEF Sound
<1>3. ASSUME NEW from \in After, NEW to \in After, Stores(j, ref, from, to), publish' = publish
      PROVE  Good(j) /\ Sound(j)
  <2>1. /\ job[j].at = from
        /\ \/ Goto(j, to) /\ verdict' = verdict /\ marker' = marker
           \/ Ended(j)
        /\ \A r \in Refs : blob'[r] \in {blob[r], "good"}
        /\ blob' \in [Refs -> {"none", "good", "bad"}]
        /\ damage' = damage /\ damage' \in BOOLEAN /\ faults' \in 0 .. MaxFaults
    BY <1>1, <1>3, StoreMoves DEF At
  <2>2. CASE Ended(j)
    <3>1. Good(j) /\ job'[j].bad = {}
      BY <1>1, <1>3, <2>1, <2>2, EndsGood DEF Shaped
    <3> QED
      BY <1>1, <1>3, <2>1, <3>1 DEF Sound
  <2>3. CASE Goto(j, to) /\ verdict' = verdict /\ marker' = marker
    <3>1. /\ job' \in [Jobs -> Records] /\ \A k \in Jobs \ {j} : job'[k] = job[k]
          /\ job'[j].at = to /\ job'[j].bad = job[j].bad
      BY <2>3, GotoMoves DEF Steps, Attempts, Attempting
    <3>2. Kept(j)
      BY <1>1, <1>3, <2>1, <2>3, <3>1 DEF Kept, Others, Shaped, options
    <3>3. Staged(j)'
      BY <1>1, <1>3, <2>1, <3>1 DEF Staged, InPublish, Publishing
    <3>4. Held(j)'
      BY <1>1, <1>3, <2>1, <3>1 DEF Held, AllMine, Mine, options
    <3> QED
      BY <1>1, <1>3, <2>1, <3>1, <3>2, <3>3, <3>4 DEF Good, Sound
  <2> QED
    BY <2>1, <2>2, <2>3
<1>4. CASE RefuseStage(j, ref, "published") /\ publish' = publish
  BY <1>2, <1>4, Ends DEF RefuseStage, counts
<1>5. CASE CommitStage(j, ref, "published", "received") /\ publish' = publish \union {j}
  <2>1. /\ Goto(j, "received") /\ blob[ref] = "good" /\ job[j].at = "published"
        /\ UNCHANGED <<blob, verdict, marker, damage, faults>>
    BY <1>5 DEF CommitStage, At, counts
  <2>2. /\ job' \in [Jobs -> Records] /\ \A k \in Jobs \ {j} : job'[k] = job[k]
        /\ job'[j].at = "received" /\ job'[j].bad = job[j].bad
    BY <2>1, GotoMoves DEF Steps, Attempts
  <2>3. Kept(j)
    BY <1>1, <1>5, <2>1, <2>2 DEF Kept, Others, Shaped, options
  <2>4. Staged(j)'
    BY <1>1, <2>1, <2>2 DEF Staged, InPublish, Publishing
  <2>5. Held(j)'
    BY <1>1, <2>1, <2>2 DEF Held, AllMine, Mine, options
  <2> QED
    BY <1>1, <1>5, <2>1, <2>2, <2>3, <2>4, <2>5 DEF Good, Sound
<1>6. CASE AfterCommit(j, ref, "received", "succeed") /\ publish' = publish
  <2>1. UNCHANGED <<blob, marker, damage, faults>>
    BY <1>6 DEF AfterCommit, counts
  <2>2. CASE End(j, verdict[j])
    <3>1. Ended(j)
      BY <2>1, <2>2, Ends DEF Shaped
    <3> QED
      BY <1>2, <1>6, <2>1, <3>1
  <2>3. CASE Goto(j, "succeed") /\ UNCHANGED verdict
    <3>1. "succeed" \in Steps \ InPublish
      BY DEF Steps, Attempts, InPublish, Publishing
    <3>2. Good(j) /\ job'[j].bad = job[j].bad
      BY <1>1, <1>6, <2>1, <2>3, <3>1, GoesOnGood DEF Shaped
    <3> QED
      BY <1>1, <1>6, <2>1, <3>2 DEF Sound
  <2> QED
    BY <1>6, <2>2, <2>3 DEF AfterCommit
<1>7. "succeeded" \in Verdicts
  BY DEF Verdicts
<1>8. \/ Ended(j) /\ UNCHANGED <<blob, publish, damage, faults>>
      \/ Stores(j, ref, "receipt", "published") /\ publish' = publish
      \/ Stores(j, ref, "receipt", "receipting") /\ publish' = publish
      \/ Stores(j, ref, "receipting", "published") /\ publish' = publish
      \/ CommitStage(j, ref, "published", "received") /\ publish' = publish \union {j}
      \/ RefuseStage(j, ref, "published") /\ publish' = publish
      \/ AfterCommit(j, ref, "received", "succeed") /\ publish' = publish
  BY <1>7, Ends DEF Receipt, Stores, counts
<1> QED
  BY <1>2, <1>3, <1>4, <1>5, <1>6, <1>8


\* A cancel marker changes nothing of the command.
LEMMA CancelGood ==
    ASSUME Shaped, NEW j \in Jobs, Staged(j), Held(j), Cancel(j)
    PROVE  Good(j) /\ Sound(j)
<1>1. /\ UNCHANGED <<options, files, blob, export, publish, tried, verdict, job, alone, damage>>
      /\ faults' \in 0 .. MaxFaults /\ marker' \subseteq Jobs
  BY Counted DEF Cancel, Shaped, journal
<1>2. Kept(j)
  BY <1>1 DEF Kept, Others, Shaped, options
<1>3. Staged(j)' /\ Held(j)'
  BY <1>1 DEF Staged, Held, AllMine, Mine, Replaced, options
<1> QED
  BY <1>1, <1>2, <1>3 DEF Good, Sound

\* A crash ends the command, with the files as they are.
LEMMA CrashGood ==
    ASSUME Shaped, NEW j \in Jobs, Staged(j), Held(j), Crash(j)
    PROVE  Good(j) /\ Sound(j)
<1> DEFINE result == IF job[j].at \in Attempting THEN "interrupted" ELSE verdict[j]
<1>1. /\ UNCHANGED <<options, files, blob, export, publish, tried, marker, alone, damage>>
      /\ faults' \in 0 .. MaxFaults /\ End(j, result)
  BY Counted DEF Crash
<1>2. result \in Verdicts
  BY DEF Shaped, Verdicts
<1>3. Ended(j)
  BY <1>1, <1>2, Ends
<1>4. Good(j) /\ job'[j].bad = {}
  BY <1>1, <1>3, EndsGood DEF Shaped
<1> QED
  BY <1>1, <1>4 DEF Sound

\* Resume and the look at the targets keep a job's own part as well.
LEMMA ResumeGood ==
    ASSUME Shaped, NEW j \in Jobs, Staged(j), Held(j), Resume(j) \/ RemoveCorrupt(j) \/ CheckTargets(j)
    PROVE  Good(j)
<1>1. CASE Resume(j) \/ RemoveCorrupt(j)
  <2>1. Kept(j) /\ job'[j].at = "resume"
    BY <1>1, ResumeKept, RemoveKept
  <2>2. UNCHANGED <<options, files, export, publish, alone>>
    BY <1>1 DEF Resume, RemoveCorrupt, journal
  <2>3. Staged(j)' /\ Held(j)'
    BY <2>1, <2>2 DEF Staged, Held, AllMine, Mine, options, InPublish, Publishing
  <2> QED
    BY <2>1, <2>3 DEF Good
<1>2. CASE CheckTargets(j)
  <2>1. /\ Kept(j) /\ job'[j].at \in {"run", "idle"}
        /\ UNCHANGED <<files, alone>>
        /\ publish' \subseteq publish
        /\ j \notin export' => j \notin export \/ j \notin publish'
    BY <1>2, CheckKept
  <2>2. Staged(j)' /\ Held(j)'
    BY <2>1 DEF Staged, Held, AllMine, Mine, options, InPublish, Publishing, Kept, Others
  <2> QED
    BY <2>1, <2>2 DEF Good
<1> QED
  BY <1>1, <1>2

-----------------------------------------------------------------------------
(* The invariant                                                            *)

\* Every step of a job keeps the job's own part; most are sound for the store.
LEMMA StepGood ==
    ASSUME Shaped, NEW j \in Jobs, Staged(j), Held(j),
           Resume(j) \/ Retry(j) \/ Work(j) \/ Cancel(j) \/ Crash(j)
    PROVE  Good(j) /\ (Resume(j) \/ RemoveCorrupt(j) \/ Sound(j))
<1>1. ASSUME CheckTargets(j) PROVE Sound(j)
  BY <1>1, CheckKept DEF Sound
<1> QED
  BY <1>1, ResumeGood, RetryGood, RunGood, ExportGood, MatchGood, ReadGood, CommitGood, InterruptGood,
     RollbackGood, VerifyGood, ReceiptGood, CancelGood, CrashGood DEF Work

\* What others keep of a job, and the rest of its part of the invariant.
LEMMA OthersGood ==
    ASSUME Shaped, NEW j \in Jobs, Others(j), NEW k \in Jobs \ {j}, Staged(k), Held(k)
    PROVE  Staged(k)' /\ Held(k)'
BY DEF Others, Staged, Held, AllMine, Mine, Replaced, options

\* The store without damage: a sound step keeps it, and a resume finds nothing.
LEMMA StoredKept ==
    ASSUME Shaped, NEW j \in Jobs, Kept(j), Stored, Resume(j) \/ RemoveCorrupt(j) \/ Sound(j)
    PROVE  Stored'
<1> SUFFICES ASSUME ~damage'
             PROVE  /\ \A r \in Refs : blob'[r] # "bad"
                    /\ \A k \in Jobs : /\ job'[k].bad = {}
                                       /\ k \in export' => blob'[ExportRef(k)] = "good"
                                       /\ k \in publish' => blob'[ReceiptRef(k)] = "good"
  BY DEF Stored, Kept, Others, options, ExportRef, ReceiptRef
<1>1. CASE Sound(j)
  <2>1. ~damage
    BY <1>1 DEF Sound
  <2>2. \A r \in Refs : blob'[r] # "bad"
    BY <1>1, <2>1 DEF Sound, Stored
  <2>3. ASSUME NEW k \in Jobs
        PROVE  /\ job'[k].bad = {}
               /\ k \in export' => blob'[ExportRef(k)] = "good"
               /\ k \in publish' => blob'[ReceiptRef(k)] = "good"
    BY <1>1, <2>1, RefsOfJobs DEF Sound, Stored, Kept, Others
  <2> QED
    BY <2>2, <2>3
<1>2. CASE RemoveCorrupt(j)
  BY <1>2, RemoveKept DEF Stored, RemoveCorrupt, counts
<1>3. CASE Resume(j)
  <2>1. UNCHANGED <<blob, export, publish, damage>>
    BY <1>3 DEF Resume, journal, counts
  <2>2. job'[j].bad = {}
    BY <1>3, <2>1, ResumeKept DEF Stored, BadCommitted
  <2> QED
    BY <2>1, <2>2 DEF Stored, Kept, Others
<1> QED
  BY <1>1, <1>2, <1>3

\* It holds at first,
LEMMA InvariantStarts == Init => Invariant
<1> SUFFICES ASSUME Init PROVE Invariant
  OBVIOUS
<1>1. Shaped
  <2>1. files \in [Places -> Values]
    BY DEF Init, Values
  <2>2. blob \in [Refs -> {"none", "good", "bad"}] /\ verdict \in [Jobs -> Verdicts]
    BY DEF Init, Verdicts
  <2>3. job \in [Jobs -> Records]
    BY IdleRecord DEF Init
  <2>4. overwrite \in [Jobs -> BOOLEAN] /\ damage \in BOOLEAN
    BY DEF Init
  <2>5. faults \in 0 .. MaxFaults
    BY PublicationAssumption DEF Init
  <2>6. content \in [Jobs -> Contents] /\ dir \in [Jobs -> Dirs]
    BY DEF Init
  <2>7. {export, publish, tried, marker, alone} \subseteq SUBSET Jobs
    BY DEF Init
  <2> QED
    BY <2>1, <2>2, <2>3, <2>4, <2>5, <2>6, <2>7 DEF Shaped
<1>2. \A j \in Jobs : Staged(j) /\ Held(j)
  BY IdleRecord DEF Init, Staged, Held, InPublish, Publishing
<1>3. Stored
  BY IdleRecord DEF Init, Stored
<1> QED
  BY <1>1, <1>2, <1>3 DEF Invariant

\* when the user edits a file: every job of that directory is disturbed,
LEMMA EditKept ==
    ASSUME Invariant, Edit
    PROVE  Invariant'
<1>1. PICK j \in Jobs, i \in Index, value \in {"none", "user"} :
        /\ files' = [files EXCEPT ![<<dir[j], i>>] = value]
        /\ alone' = {k \in alone : dir[k] # dir[j]}
  BY DEF Edit
<1>2. UNCHANGED <<options, blob, export, publish, tried, verdict, job, marker, damage>> /\ faults' \in 0 .. MaxFaults
  BY Counted DEF Edit, Invariant, journal
<1>3. Shaped
  BY DEF Invariant
<1>4. Shaped'
  <2>1. value \in Values
    BY DEF Values
  <2>2. files' \in [Places -> Values]
    BY <1>1, <1>3, <2>1 DEF Shaped
  <2> QED
    BY <1>1, <1>2, <1>3, <2>2 DEF Shaped, options
<1>5. ASSUME NEW k \in Jobs PROVE Staged(k)' /\ Held(k)'
  <2>1. Staged(k)'
    BY <1>2 DEF Invariant, Staged
  <2>2. ASSUME k \in alone' PROVE \A h \in Index : files'[<<dir[k], h>>] = files[<<dir[k], h>>]
    BY <1>1, <1>3, <2>2, PlacesOfJobs DEF Shaped
  <2>3. Held(k)'
    BY <1>1, <1>2, <2>2 DEF Invariant, Held, AllMine, Mine, Replaced, options
  <2> QED
    BY <2>1, <2>3
<1>6. Stored'
  BY <1>2 DEF Invariant, Stored, ExportRef, ReceiptRef, options
<1> QED
  BY <1>4, <1>5, <1>6 DEF Invariant

\* when a blob is damaged,
LEMMA DamageKept ==
    ASSUME Invariant, Damage
    PROVE  Invariant'
<1>1. /\ UNCHANGED <<options, files, export, publish, tried, verdict, job, marker, alone>>
      /\ damage' = TRUE /\ faults < MaxFaults /\ faults' = faults + 1
      /\ \E r \in Refs : blob' = [blob EXCEPT ![r] = "bad"]
  BY DEF Damage, journal
<1>2. Shaped'
  BY <1>1, PublicationAssumption DEF Invariant, Shaped, options
<1>3. \A k \in Jobs : Staged(k)' /\ Held(k)'
  BY <1>1 DEF Invariant, Staged, Held, AllMine, Mine, Replaced, options
<1>4. Stored'
  BY <1>1 DEF Stored
<1> QED
  BY <1>2, <1>3, <1>4 DEF Invariant

\* and when nothing happens;
LEMMA StutterKept ==
    ASSUME Invariant, UNCHANGED vars
    PROVE  Invariant'
<1>1. UNCHANGED <<options, files, blob, export, publish, tried, verdict, job, marker, alone, damage, faults>>
  BY DEF vars, journal, counts
<1>2. Shaped'
  BY <1>1 DEF Invariant, Shaped, options
<1>3. \A k \in Jobs : Staged(k)' /\ Held(k)'
  BY <1>1 DEF Invariant, Staged, Held, AllMine, Mine, Replaced, options
<1>4. Stored'
  BY <1>1 DEF Invariant, Stored, ExportRef, ReceiptRef, options
<1> QED
  BY <1>2, <1>3, <1>4 DEF Invariant

\* so every step keeps it.
LEMMA InvariantKept == Invariant /\ [Next]_vars => Invariant'
<1> SUFFICES ASSUME Invariant, [Next]_vars PROVE Invariant'
  OBVIOUS
<1>1. ASSUME NEW j \in Jobs, Resume(j) \/ Retry(j) \/ Work(j) \/ Cancel(j) \/ Crash(j)
      PROVE  Invariant'
  <2>1. Shaped /\ (\A k \in Jobs : Staged(k) /\ Held(k)) /\ Stored
    BY DEF Invariant
  <2>2. Good(j) /\ (Resume(j) \/ RemoveCorrupt(j) \/ Sound(j))
    BY <1>1, <2>1, StepGood
  <2>3. Shaped' /\ Others(j)
    BY <2>2 DEF Good, Kept
  <2>4. ASSUME NEW k \in Jobs PROVE Staged(k)' /\ Held(k)'
    <3>1. CASE k = j
      BY <2>2, <3>1 DEF Good
    <3>2. CASE k # j
      BY <2>1, <2>3, <3>2, OthersGood
    <3> QED
      BY <3>1, <3>2
  <2>5. Stored'
    BY <2>1, <2>2, StoredKept DEF Good
  <2> QED
    BY <2>3, <2>4, <2>5 DEF Invariant
<1> QED
  BY <1>1, EditKept, DamageKept, StutterKept DEF Next

\* The invariant holds in every reachable state.
THEOREM InvariantHolds == Spec => []Invariant
<1> QED
  BY InvariantStarts, InvariantKept, PTL DEF Spec

\* Every variable has its type, and only a job with an Export is published.
THEOREM Typed == Spec => []TypeOK
<1>1. Invariant => TypeOK
  <2> SUFFICES ASSUME Invariant PROVE TypeOK
    OBVIOUS
  <2>1. Shaped /\ \A j \in Jobs : Staged(j)
    BY DEF Invariant
  <2>2. publish \subseteq export
    BY <2>1 DEF Shaped, Staged
  <2>3. \A j \in Jobs : job[j].bad \subseteq Refs /\ job[j].found \subseteq Refs /\ job[j].done \in 0 .. NumFiles
    BY <2>1 DEF Shaped, Records
  <2> QED
    BY <2>1, <2>2, <2>3 DEF Shaped, TypeOK, Values, Verdicts
<1> QED
  BY <1>1, InvariantHolds, PTL

\* A committed Publish tells the truth about its files for as long as nobody
\* else touches them: PublishStage.run, commit_output_set.
THEOREM ReceiptsAreTrue == Spec => []ReceiptTrue
<1>1. Invariant => ReceiptTrue
  BY DEF Invariant, Shaped, Held, ReceiptTrue
<1> QED
  BY <1>1, InvariantHolds, PTL

\* Without damage on the disk, whatever a journal has committed is in the store
\* that all batches share: put_file, verify and remove_corrupt of the
\* ContentAddressedArtifactStore, and what Export and Publish do with them.
THEOREM CommittedIsStored == Spec => []CommittedStored
<1>1. Invariant => CommittedStored
  BY DEF Invariant, Shaped, Stored, CommittedStored
<1> QED
  BY <1>1, InvariantHolds, PTL

-----------------------------------------------------------------------------
(* All files or none                                                        *)

\* An attempt that ends in its own step, not by a fault, after the transaction
\* has all its files, and after the rollback none.
LEMMA EndsWhole ==
    ASSUME Shaped, NEW j \in Jobs, Held(j), j \in alone,
           job[j].at \in Publishing, job'[j].at = "idle", faults' = faults,
           Resume(j) \/ Retry(j) \/ Work(j) \/ Cancel(j) \/ Crash(j)
    PROVE  \/ \A i \in Index : files'[<<dir[j], i>>] = content[j]
           \/ \A i \in Index : files'[<<dir[j], i>>] = job[j].prev[i]
<1>1. ~Fault
  BY PublicationAssumption DEF Fault, Shaped
<1>2. job[j] \in Records
  BY DEF Shaped
<1>3. \A place \in Steps : Goto(j, place) => place = "idle"
  BY GotoMoves
<1>4. CASE Commit(j) \/ Interrupt(j)
  <2>1. job[j].at = "commit"
    BY <1>4 DEF Commit, Interrupt, At
  <2>2. "verify" \in Steps
    BY DEF Steps, Attempts, Attempting
  <2>3. ASSUME NEW r \in Records, Remember(j, r) PROVE r.at = "idle"
    BY <2>3, RememberMoves
  <2>4. \A why \in {"failed", "cancelled"} : ~Undo(j, why)
    <3> SUFFICES ASSUME NEW why \in {"failed", "cancelled"}, Undo(j, why) PROVE FALSE
      OBVIOUS
    <3>1. [job[j] EXCEPT !.at = "rollback", !.why = why] \in Records
      BY <1>2 DEF Records, Steps, Attempts, Attempting
    <3> QED
      BY <1>2, <2>3, <3>1 DEF Undo, Records
  <2>5. ASSUME NEW n \in 0 .. NumFiles PROVE ~Remember(j, [job[j] EXCEPT !.done = n])
    <3>1. [job[j] EXCEPT !.done = n] \in Records
      BY <1>2 DEF Records
    <3> QED
      BY <1>2, <2>1, <2>3, <3>1 DEF Records
  <2>6. job[j].done + 1 <= NumFiles => job[j].done + 1 \in 0 .. NumFiles
    BY <1>2, PublicationAssumption DEF Records
  <2> QED
    BY <1>1, <1>3, <1>4, <2>2, <2>4, <2>5, <2>6 DEF Commit, Interrupt
<1>5. CASE Rollback(j)
  <2>1. job[j].at = "rollback"
    BY <1>5 DEF Rollback, At
  <2>2. ASSUME job[j].done > 0, Remember(j, [job[j] EXCEPT !.done = @ - 1]) PROVE FALSE
    <3>1. [job[j] EXCEPT !.done = @ - 1] \in Records
      BY <1>2, <2>2, PublicationAssumption DEF Records
    <3> QED
      BY <1>2, <2>1, <2>2, <3>1, RememberMoves DEF Records
  <2>3. job[j].done = 0 /\ files' = files
    BY <1>1, <1>5, <2>2 DEF Rollback
  <2>4. \A i \in Index : ~(i <= 0)
    BY DEF Index
  <2> QED
    BY <2>1, <2>3, <2>4 DEF Held, Replaced
<1>6. CASE Verify(j) \/ Receipt(j)
  <2>1. files' = files
    BY <1>6 DEF Verify, Receipt
  <2>2. job[j].at \in {"verify", "receipt", "receipting", "published", "received", "succeed"}
    BY <1>6 DEF Verify, Receipt, At, PutExisting, PutMissing, PutReplace, CommitStage, RefuseStage, AfterCommit,
         Cancelled
  <2> QED
    BY <2>1, <2>2 DEF Held, AllMine, Mine, Publishing
<1>7. CASE Resume(j) \/ Retry(j) \/ RemoveCorrupt(j) \/ CheckTargets(j) \/ Run(j) \/ ExportStage(j) \/ Match(j) \/ Read(j)
  BY <1>7 DEF Resume, Retry, RemoveCorrupt, CheckTargets, Run, ExportStage, Match, Read, At, Publishing,
       PutExisting, PutMissing, PutReplace, CommitStage, RefuseStage, AfterCommit
<1>8. CASE Cancel(j) \/ Crash(j)
  BY <1>1, <1>8 DEF Cancel, Crash
<1> QED
  BY <1>4, <1>5, <1>6, <1>7, <1>8 DEF Work

\* No attempt of Publish leaves a mixture of files behind, but one that was
\* disturbed, crashed or could not roll back: commit_output_set.
THEOREM PublishesWhole == Spec => Whole
<1>1. Invariant /\ [Next]_vars =>
        [\A j \in Jobs : job[j].at \in Publishing /\ job'[j].at = "idle" /\ j \in alone /\ faults' = faults =>
           \/ \A i \in Index : files'[<<dir[j], i>>] = content[j]
           \/ \A i \in Index : files'[<<dir[j], i>>] = job[j].prev[i]]_vars
  <2> SUFFICES ASSUME Invariant, Next, NEW j \in Jobs,
                      job[j].at \in Publishing, job'[j].at = "idle", j \in alone, faults' = faults
               PROVE  \/ \A i \in Index : files'[<<dir[j], i>>] = content[j]
                      \/ \A i \in Index : files'[<<dir[j], i>>] = job[j].prev[i]
    OBVIOUS
  <2>1. Shaped /\ \A k \in Jobs : Staged(k) /\ Held(k)
    BY DEF Invariant
  <2>2. job[j].at # "idle"
    BY DEF Publishing
  <2>3. CASE Edit \/ Damage
    BY <2>2, <2>3 DEF Edit, Damage
  <2>4. ASSUME NEW k \in Jobs, Resume(k) \/ Retry(k) \/ Work(k) \/ Cancel(k) \/ Crash(k)
        PROVE  k = j
    <3>1. Others(k)
      BY <2>1, <2>4, StepGood DEF Good, Kept
    <3> QED
      BY <2>2, <3>1 DEF Others
  <2>5. CASE Resume(j) \/ Retry(j) \/ Work(j) \/ Cancel(j) \/ Crash(j)
    BY <2>1, <2>5, EndsWhole
  <2> QED
    BY <2>3, <2>4, <2>5 DEF Next
<1> QED
  BY <1>1, InvariantHolds, PTL DEF Spec, Whole

=============================================================================
