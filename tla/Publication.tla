------------------------------ MODULE Publication ------------------------------
(***************************************************************************)
(* The last two stages of a job, Export and Publish, down to the shared    *)
(* artifact store and the files of the user: the blobs that put writes,    *)
(* verify reads and remove_corrupt deletes, the output set that is         *)
(* replaced file by file and rolled back, and the receipt.                 *)
(*                                                                         *)
(* Each job is the one job of a batch of its own; the writer lease of a    *)
(* batch keeps nobody out of the store and of the output directory, which  *)
(* all batches share.  A blob is named by what it holds: the artifacts of  *)
(* Export are the blob of the job's content, the receipt that of content   *)
(* and directory, so jobs with equal outputs share them.                   *)
(***************************************************************************)
EXTENDS Naturals, FiniteSets

CONSTANTS
    Jobs,
    Contents,  \* what Export may produce
    Dirs,      \* output directories
    NumFiles,  \* files of an output set: five in the code
    MaxFaults  \* bound: crashes, failing calls, cancellations, edits, damaged blobs

Index == 1 .. NumFiles
Places == Dirs \X Index
Refs == Contents \X (Dirs \union {"export"})

ASSUME PublicationAssumption ==
    /\ NumFiles \in Nat \ {0} /\ MaxFaults \in Nat
    /\ Jobs # {} /\ Contents # {} /\ Dirs # {} /\ "export" \notin Dirs
    /\ Contents \intersect {"none", "user"} = {}

VARIABLES
    content, dir, overwrite, \* of each job: its input and its options
    files,    \* what is at each place: a content, the user's own, "none"
    blob,     \* "none", "good" or "bad"
    export,   \* jobs whose Export is committed
    publish,  \* jobs whose Publish is committed
    tried,    \* jobs with an earlier attempt of Publish
    verdict,  \* of each job: "open" (pending, running) or its state
    job,      \* the command of each job: where it is and what it remembers
    marker,   \* jobs with a cancel marker
    alone,    \* history: nobody else wrote to the job's files since it looked
    damage,   \* history: a blob was damaged
    faults

options == <<content, dir, overwrite>>
journal == <<export, publish, tried, verdict>>
counts == <<damage, faults>>
vars == <<options, files, blob, journal, job, marker, alone, counts>>

Idle == [at |-> "idle", bad |-> {}, found |-> {}, prev |-> [i \in Index |-> "none"],
         done |-> 0, recovery |-> FALSE, why |-> "none"]

Init ==
    /\ content \in [Jobs -> Contents] /\ dir \in [Jobs -> Dirs] /\ overwrite \in [Jobs -> BOOLEAN]
    /\ \E old \in {"none", "user"} : files = [p \in Places |-> old]
    /\ blob = [r \in Refs |-> "none"]
    /\ export = {} /\ publish = {} /\ tried = {} /\ verdict = [j \in Jobs |-> "open"]
    /\ job = [j \in Jobs |-> Idle] /\ marker = {} /\ alone = {}
    /\ damage = FALSE /\ faults = 0

Fault == faults < MaxFaults /\ faults' = faults + 1 /\ UNCHANGED damage
NoFault == UNCHANGED counts

ExportRef(j) == <<content[j], "export">>
ReceiptRef(j) == <<content[j], dir[j]>>
Mine(j, i) == files[<<dir[j], i>>] = content[j]
AllMine(j) == \A i \in Index : Mine(j, i)

At(j, place) == job[j].at = place
Goto(j, place) == job' = [job EXCEPT ![j].at = place]
Remember(j, r) == job' = [job EXCEPT ![j] = r]

\* A file of a job is written, by it or beside it.
Write(j, i, value) ==
    /\ files' = [files EXCEPT ![<<dir[j], i>>] = value]
    /\ alone' = {k \in alone : k = j \/ dir[k] # dir[j]}

\* The command of the job ends.
End(j, result) ==
    /\ job' = [job EXCEPT ![j] = Idle]
    /\ verdict' = [verdict EXCEPT ![j] = result]

\* An error ends it; replay takes job.failed of an open job only.
Fail(j) ==
    /\ End(j, IF verdict[j] = "open" THEN "failed" ELSE verdict[j])
    /\ UNCHANGED marker

\* A marker is acknowledged, whatever the job's state.
Acknowledged(j, state) == IF j \in marker /\ state \in {"open", "interrupted"} THEN "cancelled" ELSE state

Cancelled(j) == j \in marker /\ End(j, Acknowledged(j, verdict[j])) /\ marker' = marker \ {j}

-----------------------------------------------------------------------------
(* resume and retry                                                         *)

\* _invalidate_corrupt_artifacts reads every committed blob first ...
Resume(j) ==
    /\ At(j, "idle")
    /\ LET committed == {r \in {ExportRef(j)} : j \in export} \union {r \in {ReceiptRef(j)} : j \in publish}
           bad == {r \in committed : blob[r] # "good"}
       IN  Remember(j, [Idle EXCEPT !.at = "resume", !.bad = bad, !.found = bad])
    /\ UNCHANGED <<options, files, blob, journal, marker, alone, counts>>

\* ... then removes what it found bad, one after the other.
RemoveCorrupt(j) ==
    /\ At(j, "resume")
    /\ \E r \in job[j].bad :
         /\ blob' = [blob EXCEPT ![r] = "none"]
         /\ Remember(j, [job[j] EXCEPT !.bad = @ \ {r}])
    /\ UNCHANGED <<options, files, journal, marker, alone, counts>>

\* The first bad stage is invalidated with the stages after it, which reopens
\* the job; then a cancel request is acknowledged.
Settle(j, stages) ==
    /\ export' = IF "export" \in stages THEN export \ {j} ELSE export
    /\ publish' = IF stages # {} THEN publish \ {j} ELSE publish
    /\ verdict' = [verdict EXCEPT ![j] = Acknowledged(j, IF stages # {} THEN "open" ELSE @)]
    /\ marker' = marker \ {j}
    /\ Goto(j, "run")

BadStages(j) ==
    {s \in {"export"} : ExportRef(j) \in job[j].found} \union {s \in {"publish"} : ReceiptRef(j) \in job[j].found}

\* The receipt and the five files are verified if all blobs were good.
Targeted(j) == j \in publish /\ job[j].found = {}

\* A receipt that went bad since the first look ends the command.
CheckTargets(j) ==
    /\ At(j, "resume") /\ job[j].bad = {}
    /\ \/ /\ Targeted(j) /\ blob[ReceiptRef(j)] # "good"
          /\ End(j, verdict[j])
          /\ UNCHANGED <<export, publish, marker>>
       \/ /\ Targeted(j) => blob[ReceiptRef(j)] = "good"
          /\ Settle(j, BadStages(j) \union {s \in {"publish"} : Targeted(j) /\ ~AllMine(j)})
    /\ UNCHANGED <<options, files, blob, tried, alone, counts>>

\* retry, as the GUI offers it: the first stage that is not committed, and what
\* follows; a status with a bad artifact refuses it.
Retry(j) ==
    /\ At(j, "idle") /\ verdict[j] \in {"failed", "cancelled", "interrupted"}
    /\ j \notin publish /\ j \in export => blob[ExportRef(j)] = "good"
    /\ verdict' = [verdict EXCEPT ![j] = "open"]
    /\ Goto(j, "run")
    /\ UNCHANGED <<options, files, blob, export, publish, tried, marker, alone, counts>>

\* stage.started; an attempt that is not the first is a recovery.
Start(j, place) ==
    /\ Remember(j, [Idle EXCEPT !.at = place, !.recovery = place = "match" /\ j \in tried])
    /\ verdict' = [verdict EXCEPT ![j] = "open"]

\* A stage that is committed is verified again when the loop comes to it, not
\* when this command has committed it.
Passed(j) == j \in export /\ (At(j, "next") \/ blob[ExportRef(j)] = "good")

\* The loop passes over what failed or was cancelled.
Run(j) ==
    /\ At(j, "run") \/ At(j, "next")
    /\ \/ Cancelled(j) /\ UNCHANGED tried
       \/ /\ j \notin marker /\ verdict[j] \in {"failed", "cancelled"}
          /\ End(j, verdict[j])
          /\ UNCHANGED <<tried, marker>>
       \/ /\ j \notin marker /\ verdict[j] \in {"open", "interrupted", "succeeded"}
          /\ \/ j \notin export /\ Start(j, "export") /\ UNCHANGED <<tried, marker>>
             \/ j \in export /\ ~Passed(j) /\ Fail(j) /\ UNCHANGED tried
             \/ /\ Passed(j) /\ j \notin publish
                /\ Start(j, "match")
                /\ tried' = tried \union {j}
                /\ UNCHANGED marker
             \/ /\ Passed(j) /\ j \in publish
                /\ \/ (blob[ReceiptRef(j)] # "good" \/ ~AllMine(j)) /\ Fail(j)
                   \/ blob[ReceiptRef(j)] = "good" /\ AllMine(j) /\ End(j, "succeeded") /\ UNCHANGED marker
                /\ UNCHANGED tried
    /\ UNCHANGED <<options, files, blob, export, publish, alone, counts>>

-----------------------------------------------------------------------------
(* The store                                                                *)

\* put: a blob that is there is verified and kept ...
PutExisting(j, ref, from, to) ==
    /\ At(j, from) /\ blob[ref] # "none"
    /\ \/ blob[ref] = "good" /\ Goto(j, to) /\ UNCHANGED <<verdict, marker>>
       \/ blob[ref] = "bad" /\ Fail(j)
    /\ UNCHANGED <<blob, counts>>

PutMissing(j, ref, from, to) ==
    /\ At(j, from) /\ blob[ref] = "none"
    /\ Goto(j, to)
    /\ UNCHANGED <<blob, verdict, marker, counts>>

\* ... or else replaced by the new file.  The sync of its directory may fail
\* when the blob is in place.
PutReplace(j, ref, from, to) ==
    /\ At(j, from)
    /\ blob' = [blob EXCEPT ![ref] = "good"]
    /\ \/ Goto(j, to) /\ NoFault /\ UNCHANGED <<verdict, marker>>
       \/ Fault /\ Fail(j)

\* The blob is verified again, and the stage is committed ...
CommitStage(j, ref, from, to) ==
    /\ At(j, from) /\ blob[ref] = "good"
    /\ Goto(j, to)
    /\ UNCHANGED <<blob, verdict, marker, counts>>

RefuseStage(j, ref, from) ==
    /\ At(j, from) /\ blob[ref] # "good"
    /\ Fail(j)
    /\ UNCHANGED <<blob, counts>>

\* ... and verified once more: a command that finds it bad then just ends.
AfterCommit(j, ref, from, to) ==
    /\ At(j, from)
    /\ \/ blob[ref] = "good" /\ Goto(j, to) /\ UNCHANGED verdict
       \/ blob[ref] # "good" /\ End(j, verdict[j])
    /\ UNCHANGED <<blob, marker, counts>>

ExportStage(j) ==
    /\ \/ At(j, "export") /\ Cancelled(j) /\ UNCHANGED <<blob, export, counts>>
       \/ j \notin marker /\ PutExisting(j, ExportRef(j), "export", "exported") /\ UNCHANGED export
       \/ j \notin marker /\ PutMissing(j, ExportRef(j), "export", "exporting") /\ UNCHANGED export
       \/ PutReplace(j, ExportRef(j), "exporting", "exported") /\ UNCHANGED export
       \/ CommitStage(j, ExportRef(j), "exported", "checked") /\ export' = export \union {j}
       \/ RefuseStage(j, ExportRef(j), "exported") /\ UNCHANGED export
       \/ AfterCommit(j, ExportRef(j), "checked", "next") /\ UNCHANGED export
    /\ UNCHANGED <<options, files, publish, tried, alone>>

-----------------------------------------------------------------------------
(* PublishStage and commit_output_set                                       *)

\* Files that are all there already are not written again.
Match(j) ==
    /\ At(j, "match")
    /\ Goto(j, IF AllMine(j) THEN "verify" ELSE "read")
    /\ UNCHANGED <<options, files, blob, journal, marker, alone, counts>>

\* The new bytes are read, the old ones remembered, and every file is staged
\* before any is replaced.
Read(j) ==
    /\ At(j, "read")
    /\ \/ /\ blob[ExportRef(j)] = "good" /\ j \notin marker
          /\ Remember(j, [job[j] EXCEPT !.at = "commit", !.prev = [i \in Index |-> files[<<dir[j], i>>]]])
          /\ alone' = alone \union {j}
          /\ UNCHANGED <<verdict, marker, counts>>
       \/ blob[ExportRef(j)] # "good" /\ Fail(j) /\ UNCHANGED <<alone, counts>>
       \/ blob[ExportRef(j)] = "good" /\ Fault /\ Fail(j) /\ UNCHANGED alone
       \/ blob[ExportRef(j)] = "good" /\ Cancelled(j) /\ UNCHANGED <<alone, counts>>
    /\ UNCHANGED <<options, files, blob, export, publish, tried>>

\* A recovery without the leave to replace what the first attempt left.
MayReplace_NoRecovery(j, i) == overwrite[j] \/ files[<<dir[j], i>>] = "none"

\* A retry or a resume of Publish may replace files, whatever the option says.
MayReplace(j, i) == overwrite[j] \/ job[j].recovery \/ files[<<dir[j], i>>] = "none"

Undo(j, why) == Remember(j, [job[j] EXCEPT !.at = "rollback", !.why = why])

\* Each replacement may fail, and so may the cleanup after the last.
Commit(j) ==
    /\ At(j, "commit") /\ j \notin marker
    /\ LET i == job[j].done + 1 IN
       \/ /\ i > NumFiles
          /\ Goto(j, "verify")
          /\ UNCHANGED <<files, alone, counts>>
       \/ /\ i <= NumFiles /\ MayReplace(j, i)
          /\ Write(j, i, content[j])
          /\ Remember(j, [job[j] EXCEPT !.done = i])
          /\ UNCHANGED counts
       \/ /\ i <= NumFiles /\ ~MayReplace(j, i)
          /\ Undo(j, "failed")
          /\ UNCHANGED <<files, alone, counts>>
       \/ /\ i <= NumFiles => MayReplace(j, i)
          /\ Fault
          /\ Undo(j, "failed")
          /\ UNCHANGED <<files, alone>>
    /\ UNCHANGED <<options, blob, journal, marker>>

\* A cancellation between two files.
Interrupt(j) ==
    /\ At(j, "commit") /\ j \in marker
    /\ Undo(j, "cancelled")
    /\ UNCHANGED <<options, files, blob, journal, marker, alone, counts>>

\* The file replaced last is not restored, as if a commit were recorded only
\* when its checkpoint is passed.
Rollback_MissesLast(j) ==
    /\ At(j, "rollback")
    /\ \/ /\ job[j].done > 1
          /\ Write(j, job[j].done - 1, job[j].prev[job[j].done - 1])
          /\ Remember(j, [job[j] EXCEPT !.done = @ - 1])
          /\ UNCHANGED <<verdict, marker>>
       \/ /\ job[j].done <= 1
          /\ \/ job[j].why = "cancelled" /\ Cancelled(j)
             \/ job[j].why = "failed" /\ Fail(j)
          /\ UNCHANGED <<files, alone>>
    /\ UNCHANGED <<options, blob, export, publish, tried, counts>>

\* The files that were replaced get what was there before, in reverse order.
\* That may fail, and so may the cleanup at its end.
Rollback(j) ==
    /\ At(j, "rollback")
    /\ \/ /\ job[j].done > 0
          /\ Write(j, job[j].done, job[j].prev[job[j].done])
          /\ Remember(j, [job[j] EXCEPT !.done = @ - 1])
          /\ UNCHANGED <<verdict, marker, counts>>
       \/ /\ Fault
          /\ Fail(j)
          /\ UNCHANGED <<files, alone>>
       \/ /\ job[j].done = 0
          /\ \/ job[j].why = "cancelled" /\ Cancelled(j)
             \/ job[j].why = "failed" /\ Fail(j)
          /\ UNCHANGED <<files, alone, counts>>
    /\ UNCHANGED <<options, blob, export, publish, tried>>

\* The targets taken at their word.
Verify_Trusts(j) ==
    /\ At(j, "verify")
    /\ Goto(j, "receipt") /\ alone' = alone \union {j}
    /\ UNCHANGED <<options, files, blob, journal, marker, counts>>

\* The files are verified, outside the transaction: nothing is rolled back.
Verify(j) ==
    /\ At(j, "verify")
    /\ \/ AllMine(j) /\ Goto(j, "receipt") /\ alone' = alone \union {j} /\ UNCHANGED <<verdict, marker>>
       \/ ~AllMine(j) /\ Fail(j) /\ UNCHANGED alone
    /\ UNCHANGED <<options, files, blob, export, publish, tried, counts>>

\* The receipt is stored and Publish committed.  A cancellation that comes
\* after the transaction ends the job all the same; the files stay.
Receipt(j) ==
    /\ \/ At(j, "receipt") /\ Cancelled(j) /\ UNCHANGED <<blob, publish, counts>>
       \/ j \notin marker /\ PutExisting(j, ReceiptRef(j), "receipt", "published") /\ UNCHANGED publish
       \/ j \notin marker /\ PutMissing(j, ReceiptRef(j), "receipt", "receipting") /\ UNCHANGED publish
       \/ PutReplace(j, ReceiptRef(j), "receipting", "published") /\ UNCHANGED publish
       \/ CommitStage(j, ReceiptRef(j), "published", "received") /\ publish' = publish \union {j}
       \/ RefuseStage(j, ReceiptRef(j), "published") /\ UNCHANGED publish
       \/ AfterCommit(j, ReceiptRef(j), "received", "succeed") /\ UNCHANGED publish
       \/ /\ At(j, "succeed")
          /\ \/ Cancelled(j)
             \/ j \notin marker /\ End(j, "succeeded") /\ UNCHANGED marker
          /\ UNCHANGED <<blob, publish, counts>>
    /\ UNCHANGED <<options, files, export, tried, alone>>

-----------------------------------------------------------------------------
(* What else happens                                                        *)

Cancel(j) ==
    /\ ~At(j, "idle") /\ j \notin marker /\ Fault
    /\ marker' = marker \union {j}
    /\ UNCHANGED <<options, files, blob, journal, job, alone>>

\* Between stage.started and stage.committed.
Attempting ==
    {"export", "exporting", "exported", "match", "read", "commit", "rollback",
     "verify", "receipt", "receipting", "published"}

\* The process dies; its attempt is interrupted by the next command.
Crash(j) ==
    /\ ~At(j, "idle") /\ Fault
    /\ End(j, IF job[j].at \in Attempting THEN "interrupted" ELSE verdict[j])
    /\ UNCHANGED <<options, files, blob, export, publish, tried, marker, alone>>

\* The user changes a file or deletes it.
Edit ==
    /\ Fault
    /\ \E j \in Jobs, i \in Index, value \in {"none", "user"} :
         /\ files' = [files EXCEPT ![<<dir[j], i>>] = value]
         /\ alone' = {k \in alone : dir[k] # dir[j]}
    /\ UNCHANGED <<options, blob, journal, job, marker>>

Damage ==
    /\ faults < MaxFaults /\ faults' = faults + 1 /\ damage' = TRUE
    /\ \E r \in Refs : blob[r] = "good" /\ blob' = [blob EXCEPT ![r] = "bad"]
    /\ UNCHANGED <<options, files, journal, job, marker, alone>>

Work(j) ==
    \/ RemoveCorrupt(j) \/ CheckTargets(j) \/ Run(j) \/ ExportStage(j)
    \/ Match(j) \/ Read(j) \/ Commit(j) \/ Interrupt(j) \/ Rollback(j) \/ Verify(j) \/ Receipt(j)

Next ==
    \/ \E j \in Jobs : Resume(j) \/ Retry(j) \/ Work(j) \/ Cancel(j) \/ Crash(j)
    \/ Edit \/ Damage

\* A command runs on, and the user of a job that is not published keeps
\* resuming and retrying it.
Fairness ==
    \A j \in Jobs : WF_vars(Work(j)) /\ SF_vars(j \notin publish /\ Resume(j)) /\ SF_vars(Retry(j))

Spec == Init /\ [][Next]_vars /\ Fairness

-----------------------------------------------------------------------------
(* Properties                                                               *)

TypeOK ==
    /\ content \in [Jobs -> Contents] /\ dir \in [Jobs -> Dirs] /\ overwrite \in [Jobs -> BOOLEAN]
    /\ files \in [Places -> Contents \union {"none", "user"}]
    /\ blob \in [Refs -> {"none", "good", "bad"}]
    /\ export \subseteq Jobs /\ publish \subseteq export /\ tried \subseteq Jobs
    /\ verdict \in [Jobs -> {"open", "interrupted", "succeeded", "failed", "cancelled"}]
    /\ \A j \in Jobs : /\ job[j].bad \subseteq Refs /\ job[j].found \subseteq Refs
                       /\ job[j].done \in 0 .. NumFiles
    /\ marker \subseteq Jobs /\ alone \subseteq Jobs /\ faults \in 0 .. MaxFaults

\* From here on an attempt knows what it found, or found its own files.
Publishing == {"commit", "rollback", "verify", "receipt", "receipting", "published"}

\* No attempt of Publish leaves a mixture of files behind: when it is over, all
\* its files are in place or all are as it found them, if nobody else wrote to
\* them meanwhile, it did not crash and no rollback failed.  After the
\* transaction a failure or a cancellation leaves the first.
Whole ==
    [][\A j \in Jobs : job[j].at \in Publishing /\ job'[j].at = "idle" /\ j \in alone /\ faults' = faults =>
         \/ \A i \in Index : files'[<<dir[j], i>>] = content[j]
         \/ \A i \in Index : files'[<<dir[j], i>>] = job[j].prev[i]]_vars

\* A committed Publish tells the truth: every file was in place when it was
\* verified, and is as long as nobody else touched it.
ReceiptTrue == \A j \in publish \intersect alone : AllMine(j)

\* As long as no blob is damaged on the disk, what any journal has committed
\* is in the store, whatever the batches that share it do: cancel, fail,
\* crash, clean up and publish again.
CommittedStored ==
    ~damage => /\ \A j \in export : blob[ExportRef(j)] = "good"
               /\ \A j \in publish : blob[ReceiptRef(j)] = "good"

\* A blob of the right name with the wrong bytes stops every put, and no
\* resume removes it unless a committed stage refers to it.
Blocked(j) ==
    \/ j \notin export /\ blob[ExportRef(j)] = "bad"
    \/ j \notin publish /\ blob[ReceiptRef(j)] = "bad"

\* Whatever goes wrong, a job that is resumed and retried is published for
\* good, unless a bad blob blocks it or another job has other files for the
\* same places.  A damaged store heals only when the other batches rest: two
\* that share a blob may delete, time and again, what the other has repaired.
PublishedAtLast ==
    (\A j, k \in Jobs : j # k => dir[j] # dir[k] \/ content[j] = content[k]) =>
        /\ <>[](damage \/ publish = Jobs)
        /\ \A j \in Jobs :
             <>[](\A k \in Jobs \ {j} : At(k, "idle")) => <>[](j \in publish \/ Blocked(j))

=============================================================================
