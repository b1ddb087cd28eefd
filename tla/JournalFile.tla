------------------------------ MODULE JournalFile ------------------------------
(***************************************************************************)
(* JsonlJournal, the file behind the batch journal, with the manifest      *)
(* projected from it: what the lines of journal.jsonl can be after short   *)
(* writes, failing fsyncs, process crashes and power losses.               *)
(*                                                                         *)
(* `lines' and `tail' are the file as the operating system shows it: its   *)
(* complete lines and whether bytes follow the last newline.  Only the     *)
(* first `synced' lines are known to be on the disk; a power loss may take *)
(* the others.  An event is a number, its identity; a line that holds two  *)
(* runs of bytes is Garbage.  One writer at a time: the lease's holder.    *)
(***************************************************************************)
EXTENDS Integers, Sequences

CONSTANTS
    MaxEvents,       \* bound on events the writers create
    MaxCrash,        \* bound on crashes of the writing process
    MaxPowerLoss,    \* bound on power losses
    MaxShortWrite,   \* bound on appends that fail after some bytes
    MaxSyncError     \* bound on appends whose fsync fails, all bytes written

ASSUME BoundsAssumption ==
    /\ MaxEvents \in Nat /\ MaxCrash \in Nat /\ MaxPowerLoss \in Nat
    /\ MaxShortWrite \in Nat /\ MaxSyncError \in Nat

VARIABLES
    lines,      \* the complete lines: event identities, or Garbage
    tail,       \* "torn" when bytes follow the last newline, else "clean"
    synced,     \* how many lines an fsync has covered
    manifest,   \* last_event_seq of the durable manifest
    pc,         \* the writer: "down", "ready", in append "write" or "sync"
    last,       \* the writer's projection.last_event_seq
    created,    \* events created so far
    acked,      \* events whose append returned
    failed,     \* events whose append raised
    faults      \* how many faults of each kind have happened

vars == <<lines, tail, synced, manifest, pc, last, created, acked, failed, faults>>

Garbage == 0

Faults == [crash : 0..MaxCrash, power : 0..MaxPowerLoss,
           short : 0..MaxShortWrite, sync : 0..MaxSyncError]

Tails == {"clean", "torn"}

Written == {lines[i] : i \in 1..Len(lines)}

\* read_snapshot parses every complete line, and does not mind a torn tail.
Parses == Garbage \notin Written

Init ==
    /\ lines = <<>> /\ tail = "clean" /\ synced = 0
    /\ manifest = 0
    /\ pc = "down" /\ last = 0 /\ created = 0
    /\ acked = {} /\ failed = {}
    /\ faults = [crash |-> 0, power |-> 0, short |-> 0, sync |-> 0]

-----------------------------------------------------------------------------
(* Opening and closing                                                      *)

\* Mutant: the torn tail stays.
RepairAndRead_KeepsTail ==
    /\ pc = "down"
    /\ IF Parses /\ manifest <= Len(lines)
       THEN pc' = "ready" /\ last' = Len(lines)
       ELSE UNCHANGED <<pc, last>>
    /\ UNCHANGED <<lines, tail, synced, manifest, created, acked, failed, faults>>

\* repair_and_read drops the bytes after the last newline, with an fsync; the
\* command then reads the projection and rejects a manifest ahead of it.
RepairAndRead ==
    /\ pc = "down"
    /\ tail' = "clean"
    /\ synced' = IF tail = "torn" THEN Len(lines) ELSE synced
    /\ IF Parses /\ manifest <= Len(lines)
       THEN pc' = "ready" /\ last' = Len(lines)
       ELSE UNCHANGED <<pc, last>>
    /\ UNCHANGED <<lines, manifest, created, acked, failed, faults>>

\* _run_job repairs and replays once more after an error; a journal that does
\* not parse ends the command.
Reread ==
    /\ pc = "ready"
    /\ tail' = "clean"
    /\ synced' = IF tail = "torn" THEN Len(lines) ELSE synced
    /\ IF Parses THEN last' = Len(lines) /\ UNCHANGED pc
       ELSE pc' = "down" /\ UNCHANGED last
    /\ UNCHANGED <<lines, manifest, created, acked, failed, faults>>

\* The command ends.
Close ==
    /\ pc = "ready"
    /\ pc' = "down"
    /\ UNCHANGED <<lines, tail, synced, manifest, last, created, acked, failed, faults>>

-----------------------------------------------------------------------------
(* append                                                                   *)

\* The snapshot is read again, and the sequence number must follow it.
BeginAppend ==
    /\ pc = "ready" /\ created < MaxEvents
    /\ created' = created + 1
    /\ IF Parses /\ last = Len(lines)
       THEN pc' = "write" /\ UNCHANGED failed
       ELSE pc' = pc /\ failed' = failed \union {created'}
    /\ UNCHANGED <<lines, tail, synced, manifest, last, acked, faults>>

\* The bytes land after whatever the file ends with.
Write ==
    /\ pc = "write"
    /\ lines' = Append(lines, IF tail = "torn" THEN Garbage ELSE created)
    /\ tail' = "clean"
    /\ pc' = "sync"
    /\ UNCHANGED <<synced, manifest, last, created, acked, failed, faults>>

\* OSError with none or some of the bytes written: the event is not in the
\* file, and the tail stays as it is.  The writer gets journal.append_failed
\* and may go on: StageExecutor then appends stage.failed.
WriteFails ==
    /\ pc = "write"
    /\ \/ faults.short < MaxShortWrite /\ tail' = "torn"
          /\ faults' = [faults EXCEPT !.short = @ + 1]
       \/ UNCHANGED <<tail, faults>>
    /\ failed' = failed \union {created}
    /\ pc' = "ready"
    /\ UNCHANGED <<lines, synced, manifest, last, created, acked>>

Returned ==
    /\ acked' = acked \union {created}
    /\ last' = last + 1
    /\ UNCHANGED failed

\* Mutant: flushed, but not synced.
Sync_FlushOnly ==
    /\ pc = "sync"
    /\ Returned
    /\ pc' = "ready"
    /\ UNCHANGED <<lines, tail, synced, manifest, created, faults>>

Sync ==
    /\ pc = "sync"
    /\ synced' = Len(lines)
    /\ Returned
    /\ pc' = "ready"
    /\ UNCHANGED <<lines, tail, manifest, created, faults>>

\* _event_is_durable looks for the event in the file, and takes what it finds
\* for durable; a file that no longer parses raises journal.corrupt.
SyncFails ==
    /\ pc = "sync"
    /\ faults.sync < MaxSyncError
    /\ faults' = [faults EXCEPT !.sync = @ + 1]
    /\ IF Parses THEN Returned
       ELSE failed' = failed \union {created} /\ UNCHANGED <<acked, last>>
    /\ pc' = "ready"
    /\ UNCHANGED <<lines, tail, synced, manifest, created>>

\* Mutant: the manifest is written before the event it shows.
WriteManifest_BeforeAppend ==
    /\ pc = "write"
    /\ manifest' = last + 1
    /\ UNCHANGED <<lines, tail, synced, pc, last, created, acked, failed, faults>>

\* manifest.write syncs the file and its directory.
WriteManifest ==
    /\ pc = "ready"
    /\ manifest' = last
    /\ UNCHANGED <<lines, tail, synced, pc, last, created, acked, failed, faults>>

-----------------------------------------------------------------------------
(* Crashes                                                                  *)

\* What a crash leaves behind the last newline.
TailAfter(n) == {tail} \union
    IF pc = "write" \/ n < Len(lines) THEN Tails ELSE {"clean"}

\* The process dies; what it wrote is in the file.
Crash ==
    /\ pc # "down"
    /\ faults.crash < MaxCrash
    /\ faults' = [faults EXCEPT !.crash = @ + 1]
    /\ tail' \in IF pc = "write" THEN Tails ELSE {tail}
    /\ pc' = "down"
    /\ UNCHANGED <<lines, synced, manifest, last, created, acked, failed>>

\* The machine dies: lines no fsync covered are gone, or cut.
PowerLoss(n) ==
    /\ faults.power < MaxPowerLoss
    /\ faults' = [faults EXCEPT !.power = @ + 1]
    /\ n >= synced
    /\ lines' = SubSeq(lines, 1, n)
    /\ tail' \in TailAfter(n)
    /\ synced' = n
    /\ pc' = "down"
    /\ UNCHANGED <<manifest, last, created, acked, failed>>

Next ==
    \/ RepairAndRead \/ Reread \/ Close
    \/ BeginAppend \/ Write \/ WriteFails \/ Sync \/ SyncFails \/ WriteManifest
    \/ Crash \/ \E n \in 0..Len(lines) : PowerLoss(n)

Spec == Init /\ [][Next]_vars

-----------------------------------------------------------------------------
(* Properties                                                               *)

TypeOK ==
    /\ lines \in Seq(0..MaxEvents) /\ tail \in Tails /\ synced \in 0..Len(lines)
    /\ manifest \in 0..MaxEvents /\ last \in 0..MaxEvents /\ created \in 0..MaxEvents
    /\ pc \in {"down", "ready", "write", "sync"}
    /\ acked \subseteq 1..created /\ failed \subseteq 1..created
    /\ faults \in Faults

\* "One fsynced event per newline" (docs/journal-schema.md): whatever the
\* writers did and whatever failed, every complete line is one event, so the
\* journal can be read.  Not so after a short write: see the run short_write.
Readable == Parses

\* The repair on opening is enough for crashes, power losses and failing
\* fsyncs: without a short write, the journal can always be read.
CrashesReadable == faults.short = 0 => Readable

\* An event whose append returned is in the journal for good: the stages and
\* jobs it settled are never settled a second time by a replay without it.
\* A short write may join it to a fragment, and after a failing fsync append
\* returns for a line that only the page cache holds.
AckedKept == faults.short = 0 /\ faults.sync = 0 => acked \subseteq Written

\* "An uncertain append is reconciled by exact event ID; duplicate appends are
\* never guessed" (docs/journal-schema.md): an event whose append raised never
\* turns up in the journal, so what the writer appends instead is no duplicate.
FailedAbsent == failed \intersect Written = {}

\* "Manifest projection never precedes the corresponding Journal commit"
\* (docs/invariants.md): no power loss leaves a manifest ahead of the journal,
\* which every later resume refuses as manifest.inconsistent.  A process crash
\* or a failing fsync before it may: they leave a line that is replayed and
\* projected though no fsync covers it.
ManifestNotAhead == faults.crash = 0 /\ faults.sync = 0 => manifest <= Len(lines)

=============================================================================
