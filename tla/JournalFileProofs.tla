--------------------------- MODULE JournalFileProofs ---------------------------
(***************************************************************************)
(* What journal.jsonl and the manifest promise under any number of crashes *)
(* and power losses, and which faults each promise does not survive: an    *)
(* append that raised is never in the file, whatever fails; the file can   *)
(* be read until a write is cut short, and keeps what was acknowledged     *)
(* until then or until an fsync fails; the manifest stays behind until the *)
(* process dies or an fsync fails.                                         *)
(***************************************************************************)
EXTENDS JournalFile, TLAPS

\* Where the writer stands against the file: a sequence number is reserved
\* before the write, and the line written is the one being synced.
Cursor ==
    /\ Len(lines) <= created
    /\ pc = "write" => Len(lines) < created /\ last = Len(lines)
    /\ pc = "sync" => last + 1 = Len(lines)

\* The type invariant, with Cursor to bound the sequence numbers.
TypeInv == TypeOK /\ Cursor

\* What reading the file back shows after one more line.
LEMMA WrittenByAppend ==
    ASSUME NEW e \in 0..MaxEvents, lines \in Seq(0..MaxEvents), lines' = Append(lines, e)
    PROVE  Written' = Written \union {e} /\ Len(lines') = Len(lines) + 1
<1>1. Len(lines') = Len(lines) + 1 /\ lines'[Len(lines) + 1] = e
  BY BoundsAssumption
<1>2. \A i \in 1..Len(lines) : lines'[i] = lines[i]
  BY BoundsAssumption
<1> QED
  BY <1>1, <1>2 DEF Written

\* What a cut leaves: nothing that was not written.
LEMMA WrittenByCut ==
    ASSUME lines \in Seq(0..MaxEvents), NEW n \in 0..Len(lines), lines' = SubSeq(lines, 1, n)
    PROVE  /\ lines' \in Seq(0..MaxEvents) /\ Len(lines') = n
           /\ \A i \in 1..n : lines'[i] = lines[i]
           /\ Written' \subseteq Written
<1>1. lines' \in Seq(0..MaxEvents) /\ Len(lines') = n /\ \A i \in 1..n : lines'[i] = lines[i]
  BY BoundsAssumption
<1> QED
  BY <1>1 DEF Written

\* A fault below its bound can be counted.
LEMMA FaultCounted ==
    ASSUME faults \in Faults
    PROVE  /\ faults.crash < MaxCrash => [faults EXCEPT !.crash = @ + 1] \in Faults
           /\ faults.power < MaxPowerLoss => [faults EXCEPT !.power = @ + 1] \in Faults
           /\ faults.short < MaxShortWrite => [faults EXCEPT !.short = @ + 1] \in Faults
           /\ faults.sync < MaxSyncError => [faults EXCEPT !.sync = @ + 1] \in Faults
BY BoundsAssumption DEF Faults

\* No step takes a fault back: the fault counts only grow.
LEMMA NoUndo ==
    ASSUME TypeInv, [Next]_vars
    PROVE  /\ faults'.crash = 0 => faults.crash = 0
           /\ faults'.short = 0 => faults.short = 0
           /\ faults'.sync = 0 => faults.sync = 0
<1> USE BoundsAssumption DEF TypeInv, TypeOK, Faults
<1>1. CASE UNCHANGED faults
  BY <1>1
<1>2. CASE WriteFails
  BY <1>2 DEF WriteFails
<1>3. CASE SyncFails
  BY <1>3 DEF SyncFails
<1>4. CASE Crash
  BY <1>4 DEF Crash
<1>5. ASSUME NEW n \in 0..Len(lines), PowerLoss(n)
      PROVE  /\ faults'.crash = faults.crash
             /\ faults'.short = faults.short /\ faults'.sync = faults.sync
  BY <1>5 DEF PowerLoss
<1> QED
  BY <1>1, <1>2, <1>3, <1>4, <1>5 DEF Next, RepairAndRead, Reread, Close, BeginAppend, Write,
     Sync, WriteManifest, vars

-----------------------------------------------------------------------------

\* The empty file, and no writer.
LEMMA InitTypeInv == Init => TypeInv
BY BoundsAssumption DEF Init, TypeInv, TypeOK, Cursor, Tails, Faults

\* Every step of the writer and every crash keeps the type invariant.
LEMMA StepTypeInv == TypeInv /\ [Next]_vars => TypeInv'
<1> SUFFICES ASSUME TypeInv, [Next]_vars PROVE TypeInv'
  OBVIOUS
<1> USE BoundsAssumption DEF TypeInv, TypeOK, Cursor, Tails
<1>0. Len(lines) \in Nat /\ Len(lines) <= MaxEvents
  OBVIOUS
<1>1. CASE RepairAndRead
  BY <1>0, <1>1 DEF RepairAndRead
<1>2. CASE Reread
  BY <1>0, <1>2 DEF Reread
<1>3. CASE Close
  BY <1>3 DEF Close
<1>4. CASE BeginAppend
  <2>1. created' \in 0..MaxEvents /\ created' = created + 1
    BY <1>4 DEF BeginAppend
  <2>2. 1..created \subseteq 1..created' /\ created' \in 1..created'
    BY <2>1
  <2>3. failed' \subseteq failed \union {created'} /\ acked' = acked
    BY <1>4 DEF BeginAppend
  <2>4. failed' \subseteq 1..created' /\ acked' \subseteq 1..created'
    BY <2>2, <2>3
  <2> QED
    BY <1>0, <1>4, <2>1, <2>4 DEF BeginAppend
<1>5. CASE Write
  <2>1. (IF tail = "torn" THEN Garbage ELSE created) \in 0..MaxEvents
    BY DEF Garbage
  <2>2. lines' \in Seq(0..MaxEvents) /\ Len(lines') = Len(lines) + 1
    BY <1>5, <2>1 DEF Write
  <2> QED
    BY <1>0, <1>5, <2>2 DEF Write
<1>6. CASE WriteFails
  <2>1. faults' \in Faults
    BY <1>6, FaultCounted DEF WriteFails
  <2> QED
    BY <1>0, <1>6, <2>1 DEF WriteFails
<1>7. CASE Sync
  BY <1>7 DEF Sync, Returned
<1>8. CASE SyncFails
  <2>1. faults' \in Faults
    BY <1>8, FaultCounted DEF SyncFails
  <2> QED
    BY <1>0, <1>8, <2>1 DEF SyncFails, Returned
<1>9. CASE WriteManifest
  BY <1>9 DEF WriteManifest
<1>10. CASE Crash
  <2>1. faults' \in Faults
    BY <1>10, FaultCounted DEF Crash
  <2> QED
    BY <1>0, <1>10, <2>1 DEF Crash
<1>11. ASSUME NEW n \in 0..Len(lines), PowerLoss(n) PROVE TypeInv'
  <2>1. lines' \in Seq(0..MaxEvents) /\ Len(lines') = n
    BY <1>11, WrittenByCut DEF PowerLoss
  <2>2. tail' \in Tails
    BY <1>11 DEF PowerLoss, TailAfter
  <2>3. faults' \in Faults
    BY <1>11, FaultCounted DEF PowerLoss
  <2> QED
    BY <1>0, <1>11, <2>1, <2>2, <2>3 DEF PowerLoss
<1>12. CASE UNCHANGED vars
  BY <1>12 DEF vars, Faults
<1> QED
  BY <1>1, <1>2, <1>3, <1>4, <1>5, <1>6, <1>7, <1>8, <1>9, <1>10, <1>11, <1>12 DEF Next

\* The type invariant of JsonlJournal and its writer, for every bound.
THEOREM Typed == Spec => []TypeOK
<1>1. TypeInv => TypeOK
  BY DEF TypeInv
<1> QED
  BY <1>1, InitTypeInv, StepTypeInv, PTL DEF Spec

-----------------------------------------------------------------------------
(* A failed append is absent                                                *)

\* An event is written at most once, and a failed fsync is reported only for
\* a line that is not the event's.
AbsentInv ==
    /\ FailedAbsent
    /\ Written \subseteq 0..created
    /\ pc = "write" => Parses /\ created \notin Written \union failed
    /\ pc = "sync" => created \notin failed /\ (~Parses => created \notin Written)

\* No step reports the failure of an event the file holds, and none writes an
\* event whose failure was reported.
LEMMA StepAbsent == TypeInv /\ AbsentInv /\ [Next]_vars => AbsentInv'
<1> SUFFICES ASSUME TypeInv, AbsentInv, [Next]_vars PROVE AbsentInv'
  OBVIOUS
<1> USE BoundsAssumption DEF TypeInv, TypeOK, AbsentInv, FailedAbsent, Parses, Garbage
<1>0. ASSUME UNCHANGED lines PROVE Written' = Written
  BY <1>0 DEF Written
<1>1. CASE RepairAndRead
  BY <1>0, <1>1 DEF RepairAndRead
<1>2. CASE Reread
  BY <1>0, <1>2 DEF Reread
<1>3. CASE Close
  BY <1>0, <1>3 DEF Close
<1>4. CASE BeginAppend
  <2>1. created' = created + 1 /\ Written' = Written
    BY <1>0, <1>4 DEF BeginAppend
  <2>2. created' \notin Written \union failed
    BY <2>1
  <2>3. Written' \subseteq 0..created'
    BY <2>1
  <2> QED
    BY <1>4, <2>1, <2>2, <2>3 DEF BeginAppend
<1>5. CASE Write
  <2>1. Written' = Written \union {IF tail = "torn" THEN Garbage ELSE created}
    BY <1>5, WrittenByAppend DEF Write
  <2>2. created \in 0..created /\ created # 0
    BY <1>5 DEF Write, Cursor
  <2> QED
    BY <1>5, <2>1, <2>2 DEF Write
<1>6. CASE WriteFails
  BY <1>0, <1>6 DEF WriteFails
<1>7. CASE Sync
  BY <1>0, <1>7 DEF Sync, Returned
<1>8. CASE SyncFails
  BY <1>0, <1>8 DEF SyncFails, Returned
<1>9. CASE WriteManifest
  BY <1>0, <1>9 DEF WriteManifest
<1>10. CASE Crash
  BY <1>0, <1>10 DEF Crash
<1>11. ASSUME NEW n \in 0..Len(lines), PowerLoss(n) PROVE AbsentInv'
  <2>1. Written' \subseteq Written
    BY <1>11, WrittenByCut DEF PowerLoss
  <2> QED
    BY <1>11, <2>1 DEF PowerLoss
<1>12. CASE UNCHANGED vars
  BY <1>0, <1>12 DEF vars
<1> QED
  BY <1>1, <1>2, <1>3, <1>4, <1>5, <1>6, <1>7, <1>8, <1>9, <1>10, <1>11, <1>12 DEF Next

\* "Duplicate appends are never guessed" (docs/journal-schema.md): whatever
\* fails and however often, an event whose append raised is never in the file.
THEOREM FailedNeverAppear == Spec => []FailedAbsent
<1>1. Init => AbsentInv
  BY BoundsAssumption DEF Init, AbsentInv, FailedAbsent, Written, Parses, Garbage
<1>2. AbsentInv => FailedAbsent
  BY DEF AbsentInv
<1> QED
  BY <1>1, <1>2, InitTypeInv, StepTypeInv, StepAbsent, PTL DEF Spec

-----------------------------------------------------------------------------
(* The file can be read, and keeps what was acknowledged                    *)

\* An open journal ends with a newline; so no append joins two records.
CleanInv ==
    faults.short = 0 => /\ Readable
                        /\ pc # "down" => tail = "clean"

\* Only a write cut short in a process that lives on breaks CleanInv.
LEMMA StepClean == TypeInv /\ CleanInv /\ [Next]_vars => CleanInv'
<1> SUFFICES ASSUME TypeInv, CleanInv, [Next]_vars, faults'.short = 0
             PROVE  Readable' /\ (pc' # "down" => tail' = "clean")
  BY DEF CleanInv
<1> USE BoundsAssumption DEF TypeInv, TypeOK, Cursor, Readable, Parses, Garbage
<1>c. faults.short = 0
  BY NoUndo
<1>d. Readable /\ (pc # "down" => tail = "clean")
  BY <1>c DEF CleanInv
<1> USE <1>d
<1>0. ASSUME UNCHANGED lines PROVE Written' = Written
  BY <1>0 DEF Written
<1>1. CASE RepairAndRead
  BY <1>0, <1>1 DEF RepairAndRead
<1>2. CASE Reread
  BY <1>0, <1>2 DEF Reread
<1>3. CASE Close
  BY <1>0, <1>3 DEF Close
<1>4. CASE BeginAppend
  BY <1>0, <1>4 DEF BeginAppend
<1>5. CASE Write
  <2>1. Written' = Written \union {created}
    BY <1>5, WrittenByAppend DEF Write
  <2> QED
    BY <1>5, <2>1 DEF Write
<1>6. CASE WriteFails
  BY <1>0, <1>c, <1>6 DEF WriteFails, Faults
<1>7. CASE Sync
  BY <1>0, <1>7 DEF Sync
<1>8. CASE SyncFails
  BY <1>0, <1>8 DEF SyncFails
<1>9. CASE WriteManifest
  BY <1>0, <1>9 DEF WriteManifest
<1>10. CASE Crash
  BY <1>0, <1>10 DEF Crash
<1>11. ASSUME NEW n \in 0..Len(lines), PowerLoss(n) PROVE Readable' /\ (pc' # "down" => tail' = "clean")
  <2>1. Written' \subseteq Written
    BY <1>11, WrittenByCut DEF PowerLoss
  <2> QED
    BY <1>11, <2>1 DEF PowerLoss
<1>12. CASE UNCHANGED vars
  BY <1>0, <1>12 DEF vars
<1> QED
  BY <1>1, <1>2, <1>3, <1>4, <1>5, <1>6, <1>7, <1>8, <1>9, <1>10, <1>11, <1>12 DEF Next

\* The repair on opening is enough for crashes and power losses alone: after
\* any number of them every complete line is one event.
THEOREM ReadableAfterCrashes == Spec => []CrashesReadable
<1>1. Init => CleanInv
  BY DEF Init, CleanInv, Readable, Written, Parses, Garbage
<1>2. CleanInv => CrashesReadable
  BY DEF CleanInv, CrashesReadable
<1> QED
  BY <1>1, <1>2, InitTypeInv, StepTypeInv, StepClean, PTL DEF Spec

\* The lines a power loss cannot take hold every acknowledged event; the line
\* being synced is the event's own.
KeptInv == faults.short = 0 /\ faults.sync = 0 =>
    /\ \A e \in acked : \E i \in 1..synced : lines[i] = e
    /\ pc = "sync" => lines[Len(lines)] = created

\* An append returns only when its line is on the disk.
LEMMA StepKept == TypeInv /\ CleanInv /\ KeptInv /\ [Next]_vars => KeptInv'
<1> SUFFICES ASSUME TypeInv, CleanInv, KeptInv, [Next]_vars,
                    faults'.short = 0, faults'.sync = 0
             PROVE  KeptInv'
  BY DEF KeptInv
<1> USE BoundsAssumption DEF TypeInv, TypeOK, Cursor
<1>c. faults.short = 0 /\ faults.sync = 0
  BY NoUndo
<1>d. pc # "down" => tail = "clean"
  BY <1>c DEF CleanInv
<1>e. /\ \A e \in acked : \E i \in 1..synced : lines[i] = e
      /\ pc = "sync" => lines[Len(lines)] = created
  BY <1>c DEF KeptInv
<1> USE <1>d, <1>e
<1>0. ASSUME lines' = lines, synced' >= synced, synced' \in 0..Len(lines), acked' = acked,
             pc' # "sync"
      PROVE  KeptInv'
  BY <1>0 DEF KeptInv
<1>1. CASE RepairAndRead
  BY <1>0, <1>1 DEF RepairAndRead
<1>2. CASE Reread
  BY <1>0, <1>2 DEF Reread
<1>3. CASE Close
  BY <1>0, <1>3 DEF Close
<1>4. CASE BeginAppend
  BY <1>0, <1>4 DEF BeginAppend
<1>5. CASE Write
  <2>1. lines' = Append(lines, created)
    BY <1>5 DEF Write
  <2>2. lines'[Len(lines')] = created /\ \A i \in 1..synced : lines'[i] = lines[i]
    BY <2>1
  <2> QED
    BY <1>5, <2>2 DEF Write, KeptInv
<1>6. CASE WriteFails
  BY <1>0, <1>6 DEF WriteFails
<1>7. CASE Sync
  BY <1>7 DEF Sync, Returned, KeptInv
<1>8. CASE SyncFails
  BY <1>c, <1>8 DEF SyncFails, Faults
<1>9. CASE WriteManifest
  BY <1>0, <1>9 DEF WriteManifest
<1>10. CASE Crash
  BY <1>0, <1>10 DEF Crash
<1>11. ASSUME NEW n \in 0..Len(lines), PowerLoss(n) PROVE KeptInv'
  <2>1. \A i \in 1..n : lines'[i] = lines[i]
    BY <1>11, WrittenByCut DEF PowerLoss
  <2>2. acked' = acked /\ synced' = n /\ 1..synced \subseteq 1..n /\ pc' # "sync"
    BY <1>11 DEF PowerLoss
  <2> QED
    BY <2>1, <2>2 DEF KeptInv
<1>12. CASE UNCHANGED vars
  BY <1>12 DEF vars, KeptInv
<1> QED
  BY <1>1, <1>2, <1>3, <1>4, <1>5, <1>6, <1>7, <1>8, <1>9, <1>10, <1>11, <1>12 DEF Next

\* What append acknowledged survives any number of crashes and power losses.
THEOREM AckedIsKept == Spec => []AckedKept
<1>1. Init => CleanInv /\ KeptInv
  BY DEF Init, CleanInv, KeptInv, Readable, Written, Parses, Garbage
<1>2. TypeInv /\ KeptInv => AckedKept
  BY DEF TypeInv, TypeOK, KeptInv, AckedKept, Written
<1> QED
  BY <1>1, <1>2, InitTypeInv, StepTypeInv, StepClean, StepKept, PTL DEF Spec

-----------------------------------------------------------------------------
(* The manifest follows the journal                                         *)

\* Only a line being written is not on the disk yet.
SyncedInv == faults.crash = 0 /\ faults.sync = 0 =>
    /\ manifest <= synced
    /\ pc = "sync" \/ synced = Len(lines)
    /\ pc = "ready" => last = Len(lines)

\* Without a process crash or a failing fsync, the writer reads and projects
\* only lines on the disk.
LEMMA StepSynced == TypeInv /\ SyncedInv /\ [Next]_vars => SyncedInv'
<1> SUFFICES ASSUME TypeInv, SyncedInv, [Next]_vars,
                    faults'.crash = 0, faults'.sync = 0
             PROVE  SyncedInv'
  BY DEF SyncedInv
<1> USE BoundsAssumption DEF TypeInv, TypeOK, Cursor
<1>c. faults.crash = 0 /\ faults.sync = 0
  BY NoUndo
<1>d. /\ manifest <= synced
      /\ pc = "sync" \/ synced = Len(lines)
      /\ pc = "ready" => last = Len(lines)
  BY <1>c DEF SyncedInv
<1> USE <1>d DEF SyncedInv
<1>1. CASE RepairAndRead
  BY <1>1 DEF RepairAndRead
<1>2. CASE Reread
  BY <1>2 DEF Reread
<1>3. CASE Close
  BY <1>3 DEF Close
<1>4. CASE BeginAppend
  BY <1>4 DEF BeginAppend
<1>5. CASE Write
  BY <1>5 DEF Write
<1>6. CASE WriteFails
  BY <1>6 DEF WriteFails
<1>7. CASE Sync
  BY <1>7 DEF Sync, Returned
<1>8. CASE SyncFails
  BY <1>c, <1>8 DEF SyncFails, Faults
<1>9. CASE WriteManifest
  BY <1>9 DEF WriteManifest
<1>10. CASE Crash
  BY <1>c, <1>10 DEF Crash, Faults
<1>11. ASSUME NEW n \in 0..Len(lines), PowerLoss(n) PROVE SyncedInv'
  BY <1>11, WrittenByCut DEF PowerLoss
<1>12. CASE UNCHANGED vars
  BY <1>12 DEF vars
<1> QED
  BY <1>1, <1>2, <1>3, <1>4, <1>5, <1>6, <1>7, <1>8, <1>9, <1>10, <1>11, <1>12 DEF Next

\* "Manifest projection never precedes the corresponding Journal commit"
\* (docs/invariants.md), under any number of power losses, as long as the
\* process itself has not died in append and no fsync has failed.
THEOREM ManifestFollows == Spec => []ManifestNotAhead
<1>1. Init => SyncedInv
  BY BoundsAssumption DEF Init, SyncedInv
<1>2. TypeInv /\ SyncedInv => ManifestNotAhead
  BY DEF TypeInv, TypeOK, SyncedInv, ManifestNotAhead
<1> QED
  BY <1>1, <1>2, InitTypeInv, StepTypeInv, StepSynced, PTL DEF Spec

=============================================================================
