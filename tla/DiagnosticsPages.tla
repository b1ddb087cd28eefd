---------------------------- MODULE DiagnosticsPages ----------------------------
(***************************************************************************)
(* The Diagnostics page with its controller, the service behind it and the *)
(* writer of bundles.  The subject is what the page shows while batches    *)
(* change and refreshes overlap, and whose file an export replaces while   *)
(* other programs use the same directory.                                  *)
(*                                                                         *)
(* world counts the changes of what is summarised; a snapshot is the count *)
(* when the queue was read and the one when the recovery list was.  One    *)
(* destination is exported to.                                             *)
(***************************************************************************)
EXTENDS PageLine

ASSUME TargetAssumption == None \notin {"foreign", "bundle"}

VARIABLES
    world,
    diagnostics,        \* the loader of snapshots
    snapshot, failed,   \* DiagnosticsController's _snapshot and _refresh_failure
    question,           \* the page asks whether to overwrite the destination
    exporting,          \* _export_in_flight
    target,             \* the file at the destination: None, "foreign" or "bundle"
    work,               \* what the runner is doing
    asked,              \* history: world when a refresh was last asked for
    taken               \* history: how a foreign file was replaced that nobody gave up

shownDiagnostics == <<diagnostics, snapshot, failed, asked>>
exports == <<question, exporting>>
disk_ == <<world, target, taken>>
diagnosticsVars == <<shownDiagnostics, exports, disk_, work>>

NoWork == [step |-> "idle"]

\* The page is opened, and asks for a snapshot.
DiagnosticsInit ==
    /\ world = 0 /\ asked = 0 /\ snapshot = None /\ failed = FALSE
    /\ diagnostics = IF page = "diagnostics" THEN Dispatched ELSE Unasked
    /\ question = FALSE /\ exporting = FALSE
    /\ IF page = "diagnostics" THEN target \in {None, "foreign"} ELSE target = None
    /\ work = NoWork /\ taken = {}

-----------------------------------------------------------------------------
(* The user and other programs                                              *)

Diagnose == Request("diagnose", None)

\* The page is shown, or its button pressed.
RefreshDiagnostics ==
    /\ Act("diagnostics") /\ ~question
    /\ diagnostics' = AskFor(diagnostics) /\ asked' = world
    /\ requests' = requests \o AskSends(diagnostics, Diagnose)
    /\ UNCHANGED <<snapshot, failed, exports, disk_, work>>

SendExport(overwrite) ==
    /\ exporting' = TRUE
    /\ requests' = Append(requests, Request("export", overwrite))

\* The page looks at the destination itself, and asks about a file there.
ChooseDestination ==
    /\ Act("diagnostics") /\ ~question /\ ~exporting
    /\ \/ target # None /\ question' = TRUE /\ UNCHANGED <<requests, exporting>>
       \/ target = None /\ SendExport(FALSE) /\ UNCHANGED question
    /\ UNCHANGED <<shownDiagnostics, disk_, work>>

AnswerQuestion ==
    /\ question /\ question' = FALSE
    /\ SendExport(TRUE) \/ UNCHANGED <<requests, exporting>>
    /\ UNCHANGED <<page, signals, userActs, faults, shownDiagnostics, disk_, work>>

\* Jobs go on; a file is put where the export is to go, or taken away.
WorldChanges ==
    /\ Act("diagnostics") /\ world' = world + 1
    /\ UNCHANGED <<requests, shownDiagnostics, exports, target, taken, work>>

OthersWrite ==
    /\ Act("diagnostics")
    /\ target' = IF target = None THEN "foreign" ELSE None
    /\ work' = IF work.step = "replace" THEN [work EXCEPT !.late = TRUE] ELSE work
    /\ UNCHANGED <<requests, shownDiagnostics, exports, world, taken>>

-----------------------------------------------------------------------------
(* The runner: DiagnosticsService, LocalDiagnosticsAdapter                  *)

Working(step) == work.step = step /\ UNCHANGED <<page, requests, userActs>>

\* Both requests begin with the queue's rows and the configuration; an export
\* takes no snapshot that is there already.
StartWork(kind) ==
    /\ work = NoWork /\ Serve(kind)
    /\ \/ /\ work' = [step |-> "recovery", kind |-> kind, queue |-> world, late |-> FALSE,
                      overwrite |-> kind = "export" /\ Head(requests).arg]
          /\ UNCHANGED <<signals, faults>>
       \/ Fault(kind) /\ UNCHANGED work
    /\ UNCHANGED <<shownDiagnostics, exports, disk_>>

ScanForWork ==
    /\ Working("recovery")
    /\ \/ /\ work.kind = "diagnose"
          /\ Reply("diagnose", [queue |-> work.queue, recovery |-> world]) /\ work' = NoWork
       \/ /\ work.kind = "export"
          /\ work' = [work EXCEPT !.step = "validate"] /\ UNCHANGED <<signals, faults>>
       \/ Fault(work.kind) /\ work' = NoWork
    /\ UNCHANGED <<shownDiagnostics, exports, disk_>>

\* A writer that relies on the look the page has taken.
ValidateDestination_Trusts ==
    /\ Working("validate")
    /\ work' = [work EXCEPT !.step = "replace"]
    /\ UNCHANGED <<signals, faults, shownDiagnostics, exports, disk_>>

ValidateDestination ==
    /\ Working("validate")
    /\ \/ /\ target = None \/ work.overwrite
          /\ work' = [work EXCEPT !.step = "replace"] /\ UNCHANGED <<signals, faults>>
       \/ target # None /\ ~work.overwrite /\ Refuse("export") /\ work' = NoWork
       \/ Fault("export") /\ work' = NoWork
    /\ UNCHANGED <<shownDiagnostics, exports, disk_>>

\* The bundle, written under a name of its own, takes the place of whatever is
\* there by now.  The mode and the directory are seen to after that, and may fail.
ReplaceTarget ==
    /\ Working("replace") /\ work' = NoWork
    /\ \/ /\ target' = "bundle"
          /\ taken' = taken \union (IF target = "foreign" /\ ~work.overwrite
                                    THEN {IF work.late THEN "late" ELSE "seen"} ELSE {})
          /\ Reply("export", None) \/ Fault("export")
       \/ Fault("export") /\ UNCHANGED <<target, taken>>
    /\ UNCHANGED <<shownDiagnostics, exports, world>>

-----------------------------------------------------------------------------
(* The window: answers                                                      *)

OnDiagnostics ==
    /\ TakeSignal("diagnose", TRUE)
    /\ snapshot' = IF diagnostics.fresh THEN Value ELSE snapshot
    /\ failed' = (failed /\ ~diagnostics.fresh)
    /\ diagnostics' = Done(diagnostics) /\ requests' = requests \o DoneSends(diagnostics, Diagnose)
    /\ UNCHANGED <<asked, exports, disk_, work>>

OnDiagnosticsFailure ==
    /\ TakeSignal("diagnose", FALSE)
    /\ failed' = (failed \/ diagnostics.fresh)
    /\ diagnostics' = Done(diagnostics) /\ requests' = requests \o DoneSends(diagnostics, Diagnose)
    /\ UNCHANGED <<snapshot, asked, exports, disk_, work>>

OnExport ==
    /\ \E ok \in BOOLEAN : TakeSignal("export", ok)
    /\ exporting' = FALSE
    /\ UNCHANGED <<requests, shownDiagnostics, question, disk_, work>>

-----------------------------------------------------------------------------
DiagnosticsUser ==
    RefreshDiagnostics \/ ChooseDestination \/ AnswerQuestion \/ WorldChanges \/ OthersWrite
DiagnosticsRunner ==
    \/ \E kind \in {"diagnose", "export"} : StartWork(kind)
    \/ ScanForWork \/ ValidateDestination \/ ReplaceTarget
DiagnosticsWindow == OnDiagnostics \/ OnDiagnosticsFailure \/ OnExport

\* The page is at rest, and what it shows is no older than the last refresh
\* asked for, unless it says that this refresh failed.
DiagnosticsShown ==
    /\ ~diagnostics.busy /\ ~exporting
    /\ failed \/ (snapshot # None /\ snapshot.queue >= asked)
=============================================================================
