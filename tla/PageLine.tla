-------------------------------- MODULE PageLine --------------------------------
(***************************************************************************)
(* What the pages of the desktop program share: the Application runner,    *)
(* which serves the window's requests one by one and answers each with a   *)
(* signal, both in order; and the way a controller loads what a page shows *)
(* (CreateController, JobOperationsController, RecoveryController,         *)
(* BatchController, DiagnosticsController): one request at a time, one     *)
(* more remembered while it is under way, an answer to an older one        *)
(* dropped.                                                                *)
(***************************************************************************)
EXTENDS Naturals, Sequences

CONSTANTS
    None,
    Presets,    \* names for user presets
    MaxEdits,   \* bound: what the user does on the Create and Settings pages,
    MaxClicks,  \* on the Queue and History pages, other programs included,
    MaxSaves,   \* and to the configuration files,
    MaxExports, \* and on the Diagnostics page
    MaxFaults   \* bound: what fails for a reason outside the model

ASSUME LineAssumption == {MaxEdits, MaxClicks, MaxSaves, MaxExports, MaxFaults} \subseteq Nat

VARIABLES
    page,       \* where the user works: "create", "jobs", "diagnostics", or the file the Settings page saves
    requests,   \* on their way to the runner
    signals,    \* answers on their way to the window
    userActs,   \* what the user has done
    faults

line == <<page, requests, signals, userActs, faults>>

\* The user does something on page p.
ActsOn == [create |-> MaxEdits, jobs |-> MaxClicks, settings |-> MaxSaves, llm |-> MaxSaves,
           diagnostics |-> MaxExports]
Act(p) ==
    /\ page = p /\ userActs < ActsOn[p]
    /\ userActs' = userActs + 1
    /\ UNCHANGED <<page, signals, faults>>

Request(kind, arg) == [kind |-> kind, arg |-> arg]
Signal(kind, ok, value) == [kind |-> kind, ok |-> ok, value |-> value]

\* The runner serves the next request, and answers it, or fails.
Serve(kind) ==
    /\ requests # <<>> /\ Head(requests).kind = kind
    /\ requests' = Tail(requests)
    /\ UNCHANGED <<page, userActs>>
Reply(kind, value) == signals' = Append(signals, Signal(kind, TRUE, value)) /\ UNCHANGED faults
Refuse(kind) == signals' = Append(signals, Signal(kind, FALSE, None)) /\ UNCHANGED faults
Fault(kind) ==
    /\ faults < MaxFaults /\ faults' = faults + 1
    /\ signals' = Append(signals, Signal(kind, FALSE, None))

\* The window's thread takes the next signal; a handler says what it sends.
TakeSignal(kind, ok) ==
    /\ signals # <<>> /\ Head(signals).kind = kind /\ Head(signals).ok = ok
    /\ signals' = Tail(signals)
    /\ UNCHANGED <<page, userActs, faults>>
Value == Head(signals).value

Carries(q, kind) == \E i \in 1 .. Len(q) : q[i].kind = kind
InFlight(kind) == Carries(requests, kind) \/ Carries(signals, kind)
Quiet == requests = <<>> /\ signals = <<>>

-----------------------------------------------------------------------------
(* Loading.  fresh: the request under way is for the latest generation      *)

Load(busy, queued, fresh) == [busy |-> busy, queued |-> queued, fresh |-> fresh]
Loader == [busy : BOOLEAN, queued : BOOLEAN, fresh : BOOLEAN]
Unasked == Load(FALSE, FALSE, TRUE)
Dispatched == Load(TRUE, FALSE, TRUE)

AskFor_Forgets(l) == IF l.busy THEN Load(TRUE, FALSE, FALSE) ELSE Dispatched

AskFor(l) == IF l.busy THEN Load(TRUE, TRUE, FALSE) ELSE Dispatched

AskSends(l, request) == IF l.busy THEN <<>> ELSE <<request>>

\* The answer, or the failure, of the request under way has been dealt with.
Done(l) == IF l.queued THEN Dispatched ELSE [l EXCEPT !.busy = FALSE]
DoneSends(l, request) == IF l.queued THEN <<request>> ELSE <<>>
=============================================================================
