-------------------------------- MODULE JobPages --------------------------------
(***************************************************************************)
(* The Queue and History pages, which share one job detail and its         *)
(* commands, and the list of batches to recover, behind the runner.  The   *)
(* subject is whether the window comes to show what is on the disk, and    *)
(* the detail of the job its commands go to, while jobs change under it.   *)
(*                                                                         *)
(* Every job is a batch of its own: "left" unfinished by a session that is *)
(* over, "running" in this one, or "over".  The queue keeps one job that   *)
(* is over (recent_terminal_limit); those over before it are "older".      *)
(***************************************************************************)
EXTENDS PageLine

CONSTANTS
    Jobs,
    Before      \* the state of each job when the program starts

ASSUME BeforeAssumption == Before \in [Jobs -> {"absent", "left", "over", "older"}]

VARIABLES
    jobsOnDisk,     \* the state of each job on the disk
    completed,      \* completions of the pool thread the runner has not polled
    served,         \* the runner's last snapshot of the queue
    table,          \* the model of both tables
    refreshes,      \* BatchController's loader (its generation is never looked at)
    queueKey,       \* the Queue page's selection
    selected,       \* JobOperationsController's _selected
    detail,         \* and _detail: the job shown, and its state
    details,        \* the loader of details
    command,        \* _command_busy
    scans,          \* RecoveryController's loader
    prompted,       \* _prompted_batch_ids
    dialog,         \* the batches of the open recovery dialog, or {}
    detailFailed,   \* history: the last answer to a request for details was a failure
    scanFailed      \* history: the same of scans

queue == <<served, table, refreshes, queueKey>>
operations == <<selected, detail, details, command, detailFailed>>
recoveries == <<scans, prompted, dialog, scanFailed>>
jobVars == <<jobsOnDisk, completed, queue, operations, recoveries>>

States == {"absent", "left", "running", "over", "older"}
QueueSnapshot(rev, rows) == [rev |-> rev, rows |-> rows]
\* The rows of the queue, and the state a detail shows.
Rows(d) == [j \in {k \in Jobs : d[k] \notin {"absent", "older"}} |-> d[j]]
StateShown(s) == IF s = "older" THEN "over" ELSE s
Detail(j, s) == [job |-> j, state |-> s]
Recoverable(d) == {j \in Jobs : d[j] = "left"}

\* Job j moves to a state; one that is over pushes the one before it out.
Moved(d, j, s) ==
    [k \in Jobs |-> CASE k = j -> s
                      [] k # j /\ s = "over" /\ d[k] = "over" -> "older"
                      [] OTHER -> d[k]]

JobInit ==
    /\ jobsOnDisk = Before
    /\ completed = {} /\ served = QueueSnapshot(0, [j \in {} |-> "over"])
    /\ table = QueueSnapshot(0, [j \in {} |-> "over"]) /\ refreshes = Dispatched
    /\ queueKey = None /\ selected = None /\ detail = None /\ details = Unasked /\ command = FALSE
    /\ scans = Dispatched /\ prompted = {} /\ dialog = {}
    /\ detailFailed = FALSE /\ scanFailed = FALSE

-----------------------------------------------------------------------------
(* The jobs                                                                 *)

\* Another program creates a batch, finishes one this program does not run, or
\* retries one and is killed.
Elsewhere ==
    /\ Act("jobs")
    /\ \E j \in Jobs : \/ jobsOnDisk[j] = "absent" /\ jobsOnDisk' = Moved(jobsOnDisk, j, "left")
                       \/ jobsOnDisk[j] = "left" /\ jobsOnDisk' = Moved(jobsOnDisk, j, "over")
                       \/ jobsOnDisk[j] = "over" /\ jobsOnDisk' = Moved(jobsOnDisk, j, "left")
    /\ UNCHANGED <<requests, completed, queue, operations, recoveries>>

\* The pool thread comes to the end of a job and posts the completion.
Complete ==
    /\ \E j \in Jobs :
          /\ jobsOnDisk[j] = "running" /\ jobsOnDisk' = Moved(jobsOnDisk, j, "over")
          /\ completed' = completed \union {j}
    /\ UNCHANGED <<line, queue, operations, recoveries>>

\* poll_execution
PollExecution ==
    /\ completed # {} /\ completed' = {}
    /\ signals' = Append(signals, Signal("completion", TRUE, None))
    /\ UNCHANGED <<page, requests, userActs, faults, jobsOnDisk, queue, operations, recoveries>>

-----------------------------------------------------------------------------
(* The runner                                                               *)

\* refresh_queue gives a new revision to new rows only.
ServeRefresh ==
    /\ Serve("refresh")
    /\ \/ /\ served' = IF served.rev > 0 /\ Rows(jobsOnDisk) = served.rows THEN served
                       ELSE QueueSnapshot(served.rev + 1, Rows(jobsOnDisk))
          /\ Reply("refresh", served')
       \/ Fault("refresh") /\ UNCHANGED served
    /\ UNCHANGED <<jobsOnDisk, completed, table, refreshes, queueKey, operations, recoveries>>

ServeDetail ==
    /\ Serve("detail")
    /\ LET j == Head(requests).arg IN
       Reply("detail", Detail(j, StateShown(jobsOnDisk[j]))) \/ Fault("detail")
    /\ UNCHANGED jobVars

ServeScan ==
    /\ Serve("scan")
    /\ Reply("scan", Recoverable(jobsOnDisk)) \/ Fault("scan")
    /\ UNCHANGED jobVars

\* "start" stands for resume and retry, "cancel" for both cancellations; that of
\* a running job leaves a marker for the pool thread.
Allowed(kind, s) == IF kind = "start" THEN s # "running" ELSE s \in {"left", "running"}
ServeCommand(kind) ==
    /\ Serve(kind)
    /\ LET j == Head(requests).arg IN
       \/ /\ Allowed(kind, jobsOnDisk[j])
          /\ jobsOnDisk' = CASE kind = "start" -> Moved(jobsOnDisk, j, "running")
                             [] kind = "cancel" /\ jobsOnDisk[j] = "left" -> Moved(jobsOnDisk, j, "over")
                             [] OTHER -> jobsOnDisk
          /\ Reply("command", None)
       \/ ~Allowed(kind, jobsOnDisk[j]) /\ Refuse("command") /\ UNCHANGED jobsOnDisk
       \/ Fault("command") /\ UNCHANGED jobsOnDisk
    /\ UNCHANGED <<completed, queue, operations, recoveries>>

-----------------------------------------------------------------------------
(* The user and the timer                                                   *)

\* refresh_detail, when j is selected from now on; times: how often it is called.
RefreshDetail(j, times) ==
    IF j = None
    THEN detail' = None /\ UNCHANGED details
    ELSE /\ details' = IF times = 2 THEN AskFor(AskFor(details)) ELSE AskFor(details)
         /\ UNCHANGED detail
DetailSends(j) == IF j = None THEN <<>> ELSE AskSends(details, Request("detail", j))

Refresh == Request("refresh", None)

\* The timer, or the Refresh button while no refresh is under way.
Timer ==
    /\ page = "jobs" /\ ~refreshes.busy
    /\ refreshes' = AskFor(refreshes)
    /\ requests' = Append(requests, Refresh)
    /\ UNCHANGED <<page, signals, userActs, faults, jobsOnDisk, completed, served, table, queueKey,
                   operations, recoveries>>

\* A row of the Queue page, one that is over on the History page, or none.
SelectJob(j, key) ==
    /\ Act("jobs") /\ dialog = {}
    /\ selected' = j /\ queueKey' = key
    /\ RefreshDetail(j, 1) /\ requests' = requests \o DetailSends(j)
    /\ UNCHANGED <<jobsOnDisk, completed, served, table, refreshes, command, detailFailed, recoveries>>

SelectInQueue == \E j \in DOMAIN table.rows \ {queueKey} : SelectJob(j, j)
SelectInHistory == \E j \in DOMAIN table.rows : table.rows[j] = "over" /\ SelectJob(j, queueKey)
Deselect == queueKey # None /\ SelectJob(None, None)

\* The buttons follow the detail shown, the request the selection.
CommandJob ==
    /\ Act("jobs") /\ dialog = {}
    /\ selected # None /\ detail # None /\ ~command
    /\ \E kind \in {"start", "cancel"} :
          /\ Allowed(kind, detail.state)
          /\ requests' = Append(requests, Request(kind, selected))
    /\ command' = TRUE
    /\ UNCHANGED <<jobsOnDisk, completed, queue, selected, detail, details, detailFailed, recoveries>>

\* The answer to the dialog: later, or a command for one of its batches, which
\* resume_batch_id and cancel_batch_id drop while another is under way.  Then
\* the handler that opened the dialog goes on.
CloseDialog ==
    /\ dialog # {} /\ dialog' = {}
    /\ LET next == DoneSends(scans, Request("scan", None)) IN
       \/ requests' = requests \o next /\ UNCHANGED <<page, signals, userActs, faults, refreshes, command>>
       \/ \E j \in dialog, kind \in {"start", "cancel"} :
             /\ Act("jobs")
             /\ command' = TRUE
             /\ requests' = requests \o (IF command THEN <<>> ELSE <<Request(kind, j)>>)
                               \o AskSends(refreshes, Refresh) \o next
             /\ refreshes' = AskFor(refreshes)
    /\ scans' = Done(scans)
    /\ UNCHANGED <<jobsOnDisk, completed, served, table, queueKey,
                   selected, detail, details, detailFailed, prompted, scanFailed>>

-----------------------------------------------------------------------------
(* The window: answers                                                      *)

\* The model is reset when the rows are others or in another order: the Queue
\* page then selects its row again, twice, or nothing.  When only values change
\* the detail is loaded again, if the Queue page has a row selected.
NewRows(rows, reset) ==
    IF reset
    THEN LET key == IF queueKey \in DOMAIN rows THEN queueKey ELSE None IN
         /\ queueKey' = key /\ selected' = key /\ RefreshDetail(key, 2)
    ELSE /\ UNCHANGED <<queueKey, selected>>
         /\ IF rows # table.rows /\ queueKey # None
            THEN RefreshDetail(selected, 1) ELSE UNCHANGED <<detail, details>>
NewRowsSends(rows, reset) ==
    IF reset THEN DetailSends(IF queueKey \in DOMAIN rows THEN queueKey ELSE None)
    ELSE IF rows # table.rows /\ queueKey # None THEN DetailSends(selected) ELSE <<>>

OnSnapshot ==
    /\ TakeSignal("refresh", TRUE)
    /\ refreshes' = Done(refreshes)
    /\ IF Value.rev > table.rev
       THEN \E reset \in BOOLEAN :
            /\ DOMAIN Value.rows # DOMAIN table.rows => reset
            /\ reset => Value.rows # table.rows
            /\ table' = Value
            /\ NewRows(Value.rows, reset)
            /\ scans' = AskFor(scans)
            /\ requests' = requests \o NewRowsSends(Value.rows, reset)
                              \o AskSends(scans, Request("scan", None))
                              \o DoneSends(refreshes, Refresh)
       ELSE /\ requests' = requests \o DoneSends(refreshes, Refresh)
            /\ UNCHANGED <<table, queueKey, selected, detail, details, scans>>
    /\ UNCHANGED <<jobsOnDisk, completed, served, command, detailFailed, prompted, dialog, scanFailed>>

OnRefreshFailure ==
    /\ TakeSignal("refresh", FALSE)
    /\ refreshes' = Done(refreshes)
    /\ requests' = requests \o DoneSends(refreshes, Refresh)
    /\ UNCHANGED <<jobsOnDisk, completed, served, table, queueKey, operations, recoveries>>

\* _dispatch_detail gives up when nothing is selected any more.
DetailDone ==
    IF selected = None
    THEN details' = [details EXCEPT !.busy = FALSE] /\ UNCHANGED requests
    ELSE details' = Done(details) /\ requests' = requests \o DoneSends(details, Request("detail", selected))

OnDetail_Unchecked ==
    /\ TakeSignal("detail", TRUE)
    /\ detail' = IF details.fresh THEN Value ELSE detail
    /\ detailFailed' = FALSE
    /\ DetailDone
    /\ UNCHANGED <<jobsOnDisk, completed, queue, selected, command, recoveries>>

OnDetail ==
    /\ TakeSignal("detail", TRUE)
    /\ detail' = IF details.fresh /\ Value.job = selected THEN Value ELSE detail
    /\ detailFailed' = FALSE
    /\ DetailDone
    /\ UNCHANGED <<jobsOnDisk, completed, queue, selected, command, recoveries>>

OnDetailFailure ==
    /\ TakeSignal("detail", FALSE)
    /\ detailFailed' = TRUE
    /\ DetailDone
    /\ UNCHANGED <<jobsOnDisk, completed, queue, selected, detail, command, recoveries>>

\* The queue is refreshed (twice for an acknowledged command) and the detail.
RefreshAll(times) ==
    /\ refreshes' = IF times = 2 THEN AskFor(AskFor(refreshes)) ELSE AskFor(refreshes)
    /\ RefreshDetail(selected, 1)
    /\ requests' = requests \o AskSends(refreshes, Refresh) \o DetailSends(selected)

OnAck ==
    /\ TakeSignal("command", TRUE)
    /\ command' = FALSE
    /\ RefreshAll(2)
    /\ UNCHANGED <<jobsOnDisk, completed, served, table, queueKey, selected, detailFailed, recoveries>>

OnCommandFailure ==
    /\ TakeSignal("command", FALSE)
    /\ command' = FALSE
    /\ UNCHANGED <<requests, jobsOnDisk, completed, queue, selected, detail, details, detailFailed, recoveries>>

OnCompletion ==
    /\ TakeSignal("completion", TRUE)
    /\ RefreshAll(1)
    /\ UNCHANGED <<jobsOnDisk, completed, served, table, queueKey, selected, command, detailFailed, recoveries>>

\* Batches not yet asked about open the dialog; the rest of the handler waits.
OnScan ==
    /\ TakeSignal("scan", TRUE)
    /\ scanFailed' = FALSE
    /\ LET new == IF scans.fresh THEN Value \ prompted ELSE {} IN
       /\ dialog' = new /\ prompted' = prompted \union new
       /\ IF new # {}
          THEN UNCHANGED <<scans, requests>>
          ELSE scans' = Done(scans) /\ requests' = requests \o DoneSends(scans, Request("scan", None))
    /\ UNCHANGED <<jobsOnDisk, completed, queue, operations>>

OnScanFailure ==
    /\ TakeSignal("scan", FALSE)
    /\ scanFailed' = TRUE
    /\ scans' = Done(scans) /\ requests' = requests \o DoneSends(scans, Request("scan", None))
    /\ UNCHANGED <<jobsOnDisk, completed, queue, operations, prompted, dialog>>

-----------------------------------------------------------------------------
JobUser == Timer \/ SelectInQueue \/ SelectInHistory \/ Deselect \/ CommandJob \/ CloseDialog
JobRunner ==
    \/ PollExecution \/ ServeRefresh \/ ServeDetail \/ ServeScan
    \/ \E kind \in {"start", "cancel"} : ServeCommand(kind)
JobWindow ==
    \/ OnSnapshot \/ OnRefreshFailure \/ OnDetail \/ OnDetailFailure
    \/ OnAck \/ OnCommandFailure \/ OnCompletion \/ OnScan \/ OnScanFailure

\* The window shows the disk: the rows of the queue, the selected job as it is
\* (its last load may have failed, and a job selected on the History page alone
\* is not loaded again), and every batch to recover has been asked about.
JobsShown ==
    /\ ~details.busy /\ ~command
    /\ table.rows = Rows(jobsOnDisk)
    /\ selected # None /\ queueKey # None =>
          detailFailed \/ detail = Detail(selected, StateShown(jobsOnDisk[selected]))
    /\ Recoverable(jobsOnDisk) \subseteq prompted \/ dialog # {} \/ scanFailed
=============================================================================
