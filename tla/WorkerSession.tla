---------------------------- MODULE WorkerSession ----------------------------
(***************************************************************************)
(* One SubprocessWorkerClient and the Runtime Worker process behind it, as *)
(* WorkerBackedASREngine (transcriptions, one at a time, in one session)   *)
(* and RuntimeDoctor (a session for one probe) drive them.                 *)
(*                                                                         *)
(* Two tasks share the client: main is the caller, gen the generator of    *)
(* events that next_event advances.  Messages wait in the two pipes (the   *)
(* client's queue is the end of one).  The worker may be slow, silent,     *)
(* killed or garbled at every point; every wait of the client but the one  *)
(* for events has a timeout, which may pass at any moment.  What an event  *)
(* generator leaves behind is finalized before the next call: asyncio does *)
(* so within a few turns of its loop.                                      *)
(***************************************************************************)
EXTENDS Naturals, Sequences

CONSTANTS
    MaxRequests,    \* bound: transcriptions and probes
    MaxProgress,    \* bound: progress messages of a transcription
    MaxFaults       \* bound: faults of the worker and of the machine

ASSUME SessionAssumption == MaxRequests \in Nat /\ MaxProgress \in Nat /\ MaxFaults \in Nat \ {0}

Requests == 1 .. MaxRequests

VARIABLES
    main,       \* the caller: where it is, what it does, for which request,
                \* and the outcome it is about to return
    started,    \* the engine has a session
    held,       \* the client holds the process and, with it, the use lock
    active,     \* the client's active request, or 0
    ack,        \* the cancellation acknowledgement has been seen
    shut,       \* the client has asked for a shutdown
    gen,        \* the generator of events
    ev,         \* what next_event holds
    toWorker,   \* messages on their way to the worker
    toClient,   \* messages on their way to the client
    worker,     \* the process: its state, active request, cancel flag, progress
    cancelled,  \* the context of the request is cancelled
    outcome,    \* what each request returned
    done,       \* requests whose result the worker has sent
    faults

client == <<held, active, ack, shut>>
pipes == <<toWorker, toClient>>
vars == <<main, started, client, gen, ev, pipes, worker, cancelled, outcome, done, faults>>

\* A request and its answer are told apart by their direction.
Message(type, req) == [type |-> type, req |-> req]
Handshake == Message("handshake", 0)
DoctorRequest == Message("doctor", 0)
TranscribeRequest(r) == Message("transcribe", r)
CancelRequest(r) == Message("cancel", r)
CancelAcknowledged(r) == Message("acknowledged", r)
Shutdown == Message("shutdown", 0)
WorkerError(r) == Message("error", r)
WorkerProgress(r) == Message("progress", r)
Terminal == {"result", "error", "cancelled"}
Outcomes == {"none", "result", "error", "cancelled", "failed", "abandoned", "probed"}

NoWorker == [at |-> "exited", req |-> 0, cancel |-> FALSE, progress |-> 0]
Alive == worker.at # "exited"
Calling(step, op, req) == [at |-> step, op |-> op, req |-> req, then |-> "none"]
Resting == Calling("rest", "none", 0)

Init ==
    /\ main = Resting /\ started = FALSE
    /\ held = FALSE /\ active = 0 /\ ack = FALSE /\ shut = FALSE
    /\ gen = "off" /\ ev = "none"
    /\ toWorker = <<>> /\ toClient = <<>> /\ worker = NoWorker
    /\ cancelled = FALSE /\ outcome = [r \in Requests |-> "none"]
    /\ done = {} /\ faults = 0

MainGoes(step) == main' = [main EXCEPT !.at = step]
StopWith(result) == main' = [main EXCEPT !.at = "stop", !.then = result]

\* The call returns or raises: with a failure, the session is over.
Return(result, session) ==
    /\ main' = Resting
    /\ started' = session
    /\ outcome' = IF main.req = 0 THEN outcome ELSE [outcome EXCEPT ![main.req] = result]

Fault == faults < MaxFaults /\ faults' = faults + 1
\* A timeout passes whatever the bound.
Late == faults' = IF faults < MaxFaults THEN faults + 1 ELSE faults

\* A message to a worker that is gone may still be written.
Send(m) == toWorker' = Append(toWorker, m)

-----------------------------------------------------------------------------
(* _cleanup and terminate_process_tree                                      *)

\* The process is proven dead: every field of the session is reset.
Reset ==
    /\ worker' = NoWorker
    /\ held' = FALSE /\ active' = 0 /\ shut' = FALSE
    /\ toWorker' = <<>> /\ toClient' = <<>>

\* A termination that fails and lets go of the process all the same.
Unkillable_LetsGo ==
    /\ Alive /\ Fault
    /\ held' = FALSE
    /\ UNCHANGED <<worker, shut, pipes>>

\* worker.process_termination_timeout: process and use lock are kept.
Unkillable ==
    /\ Alive /\ Fault
    /\ UNCHANGED <<worker, held, shut, pipes>>

\* A shutdown that terminates the process, and returns or raises.
Terminate(result) ==
    \/ Reset /\ Return(result, FALSE) /\ UNCHANGED faults
    \/ Unkillable /\ Return("failed", FALSE) /\ UNCHANGED active

\* The generator ends, by an error or because its task is cancelled.
Drop(g) == IF g \in {"reading", "cleaning"} THEN "off" ELSE g
ActiveAfterDrop == IF gen \in {"reading", "cleaning"} THEN 0 ELSE active

-----------------------------------------------------------------------------
(* start                                                                    *)

NextRequest == {r \in Requests : outcome[r] = "none" /\ \A q \in 1 .. r - 1 : outcome[q] # "none"}

\* A call begins.  A session that was not reset refuses a new start.
Begin(op) ==
    /\ main.at = "rest" /\ gen = "off"
    /\ op = "probe" => ~started
    /\ \E r \in NextRequest :
         \/ /\ ~started /\ held
            /\ outcome' = [outcome EXCEPT ![r] = "failed"]
            /\ UNCHANGED <<main, held, toWorker, worker>>
         \/ /\ started
            /\ main' = Calling("request", op, r)
            /\ UNCHANGED <<outcome, held, toWorker, worker>>
         \/ /\ ~started /\ ~held
            /\ main' = Calling("handshake", op, r)
            /\ held' = TRUE
            /\ worker' = [NoWorker EXCEPT !.at = "idle"]
            /\ toWorker' = <<Handshake>>
            /\ UNCHANGED outcome
    /\ cancelled' = FALSE /\ ev' = "none"
    /\ UNCHANGED <<started, active, ack, shut, gen, toClient, done, faults>>

HandshakeOK ==
    /\ main.at = "handshake" /\ toClient # <<>> /\ Head(toClient).type = "handshake"
    /\ toClient' = Tail(toClient)
    /\ IF main.op = "probe"
       THEN Send(DoctorRequest) /\ MainGoes("doctor") /\ UNCHANGED started
       ELSE started' = TRUE /\ MainGoes("request") /\ UNCHANGED toWorker
    /\ UNCHANGED <<client, gen, ev, worker, cancelled, outcome, done, faults>>

\* Nothing, the end of the pipe or a wrong answer came; or the process could
\* not be started, or is not of this Runtime.
HandshakeFails ==
    /\ main.at = "handshake"
    /\ \/ /\ toClient # <<>> /\ Head(toClient).type # "handshake"
          /\ Reset
          /\ UNCHANGED faults
       \/ Reset /\ Late
       \/ Unkillable /\ UNCHANGED active
    /\ Return("failed", FALSE)
    /\ UNCHANGED <<ack, gen, ev, cancelled, done>>

\* client.doctor, then shutdown whatever it returned.
Probed ==
    /\ main.at = "doctor"
    /\ \/ /\ toClient # <<>>
          /\ toClient' = Tail(toClient)
          /\ StopWith(IF Head(toClient).type = "doctor" THEN "probed" ELSE "failed")
          /\ UNCHANGED faults
       \/ Late /\ StopWith("failed") /\ UNCHANGED toClient
    /\ UNCHANGED <<started, client, gen, ev, toWorker, worker, cancelled, outcome, done>>

-----------------------------------------------------------------------------
(* transcribe: the caller                                                   *)

\* client.transcribe, and the first step of its generator.
Request ==
    /\ main.at = "request"
    /\ IF ~held \/ active # 0
       THEN StopWith("failed") /\ UNCHANGED <<active, ack, gen, toWorker>>
       ELSE /\ active' = main.req /\ ack' = FALSE
            /\ MainGoes("events")
            /\ \/ gen' = "reading" /\ Send(TranscribeRequest(main.req))
               \/ ~Alive /\ gen' = "cleaning" /\ UNCHANGED toWorker
    /\ UNCHANGED <<started, held, shut, ev, toClient, worker, cancelled, outcome, done, faults>>

\* The context is cancelled, by another thread.
Cancel ==
    /\ main.at \in {"request", "events"} /\ ~cancelled
    /\ cancelled' = TRUE
    /\ UNCHANGED <<main, started, client, gen, ev, pipes, worker, outcome, done, faults>>

\* A result ends the call and leaves the session open; the generator stays at
\* its yield.  A result that cannot be decoded, or is of another Runtime or
\* model, is a failure.
TakeEvent ==
    /\ main.at = "events" /\ ev # "none"
    /\ \/ ev = "progress" /\ gen' = "reading" /\ UNCHANGED <<main, started, outcome, faults>>
       \/ ev = "result" /\ Return("result", started) /\ UNCHANGED <<gen, faults>>
       \/ ev = "result" /\ Fault /\ StopWith("failed") /\ UNCHANGED <<gen, started, outcome>>
       \/ ev \in {"error", "cancelled", "failed"} /\ StopWith(ev) /\ UNCHANGED <<gen, started, outcome, faults>>
    /\ ev' = "none"
    /\ UNCHANGED <<client, pipes, worker, cancelled, done>>

\* A cancelled context wins over an event.  client.cancel: the session may be
\* gone, or kept for a process that cannot be killed.
NoticeCancel ==
    /\ main.at = "events" /\ cancelled
    /\ \/ ~held /\ StopWith("cancelled") /\ UNCHANGED <<toWorker, gen, active>>
       \/ /\ held /\ active # main.req
          /\ StopWith("failed") /\ UNCHANGED <<toWorker, gen, active>>
       \/ /\ held /\ active = main.req
          /\ \/ Send(CancelRequest(main.req)) /\ MainGoes("cancelling") /\ UNCHANGED <<gen, active>>
             \/ /\ ~Alive /\ StopWith("failed") /\ UNCHANGED toWorker
                /\ gen' = Drop(gen) /\ active' = ActiveAfterDrop
    /\ UNCHANGED <<started, held, ack, shut, ev, toClient, worker, cancelled, outcome, done, faults>>

\* The generator failed while the cancellation was written: there is no event
\* to wait for.
CancelInvalid ==
    /\ main.at = "cancelling" /\ active # main.req
    /\ StopWith("failed")
    /\ UNCHANGED <<started, client, gen, ev, pipes, worker, cancelled, outcome, done, faults>>

Acknowledged ==
    /\ main.at = "cancelling" /\ ack
    /\ MainGoes("last")
    /\ UNCHANGED <<started, client, gen, ev, pipes, worker, cancelled, outcome, done, faults>>

\* After the acknowledgement the next event ends the call, whatever it is.
LastEvent ==
    /\ main.at = "last" /\ ev # "none"
    /\ StopWith(IF ev = "failed" THEN "failed" ELSE "cancelled")
    /\ UNCHANGED <<started, client, gen, ev, pipes, worker, cancelled, outcome, done, faults>>

\* An acknowledged cancellation waits for the next event without a timeout.
CancelTimeout_NotForTheLast ==
    /\ main.at = "cancelling"
    /\ MainGoes("expired")
    /\ UNCHANGED <<started, client, gen, ev, pipes, worker, cancelled, outcome, done, faults>>

\* No acknowledgement, or no event after it, in time.
CancelTimeout ==
    /\ main.at \in {"cancelling", "last"}
    /\ MainGoes("expired")
    /\ UNCHANGED <<started, client, gen, ev, pipes, worker, cancelled, outcome, done, faults>>

\* shutdown with the request still active, then the task of gen is cancelled.
Expire ==
    /\ main.at = "expired"
    /\ \/ Reset /\ StopWith("cancelled") /\ UNCHANGED faults
       \/ Unkillable /\ StopWith("failed") /\ active' = ActiveAfterDrop
    /\ gen' = Drop(gen)
    /\ UNCHANGED <<started, ack, ev, cancelled, outcome, done>>

\* The caller's task is cancelled: the generator goes, the session stays.
Abandon ==
    /\ main.at \in {"events", "cancelling", "last"} /\ Fault
    /\ Return("abandoned", started)
    /\ gen' = Drop(gen) /\ active' = ActiveAfterDrop
    /\ UNCHANGED <<held, ack, shut, ev, pipes, worker, cancelled, done>>

-----------------------------------------------------------------------------
(* transcribe: the generator of events                                      *)

\* A generator that does not compare the request of a message.
GenRead_AnyRequest ==
    /\ gen = "reading" /\ toClient # <<>>
    /\ toClient' = Tail(toClient)
    /\ LET m == Head(toClient) IN
       CASE m.type \notin {"acknowledged", "progress"} \union Terminal ->
              gen' = "cleaning" /\ UNCHANGED <<ev, ack>>
         [] m.type = "acknowledged" -> ack' = TRUE /\ UNCHANGED <<gen, ev>>
         [] OTHER -> gen' = "yielded" /\ ev' = m.type /\ UNCHANGED ack
    /\ UNCHANGED <<main, started, held, active, shut, toWorker, worker, cancelled, outcome, done, faults>>

\* A message of another request, or none at all, ends the session.
GenRead ==
    /\ gen = "reading" /\ toClient # <<>>
    /\ toClient' = Tail(toClient)
    /\ LET m == Head(toClient) IN
       CASE m.req # active \/ m.type \notin {"acknowledged", "progress"} \union Terminal ->
              gen' = "cleaning" /\ UNCHANGED <<ev, ack>>
         [] m.req = active /\ m.type = "acknowledged" -> ack' = TRUE /\ UNCHANGED <<gen, ev>>
         [] OTHER -> gen' = "yielded" /\ ev' = m.type /\ UNCHANGED ack
    /\ UNCHANGED <<main, started, held, active, shut, toWorker, worker, cancelled, outcome, done, faults>>

GenClean ==
    /\ gen = "cleaning"
    /\ \/ Reset /\ UNCHANGED faults
       \/ Unkillable /\ active' = 0
    /\ gen' = "off" /\ ev' = "failed"
    /\ UNCHANGED <<main, started, ack, cancelled, outcome, done>>

\* asyncio closes a generator that was left at its yield.
Finalize ==
    /\ gen = "yielded" /\ main.at \in {"rest", "stop", "stopping"}
    /\ gen' = "off" /\ active' = 0 /\ ev' = "none"
    /\ UNCHANGED <<main, started, held, ack, shut, pipes, worker, cancelled, outcome, done, faults>>

-----------------------------------------------------------------------------
(* shutdown                                                                 *)

Close ==
    /\ main.at = "rest" /\ started
    /\ main' = [Calling("stop", "close", 0) EXCEPT !.then = "result"]
    /\ UNCHANGED <<started, client, gen, ev, pipes, worker, cancelled, outcome, done, faults>>

\* Only an idle session is asked to end; any other is terminated.
StopAsk ==
    /\ main.at = "stop" /\ held /\ active = 0 /\ ~shut
    /\ shut' = TRUE
    /\ Send(Shutdown)
    /\ MainGoes("stopping")
    /\ UNCHANGED <<started, held, active, ack, gen, ev, toClient, worker, cancelled, outcome, done, faults>>

StopNow ==
    /\ main.at = "stop"
    /\ \/ ~held /\ Return(main.then, FALSE) /\ UNCHANGED <<held, active, shut, pipes, worker, faults>>
       \/ held /\ (active # 0 \/ shut) /\ Terminate(main.then)
    /\ UNCHANGED <<ack, gen, ev, cancelled, done>>

\* Acknowledged and exited, or terminated for any other answer or none.
Stopped ==
    /\ main.at = "stopping"
    /\ Terminate(main.then)
    /\ UNCHANGED <<ack, gen, ev, cancelled, done>>

-----------------------------------------------------------------------------
(* The worker                                                               *)

ClientRest == <<main, started, client, gen, ev, cancelled, outcome>>
Say(m) == toClient' = Append(toClient, m)

\* run and _dispatch; once it shuts down, the worker reads no more.
WorkerReads ==
    /\ worker.at \in {"idle", "busy"} /\ toWorker # <<>>
    /\ toWorker' = Tail(toWorker)
    /\ LET m == Head(toWorker) IN
       CASE m.type \in {"handshake", "doctor"} -> Say(m) /\ UNCHANGED worker
         [] m.type = "transcribe" ->
              \/ /\ worker.at = "idle"
                 /\ worker' = [at |-> "busy", req |-> m.req, cancel |-> FALSE, progress |-> 0]
                 /\ UNCHANGED toClient
              \/ Say(WorkerError(m.req)) /\ UNCHANGED worker
         [] m.type = "cancel" ->
              IF m.req = worker.req
              THEN Say(CancelAcknowledged(m.req)) /\ worker' = [worker EXCEPT !.cancel = TRUE]
              ELSE Say(WorkerError(m.req)) /\ UNCHANGED worker
         [] OTHER ->
              /\ Say(Shutdown)
              /\ worker' = [worker EXCEPT !.at = IF @ = "idle" THEN "exited" ELSE "closing", !.cancel = TRUE]
    /\ UNCHANGED <<ClientRest, done, faults>>

WorkerProgresses ==
    /\ worker.at \in {"busy", "closing"} /\ worker.progress < MaxProgress
    /\ worker' = [worker EXCEPT !.progress = @ + 1]
    /\ Say(WorkerProgress(worker.req))
    /\ UNCHANGED <<ClientRest, toWorker, done, faults>>

\* The backend returns or fails; a cancellation seen by then suppresses its
\* result.  The last message and the end of the request are one step.
WorkerEnds ==
    /\ worker.at \in {"busy", "closing"}
    /\ \E type \in (IF worker.cancel THEN {"cancelled", "error"} ELSE {"result", "error"}) :
         /\ Say(Message(type, worker.req))
         /\ done' = IF type = "result" THEN done \union {worker.req} ELSE done
    /\ worker' = [NoWorker EXCEPT !.at = IF worker.at = "busy" THEN "idle" ELSE "exited"]
    /\ UNCHANGED <<ClientRest, toWorker, faults>>

\* The process dies, or writes what is not a message: the pump stops there.
WorkerBreaks ==
    /\ Alive /\ Fault
    /\ Say(Message("broken", 0))
    /\ worker' \in {NoWorker, worker}
    /\ UNCHANGED <<ClientRest, toWorker, done>>

Worker == WorkerReads \/ WorkerProgresses \/ WorkerEnds

-----------------------------------------------------------------------------

Call == Begin("transcribe") \/ Begin("probe") \/ Close

Caller ==
    \/ HandshakeOK \/ HandshakeFails \/ Probed \/ Request \/ TakeEvent \/ NoticeCancel
    \/ CancelInvalid \/ Acknowledged \/ LastEvent \/ CancelTimeout \/ Expire \/ StopAsk \/ StopNow \/ Stopped

Generator == GenRead \/ GenClean \/ Finalize

Next == Call \/ Cancel \/ Caller \/ Abandon \/ Generator \/ Worker \/ WorkerBreaks

\* The tasks of the client run, and their timeouts pass.  Nothing is assumed of
\* the worker, nor of timeouts that are counted as faults.
Fairness ==
    /\ WF_vars(HandshakeOK \/ HandshakeFails) /\ WF_vars(Probed) /\ WF_vars(Request)
    /\ WF_vars(NoticeCancel)
    /\ WF_vars(Acknowledged \/ LastEvent \/ CancelTimeout) /\ WF_vars(Expire)
    /\ WF_vars(StopAsk \/ StopNow \/ Stopped) /\ WF_vars(Generator)

Spec == Init /\ [][Next]_vars /\ Fairness

-----------------------------------------------------------------------------
(* Properties                                                               *)

Places == {"rest", "handshake", "doctor", "request", "events", "cancelling", "last", "expired", "stop", "stopping"}
Messages == [type : {"handshake", "doctor", "transcribe", "cancel", "shutdown", "acknowledged", "progress",
                     "result", "error", "cancelled", "broken"},
             req : 0 .. MaxRequests]

Calls == [at : Places, op : {"none", "transcribe", "probe", "close"}, req : 0 .. MaxRequests, then : Outcomes]
Workers == [at : {"idle", "busy", "closing", "exited"}, req : 0 .. MaxRequests,
            cancel : BOOLEAN, progress : 0 .. MaxProgress]

CallerOK ==
    /\ main \in Calls /\ started \in BOOLEAN /\ cancelled \in BOOLEAN
    /\ outcome \in [Requests -> Outcomes]
ClientOK ==
    /\ held \in BOOLEAN /\ ack \in BOOLEAN /\ shut \in BOOLEAN
    /\ active \in 0 .. MaxRequests
    /\ gen \in {"off", "reading", "yielded", "cleaning"}
    /\ ev \in {"none", "progress", "failed"} \union Terminal
PipesOK == toWorker \in Seq(Messages) /\ toClient \in Seq(Messages)
WorkerOK == worker \in Workers /\ done \subseteq 0 .. MaxRequests /\ faults \in 0 .. MaxFaults

TypeOK == CallerOK /\ ClientOK /\ PipesOK /\ WorkerOK

\* A worker that may be alive is held, and its Runtime's use lock with it: no
\* error, timeout or abandoned call lets go of a process that runs.
LockedWhileAlive == Alive => held

\* A result is returned for the request that the worker answered with it: what
\* an abandoned or cancelled request left in the pipe is no answer to the next.
OwnResult == \A r \in Requests : outcome[r] = "result" => r \in done

\* A cancelled call returns, and so does one that shuts its session down, even
\* of a worker that is silent for ever.
CancelEnds == (cancelled \/ main.at = "stop") /\ main.at # "rest" ~> main.at = "rest"

=============================================================================
