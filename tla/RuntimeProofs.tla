----------------------------- MODULE RuntimeProofs -----------------------------
(***************************************************************************)
(* The Runtimes on the disk and the worker that runs on one of them.       *)
(* For any number of requests, progress messages and faults: no Runtime    *)
(* Worker runs without the client that holds its use lock, and a call      *)
(* returns a result only if the worker has sent one for that very request. *)
(* For any number of Runtimes, processes, clients and interruptions: under *)
(* the use lock a payload stays whole, what the active slot names stays    *)
(* there, and the manager implements the slot of ActiveSlot.               *)
(***************************************************************************)
EXTENDS WorkerSession, RuntimeStore, TLAPS

\* A result on its way was sent for its request.
Answered(s, d) == \A k \in 1 .. Len(s) : s[k].type = "result" => s[k].req \in d

\* Until the first step of its generator a call has no generator and no event.
Quiet == main.at \in {"handshake", "doctor", "request"} => gen = "off" /\ ev = "none"

\* While a call waits for events, its generator reads those of its request.
Attached == main.at = "events" /\ (gen \in {"reading", "yielded"} \/ ev = "progress") => active = main.req

\* The result next_event hands to a call is one the worker has sent for it.
Handed == main.at = "events" /\ ev = "result" => main.req \in done

\* shutdown ends a call as what it failed with: never with a result.
NoResultAtStop == main.then = "result" => main.req = 0

Inv ==
    /\ TypeOK /\ LockedWhileAlive /\ OwnResult
    /\ Answered(toClient, done) /\ Quiet /\ Attached /\ Handed /\ NoResultAtStop

-----------------------------------------------------------------------------
(* The messages                                                             *)

\* Messages are what they are built from.
LEMMA MessageIsOne ==
    ASSUME NEW type \in {"handshake", "doctor", "transcribe", "cancel", "shutdown", "acknowledged",
                         "progress", "result", "error", "cancelled", "broken"},
           NEW req \in 0 .. MaxRequests
    PROVE  Message(type, req) \in Messages /\ Message(type, req).type = type /\ Message(type, req).req = req
BY DEF Message, Messages

\* A message of the worker that is no result, or one it says it has sent.
LEMMA SayKeeps ==
    ASSUME NEW s \in Seq(Messages), NEW d, NEW e, d \subseteq e, Answered(s, d),
           NEW m \in Messages, m.type = "result" => m.req \in e
    PROVE  Append(s, m) \in Seq(Messages) /\ Answered(Append(s, m), e)
<1>1. Append(s, m) \in Seq(Messages) /\ Len(Append(s, m)) = Len(s) + 1
  OBVIOUS
<1>2. ASSUME NEW k \in 1 .. Len(Append(s, m)), Append(s, m)[k].type = "result"
      PROVE  Append(s, m)[k].req \in e
  <2>1. CASE k = Len(s) + 1
    BY <1>2, <2>1
  <2>2. CASE k # Len(s) + 1
    <3>1. k \in 1 .. Len(s) /\ Append(s, m)[k] = s[k]
      BY <1>1, <2>2
    <3> QED
      BY <1>2, <3>1 DEF Answered
  <2> QED
    BY <2>1, <2>2
<1> QED
  BY <1>1, <1>2 DEF Answered

\* The first message of a pipe, and what is left behind it.
LEMMA TakeKeeps ==
    ASSUME NEW s \in Seq(Messages), s # <<>>, NEW d, Answered(s, d)
    PROVE  /\ Head(s) \in Messages /\ Tail(s) \in Seq(Messages)
           /\ Answered(Tail(s), d)
           /\ Head(s).type = "result" => Head(s).req \in d
<1>1. Head(s) \in Messages /\ Tail(s) \in Seq(Messages) /\ Len(s) \in Nat /\ Len(s) # 0
  OBVIOUS
<1>2. Head(s) = s[1] /\ Len(Tail(s)) = Len(s) - 1 /\ \A k \in 1 .. Len(Tail(s)) : Tail(s)[k] = s[k + 1]
  BY <1>1
<1> QED
  BY <1>1, <1>2 DEF Answered

-----------------------------------------------------------------------------
(* Types                                                                    *)

\* A call begins as a record of its own.
LEMMA CallIsOne ==
    ASSUME NEW step \in Places, NEW op \in {"none", "transcribe", "probe", "close"}, NEW req \in 0 .. MaxRequests
    PROVE  /\ Calling(step, op, req) \in Calls /\ Calling(step, op, req).at = step
           /\ Calling(step, op, req).req = req /\ Calling(step, op, req).then = "none"
BY DEF Calling, Calls, Outcomes

\* The call that is no call.
LEMMA Rests == Resting \in Calls /\ Resting.at = "rest" /\ Resting.req = 0 /\ Resting.then = "none"
BY CallIsOne, SessionAssumption DEF Resting, Places

\* close() is a call that stops the worker, without a request.
LEMMA Closes ==
    ASSUME Close
    PROVE  main' \in Calls /\ main'.at = "stop" /\ main'.req = 0
BY CallIsOne, SessionAssumption DEF Close, Calls, Places, Outcomes

\* At first no worker lives and nothing is on the pipes.
LEMMA InitInv == Init => Inv
<1> SUFFICES ASSUME Init PROVE Inv
  OBVIOUS
<1>1. TypeOK
  <2>1. CallerOK
    BY Rests DEF Init, CallerOK, Outcomes
  <2>2. ClientOK
    <3>1. held \in BOOLEAN /\ ack \in BOOLEAN /\ shut \in BOOLEAN
      BY Zenon DEF Init
    <3>2. active \in 0 .. MaxRequests /\ gen = "off" /\ ev = "none"
      BY SessionAssumption DEF Init
    <3> QED
      BY <3>1, <3>2 DEF ClientOK
  <2>3. PipesOK
    BY DEF Init, PipesOK
  <2>4. WorkerOK
    BY SessionAssumption DEF Init, WorkerOK, NoWorker, Workers
  <2> QED
    BY <2>1, <2>2, <2>3, <2>4 DEF TypeOK
<1>2. LockedWhileAlive /\ OwnResult /\ Answered(toClient, done)
  BY DEF Init, LockedWhileAlive, Alive, NoWorker, OwnResult, Answered
<1>3. Quiet /\ Attached /\ Handed /\ NoResultAtStop
  BY Rests DEF Init, Quiet, Attached, Handed, NoResultAtStop
<1> QED
  BY <1>1, <1>2, <1>3 DEF Inv


\* The steps of which actions are made.
LEMMA Goes ==
    ASSUME CallerOK, NEW step \in Places, MainGoes(step)
    PROVE  main' \in Calls /\ main'.at = step /\ main'.req = main.req /\ main'.then = main.then
BY DEF CallerOK, Calls, MainGoes

\* A call that stops the worker keeps its request and what it will return.
LEMMA Stops ==
    ASSUME CallerOK, NEW result \in Outcomes, StopWith(result)
    PROVE  main' \in Calls /\ main'.at = "stop" /\ main'.req = main.req /\ main'.then = result
BY DEF CallerOK, Calls, StopWith, Places

\* A call that returns rests.
LEMMA Returns ==
    ASSUME CallerOK, NEW result \in Outcomes, NEW session \in BOOLEAN, Return(result, session), UNCHANGED cancelled
    PROVE  CallerOK' /\ main' = Resting
BY Rests DEF CallerOK, Return, Requests

\* A reset leaves two empty pipes and no process.
LEMMA Resets ==
    ASSUME Reset
    PROVE  /\ PipesOK' /\ Answered(toClient, done)' /\ worker' \in Workers /\ ~Alive'
           /\ held' = FALSE /\ shut' = FALSE /\ active' = 0
BY SessionAssumption DEF Reset, PipesOK, Answered, NoWorker, Workers, Alive

\* Each part of the type invariant by itself, one group of actions at a time.
LEMMA CallerStep == TypeOK /\ [Next]_vars => CallerOK'
<1> SUFFICES ASSUME CallerOK, ev \in {"none", "progress", "failed"} \union Terminal, [Next]_vars PROVE CallerOK'
  BY DEF TypeOK, ClientOK
<1> USE DEF Terminal
<1>1. ASSUME NEW op \in {"transcribe", "probe"}, Begin(op) PROVE CallerOK'
  <2>1. PICK r \in Requests :
             \/ main' = main /\ outcome' = [outcome EXCEPT ![r] = "failed"]
             \/ outcome' = outcome /\ \E step \in {"request", "handshake"} :
                    main' = Calling(step, op, r)
    BY <1>1 DEF Begin, NextRequest
  <2>2. started' = started /\ cancelled' = FALSE
    BY <1>1 DEF Begin
  <2>3. main' \in Calls
    BY <2>1, CallIsOne DEF CallerOK, Requests, Places
  <2>4. outcome' \in [Requests -> Outcomes]
    BY <2>1 DEF CallerOK, Outcomes
  <2> QED
    BY <2>2, <2>3, <2>4 DEF CallerOK
<1>2. CASE Close
  BY <1>2, Closes DEF Close, CallerOK
<1>3. CASE Cancel \/ Generator \/ Worker \/ WorkerBreaks
  BY <1>3 DEF CallerOK, Cancel, Generator, GenRead, GenClean, Finalize, Worker, WorkerReads, WorkerProgresses, WorkerEnds,
     WorkerBreaks, ClientRest
<1>4. CASE HandshakeOK \/ Acknowledged \/ CancelTimeout \/ StopAsk
  BY <1>4, Goes DEF CallerOK, HandshakeOK, Acknowledged, CancelTimeout, StopAsk, Places
<1>5. CASE HandshakeFails
  BY <1>5, Returns DEF HandshakeFails, Outcomes
<1>6. CASE Probed \/ CancelInvalid \/ LastEvent \/ Expire
  BY <1>6, Stops DEF CallerOK, Probed, CancelInvalid, LastEvent, Expire, Outcomes
<1>7. CASE Request
  BY <1>7, Stops, Goes DEF CallerOK, Request, Outcomes, Places
<1>8. CASE TakeEvent
  <2>1. CASE Return("result", started)
    BY <1>8, <2>1, Returns DEF CallerOK, TakeEvent, Outcomes
  <2>2. CASE main' = main /\ UNCHANGED <<started, outcome>>
    BY <1>8, <2>2 DEF CallerOK, TakeEvent
  <2>3. CASE (\E result \in Outcomes : StopWith(result)) /\ UNCHANGED <<started, outcome>>
    BY <1>8, <2>3, Stops DEF CallerOK, TakeEvent
  <2> QED
    BY <1>8, <2>1, <2>2, <2>3 DEF TakeEvent, Outcomes
<1>9. CASE NoticeCancel
  BY <1>9, Stops, Goes DEF CallerOK, NoticeCancel, Outcomes, Places
<1>10. CASE Abandon
  BY <1>10, Returns DEF CallerOK, Abandon, Outcomes
<1>11. CASE StopNow \/ Stopped
  <2>1. main.then \in Outcomes /\ UNCHANGED cancelled
    BY <1>11 DEF CallerOK, Calls, StopNow, Stopped
  <2>2. \E result \in Outcomes : Return(result, FALSE)
    BY <1>11, <2>1 DEF StopNow, Stopped, Terminate, Outcomes
  <2> QED
    BY <2>1, <2>2, Returns
<1>12. CASE UNCHANGED vars
  BY <1>12 DEF CallerOK, vars
<1> QED
  BY <1>1, <1>2, <1>3, <1>4, <1>5, <1>6, <1>7, <1>8, <1>9, <1>10, <1>11, <1>12 DEF Next, Call, Caller

\* The client's own state keeps its type.
LEMMA ClientStep == TypeOK /\ [Next]_vars => ClientOK'
<1> SUFFICES ASSUME TypeOK, [Next]_vars PROVE ClientOK'
  OBVIOUS
<1>0. main.req \in 0 .. MaxRequests /\ 0 \in 0 .. MaxRequests
  BY SessionAssumption DEF TypeOK, CallerOK, Calls
<1>1. CASE Call \/ Cancel
  BY <1>1 DEF TypeOK, ClientOK, Call, Begin, Close, Cancel, client
<1>2. CASE Caller
  BY <1>0, <1>2 DEF TypeOK, ClientOK, Caller, HandshakeOK, HandshakeFails, Probed, Request, TakeEvent, NoticeCancel,
     CancelInvalid, Acknowledged, LastEvent, CancelTimeout, Expire, StopAsk, StopNow, Stopped, Terminate, Reset, Unkillable, Drop,
     ActiveAfterDrop, client
<1>3. CASE Abandon
  BY <1>0, <1>3 DEF TypeOK, ClientOK, Abandon, Drop, ActiveAfterDrop
<1>4. CASE GenRead
  <2>1. Head(toClient).type \in {"progress"} \union Terminal \/ UNCHANGED ev
    BY <1>4 DEF GenRead
  <2> QED
    BY <1>4, <2>1 DEF TypeOK, ClientOK, GenRead, Terminal
<1>5. CASE GenClean \/ Finalize
  BY <1>0, <1>5 DEF TypeOK, ClientOK, GenClean, Finalize, Reset, Unkillable
<1>6. CASE Worker \/ WorkerBreaks
  BY <1>6 DEF TypeOK, ClientOK, Worker, WorkerReads, WorkerProgresses, WorkerEnds, WorkerBreaks, ClientRest, client
<1>7. CASE UNCHANGED vars
  BY <1>7 DEF TypeOK, ClientOK, vars, client
<1> QED
  BY <1>1, <1>2, <1>3, <1>4, <1>5, <1>6, <1>7 DEF Next, Generator

\* So do the pipes, and a result on its way stays one that was sent.
LEMMA PipesStep == TypeOK /\ Answered(toClient, done) /\ [Next]_vars => PipesOK' /\ Answered(toClient, done)'
<1> SUFFICES ASSUME TypeOK, PipesOK, Answered(toClient, done), [Next]_vars
    PROVE  PipesOK' /\ Answered(toClient', done')
  BY DEF TypeOK
<1>0. main.req \in 0 .. MaxRequests /\ worker.req \in 0 .. MaxRequests /\ 0 \in 0 .. MaxRequests
  BY SessionAssumption DEF TypeOK, CallerOK, Calls, WorkerOK, Workers
<1>1. CASE UNCHANGED <<pipes, done>>
  BY <1>1 DEF PipesOK, pipes
<1>2. CASE Reset /\ UNCHANGED done
  BY <1>2, Resets
<1>3. ASSUME NEW m \in Messages, toWorker' = Append(toWorker, m) \/ toWorker' = <<m>>, UNCHANGED <<toClient, done>>
      PROVE  PipesOK' /\ Answered(toClient', done')
  <2>1. Append(toWorker, m) \in Seq(Messages) /\ <<m>> \in Seq(Messages)
    BY DEF PipesOK
  <2> QED
    BY <1>3, <2>1 DEF PipesOK, Answered
<1>4. CASE toClient # <<>> /\ toClient' = Tail(toClient) /\ UNCHANGED done /\ toWorker' \in Seq(Messages)
  BY <1>4, TakeKeeps DEF PipesOK
<1>5. ASSUME NEW m \in Messages, toClient' = Append(toClient, m), done \subseteq done',
             m.type = "result" => m.req \in done', toWorker' \in Seq(Messages)
      PROVE  PipesOK' /\ Answered(toClient', done')
  BY <1>5, SayKeeps DEF PipesOK
<1>6. CASE Call \/ Cancel
  <2>1. Handshake \in Messages
    BY <1>0, MessageIsOne DEF Handshake
  <2> QED
    BY <1>1, <1>3, <1>6, <2>1 DEF Call, Begin, Close, Cancel, pipes
<1>7. CASE HandshakeOK
  <2>1. DoctorRequest \in Messages
    BY <1>0, MessageIsOne DEF DoctorRequest
  <2> QED
    BY <1>4, <1>7, <2>1 DEF HandshakeOK, Send, PipesOK
<1>8. CASE HandshakeFails \/ Expire \/ StopNow \/ Stopped \/ GenClean
  BY <1>1, <1>2, <1>8 DEF HandshakeFails, Expire, StopNow, Stopped, GenClean, Terminate, Unkillable, pipes
<1>9. CASE Probed \/ GenRead
  BY <1>1, <1>4, <1>9 DEF Probed, GenRead, PipesOK, pipes
<1>10. CASE Request \/ NoticeCancel \/ StopAsk
  <2>1. /\ TranscribeRequest(main.req) \in Messages /\ CancelRequest(main.req) \in Messages
        /\ Shutdown \in Messages
    BY <1>0, MessageIsOne DEF TranscribeRequest, CancelRequest, Shutdown
  <2> QED
    BY <1>1, <1>3, <1>10, <2>1 DEF Request, NoticeCancel, StopAsk, Send, pipes
<1>11. CASE TakeEvent \/ CancelInvalid \/ Acknowledged \/ LastEvent \/ CancelTimeout \/ Abandon \/ Finalize \/ UNCHANGED vars
  BY <1>1, <1>11 DEF TakeEvent, CancelInvalid, Acknowledged, LastEvent, CancelTimeout, Abandon, Finalize, vars, pipes
<1>12. CASE WorkerReads
  <2>1. Head(toWorker) \in Messages /\ Tail(toWorker) \in Seq(Messages)
    BY <1>12 DEF WorkerReads, PipesOK
  <2> DEFINE m == Head(toWorker)
  <2>2. m.req \in 0 .. MaxRequests
    BY <2>1 DEF Messages
  <2>3. /\ WorkerError(m.req) \in Messages /\ WorkerError(m.req).type = "error"
        /\ CancelAcknowledged(m.req) \in Messages /\ CancelAcknowledged(m.req).type = "acknowledged"
        /\ Shutdown \in Messages /\ Shutdown.type = "shutdown"
    BY <1>0, <2>2, MessageIsOne DEF WorkerError, CancelAcknowledged, Shutdown
  <2>4. toWorker' = Tail(toWorker) /\ UNCHANGED done
    BY <1>12 DEF WorkerReads
  <2>5. UNCHANGED toClient \/ \E n \in Messages : n.type # "result" /\ toClient' = Append(toClient, n)
    BY <1>12, <2>1, <2>3 DEF WorkerReads, Say
  <2>6. CASE UNCHANGED toClient
    BY <2>1, <2>4, <2>6 DEF PipesOK
  <2> QED
    BY <1>5, <2>1, <2>4, <2>5, <2>6
<1>13. CASE WorkerProgresses
  <2>1. WorkerProgress(worker.req) \in Messages /\ WorkerProgress(worker.req).type = "progress"
    BY <1>0, MessageIsOne DEF WorkerProgress
  <2> QED
    BY <1>5, <1>13, <2>1 DEF WorkerProgresses, Say, PipesOK
<1>14. CASE WorkerEnds
  <2>1. PICK type \in {"cancelled", "error", "result"} :
             /\ Say(Message(type, worker.req))
             /\ done' = IF type = "result" THEN done \union {worker.req} ELSE done
    BY <1>14 DEF WorkerEnds
  <2>2. /\ Message(type, worker.req) \in Messages /\ Message(type, worker.req).type = type
        /\ Message(type, worker.req).req = worker.req
    BY <1>0, MessageIsOne
  <2> QED
    BY <1>5, <1>14, <2>1, <2>2 DEF WorkerEnds, Say, PipesOK
<1>15. CASE WorkerBreaks
  <2>1. Message("broken", 0) \in Messages /\ Message("broken", 0).type = "broken"
    BY <1>0, MessageIsOne
  <2> QED
    BY <1>5, <1>15, <2>1 DEF WorkerBreaks, Say, PipesOK
<1> QED
  BY <1>6, <1>7, <1>8, <1>9, <1>10, <1>11, <1>12, <1>13, <1>14, <1>15 DEF Next, Caller, Generator, Worker

\* A new process, and one that has just ended a request.
LEMMA FreshWorker == NoWorker \in Workers /\ \A at \in {"idle", "exited"} : [NoWorker EXCEPT !.at = at] \in Workers
<1>1. 0 \in 0 .. MaxRequests /\ 0 \in 0 .. MaxProgress
  BY SessionAssumption
<1>2. FALSE \in BOOLEAN
  OBVIOUS
<1>3. ASSUME NEW at \in {"idle", "exited"}
      PROVE  [at |-> at, req |-> 0, cancel |-> FALSE, progress |-> 0] \in Workers
  BY <1>1, <1>2, Zenon DEF Workers
<1>4. NoWorker \in Workers
  BY <1>3 DEF NoWorker
<1>5. \A at \in {"idle", "exited"} : [NoWorker EXCEPT !.at = at] \in Workers
  BY <1>4 DEF Workers
<1> QED
  BY <1>4, <1>5

\* So does the worker.
LEMMA WorkerStep == TypeOK /\ [Next]_vars => WorkerOK'
<1> SUFFICES ASSUME TypeOK, WorkerOK, [Next]_vars PROVE WorkerOK'
  BY DEF TypeOK
<1>0. worker \in Workers /\ \A at \in {"idle", "exited"} : [NoWorker EXCEPT !.at = at] \in Workers
  BY FreshWorker DEF WorkerOK
<1>1. (Fault \/ Late) => faults' \in 0 .. MaxFaults
  BY SessionAssumption DEF WorkerOK, Fault, Late
<1>2. CASE Call \/ Cancel
  BY <1>0, <1>2 DEF WorkerOK, Call, Begin, Close, Cancel
<1>3. CASE HandshakeFails \/ Expire \/ StopNow \/ Stopped \/ GenClean
  <2>1. (UNCHANGED faults \/ Fault \/ Late) /\ UNCHANGED done
    BY <1>3 DEF HandshakeFails, Expire, StopNow, Stopped, GenClean, Terminate, Unkillable
  <2>2. worker' \in {NoWorker, worker}
    BY <1>3 DEF HandshakeFails, Expire, StopNow, Stopped, GenClean, Terminate, Reset, Unkillable
  <2> QED
    BY <1>0, <1>1, <2>1, <2>2, FreshWorker DEF WorkerOK
<1>4. CASE HandshakeOK \/ Probed \/ Request \/ TakeEvent \/ NoticeCancel \/ CancelInvalid \/ Acknowledged \/ LastEvent
           \/ CancelTimeout \/ StopAsk \/ Abandon \/ GenRead \/ Finalize \/ UNCHANGED vars
  BY <1>1, <1>4 DEF WorkerOK, HandshakeOK, Probed, Request, TakeEvent, NoticeCancel, CancelInvalid, Acknowledged, LastEvent,
     CancelTimeout, StopAsk, Abandon, GenRead, Finalize, vars
<1>5. CASE WorkerReads
  <2>1. Head(toWorker).req \in 0 .. MaxRequests
    <3>1. Head(toWorker) \in Messages
      BY <1>5 DEF WorkerReads, TypeOK, PipesOK
    <3> QED
      BY <3>1 DEF Messages
  <2>2. \/ worker' \in {worker, [worker EXCEPT !.cancel = TRUE]}
        \/ worker' = [at |-> "busy", req |-> Head(toWorker).req, cancel |-> FALSE, progress |-> 0]
        \/ \E at \in {"exited", "closing"} : worker' = [worker EXCEPT !.at = at, !.cancel = TRUE]
    BY <1>5 DEF WorkerReads
  <2>3. worker' \in Workers
    <3>1. ASSUME NEW at \in {"idle", "busy", "closing", "exited"}
          PROVE  [worker EXCEPT !.at = at, !.cancel = TRUE] \in Workers
      BY <1>0 DEF Workers
    <3>2. [worker EXCEPT !.cancel = TRUE] \in Workers
      BY <1>0 DEF Workers
    <3>3. [at |-> "busy", req |-> Head(toWorker).req, cancel |-> FALSE, progress |-> 0] \in Workers
      BY <2>1, SessionAssumption DEF Workers
    <3> QED
      BY <1>0, <2>2, <3>1, <3>2, <3>3
  <2> QED
    BY <1>5, <2>3 DEF WorkerReads, WorkerOK
<1>6. CASE WorkerProgresses
  <2>1. worker' \in Workers
    BY <1>0, <1>6, SessionAssumption DEF WorkerProgresses, Workers
  <2> QED
    BY <1>6, <2>1 DEF WorkerProgresses, WorkerOK
<1>7. CASE WorkerEnds
  <2>1. worker' \in Workers
    BY <1>0, <1>7 DEF WorkerEnds
  <2>2. worker.req \in 0 .. MaxRequests
    BY <1>0 DEF Workers
  <2> QED
    BY <1>7, <2>1, <2>2 DEF WorkerEnds, WorkerOK
<1>8. CASE WorkerBreaks
  BY <1>0, <1>1, <1>8, FreshWorker DEF WorkerBreaks, WorkerOK
<1> QED
  BY <1>2, <1>3, <1>4, <1>5, <1>6, <1>7, <1>8 DEF Next, Caller, Generator, Worker

-----------------------------------------------------------------------------
(* The lock                                                                 *)

\* Only a reset lets go of the process, and it leaves none.
LEMMA LockStep == WorkerOK /\ LockedWhileAlive /\ [Next]_vars => LockedWhileAlive'
<1> SUFFICES ASSUME WorkerOK, Alive => held, [Next]_vars PROVE Alive' => held'
  BY DEF LockedWhileAlive
<1>1. CASE UNCHANGED <<worker, held>>
  BY <1>1 DEF Alive
<1>2. CASE Reset
  BY <1>2, Resets
<1>3. CASE Call \/ Cancel
  BY <1>1, <1>3 DEF Call, Begin, Close, Cancel, client
<1>4. CASE HandshakeFails \/ Expire \/ StopNow \/ Stopped \/ GenClean
  BY <1>1, <1>2, <1>4 DEF HandshakeFails, Expire, StopNow, Stopped, GenClean, Terminate, Unkillable
<1>5. CASE HandshakeOK \/ Probed \/ Request \/ TakeEvent \/ NoticeCancel \/ CancelInvalid \/ Acknowledged \/ LastEvent
           \/ CancelTimeout \/ StopAsk \/ Abandon \/ GenRead \/ Finalize \/ UNCHANGED vars
  BY <1>1, <1>5 DEF HandshakeOK, Probed, Request, TakeEvent, NoticeCancel, CancelInvalid, Acknowledged, LastEvent,
     CancelTimeout, StopAsk, Abandon, GenRead, Finalize, vars, client
<1>6. CASE Worker \/ WorkerBreaks
  <2>1. worker.at # "exited" /\ UNCHANGED held
    BY <1>6 DEF Worker, WorkerReads, WorkerProgresses, WorkerEnds, WorkerBreaks, Alive, ClientRest, client
  <2> QED
    BY <2>1 DEF Alive
<1> QED
  BY <1>3, <1>4, <1>5, <1>6 DEF Next, Caller, Generator

-----------------------------------------------------------------------------
(* The result                                                               *)

\* What the worker has sent stays sent.
LEMMA DoneGrows == [Next]_vars => done \subseteq done'
BY DEF Next, vars, Call, Begin, Close, Cancel, Caller, HandshakeOK, HandshakeFails, Probed, Request, TakeEvent,
   NoticeCancel, CancelInvalid, Acknowledged, LastEvent, CancelTimeout, Expire, StopAsk, StopNow, Stopped, Abandon, Generator,
   GenRead, GenClean, Finalize, Worker, WorkerReads, WorkerProgresses, WorkerEnds, WorkerBreaks

\* What a call is handed stays its own: GenRead compares the request, and every
\* other step leaves the call's events alone or the call itself.
LEMMA HandedStep == Inv /\ [Next]_vars => Quiet' /\ Attached' /\ Handed' /\ NoResultAtStop'
<1> SUFFICES ASSUME Inv, [Next]_vars PROVE Quiet' /\ Attached' /\ Handed' /\ NoResultAtStop'
  OBVIOUS
<1> USE DEF Quiet, Attached, Handed, NoResultAtStop
<1>0. CallerOK /\ PipesOK /\ Answered(toClient, done) /\ done \subseteq done' /\ Quiet /\ Attached /\ Handed /\ NoResultAtStop
  BY DoneGrows DEF Inv, TypeOK
<1>1. CASE UNCHANGED <<main, gen, ev, active>>
  BY <1>0, <1>1
<1>2. CASE main' = Resting
  BY <1>2, Rests
<1>3. ASSUME NEW result \in Outcomes \ {"result"}, StopWith(result) PROVE Quiet' /\ Attached' /\ Handed' /\ NoResultAtStop'
  BY <1>0, <1>3, Stops
<1>4. ASSUME NEW step \in Places \ {"handshake", "doctor", "request", "events"}, MainGoes(step), gen' = gen, ev' = ev
      PROVE  Quiet' /\ Attached' /\ Handed' /\ NoResultAtStop'
  BY <1>0, <1>4, Goes
<1>5. ASSUME NEW op \in {"transcribe", "probe"}, Begin(op) PROVE Quiet' /\ Attached' /\ Handed' /\ NoResultAtStop'
  <2>1. CASE UNCHANGED main
    BY <1>0, <1>5, <2>1 DEF Begin
  <2>2. CASE \E step \in {"request", "handshake"}, r \in Requests : main' = Calling(step, op, r)
    <3>1. main'.at \in {"request", "handshake"} /\ main'.then = "none"
      BY <2>2, CallIsOne DEF Places, Requests
    <3> QED
      BY <1>5, <3>1 DEF Begin
  <2> QED
    BY <1>5, <2>1, <2>2 DEF Begin, NextRequest
<1>6. CASE Close
  BY <1>6, Closes
<1>7. CASE HandshakeOK
  BY <1>0, <1>7, Goes DEF HandshakeOK, Places
<1>8. CASE Request
  <2>1. CASE StopWith("failed")
    BY <1>3, <2>1 DEF Outcomes
  <2>2. CASE MainGoes("events") /\ active' = main.req /\ ev' = "none"
    BY <1>0, <2>2, Goes DEF Places
  <2> QED
    BY <1>0, <1>8, <2>1, <2>2 DEF Request
<1>9. CASE TakeEvent
  <2>1. CASE main' = main
    BY <1>0, <1>9, <2>1 DEF TakeEvent, client, Return, StopWith
  <2>2. CASE Return("result", started)
    BY <1>2, <2>2 DEF Return
  <2> QED
    BY <1>3, <1>9, <2>1, <2>2 DEF TakeEvent, Outcomes
<1>10. CASE NoticeCancel
  BY <1>3, <1>4, <1>10 DEF NoticeCancel, Outcomes, Places
<1>11. CASE CancelInvalid \/ Acknowledged \/ LastEvent \/ CancelTimeout \/ StopAsk
  BY <1>3, <1>4, <1>11 DEF CancelInvalid, Acknowledged, LastEvent, CancelTimeout, StopAsk, Outcomes, Places
<1>12. CASE HandshakeFails \/ StopNow \/ Stopped \/ Abandon
  BY <1>2, <1>12 DEF HandshakeFails, StopNow, Stopped, Abandon, Terminate, Return
<1>13. CASE Probed \/ Expire
  BY <1>3, <1>13 DEF Probed, Expire, Outcomes
<1>14. CASE GenRead
  <2>1. Head(toClient).type = "result" => Head(toClient).req \in done
    BY <1>0, <1>14, TakeKeeps DEF GenRead, PipesOK
  <2>2. /\ ev' = ev \/ (ev' = Head(toClient).type /\ Head(toClient).req = active)
        /\ gen = "reading" /\ UNCHANGED <<main, active>>
    BY <1>14 DEF GenRead
  <2> QED
    BY <1>0, <2>1, <2>2
<1>15. CASE GenClean \/ Finalize
  BY <1>0, <1>15 DEF GenClean, Finalize
<1>16. CASE Cancel \/ Worker \/ WorkerBreaks \/ UNCHANGED vars
  BY <1>1, <1>16 DEF Cancel, Worker, WorkerReads, WorkerProgresses, WorkerEnds, WorkerBreaks, ClientRest, vars, client
<1> QED
  BY <1>5, <1>6, <1>7, <1>8, <1>9, <1>10, <1>11, <1>12, <1>13, <1>14, <1>15, <1>16 DEF Next, Call, Caller, Generator

\* Only TakeEvent returns a result, and it returns the one it was handed.
LEMMA OutcomeStep == Inv /\ [Next]_vars => OwnResult'
<1> SUFFICES ASSUME Inv, [Next]_vars, NEW r \in Requests, outcome'[r] = "result", r \notin done' PROVE FALSE
  BY DEF OwnResult
<1>0. CallerOK /\ OwnResult /\ Handed /\ NoResultAtStop /\ done \subseteq done'
  BY DoneGrows DEF Inv, TypeOK
<1>1. outcome[r] # "result"
  BY <1>0 DEF OwnResult
<1>2. ASSUME NEW result, outcome' = IF main.req = 0 THEN outcome ELSE [outcome EXCEPT ![main.req] = result]
      PROVE  result = "result" /\ r = main.req /\ main.req # 0
  BY <1>0, <1>1, <1>2 DEF CallerOK, Requests
<1>3. CASE UNCHANGED outcome
  BY <1>1, <1>3
<1>4. CASE Call
  BY <1>0, <1>1, <1>4 DEF Call, Begin, Close, CallerOK, NextRequest
<1>5. CASE TakeEvent
  <2>1. (\E session \in BOOLEAN : Return("result", session)) /\ ev = "result" /\ main.at = "events"
    BY <1>0, <1>3, <1>5 DEF TakeEvent, CallerOK
  <2>2. r = main.req
    BY <1>2, <2>1 DEF Return
  <2> QED
    BY <1>0, <2>1, <2>2 DEF Handed
<1>6. CASE HandshakeFails \/ Abandon
  BY <1>2, <1>6 DEF HandshakeFails, Abandon, Return
<1>7. CASE StopNow \/ Stopped
  <2>1. \E result \in {main.then, "failed"} :
            outcome' = IF main.req = 0 THEN outcome ELSE [outcome EXCEPT ![main.req] = result]
    BY <1>7 DEF StopNow, Stopped, Terminate, Return
  <2> QED
    BY <1>0, <1>2, <2>1 DEF NoResultAtStop
<1>8. CASE HandshakeOK \/ Probed \/ Request \/ NoticeCancel \/ CancelInvalid \/ Acknowledged \/ LastEvent \/ CancelTimeout \/ Expire
           \/ StopAsk \/ Cancel \/ Generator \/ Worker \/ WorkerBreaks \/ UNCHANGED vars
  BY <1>3, <1>8 DEF HandshakeOK, Probed, Request, NoticeCancel, CancelInvalid, Acknowledged, LastEvent, CancelTimeout, Expire, StopAsk,
     Cancel, Generator, GenRead, GenClean, Finalize, Worker, WorkerReads, WorkerProgresses, WorkerEnds, WorkerBreaks,
     ClientRest, vars
<1> QED
  BY <1>4, <1>5, <1>6, <1>7, <1>8 DEF Next, Caller

-----------------------------------------------------------------------------
\* Every step keeps the invariant.
LEMMA InvStep == Inv /\ [Next]_vars => Inv'
BY CallerStep, ClientStep, PipesStep, WorkerStep, LockStep, HandedStep, OutcomeStep DEF Inv, TypeOK

\* So it always holds.
LEMMA SpecInv == Spec => []Inv
BY InitInv, InvStep, PTL DEF Spec

\* The session keeps its types.
THEOREM Typed == Spec => []TypeOK
BY SpecInv, PTL DEF Inv

\* No process runs without the lock of its Runtime, whatever its messages, its
\* silence, the timeouts, the cancellations and the failed terminations.
THEOREM LockIsKept == Spec => []LockedWhileAlive
BY SpecInv, PTL DEF Inv

\* No call returns as its result what was sent for another, however late.
THEOREM ResultIsOwn == Spec => []OwnResult
BY SpecInv, PTL DEF Inv

-----------------------------------------------------------------------------
(* The store: the invariant                                                 *)

\* Where a command of operation op about Runtime i may be.
Fits(op, i, at) ==
    /\ op \in {"install", "stage"} => i \in Managed
    /\ op = "register" => i \in External
    /\ op \in {"activate", "remove", "doctor"} => i \in Runtimes
    /\ at \in Activating => i \in Runtimes
    /\ at \in {"stage", "place", "enrol"} => op \in {"install", "stage"}
    /\ at \in {"vet", "keep", "drop"} => op = "register"
    /\ at \in {"activate", "promote", "complete", "restore", "mark"} =>
          op \in {"install", "activate", "rollback"}
    /\ at \in {"probe", "probing"} => op \notin {"list", "stage", "remove"}
    /\ at \in Removing => op = "remove"
    /\ at = "ready" => op # "list"
    /\ at = "rollback" => op = "rollback"

\* What holds of the files where a command under the manager lock is at: a
\* Runtime is probed, kept and promoted under its record, and completes only
\* when it is available; a removal has the use lock of a Runtime that the slot
\* does not name, until its record is gone.
At(p, i, at) ==
    /\ at \in {"probe", "probing", "keep", "promote", "complete"} => rec[i] # "none"
    /\ at = "complete" => Available(i)
    /\ at = "resolve" => ptr.pending # None
    /\ at \in {"delete", "unrecord"} => i \in Managed /\ i \notin Pointed /\ use[i] = p
    /\ at \in {"unlink", "rmdir"} => i \in Managed /\ rec[i] = "none"

InPlace == \A p \in Procs : Fits(cmd[p].op, cmd[p].id, cmd[p].at) /\ At(p, cmd[p].id, cmd[p].at)

\* The manager lock.
OneWorks == \A p \in Procs : \A q \in Procs :
                cmd[p].at \notin Waiting /\ cmd[q].at \notin Waiting => p = q

\* A record is in the directory of its Runtime.
RecordHasDir == \A i \in Managed : rec[i] # "none" => dir[i] # "none"

PointedKnown == \A i \in Pointed : rec[i] # "none"

\* A client that is not off has looked up a Runtime.
UsersLooked == \A u \in Users : user[u].at # "off" => user[u].id \in Runtimes

\* What a power loss may bring back is not there.
PastGone == \A i \in Runtimes : past[i].rec # "none" => rec[i] = "none"

FilesInv == FilesOK /\ RecordHasDir /\ PointedKnown /\ PastGone
HoldersInv == HoldersOK /\ UsersLooked /\ InUseIntact
CommandsInv == CommandsOK /\ OneWorks /\ InPlace

StoreInv == FilesInv /\ HoldersInv /\ CommandsInv

-----------------------------------------------------------------------------
(* The store: one process works at a time                                   *)

\* Every other process waits.
Alone(p) == \A q \in Procs \ {p} : cmd[q].at \in Waiting

\* So it is for the process with the manager lock and when the lock is free.
LEMMA WorkerIsAlone ==
    ASSUME StoreInv, NEW p \in Procs, cmd[p].at \notin Waiting \/ Free
    PROVE  Alone(p)
BY DEF StoreInv, CommandsInv, OneWorks, Alone, Free

\* A process that waits needs nothing of the files.
LEMMA WaitingNeedsNothing ==
    ASSUME NEW p, NEW i, NEW at \in Waiting
    PROVE  At(p, i, at)
BY DEF At, Waiting

\* The command of p becomes c, the others keep theirs.
LEMMA CommandBecomes ==
    ASSUME StoreInv, NEW p \in Procs, NEW c \in [op : Operations, id : Runtimes \union {None}, at : Steps],
           Alone(p) \/ c.at \in Waiting, cmd' = [cmd EXCEPT ![p] = c],
           Alone(p) \/ UNCHANGED <<rec, ptr, use>>,
           Fits(c.op, c.id, c.at), At(p, c.id, c.at)',
           commands' \in 0 .. MaxCommands, interruptions' = interruptions
    PROVE  CommandsInv'
<1>1. \A q \in Procs : cmd'[q] = IF q = p THEN c ELSE cmd[q]
  BY DEF StoreInv, CommandsInv, CommandsOK
<1>2. CommandsOK'
  BY DEF StoreInv, CommandsInv, CommandsOK
<1>3. OneWorks'
  BY <1>1 DEF StoreInv, CommandsInv, OneWorks, Alone
<1>4. ASSUME NEW q \in Procs PROVE (Fits(cmd[q].op, cmd[q].id, cmd[q].at) /\ At(q, cmd[q].id, cmd[q].at))'
  <2>1. CASE q = p
    <3>1. cmd'[q] = c
      BY <1>1, <2>1
    <3>2. At(p, cmd[q].id, cmd[q].at)'
      BY <3>1
    <3> QED
      BY <2>1, <3>1, <3>2
  <2>2. CASE q # p
    <3>1. cmd'[q] = cmd[q] /\ Fits(cmd[q].op, cmd[q].id, cmd[q].at) /\ At(q, cmd[q].id, cmd[q].at)
      BY <1>1, <2>2 DEF StoreInv, CommandsInv, InPlace
    <3>2. CASE Alone(p)
      <4>1. cmd[q].at \in Waiting
        BY <2>2, <3>2 DEF Alone
      <4> QED
        BY <3>1, <4>1 DEF At, Waiting
    <3>3. CASE UNCHANGED <<rec, ptr, use>>
      BY <3>1, <3>3 DEF At, Available, Pointed
    <3> QED
      BY <3>2, <3>3
  <2> QED
    BY <2>1, <2>2
<1> QED
  BY <1>2, <1>3, <1>4 DEF CommandsInv, InPlace

\* A command that is over.
LEMMA NoCommandFits ==
    /\ NoCommand \in [op : Operations, id : Runtimes \union {None}, at : Steps]
    /\ NoCommand.op = "list" /\ NoCommand.at = "idle" /\ NoCommand.id = None
    /\ Fits("list", None, "idle")
BY DEF NoCommand, Operations, Steps, Waiting, Fits, Activating, Removing

\* The process that works, or is about to, goes on to another step or ends.
LEMMA WorkGoesOn ==
    ASSUME StoreInv, NEW p \in Procs, Alone(p), NEW step \in Steps, Goto(p, step),
           NEW op, op = cmd[p].op, NEW i, i = cmd[p].id,
           step # "idle" => Fits(op, i, step), At(p, i, step)',
           UNCHANGED <<commands, interruptions>>
    PROVE  CommandsInv'
<1>1. CASE step = "idle"
  <2>1. cmd' = [cmd EXCEPT ![p] = NoCommand]
    BY <1>1 DEF Goto
  <2>2. At(p, None, "idle")'
    BY DEF At
  <2> QED
    BY <2>1, <2>2, NoCommandFits, CommandBecomes DEF StoreInv, CommandsInv, CommandsOK
<1>2. CASE step # "idle"
  <2> DEFINE c == [cmd[p] EXCEPT !.at = step]
  <2>1. cmd[p] \in [op : Operations, id : Runtimes \union {None}, at : Steps]
    BY DEF StoreInv, CommandsInv, CommandsOK
  <2>2. /\ c \in [op : Operations, id : Runtimes \union {None}, at : Steps]
        /\ c.op = op /\ c.id = i /\ c.at = step
    BY <2>1
  <2>3. cmd' = [cmd EXCEPT ![p] = c]
    BY <1>2 DEF Goto
  <2>4. PICK d \in [op : Operations, id : Runtimes \union {None}, at : Steps] : d = c
    BY <2>2
  <2>5. Fits(d.op, d.id, d.at) /\ At(p, d.id, d.at)'
    BY <1>2, <2>2, <2>4
  <2>6. cmd' = [cmd EXCEPT ![p] = d]
    BY <2>3, <2>4
  <2> QED
    BY <2>5, <2>6, CommandBecomes DEF StoreInv, CommandsInv, CommandsOK
<1> QED
  BY <1>1, <1>2

-----------------------------------------------------------------------------
(* The store: the files and the slot                                        *)

\* A step of the slot, or none.
SlotStep == [Slot!Next]_(Slot!vars)

\* The slot depends on the records and the pointer only, and on the removals
\* that a power loss may undo; any of these may become final.
LEMMA SlotStays ==
    ASSUME StoreInv, UNCHANGED <<rec, ptr>>,
           \A i \in Runtimes : past'[i].rec \in {past[i].rec, "none"}
    PROVE  SlotStep
<1>1. Slot!Settled
  BY DEF Slot!Settled, Undone
<1>2. Slot!Settle
  BY <1>1 DEF Slot!Settle, Available
<1> QED
  BY <1>2 DEF SlotStep, Slot!Next

\* While the files stay, so do the facts about them.
LEMMA FilesStay ==
    ASSUME StoreInv, UNCHANGED Disk
    PROVE  FilesInv' /\ SlotStep
<1>1. SlotStep
  BY SlotStays DEF Disk
<1> QED
  BY <1>1 DEF StoreInv, FilesInv, FilesOK, RecordHasDir, PointedKnown, PastGone, Pointed, Disk

\* While the payloads and the holders stay, so do the facts about them.
LEMMA HoldersStay ==
    ASSUME StoreInv, UNCHANGED <<dir, use, user>>
    PROVE  HoldersInv'
BY DEF StoreInv, HoldersInv, HoldersOK, UsersLooked, InUseIntact, PayloadThere

\* A record is written, or unlinked; where there is none, nothing is written.
RecordTurns(i, state) ==
    \/ WriteRec(i, state) /\ (state = "none" => rec[i] = "none")
    \/ state = "none" /\ UnlinkRec(i)

\* A record is written or removed: nothing that the slot names is removed, and
\* a Runtime becomes available only if it was known before.
LEMMA RecordBecomes ==
    ASSUME StoreInv, NEW i \in Runtimes, NEW state \in StatesOf(i),
           RecordTurns(i, state),
           UNCHANGED <<ptr, litter>>, dir' \in [Managed -> Dirs],
           \A k \in Managed : rec'[k] # "none" => dir'[k] # "none",
           state = "none" => i \notin Pointed \/ rec[i] = "none",
           state \in {"available", "verified"} => rec[i] # "none"
    PROVE  FilesInv' /\ SlotStep /\ \A k \in Runtimes : rec'[k] = IF k = i THEN state ELSE rec[k]
<1>0. SetRec(i, state)
  BY DEF RecordTurns, WriteRec, UnlinkRec
<1>1. \A k \in Runtimes : rec'[k] = IF k = i THEN state ELSE rec[k]
  BY <1>0 DEF StoreInv, FilesInv, FilesOK, SetRec
<1>2. rec' \in [Runtimes -> States]
  BY <1>0 DEF StoreInv, FilesInv, FilesOK, SetRec, States, StatesOf
<1>3. /\ past' \in [Runtimes -> [rec : States, dir : Dirs]]
      /\ \A k \in Runtimes : past'[k] \in [rec : StatesOf(k), dir : Dirs]
      /\ \A k \in Runtimes \ {i} : past'[k].rec \in {past[k].rec, "none"}
      /\ past'[i].rec = "none" \/ (state = "none" /\ past'[i].rec = rec[i])
  <2>1. /\ past \in [Runtimes -> [rec : States, dir : Dirs]]
        /\ \A k \in Runtimes : past[k] \in [rec : StatesOf(k), dir : Dirs] /\ rec[k] \in StatesOf(k)
        /\ rec[i] \in States
    BY DEF StoreInv, FilesInv, FilesOK
  <2>2. Nothing.rec = "none" /\ \A k \in Runtimes : Nothing \in [rec : StatesOf(k), dir : Dirs]
        /\ Nothing \in [rec : States, dir : Dirs]
    BY DEF Nothing, StatesOf, Dirs, States
  <2>3. CASE WriteRec(i, state)
    BY <2>1, <2>2, <2>3 DEF WriteRec
  <2>4. CASE state = "none" /\ UnlinkRec(i)
    BY <2>1, <2>4 DEF UnlinkRec
  <2> QED
    BY <2>3, <2>4 DEF RecordTurns
<1>4. FilesOK'
  BY <1>1, <1>2, <1>3 DEF StoreInv, FilesInv, FilesOK, StatesOf
<1>5. Pointed' = Pointed /\ Pointed \subseteq Runtimes
  BY DEF Pointed, StoreInv, FilesInv, FilesOK
<1>6. RecordHasDir' /\ PointedKnown' /\ PastGone'
  BY <1>1, <1>3, <1>5 DEF StoreInv, FilesInv, RecordHasDir, PointedKnown, PastGone
<1> DEFINE known == {k \in Runtimes : rec[k] # "none"}
           ready == {k \in Runtimes : Available(k)}
<1>7. SlotStep
  <2>1. UNCHANGED <<ptr.current, ptr.previous>>
    OBVIOUS
  <2>2. /\ \A k \in Runtimes \ {i} : Undone(k)' \in {Undone(k), "no"}
        /\ Undone(i)' = "no" \/ (state = "none" /\ rec[i] # "none"
                                 /\ Undone(i)' = IF Available(i) THEN "ready" ELSE "known")
    BY <1>3 DEF Undone, Available
  <2>3. ASSUME ~(state = "none" /\ rec[i] # "none") PROVE Slot!Settled /\ Undone(i)' = "no"
    BY <2>2, <2>3 DEF Slot!Settled
  <2>4. CASE state = rec[i]
    <3>1. rec' = rec
      BY <1>1, <1>2, <2>4 DEF StoreInv, FilesInv, FilesOK
    <3>2. Slot!Settle
      BY <2>1, <2>3, <2>4, <3>1 DEF Slot!Settle, Available
    <3> QED
      BY <3>2 DEF SlotStep, Slot!Next
  <2>5. CASE state = "none" /\ rec[i] # "none"
    <3>1. i \notin {ptr.current, ptr.previous}
      BY <2>5, RuntimesAssumption DEF Pointed
    <3>2. i \in known /\ known' = known \ {i} /\ ready' = ready \ {i}
      BY <1>1, <2>5 DEF Available
    <3>3. CASE UnlinkRec(i)
      <4>1. /\ \A k \in Runtimes \ {i} : Undone(k)' = Undone(k)
            /\ Undone(i)' = IF i \in ready THEN "ready" ELSE "known"
        BY <2>5, <3>3 DEF UnlinkRec, Undone, Available, StoreInv, FilesInv, FilesOK
      <4>2. Slot!Forget(i)
        BY <2>1, <3>1, <3>2, <4>1 DEF Slot!Forget
      <4> QED
        BY <4>2 DEF SlotStep, Slot!Next
    <3> QED
      BY <2>5, <3>3 DEF RecordTurns
  <2>6. CASE state \in {"available", "verified"}
    <3>1. i \in known /\ known' = known /\ ready' = ready \union {i}
      BY <1>1, <2>6 DEF Available
    <3>2. Slot!Qualify(i)
      BY <2>1, <2>3, <2>6, <3>1 DEF Slot!Qualify
    <3> QED
      BY <3>2 DEF SlotStep, Slot!Next
  <2>7. CASE state \notin {"none", "available", "verified"} /\ rec[i] = "none"
    <3>1. known' = known \union {i} /\ ready' = ready
      BY <1>1, <2>7 DEF Available
    <3>2. Slot!Learn(i)
      BY <2>1, <2>3, <2>7, <3>1 DEF Slot!Learn
    <3> QED
      BY <3>2 DEF SlotStep, Slot!Next
  <2>8. CASE state \notin {"none", "available", "verified"} /\ rec[i] # "none"
    <3>1. known' = known /\ ready' = ready \ {i}
      BY <1>1, <2>8 DEF Available
    <3>2. Slot!Spoil(i)
      BY <2>1, <2>3, <2>8, <3>1 DEF Slot!Spoil
    <3> QED
      BY <3>2 DEF SlotStep, Slot!Next
  <2> QED
    BY <2>4, <2>5, <2>6, <2>7, <2>8
<1> QED
  BY <1>1, <1>4, <1>6, <1>7 DEF FilesInv

\* What the command of p is, with names of its own for its parts.
LEMMA CommandParts ==
    ASSUME StoreInv, NEW p \in Procs
    PROVE  /\ cmd[p].op \in Operations /\ cmd[p].id \in Runtimes \union {None} /\ cmd[p].at \in Steps
           /\ Fits(cmd[p].op, cmd[p].id, cmd[p].at) /\ At(p, cmd[p].id, cmd[p].at)
BY DEF StoreInv, CommandsInv, CommandsOK, InPlace

\* A step of a command that changes no file and no lock.
LEMMA QuietStep ==
    ASSUME StoreInv, NEW p \in Procs, Alone(p), NEW step \in Steps, Goto(p, step),
           UNCHANGED <<Disk, use, Rest>>,
           step # "idle" => Fits(cmd[p].op, cmd[p].id, step), At(p, cmd[p].id, step)
    PROVE  StoreInv' /\ SlotStep
<1>1. FilesInv' /\ SlotStep
  BY FilesStay
<1>2. HoldersInv'
  BY HoldersStay DEF Disk, Rest
<1>3. PICK op, i : op = cmd[p].op /\ i = cmd[p].id
  OBVIOUS
<1>4. At(p, i, step)'
  BY <1>3 DEF At, Disk, Available, Pointed
<1>5. CommandsInv'
  BY <1>3, <1>4, WorkGoesOn DEF Rest
<1> QED
  BY <1>1, <1>2, <1>5 DEF StoreInv

-----------------------------------------------------------------------------
(* The store: the steps of a command                                        *)

\* A command waits for the manager lock, gets it or gives up.
LEMMA WaitingSteps ==
    ASSUME StoreInv, NEW p \in Procs, Busy(p) \/ Enter(p) \/ BeginWork(p)
    PROVE  StoreInv' /\ SlotStep
<1>1. CASE Busy(p)
  <2>1. cmd' = [cmd EXCEPT ![p] = NoCommand]
    BY <1>1 DEF Busy, Goto
  <2>2. UNCHANGED <<Disk, use, Rest>>
    BY <1>1 DEF Busy
  <2>3. At(p, None, "idle")'
    BY DEF At
  <2>4. CommandsInv'
    BY <2>1, <2>2, <2>3, NoCommandFits, CommandBecomes
       DEF StoreInv, CommandsInv, CommandsOK, Disk, Rest, Waiting
  <2> QED
    BY <2>2, <2>4, FilesStay, HoldersStay DEF StoreInv, Disk, Rest
<1>2. CASE Enter(p)
  <2>1. Alone(p) /\ Fits(cmd[p].op, cmd[p].id, "rebuild") /\ At(p, cmd[p].id, "rebuild")
    BY <1>2, WorkerIsAlone, CommandParts DEF Enter, Fits, At, Activating, Removing
  <2>2. "rebuild" \in Steps
    BY DEF Steps, Recovering
  <2> QED
    BY <1>2, <2>1, <2>2, QuietStep DEF Enter
<1>3. CASE BeginWork(p)
  <2>1. Alone(p) /\ cmd[p].op \in Operations \ {"list"} /\ Fits(cmd[p].op, cmd[p].id, cmd[p].at)
    BY <1>3, WorkerIsAlone, CommandParts DEF BeginWork, Fits
  <2>2. CASE cmd[p].op = "doctor" /\ rec[cmd[p].id] = "none"
    <3>1. "idle" \in Steps /\ Goto(p, "idle") /\ At(p, cmd[p].id, "idle")
      BY <1>3, <2>2, WaitingNeedsNothing DEF BeginWork, Steps, Waiting
    <3> QED
      BY <1>3, <2>1, <3>1, QuietStep DEF BeginWork
  <2>3. CASE ~(cmd[p].op = "doctor" /\ rec[cmd[p].id] = "none")
    <3>1. Goto(p, FirstStep(cmd[p].op)) /\ UNCHANGED <<Disk, use, Rest>>
      BY <1>3, <2>3 DEF BeginWork
    <3>2. FirstStep(cmd[p].op) \in Steps
      BY <2>1 DEF FirstStep, Operations, Steps, Waiting, Recovering, Activating, Removing
    <3>3. Fits(cmd[p].op, cmd[p].id, FirstStep(cmd[p].op)) /\ At(p, cmd[p].id, FirstStep(cmd[p].op))
      BY <2>1, <2>3 DEF FirstStep, Operations, Fits, At, Activating, Removing, Runtimes
    <3> QED
      BY <2>1, <3>1, <3>2, <3>3, QuietStep
  <2> QED
    BY <2>2, <2>3
<1> QED
  BY <1>1, <1>2, <1>3

\* Command: the operation and what it is about.
LEMMA CommandStep ==
    ASSUME StoreInv, NEW p \in Procs, NEW op \in Operations, NEW i \in Runtimes \union {None}, Command(p, op, i)
    PROVE  StoreInv' /\ SlotStep
<1> DEFINE c == [op |-> op, id |-> i, at |-> "start"]
<1>1. c \in [op : Operations, id : Runtimes \union {None}, at : Steps] /\ c.at \in Waiting
  BY DEF Steps, Waiting
<1>2. cmd' = [cmd EXCEPT ![p] = c] /\ UNCHANGED <<Disk, use, user, interruptions>>
  BY DEF Command
<1>3. commands' \in 0 .. MaxCommands
  BY RuntimesAssumption DEF Command, StoreInv, CommandsInv, CommandsOK
<1>4. Fits(op, i, "start") /\ At(p, i, "start")'
  BY DEF Command, Fits, At, Activating, Removing, Runtimes
<1>5. CommandsInv'
  BY <1>1, <1>2, <1>3, <1>4, CommandBecomes DEF Disk
<1> QED
  BY <1>2, <1>5, FilesStay, HoldersStay DEF StoreInv, Disk

\* The other steps that change no file.
LEMMA QuietSteps ==
    ASSUME StoreInv, NEW p \in Procs, RebuildDone(p) \/ Stage(p) \/ Enrol(p)
    PROVE  StoreInv' /\ SlotStep
<1>1. Alone(p) /\ Fits(cmd[p].op, cmd[p].id, cmd[p].at) /\ cmd[p].id \in Runtimes \union {None}
  BY WorkerIsAlone, CommandParts DEF RebuildDone, Stage, Enrol, Waiting
<1>2. {"idle", "clean", "resolve", "place", "activate"} \subseteq Steps
  BY DEF Steps, Waiting, Recovering, Activating
<1>3. CASE RebuildDone(p)
  <2>1. PICK step \in {"clean", "resolve"} : Goto(p, step) /\ (step = "resolve" => ptr.pending # None)
    BY <1>3 DEF RebuildDone
  <2>2. Fits(cmd[p].op, cmd[p].id, step) /\ At(p, cmd[p].id, step)
    BY <1>1, <2>1 DEF Fits, At, Activating, Removing
  <2> QED
    BY <1>1, <1>2, <1>3, <2>1, <2>2, QuietStep DEF RebuildDone
<1>4. CASE Stage(p)
  <2>1. PICK step \in {"place", "idle"} : Goto(p, step)
    BY <1>4 DEF Stage
  <2>2. Fits(cmd[p].op, cmd[p].id, step) /\ At(p, cmd[p].id, step)
    BY <1>1, <1>4, <2>1 DEF Stage, Fits, At, Activating, Removing
  <2> QED
    BY <1>1, <1>2, <1>4, <2>1, <2>2, QuietStep DEF Stage
<1>5. CASE Enrol(p)
  <2>1. PICK step \in {"activate", "idle"} : Goto(p, step) /\ (step = "activate" => cmd[p].op = "install")
    BY <1>5 DEF Enrol
  <2>2. Fits(cmd[p].op, cmd[p].id, step) /\ At(p, cmd[p].id, step)
    BY <1>1, <1>5, <2>1 DEF Enrol, Fits, At, Activating, Removing, Runtimes
  <2> QED
    BY <1>1, <1>2, <1>5, <2>1, <2>2, QuietStep DEF Enrol
<1> QED
  BY <1>3, <1>4, <1>5

\* rollback turns into the activation of the previous Runtime.
LEMMA RollbackStep ==
    ASSUME StoreInv, NEW p \in Procs, Rollback(p)
    PROVE  StoreInv' /\ SlotStep
<1>1. Alone(p)
  BY WorkerIsAlone DEF Rollback, Waiting
<1>2. UNCHANGED <<Disk, use, Rest>>
  BY DEF Rollback
<1>3. CASE ptr.previous = None
  <2>1. Goto(p, "idle") /\ "idle" \in Steps /\ At(p, cmd[p].id, "idle")
    BY <1>3, WaitingNeedsNothing DEF Rollback, Goto, Steps, Waiting
  <2> QED
    BY <1>1, <1>2, <2>1, QuietStep
<1>4. CASE ptr.previous # None
  <2>1. PICK i \in Runtimes : i = ptr.previous
    BY <1>4 DEF StoreInv, FilesInv, FilesOK
  <2>2. PICK c \in [op : Operations, id : Runtimes \union {None}, at : Steps] :
            c = [cmd[p] EXCEPT !.id = ptr.previous, !.at = "activate"]
    BY <2>1 DEF StoreInv, CommandsInv, CommandsOK, Steps, Activating
  <2>3. cmd[p].op = "rollback" /\ cmd[p] \in [op : Operations, id : Runtimes \union {None}, at : Steps]
    BY CommandParts DEF Rollback, Fits, StoreInv, CommandsInv, CommandsOK
  <2>6. c.op = "rollback" /\ c.id = i /\ c.at = "activate" /\ cmd' = [cmd EXCEPT ![p] = c]
    BY <1>4, <2>1, <2>2, <2>3 DEF Rollback
  <2>4. Fits(c.op, c.id, c.at) /\ At(p, c.id, c.at)'
    BY <2>6 DEF Fits, At, Removing
  <2>5. CommandsInv'
    BY <1>1, <1>2, <2>4, <2>6, CommandBecomes DEF StoreInv, CommandsInv, CommandsOK, Rest
  <2> QED
    BY <1>2, <2>5, FilesStay, HoldersStay DEF StoreInv, Disk, Rest
<1> QED
  BY <1>3, <1>4

\* The process that works stays where it is.
LEMMA WorkStays ==
    ASSUME StoreInv, NEW p \in Procs, Alone(p), UNCHANGED <<cmd, commands, interruptions>>,
           NEW i, i = cmd[p].id, NEW at, at = cmd[p].at, At(p, i, at)'
    PROVE  CommandsInv'
<1>1. cmd[p] \in [op : Operations, id : Runtimes \union {None}, at : Steps]
      /\ Fits(cmd[p].op, cmd[p].id, cmd[p].at)
  BY DEF StoreInv, CommandsInv, CommandsOK, InPlace
<1>2. PICK c \in [op : Operations, id : Runtimes \union {None}, at : Steps] : c = cmd[p]
  BY <1>1
<1>3. cmd' = [cmd EXCEPT ![p] = c]
  BY <1>2 DEF StoreInv, CommandsInv, CommandsOK
<1>4. Fits(c.op, c.id, c.at) /\ c.id = i /\ c.at = at
  BY <1>1, <1>2
<1>5. At(p, c.id, c.at)'
  BY <1>4
<1> QED
  BY <1>3, <1>4, <1>5, CommandBecomes DEF StoreInv, CommandsInv, CommandsOK

\* A worker client that loses no lock, or loses it, and no payload with it.
LEMMA HoldersKeep ==
    ASSUME StoreInv, user' = user, use' \in [Runtimes -> Procs \union Users \union {None}],
           \A i \in Runtimes : \A u \in Users : use'[i] = u => use[i] = u,
           \A i \in Managed : \A u \in Users :
               use'[i] = u /\ dir[i] \in {"whole", "littered"} => dir'[i] \in {"whole", "littered"}
    PROVE  HoldersInv'
<1>1. HoldersOK' /\ UsersLooked'
  BY DEF StoreInv, HoldersInv, HoldersOK, UsersLooked
<1>2. InUseIntact'
  <2> SUFFICES ASSUME NEW u \in Users, user[u].at = "running", use'[user[u].id] = u
               PROVE  PayloadThere(user[u].id)'
    BY DEF InUseIntact
  <2>1. user[u].id \in Runtimes
    BY DEF StoreInv, HoldersInv, UsersLooked
  <2>2. PayloadThere(user[u].id)
    BY <2>1 DEF StoreInv, HoldersInv, InUseIntact
  <2> QED
    BY <2>1, <2>2 DEF PayloadThere
<1> QED
  BY <1>1, <1>2 DEF HoldersInv

\* A process takes a free lock, or lets go of one.
LEMMA LockBecomes ==
    ASSUME StoreInv, NEW p \in Procs, NEW i, SetUse(i, p) \/ SetUse(i, None)
    PROVE  /\ use' \in [Runtimes -> Procs \union Users \union {None}]
           /\ \A k \in Runtimes : \A u \in Users : use'[k] = u => use[k] = u
           /\ SetUse(i, None) => \A u \in Users : i \in Runtimes => use'[i] # u
           /\ SetUse(i, p) /\ i \in Runtimes => use'[i] = p
BY RuntimesAssumption DEF SetUse, StoreInv, HoldersInv, HoldersOK

\* The slot becomes pending for a registered Runtime, or for none.
LEMMA PendingBecomes ==
    ASSUME StoreInv, NEW i \in Runtimes \union {None}, i # None => rec[i] # "none",
           ptr' = [ptr EXCEPT !.pending = i], UNCHANGED <<rec, dir, litter, past>>
    PROVE  FilesInv' /\ SlotStep
<1>1. /\ ptr' \in [current : Runtimes \union {None}, previous : Runtimes \union {None},
                   pending : Runtimes \union {None}]
      /\ ptr'.current = ptr.current /\ ptr'.previous = ptr.previous /\ ptr'.pending = i
  BY DEF StoreInv, FilesInv, FilesOK
<1>2. PointedKnown'
  BY <1>1 DEF StoreInv, FilesInv, PointedKnown, Pointed
<1>3. SlotStep
  BY <1>1 DEF SlotStep, Slot!vars, Available, Undone
<1> QED
  BY <1>1, <1>2, <1>3 DEF StoreInv, FilesInv, FilesOK, RecordHasDir, PastGone

\* The steps of a command that write only the record of Runtime i.
LEMMA RecordStep ==
    ASSUME StoreInv, NEW p \in Procs, Alone(p), NEW i \in Runtimes, i = cmd[p].id,
           NEW state \in StatesOf(i), RecordTurns(i, state), NEW step \in Steps, Goto(p, step),
           UNCHANGED <<dir, ptr, litter, use, Rest>>,
           i \in Managed /\ state # "none" => dir[i] # "none",
           state = "none" => i \notin Pointed \/ rec[i] = "none",
           state \in {"available", "verified"} => rec[i] # "none",
           step # "idle" => Fits(cmd[p].op, i, step),
           step \in {"probe", "complete", "idle", "settle"},
           step = "probe" => state # "none",
           step = "complete" => state \in {"available", "verified"}
    PROVE  StoreInv' /\ SlotStep
<1>1. \A k \in Managed : rec'[k] # "none" => dir'[k] # "none"
  BY DEF StoreInv, FilesInv, FilesOK, RecordHasDir, RecordTurns, WriteRec, UnlinkRec, SetRec, Runtimes
<1>2. FilesInv' /\ SlotStep /\ rec'[i] = state
  BY <1>1, RecordBecomes DEF StoreInv, FilesInv, FilesOK
<1>3. HoldersInv'
  BY HoldersStay DEF Rest
<1>4. At(p, i, step)'
  BY <1>2 DEF At, Available
<1>5. CommandsInv'
  BY <1>4, WorkGoesOn, CommandParts DEF Rest
<1> QED
  BY <1>2, <1>3, <1>5 DEF StoreInv

-----------------------------------------------------------------------------
(* The store: recovery                                                      *)

\* Recovery only touches directories without a record: nothing in the slot, and
\* no payload whose lock it leaves held.
LEMMA RebuildStep ==
    ASSUME StoreInv, NEW p \in Procs, Rebuild(p)
    PROVE  StoreInv' /\ SlotStep
<1>1. Alone(p) /\ cmd[p].at = "rebuild"
  BY WorkerIsAlone DEF Rebuild, Waiting
<1>2. PICK i \in Managed :
          /\ Unregistered(i)
          /\ \/ dir[i] = "whole" /\ WriteRec(i, "installed") /\ UNCHANGED <<dir, use>>
             \/ /\ dir[i] # "whole" /\ dir' = [dir EXCEPT ![i] = "none"] /\ SetUse(i, None) /\ UNCHANGED rec
                /\ past' = [past EXCEPT ![i] = Nothing]
  BY DEF Rebuild
<1>3. UNCHANGED <<ptr, litter, cmd, Rest>> /\ i \in Runtimes /\ rec[i] = "none"
  BY <1>2 DEF Rebuild, Runtimes, Unregistered
<1>4. PICK c : c = cmd[p].id
  OBVIOUS
<1>5. CommandsInv'
  <2>1. At(p, c, "rebuild")'
    BY DEF At
  <2> QED
    BY <1>1, <1>3, <1>4, <2>1, WorkStays DEF Rest
<1>6. CASE dir[i] = "whole" /\ WriteRec(i, "installed") /\ UNCHANGED <<dir, use>>
  <2>1. "installed" \in StatesOf(i) /\ dir' \in [Managed -> Dirs] /\ RecordTurns(i, "installed")
    BY <1>2, <1>6 DEF RecordTurns, StatesOf, StoreInv, FilesInv, FilesOK
  <2>2. \A k \in Managed : rec'[k] # "none" => dir'[k] # "none"
    BY <1>6 DEF StoreInv, FilesInv, FilesOK, RecordHasDir, WriteRec, SetRec, Runtimes
  <2>3. FilesInv' /\ SlotStep
    BY <1>3, <1>6, <2>1, <2>2, RecordBecomes
  <2>4. HoldersInv'
    BY <1>3, <1>6, HoldersStay DEF Rest
  <2> QED
    BY <1>5, <2>3, <2>4 DEF StoreInv
<1>7. CASE /\ dir[i] # "whole" /\ dir' = [dir EXCEPT ![i] = "none"] /\ SetUse(i, None) /\ UNCHANGED rec
           /\ past' = [past EXCEPT ![i] = Nothing]
  <2>0. /\ past' \in [Runtimes -> [rec : States, dir : Dirs]]
        /\ \A k \in Runtimes : past'[k] \in [rec : StatesOf(k), dir : Dirs]
        /\ \A k \in Runtimes : past'[k].rec \in {past[k].rec, "none"}
    BY <1>3, <1>7 DEF StoreInv, FilesInv, FilesOK, Nothing, StatesOf, States, Dirs
  <2>1. FilesInv'
    BY <1>2, <1>3, <1>7, <2>0 DEF StoreInv, FilesInv, FilesOK, RecordHasDir, PointedKnown, PastGone, Pointed, Dirs
  <2>2. SlotStep
    BY <1>3, <1>7, <2>0, SlotStays
  <2>3. HoldersInv'
    <3>1. /\ use' \in [Runtimes -> Procs \union Users \union {None}]
          /\ \A k \in Runtimes : \A u \in Users : use'[k] = u => use[k] = u
          /\ \A u \in Users : use'[i] # u
      BY <1>3, <1>7, LockBecomes
    <3>2. \A k \in Managed : k # i => dir'[k] = dir[k]
      BY <1>7 DEF StoreInv, FilesInv, FilesOK
    <3> QED
      BY <1>3, <3>1, <3>2, HoldersKeep DEF Rest
  <2> QED
    BY <1>5, <2>1, <2>2, <2>3 DEF StoreInv
<1> QED
  BY <1>2, <1>6, <1>7

\* The candidate that was pending loses its verdict.
LEMMA ResolveStep ==
    ASSUME StoreInv, NEW p \in Procs, Resolve(p)
    PROVE  StoreInv' /\ SlotStep
<1>1. Alone(p) /\ cmd[p].at = "resolve" /\ Fits(cmd[p].op, cmd[p].id, "resolve") /\ ptr.pending # None
  BY WorkerIsAlone, CommandParts DEF Resolve, Waiting, At
<1>2. PICK i \in Runtimes : i = ptr.pending
  BY <1>1 DEF StoreInv, FilesInv, FilesOK
<1>3. i \in Pointed /\ rec[i] # "none"
  BY <1>1, <1>2 DEF Pointed, StoreInv, FilesInv, PointedKnown
<1>4. PICK state \in {"failed", "unverified"} : state \in StatesOf(i) /\ WriteRec(i, state)
  BY <1>2, <1>3 DEF Resolve, Demoted, StatesOf
<1>5. UNCHANGED <<dir, ptr, litter, use, Rest>> /\ Goto(p, "settle")
  BY DEF Resolve
<1>6. \A k \in Managed : rec'[k] # "none" => dir'[k] # "none"
  BY <1>3, <1>4, <1>5 DEF StoreInv, FilesInv, FilesOK, RecordHasDir, WriteRec, SetRec, Runtimes
<1>7. FilesInv' /\ SlotStep
  BY <1>4, <1>5, <1>6, RecordBecomes DEF RecordTurns, StoreInv, FilesInv, FilesOK
<1>8. CommandsInv'
  <2>1. PICK op, c : op = cmd[p].op /\ c = cmd[p].id
    OBVIOUS
  <2>2. "settle" \in Steps /\ Fits(op, c, "settle") /\ At(p, c, "settle")'
    BY <1>1, <2>1 DEF Fits, At, Steps, Recovering, Activating, Removing
  <2> QED
    BY <1>1, <1>5, <2>1, <2>2, WorkGoesOn DEF Rest
<1> QED
  BY <1>5, <1>7, <1>8, HoldersStay DEF StoreInv, Rest

\* The pending pointer is cleared.
LEMMA SettleStep ==
    ASSUME StoreInv, NEW p \in Procs, Settle(p)
    PROVE  StoreInv' /\ SlotStep
<1>1. Alone(p) /\ cmd[p].at = "settle" /\ Fits(cmd[p].op, cmd[p].id, "settle")
  BY WorkerIsAlone, CommandParts DEF Settle, Waiting
<1>2. UNCHANGED <<rec, dir, litter, past, use, Rest>> /\ Goto(p, "clean")
  BY DEF Settle
<1>3. FilesInv' /\ SlotStep
  BY <1>2, PendingBecomes DEF Settle
<1>4. CommandsInv'
  <2>1. PICK op, c : op = cmd[p].op /\ c = cmd[p].id
    OBVIOUS
  <2>2. "clean" \in Steps /\ Fits(op, c, "clean") /\ At(p, c, "clean")'
    BY <1>1, <2>1 DEF Fits, At, Steps, Recovering, Activating, Removing
  <2> QED
    BY <1>1, <1>2, <2>1, <2>2, WorkGoesOn DEF Rest
<1> QED
  BY <1>2, <1>3, <1>4, HoldersStay DEF StoreInv, Rest

\* Staging is emptied.
LEMMA CleanStep ==
    ASSUME StoreInv, NEW p \in Procs, Clean(p)
    PROVE  StoreInv' /\ SlotStep
<1>1. Alone(p) /\ cmd[p].at = "clean" /\ Fits(cmd[p].op, cmd[p].id, "clean")
  BY WorkerIsAlone, CommandParts DEF Clean, Waiting
<1>2. UNCHANGED <<rec, dir, ptr, past, use, Rest>> /\ litter' = FALSE
  BY DEF Clean
<1>3. FilesInv' /\ SlotStep
  <2>1. FilesOK'
    BY <1>2 DEF StoreInv, FilesInv, FilesOK
  <2>2. RecordHasDir' /\ PointedKnown' /\ PastGone'
    BY <1>2 DEF StoreInv, FilesInv, RecordHasDir, PointedKnown, PastGone, Pointed
  <2> QED
    BY <1>2, <2>1, <2>2, SlotStays DEF FilesInv
<1>4. CommandsInv'
  <2>1. PICK op, c : op = cmd[p].op /\ c = cmd[p].id
    OBVIOUS
  <2>2. PICK step \in {"idle", "ready"} : Goto(p, step) /\ (step = "ready" => op # "list")
    BY <2>1 DEF Clean
  <2>3. step \in Steps /\ Fits(op, c, step) /\ At(p, c, step)'
    BY <1>1, <2>1, <2>2 DEF Fits, At, Steps, Waiting, Activating, Removing
  <2> QED
    BY <1>1, <1>2, <2>1, <2>2, <2>3, WorkGoesOn DEF Rest
<1> QED
  BY <1>2, <1>3, <1>4, HoldersStay DEF StoreInv, Rest

-----------------------------------------------------------------------------
(* The store: install and register_external                                 *)

\* A directory and its record come together, in one rename.
LEMMA PlaceStep ==
    ASSUME StoreInv, NEW p \in Procs, Place(p)
    PROVE  StoreInv' /\ SlotStep
<1>1. Alone(p) /\ Fits(cmd[p].op, cmd[p].id, "place")
  BY WorkerIsAlone, CommandParts DEF Place, Waiting
<1>2. PICK op, i : op = cmd[p].op /\ i = cmd[p].id
  OBVIOUS
<1>3. i \in Managed /\ i \in Runtimes /\ Fits(op, i, "place") /\ op \in {"install", "stage"}
  BY <1>1, <1>2 DEF Fits, Runtimes
<1>4. ASSUME UNCHANGED Disk, NEW step \in {"activate", "idle"}, Goto(p, step), step = "activate" => op = "install"
      PROVE  StoreInv' /\ SlotStep
  <2>1. Fits(op, i, step) /\ At(p, i, step) /\ step \in Steps
    BY <1>3, <1>4 DEF Fits, At, Steps, Waiting, Activating, Removing
  <2> QED
    BY <1>1, <1>2, <1>4, <2>1, QuietStep DEF Place
<1>5. CASE /\ rec[i] = "none" /\ dir[i] = "none"
           /\ dir' = [dir EXCEPT ![i] = "whole"]
           /\ WriteRec(i, "installed")
           /\ Goto(p, "enrol")
           /\ UNCHANGED <<ptr, litter>>
  <2>1. UNCHANGED <<use, Rest>>
    BY DEF Place
  <2>2. "installed" \in StatesOf(i) /\ dir' \in [Managed -> Dirs] /\ RecordTurns(i, "installed")
    BY <1>3, <1>5 DEF RecordTurns, StatesOf, StoreInv, FilesInv, FilesOK, Dirs
  <2>3. \A k \in Managed : rec'[k] # "none" => dir'[k] # "none"
    BY <1>5 DEF StoreInv, FilesInv, FilesOK, RecordHasDir, WriteRec, SetRec, Runtimes
  <2>4. FilesInv' /\ SlotStep
    BY <1>3, <1>5, <2>2, <2>3, RecordBecomes
  <2>5. \A k \in Managed : dir[k] \in {"whole", "littered"} => dir'[k] \in {"whole", "littered"}
    BY <1>5 DEF StoreInv, FilesInv, FilesOK
  <2>6. HoldersInv'
    BY <2>1, <2>5, HoldersKeep DEF Rest, StoreInv, HoldersInv, HoldersOK
  <2>7. "enrol" \in Steps /\ Fits(op, i, "enrol") /\ At(p, i, "enrol")'
    BY <1>3 DEF Fits, At, Steps, Waiting, Activating, Removing
  <2>8. CommandsInv'
    BY <1>1, <1>2, <1>5, <2>1, <2>7, WorkGoesOn DEF Rest
  <2> QED
    BY <2>4, <2>6, <2>8 DEF StoreInv
<1>6. CASE UNCHANGED Disk /\ \E same \in BOOLEAN :
                                 Goto(p, IF same /\ op = "install" THEN "activate" ELSE "idle")
  <2>1. PICK step \in {"activate", "idle"} : Goto(p, step) /\ (step = "activate" => op = "install")
    BY <1>6
  <2> QED
    BY <1>4, <1>6, <2>1
<1>7. CASE UNCHANGED Disk /\ Goto(p, "idle")
  BY <1>4, <1>7
<1> QED
  BY <1>2, <1>5, <1>6, <1>7 DEF Place

\* register_external writes a record, and takes it back only outside the slot.
LEMMA RegisterSteps ==
    ASSUME StoreInv, NEW p \in Procs, Vet(p) \/ Keep(p) \/ DropExternal(p)
    PROVE  StoreInv' /\ SlotStep
<1>1. Alone(p) /\ cmd[p].at \in {"vet", "keep", "drop"}
  BY WorkerIsAlone DEF Vet, Keep, DropExternal, Waiting
<1>2. Fits(cmd[p].op, cmd[p].id, cmd[p].at) /\ At(p, cmd[p].id, cmd[p].at)
  BY CommandParts
<1>3. PICK i \in External : i = cmd[p].id /\ cmd[p].op = "register"
  BY <1>1, <1>2 DEF Fits
<1>4. i \in Runtimes /\ i \notin Managed /\ StatesOf(i) = {"none", "unverified", "verified"}
  BY RuntimesAssumption DEF Runtimes, StatesOf
<1>5. {"idle", "probe"} \subseteq Steps /\ Fits("register", i, "probe") /\ At(p, i, "idle")
  BY <1>4 DEF Steps, Waiting, Activating, Removing, Fits, At
<1>6. UNCHANGED <<dir, ptr, litter, use, Rest>>
  BY DEF Vet, Keep, DropExternal
<1>7. CASE UNCHANGED <<rec, past>> /\ Goto(p, "idle")
  BY <1>1, <1>3, <1>5, <1>6, <1>7, QuietStep DEF Disk
<1>8. CASE Vet(p) /\ WriteRec(i, "unverified") /\ Goto(p, "probe")
  BY <1>1, <1>3, <1>4, <1>5, <1>6, <1>8, RecordStep DEF RecordTurns
<1>9. CASE Keep(p)
  <2>1. rec[i] # "none" /\ RecordTurns(i, "verified") /\ Goto(p, "idle")
    BY <1>2, <1>3, <1>9 DEF Keep, At, RecordTurns
  <2> QED
    BY <1>1, <1>3, <1>4, <1>5, <1>6, <2>1, RecordStep
<1>10. CASE DropExternal(p) /\ UnlinkRec(i) /\ Removable(i)
  <2>1. i \notin Pointed /\ Goto(p, "idle") /\ RecordTurns(i, "none")
    BY <1>10 DEF DropExternal, Removable, RecordTurns
  <2> QED
    BY <1>1, <1>3, <1>4, <1>5, <1>6, <2>1, RecordStep
<1> QED
  BY <1>3, <1>7, <1>8, <1>9, <1>10 DEF Vet, DropExternal

-----------------------------------------------------------------------------
(* The store: _activate and the activation doctor                           *)

\* The working process of an activation, and its Runtime.
LEMMA ActivatesARuntime ==
    ASSUME StoreInv, NEW p \in Procs, cmd[p].at \in Activating
    PROVE  Alone(p) /\ cmd[p].id \in Runtimes
BY WorkerIsAlone, CommandParts DEF Activating, Waiting, Fits

\* A candidate that becomes pending has a record.
LEMMA ActivateStep ==
    ASSUME StoreInv, NEW p \in Procs, Activate(p)
    PROVE  StoreInv' /\ SlotStep
<1>1. PICK i \in Runtimes : i = cmd[p].id /\ Alone(p)
  BY ActivatesARuntime DEF Activate, Activating
<1>2. PICK op : op = cmd[p].op
  OBVIOUS
<1>3. Fits(op, i, "activate")
  BY <1>1, <1>2, CommandParts DEF Activate
<1>4. UNCHANGED <<rec, dir, litter, past, use, Rest>> /\ {"idle", "probe"} \subseteq Steps
  BY DEF Activate, Steps, Waiting, Activating
<1>5. CASE Goto(p, "idle") /\ UNCHANGED ptr
  BY <1>1, <1>4, <1>5, WaitingNeedsNothing, QuietStep DEF Disk, Waiting
<1>6. CASE /\ rec[i] # "none" /\ Goto(p, "probe")
           /\ ptr' = IF ptr.current = i /\ ptr.pending = None THEN ptr ELSE [ptr EXCEPT !.pending = i]
  <2>1. FilesInv' /\ SlotStep
    <3>1. CASE ptr' = ptr
      BY <1>4, <3>1, FilesStay DEF Disk
    <3>2. CASE ptr' = [ptr EXCEPT !.pending = i]
      BY <1>4, <1>6, <3>2, PendingBecomes
    <3> QED
      BY <1>6, <3>1, <3>2
  <2>2. Fits(op, i, "probe")
    BY <1>3, <1>6 DEF Fits, Activating, Removing
  <2>3. At(p, i, "probe")'
    BY <1>4, <1>6 DEF At
  <2>4. CommandsInv'
    BY <1>1, <1>2, <1>4, <1>6, <2>2, <2>3, WorkGoesOn DEF Rest
  <2> QED
    BY <1>4, <2>1, <2>4, HoldersStay DEF StoreInv, Rest
<1> QED
  BY <1>1, <1>5, <1>6 DEF Activate

\* A verdict leads only to steps that have what they need.
LEMMA VerdictLeads ==
    ASSUME StoreInv, NEW p \in Procs, cmd[p].at \in {"probe", "probing"}, NEW ok \in BOOLEAN,
           NEW op, op = cmd[p].op, NEW i, i = cmd[p].id
    PROVE  /\ Verdict(op, ok) \in Steps
           /\ Fits(op, i, Verdict(op, ok)) \/ Verdict(op, ok) = "idle"
           /\ rec[i] # "none" /\ Verdict(op, ok) \in {"idle", "keep", "drop", "promote", "restore"}
<1>1. op \in Operations \ {"list", "stage", "remove"} /\ Fits(op, i, "probe") /\ i \in Runtimes /\ rec[i] # "none"
  BY CommandParts, ActivatesARuntime DEF Fits, At, Activating, Removing
<1> QED
  BY <1>1 DEF Verdict, Operations, Fits, Steps, Waiting, Activating, Removing

\* The doctor takes the use lock, gives it back and leads to its verdict.
LEMMA ProbeSteps ==
    ASSUME StoreInv, NEW p \in Procs, Probe(p) \/ ProbeEnds(p)
    PROVE  StoreInv' /\ SlotStep
<1>1. PICK i \in Runtimes : i = cmd[p].id /\ Alone(p)
  BY ActivatesARuntime DEF Probe, ProbeEnds, Activating
<1>2. PICK op : op = cmd[p].op
  OBVIOUS
<1>3. Fits(op, i, cmd[p].at) /\ rec[i] # "none" /\ cmd[p].at \in {"probe", "probing"}
  BY <1>1, <1>2, CommandParts DEF Probe, ProbeEnds, At
<1>4. UNCHANGED <<Disk, Rest>>
  BY DEF Probe, ProbeEnds
<1>5. PICK step \in Steps : /\ Goto(p, step) /\ (step = "idle" \/ Fits(op, i, step))
                            /\ step \in {"idle", "probing", "keep", "drop", "promote", "restore"}
                            /\ SetUse(i, p) \/ SetUse(i, None) \/ use' = use
  <2>1. CASE Probe(p)
    <3>1. CASE SetUse(i, p) /\ Goto(p, "probing")
      <4>1. Fits(op, i, "probing") /\ "probing" \in Steps
        BY <1>3 DEF Fits, Activating, Removing, Steps
      <4> QED
        BY <3>1, <4>1
    <3>2. CASE Goto(p, Verdict(op, FALSE)) /\ use' = use
      BY <1>1, <1>2, <1>3, <3>2, VerdictLeads
    <3> QED
      BY <1>1, <1>2, <2>1, <3>1, <3>2 DEF Probe
  <2>2. CASE ProbeEnds(p)
    <3>1. PICK ok \in BOOLEAN : Goto(p, Verdict(op, ok)) /\ SetUse(i, None)
      BY <1>1, <1>2, <2>2 DEF ProbeEnds
    <3> QED
      BY <1>1, <1>2, <1>3, <3>1, VerdictLeads
  <2> QED
    BY <2>1, <2>2
<1>6. FilesInv' /\ SlotStep
  BY <1>4, FilesStay
<1>7. HoldersInv'
  BY <1>4, <1>5, HoldersKeep, HoldersStay, LockBecomes DEF Disk, Rest
<1>8. At(p, i, step)'
  BY <1>3, <1>4, <1>5 DEF At, Disk
<1>9. CommandsInv'
  BY <1>1, <1>2, <1>4, <1>5, <1>8, WorkGoesOn DEF Rest
<1> QED
  BY <1>6, <1>7, <1>9 DEF StoreInv

\* The record that a verdict writes.
LEMMA VerdictSteps ==
    ASSUME StoreInv, NEW p \in Procs, Promote(p) \/ Mark(p)
    PROVE  StoreInv' /\ SlotStep
<1>1. PICK i \in Runtimes : i = cmd[p].id /\ Alone(p)
  BY ActivatesARuntime DEF Promote, Mark, Activating
<1>2. Fits(cmd[p].op, i, cmd[p].at) /\ At(p, i, cmd[p].at)
  BY <1>1, CommandParts
<1>3. UNCHANGED <<dir, ptr, litter, use, Rest>>
  BY DEF Promote, Mark
<1>4. i \in Managed /\ rec[i] # "none" => dir[i] # "none"
  BY DEF StoreInv, FilesInv, RecordHasDir
<1>5. {"complete", "idle"} \subseteq Steps
  BY DEF Steps, Waiting, Activating
<1>6. CASE Promote(p)
  <2>1. PICK state \in {"available", "verified"} : state \in StatesOf(i) /\ RecordTurns(i, state) /\ Goto(p, "complete")
    BY <1>1, <1>6 DEF Promote, RecordTurns, StatesOf
  <2>2. rec[i] # "none" /\ Fits(cmd[p].op, i, "complete")
    BY <1>2, <1>6 DEF Promote, At, Fits, Activating, Removing
  <2> QED
    BY <1>1, <1>3, <1>4, <1>5, <2>1, <2>2, RecordStep
<1>7. CASE Mark(p)
  <2>1. PICK state \in StatesOf(i) : /\ RecordTurns(i, state) /\ Goto(p, "idle") /\ state \in {"none", "failed", "unverified"}
                                     /\ state = "none" <=> rec[i] = "none"
    BY <1>1, <1>7 DEF Mark, Demoted, RecordTurns, StatesOf
  <2> QED
    BY <1>1, <1>3, <1>4, <1>5, <2>1, RecordStep
<1> QED
  BY <1>6, <1>7

\* The slot moves to a Runtime that is available, or gives its candidate up.
LEMMA PointerSteps ==
    ASSUME StoreInv, NEW p \in Procs, Complete(p) \/ Restore(p)
    PROVE  StoreInv' /\ SlotStep
<1>1. PICK i \in Runtimes : i = cmd[p].id /\ Alone(p)
  BY ActivatesARuntime DEF Complete, Restore, Activating
<1>2. Fits(cmd[p].op, i, cmd[p].at) /\ At(p, i, cmd[p].at)
  BY <1>1, CommandParts
<1>3. UNCHANGED <<rec, dir, litter, past, use, Rest>>
  BY DEF Complete, Restore
<1>4. FilesInv' /\ SlotStep
  <2>1. CASE ptr' = ptr
    BY <1>3, <2>1, FilesStay DEF Disk
  <2>2. CASE ptr' = [ptr EXCEPT !.pending = None]
    BY <1>3, <2>2, PendingBecomes
  <2>3. CASE /\ Available(i) /\ ptr.pending = i
             /\ ptr' = [current |-> i, previous |-> ptr.current, pending |-> None]
    <3>1. /\ ptr' \in [current : Runtimes \union {None}, previous : Runtimes \union {None},
                       pending : Runtimes \union {None}]
          /\ ptr'.current = i /\ ptr'.previous = ptr.current /\ ptr'.pending = None
      BY <2>3 DEF StoreInv, FilesInv, FilesOK
    <3>2. Pointed' \subseteq Pointed
      BY <2>3, <3>1, RuntimesAssumption DEF Pointed, Runtimes
    <3>3. PointedKnown'
      BY <1>3, <3>2 DEF StoreInv, FilesInv, PointedKnown
    <3>4. Slot!Switch(i)
      BY <1>3, <2>3, <3>1 DEF Slot!Switch, Available, Undone
    <3>5. SlotStep
      BY <3>4 DEF SlotStep, Slot!Next
    <3> QED
      BY <1>3, <3>1, <3>3, <3>5 DEF StoreInv, FilesInv, FilesOK, RecordHasDir, PastGone
  <2> QED
    BY <1>1, <1>2, <2>1, <2>2, <2>3 DEF Complete, Restore, At
<1>5. PICK op, step : /\ op = cmd[p].op /\ step \in {"idle", "mark"} /\ Goto(p, step)
                      /\ step \in Steps /\ Fits(op, i, step)
  <2>1. CASE Complete(p)
    BY <1>2, <2>1 DEF Complete, Fits, Activating, Removing, Steps, Waiting
  <2>2. CASE Restore(p)
    BY <1>2, <2>2 DEF Restore, Fits, Activating, Removing, Steps, Waiting
  <2> QED
    BY <2>1, <2>2
<1>6. At(p, i, step)'
  BY <1>5 DEF At
<1>7. CommandsInv'
  BY <1>1, <1>3, <1>5, <1>6, WorkGoesOn DEF Rest
<1> QED
  BY <1>3, <1>4, <1>7, HoldersStay DEF StoreInv, Rest

-----------------------------------------------------------------------------
(* The store: remove                                                        *)

\* A removal starts outside the slot and with the use lock.
LEMMA RemoveStep ==
    ASSUME StoreInv, NEW p \in Procs, Remove(p)
    PROVE  StoreInv' /\ SlotStep
<1>1. PICK i \in Runtimes : i = cmd[p].id /\ Alone(p) /\ Fits(cmd[p].op, i, "remove") /\ cmd[p].op = "remove"
  BY WorkerIsAlone, CommandParts DEF Remove, Removing, Waiting, Fits
<1>2. UNCHANGED <<dir, ptr, litter, Rest>> /\ {"idle", "delete"} \subseteq Steps
  BY DEF Remove, Steps, Waiting, Removing
<1>3. CASE Goto(p, "idle") /\ UNCHANGED <<rec, past, use>>
  BY <1>1, <1>2, <1>3, WaitingNeedsNothing, QuietStep DEF Disk, Waiting
<1>4. CASE Removable(i) /\ i \in External /\ UnlinkRec(i) /\ Goto(p, "idle") /\ UNCHANGED use
  <2>1. i \notin Pointed /\ i \notin Managed /\ "none" \in StatesOf(i) /\ RecordTurns(i, "none")
    BY <1>4, RuntimesAssumption DEF Removable, RecordTurns, StatesOf
  <2> QED
    BY <1>1, <1>2, <1>4, <2>1, RecordStep
<1>5. CASE Removable(i) /\ i \in Managed /\ SetUse(i, p) /\ Goto(p, "delete") /\ UNCHANGED <<rec, past>>
  <2>1. FilesInv' /\ SlotStep
    BY <1>2, <1>5, FilesStay DEF Disk
  <2>2. HoldersInv'
    BY <1>2, <1>5, LockBecomes, HoldersKeep DEF Rest
  <2>3. i \notin Pointed' /\ use'[i] = p
    BY <1>2, <1>5, LockBecomes DEF Removable, Pointed
  <2>4. Fits("remove", i, "delete") /\ At(p, i, "delete")'
    BY <1>1, <1>5, <2>3 DEF Fits, At, Activating, Removing
  <2>5. CommandsInv'
    BY <1>1, <1>2, <1>5, <2>4, WorkGoesOn DEF Rest
  <2> QED
    BY <2>1, <2>2, <2>5 DEF StoreInv
<1> QED
  BY <1>1, <1>3, <1>4, <1>5 DEF Remove

\* Where a removal has a directory or a record to take away.
LEMMA RemovesManaged ==
    ASSUME StoreInv, NEW p \in Procs, cmd[p].at \in {"delete", "unrecord", "unlink", "rmdir"}
    PROVE  /\ Alone(p) /\ cmd[p].op = "remove" /\ cmd[p].id \in Managed /\ cmd[p].id \in Runtimes
           /\ At(p, cmd[p].id, cmd[p].at)
           /\ \A step \in {"idle", "unrecord", "unlink", "rmdir"} :
                 step \in Steps /\ Fits("remove", cmd[p].id, step)
<1>1. Alone(p) /\ Fits(cmd[p].op, cmd[p].id, cmd[p].at) /\ At(p, cmd[p].id, cmd[p].at)
  BY WorkerIsAlone, CommandParts DEF Waiting
<1>2. cmd[p].op = "remove" /\ cmd[p].id \in Managed /\ cmd[p].id \in Runtimes
  BY <1>1 DEF Fits, At, Removing, Runtimes
<1> QED
  BY <1>1, <1>2 DEF Fits, Steps, Waiting, Removing, Activating

\* A removal changes the directory of i under the use lock, or where no record
\* is left; whoever held the lock then holds it no longer.
LEMMA DirectoryStep ==
    ASSUME StoreInv, NEW p \in Procs, Alone(p), NEW i \in Managed, i = cmd[p].id, cmd[p].op = "remove",
           NEW d \in Dirs, dir' = [dir EXCEPT ![i] = d], d # "none" \/ rec[i] = "none",
           \E was \in Dirs : past' = [past EXCEPT ![i].dir = was], UNCHANGED <<rec, ptr, litter, Rest>>,
           NEW step \in Steps, Goto(p, step), Fits("remove", i, step), At(p, i, step)',
           \/ use' = use /\ (use[i] = p \/ d = dir[i] \/ dir[i] = "empty")
           \/ SetUse(i, None)
    PROVE  StoreInv' /\ SlotStep
<1>1. \A k \in Managed : dir'[k] = IF k = i THEN d ELSE dir[k]
  BY DEF StoreInv, FilesInv, FilesOK
<1>0. /\ past' \in [Runtimes -> [rec : States, dir : Dirs]]
      /\ \A k \in Runtimes : past'[k] \in [rec : StatesOf(k), dir : Dirs]
      /\ \A k \in Runtimes : past'[k].rec = past[k].rec
  <2>1. PICK was \in Dirs : past' = [past EXCEPT ![i].dir = was]
    OBVIOUS
  <2>2. past \in [Runtimes -> [rec : States, dir : Dirs]]
        /\ \A k \in Runtimes : past[k] \in [rec : StatesOf(k), dir : Dirs]
    BY DEF StoreInv, FilesInv, FilesOK
  <2>3. \A k \in Runtimes : past'[k] = IF k = i THEN [past[k] EXCEPT !.dir = was] ELSE past[k]
    BY <2>1, <2>2
  <2>4. /\ past' \in [Runtimes -> [rec : States, dir : Dirs]]
        /\ \A k \in Runtimes : past'[k].rec = past[k].rec /\ past'[k].dir \in Dirs
    BY <2>1, <2>2, <2>3
  <2> QED
    BY <2>2, <2>4
<1>2. FilesInv'
  BY <1>0, <1>1 DEF StoreInv, FilesInv, FilesOK, RecordHasDir, PointedKnown, PastGone, Pointed
<1>3. SlotStep
  BY <1>0, SlotStays
<1>4. HoldersInv'
  <2>1. /\ use' \in [Runtimes -> Procs \union Users \union {None}]
        /\ \A k \in Runtimes : \A u \in Users : use'[k] = u => use[k] = u
    BY LockBecomes DEF StoreInv, HoldersInv, HoldersOK
  <2>2. \A u \in Users : use'[i] = u => d = dir[i] \/ dir[i] = "empty"
    BY LockBecomes, RuntimesAssumption DEF Runtimes
  <2> QED
    BY <1>1, <2>1, <2>2, HoldersKeep DEF Rest
<1>5. CommandsInv'
  BY WorkGoesOn DEF Rest
<1> QED
  BY <1>2, <1>3, <1>4, <1>5 DEF StoreInv

\* The steps of a removal, from the payload to the empty directory.
LEMMA RemovalSteps ==
    ASSUME StoreInv, NEW p \in Procs, Delete(p) \/ Unrecord(p) \/ Unlink(p) \/ Rmdir(p)
    PROVE  StoreInv' /\ SlotStep
<1>1. PICK i \in Managed : i = cmd[p].id /\ i \in Runtimes
  BY RemovesManaged DEF Delete, Unrecord, Unlink, Rmdir
<1>2. /\ Alone(p) /\ cmd[p].op = "remove" /\ At(p, i, cmd[p].at)
      /\ \A step \in {"idle", "unrecord", "unlink", "rmdir"} : step \in Steps /\ Fits("remove", i, step)
  BY <1>1, RemovesManaged DEF Delete, Unrecord, Unlink, Rmdir
<1>3. CASE Delete(p)
  <2>0. PICK was \in Dirs : was = IF past[i].dir = "none" THEN dir[i] ELSE past[i].dir
    BY <1>1 DEF StoreInv, FilesInv, FilesOK
  <2>1. /\ dir' = [dir EXCEPT ![i] = "broken"] /\ past' = [past EXCEPT ![i].dir = was] /\ Goto(p, "unrecord")
        /\ UNCHANGED <<rec, ptr, litter, use, Rest>> /\ use[i] = p /\ i \notin Pointed
    BY <1>1, <1>2, <1>3, <2>0 DEF Delete, At, StoreInv, FilesInv, FilesOK
  <2>2. At(p, i, "unrecord")' /\ "broken" \in Dirs
    BY <2>1 DEF At, Pointed, Dirs, StoreInv, FilesInv, FilesOK
  <2> QED
    BY <1>1, <1>2, <2>1, <2>2, DirectoryStep
<1>4. CASE Unrecord(p)
  <2>1. /\ UnlinkRec(i) /\ SetUse(i, None) /\ Goto(p, "unlink")
        /\ UNCHANGED <<dir, ptr, litter, Rest>> /\ i \notin Pointed
    BY <1>1, <1>2, <1>4 DEF Unrecord, At
  <2>2. \A k \in Managed : rec'[k] # "none" => dir'[k] # "none"
    BY <1>1, <2>1 DEF StoreInv, FilesInv, FilesOK, RecordHasDir, UnlinkRec, SetRec, Runtimes
  <2>3. FilesInv' /\ SlotStep /\ rec'[i] = "none"
    BY <1>1, <2>1, <2>2, RecordBecomes DEF RecordTurns, StatesOf, StoreInv, FilesInv, FilesOK
  <2>4. HoldersInv'
    BY <2>1, LockBecomes, HoldersKeep DEF Rest
  <2>5. At(p, i, "unlink")'
    BY <2>3 DEF At
  <2>6. CommandsInv'
    BY <1>1, <1>2, <2>1, <2>5, WorkGoesOn DEF Rest
  <2> QED
    BY <2>3, <2>4, <2>6 DEF StoreInv
<1>7. \E was \in Dirs : past = [past EXCEPT ![i].dir = was]
  <2>1. past = [past EXCEPT ![i].dir = past[i].dir] /\ past[i].dir \in Dirs
    BY <1>1 DEF StoreInv, FilesInv, FilesOK
  <2> QED
    BY <2>1
<1>5. CASE Unlink(p)
  <2>1. /\ dir' = [dir EXCEPT ![i] = "empty"] /\ SetUse(i, None) /\ Goto(p, "rmdir")
        /\ UNCHANGED <<rec, ptr, litter, past, Rest>> /\ rec[i] = "none"
    BY <1>1, <1>2, <1>5 DEF Unlink, At
  <2>2. At(p, i, "rmdir")' /\ "empty" \in Dirs
    BY <2>1 DEF At, Dirs, StoreInv, FilesInv, FilesOK
  <2> QED
    BY <1>1, <1>2, <1>7, <2>1, <2>2, DirectoryStep
<1>6. CASE Rmdir(p)
  <2>1. PICK d \in Dirs : d = IF dir[i] = "empty" THEN "none" ELSE dir[i]
    BY DEF Dirs, StoreInv, FilesInv, FilesOK
  <2>2. /\ dir' = [dir EXCEPT ![i] = d] /\ Goto(p, "idle")
        /\ UNCHANGED <<rec, ptr, litter, past, use, Rest>> /\ rec[i] = "none"
    BY <1>1, <1>2, <1>6, <2>1 DEF Rmdir, At
  <2>3. At(p, i, "idle")' /\ (d = dir[i] \/ dir[i] = "empty")
    BY <2>1, <2>2 DEF At, StoreInv, FilesInv, FilesOK
  <2> QED
    BY <1>1, <1>2, <1>7, <2>2, <2>3, DirectoryStep
<1> QED
  BY <1>3, <1>4, <1>5, <1>6

-----------------------------------------------------------------------------
(* The store: worker clients                                                *)

\* Commands go on or end, with the use locks of those that go on kept.
LEMMA CommandsKeep ==
    ASSUME StoreInv, UNCHANGED <<rec, ptr, commands>>, interruptions' \in 0 .. MaxInterruptions,
           cmd' \in [Procs -> [op : Operations, id : Runtimes \union {None}, at : Steps]],
           \A p \in Procs :
               \/ cmd'[p] = NoCommand
               \/ cmd'[p] = cmd[p] /\ \A i \in Runtimes : use[i] = p => use'[i] = p
    PROVE  CommandsInv'
<1>1. CommandsOK' /\ OneWorks'
  BY NoCommandFits DEF StoreInv, CommandsInv, CommandsOK, OneWorks, Waiting
<1>2. ASSUME NEW p \in Procs PROVE (Fits(cmd[p].op, cmd[p].id, cmd[p].at) /\ At(p, cmd[p].id, cmd[p].at))'
  <2>1. CASE cmd'[p] = NoCommand
    BY <2>1, NoCommandFits DEF At
  <2>2. CASE cmd'[p] = cmd[p] /\ \A i \in Runtimes : use[i] = p => use'[i] = p
    <3>1. Fits(cmd[p].op, cmd[p].id, cmd[p].at) /\ At(p, cmd[p].id, cmd[p].at)
      BY CommandParts
    <3> QED
      BY <2>2, <3>1 DEF At, Available, Pointed, Runtimes
  <2> QED
    BY <2>1, <2>2
<1> QED
  BY <1>1, <1>2 DEF CommandsInv, InPlace

\* A client goes to a step with Runtime i.  It runs only on a whole payload;
\* the others keep their locks at most, and their payloads.
LEMMA ClientBecomes ==
    ASSUME StoreInv, NEW u \in Users, NEW step \in {"off", "found", "locked", "running"},
           NEW i \in Runtimes \union {None}, SetUser(u, step, i), step # "off" => i \in Runtimes,
           step = "running" => PayloadThere(i) /\ dir' = dir,
           use' \in [Runtimes -> Procs \union Users \union {None}],
           \A k \in Runtimes : \A v \in Users \ {u} : use'[k] = v => use[k] = v,
           \A k \in Managed : dir[k] \in {"whole", "littered"} => dir'[k] = dir[k]
    PROVE  HoldersInv'
<1>1. user' \in [Users -> [at : {"off", "found", "locked", "running"}, id : Runtimes \union {None}]]
  BY DEF SetUser, StoreInv, HoldersInv, HoldersOK
<1>2. \A v \in Users : user'[v] = IF v = u THEN [at |-> step, id |-> i] ELSE user[v]
  BY DEF SetUser, StoreInv, HoldersInv, HoldersOK
<1>3. UsersLooked'
  BY <1>2 DEF StoreInv, HoldersInv, UsersLooked
<1>4. InUseIntact'
  <2> SUFFICES ASSUME NEW v \in Users, user'[v].at = "running", use'[user'[v].id] = v
               PROVE  PayloadThere(user[v].id)'
    BY DEF InUseIntact
  <2>1. CASE v = u
    BY <1>2, <2>1 DEF PayloadThere
  <2>2. CASE v # u
    <3>1. user'[v] = user[v] /\ user[v].id \in Runtimes
      BY <1>2, <2>2 DEF StoreInv, HoldersInv, UsersLooked
    <3>2. PayloadThere(user[v].id)
      BY <2>2, <3>1 DEF StoreInv, HoldersInv, InUseIntact
    <3> QED
      BY <3>1, <3>2 DEF PayloadThere
  <2> QED
    BY <2>1, <2>2
<1> QED
  BY <1>1, <1>3, <1>4 DEF HoldersInv, HoldersOK

\* A client that locks and runs: its directory only comes to be.
LEMMA UseSteps ==
    ASSUME StoreInv, NEW u \in Users, Use(u)
    PROVE  StoreInv' /\ SlotStep
<1>1. UNCHANGED UserRest /\ u \notin Procs /\ u # None
  BY RuntimesAssumption DEF Use, Look, Take, Launch, Finish
<1>2. /\ UNCHANGED <<rec, ptr, cmd, litter, past, commands, interruptions>>
      /\ user[u] \in [at : {"off", "found", "locked", "running"}, id : Runtimes \union {None}]
      /\ user[u].at # "off" => user[u].id \in Runtimes
  BY <1>1 DEF UserRest, StoreInv, HoldersInv, HoldersOK, UsersLooked
<1>3. SlotStep
  BY <1>2, SlotStays
<1>4. ASSUME NEW q \in Procs, NEW k \in Runtimes, use[k] = q PROVE use'[k] = q
  <2>1. q # None /\ q # u
    BY <1>1, RuntimesAssumption
  <2> QED
    BY <1>4, <2>1 DEF Use, Look, Take, Launch, Finish, SetUse, StoreInv, HoldersInv, HoldersOK
<1>5. CommandsInv'
  BY <1>2, <1>4, CommandsKeep DEF StoreInv, CommandsInv, CommandsOK
<1>6. dir' \in [Managed -> Dirs] /\ \A k \in Managed : dir'[k] # dir[k] => dir'[k] = "broken" /\ dir[k] \in {"none", "empty"}
  <2>1. dir \in [Managed -> Dirs] /\ "broken" \in Dirs
    BY DEF StoreInv, FilesInv, FilesOK, Dirs
  <2> QED
    BY <2>1 DEF Use, Look, Take, Launch, Finish
<1>7. FilesInv'
  BY <1>2, <1>6 DEF StoreInv, FilesInv, FilesOK, RecordHasDir, PointedKnown, PastGone, Pointed
<1>8. \A k \in Managed : dir[k] \in {"whole", "littered"} => dir'[k] = dir[k]
  BY <1>6
<1>9. use \in [Runtimes -> Procs \union Users \union {None}]
  BY DEF StoreInv, HoldersInv, HoldersOK
<1>10. HoldersInv'
  <2>1. CASE \E i \in Runtimes : Look(u, i)
    BY <1>8, <1>9, <2>1, ClientBecomes DEF Look
  <2>2. CASE Take(u)
    <3>1. PICK i \in Runtimes : i = user[u].id
      BY <1>2, <2>2 DEF Take
    <3>2. CASE use[i] = None /\ SetUse(i, u) /\ SetUser(u, "locked", i)
      <4>1. /\ use' \in [Runtimes -> Procs \union Users \union {None}]
            /\ \A k \in Runtimes : \A v \in Users \ {u} : use'[k] = v => use[k] = v
        BY <1>9, <3>2 DEF SetUse
      <4> QED
        BY <1>8, <3>2, <4>1, ClientBecomes
    <3>3. CASE SetUser(u, "off", None) /\ UNCHANGED use
      BY <1>8, <1>9, <3>3, ClientBecomes
    <3> QED
      BY <2>2, <3>1, <3>2, <3>3 DEF Take
  <2>3. CASE Launch(u)
    BY <1>2, <1>8, <1>9, <2>3, ClientBecomes DEF Launch
  <2>4. CASE Finish(u)
    <3>1. use' = [k \in Runtimes |-> IF use[k] = u THEN None ELSE use[k]] /\ SetUser(u, "off", None)
      BY <2>4 DEF Finish
    <3>2. /\ use' \in [Runtimes -> Procs \union Users \union {None}]
          /\ \A k \in Runtimes : \A v \in Users : use'[k] = v => use[k] = v
      BY <1>9, <3>1, RuntimesAssumption
    <3> QED
      BY <1>8, <3>1, <3>2, ClientBecomes
  <2> QED
    BY <2>1, <2>2, <2>3, <2>4 DEF Use
<1> QED
  BY <1>3, <1>5, <1>7, <1>10 DEF StoreInv

-----------------------------------------------------------------------------
(* The store: interruptions                                                 *)

\* A command that ends where it is loses its locks and no directory.
LEMMA InterruptedStep ==
    ASSUME StoreInv, NEW p \in Procs, Interrupted(p)
    PROVE  StoreInv' /\ SlotStep
<1>1. UNCHANGED <<rec, ptr, user, past, commands>> /\ interruptions' \in 0 .. MaxInterruptions
  BY RuntimesAssumption DEF Interrupted, StoreInv, CommandsInv, CommandsOK
<1>2. cmd' = [cmd EXCEPT ![p] = NoCommand] /\ use' = [i \in Runtimes |-> IF use[i] = p THEN None ELSE use[i]]
  BY DEF Interrupted, Goto
<1>3. /\ dir' \in [Managed -> Dirs] /\ litter' \in BOOLEAN
      /\ \A i \in Managed : dir'[i] # dir[i] => dir[i] = "whole" /\ dir'[i] = "littered"
  <2>1. dir \in [Managed -> Dirs] /\ litter \in BOOLEAN /\ "littered" \in Dirs
    BY DEF StoreInv, FilesInv, FilesOK, Dirs
  <2>2. CASE UNCHANGED dir /\ litter' \in {litter, TRUE}
    BY <2>1, <2>2
  <2>3. CASE \E i \in WritesIn(p) : dir' = [dir EXCEPT ![i] = "littered"] /\ UNCHANGED litter
    BY <2>1, <2>3 DEF WritesIn
  <2> QED
    BY <2>2, <2>3 DEF Interrupted
<1>4. FilesInv'
  BY <1>1, <1>3 DEF StoreInv, FilesInv, FilesOK, RecordHasDir, PointedKnown, PastGone, Pointed
<1>5. SlotStep
  BY <1>1, SlotStays
<1>6. /\ use' \in [Runtimes -> Procs \union Users \union {None}]
      /\ \A i \in Runtimes : use'[i] = IF use[i] = p THEN None ELSE use[i]
  BY <1>2 DEF StoreInv, HoldersInv, HoldersOK
<1>7. HoldersInv'
  BY <1>1, <1>3, <1>6, RuntimesAssumption, HoldersKeep
<1>8. CommandsInv'
  <2>1. cmd' \in [Procs -> [op : Operations, id : Runtimes \union {None}, at : Steps]]
        /\ \A q \in Procs : cmd'[q] = IF q = p THEN NoCommand ELSE cmd[q]
    BY <1>2, NoCommandFits DEF StoreInv, CommandsInv, CommandsOK
  <2> QED
    BY <1>1, <1>6, <2>1, CommandsKeep
<1> QED
  BY <1>4, <1>5, <1>7, <1>8 DEF StoreInv

\* A power loss ends every holder, and may bring back what was removed: no
\* Runtime of the slot, and each as it was.
LEMMA PowerLossStep ==
    ASSUME StoreInv, PowerLoss
    PROVE  StoreInv' /\ SlotStep
<1>1. UNCHANGED <<ptr, commands>> /\ interruptions' \in 0 .. MaxInterruptions
  BY RuntimesAssumption DEF PowerLoss, StoreInv, CommandsInv, CommandsOK
<1>2. PICK returned \in SUBSET {i \in Runtimes : past[i].rec # "none"},
           restored \in SUBSET {i \in Managed : past[i].dir # "none"} : \E partly \in SUBSET restored :
          /\ returned \intersect Managed \subseteq restored
          /\ rec' = [i \in Runtimes |-> IF i \in returned THEN past[i].rec ELSE rec[i]]
          /\ dir' = [i \in Managed |-> IF i \in partly THEN "broken"
                                        ELSE IF i \in restored THEN past[i].dir ELSE dir[i]]
  BY DEF PowerLoss
<1>3. past' = [i \in Runtimes |-> Nothing] /\ litter' \in BOOLEAN
  BY DEF PowerLoss, StoreInv, FilesInv, FilesOK
<1>4. FilesInv'
  <2>1. /\ rec' \in [Runtimes -> States] /\ \A i \in Runtimes : rec'[i] \in StatesOf(i)
        /\ \A i \in Runtimes : rec[i] # "none" => rec'[i] # "none"
    BY <1>2 DEF StoreInv, FilesInv, FilesOK
  <2>2. dir' \in [Managed -> Dirs]
    BY <1>2 DEF StoreInv, FilesInv, FilesOK, Dirs, Runtimes
  <2>3. RecordHasDir'
    BY <1>2 DEF StoreInv, FilesInv, RecordHasDir, Runtimes
  <2>4. past' \in [Runtimes -> [rec : States, dir : Dirs]]
        /\ \A i \in Runtimes : past'[i] \in [rec : StatesOf(i), dir : Dirs] /\ past'[i].rec = "none"
    BY <1>3 DEF Nothing, States, StatesOf, Dirs
  <2>5. PointedKnown'
    BY <1>1, <2>1 DEF StoreInv, FilesInv, FilesOK, PointedKnown, Pointed
  <2> QED
    BY <1>1, <1>3, <2>1, <2>2, <2>3, <2>4, <2>5 DEF StoreInv, FilesInv, FilesOK, PastGone
<1>5. SlotStep
  <2>1. \A i \in returned : /\ rec[i] = "none" /\ Undone(i) # "no" /\ i \in Runtimes
                             /\ Undone(i) = "ready" <=> past[i].rec \in {"available", "verified"}
    BY <1>2 DEF StoreInv, FilesInv, PastGone, Undone
  <2>2. [i \in Runtimes |-> Undone(i)]' = [i \in Runtimes |-> "no"]
    BY <1>3 DEF Undone, Nothing
  <2>3. {i \in Runtimes : rec[i] # "none"}' = {i \in Runtimes : rec[i] # "none"} \union returned
    BY <1>2, <2>1
  <2>4. {i \in Runtimes : Available(i)}' =
            {i \in Runtimes : Available(i)} \union {i \in returned : Undone(i) = "ready"}
    <3>1. \A i \in Runtimes : rec'[i] = IF i \in returned THEN past[i].rec ELSE rec[i]
      BY <1>2
    <3>2. \A i \in returned : rec[i] \notin {"available", "verified"} /\ i \in Runtimes
                              /\ (Undone(i) = "ready" <=> past[i].rec \in {"available", "verified"})
      BY <1>2 DEF StoreInv, FilesInv, PastGone, Undone
    <3>3. \A i \in Runtimes : rec'[i] \in {"available", "verified"} <=>
              rec[i] \in {"available", "verified"} \/ (i \in returned /\ Undone(i) = "ready")
      BY <3>1, <3>2
    <3> QED
      BY <3>2, <3>3 DEF Available
  <2>5. returned \in SUBSET {i \in Runtimes : Undone(i) # "no"}
    BY <2>1 DEF Undone
  <2>6. {i \in returned : [k \in Runtimes |-> Undone(k)][i] = "ready"} = {i \in returned : Undone(i) = "ready"}
    BY <2>1
  <2>7. Slot!Return
    BY <1>1, <2>2, <2>3, <2>4, <2>5, <2>6 DEF Slot!Return
  <2> QED
    BY <2>7 DEF SlotStep, Slot!Next
<1>6. HoldersInv'
  BY DEF PowerLoss, HoldersInv, HoldersOK, UsersLooked, InUseIntact
<1>7. CommandsInv'
  <2>1. cmd' = [p \in Procs |-> NoCommand]
    BY DEF PowerLoss
  <2>2. CommandsOK' /\ OneWorks' /\ InPlace'
    BY <1>1, <2>1, NoCommandFits
       DEF StoreInv, CommandsInv, CommandsOK, OneWorks, InPlace, At, Waiting
  <2> QED
    BY <2>2 DEF CommandsInv
<1> QED
  BY <1>4, <1>5, <1>6, <1>7 DEF StoreInv

-----------------------------------------------------------------------------
(* The store: what holds of it                                              *)

\* At first nothing is registered, and no lock is held.
LEMMA StoreStarts ==
    ASSUME InitStore
    PROVE  StoreInv /\ Slot!Init
<1>1. FilesInv
  <2>1. FilesOK
    BY DEF InitStore, FilesOK, StatesOf, Nothing, Dirs, States
  <2>2. RecordHasDir /\ PointedKnown /\ PastGone
    BY DEF InitStore, RecordHasDir, PointedKnown, PastGone, Nothing, Pointed, Runtimes
  <2> QED
    BY <2>1, <2>2 DEF FilesInv
<1>2. HoldersInv
  BY DEF InitStore, HoldersInv, HoldersOK, UsersLooked, InUseIntact
<1>3. CommandsInv
  BY NoCommandFits, WaitingNeedsNothing, RuntimesAssumption
     DEF InitStore, CommandsInv, CommandsOK, OneWorks, InPlace, Waiting
<1>4. Slot!Init
  BY DEF InitStore, Slot!Init, Available, Undone, Nothing
<1> QED
  BY <1>1, <1>2, <1>3, <1>4 DEF StoreInv

\* Every step keeps the invariant, and is one of the slot or none.
LEMMA StoreInvariant ==
    ASSUME StoreInv, [NextStore]_storeVars
    PROVE  StoreInv' /\ SlotStep
<1>1. ASSUME NEW p \in Procs, Step(p) PROVE StoreInv' /\ SlotStep
  <2>1. CASE Recover(p)
    BY <2>1, WaitingSteps, RebuildStep, QuietSteps, ResolveStep, SettleStep, CleanStep DEF Recover
  <2>2. CASE \/ BeginWork(p) \/ Rollback(p)
             \/ Stage(p) \/ Place(p) \/ Enrol(p) \/ Vet(p) \/ Keep(p) \/ DropExternal(p)
    BY <2>2, WaitingSteps, RollbackStep, QuietSteps, PlaceStep, RegisterSteps
  <2>3. CASE \/ Activate(p) \/ Probe(p) \/ ProbeEnds(p) \/ Promote(p) \/ Complete(p) \/ Restore(p) \/ Mark(p)
             \/ Remove(p) \/ Delete(p) \/ Unrecord(p) \/ Unlink(p) \/ Rmdir(p)
    BY <2>3, ActivateStep, ProbeSteps, VerdictSteps, PointerSteps, RemoveStep, RemovalSteps
  <2> QED
    BY <1>1, <2>1, <2>2, <2>3 DEF Step
<1>2. ASSUME NEW p \in Procs, Busy(p) \/ Interrupted(p) PROVE StoreInv' /\ SlotStep
  BY <1>2, WaitingSteps, InterruptedStep
<1>3. CASE \E p \in Procs, op \in Operations, i \in Runtimes \union {None} : Command(p, op, i)
  BY <1>3, CommandStep
<1>4. CASE \E u \in Users : Use(u)
  BY <1>4, UseSteps
<1>5. CASE UNCHANGED storeVars
  <2>1. FilesInv' /\ SlotStep /\ HoldersInv'
    BY <1>5, FilesStay, HoldersStay DEF storeVars, Disk
  <2>2. CommandsInv'
    BY <1>5, CommandsKeep DEF storeVars, StoreInv, CommandsInv, CommandsOK
  <2> QED
    BY <2>1, <2>2 DEF StoreInv
<1> QED
  BY <1>1, <1>2, <1>3, <1>4, <1>5, PowerLossStep DEF NextStore

\* Types: the invariant says more.
THEOREM StoreTypes == SpecStore => []StoreTypeOK
<1>1. StoreInv => StoreTypeOK
  BY DEF StoreInv, FilesInv, HoldersInv, CommandsInv, StoreTypeOK
<1> QED
  BY <1>1, StoreStarts, StoreInvariant, PTL DEF SpecStore

\* What the active slot names stays registered, in a directory that is there,
\* whatever is removed, interrupted or lost around it, for any number of
\* Runtimes, processes, clients, commands and interruptions.
THEOREM SlotIsProtected == SpecStore => []Protected
<1>1. StoreInv => Protected
  BY DEF StoreInv, FilesInv, PointedKnown, RecordHasDir, Protected
<1> QED
  BY <1>1, StoreStarts, StoreInvariant, PTL DEF SpecStore

\* A worker that runs under the use lock never loses its payload.
THEOREM PayloadInUse == SpecStore => []InUseIntact
<1>1. StoreInv => InUseIntact
  BY DEF StoreInv, HoldersInv
<1> QED
  BY <1>1, StoreStarts, StoreInvariant, PTL DEF SpecStore

\* The manager implements the abstract slot.
THEOREM StoreImplementsSlot == SpecStore => ImplementsSlot
BY StoreStarts, StoreInvariant, PTL DEF SpecStore, ImplementsSlot, Slot!Spec, SlotStep

=============================================================================
