------------------------------- MODULE LlmChunks -------------------------------
(***************************************************************************)
(* LLMChunkExecutor.execute over the answer cache and the one provider     *)
(* client of the application, run after run: a stage that failed is run    *)
(* again over the same items, and answers in the cache are not asked for.  *)
(*                                                                         *)
(* A task serves one chunk of the plan; a chunk whose answer does not      *)
(* match its items is cut in two, which the same task serves one after the *)
(* other.  A step is what asyncio does between two awaits.  A key of the   *)
(* cache stands for the request of a core.  An answer is a value of        *)
(* Values; answers of different values are each valid and together fail    *)
(* the aggregate validator (the terminology).                              *)
(***************************************************************************)
EXTENDS Naturals, Sequences, FiniteSets, ChunkPlanning

CONSTANTS
    Config,         \* the items and the ChunkingConfig, as in ChunkPlanning
    Values,         \* answers that differ for the aggregate validator
    MaxConcurrency, \* slots of the semaphore
    MaxRetries,     \* retries of one request
    MaxRuns,        \* bound: executions
    MaxFaults       \* bound: crashes, failing disk operations, damaged entries

Chunks == Plan(Config)
Cores == {core \in (0 .. Config.n) \X (0 .. Config.n) :
            core[1] < core[2] /\ Length(core) <= Config.maxItems}

ASSUME ExecutorAssumption ==
    /\ IsConfig(Config) /\ Plannable(Config) /\ Config.n > 0 /\ Chunks \subseteq Cores
    /\ MaxConcurrency \in Nat \ {0} /\ MaxRetries \in Nat /\ MaxRuns \in Nat /\ MaxFaults \in Nat
    /\ Values \intersect {"none", "bad", "invalid", "mismatch", "transient", "permanent", "cancelled"} = {}

VARIABLES
    main,       \* execute: where it is, the first error it was told of, and
                \* how many slots its stopped tasks have in their hands
    task,       \* the task of each chunk
    cache,      \* each key's entry: an answer, "bad" or "none"
    written,    \* keys written by this execution
    cancelled,  \* the context of the execution is cancelled
    free,       \* free slots of the semaphore
    leaked,     \* slots that were never given back
    loop,       \* the event loop of this execution
    bound,      \* the event loop the semaphore is bound to, or 0
    outcome,    \* of the last execution
    runs, faults

shared == <<free, leaked, loop, bound>>
counts == <<runs, faults>>
vars == <<main, task, cache, written, cancelled, shared, outcome, counts>>

NoTask == [at |-> "none", todo |-> <<>>, repair |-> FALSE, tries |-> 0, answer |-> "none", got |-> {}]
Ended == {"none", "done", "failed", "dropped"}
Holding == {"asking", "leaving"}
Resting == [at |-> "idle", error |-> "none", stopping |-> 0]
Running == main.at = "running"
Holders == {t \in Chunks : task[t].at \in Holding}

Init ==
    /\ main = Resting /\ task = [t \in Chunks |-> NoTask]
    /\ cache = [k \in Cores |-> "none"] /\ written = {}
    /\ cancelled = FALSE /\ free = MaxConcurrency /\ leaked = 0 /\ loop = 0 /\ bound = 0
    /\ outcome = "none" /\ runs = 0 /\ faults = 0

Key(t) == Head(task[t].todo)
Fault == faults < MaxFaults /\ faults' = faults + 1

\* Each command of the desktop application has an event loop of its own; the
\* stages of one command share it.  The client and its semaphore are shared.
Execute ==
    /\ main.at = "idle" /\ runs < MaxRuns
    /\ main' = [Resting EXCEPT !.at = "running"]
    /\ task' = [t \in Chunks |-> [NoTask EXCEPT !.at = "ready", !.todo = <<t>>]]
    /\ outcome' = "none"
    /\ loop' \in {loop, loop + 1} \ {0}
    /\ runs' = runs + 1
    /\ UNCHANGED <<cache, written, cancelled, free, leaked, bound, faults>>

Cancel ==
    /\ main.at # "idle" /\ ~cancelled
    /\ cancelled' = TRUE
    /\ UNCHANGED <<main, task, cache, written, shared, outcome, counts>>

-----------------------------------------------------------------------------
(* A chunk: cache, request, validation, repair, split                       *)

SetTask(t, r) == task' = [task EXCEPT ![t] = r]

\* The task raises; gather tells execute of the first error only.
Fail(t, error) ==
    /\ SetTask(t, [NoTask EXCEPT !.at = "failed"])
    /\ main' = [main EXCEPT !.error = IF @ = "none" THEN error ELSE @]

\* A piece of the chunk is answered; the next one, if any, is looked up.
Answered(t, value) ==
    LET rest == Tail(task[t].todo) IN
    [task[t] EXCEPT !.at = IF rest = <<>> THEN "done" ELSE "ready", !.todo = rest,
                    !.repair = FALSE, !.tries = 0, !.answer = "none", !.got = @ \union {value}]

\* A valid answer is served from the cache; any other entry is removed, which
\* may fail.
Look(t) ==
    /\ Running /\ task[t].at = "ready"
    /\ \/ /\ cancelled
          /\ Fail(t, "cancelled")
          /\ UNCHANGED <<cache, faults>>
       \/ /\ ~cancelled /\ cache[Key(t)] \in Values
          /\ SetTask(t, Answered(t, cache[Key(t)]))
          /\ UNCHANGED <<main, cache, faults>>
       \/ /\ ~cancelled /\ cache[Key(t)] \notin Values
          /\ cache' = [cache EXCEPT ![Key(t)] = "none"]
          /\ SetTask(t, [task[t] EXCEPT !.at = "waiting"])
          /\ UNCHANGED <<main, faults>>
       \/ /\ ~cancelled /\ cache[Key(t)] = "bad" /\ Fault
          /\ Fail(t, "failed")
          /\ UNCHANGED cache
    /\ UNCHANGED <<written, cancelled, shared, outcome, runs>>

Acquire(t) ==
    /\ Running /\ task[t].at = "waiting" /\ ~cancelled /\ free > 0
    /\ free' = free - 1
    /\ SetTask(t, [task[t] EXCEPT !.at = "asking"])
    /\ UNCHANGED <<main, cache, written, cancelled, leaked, loop, bound, outcome, counts>>

\* The first wait for a slot binds the semaphore to its event loop; a wait in
\* any other raises RuntimeError.
Contend(t) ==
    /\ Running /\ task[t].at = "waiting" /\ ~cancelled /\ free = 0 /\ bound # loop
    /\ \/ bound = 0 /\ bound' = loop /\ UNCHANGED <<main, task>>
       \/ bound # 0 /\ Fail(t, "failed") /\ UNCHANGED bound
    /\ UNCHANGED <<cache, written, cancelled, free, leaked, loop, outcome, counts>>

\* The context is polled in the waits for a slot and for the next try.
GiveUp(t) ==
    /\ Running /\ task[t].at \in {"waiting", "backoff"} /\ cancelled
    /\ Fail(t, "cancelled")
    /\ UNCHANGED <<cache, written, cancelled, shared, outcome, counts>>

\* What a request ends in that has no answer: a timeout, a network error and a
\* status that calls for a later try are transient, the others are not.
Undelivered == {"transient", "permanent"}

\* What the envelope of an answer is decoded to: a refusal or filtered content
\* is permanent, a truncated answer and one for other items call for a smaller
\* chunk, one that is not of the schema for a repair.
Undecoded == {"permanent", "mismatch", "invalid"}

\* What the answers of a chunk are validated to: one for each item and for no
\* other, in the right language, with every protected token.
Validated == Values \union {"mismatch", "invalid"}

\* The provider answers, or the request fails or times out; a cancelled
\* context wins.  One more await is left before the slot is given back.
Answer(t) ==
    /\ Running /\ task[t].at = "asking"
    /\ \E answer \in Undelivered \union Undecoded \union Validated :
         SetTask(t, [task[t] EXCEPT !.at = "leaving", !.answer = answer])
    /\ UNCHANGED <<main, cache, written, cancelled, shared, outcome, counts>>

\* A cancelled request that raises without its slot.
Notice_KeepsSlot(t) ==
    /\ Running /\ task[t].at = "asking" /\ cancelled
    /\ Fail(t, "cancelled")
    /\ UNCHANGED <<cache, written, cancelled, shared, outcome, counts>>

Notice(t) ==
    /\ Running /\ task[t].at = "asking" /\ cancelled
    /\ SetTask(t, [task[t] EXCEPT !.at = "leaving", !.answer = "cancelled"])
    /\ UNCHANGED <<main, cache, written, cancelled, shared, outcome, counts>>

\* Retries without a limit, whose count starts again.
Retry_Unlimited(t) ==
    /\ SetTask(t, [task[t] EXCEPT !.at = "backoff", !.tries = 0, !.answer = "none"])
    /\ UNCHANGED main

\* StructuredLLMService tries again, a bounded number of times a request.
Retry(t) ==
    \/ /\ task[t].tries < MaxRetries /\ ~cancelled
       /\ SetTask(t, [task[t] EXCEPT !.at = "backoff", !.tries = @ + 1, !.answer = "none"])
       /\ UNCHANGED main
    \/ task[t].tries < MaxRetries /\ cancelled /\ Fail(t, "cancelled")
    \/ task[t].tries = MaxRetries /\ Fail(t, "failed")

\* One repair of a piece, if its larger request fits the budget.
Repair(t) ==
    \/ /\ ~task[t].repair /\ ~cancelled
       /\ SetTask(t, [task[t] EXCEPT !.at = "waiting", !.repair = TRUE, !.tries = 0, !.answer = "none"])
       /\ UNCHANGED main
    \/ ~task[t].repair /\ cancelled /\ Fail(t, "cancelled")
    \/ (task[t].repair \/ ~cancelled) /\ Fail(t, "failed")

\* Two pieces or more are cut in half, one fails the chunk.
Split(t) ==
    \/ /\ Length(Key(t)) >= 2
       /\ SetTask(t, [task[t] EXCEPT !.at = "ready", !.repair = FALSE, !.tries = 0, !.answer = "none",
                                     !.todo = <<Left(Key(t)), Right(Key(t))>> \o Tail(@)])
       /\ UNCHANGED main
    \/ Length(Key(t)) = 1 /\ Fail(t, "failed")

\* A validated answer is stored and its key noted, with no await in between.
\* The write may fail before the entry is in place, or after.
Store(t, value) ==
    \/ /\ cache' = [cache EXCEPT ![Key(t)] = value]
       /\ written' = written \union {Key(t)}
       /\ SetTask(t, Answered(t, value))
       /\ UNCHANGED <<main, faults>>
    \/ /\ Fault
       /\ cache' \in {cache, [cache EXCEPT ![Key(t)] = value]}
       /\ Fail(t, "failed")
       /\ UNCHANGED written

\* The slot is given back and the answer judged.
Leave(t) ==
    /\ Running /\ task[t].at = "leaving"
    /\ free' = free + 1
    /\ LET answer == task[t].answer IN
       \/ /\ answer \in Values /\ ~cancelled
          /\ Store(t, answer)
       \/ /\ \/ answer = "cancelled" /\ Fail(t, "cancelled")
             \/ answer \in Values /\ cancelled /\ Fail(t, "cancelled")
             \/ answer = "permanent" /\ Fail(t, "failed")
             \/ answer = "transient" /\ Retry(t)
             \/ answer = "invalid" /\ Repair(t)
             \/ answer = "mismatch" /\ Split(t)
          /\ UNCHANGED <<cache, written, faults>>
    /\ UNCHANGED <<cancelled, leaked, loop, bound, outcome, runs>>

\* The backoff is over.
Wake(t) ==
    /\ Running /\ task[t].at = "backoff" /\ ~cancelled
    /\ SetTask(t, [task[t] EXCEPT !.at = "waiting"])
    /\ UNCHANGED <<main, cache, written, cancelled, shared, outcome, counts>>

-----------------------------------------------------------------------------
(* execute: the end of all tasks                                            *)

\* The keys noted by one execution are still noted in the next.
End_KeepsWritten(result) ==
    /\ main' = Resting /\ outcome' = result
    /\ task' = [t \in Chunks |-> NoTask] /\ written' = written /\ cancelled' = FALSE

End(result) ==
    /\ main' = Resting /\ outcome' = result
    /\ task' = [t \in Chunks |-> NoTask] /\ written' = {} /\ cancelled' = FALSE

\* _cleanup_written_keys: each key by itself, so one may stay.
Forget ==
    \/ cache' = [k \in Cores |-> IF k \in written THEN "none" ELSE cache[k]] /\ UNCHANGED faults
    \/ /\ Fault
       /\ \E left \in SUBSET written :
            cache' = [k \in Cores |-> IF k \in written \ left THEN "none" ELSE cache[k]]

\* Every item answered once; the aggregate validator has the last word.
Conflict == \E t, u \in Chunks : \E v \in task[t].got : \E w \in task[u].got : v # w

\* Answers that fail together are kept.
Finish_KeepsConflict ==
    /\ Running /\ \A t \in Chunks : task[t].at = "done"
    /\ End(IF Conflict THEN "failed" ELSE "ok")
    /\ UNCHANGED <<cache, faults, shared, runs>>

Finish ==
    /\ Running /\ \A t \in Chunks : task[t].at = "done"
    /\ \/ ~Conflict /\ End("ok") /\ UNCHANGED <<cache, faults>>
       \/ Conflict /\ Forget /\ End("failed")
    /\ UNCHANGED <<shared, runs>>

\* _cancel_tasks: CancelledError ends every task at its await.  A request is
\* cancelled and awaited, then the task that watched for a cancellation, and
\* then the slot is given back: an error that strikes in that last await, of the
\* finally clause, takes the slot along.  So it does in a task whose answer is
\* there, and it may in one that has noticed the cancellation.  Tasks that were
\* cancelled before are cancelled again, all but the first that ends.
StopTasks(error, before) ==
    LET At(state) == {t \in Chunks : task[t].at = state}
        noticed == {t \in At("leaving") : task[t].answer = "cancelled"}
        live == {t \in Chunks : task[t].at \notin Ended}
    IN \E lost \in SUBSET (At("asking") \union noticed) :
        /\ At("asking") \intersect lost = {} \/ (before /\ At("asking") \intersect lost # live)
        /\ LET given == (At("asking") \union noticed) \ lost IN
           /\ task' = [t \in Chunks |-> IF t \in live THEN [NoTask EXCEPT !.at = "dropped"] ELSE task[t]]
           /\ main' = [at |-> "unwinding", error |-> error, stopping |-> Cardinality(given)]
           /\ free' = free + Cardinality(given)
           /\ leaked' = leaked + Cardinality(Holders \ given)

\* The first error reaches execute.
Unwind ==
    /\ Running /\ main.error # "none"
    /\ StopTasks(main.error, FALSE)
    /\ UNCHANGED <<cache, written, cancelled, loop, bound, outcome, counts>>

\* The caller's own task is cancelled, and with it every task, unless an error
\* has ended the gather.  A second time, while the tasks are awaited, it skips
\* the cleanup and may strike tasks in their last await.
Abandon ==
    \/ /\ Running
       /\ StopTasks("abandoned", main.error = "none")
       /\ UNCHANGED <<cache, written, cancelled, loop, bound, outcome, counts>>
    \/ /\ main.at = "unwinding" /\ Fault
       /\ \E lost \in 0 .. main.stopping : free' = free - lost /\ leaked' = leaked + lost
       /\ End("abandoned")
       /\ UNCHANGED <<cache, loop, bound, runs>>

Clean ==
    /\ main.at = "unwinding"
    /\ Forget
    /\ End(main.error)
    /\ UNCHANGED <<shared, runs>>

-----------------------------------------------------------------------------
(* Faults                                                                   *)

\* The process dies amid an execution; the next one has its own semaphore.
Crash ==
    /\ main.at # "idle" /\ Fault
    /\ End("crashed")
    /\ free' = MaxConcurrency /\ leaked' = 0 /\ bound' = 0
    /\ UNCHANGED <<cache, loop, runs>>

\* An entry is damaged on the disk.
Rot ==
    /\ main.at = "idle" /\ Fault
    /\ \E k \in Cores : cache[k] \in Values /\ cache' = [cache EXCEPT ![k] = "bad"]
    /\ UNCHANGED <<main, task, written, cancelled, shared, outcome, runs>>

-----------------------------------------------------------------------------

Step(t) ==
    Look(t) \/ Acquire(t) \/ Contend(t) \/ GiveUp(t) \/ Notice(t) \/ Leave(t) \/ Wake(t)

Main == Finish \/ Unwind \/ Clean

Next ==
    \/ Execute \/ Cancel \/ Abandon \/ Main
    \/ \E t \in Chunks : Step(t) \/ Answer(t)
    \/ Crash \/ Rot

\* The event loop runs what is ready, and a request ends by its timeout.
Fairness ==
    /\ WF_vars(Main)
    /\ \A t \in Chunks : WF_vars(Step(t)) /\ WF_vars(Answer(t))

Spec == Init /\ [][Next]_vars /\ Fairness

-----------------------------------------------------------------------------
(* Properties                                                               *)

TaskStates == Ended \union Holding \union {"ready", "waiting", "backoff"}
Answers == Undelivered \union Undecoded \union Validated \union {"none", "cancelled"}
Tasks == [at : TaskStates, todo : Seq(Cores), repair : BOOLEAN, tries : 0 .. MaxRetries,
          answer : Answers, got : SUBSET Values]
Entries == Values \union {"bad", "none"}

MainOK == main \in [at : {"idle", "running", "unwinding"}, error : {"none", "failed", "cancelled", "abandoned"},
                   stopping : Nat]
\* A task that is not over has a piece to be answered.
TaskOK == /\ task \in [Chunks -> Tasks]
          /\ \A t \in Chunks : task[t].at \notin Ended => task[t].todo # <<>>
CacheOK == cache \in [Cores -> Entries] /\ written \subseteq Cores /\ cancelled \in BOOLEAN
SlotsOK == free \in Nat /\ leaked \in Nat /\ loop \in Nat /\ bound \in 0 .. loop

BoundsOK == runs \in 0 .. MaxRuns /\ faults \in 0 .. MaxFaults
TypeOK == MainOK /\ TaskOK /\ CacheOK /\ SlotsOK /\ BoundsOK

\* Answers that no execution under way may still take back.
Pending == IF main.at = "idle" THEN {} ELSE written
Settled == {<<k, cache[k]>> : k \in {core \in Cores : cache[core] \in Values} \ Pending}

\* An execution that fails leaves none of its answers for the next one to meet:
\* neither a chunk that fails for good nor answers that conflict, whatever the
\* other tasks write while the error spreads.  Nothing is asked of an execution
\* that is cancelled (the docs have it keep its answers, the code removes them),
\* and a crash, a disk that fails or an interrupted cleanup may leave some.
FailureLeavesNothing ==
    [][\/ Settled' \subseteq Settled
       \/ main'.at = "idle" /\ outcome' \in {"ok", "cancelled", "abandoned"}
       \/ faults' # faults]_vars

\* What an execution did not write it does not take away: the answers of earlier
\* executions outlive the failures, the conflicts and the cancellations of later
\* ones, whose cleanup goes by the keys they noted.  Only damage loses them.
EarlierKept == [][Settled \subseteq Settled' \/ faults' # faults]_vars

\* "Cancellation removes incomplete tasks and temporary Cache files while
\* retaining already committed valid entries", docs/llm.md says of the cache.
CancellationRetains ==
    [][main'.at = "idle" /\ outcome' = "cancelled" =>
         \A k \in Cores : cache[k] \in Values => cache'[k] = cache[k]]_vars

\* Every slot is free or held by a request, whichever way requests end; the
\* one exception, an error that strikes ahead of the release, is counted in
\* leaked.
SlotsReturned == free + leaked + Cardinality(Holders) = MaxConcurrency

\* An execution ends: always when it is cancelled, and otherwise as long as
\* there is a slot left.
Ends == main.at # "idle" /\ (cancelled \/ leaked < MaxConcurrency) ~> main.at = "idle"

=============================================================================
