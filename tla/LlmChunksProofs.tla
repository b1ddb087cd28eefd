---------------------------- MODULE LlmChunksProofs ----------------------------
(***************************************************************************)
(* For any plan, answers, slots and bounds: every slot of the semaphore is *)
(* free, held by a request or counted as leaked, and an execution that     *)
(* fails leaves none of its answers in the cache.                          *)
(***************************************************************************)
EXTENDS LlmChunks, FiniteSetTheorems, TLAPS

\* When no execution runs its tasks, none of them holds a slot.
OnlyRunningHold == Running \/ Holders = {}

\* Slots in the hands of stopped tasks were counted as free.  An execution that
\* is over leaves no such slots and no keys.
StoppingOK ==
    /\ main.stopping <= free /\ (main.at # "unwinding" => main.stopping = 0)
    /\ main.at = "idle" => written = {}

Inv == TypeOK /\ OnlyRunningHold /\ StoppingOK /\ SlotsReturned

-----------------------------------------------------------------------------
(* The tasks                                                                *)

\* A plan is finite: it has a chunk for some of the positions.
LEMMA ChunksFinite == IsFiniteSet(Chunks)
<1> DEFINE b == Boundary(Config)
           D == {j \in 1 .. Config.n : b[j - 1] < b[j]}
           f == [i \in D |-> <<b[i - 1], b[i]>>]
<1>1. IsFiniteSet(D)
  <2>1. Config.n \in Int /\ D \in SUBSET (1 .. Config.n)
    BY ExecutorAssumption DEF IsConfig
  <2>2. IsFiniteSet(1 .. Config.n)
    BY <2>1, FS_Interval
  <2> QED
    BY <2>1, <2>2, FS_Subset
<1>2. Chunks = {<<b[i - 1], b[i]>> : i \in D}
  BY DEF Chunks, Plan
<1>3. f \in Surjection(D, Chunks)
  BY <1>2 DEF Surjection
<1> QED
  BY <1>1, <1>3, FS_Surjection

\* The tasks that hold slots can be counted.
LEMMA HoldersFinite == IsFiniteSet(Holders) /\ Cardinality(Holders) \in Nat
BY ChunksFinite, FS_Subset, FS_CardinalityType DEF Holders

Ready(r) == r \in Tasks /\ (r.at \notin Ended => r.todo # <<>>)
Count(r) == IF r.at \in Holding THEN 1 ELSE 0

\* One task changes: the holders are counted anew.
LEMMA OneTask ==
    ASSUME TaskOK, NEW t \in Chunks, NEW r, Ready(r), SetTask(t, r)
    PROVE  /\ TaskOK'
           /\ Cardinality(Holders)' = Cardinality(Holders) + Count(r) - Count(task[t])
<1>1. TaskOK' /\ task'[t] = r /\ \A u \in Chunks \ {t} : task'[u] = task[u]
  BY DEF TaskOK, Ready, SetTask
<1>2. Holders' = IF r.at \in Holding THEN Holders \union {t} ELSE Holders \ {t}
  BY <1>1 DEF Holders
<1>3. t \in Holders <=> task[t].at \in Holding
  BY DEF Holders
<1>4. IsFiniteSet(Holders) /\ Cardinality(Holders) \in Nat
  BY HoldersFinite
<1>5. CASE r.at \in Holding
  <2>1. Cardinality(Holders \union {t}) = IF t \in Holders THEN Cardinality(Holders) ELSE Cardinality(Holders) + 1
    BY <1>4, FS_AddElement
  <2> QED
    BY <1>1, <1>2, <1>3, <1>4, <1>5, <2>1 DEF Count
<1>6. CASE r.at \notin Holding
  <2>1. Cardinality(Holders \ {t}) = IF t \in Holders THEN Cardinality(Holders) - 1 ELSE Cardinality(Holders)
    BY <1>4, FS_RemoveElement
  <2> QED
    BY <1>1, <1>2, <1>3, <1>4, <1>6, <2>1 DEF Count
<1> QED
  BY <1>5, <1>6

\* All tasks are given up or started: none holds a slot.
LEMMA NoHolders ==
    ASSUME \A t \in Chunks : task'[t].at \notin Holding
    PROVE  Holders' = {} /\ Cardinality(Holders)' = 0
BY FS_EmptySet DEF Holders

\* The state of a task that does not exist.
LEMMA NoTaskIsOne == NoTask \in Tasks /\ NoTask.at = "none" /\ NoTask.got = {}
BY ExecutorAssumption DEF NoTask, Tasks, TaskStates, Ended, Answers

\* Without tasks nobody holds a slot.
LEMMA NoTasks ==
    ASSUME task' = [t \in Chunks |-> NoTask]
    PROVE  TaskOK' /\ Holders' = {} /\ Cardinality(Holders)' = 0
BY NoTaskIsOne, NoHolders DEF TaskOK, Ended, Holding

\* Halves of a core of two items or more are cores.
LEMMA Halved ==
    ASSUME NEW core \in Cores, Length(core) >= 2
    PROVE  Left(core) \in Cores /\ Right(core) \in Cores
<1>1. PICK a \in 0 .. Config.n, b \in 0 .. Config.n : core = <<a, b>> /\ a < b /\ b - a <= Config.maxItems
  BY DEF Cores, Length
<1>2. Config.n \in Nat /\ Config.maxItems \in Nat
  BY ExecutorAssumption DEF IsConfig
<1>3. b - a >= 2
  BY <1>1 DEF Length
<1>4. PICK h \in Nat : h = (b - a) \div 2 /\ 0 < h /\ h < b - a
  BY <1>1, <1>2, <1>3
<1>5. Left(core) = <<a, a + h>> /\ Right(core) = <<a + h, b>>
  BY <1>1, <1>4 DEF Left, Right, Length
<1> QED
  BY <1>1, <1>2, <1>4, <1>5 DEF Cores, Length

-----------------------------------------------------------------------------
(* A step of a task: what it becomes and what happens to its slot           *)

Becomes(t, r) ==
    /\ Ready(r) /\ SetTask(t, r)
    /\ free' = free + Count(task[t]) - Count(r) /\ free' \in Nat /\ leaked' = leaked
    /\ main'.at = main.at /\ main'.stopping = main.stopping /\ MainOK'

Live(t) == t \in Chunks /\ TaskOK /\ MainOK /\ SlotsOK /\ main.at = "running" /\ task[t].at \notin Ended

\* A live task has a next piece of work.
LEMMA LiveIs ==
    ASSUME NEW t, Live(t)
    PROVE  /\ task[t] \in Tasks /\ task[t].todo \in Seq(Cores) /\ task[t].todo # <<>>
           /\ Key(t) \in Cores /\ Tail(task[t].todo) \in Seq(Cores)
BY DEF Live, TaskOK, Tasks, Key

\* The parts of a task.
LEMMA TaskIs == 
    ASSUME NEW r \in Tasks
    PROVE  /\ r.todo \in Seq(Cores) /\ r.repair \in BOOLEAN /\ r.tries \in 0 .. MaxRetries
           /\ r.answer \in Answers /\ r.got \in SUBSET Values /\ r.at \in TaskStates
BY DEF Tasks

\* A task that goes on with the same pieces.
LEMMA GoesOn ==
    ASSUME NEW t, Live(t), NEW r \in Tasks, r.todo # <<>>, SetTask(t, r), main' = main,
           free' = free + Count(task[t]) - Count(r), free' \in Nat, leaked' = leaked
    PROVE  Becomes(t, r)
BY DEF Becomes, Ready, Live, MainOK

\* A task that fails gives back what it holds.
LEMMA Fails ==
    ASSUME NEW t, Live(t), NEW error \in {"failed", "cancelled"}, Fail(t, error),
           free' = free + Count(task[t]), leaked' = leaked
    PROVE  \E r : Becomes(t, r)
<1> DEFINE r == [NoTask EXCEPT !.at = "failed"]
<1>1. Ready(r) /\ Count(r) = 0 /\ SetTask(t, r)
  BY NoTaskIsOne DEF Ready, Count, Tasks, TaskStates, Ended, Holding, Fail
<1>2. main'.at = main.at /\ main'.stopping = main.stopping /\ MainOK'
  BY DEF Fail, MainOK, Live
<1>3. free \in Nat /\ Count(task[t]) \in Nat
  BY DEF Live, SlotsOK, Count
<1>4. free' = free + Count(task[t]) - Count(r) /\ free' \in Nat
  BY <1>1, <1>3
<1> HIDE DEF r
<1>5. Becomes(t, r)
  BY <1>1, <1>2, <1>4 DEF Becomes
<1> QED
  BY <1>5

\* A task that takes an answer to one key and turns to its next piece.
LEMMA WithAnswer ==
    ASSUME NEW q \in Tasks, NEW at \in TaskStates, NEW todo \in Seq(Cores), NEW value \in Values,
           "none" \in Answers, 0 \in 0 .. MaxRetries
    PROVE  [q EXCEPT !.at = at, !.todo = todo, !.repair = FALSE, !.tries = 0, !.answer = "none",
                     !.got = @ \union {value}] \in Tasks
BY DEF Tasks

\* So does the task of Answered, which holds no slot afterwards.
LEMMA AnsweredIs ==
    ASSUME NEW t, Live(t), NEW value \in Values, SetTask(t, Answered(t, value)), main' = main,
           free' = free + Count(task[t]), leaked' = leaked
    PROVE  \E r : Becomes(t, r)
<1> DEFINE r == Answered(t, value)
<1>1. task[t] \in Tasks /\ Tail(task[t].todo) \in Seq(Cores)
  BY LiveIs
<1>2. r \in Tasks
  <2>1. "done" \in TaskStates /\ "ready" \in TaskStates /\ "none" \in Answers /\ 0 \in 0 .. MaxRetries
    BY ExecutorAssumption DEF TaskStates, Ended, Answers
  <2> QED
    BY <1>1, <2>1, WithAnswer DEF Answered
<1>3. r.at \in {"done", "ready"} /\ (r.at = "ready" => r.todo # <<>>)
  BY <1>1 DEF Answered, Tasks
<1>4. Ready(r) /\ Count(r) = 0
  BY <1>2, <1>3 DEF Ready, Ended, Count, Holding
<1>5. free \in Nat /\ Count(task[t]) \in Nat
  BY DEF Live, SlotsOK, Count
<1>6. free' = free + Count(task[t]) - Count(r) /\ free' \in Nat
  BY <1>4, <1>5
<1>7. main'.at = main.at /\ main'.stopping = main.stopping /\ MainOK'
  BY DEF Live, MainOK
<1> HIDE DEF r
<1>8. SetTask(t, r)
  BY DEF r
<1>9. Becomes(t, r)
  BY <1>4, <1>6, <1>7, <1>8 DEF Becomes
<1> QED
  BY <1>9

\* The slots after a task's step are as many as before it.
LEMMA CountStep ==
    ASSUME Inv, NEW t \in Chunks, NEW r, Becomes(t, r)
    PROVE  /\ TaskOK' /\ MainOK' /\ free' \in Nat /\ leaked' \in Nat /\ SlotsReturned'
           /\ main'.at = main.at /\ main'.stopping = main.stopping
<1>1. TaskOK' /\ Cardinality(Holders)' = Cardinality(Holders) + Count(r) - Count(task[t])
  BY OneTask DEF Inv, TypeOK, Becomes
<1>2. Cardinality(Holders) \in Nat /\ free \in Nat /\ leaked \in Nat /\ MaxConcurrency \in Nat
  BY HoldersFinite, ExecutorAssumption DEF Inv, TypeOK, SlotsOK
<1>3. Cardinality(Holders') \in Nat
  BY <1>1, HoldersFinite, ChunksFinite, FS_Subset, FS_CardinalityType DEF Holders
<1>4. Count(r) \in {0, 1} /\ Count(task[t]) \in {0, 1} /\ (Count(r) = 1 => r.at \in Holding)
  BY DEF Count
<1> QED
  BY <1>1, <1>2, <1>3, <1>4 DEF Becomes, Inv, SlotsReturned

-----------------------------------------------------------------------------
(* The steps of a task                                                      *)

\* The constants that the actions write.
LEMMA Words ==
    /\ "ready" \in TaskStates /\ "waiting" \in TaskStates /\ "asking" \in TaskStates
    /\ "leaving" \in TaskStates /\ "backoff" \in TaskStates
    /\ "none" \in Answers /\ "cancelled" \in Answers /\ Undelivered \union Undecoded \union Validated \subseteq Answers
    /\ 0 \in 0 .. MaxRetries
BY ExecutorAssumption DEF TaskStates, Ended, Holding, Answers

\* A look into the cache changes one task and takes no slot.
LEMMA LookIs ==
    ASSUME Inv, NEW t \in Chunks, Look(t)
    PROVE  (\E r : Becomes(t, r)) /\ CacheOK'
<1>1. Live(t) /\ Count(task[t]) = 0 /\ free' = free /\ leaked' = leaked /\ free \in Nat
  BY DEF Look, Inv, TypeOK, Live, Running, Ended, Count, Holding, shared, SlotsOK
<1>2. CacheOK'
  BY <1>1, LiveIs DEF Inv, TypeOK, CacheOK, Look, Entries
<1>3. CASE \E error \in {"failed", "cancelled"} : Fail(t, error)
  BY <1>1, <1>2, <1>3, Fails
<1>4. CASE cache[Key(t)] \in Values /\ SetTask(t, Answered(t, cache[Key(t)])) /\ main' = main
  BY <1>1, <1>2, <1>4, AnsweredIs
<1>5. CASE SetTask(t, [task[t] EXCEPT !.at = "waiting"]) /\ main' = main
  <2> DEFINE r == [task[t] EXCEPT !.at = "waiting"]
  <2>1. r \in Tasks /\ r.todo # <<>> /\ r.at = "waiting"
    BY <1>1, LiveIs, Words DEF Tasks
  <2>2. Count(r) = 0
    BY <2>1 DEF Count, Holding
  <2> HIDE DEF r
  <2>3. Becomes(t, r)
    <3>1. SetTask(t, r)
      BY <1>5 DEF r
    <3> QED
      BY <1>1, <1>5, <2>1, <2>2, <3>1, GoesOn
  <2> QED
    BY <1>2, <2>3
<1> QED
  BY <1>3, <1>4, <1>5 DEF Look

\* A task that is moved to another place, or also given an answer.
LEMMA Moves ==
    ASSUME NEW t, Live(t), NEW at \in TaskStates
    PROVE  LET r == [task[t] EXCEPT !.at = at] IN r \in Tasks /\ r.todo # <<>> /\ r.at = at
BY LiveIs DEF Tasks

\* A live task that moves stays a task.
LEMMA MovesWith ==
    ASSUME NEW t, Live(t), NEW at \in TaskStates, NEW answer \in Answers
    PROVE  LET r == [task[t] EXCEPT !.at = at, !.answer = answer] IN r \in Tasks /\ r.todo # <<>> /\ r.at = at
BY LiveIs DEF Tasks

\* The steps around a request change one task at most, with its slot counted.
LEMMA PlaceIs ==
    ASSUME Inv, NEW t \in Chunks, Acquire(t) \/ Contend(t) \/ GiveUp(t) \/ Answer(t) \/ Notice(t) \/ Wake(t)
    PROVE  ((\E r : Becomes(t, r)) \/ UNCHANGED <<main, task, free, leaked>>) /\ CacheOK'
<1>1. CacheOK' /\ leaked' = leaked /\ free \in Nat
  BY DEF Acquire, Contend, GiveUp, Answer, Notice, Wake, Inv, TypeOK, CacheOK, shared, SlotsOK
<1>2. Live(t)
  BY DEF Acquire, Contend, GiveUp, Answer, Notice, Wake, Inv, TypeOK, Live, Running, Ended
<1>3. CASE GiveUp(t) \/ (Contend(t) /\ Fail(t, "failed"))
  <2>1. Count(task[t]) = 0 /\ free' = free /\ \E error \in {"failed", "cancelled"} : Fail(t, error)
    BY <1>3 DEF GiveUp, Contend, Count, Holding, shared
  <2> QED
    BY <1>1, <1>2, <2>1, Fails
<1>4. CASE Contend(t) /\ UNCHANGED <<main, task>>
  BY <1>1, <1>4 DEF Contend
<1>5. CASE Acquire(t)
  <2> DEFINE r == [task[t] EXCEPT !.at = "asking"]
  <2>1. r \in Tasks /\ r.todo # <<>> /\ r.at = "asking"
    BY <1>2, Moves, Words
  <2>2. Count(r) = 1 /\ Count(task[t]) = 0 /\ free' = free - 1 /\ free' \in Nat /\ main' = main
    BY <1>1, <1>5, <2>1 DEF Count, Holding, Acquire
  <2>3. SetTask(t, r)
    BY <1>5 DEF Acquire
  <2> HIDE DEF r
  <2> QED
    BY <1>1, <1>2, <2>1, <2>2, <2>3, GoesOn
<1>6. CASE Answer(t) \/ Notice(t)
  <2>1. PICK answer \in Answers : SetTask(t, [task[t] EXCEPT !.at = "leaving", !.answer = answer])
    BY <1>6, Words DEF Answer, Notice
  <2> DEFINE r == [task[t] EXCEPT !.at = "leaving", !.answer = answer]
  <2>2. r \in Tasks /\ r.todo # <<>> /\ r.at = "leaving"
    BY <1>2, MovesWith, Words
  <2>3. Count(r) = 1 /\ Count(task[t]) = 1 /\ free' = free /\ main' = main
    BY <1>6, <2>2 DEF Count, Holding, Answer, Notice, shared
  <2>4. SetTask(t, r)
    BY <2>1
  <2> HIDE DEF r
  <2> QED
    BY <1>1, <1>2, <2>2, <2>3, <2>4, GoesOn
<1>7. CASE Wake(t)
  <2> DEFINE r == [task[t] EXCEPT !.at = "waiting"]
  <2>1. r \in Tasks /\ r.todo # <<>> /\ r.at = "waiting"
    BY <1>2, Moves, Words
  <2>2. Count(r) = 0 /\ Count(task[t]) = 0 /\ free' = free /\ main' = main
    BY <1>7, <2>1 DEF Count, Holding, Wake, shared
  <2>3. SetTask(t, r)
    BY <1>7 DEF Wake
  <2> HIDE DEF r
  <2> QED
    BY <1>1, <1>2, <2>1, <2>2, <2>3, GoesOn
<1> QED
  BY <1>3, <1>4, <1>5, <1>6, <1>7 DEF Contend

\* A task lets go of its slot: it is over, asked again, repaired or cut in two.
LEMMA LeaveIs ==
    ASSUME Inv, NEW t \in Chunks, Leave(t)
    PROVE  (\E r : Becomes(t, r)) /\ CacheOK'
<1> DEFINE answer == task[t].answer
<1>1. Live(t) /\ Count(task[t]) = 1 /\ free' = free + 1 /\ free \in Nat /\ free' \in Nat /\ leaked' = leaked
  BY DEF Leave, Inv, TypeOK, Live, Running, Ended, Count, Holding, SlotsOK
<1>2. CacheOK'
  BY <1>1, LiveIs DEF Inv, TypeOK, CacheOK, Leave, Store, Entries
<1>3. task[t] \in Tasks /\ task[t].tries \in 0 .. MaxRetries /\ MaxRetries \in Nat /\ task[t].todo # <<>>
  BY <1>1, LiveIs, TaskIs, ExecutorAssumption
<1>4. ASSUME NEW r \in Tasks, r.todo # <<>>, r.at \in {"backoff", "waiting", "ready"}, SetTask(t, r), main' = main
      PROVE  \E q : Becomes(t, q)
  <2>1. Count(r) = 0
    BY <1>4 DEF Count, Holding
  <2> QED
    BY <1>1, <1>4, <2>1, GoesOn
<1>5. CASE \E error \in {"failed", "cancelled"} : Fail(t, error)
  BY <1>1, <1>2, <1>5, Fails
<1>6. CASE \E value \in Values : SetTask(t, Answered(t, value)) /\ main' = main
  BY <1>1, <1>2, <1>6, AnsweredIs
<1>7. CASE Retry(t) /\ ~(\E error \in {"failed", "cancelled"} : Fail(t, error))
  <2>1. task[t].tries < MaxRetries /\ main' = main
        /\ SetTask(t, [task[t] EXCEPT !.at = "backoff", !.tries = @ + 1, !.answer = "none"])
    BY <1>7 DEF Retry
  <2> DEFINE r == [task[t] EXCEPT !.at = "backoff", !.tries = @ + 1, !.answer = "none"]
  <2>2. task[t].tries + 1 \in 0 .. MaxRetries
    BY <1>3, <2>1
  <2>3. r \in Tasks /\ r.todo # <<>> /\ r.at = "backoff"
    BY <1>3, <2>2, Words DEF Tasks
  <2>4. SetTask(t, r)
    BY <2>1
  <2> HIDE DEF r
  <2> QED
    BY <1>2, <1>4, <2>1, <2>3, <2>4
<1>8. CASE Repair(t) /\ ~(\E error \in {"failed", "cancelled"} : Fail(t, error))
  <2>1. main' = main /\ SetTask(t, [task[t] EXCEPT !.at = "waiting", !.repair = TRUE, !.tries = 0, !.answer = "none"])
    BY <1>8 DEF Repair
  <2> DEFINE r == [task[t] EXCEPT !.at = "waiting", !.repair = TRUE, !.tries = 0, !.answer = "none"]
  <2>2. r \in Tasks /\ r.todo # <<>> /\ r.at = "waiting"
    BY <1>3, Words DEF Tasks
  <2>3. SetTask(t, r)
    BY <2>1
  <2> HIDE DEF r
  <2> QED
    BY <1>2, <1>4, <2>1, <2>2, <2>3
<1>9. CASE Split(t) /\ ~(\E error \in {"failed", "cancelled"} : Fail(t, error))
  <2> DEFINE todo == <<Left(Key(t)), Right(Key(t))>> \o Tail(task[t].todo)
  <2>1. Length(Key(t)) >= 2 /\ main' = main
        /\ SetTask(t, [task[t] EXCEPT !.at = "ready", !.repair = FALSE, !.tries = 0, !.answer = "none", !.todo = todo])
    BY <1>9 DEF Split
  <2>2. Left(Key(t)) \in Cores /\ Right(Key(t)) \in Cores /\ Tail(task[t].todo) \in Seq(Cores)
    BY <1>1, <2>1, LiveIs, Halved
  <2>3. todo \in Seq(Cores) /\ todo # <<>>
    BY <2>2
  <2> DEFINE r == [task[t] EXCEPT !.at = "ready", !.repair = FALSE, !.tries = 0, !.answer = "none", !.todo = todo]
  <2> HIDE DEF todo
  <2>4. r \in Tasks /\ r.todo # <<>> /\ r.at = "ready"
    BY <1>3, <2>3, Words DEF Tasks
  <2>5. SetTask(t, r)
    BY <2>1
  <2> HIDE DEF r
  <2> QED
    BY <1>2, <1>4, <2>1, <2>4, <2>5
<1> QED
  BY <1>5, <1>6, <1>7, <1>8, <1>9 DEF Leave, Store

-----------------------------------------------------------------------------
(* The invariant                                                            *)

\* At first no task exists and every slot is free.
LEMMA InitInv == Init => Inv
<1> SUFFICES ASSUME Init PROVE Inv
  OBVIOUS
<1>1. MaxConcurrency \in Nat
  BY ExecutorAssumption
<1>2. MainOK /\ CacheOK
  BY DEF Init, MainOK, CacheOK, Resting, Entries
<1>5. SlotsOK /\ BoundsOK
  BY <1>1, ExecutorAssumption DEF Init, SlotsOK, BoundsOK
<1>3. TaskOK
  BY NoTaskIsOne DEF Init, TaskOK, Ended
<1>4. Holders = {} /\ Cardinality(Holders) = 0
  BY NoTaskIsOne, FS_EmptySet DEF Init, Holders, Holding
<1> QED
  BY <1>1, <1>2, <1>3, <1>4, <1>5 DEF Inv, TypeOK, OnlyRunningHold, StoppingOK, SlotsReturned, Init, Resting

\* What the steps of the tasks and those of execute do to the event loops.
LEMMA LoopsStep == Inv /\ [Next]_vars => (loop' \in Nat /\ bound' \in 0 .. loop')
<1> SUFFICES ASSUME Inv, [Next]_vars PROVE loop' \in Nat /\ bound' \in 0 .. loop'
  OBVIOUS
<1>1. loop \in Nat /\ bound \in 0 .. loop
  BY DEF Inv, TypeOK, SlotsOK
<1>2. CASE Execute
  <2>1. loop' \in {loop, loop + 1} /\ bound' = bound
    BY <1>2 DEF Execute
  <2> QED
    BY <1>1, <2>1
<1>3. CASE Crash
  BY <1>1, <1>3 DEF Crash
<1>4. CASE \E t \in Chunks : Contend(t)
  BY <1>1, <1>4 DEF Contend
<1>5. CASE UNCHANGED <<loop, bound>>
  BY <1>1, <1>5
<1>6. CASE \E t \in Chunks : Look(t) \/ Acquire(t) \/ GiveUp(t) \/ Notice(t) \/ Leave(t) \/ Wake(t) \/ Answer(t)
  BY <1>5, <1>6 DEF Look, Acquire, GiveUp, Notice, Leave, Wake, Answer, shared
<1>7. CASE Cancel \/ Abandon \/ Main \/ Rot \/ UNCHANGED vars
  BY <1>5, <1>7 DEF Cancel, Abandon, Main, Finish, Unwind, Clean, Rot, vars, shared
<1> QED
  BY <1>2, <1>3, <1>4, <1>6, <1>7 DEF Next, Step

\* Executions and faults stay within their bounds.
LEMMA BoundsStep == Inv /\ [Next]_vars => BoundsOK'
<1> SUFFICES ASSUME Inv, [Next]_vars PROVE BoundsOK'
  OBVIOUS
<1>1. runs \in 0 .. MaxRuns /\ faults \in 0 .. MaxFaults /\ MaxRuns \in Nat /\ MaxFaults \in Nat
  BY ExecutorAssumption DEF Inv, TypeOK, BoundsOK
<1>2. CASE UNCHANGED counts
  BY <1>2 DEF Inv, TypeOK, BoundsOK, counts
<1>3. CASE Execute
  <2>1. runs < MaxRuns /\ runs' = runs + 1 /\ faults' = faults
    BY <1>3 DEF Execute
  <2> QED
    BY <1>1, <2>1 DEF BoundsOK
<1>4. ASSUME runs' = runs, Fault \/ UNCHANGED faults PROVE BoundsOK'
  BY <1>1, <1>4 DEF BoundsOK, Fault
<1>5. CASE \E t \in Chunks : Look(t) \/ Leave(t)
  BY <1>4, <1>5 DEF Look, Leave, Store
<1>6. CASE Abandon \/ Main \/ Crash \/ Rot
  BY <1>4, <1>6 DEF Abandon, Main, Finish, Unwind, Clean, Crash, Rot, Forget, counts
<1>7. CASE \E t \in Chunks : Acquire(t) \/ Contend(t) \/ GiveUp(t) \/ Notice(t) \/ Wake(t) \/ Answer(t)
  BY <1>2, <1>7 DEF Acquire, Contend, GiveUp, Notice, Wake, Answer
<1>8. CASE Cancel \/ UNCHANGED vars
  BY <1>2, <1>8 DEF Cancel, vars
<1> QED
  BY <1>3, <1>5, <1>6, <1>7, <1>8 DEF Next, Step

\* A removed entry leaves a cache.
LEMMA ForgetIs == ASSUME Inv, Forget PROVE cache' \in [Cores -> Entries]
BY DEF Inv, TypeOK, CacheOK, Forget, Entries

\* An execution is over: no task is left, and none held a slot unless it failed.
\* What its stopped tasks had in their hands may be lost.
LEMMA Over ==
    ASSUME Inv, NEW result, End(result), cache' \in [Cores -> Entries],
           \/ free' = MaxConcurrency /\ leaked' = 0
           \/ Holders = {} /\ \E lost \in 0 .. main.stopping : free' = free - lost /\ leaked' = leaked + lost
    PROVE  /\ TaskOK' /\ MainOK' /\ CacheOK' /\ free' \in Nat /\ leaked' \in Nat
           /\ SlotsReturned' /\ OnlyRunningHold' /\ StoppingOK'
<1>1. MaxConcurrency \in Nat /\ free \in Nat /\ leaked \in Nat
  BY ExecutorAssumption DEF Inv, TypeOK, SlotsOK
<1>2. TaskOK' /\ Holders' = {} /\ Cardinality(Holders)' = 0
  BY NoTasks DEF End
<1>3. MainOK' /\ CacheOK' /\ main'.at = "idle" /\ main'.stopping = 0 /\ written' = {}
  BY DEF End, MainOK, CacheOK, Resting
<1>4. Holders = {} => Cardinality(Holders) = 0
  BY FS_EmptySet
<1>6. main.stopping \in Nat /\ main.stopping <= free
  BY DEF Inv, TypeOK, MainOK, StoppingOK
<1>7. free' \in Nat /\ leaked' \in Nat /\ SlotsReturned'
  BY <1>1, <1>2, <1>4, <1>6 DEF SlotsReturned, Inv
<1> QED
  BY <1>2, <1>3, <1>7 DEF OnlyRunningHold, StoppingOK

\* The tasks are stopped: each slot is given back or lost.
LEMMA Stopped ==
    ASSUME Inv, NEW error \in {"failed", "cancelled", "abandoned"}, NEW before, StopTasks(error, before)
    PROVE  /\ TaskOK' /\ MainOK' /\ free' \in Nat /\ leaked' \in Nat
           /\ SlotsReturned' /\ OnlyRunningHold' /\ StoppingOK'
<1> DEFINE At(state) == {t \in Chunks : task[t].at = state}
           noticed == {t \in At("leaving") : task[t].answer = "cancelled"}
           live == {t \in Chunks : task[t].at \notin Ended}
           dropped == [NoTask EXCEPT !.at = "dropped"]
<1>1. PICK given \in SUBSET (At("asking") \union noticed) :
        /\ task' = [t \in Chunks |-> IF t \in live THEN dropped ELSE task[t]]
        /\ main' = [at |-> "unwinding", error |-> error, stopping |-> Cardinality(given)]
        /\ free' = free + Cardinality(given) /\ leaked' = leaked + Cardinality(Holders \ given)
  BY DEF StopTasks
<1>2. given \subseteq Holders
  BY DEF Holders, Holding
<1>3. IsFiniteSet(given) /\ Cardinality(given) \in Nat /\ Cardinality(Holders \ given) \in Nat
      /\ Cardinality(Holders) = Cardinality(given) + Cardinality(Holders \ given)
  <2>1. IsFiniteSet(given) /\ IsFiniteSet(Holders \ given) /\ IsFiniteSet(Holders)
    BY <1>2, HoldersFinite, FS_Subset
  <2>2. Cardinality(Holders \ given) = Cardinality(Holders) - Cardinality(Holders \intersect given)
    BY <2>1, FS_Difference
  <2>3. Holders \intersect given = given
    BY <1>2
  <2> DEFINE a == Cardinality(given)
             b == Cardinality(Holders \ given)
             c == Cardinality(Holders)
  <2>4. a \in Nat /\ b \in Nat /\ c \in Nat
    BY <2>1, FS_CardinalityType
  <2>5. b = c - a
    BY <2>2, <2>3
  <2> HIDE DEF a, b, c
  <2>6. c = a + b
    BY <2>4, <2>5
  <2> QED
    BY <2>1, <2>4, <2>6 DEF a, b, c
<1>4. free \in Nat /\ leaked \in Nat /\ MaxConcurrency \in Nat /\ Cardinality(Holders) \in Nat
  BY HoldersFinite, ExecutorAssumption DEF Inv, TypeOK, SlotsOK
<1>5. dropped \in Tasks /\ dropped.at = "dropped"
  BY NoTaskIsOne DEF Tasks, TaskStates, Ended
<1> HIDE DEF dropped
<1>6. task' = [t \in Chunks |-> IF task[t].at \notin Ended THEN dropped ELSE task[t]]
  BY <1>1
<1>7. TaskOK'
  BY <1>5, <1>6 DEF Inv, TypeOK, TaskOK, Ended
<1>8. Holders' = {} /\ Cardinality(Holders)' = 0
  BY <1>5, <1>6, NoHolders DEF Ended, Holding
<1> HIDE DEF noticed, live, At
<1>9. MainOK' /\ main'.stopping = Cardinality(given) /\ main'.at = "unwinding"
  BY <1>1, <1>3 DEF MainOK
<1> QED
  BY <1>1, <1>3, <1>4, <1>7, <1>8, <1>9 DEF Inv, SlotsReturned, OnlyRunningHold, StoppingOK

\* Every step keeps the invariant.
LEMMA InvStep == Inv /\ [Next]_vars => Inv'
<1> SUFFICES ASSUME Inv, [Next]_vars PROVE Inv'
  OBVIOUS
<1> DEFINE Goal == /\ TaskOK' /\ MainOK' /\ CacheOK' /\ free' \in Nat /\ leaked' \in Nat
                   /\ SlotsReturned' /\ OnlyRunningHold' /\ StoppingOK'
<1> SUFFICES Goal
  BY LoopsStep, BoundsStep DEF Inv, TypeOK, SlotsOK
<1>0. TaskOK /\ MainOK /\ CacheOK /\ SlotsReturned /\ OnlyRunningHold /\ StoppingOK /\ free \in Nat /\ leaked \in Nat
  BY DEF Inv, TypeOK, SlotsOK
<1>1. ASSUME NEW t \in Chunks, NEW r, Becomes(t, r), CacheOK', Running PROVE Goal
  <2>1. OnlyRunningHold' /\ main.stopping = 0
    BY <1>0, <1>1 DEF OnlyRunningHold, StoppingOK, Running, Becomes
  <2> QED
    BY <1>1, <2>1, CountStep DEF StoppingOK, Running
<1>2. ASSUME NEW t \in Chunks, Step(t) \/ Answer(t) PROVE Goal
  <2>1. Running
    BY <1>2 DEF Step, Look, Acquire, Contend, GiveUp, Notice, Leave, Wake, Answer
  <2>2. CASE Look(t) \/ Leave(t)
    BY <1>1, <2>1, <2>2, LookIs, LeaveIs
  <2>3. CASE ~(Look(t) \/ Leave(t))
    <3>1. ((\E r : Becomes(t, r)) \/ UNCHANGED <<main, task, free, leaked>>) /\ CacheOK'
      BY <1>2, <2>3, PlaceIs DEF Step
    <3>2. CASE UNCHANGED <<main, task, free, leaked>>
      BY <1>0, <2>1, <3>1, <3>2 DEF TaskOK, MainOK, SlotsReturned, OnlyRunningHold, StoppingOK, Holders, Running
    <3> QED
      BY <1>1, <2>1, <3>1, <3>2
  <2> QED
    BY <2>2, <2>3
<1>3. CASE Execute
  <2>1. Holders = {} /\ Cardinality(Holders) = 0 /\ Running' /\ main'.at # "idle"
    BY <1>3, FS_EmptySet DEF Inv, OnlyRunningHold, Running, Execute, Resting
  <2> DEFINE ready(t) == [NoTask EXCEPT !.at = "ready", !.todo = <<t>>]
  <2>2. \A t \in Chunks : ready(t) \in Tasks /\ ready(t).at = "ready" /\ ready(t).todo # <<>>
    <3> SUFFICES ASSUME NEW t \in Chunks PROVE ready(t) \in Tasks /\ ready(t).at = "ready" /\ ready(t).todo # <<>>
      OBVIOUS
    <3>1. <<t>> \in Seq(Cores) /\ <<t>> # <<>>
      BY ExecutorAssumption
    <3> QED
      BY <3>1, NoTaskIsOne, Words DEF Tasks
  <2>3. task' = [t \in Chunks |-> ready(t)]
    BY <1>3 DEF Execute
  <2> HIDE DEF ready
  <2>4. TaskOK' /\ Cardinality(Holders)' = 0
    BY <2>2, <2>3, NoHolders DEF TaskOK, Holding
  <2>5. MainOK' /\ CacheOK' /\ main'.stopping = 0
    BY <1>0, <1>3 DEF Execute, MainOK, CacheOK, Resting
  <2>6. free' = free /\ leaked' = leaked
    BY <1>3 DEF Execute
  <2> QED
    BY <1>0, <2>1, <2>4, <2>5, <2>6 DEF SlotsReturned, OnlyRunningHold, StoppingOK
<1>4. CASE Unwind \/ (Abandon /\ Running)
  <2>1. (\E error \in {"failed", "cancelled", "abandoned"} : \E before : StopTasks(error, before)) /\ CacheOK'
    BY <1>0, <1>4 DEF Unwind, Abandon, MainOK, CacheOK, Running
  <2> QED
    BY <2>1, Stopped
<1>5. CASE Finish \/ Clean \/ (Abandon /\ ~Running)
  <2>1. Holders = {}
    BY <1>0, <1>5 DEF Finish, Clean, Abandon, OnlyRunningHold, Running, Holders, Holding
  <2>2. (\E result : End(result)) /\ cache' \in [Cores -> Entries]
    BY <1>0, <1>5, ForgetIs DEF Finish, Clean, Abandon, CacheOK
  <2>3. \E lost \in 0 .. main.stopping : free' = free - lost /\ leaked' = leaked + lost
    <3>1. CASE Abandon /\ ~Running
      BY <3>1 DEF Abandon
    <3>2. CASE Finish \/ Clean
      <4>1. free' = free /\ leaked' = leaked /\ 0 \in 0 .. main.stopping
        BY <1>0, <3>2 DEF Finish, Clean, shared, MainOK
      <4> QED
        BY <1>0, <4>1
    <3> QED
      BY <1>5, <3>1, <3>2
  <2> QED
    BY <2>1, <2>2, <2>3, Over
<1>6. CASE Crash
  BY <1>0, <1>6, Over DEF Crash, CacheOK
<1>7. CASE Cancel \/ Rot \/ UNCHANGED vars
  <2>1. UNCHANGED <<main, task, free, leaked, written>> /\ CacheOK'
    BY <1>0, <1>7 DEF Cancel, Rot, vars, shared, CacheOK, Entries
  <2> QED
    BY <1>0, <2>1 DEF TaskOK, MainOK, SlotsReturned, OnlyRunningHold, StoppingOK, Holders, Running
<1> QED
  BY <1>2, <1>3, <1>4, <1>5, <1>6, <1>7 DEF Next, Main

\* So it always holds.
LEMMA SpecInv == Spec => []Inv
BY InitInv, InvStep, PTL DEF Spec

-----------------------------------------------------------------------------
(* The answers                                                              *)

\* No answer is added that the execution could not still take back.
LEMMA NoneAdded ==
    ASSUME Inv, Inv', \A k \in Cores : cache'[k] \in Values /\ k \notin written' => cache'[k] = cache[k] /\ k \notin written
    PROVE  Settled' \subseteq Settled
<1>1. Pending = written /\ Pending' = written'
  BY DEF Inv, StoppingOK, Pending
<1> QED
  BY <1>1 DEF Settled

\* Without a fault, what the execution wrote is taken back.
LEMMA Forgotten ==
    ASSUME Inv, Inv', Forget, written' = {}
    PROVE  Settled' \subseteq Settled \/ faults' # faults
<1>1. faults \in Nat /\ "none" \notin Values
  BY ExecutorAssumption DEF Inv, TypeOK, BoundsOK
<1>2. CASE Fault
  BY <1>1, <1>2 DEF Fault
<1>3. CASE cache' = [k \in Cores |-> IF k \in written THEN "none" ELSE cache[k]]
  BY <1>1, <1>3, NoneAdded
<1> QED
  BY <1>2, <1>3 DEF Forget

NoneLeft ==
    \/ Settled' \subseteq Settled
    \/ main'.at = "idle" /\ outcome' \in {"ok", "cancelled", "abandoned"}
    \/ faults' # faults

\* No step of an execution that fails leaves an answer.
LEMMA AnswersStep == Inv /\ [Next]_vars => NoneLeft
<1> SUFFICES ASSUME Inv, [Next]_vars, ~NoneLeft PROVE Settled' \subseteq Settled
  BY DEF NoneLeft
<1> DEFINE Succeeds == outcome' = "ok" /\ main'.at = "idle"
<1>a. faults' = faults /\ ~Succeeds
  BY DEF NoneLeft
<1>0. cache \in [Cores -> Entries] /\ "none" \notin Values /\ ~Fault
  BY <1>a, ExecutorAssumption DEF Inv, TypeOK, CacheOK, BoundsOK, Fault
<1>b. Inv'
  BY InvStep
<1>1. CASE UNCHANGED <<cache, written>>
  BY <1>b, <1>1, NoneAdded
<1>2. CASE \E t \in Chunks : Look(t)
  <2>1. PICK t \in Chunks : Look(t)
    BY <1>2
  <2>2. written' = written /\ (cache' = cache \/ cache' = [cache EXCEPT ![Key(t)] = "none"])
    BY <2>1 DEF Look
  <2> QED
    BY <1>b, <1>0, <2>2, NoneAdded
<1>3. CASE \E t \in Chunks : Leave(t)
  <2>1. PICK t \in Chunks : Leave(t)
    BY <1>3
  <2>2. CASE UNCHANGED <<cache, written>>
    BY <1>1, <2>2
  <2>3. CASE \E value \in Values : /\ cache' = [cache EXCEPT ![Key(t)] = value]
                                    /\ written' = written \union {Key(t)}
    BY <1>b, <1>0, <2>3, NoneAdded
  <2> QED
    BY <1>0, <2>1, <2>2, <2>3 DEF Leave, Store
<1>4. CASE Finish
  <2>1. Forget /\ written' = {}
    BY <1>a, <1>4 DEF Finish, End, Resting
  <2> QED
    BY <1>a, <1>b, <2>1, Forgotten
<1>5. CASE Clean
  BY <1>a, <1>b, <1>5, Forgotten DEF Clean, End
<1>6. CASE Crash \/ Rot
  BY <1>0, <1>a, <1>6 DEF Crash, Rot
<1>7. CASE Abandon
  BY <1>0, <1>1, <1>7 DEF Abandon
<1>8. CASE \E t \in Chunks : Acquire(t) \/ Contend(t) \/ GiveUp(t) \/ Notice(t) \/ Wake(t) \/ Answer(t)
  BY <1>1, <1>8 DEF Acquire, Contend, GiveUp, Notice, Wake, Answer
<1>9. CASE Execute \/ Cancel \/ Unwind \/ UNCHANGED vars
  BY <1>1, <1>9 DEF Execute, Cancel, Unwind, vars
<1> QED
  BY <1>2, <1>3, <1>4, <1>5, <1>6, <1>7, <1>8, <1>9 DEF Next, Main, Step

-----------------------------------------------------------------------------
\* The state of an execution keeps its types.
THEOREM Typed == Spec => []TypeOK
BY SpecInv, PTL DEF Inv

\* Whatever answers, retries, repairs, cancellations and crashes come, every
\* slot is free, held by a request, or counted as lost in the one known way.
THEOREM SlotsAreCounted == Spec => []SlotsReturned
BY SpecInv, PTL DEF Inv

\* An execution that fails leaves none of its answers in the cache, whatever its
\* other tasks wrote while it failed, unless a disk operation or the process
\* fails on the way; of one that is cancelled nothing is said.
THEOREM FailureLeavesNone == Spec => FailureLeavesNothing
<1>1. Inv /\ [Next]_vars => [NoneLeft]_vars
  BY AnswersStep
<1> QED
  BY <1>1, SpecInv, PTL DEF Spec, FailureLeavesNothing, NoneLeft
=============================================================================
