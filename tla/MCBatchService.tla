--------------------------- MODULE MCBatchService ---------------------------
(* Small batches: two or three stages stand for the plan, of which the first *)
(* has no dependency and the last publishes.                                 *)
EXTENDS BatchViews

MCJobs == 1..NJobs

\* With stage 2 in Stages, "fast" has a stage between those of "deterministic".
MCPlan == [p \in Profiles |-> IF p = "fast" THEN Stages ELSE Stages \ {2}]

-----------------------------------------------------------------------------
\* Trouble of one kind: writes that fail, or the death of the program and what
\* happens to its files in the meantime.
OneKind == faults' = 0 \/ crashes' + rots' = 0

\* Somebody operates the service, with trouble of one kind.  Where the writer can
\* meet a fault it can also go on without, so that fairness asks for no fault.
OperatedSpec == Init /\ [][Next /\ OneKind]_vars /\ Fairness /\ Operated

=============================================================================
