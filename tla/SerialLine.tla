------------------------------- MODULE SerialLine -------------------------------
(***************************************************************************)
(* What the execution coordinator promises: the batches stand in one line, *)
(* none twice; the first is served, alone and to its end, before the next; *)
(* only one that waits may leave unserved; and the line always moves on.   *)
(***************************************************************************)
EXTENDS Naturals, Sequences, SequencesExt

CONSTANT Batches

VARIABLES line, served

vars == <<line, served>>

Init == line = <<>> /\ served = FALSE

\* A batch that is not in line joins it at its end.
Join(b) == b \notin ToSet(line) /\ line' = Append(line, b) /\ UNCHANGED served

\* A batch that waits behind the first leaves.
Leave == \E i \in 2..Len(line) : line' = RemoveAt(line, i) /\ UNCHANGED served

Serve == line # <<>> /\ ~served /\ served' = TRUE /\ UNCHANGED line

Done == served /\ served' = FALSE /\ line' = Tail(line)

Next == Serve \/ Done \/ Leave \/ \E b \in Batches : Join(b)

Safety == Init /\ [][Next]_vars

Spec == Safety /\ WF_vars(Serve) /\ WF_vars(Done)
=============================================================================
