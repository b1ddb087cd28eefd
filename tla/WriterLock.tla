------------------------------- MODULE WriterLock -------------------------------
(***************************************************************************)
(* What the batch lease promises: at any moment at most one command may    *)
(* write a batch's journal and manifest, and another may only after the    *)
(* first has given up.                                                     *)
(***************************************************************************)

CONSTANT Claims     \* the attempts to write a batch, one per command
VARIABLE holders    \* the claims that may write

Init == holders = {}

Take(c) == holders = {} /\ holders' = {c}

Give(c) == holders = {c} /\ holders' = {}

Next == \E c \in Claims : Take(c) \/ Give(c)

Spec == Init /\ [][Next]_holders

=============================================================================
