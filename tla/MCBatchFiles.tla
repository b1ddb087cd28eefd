----------------------------- MODULE MCBatchFiles -----------------------------
(* The files of one batch for TLC: the lease, which says who may write, and   *)
(* the journal with its manifest, which its holder writes.  What joins the    *)
(* two, that only the holder appends, is a matter of BatchService; so a       *)
(* behaviour shows one of the two and leaves the other as it began.           *)
EXTENDS JournalFile, BatchLease, TLC

VARIABLE shows    \* "journal" or "lease"

filesVars == <<vars, leaseVars, shows>>

\* Claims are alike, and so are pids; the journal has one writer.
ClaimSymmetry == Permutations(Claims) \union Permutations(Pids)

InitFiles ==
    /\ Init /\ InitLease
    /\ shows \in {"journal", "lease"}
    /\ shows = "journal" => \A c, d \in Claims : proc[c] = proc[d] /\ proc[c].host = probe.host

NextFiles ==
    \/ shows = "journal" /\ Next /\ UNCHANGED <<leaseVars, shows>>
    \/ shows = "lease" /\ NextLease /\ UNCHANGED <<vars, shows>>

SpecFiles == InitFiles /\ [][NextFiles]_filesVars
===============================================================================
