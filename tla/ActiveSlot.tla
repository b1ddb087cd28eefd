------------------------------ MODULE ActiveSlot ------------------------------
(***************************************************************************)
(* What the Runtime manager promises about one active slot: it names a     *)
(* current Runtime and the one to roll back to, both registered, and it    *)
(* moves in one step, only to a Runtime that passed its activation doctor, *)
(* whatever installs, removals, failures and crashes go on around it.  A   *)
(* power loss may undo a removal: the Runtime is back as it was, never     *)
(* better, and the slot is as it is.                                       *)
(***************************************************************************)
CONSTANTS Runtimes, NoRuntime

VARIABLES
    current,    \* the Runtime in the slot, or NoRuntime
    previous,   \* the Runtime a rollback activates, or NoRuntime
    known,      \* the registered Runtimes
    ready,      \* those whose record says that they passed the doctor
    undone      \* what each Runtime is again if its removal is undone

vars == <<current, previous, known, ready, undone>>

Init ==
    /\ current = NoRuntime /\ previous = NoRuntime /\ known = {} /\ ready = {}
    /\ undone = [r \in Runtimes |-> "no"]

\* Removals become final, any of them at any time.
Settled == \A r \in Runtimes : undone'[r] \in {undone[r], "no"}

Settle == Settled /\ UNCHANGED <<current, previous, known, ready>>

Learn(r) ==
    /\ known' = known \union {r}
    /\ Settled /\ undone'[r] = "no"
    /\ UNCHANGED <<current, previous, ready>>

\* Nothing forgets a Runtime that the slot names.
Forget(r) ==
    /\ r \in known \ {current, previous}
    /\ known' = known \ {r} /\ ready' = ready \ {r}
    /\ undone' = [undone EXCEPT ![r] = IF r \in ready THEN "ready" ELSE "known"]
    /\ UNCHANGED <<current, previous>>

Qualify(r) ==
    /\ r \in known /\ ready' = ready \union {r}
    /\ Settled
    /\ UNCHANGED <<current, previous, known>>

Spoil(r) == ready' = ready \ {r} /\ Settled /\ UNCHANGED <<current, previous, known>>

Switch(r) ==
    /\ r \in ready
    /\ current' = r /\ previous' = current
    /\ UNCHANGED <<known, ready, undone>>

\* Some removals are undone, all at once, and the others are final.
Return ==
    /\ \E back \in SUBSET {r \in Runtimes : undone[r] # "no"} :
         /\ known' = known \union back
         /\ ready' = ready \union {r \in back : undone[r] = "ready"}
    /\ undone' = [r \in Runtimes |-> "no"]
    /\ UNCHANGED <<current, previous>>

Next ==
    \/ \E r \in Runtimes : Learn(r) \/ Forget(r) \/ Qualify(r) \/ Spoil(r) \/ Switch(r)
    \/ Settle \/ Return

Spec == Init /\ [][Next]_vars

=============================================================================
