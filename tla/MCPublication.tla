---------------------------- MODULE MCPublication ----------------------------
(***************************************************************************)
(* Two jobs that share a directory, a content or both: with neither they   *)
(* never meet.  The names of the first one's content and directory make no *)
(* difference.  Of jobs with different files for one directory both find   *)
(* the user's there, which the first may replace and the second only in a  *)
(* recovery; the others find none and may not, until a recovery, replace   *)
(* what an edit or the other job puts there.                               *)
(***************************************************************************)
EXTENDS Publication

CONSTANTS j1, j2, c1, c2, d1, d2

ShareSomething ==
    /\ content[j1] = c1 /\ dir[j1] = d1
    /\ content[j2] = c1 \/ dir[j2] = d1
    /\ overwrite = [j \in Jobs |-> j = j1 /\ content[j2] = c2]
    /\ \A p \in Places : files[p] = IF overwrite[j1] THEN "user" ELSE "none"

MCInit == Init /\ ShareSomething

MCSpec == MCInit /\ [][Next]_vars /\ Fairness

=============================================================================
