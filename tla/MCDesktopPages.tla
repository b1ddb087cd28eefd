----------------------------- MODULE MCDesktopPages -----------------------------
(* An instance of DesktopPages for TLC: of two jobs one was left unfinished   *)
(* by an earlier session and one is over.                                     *)
EXTENDS DesktopPages

CONSTANTS j1, j2

MCJobs == {j1, j2}
MCBefore == [j \in MCJobs |-> IF j = j1 THEN "left" ELSE "over"]
=============================================================================
