----------------------------- MODULE MCDirent -----------------------------
(* TLC instance of Dirent. *)
EXTENDS Dirent

CONSTANTS d1, d2

\* The second name outgrows the slack of the first.
MCDirs == {d1, d2}
MCPathLen == [d \in MCDirs |-> IF d = d1 THEN 3 ELSE 12]
=============================================================================
