--------------------------- MODULE MCSessionBranches ---------------------------
(* SessionBranches with the faults the code copes with.                    *)
EXTENDS SessionBranches

LateTrouble == {"failure", "append_error"}
=============================================================================
