--------------------------- MODULE CoordinatorView ---------------------------
(* What the models of single entities share: the flag of the core's         *)
(* coordinator that every entity sees.                                      *)
EXTENDS Nothing

VARIABLE lastOk     \* coordinator.last_update_success
=============================================================================
