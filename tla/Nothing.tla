------------------------------ MODULE Nothing ------------------------------
(* The two values that stand for "nothing".                                 *)

CONSTANTS None,     \* Python's None: no reading, "unknown"
          Absent    \* a frame lacks the key
=============================================================================
