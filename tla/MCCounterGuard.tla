--------------------------- MODULE MCCounterGuard ---------------------------
(* One counter, values 0..2; ticks: an extra poll after a     *)
(* write is 1 tick away, the fast interval is 2, the slow one 3, and 5      *)
(* ticks of silence are still short while 6 are not.                        *)
EXTENDS CounterGuardHistory

MCReadings  == 0..2
MCIntervals == {2, 3}
MCGaps      == {1, 2, 3, 6}
=============================================================================
