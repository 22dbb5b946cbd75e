-------------------------- MODULE MCSetpointGuard --------------------------
(* Setpoints 0..2 with the minimum at 2, so that two implausible values     *)
(* exist and a floor can be broken; ticks as in MCCounterGuard.             *)
EXTENDS SetpointGuardHistory

MCReadings  == 0..2
MCIntervals == {2, 3}
MCGaps      == {1, 2, 3, 6}
=============================================================================
