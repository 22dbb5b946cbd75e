--------------------------- MODULE SetpointGuard ---------------------------
(* ChargerCoordinator._drop_implausible_setpoint with the part of           *)
(* _forget_stale_guard_evidence that concerns it: a currentSet below the    *)
(* minimum of the generation is taken out of the frame until a later frame, *)
(* a real poll interval away, is below it as well; from then on the         *)
(* confirmed value is the floor a further drop is measured against.         *)
(*                                                                          *)
(* Times are whole ticks of the wall clock, which is taken not to run       *)
(* backwards.  _setpoint_dropped is left out: only diagnostics.py reads it. *)
EXTENDS Evidence

CONSTANTS Readings,    \* the values currentSet can take
          MinCurrent,  \* charger.min_current of the generation
          Held,        \* the guard deleted the key
          Intervals,   \* the poll intervals the coordinator switches between
          Gaps         \* how far apart two successful polls can be

ASSUME SetpointAssumption ==
  /\ Readings \subseteq Nat
  /\ MinCurrent \in Nat
  /\ Intervals \subseteq Nat
  /\ Gaps \subseteq Nat
  /\ Held \notin Nat
  /\ Absent # Held

VARIABLES
  clock,        \* dt_util.utcnow() of the latest successful poll
  lastSuccess,  \* _last_success
  interval,     \* update_interval
  floor,        \* _setpoint_floor
  streak,       \* _setpoint_low_streak
  since,        \* _setpoint_low_since
  shown         \* currentSet in the frame after the guard

vars == <<clock, lastSuccess, interval, floor, streak, since, shown>>

ConfirmFrames == 2

TypeOK ==
  /\ clock \in Nat
  /\ lastSuccess \in Nat \cup {None}
  /\ interval \in Intervals
  /\ floor \in Nat \cup {None}
  /\ streak \in Nat
  /\ since \in Nat \cup {None}
  /\ shown \in Nat \cup {Absent, Held}

GuardInit == floor = None /\ streak = 0 /\ since = None /\ shown = Absent

Init ==
  /\ clock = 0
  /\ lastSuccess = None
  /\ interval \in Intervals
  /\ GuardInit

-----------------------------------------------------------------------------
(* _forget_stale_guard_evidence, run before the guard on the same frame.    *)
AfterLongGap(t) == lastSuccess # None /\ t - lastSuccess > Stale

StreakKept(t) == IF AfterLongGap(t) THEN 0 ELSE streak
SinceKept(t)  == IF AfterLongGap(t) THEN None ELSE since
FirstSeen(t)  == IF SinceKept(t) = None THEN t ELSE SinceKept(t)

\* Below the floor, or below the minimum while no floor is confirmed.
Threshold == IF floor = None THEN MinCurrent ELSE floor

\* Plausible bug: a confirmed low value has to prove itself for ever.
ImplausibleBelowMinimum(v) == v < MinCurrent

Implausible(v) == v < MinCurrent /\ v < Threshold

Confirmed(t) ==
  /\ StreakKept(t) + 1 >= ConfirmFrames
  /\ t - FirstSeen(t) >= interval

\* Plausible bug: the count is cleared, its time stamp is not.
ClearCountOnly == streak' = 0 /\ UNCHANGED since

ClearEvidence == streak' = 0 /\ since' = None

\* Plausible bug: a missing value becomes the floor.
MissingRebases(v, t) ==
  /\ v = Absent
  /\ shown' = Absent
  /\ streak' = StreakKept(t)
  /\ since' = SinceKept(t)
  /\ floor' = v

\* Nothing to judge; the evidence so far stands.
Missing(v, t) ==
  /\ v = Absent
  /\ shown' = Absent
  /\ streak' = StreakKept(t)
  /\ since' = SinceKept(t)
  /\ UNCHANGED floor

\* The normal range ends every doubt, a confirmed low value included.
Normal(v) ==
  /\ v # Absent /\ v >= MinCurrent
  /\ floor' = None
  /\ ClearEvidence
  /\ shown' = v

\* Low, but no lower than what the station was already seen to sit at.
AtFloor(v) ==
  /\ v # Absent /\ v < MinCurrent /\ ~Implausible(v)
  /\ ClearEvidence
  /\ shown' = v
  /\ UNCHANGED floor

Believe(v, t) ==
  /\ v # Absent /\ Implausible(v) /\ Confirmed(t)
  /\ floor' = v
  /\ ClearEvidence
  /\ shown' = v

HoldBack(v, t) ==
  /\ v # Absent /\ Implausible(v) /\ ~Confirmed(t)
  /\ streak' = StreakKept(t) + 1
  /\ since' = FirstSeen(t)
  /\ shown' = Held
  /\ UNCHANGED floor

\* The guard on a frame that arrived at t.
Judge(v, t) ==
  Missing(v, t) \/ Normal(v) \/ AtFloor(v) \/ Believe(v, t) \/ HoldBack(v, t)

-----------------------------------------------------------------------------
(* The coordinator around the guard, as far as the guard can tell.          *)

\* A successful poll.  The interval changes after the guards have run.
Poll(v, t) ==
  /\ clock' = t
  /\ lastSuccess' = t
  /\ interval' \in Intervals
  /\ Judge(v, t)

\* A new coordinator: nothing of the guard outlives a restart or a reload.
Restart ==
  /\ clock' = 0
  /\ lastSuccess' = None
  /\ interval' \in Intervals
  /\ floor' = None /\ streak' = 0 /\ since' = None /\ shown' = Absent

Next ==
  \/ \E v \in Readings \cup {Absent}, gap \in Gaps : Poll(v, clock + gap)
  \/ Restart

Spec == Init /\ [][Next]_vars
=============================================================================
