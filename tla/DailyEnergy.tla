---------------------------- MODULE DailyEnergy ----------------------------
(* DailyEnergySensor with _MidnightRollover: the energy of the local day is *)
(* the lifetime counter minus its reading at midnight, the baseline, and    *)
(* day_incomplete says whether the baseline was really taken at midnight.   *)
(* The baseline comes from the timer, from a frame, or from storage after a *)
(* restart, in whatever order these happen.                                 *)
EXTENDS Integers

CONSTANTS None,         \* Python's None, and a frame without totalEnergy
          DayTicks,     \* ticks in a local day
          Tolerance,    \* _OBSERVATION_TOLERANCE_S in ticks
          FirstTotal,   \* the lifetime counter at the start
          MaxClock,     \* bound: ticks
          MaxTail,      \* bound: energy not flushed when the power goes
          MaxLosses,    \* bound: power cuts, and resets by the user
          MaxRestarts   \* bound: restarts of Home Assistant

ASSUME DailyAssumption ==
  /\ {DayTicks, Tolerance, FirstTotal, MaxTail} \subseteq Nat
  /\ {MaxClock, MaxLosses, MaxRestarts} \subseteq Nat
  /\ 2 * Tolerance < DayTicks /\ 1 <= MaxClock
  /\ None \notin Int

VARIABLES
  clock,        \* ticks since the first midnight
  total,        \* station: totalEnergy
  up,           \* Home Assistant runs and the entity is added
  timer,        \* the midnight timer: "set", "due", or "late" by one poll
  lastOk,       \* last_update_success
  frame,        \* coordinator.data and frame_time, or None (delivered and lost:
                \* history)
  baseline, computed, date, incomplete,
  lastReset,    \* _attr_last_reset: the day it is the start of, or None
  stored,       \* what storage holds of the sensor
  delivered,    \* history: energy delivered since the start
  lost,         \* history: energy the counter has lost of it since
  atMidnight,   \* history: delivered, at the latest midnight
  carried, lostCarried,   \* history: both, at the frame then in coordinator.data
  atReading, lostReading, \* history: both, at the reading computed stems from
  losses,       \* history: power cuts and resets
  restarts      \* history: restarts

sensorVars  == <<baseline, computed, date, incomplete, lastReset>>
readingVars == <<atReading, lostReading>>
dayVars     == <<atMidnight, carried, lostCarried>>
historyVars == <<delivered, lost, dayVars, readingVars, losses, restarts>>
vars == <<clock, total, up, timer, lastOk, frame, sensorVars, stored, historyVars>>

Today == clock \div DayTicks
Frames == [total : Nat \cup {None}, at : 0..MaxClock, delivered : 0..MaxClock, lost : Nat]
Payloads == [date : Nat \cup {None}, baseline : Int \cup {None},
             computed : Int \cup {None}, incomplete : BOOLEAN,
             atReading : 0..MaxClock, lostReading : Nat]

TypeOK ==
  /\ clock \in 0..MaxClock
  /\ total \in Nat /\ delivered \in 0..MaxClock /\ lost \in Nat
  /\ up \in BOOLEAN /\ timer \in {"set", "due", "late"} /\ lastOk \in BOOLEAN
  /\ frame \in Frames \cup {None}
  /\ baseline \in Int \cup {None} /\ computed \in Int \cup {None}
  /\ date \in 0..Today \cup {None} /\ lastReset \in 0..Today \cup {None}
  /\ incomplete \in BOOLEAN
  /\ stored \in Payloads \cup {None}
  /\ atMidnight \in 0..delivered /\ carried \in 0..atMidnight
  /\ atReading \in 0..delivered /\ {lostCarried, lostReading} \subseteq 0..lost
  /\ losses \in 0..MaxLosses /\ restarts \in 0..MaxRestarts

\* A new install, some time in the first day; setup has polled in vain.
Init ==
  /\ clock = 1 /\ total = FirstTotal /\ delivered = 0 /\ lost = 0
  /\ up = TRUE /\ timer = "set" /\ lastOk = FALSE /\ frame = None
  /\ baseline = None /\ computed = None /\ date = None
  /\ incomplete = TRUE /\ lastReset = None /\ stored = None
  /\ atMidnight = 0 /\ carried = 0 /\ lostCarried = 0 /\ atReading = 0 /\ lostReading = 0
  /\ losses = 0 /\ restarts = 0

-----------------------------------------------------------------------------
(* Time and the station.                                                    *)
HasReading(f) == f # None /\ f.total # None

\* A tick passes, with or without a unit of energy; at midnight the timer is
\* due.  It fires within the second: at most one poll comes before it.
Tick ==
  /\ clock < MaxClock /\ timer = "set"
  /\ clock' = clock + 1
  /\ \E e \in {0, 1} : total' = total + e /\ delivered' = delivered + e
  /\ LET midnight == (clock + 1) % DayTicks = 0
     IN  /\ timer' = IF midnight /\ up THEN "due" ELSE "set"
         /\ atMidnight' = IF midnight THEN delivered' ELSE atMidnight
         /\ IF ~midnight THEN UNCHANGED <<carried, lostCarried>>
            ELSE LET held == IF HasReading(frame) THEN frame
                             ELSE [delivered |-> delivered', lost |-> lost]
                 IN  carried' = held.delivered /\ lostCarried' = held.lost
  /\ UNCHANGED <<up, lastOk, frame, sensorVars, stored, lost, readingVars, losses, restarts>>

\* The counter falls, for good, and the station does not say so.
CounterLoses(amount) ==
  /\ losses < MaxLosses /\ losses' = losses + 1
  /\ total' = total - amount /\ lost' = lost + amount
  /\ UNCHANGED <<clock, up, timer, lastOk, frame, sensorVars, stored, delivered,
                 dayVars, readingVars, restarts>>

\* A power cut: the tail that was not flushed is gone.
PowerCut == \E tail \in 1..MaxTail : tail <= total /\ CounterLoses(tail)

\* The reset in the station's web UI.
ResetCounter == CounterLoses(total)

-----------------------------------------------------------------------------
(* The sensor.                                                              *)

\* Plausible bug: the figure of the day survives its baseline.
RollOverKeepsComputed ==
  /\ timer # "set" /\ timer' = "set"
  /\ baseline' = None
  /\ incomplete' = TRUE
  /\ date' = Today /\ lastReset' = Today
  /\ UNCHANGED <<clock, total, up, lastOk, frame, computed, stored, historyVars>>

\* Plausible bug: zero is published under yesterday's last_reset.
RollOverUnannounced ==
  /\ timer # "set" /\ timer' = "set"
  /\ baseline' = None /\ computed' = 0
  /\ incomplete' = TRUE
  /\ date' = Today
  /\ UNCHANGED <<clock, total, up, lastOk, frame, lastReset, stored, historyVars>>

\* Plausible bug: last_reset is the midnight the day ends with.
RollOverToTomorrow ==
  /\ timer # "set" /\ timer' = "set"
  /\ baseline' = None /\ computed' = 0
  /\ incomplete' = TRUE
  /\ date' = Today /\ lastReset' = Today + 1
  /\ UNCHANGED <<clock, total, up, lastOk, frame, stored, historyVars>>

\* The timer: the day turns over without a frame.
RollOverAtMidnight ==
  /\ timer # "set" /\ timer' = "set"
  /\ baseline' = None /\ computed' = 0
  /\ incomplete' = TRUE
  /\ date' = Today /\ lastReset' = Today
  /\ UNCHANGED <<clock, total, up, lastOk, frame, stored, historyVars>>

\* Plausible bug: any frame of the day will do.
CoversDay(t) == t >= Today * DayTicks

\* Is a frame from t within the tolerance of the midnight today began with?
CoversMidnight(t) ==
  LET delta == t - Today * DayTicks IN delta <= Tolerance /\ 0 - delta <= Tolerance

OrZero(x) == IF x = None THEN 0 ELSE x

\* _handle_coordinator_update, which does not tell a new frame from the old one
\* a failed poll is notified with.
HandleUpdate(f) ==
  LET rolls   == date # Today
      base    == IF rolls THEN f.total ELSE baseline
      rebases == base = None \/ f.total < base
  IN  IF ~HasReading(f) THEN UNCHANGED <<sensorVars, readingVars>>
      ELSE /\ date' = IF rolls THEN Today ELSE date
           /\ lastReset' = IF rolls THEN Today ELSE lastReset
           /\ incomplete' = IF rolls \/ base = None THEN ~CoversMidnight(f.at)
                            ELSE incomplete
           /\ baseline' = IF rebases THEN f.total - OrZero(computed) ELSE base
           /\ computed' = f.total - baseline'
           /\ atReading' = f.delivered /\ lostReading' = f.lost

NotBeforeTimer ==
  /\ timer # "late"
  /\ timer' = IF timer = "due" THEN "late" ELSE timer

\* A successful poll; the counter guard may have taken the total out.
PollAnswered ==
  /\ up /\ NotBeforeTimer
  /\ \E reading \in {total, None} :
       frame' = [total |-> reading, at |-> clock, delivered |-> delivered, lost |-> lost]
  /\ HandleUpdate(frame')
  /\ lastOk' = TRUE
  /\ UNCHANGED <<clock, total, up, stored, delivered, lost, dayVars, losses, restarts>>

\* The first failure notifies the entities, with the previous frame.
PollFails ==
  /\ up /\ lastOk /\ NotBeforeTimer
  /\ lastOk' = FALSE
  /\ HandleUpdate(frame)
  /\ UNCHANGED <<clock, total, up, frame, stored, delivered, lost, dayVars, losses, restarts>>

-----------------------------------------------------------------------------
(* Storage.                                                                 *)

\* extra_restore_state_data
Payload == [date |-> date, baseline |-> baseline, computed |-> computed,
            incomplete |-> incomplete, atReading |-> atReading, lostReading |-> lostReading]

\* The core dumps all restorable states every 15 minutes.
Dump ==
  /\ up /\ stored' = Payload
  /\ UNCHANGED <<clock, total, up, timer, lastOk, frame, sensorVars, historyVars>>

\* Home Assistant stops, in order or not.
Stop ==
  /\ up /\ up' = FALSE
  /\ restarts < MaxRestarts /\ restarts' = restarts + 1
  /\ stored' \in {stored, Payload}
  /\ timer' = "set" /\ frame' = None /\ lastOk' = FALSE
  /\ baseline' = None /\ computed' = None /\ date' = None
  /\ incomplete' = TRUE /\ lastReset' = None
  /\ atReading' = 0 /\ lostReading' = 0
  /\ UNCHANGED <<clock, total, delivered, lost, dayVars, losses>>

\* async_added_to_hass, after setup has polled: that frame is in
\* coordinator.data but the entity is not notified of it.
Start ==
  /\ ~up /\ up' = TRUE
  /\ \/ frame' = None /\ lastOk' = FALSE
     \/ \E reading \in {total, None} :
          /\ frame' = [total |-> reading, at |-> clock, delivered |-> delivered, lost |-> lost]
          /\ lastOk' = TRUE
  /\ IF stored # None /\ stored.date = Today
     THEN /\ date' = Today /\ lastReset' = Today
          /\ baseline' = stored.baseline /\ computed' = stored.computed
          /\ incomplete' = stored.incomplete
          /\ atReading' = stored.atReading /\ lostReading' = stored.lostReading
     ELSE UNCHANGED <<sensorVars, readingVars>>
  /\ UNCHANGED <<clock, total, timer, stored, delivered, lost, dayVars, losses, restarts>>

Next ==
  \/ Tick \/ PowerCut \/ ResetCounter \/ RollOverAtMidnight \/ PollAnswered \/ PollFails
  \/ Dump \/ Stop \/ Start

Spec == Init /\ [][Next]_vars

-----------------------------------------------------------------------------
\* The day never starts loaded with energy of the day before, whichever of the
\* timer, a frame, a failed poll and a restart turned it over, and no energy is
\* counted twice: the figure is at most what was delivered since the frame the
\* integration was holding at midnight.
DayNotInflated ==
  date = Today /\ computed # None => computed <= delivered - carried

\* A day that does not flag itself incomplete is whole up to the latest reading,
\* but for what the counter itself has lost since the frame held at midnight: it
\* has at most the tolerance too much, and lacks at most the tolerance and that
\* loss.  Neither a power cut nor a reset by the user raises the flag.  The flag
\* survives a crash with the baseline it speaks of.
CompleteIsWhole ==
  date = Today /\ ~incomplete /\ baseline # None
  => LET flowed == atReading - atMidnight
     IN  /\ computed - flowed <= Tolerance
         /\ flowed - computed <= Tolerance + (lostReading - lostCarried)

\* The published figure does not fall unless last_reset moves with it, or the
\* recorder subtracts the day from the long-term sum.  What is left is a counter
\* that lost energy and is not below the baseline (sensor.py:710): then "the dip
\* is the rollback, nothing more" (tests/test_daily_sensors.py:170), at most what
\* the counter lost since the reading before, and never below zero.
NoUnannouncedFall ==
  [][up /\ up' /\ computed # None /\ computed' < computed
     => \/ lastReset' # lastReset
        \/ computed' >= 0 /\ computed - computed' <= lostReading' - lostReading]_vars
=============================================================================
