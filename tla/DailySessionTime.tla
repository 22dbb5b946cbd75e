-------------------------- MODULE DailySessionTime --------------------------
(* DailySessionTimeSensor with _MidnightRollover: the time of the local day *)
(* in which the car was charging, summed up from one frame to the next, and *)
(* day_incomplete, which says whether an interval of the day went unwatched.*)
(* Within the tolerance the current of the later frame decides whether an   *)
(* interval counts; across a longer one the lifetime counter does.          *)
(*                                                                          *)
(* A frame reaches the sensor in the tick in which it was taken.            *)
EXTENDS Integers

CONSTANTS None,         \* Python's None, and a field the frame lacks
          DayTicks,     \* ticks in a local day
          Tolerance,    \* _OBSERVATION_TOLERANCE_S in ticks
          FirstClock,   \* the time of the installation
          FirstTotal,   \* the lifetime counter then
          MaxClock,     \* bound: ticks
          MaxSwitches,  \* bound: times the current is switched on or off
          MaxSessions,  \* bound: sessions started
          MaxRestarts   \* bound: restarts of Home Assistant

ASSUME SessionTimeAssumption ==
  /\ {DayTicks, Tolerance, FirstClock, FirstTotal, MaxClock} \subseteq Nat
  /\ {MaxSwitches, MaxSessions, MaxRestarts} \subseteq Nat
  /\ Tolerance < DayTicks /\ FirstClock <= MaxClock
  /\ None \notin Int

VARIABLES
  clock,        \* ticks since the first midnight
  running,      \* station: a session is open
  flow,         \* station: current flows
  time,         \* station: sessionTime, which runs while the session is open
  total,        \* station: totalEnergy, which runs while current flows
  up,           \* Home Assistant runs and the entity is added
  timer,        \* the midnight timer: "set", "due", or "late" by one poll
  frameTime,    \* coordinator.frame_time
  accumulated, prev, date, incomplete, dayHadFrame, prevTotal, prevStamp,
  lastReset,    \* _attr_last_reset: the day it is the start of, or None
  stored,       \* what storage holds of the sensor
  watched,      \* history: when today the sensor read the session in a frame
  opened,       \* history: ticks of today in which a session was open
  flowed,       \* history: current flowed at some time today
  steady,       \* history: current flowed in one session all day, and every
                \*          frame showed it
  switches, sessions, restarts     \* history

stationVars == <<running, flow, time, total>>
sensorVars  == <<accumulated, prev, date, incomplete, dayHadFrame, prevTotal,
                 prevStamp, lastReset>>
historyVars == <<watched, opened, flowed, steady, switches, sessions, restarts>>
vars == <<clock, stationVars, up, timer, frameTime, sensorVars, stored, historyVars>>

Today      == clock \div DayTicks
StartOfDay == Today * DayTicks

Payloads == [date : Nat \cup {None}, accumulated : Nat, prev : Nat \cup {None},
             incomplete : BOOLEAN, dayHadFrame : BOOLEAN,
             prevTotal : Nat \cup {None}, prevStamp : Nat \cup {None}]

TypeOK ==
  /\ clock \in 0..MaxClock
  /\ running \in BOOLEAN /\ flow \in BOOLEAN /\ (flow => running)
  /\ time \in Nat /\ total \in Nat
  /\ up \in BOOLEAN /\ timer \in {"set", "due", "late"}
  /\ frameTime \in 0..clock \cup {None}
  /\ accumulated \in Nat /\ prev \in Nat \cup {None}
  /\ date \in 0..Today \cup {None} /\ lastReset \in 0..Today \cup {None}
  /\ incomplete \in BOOLEAN /\ dayHadFrame \in BOOLEAN
  /\ prevTotal \in Nat \cup {None} /\ prevStamp \in 0..clock \cup {None}
  /\ stored \in Payloads \cup {None}
  /\ watched \subseteq 0..clock /\ opened \in 0..DayTicks
  /\ flowed \in BOOLEAN /\ steady \in BOOLEAN
  /\ switches \in 0..MaxSwitches /\ sessions \in 0..MaxSessions
  /\ restarts \in 0..MaxRestarts

\* A sensor that was never observed anything.
Blank ==
  /\ accumulated = 0 /\ prev = None /\ date = None
  /\ incomplete = TRUE /\ dayHadFrame = FALSE
  /\ prevTotal = None /\ prevStamp = None /\ lastReset = None

\* A new install, in a session or not.
Init ==
  /\ clock = FirstClock
  /\ running \in BOOLEAN /\ flow \in BOOLEAN /\ (flow => running)
  /\ time = 0 /\ total = FirstTotal
  /\ up = TRUE /\ timer = "set" /\ frameTime = None
  /\ Blank
  /\ stored = None
  /\ watched = {} /\ opened = 0 /\ flowed = flow /\ steady = FALSE
  /\ switches = 0 /\ sessions = 0 /\ restarts = 0

-----------------------------------------------------------------------------
(* Time and the station.                                                    *)

\* At midnight the timer is due; it fires within the second.
Tick ==
  /\ clock < MaxClock /\ timer = "set"
  /\ clock' = clock + 1
  /\ time' = IF running THEN time + 1 ELSE time
  /\ total' = IF flow THEN total + 1 ELSE total
  /\ LET midnight == (clock + 1) % DayTicks = 0
     IN  /\ timer' = IF midnight /\ up THEN "due" ELSE "set"
         /\ watched' = IF midnight THEN {} ELSE watched
         /\ opened' = IF midnight THEN 0 ELSE IF running THEN opened + 1 ELSE opened
         /\ flowed' = IF midnight THEN flow ELSE flowed
         /\ steady' = IF midnight THEN flow ELSE steady
  /\ UNCHANGED <<running, flow, up, frameTime, sensorVars, stored, switches,
                 sessions, restarts>>

\* Current starts and stops while the session stays open.
SwitchCurrent ==
  /\ running
  /\ switches < MaxSwitches /\ switches' = switches + 1
  /\ flow' = ~flow
  /\ flowed' = TRUE /\ steady' = FALSE
  /\ UNCHANGED <<clock, running, time, total, up, timer, frameTime, sensorVars,
                 stored, watched, opened, sessions, restarts>>

\* A session starts, after an idle time or right on a power cut; the cut may
\* cost a tail of the lifetime counter.
StartSession ==
  /\ sessions < MaxSessions /\ sessions' = sessions + 1
  /\ running' = TRUE /\ time' = 0
  /\ flow' \in BOOLEAN
  /\ total' \in {total} \cup (IF running THEN {total - 1} \cap Nat ELSE {})
  /\ flowed' = (flowed \/ flow') /\ steady' = FALSE
  /\ UNCHANGED <<clock, up, timer, frameTime, sensorVars, stored, watched,
                 opened, switches, restarts>>

\* sessionTime stands still until the next session.
EndSession ==
  /\ running
  /\ running' = FALSE /\ flow' = FALSE
  /\ steady' = FALSE
  /\ UNCHANGED <<clock, time, total, up, timer, frameTime, sensorVars, stored,
                 watched, opened, flowed, switches, sessions, restarts>>

-----------------------------------------------------------------------------
(* The sensor.                                                              *)

\* Plausible bug: last night's position survives midnight.
RollOverKeepsPosition ==
  /\ timer # "set" /\ timer' = "set"
  /\ accumulated' = 0 /\ dayHadFrame' = FALSE
  /\ incomplete' = TRUE
  /\ date' = Today /\ lastReset' = Today
  /\ UNCHANGED <<clock, stationVars, up, frameTime, prev, prevTotal, prevStamp,
                 stored, historyVars>>

\* The timer: _roll_over_at_midnight with _reset_for_new_day.
RollOverAtMidnight ==
  /\ timer # "set" /\ timer' = "set"
  /\ accumulated' = 0 /\ prev' = None /\ dayHadFrame' = FALSE
  /\ incomplete' = TRUE
  /\ date' = Today /\ lastReset' = Today
  /\ UNCHANGED <<clock, stationVars, up, frameTime, prevTotal, prevStamp,
                 stored, historyVars>>

\* Plausible bug: the gap of the coordinator makes the stamp superfluous.
GapOfCoordinator(t) ==
  IF frameTime # None THEN t - frameTime
  ELSE IF prevStamp # None THEN t - prevStamp ELSE None

\* _gap_seconds: unknown without a stamp of the sensor's own.
Gap(t) ==
  IF prevStamp = None THEN None
  ELSE IF frameTime # None /\ t - frameTime > t - prevStamp
       THEN t - frameTime ELSE t - prevStamp

TooLong(gap) == gap = None \/ gap > Tolerance

\* The part of the gap, known or not, that lies in today.
Clipped(gap, t) ==
  IF gap = None \/ gap > t - StartOfDay THEN t - StartOfDay ELSE gap

\* The lifetime counter moved since the snapshot.
Moved(f) == f.total # None /\ prevTotal # None /\ f.total > prevTotal

\* Plausible bug: a session counter that fell counts as well.
CountsFallen(f) ==
  /\ f.time # None /\ prev # None
  /\ IF TooLong(Gap(f.at)) THEN Moved(f) ELSE f.amps

\* Is the interval that ends in this frame charging time?
Counts(f) ==
  /\ f.time # None /\ prev # None /\ f.time > prev
  /\ IF TooLong(Gap(f.at)) THEN Moved(f) ELSE f.amps

\* _judge_gap, on the first frame of the day or a later one.
Verdict(gap, t, first) ==
  IF first THEN TooLong(Clipped(gap, t)) ELSE incomplete \/ TooLong(gap)

\* _handle_coordinator_update on a new frame.
HandleUpdate(f) ==
  LET rolls == date # Today
      reads == f.time # None
  IN  /\ accumulated' = IF rolls THEN 0
                        ELSE IF Counts(f) THEN accumulated + (f.time - prev)
                        ELSE accumulated
      /\ prev' = IF reads \/ rolls THEN f.time ELSE prev
      /\ prevTotal' = IF reads THEN f.total ELSE prevTotal
      /\ prevStamp' = IF reads THEN f.at ELSE prevStamp
      /\ date' = Today
      /\ lastReset' = IF rolls THEN Today ELSE lastReset
      /\ incomplete' = Verdict(Gap(f.at), f.at, rolls \/ ~dayHadFrame)
      /\ dayHadFrame' = TRUE

NotBeforeTimer ==
  /\ timer # "late"
  /\ timer' = IF timer = "due" THEN "late" ELSE timer

Frames ==
  LET whole == [time |-> time, total |-> total, amps |-> flow, at |-> clock]
  IN  {whole, [whole EXCEPT !.time = None], [whole EXCEPT !.total = None],
       [whole EXCEPT !.amps = FALSE]}

\* A successful poll; any one field may be missing, and a missing current counts
\* as none.  A failed poll is passed over by the sensor and changes nothing here.
PollAnswered ==
  /\ up /\ NotBeforeTimer
  /\ \E f \in Frames :
       /\ HandleUpdate(f)
       /\ watched' = IF f.time # None THEN watched \cup {clock} ELSE watched
       /\ steady' = (steady /\ f.time # None /\ f.amps)
  /\ frameTime' = clock
  /\ UNCHANGED <<clock, stationVars, up, stored, opened, flowed, switches,
                 sessions, restarts>>

-----------------------------------------------------------------------------
(* Storage.                                                                 *)

\* extra_restore_state_data
Payload == [date |-> date, accumulated |-> accumulated, prev |-> prev,
            incomplete |-> incomplete, dayHadFrame |-> dayHadFrame,
            prevTotal |-> prevTotal, prevStamp |-> prevStamp]

\* The core dumps all restorable states every 15 minutes.
Dump ==
  /\ up /\ stored' = Payload
  /\ UNCHANGED <<clock, stationVars, up, timer, frameTime, sensorVars, historyVars>>

\* Home Assistant stops, in order or not.
Stop ==
  /\ up /\ up' = FALSE
  /\ restarts < MaxRestarts /\ restarts' = restarts + 1
  /\ stored' \in {stored, Payload}
  /\ timer' = "set" /\ frameTime' = None
  /\ accumulated' = 0 /\ prev' = None /\ date' = None
  /\ incomplete' = TRUE /\ dayHadFrame' = FALSE
  /\ prevTotal' = None /\ prevStamp' = None /\ lastReset' = None
  /\ UNCHANGED <<clock, stationVars, watched, opened, flowed, steady, switches,
                 sessions>>

\* Plausible bug: half restored, the position without the sum.
RestoreWithoutSum(p) ==
  /\ prevStamp' = p.prevStamp
  /\ IF p.date = Today
     THEN /\ date' = Today /\ lastReset' = Today
          /\ prev' = p.prev /\ prevTotal' = p.prevTotal
          /\ incomplete' = p.incomplete /\ dayHadFrame' = p.dayHadFrame
          /\ UNCHANGED accumulated
     ELSE UNCHANGED <<accumulated, prev, date, incomplete, dayHadFrame,
                      prevTotal, lastReset>>

\* The stamp outlives its day, the rest does not.
Restore(p) ==
  /\ prevStamp' = p.prevStamp
  /\ IF p.date = Today
     THEN /\ date' = Today /\ lastReset' = Today
          /\ accumulated' = p.accumulated
          /\ prev' = p.prev /\ prevTotal' = p.prevTotal
          /\ incomplete' = p.incomplete /\ dayHadFrame' = p.dayHadFrame
     ELSE UNCHANGED <<accumulated, prev, date, incomplete, dayHadFrame,
                      prevTotal, lastReset>>

\* async_added_to_hass, after setup has polled, in vain or not; the entity is
\* not notified of that frame.
Start ==
  /\ ~up /\ up' = TRUE
  /\ frameTime' \in {None, clock}
  /\ IF stored = None THEN UNCHANGED sensorVars ELSE Restore(stored)
  /\ UNCHANGED <<clock, stationVars, timer, stored, historyVars>>

Next ==
  \/ Tick \/ SwitchCurrent \/ StartSession \/ EndSession
  \/ RollOverAtMidnight \/ PollAnswered
  \/ Dump \/ Stop \/ Start

Spec == Init /\ [][Next]_vars

-----------------------------------------------------------------------------
\* From midnight on until t, no more than the tolerance goes by between the frames
\* the sensor reads the session in.
WatchedUntil(t) ==
  \A w \in watched \cup {StartOfDay} :
    w < t => \E v \in watched : w < v /\ v <= w + Tolerance

\* A day that does not flag itself incomplete was watched without a gap from
\* midnight to the latest reading, through restarts and crashes: the frame that
\* sizes a gap is not the one setup has already polled, and a verdict once
\* given survives with the snapshot.
CompleteIsWatched ==
  up /\ date = Today /\ ~incomplete /\ prevStamp # None /\ prevStamp >= StartOfDay
  => WatchedUntil(prevStamp)

\* The night is not billed to the day: the figure is at most the time a session
\* was open since midnight, and nothing on a day without current -- whatever
\* turned the day over and however long nobody looked.
CountedIsToday ==
  date = Today =>
    /\ accumulated <= opened
    /\ ~flowed => accumulated = 0

\* Charging time is not lost: on a complete day of uninterrupted charging the
\* figure lacks at most the tolerance at the day's start, restarts included.
ChargingIsCounted ==
  up /\ date = Today /\ ~incomplete /\ steady /\ prevStamp # None
  => accumulated >= prevStamp - StartOfDay - Tolerance

\* "only the part of the gap that falls inside today was unwatched today -- the
\* rest belongs to yesterday, which has its own verdict" (_judge_gap): a day the
\* sensor closes as complete was watched to its end.
ClosedDayWasWatched ==
  [][up /\ up' /\ date # None /\ date' # date /\ ~incomplete
     => frameTime # None /\ (date + 1) * DayTicks - frameTime <= Tolerance]_vars
=============================================================================
