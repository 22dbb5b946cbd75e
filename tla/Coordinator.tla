---------------------------- MODULE Coordinator ----------------------------
(* ChargerCoordinator from its first refresh on: _async_update_data with    *)
(* both plausibility guards, the session tracker, the polling interval, the *)
(* repair issue and the firmware version, driven by the scheduler of the    *)
(* core and by a station that goes away, reboots and loses counter tails.   *)
(*                                                                          *)
(* One coordinator: a restart or a reload is CounterGuard's, SetpointGuard's*)
(* and SessionEvents' subject.  The times that matter are those at which   *)
(* frames arrive; a request takes no time of its own beyond Latency.        *)
EXTENDS Integers, Sequences, FiniteSets

CONSTANTS
  None, Absent, Held,  \* as in the component modules
  Fast, Slow,          \* update_interval while charging, and otherwise
  Stale,               \* STALE_STATE_AFTER
  Latency,             \* how late after its due time a poll may be answered
  Early,               \* by how much the core may poll before an interval is over
  BootWindow,          \* how long a rebooted station reads zeroes
  MaxClock,            \* bound: ticks
  MaxBoots,            \* bound: reboots of the station
  MaxExtras,           \* bound: polls outside the schedule
  MaxSessions,         \* bound: sessions
  MaxAmount            \* bound: energy of a session

ASSUME CoordinatorAssumption ==
  /\ {Fast, Slow, Stale, Latency, Early, BootWindow} \subseteq Nat
  /\ {MaxClock, MaxBoots, MaxExtras} \subseteq Nat
  /\ 0 < Fast /\ Fast < Slow /\ Slow <= Stale /\ 2 * Early <= Fast
  /\ {None, Absent, Held} \cap Nat = {} /\ Held # Absent
  /\ None \notin {"idle", "charging", "paused"} /\ None \notin [sid : Nat, amount : Nat]

VARIABLES
  clock,          \* now, in ticks
  phase,          \* "first", "forward", "idle" or "loading" (the GET of the version)
  due,            \* when the core polls next
  extras,         \* polls so far outside the schedule
  lastOk,         \* last_update_success
  data,           \* coordinator.data, the part the guards and events decide
  interval,       \* update_interval
  lastSuccess,    \* _last_success, and frame_time
  gap,            \* gap_s
  issue,          \* the device_error issue exists
  frame,          \* the frame in hand while the version is loaded
  loaded,         \* _sw_version_loaded
  attempts,       \* _sw_version_attempts
  known,          \* charger.sw_version is not None
  written,        \* _device_version_written
  registered,     \* the platforms are set up, the device is in the registry
  page            \* the device page shows the version

VARIABLES cLast, cStreak, cSince, cShown     \* CounterGuard, for totalEnergy
VARIABLES sFloor, sStreak, sSince, sShown    \* SetpointGuard
VARIABLES mode, resume, sid, kwh             \* SessionEvents: the station
VARIABLES prevState, liveEnergy, liveTime, lastSession, fired

VARIABLES
  bootAt,         \* station: when it last booted
  boots,          \* station: how often it did
  total,          \* station: totalEnergy, once loaded from flash
  zeroBoot,       \* history: the boot in which the current run of zero frames began
  lowBoot,        \* history: the same for frames zero or below the believed total
  sawTotal,       \* history: some frame carried a loaded totalEnergy
  waited          \* history: scheduled polls in a row that held the counter back

Counter == "totalEnergy"
MinCurrent == 1
FullTotal == 2

CG == INSTANCE CounterGuard WITH
        Counters <- {Counter}, Readings <- 0..FullTotal,
        Intervals <- {Fast, Slow}, Gaps <- {},
        last <- cLast, streak <- cStreak, since <- cSince, shown <- cShown
SG == INSTANCE SetpointGuard WITH
        Readings <- 0..MinCurrent, Intervals <- {Fast, Slow}, Gaps <- {},
        floor <- sFloor, streak <- sStreak, since <- sSince, shown <- sShown
SE == INSTANCE SessionEvents

schedVars   == <<phase, due, extras, lastOk>>
clockVars   == <<interval, lastSuccess, gap>>
versionVars == <<loaded, attempts, known, written, registered, page>>
guardVars   == <<cLast, cStreak, cSince, cShown, sFloor, sStreak, sSince, sShown>>
trackerVars == <<prevState, liveEnergy, liveTime, lastSession, fired>>
stationVars == <<mode, resume, sid, kwh, bootAt, boots, total>>
historyVars == <<zeroBoot, lowBoot, sawTotal, waited>>
vars == <<clock, schedVars, data, clockVars, issue, frame, versionVars,
          guardVars, trackerVars, stationVars, historyVars>>

Published == [state : SE!States, counter : 0..FullTotal \cup {Held},
              setpoint : 0..MinCurrent \cup {Held}]

TypeOK ==
  /\ clock \in 0..MaxClock
  /\ phase \in {"first", "forward", "idle", "loading"}
  /\ due \in Nat /\ extras \in 0..MaxExtras /\ lastOk \in BOOLEAN
  /\ data \in Published \cup {None}
  /\ gap \in Nat \cup {None}
  /\ issue \in BOOLEAN
  /\ frame \in SE!Frames \cup {None} \/ phase = "loading"
  /\ loaded \in BOOLEAN /\ attempts \in 0..3 /\ known \in BOOLEAN
  /\ written \in BOOLEAN /\ registered \in BOOLEAN /\ page \in BOOLEAN
  /\ CG!TypeOK /\ SG!TypeOK /\ SE!TypeOK
  /\ bootAt \in Int /\ boots \in 0..MaxBoots /\ total \in 0..FullTotal
  /\ {zeroBoot, lowBoot} \subseteq 0..MaxBoots \cup {None} /\ sawTotal \in BOOLEAN
  /\ waited \in Nat

Init ==
  /\ clock = 0 /\ phase = "first" /\ due = 0 /\ extras = 0 /\ lastOk = TRUE
  /\ data = None /\ interval = Fast /\ lastSuccess = None /\ gap = None
  /\ issue = FALSE /\ frame = None
  /\ loaded = FALSE /\ attempts = 0 /\ known = FALSE
  /\ written = FALSE /\ registered = FALSE /\ page = FALSE
  /\ CG!GuardInit /\ SG!GuardInit /\ SE!TrackerInit /\ SE!StationInit
  /\ bootAt = 0 - BootWindow /\ boots = 0 /\ total = FullTotal
  /\ zeroBoot = None /\ lowBoot = None /\ sawTotal = FALSE /\ waited = 0

-----------------------------------------------------------------------------
(* The station.  Between a frame and the end of its poll it moves only      *)
(* while the coordinator awaits the version.                                *)
Yields == phase \in {"first", "idle"} \/ (phase = "loading" /\ ~loaded)

UnchangedCoordinator ==
  UNCHANGED <<clock, schedVars, data, clockVars, issue, frame, versionVars,
              guardVars, trackerVars, historyVars>>

StationStep ==
  /\ Yields
  /\ SE!StartSession \/ SE!Deliver \/ SE!StopSession \/ SE!PowerCut
     \/ SE!SwitchMode("charging", "paused") \/ SE!SwitchMode("paused", "charging")
  /\ UNCHANGED <<bootAt, boots, total>>
  /\ UnchangedCoordinator

\* A boot; the tail of the counter that was not flushed is gone for good.
StationBoot ==
  /\ Yields
  /\ boots < MaxBoots
  /\ SE!PowerUp
  /\ bootAt' = clock
  /\ boots' = boots + 1
  /\ total' \in {total, FullTotal - 1}
  /\ UnchangedCoordinator

\* Nothing is loaded from flash yet.
Booting == clock - bootAt < BootWindow

TotalRead    == IF Booting THEN 0 ELSE total
SetpointRead == IF Booting THEN 0 ELSE MinCurrent

-----------------------------------------------------------------------------
(* The scheduler of the core.  Polls are serialised.                        *)
Tick ==
  /\ clock < MaxClock
  /\ \/ phase \in {"first", "idle"} /\ clock < due + Latency
     \/ phase = "loading" /\ ~loaded /\ clock = lastSuccess
  /\ clock' = clock + 1
  /\ UNCHANGED <<schedVars, data, clockVars, issue, frame, versionVars,
                 guardVars, trackerVars, stationVars, historyVars>>

Scheduled == phase \in {"first", "idle"} /\ clock >= due

\* A write has settled, or the Force Refresh button was pressed.
Extra == phase = "idle" /\ clock < due /\ extras < MaxExtras

Requested ==
  \/ Scheduled /\ UNCHANGED extras
  \/ Extra /\ extras' = extras + 1

AfterPoll == IF registered THEN "idle" ELSE "forward"

\* The core counts from the whole second below now and adds a fraction of its
\* own, so that less than an interval may pass until the next poll.
NextDue == {clock + interval - e : e \in 0..Early}

\* The poll raises UpdateFailed: UNREACHABLE_ERRORS leave the issue alone, any
\* other error of the request raises it.
PollFails ==
  /\ Requested
  /\ \/ UNCHANGED issue
     \/ mode # "off" /\ issue' = TRUE
  /\ lastOk' = FALSE
  /\ phase' = AfterPoll
  /\ due' \in NextDue
  /\ UNCHANGED <<clock, data, clockVars, frame, versionVars, guardVars,
                 trackerVars, stationVars, historyVars>>

\* Plausible bug: asked after _last_success has moved.
AfterLongGapMoved == lastSuccess # None /\ clock - clock > Stale

AfterLongGap == lastSuccess # None /\ clock - lastSuccess > Stale

PollInterval(f) == IF f.state = "charging" THEN Fast ELSE Slow

\* History: the boot a run of odd frames began in; a long silence ends the run,
\* unless a zero of it was passed on, which is the bar from then on.
RunBegan(boot, odd, latest) ==
  IF ~odd THEN None
  ELSE IF boot = None \/ (AfterLongGap /\ latest # 0) THEN boots ELSE boot

\* History: the scheduled polls that held the counter back, this one included, since
\* it was last believed or silent for long.
Waited(held) ==
  IF ~held THEN 0
  ELSE (IF AfterLongGap THEN 0 ELSE waited) + (IF Scheduled THEN 1 ELSE 0)

\* _async_update_data up to its second await.  The guards judge under the
\* interval and the _last_success of the previous frame.
Answer ==
  /\ Requested
  /\ mode # "off"
  /\ frame' = [state |-> mode, energy |-> [sid |-> sid, amount |-> kwh], time |-> sid]
  /\ SG!Judge(SetpointRead, clock)
  /\ CG!Judge([k \in {Counter} |-> TotalRead], clock)
  /\ issue' = FALSE
  /\ interval' = PollInterval(frame')
  /\ prevState' = SE!Baseline(AfterLongGap)
  /\ gap' = IF lastSuccess = None THEN None ELSE clock - lastSuccess
  /\ lastSuccess' = clock
  /\ phase' = "loading"
  /\ zeroBoot' = RunBegan(zeroBoot, Booting, sShown)
  /\ lowBoot' = RunBegan(lowBoot, Booting \/ CG!SteppedDown(Counter, TotalRead),
                          cShown[Counter])
  /\ sawTotal' = (sawTotal \/ ~Booting)
  /\ waited' = Waited(cShown'[Counter] = Held)
  /\ UNCHANGED <<clock, due, lastOk, data, versionVars,
                 liveEnergy, liveTime, lastSession, fired, stationVars>>

MaxAttempts == 3

\* async_load_sw_version of V1: it finds the version or records why not, and
\* swallows every error.
FetchVersion == known' \in BOOLEAN

\* Plausible bug: a station without a version is asked for ever.
LoadVersionUnbounded ==
  IF loaded THEN UNCHANGED <<loaded, attempts, known>>
  ELSE /\ FetchVersion
       /\ attempts' = IF known' THEN attempts ELSE attempts + 1
       /\ loaded' = known'

\* _load_sw_version_once: the flag turns on the result.
LoadVersion ==
  IF loaded THEN UNCHANGED <<loaded, attempts, known>>
  ELSE /\ FetchVersion
       /\ attempts' = IF known' THEN attempts ELSE attempts + 1
       /\ loaded' = (known' \/ attempts' >= MaxAttempts)

\* Plausible bug: the registry is written before the version is fetched.
WriteVersionFirst ==
  IF ~written /\ known /\ registered
  THEN page' = TRUE /\ written' = TRUE
  ELSE UNCHANGED <<page, written>>

\* _write_sw_version_to_registry, which finds no device before registration.
WriteVersion ==
  IF ~written /\ known' /\ registered
  THEN page' = TRUE /\ written' = TRUE
  ELSE UNCHANGED <<page, written>>

\* The rest of _async_update_data, and the core publishing what it returns.
Finish ==
  /\ phase = "loading"
  /\ LoadVersion
  /\ WriteVersion
  /\ SE!Process(frame, FALSE)
  /\ data' = [state |-> frame.state, counter |-> cShown[Counter], setpoint |-> sShown]
  /\ frame' = None
  /\ lastOk' = TRUE
  /\ phase' = AfterPoll
  /\ due' \in NextDue
  /\ UNCHANGED <<clock, extras, clockVars, issue, registered, guardVars,
                 stationVars, historyVars>>

\* The version device_info carries.
DeviceInfo == known

\* async_forward_entry_setups: the entities register and device_info is read,
\* this once; the first listener starts the schedule.
Register ==
  /\ phase = "forward"
  /\ registered' = TRUE
  /\ page' = DeviceInfo
  /\ phase' = "idle"
  /\ due' \in NextDue
  /\ UNCHANGED <<clock, extras, lastOk, data, clockVars, issue, frame, loaded,
                 attempts, known, written, guardVars, trackerVars, stationVars,
                 historyVars>>

Next ==
  \/ StationStep \/ StationBoot
  \/ Tick \/ PollFails \/ Answer \/ Finish \/ Register

Spec == Init /\ [][Next]_vars

-----------------------------------------------------------------------------
Settled == phase # "loading" /\ data # None

\* The zeroes a rebooted station reads are not published: not as the setpoint,
\* and not as the counter once that was ever read -- unless the station booted
\* again between the frames that corroborate each other.  It takes both guards, the
\* order in which the interval and _last_success move, and a boot window no
\* longer than the fast interval; writes may add polls at any time.
BootZeroStaysHidden ==
  Settled =>
    /\ data.setpoint = 0 => zeroBoot # None /\ zeroBoot < boots
    /\ data.counter = 0 /\ sawTotal => lowBoot # None /\ lowBoot < boots

\* "The reboot zero dies on the first frame and never confirms" (docstring of
\* _drop_unconfirmed_counter_drops).
RebootZeroNeverConfirms == Settled /\ sawTotal => data.counter # 0

\* A counter that keeps reading low is believed at the third scheduled poll at the
\* latest, whatever polls come in between and however the interval moves: the
\* guard and the core may disagree for once on whether an interval has passed.
LossConfirmsByThirdPoll == waited <= 2

\* A transition is announced only from a state observed at most Stale ago,
\* although _last_success has moved by the time the events are processed.
NoTransitionAcrossLongGap ==
  Settled /\ fired \in {<<"charging_started">>, <<"session_ended">>}
  => gap # None /\ gap <= Stale

\* Once a poll has succeeded with the version known and the device registered,
\* the device page shows it, whether the station was there at setup or came
\* later, and however the version arrived.
DevicePageCurrent ==
  phase = "idle" /\ lastOk /\ known /\ registered => page
=============================================================================
