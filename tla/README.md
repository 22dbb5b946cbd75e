# A TLA+ model of the Eveus integration

ha-eveus is a Home Assistant integration for Eveus EV chargers. It polls one
charging station over HTTP, every 30 s while the car is charging and every 60 s
otherwise, and turns the frames into entities and events. The station is switched
off most of the time, reboots into frames full of zeroes, loses the tail of its
counters, serves old values for a while after a write, and accepts one connection
at a time. Most of the code exists to say something true in spite of that. These
modules model that code: which readings are believed, which sessions are
reported, what the daily figures are worth, and what the toggle and the safety
sensor show.

Paths below are relative to `src/custom_components/eveus/`.

## 1. Inventory

| Component | State | Operations | Must be correct |
|---|---|---|---|
| Counter guard (`coordinator.py:299-366`, `174-197`) | per counter: last value, low streak, time of the first low frame | judge a frame, forget after a long gap | a lower reading is passed on exactly when an earlier frame corroborates it |
| Setpoint guard (`coordinator.py:199-297`) | floor, streak, time | the same for `currentSet` below the minimum | the same, and a confirmed floor does not switch the guard off |
| Session events (`coordinator.py:512-575`, `const.py:28-43`) | previous state, live figures, last session | latch, capture, transition | every session reported once, when it is over, with its own figures |
| Poll (`coordinator.py:368-510`) | interval, last success, gap, version flags, repair issue | one poll; extra polls after writes | the order of the bookkeeping inside a poll |
| Ground sensor (`binary_sensor.py:54-142`) | debounce count, state | frame, failed poll | no false and no missed alarm; "safe" is an observation |
| Charging switch (`switch.py`) | optimistic value, polls held | write, notification | does not spring back, does not stay wrong |
| Daily energy (`sensor.py:587-711`) | baseline, figure, date, flag | midnight timer, frame, store, restore | day neither inflated nor falsely complete |
| Daily session time (`sensor.py:714-1012`) | sum, position, snapshot, flag | the same | charging counted, night not billed, complete means watched |
| Session energy (`sensor.py:375-471`) | last reset, last value, anchor of both counters | frame, failed poll, save at once, periodic dump, restore | one statistics bucket per session, none booked twice |
| Last session (`sensor.py:1015-1060`) | energy and duration, in two entities | report, store, restore | the two are of one report |
| Plain sensors, number, select, buttons | none | read a frame, write a value | one bad field is one bad sensor |
| Charger clients (`charger/`) | version, request lock | HTTP, conversion of answers | one exchange at a time; no answer breaks a poll |
| Entry lifecycle (`__init__.py`) | services, runtime data | setup, reload, unload, removal | services live as long as an entry |
| Config flow (`config_flow.py`) | the form; the data of the entries | user, reconfigure, reauth | one entry per station and prefix; what runs was tested |
| Diagnostics, constants, base entity | none | - | - |

How they interact. The coordinator of the core calls `_async_update_data`, one poll
at a time. On success the two guards take doubtful fields out of the frame, the
session tracker fires its events, and the frame becomes `coordinator.data`; then
every entity is called back. On the first failure after a success the core calls
the entities back as well, *with the previous frame still in* `coordinator.data`;
each entity has to notice. Writes go straight to the station, under a lock that
polls share, and schedule one more poll 3 s later. The daily sensors also run on a
timer and on what Home Assistant stored of them before a restart.

What is hard: evidence that spans several polls, intervals that change under it,
extra polls and long gaps between; two ways in which a session can end, of which a
frame may show either or both; values read before an `await` and used after it;
the order of timer, frame and failure at midnight; a crash that restores state
from up to 15 minutes ago; a failure notification mistaken for a reading; entities
called back one after the other in a loop that the first exception ends; checks made
before an `await` and relied on after it.
`PROJECT.json` lists these hazards one by one, at their lines.

## 2. Modules

| Module | Models |
|---|---|
| `Evidence` | when a history of frames corroborates a low reading (operators only) |
| `Corroboration` | the abstract specification of both guards, over complete histories |
| `CounterGuard`, `SetpointGuard` | the two guards as the code has them |
| `CounterGuardHistory`, `SetpointGuardHistory` | the guards with a history variable and the refinement mapping to `Corroboration` |
| `MCCounterGuard`, `MCSetpointGuard` | instances for TLC |
| `SessionEvents` | the tracker, and the station whose sessions it reports |
| `SessionReports` | the same with the history its properties are about |
| `LastSession` | the two last-session sensors on top of `SessionReports`, with storage and crashes |
| `Coordinator` | one poll from request to publication; instantiates both guards and `SessionEvents` |
| `GroundSensor`, `ChargingSwitch` | the two stateful control entities |
| `SessionBuckets` | the session energy sensor, its storage, and the recorder that books its values |
| `Frames` | `transform_data` of both generations, what every entity shows, the listener loop |
| `ConfigFlows` | the three config flows over the entries, their setups and reloads, the services |
| `Parts` | `GroundSensor`, `ChargingSwitch`, `SessionBuckets`, `Frames` and `ConfigFlows`, one of which moves in a behaviour |
| `DailyEnergy`, `DailySessionTime` | the two daily sensors with the midnight timer and storage |
| `Nothing`, `CoordinatorView` | what the parts share: the values for "nothing", and `last_update_success` |
| `EvidenceProofs`, `CounterGuardProofs`, `SetpointGuardProofs` | theorems about the guards |
| `SessionProofs` | theorems about the tracker and the last-session sensors |
| `PartsProofs` | theorems about each of the five parts, and about the parts side by side |
| `CoordinatorProofs`, `DailyEnergyProofs`, `DailySessionTimeProofs` | theorems about the poll and the daily sensors |

Variables carry the names of the attributes they stand for without the underscore
(`_counter_low_since` is `since` in `CounterGuard`, `_live_energy` is `liveEnergy`);
each declaration says which. One action is one callback or one poll up to its next
`await`. Variables marked *history* belong to the model, not to the code: no action
reads them to decide anything the code decides. The station is the environment;
it is modelled from what the code and its comments say they measured.

**Guards.** `Judge(frame, t)` is the guard on a frame that arrives at time `t`, with
the forgetting of stale evidence that precedes it. `Poll` puts the coordinator
around it: the interval changes *after* the guards have run, to either value.
`Corroboration` remembers every frame instead of a count and a stamp: a reading
under the bar is passed on if and only if an earlier frame was low too, at least one
interval before, with no recovery and no long silence in between. The refinement
mapping takes the last believed value for the bar (the minimum or the confirmed
floor for the setpoint).

**Sessions.** A figure is tagged with the session it belongs to, so that a report
can be checked against the session; the code sees the amount only. A frame may lack
either field; between two polls the station may pass through any number of states;
`stale` says that the gap before the frame was long.

**Coordinator.** The first await is the request, the second the fetch of the version
(V1); between the two halves, `Answer` and `Finish`, the station moves on and time
passes. The scheduler of the core polls an interval after the last poll, possibly
`Latency` late, or up to `Early` sooner: it counts from the whole second below and adds a
fixed fraction, so two polls may lie slightly less than an interval apart
(`NextDue`). `Extra` is a poll after a write or from the refresh button. Setup
polls once *before* the platforms are forwarded, and `Register` reads `device_info`
the only time it is ever read.

**Session buckets.** A bucket is named by the number of the reset that opened it;
`opened` remembers on which session it fired. The recorder (`seen`, `surplus`) adds
differences within a bucket and whole values at the start of one, and `surplus` is
what it has booked beyond what the station has delivered. A boundary schedules a save
that captures the payload at that moment (`saving`) and reaches the disk later
(`SaveDone`); the core dumps periodically, too, and a crash loses what was not written.
After a failed poll the entity is handed the previous frame once more. `BucketsStart`
publishes the frame of setup before any frame has been handled.

**Frames.** A value is the class Python's `float()` and `int()` put it in: a number, a
number as text, one whose square overflows, the marker of a missing sensor, NaN and the
infinities, an integer no float can hold, text, a key that is missing or null, and so
on. Fields that the code treats alike are represented by one. `MaxDamaged` fields of
an answer are replaced by any other class (NaN stands for Infinity, full text for empty);
on top of that come the clock of the station, a delay, and midnight on either side. The two
daily sensors hang in the same loop (`Listeners`). Validation leaves a number sent as text a
string, and they compute with it: `kept` is what they count from, `_baseline` and `_prev`,
and decides with the answer whether one of them raises (`DailyRaises`). A loop that was cut
short has reached none of the others, or all of them: registration order within the loop is
not modelled further (`Heeded`).

**Config flows.** A form is submitted (`Submit...`) up to the `await` of the connection
test, and the rest runs when the test returns; up to `MaxFlows` flows are between the
two. Setup, reload and unload of an entry exclude each other (the core holds a lock per
entry), those of different entries do not, and the data of an entry may be rewritten
while its setup is under way. The model of the station is folded into the address, a
test that fails only shows the form again and is left out, and `raced` remembers which
check a flow was overtaken on.

**Parts.** The five modules share `last_update_success` and nothing else, so `Parts`
lets one of them move per behaviour and the states of its run add up instead of
multiplying.

**Daily sensors.** Midnight makes the timer due; at most one poll may slip in before
it fires. `Dump` is the periodic dump of the core, `Stop` loses whatever was not
dumped or dumps in order, `Start` restores after setup has polled - a frame the
entity is not notified of. In `DailyEnergy` the lifetime counter may fall for good
(`CounterLoses`): by the tail a power cut takes (`coordinator.py:307-308`), or to zero when
the user resets it. The guard has already held such a reading back once (`PollAnswered` with
no reading) when it passes it on; it does not hide it.

**Operators marked "Plausible bug".** Beside some definitions stands a variant of the
same name with a suffix. No specification uses them. Each is a mistake the
definition invites - a dropped guard, a forgotten reset, a swapped order - and, put
in place of the definition, makes the property named with it in `PROJECT.json` fail
in its run: the property does depend on that line of the code.

## 3. Runs

Passing runs (`tlc -workers 2 -config <cfg> <module>`):

| Run | Checks | Bounds |
|---|---|---|
| `counter` | types, `EvidenceIsHistory`, refinement `Corroborates` | 1 counter, readings 0..2, 4 frames, gaps 1, 2, 3, 6 with intervals 2 and 3 and a stale limit of 5 |
| `setpoint` | the same | setpoints 0..2, minimum 2 |
| `session` | `ReportedOnce`, `ReportedIsOver`, `FiguresOfOneSession`, `NothingLost`, `PublishedPromptly`, `EventsPaired`, `SnapshotIsReport` | 3 sessions, amounts 0 and 1; 1.75 million states |
| `parts` | `NoFalseAlarm`, `NoMissedAlarm`, `SafeIsObserved`; `NoSpringBack`, `RealityWins`; `NotBookedTwice`, `BoundaryNoticed`; `DamageIsContained`, `DriftIsOffset`; `EntriesDistinct`, `RunsWhatWasTested`, `ServicesFollowEntries` | 5 polls of the ground sensor; 4 writes, 2 operations by hand, lag of 2 responses; 2 sessions, lifetime counter up to 4, threshold 1, 2 starts; 2 damaged fields; 2 addresses, 1 prefix, 2 entries, 2 flows at a time, 3 forms; 740 thousand states |
| `coordinator` | `BootZeroStaysHidden`, `LossConfirmsByThirdPoll`, `NoTransitionAcrossLongGap`, `DevicePageCurrent` | 4 ticks, 2 boots, 1 extra poll, 1 session; 3.8 million states |
| `daily_energy` | `DayNotInflated`, `CompleteIsWhole`, `NoUnannouncedFall` | two days of 4 ticks, 1 restart, 1 loss of the counter: a tail of 1 or a reset; 4.5 million states |
| `daily_time` | `CompleteIsWatched`, `CountedIsToday`, `ChargingIsCounted` | a night and a day of 4 ticks, 1 restart, 1 session started, current switched once |

Each run also checks the type invariant of its module.

Why the bounds are enough to be interesting. The counters are independent of each
other (the loop body of `_drop_unconfirmed_counter_drops` touches one key), so one
counter and the theorem cover all three. The gaps of the guard runs lie below, at
and above each interval and beyond the stale limit; four frames make room for a low
frame, an event that must sever it, and the two that confirm anew. Three sessions
are what a late report of the first can be confused with; amounts matter only as
zero or not. Five polls are one more than an alarm, a failure and a further reading
need. In `Coordinator` a tick is about half the fast interval: `Fast`, `Slow`, the boot window
and `Early` are 2, 3, 2 and 1 ticks. `Early` is much larger than the second it stands for, so
that it meets every boundary; the slow interval and the stale limit are scaled down to 3,
so that a long gap costs few ticks. The run `reboot_zero` counts in fast intervals
(1 and 2 ticks), without `Early`. A day has four ticks and a tolerance of
one, so that there are readings at, within and beyond it on both sides of midnight.
A session of four units is above and below the threshold of one; two sessions and two
starts are one boundary with Home Assistant running, stopped or crashed on either side
of it, and the theorem covers more. Two damaged fields reach every pair of inputs a
derived value has. Two flows over two entries are the smallest race of every kind, and
three forms let a third flow overtake twice.
`MaxClock`, `MaxSessions`, `MaxFrames` and their like only cut the runs off: no
property mentions them.

`CHECK_DEADLOCK FALSE` stands in the runs in which a clock or another bound ends the
behaviour.

What a passing run shows that a reader of the code may not expect:

- `BootZeroStaysHidden` holds only because `update_interval` and `_last_success` are
  used before they move, and only up to a second boot inside the run of low frames:
  a lost tail, then a reboot, corroborate each other, and a lower value is a zero.
- `LossConfirmsByThirdPoll`: a change of state between two polls changes the
  interval, but the schedule and the guard go by the same one, so a loss that is there to
  stay is believed at the third scheduled poll at the latest. The second may come just under
  an interval after the first, and line 349 then waits for one more; a third finds it.
- `NothingLost` excuses two cases, which are the limits of polling: a restart, and a
  next session whose counter is already above zero at its first poll.
- `NoSpringBack` makes no promise after a failed poll: the failure notification
  counts as one of the three polls (`switch.py:84`) though it brings no reading.
- `CompleteIsWhole`, `NoUnannouncedFall`: a lower lifetime counter the guard has confirmed
  and that is not below the baseline is taken as it comes (`sensor.py:710`). The figure
  falls while `last_reset` stands, the recorder of Home Assistant takes that much off, and a
  day not flagged incomplete lacks the lost energy. What the properties say is that nothing
  worse happens: the dip is at most what the counter lost since the reading before, the
  figure is never negative, and what is missing from a complete day is at most the tolerance
  and that loss. `tests/test_daily_sensors.py:170` pins the dip ("the dip is the rollback,
  nothing more"). A reset whose next reading is above the baseline is the same case.
- `NotBookedTwice` excuses two cases: a value that went into the bucket of another
  session (`restart_bucket` shows one that did), and a crash between a reset and the
  end of its save, which restores the bucket before it. At every other moment a crash
  is harmless, because a stale payload of the same bucket has an anchor of the same
  session or none.
- `BoundaryNoticed` needs the counters in the frames on both sides and a session above
  the threshold; then it does not matter how far the next session has got.
- `DamageIsContained` excludes two values. An integer too large for a float in a
  temperature: `blank_absent_temperature` catches `ValueError` and `TypeError` only
  (`charger/base.py:31-36`), `float()` raises `OverflowError`, and the whole poll fails. And a
  number sent as text, in `sessionTime` or on V2 in `totalEnergy`: validation passes it
  unchanged (`charger/base.py:243-279`), the daily sensor subtracts it
  (`sensor.py:949`, `700`, `710`) and raises `TypeError`, and the entities after it in the
  loop hear nothing of the poll. It may go on when the text is gone: a daily sensor that
  counts from text (`_prev` or `_baseline` set at the turn of the day or on the first frame)
  raises at every frame until the day turns over or Home Assistant restarts.
- `SnapshotIsReport` speaks of whole frames: a report that lacks a figure leaves the old one
  standing (`sensor.py:1057-1059`), and the two sensors then differ by the code as it is.
- `EntriesDistinct` excuses a flow overtaken during its test: `async_step_reconfigure`
  looks for the address, and `async_step_user` for the prefix, before the test only.
  Two new entries with one prefix can therefore be created side by side, although
  README.md:114 says the config flow enforces uniqueness. The address of a new entry is
  looked up again after the test and is safe.
- `RunsWhatWasTested` excuses credentials tested at an address that a reconfiguration
  has replaced meanwhile (`config_flow.py:176`).
- `ServicesFollowEntries` holds whether or not the core counts an entry that is being
  unloaded as loaded.

Runs that end in a violation, each of a sentence the repository says:

- `restart_bucket`. "A session that restarted while Home Assistant was offline still
  starts a new statistics bucket" (README.md:210). It does on the first frame that is
  handled; but at a start the core writes the state from the frame of setup under the
  restored `last_reset`, the recorder books the new session as growth of the old one,
  and the next frame books it again under a new `last_reset`.
- `ground_fault_kept`. "a failure must not clear a real fault"
  (`tests/test_binary_sensor.py:209`). The failure keeps the state and drops the
  count; the next frame, with the ground still lost, counts to one and so reads
  *safe*.
- `stale_replay`. After a long gap "replaying its transition would fire a stale
  session_ended with pre-offline figures" (`coordinator.py:50-51`). The previous state
  is reset, the live figures are not; the zero of the next session latches them.
- `reboot_zero`. "The reboot zero dies on the first frame and never confirms"
  (`coordinator.py:316-317`). At the 30 s interval two scheduled polls fit into the
  boot window the code gives as under 120 s.
- `closed_day`. The part of a gap before midnight "belongs to yesterday, which has its
  own verdict" (`sensor.py:891-892`). A verdict is only given by a frame; when the
  last hours bring none, the timer closes the day as complete.

Further differences between text and code were met and are not runs:
`coordinator.py:318` and README.md:213 say a loss is confirmed on the *next* poll, which is
not so when that one is judged just under an interval after the first; `sensor.py:663-669`
says the energy of a day is lost only at its start and "survives any gap", but not the tail a
power cut takes inside it; README.md:211 says a field sent as text is dropped, while text that
is a number stays; README.md:213
says an entity *keeps its previous value* when a reading is held back, while the code
deletes the field and the entity turns unknown; README.md says `groundctrl` is
debounced and reads `2` when active, while `binary_sensor.py:20` and `96-101` take 1 and
debounce nothing; and README.md:221-222 says that credentials of a V1 station are not
verified, while `charger/v1.py:94-110` does verify them.

## 4. Fairness

Only `ChargingSwitch` has a liveness property, and only it (in `Parts`, where it is the
part that moves) states fairness: a request
in flight ends (weak fairness; `_TIMEOUT` in `charger/base.py` sees to it), and a
station that is polled again and again answers with the field again and again (strong
fairness on answered polls: the core reschedules after every poll, and answers may be
interrupted by failures any number of times). Writes and operations by hand are
bounded and need no fairness.

## 5. Proofs

Checked by TLAPS, for every value of the constants that satisfies the assumptions.

**Guards.** `Invariance` proves `IInv == HTypeOK /\ HistoryDated /\ EvidenceIsHistory`
inductive. `EvidenceIsHistory` says that the count and the stamp are those of the
unbroken run of low frames the history ends in; it is what links the three variables
of the guard to a history of any length, and it is not inductive alone: whether a
long gap severs the run is decided with `_last_success`, so `HistoryDated` has to tie
that to the last frame of the history. `Implements` then proves
`HSpec => Corroborates`: under `IInv`, the test in the code (a count of two and an
interval since the stamp) holds if and only if the history corroborates the reading.
The lemmas about histories are in `EvidenceProofs` and serve both guards: a run that
goes on (`TallyKept`, `TallyGrown`), one that ends (`TallyCleared`), and what the tally
decides (`TallyDecides`).

**Sessions.** The invariant of `SessionProofs` says in which session the live figures
were read, that they belong to no reported session, and that a witnessed session is
reported, excused or the live one; from it follow `ReportedOnce`, `ReportedIsOver` and
`NothingLost`, for any number of sessions. `PublishedPromptly` and `EventsPaired` follow
from the types and the definition of a step. `FiguresOfOneSession` needs one more part,
`LivePair`: the two figures held are of one session as long as no frame lacked a field.

**Last session.** The sensors only look on (`SensorsKeepReports`: every behaviour of
`LastSession` is one of `SessionReports`), so the theorems above hold beside them.
`SnapshotIsOneReport` adds `SnapshotInv`: while frames are whole the tracker holds either
both figures or none, so every report has both, and what is shown and what is stored are
each of some report (`OneReport`); without a crash, of the latest.

**Coordinator.** `IInv` of `CoordinatorProofs` has one part per property. `DeviceInv`
follows the registration through the phases of setup. `TransitionInv` says that the
previous state was observed at most `Stale` ago already while the frame is in hand, before
`_last_success` moves. `ScheduleInv` says that a counter in doubt was first seen low no
later than the last success, that the next scheduled poll is at most `Early` less than an
interval after that, and that after two scheduled polls in doubt the last success lies at
least `Early` after the first low frame, which is what the third poll may lack of an interval;
`LossConfirmsByThirdPoll` follows for any two intervals, as `2 * Early <= Fast`. `ZeroInv` ties
the stamps of both guards to the boot in which their run of low frames began:
a run that began in this boot has been going on for no longer than this boot has. A zero of
this boot would need an interval of odd frames within its window, so
`BootZeroesStayHidden` assumes `BootWindow <= Fast`; the run `reboot_zero` shows that
without it the property is false.

**Daily energy.** `IInv` of `DailyEnergyProofs` ties three measurements of the energy to
each other - at a frame, at midnight, and what the figure was computed from - and each of them
with what the counter had lost by then: `total + lost` is what was delivered. At most one unit
flows in a tick, so a frame within the tolerance of midnight is within it of the counter at
midnight (`CoveredIsClose`). `Seen` keeps this for the frame in `coordinator.data`, which a
failed poll hands over a second time, perhaps on the next day; `Sound` keeps it for what the
sensor holds *and* for what is stored, because a crash exchanges one for the other.
`NoUnannouncedFall` is an action property: it needs `Fits`, that the frame in hand is no older
than the reading the figure stems from, in energy and in loss. A loss itself (`LossKeeps`)
changes nothing the sensor holds.

**Daily session time.** The same `Sound` for memory and storage, in four parts. `Counted`
bounds the figure *and what the next reading could add to it*; `Stamped` says that a stamp
of today is of a frame the day has had; `Watched` is the property itself; `Charged` is an
equation between the position in the session and the stamp, from which the lower bound of
`ChargingIsCounted` follows.

**Ground sensor.** `NoFalseAlarm` and `NoMissedAlarm` speak of the history, the code of
a count. `CountIsStreak` says that a count of one, two or three goes back to as many lost
readings with nothing between them that says otherwise; `LostAreCounted` that trailing
lost readings have all been counted. Neither is inductive without a third fact: a
failed poll leaves a count of 0, so a second one changes nothing.

**Switch.** `TogglesDoNotSpringBack` assumes `Lag < OptimisticMaxPolls`: the station
serves the old value for at most two responses. The comment at `switch.py:34-38` speaks of
"2-3 responses", `coordinator.py:57-59` of two, and three after a change of the current, for
every field; with three, the third stale response is the third poll, ends the hold
and the toggle springs back, so the assumption is needed. A lag that a write of the number or
the select starts is not modelled: only writes of the switch start one. The invariant `Held` counts
stale responses left against polls left.

**Buckets.** `BucketsInv` says, as long as nothing was published late or torn by a
crash: resets fired on ever later sessions and the last one is in force
(`OpenedInOrder`); since every anchor of the present session - held, being saved or on
disk - the two counters moved alike (`AnchorsAgree`); the last frame is of the session of
the bucket and agrees with the anchor (`FrameAgrees`); and what is booked and what is not
booked yet stay within what was delivered (`Booked`). The heart is that a boundary is
only ever found in a frame of a later session than that of the bucket
(`BoundaryIsLater`), so a value under a new reset opens a bucket of a session that has
none. It holds for every threshold and any number of sessions, starts and crashes.

`BoundaryNoticed` rests on a second invariant, `NoticeInv`. What the lifetime counter has
beyond the session counter (`Base`) stands still within a session and never falls
(`NotedBefore`), and it rises by more than the threshold over a session that is not
`faint`; so the anchor lags behind the frame, and the frame behind the station, by more
than the threshold whenever a boundary lies between them (`Visible`). That an orderly
stop stores what is in force (`StoppedInOrder`) carries this over a restart.

**Frames.** `DamageIsContained` is proved for any number of damaged fields. It rests on two
lemmas about `Transform`: no answer makes an entity raise (`NoneRaises`), which needs that
every numeric field leaves validation as a number or as nothing, and that what an entity
shows is decided by the fields it is about (`ShowsItsFields`). That a daily sensor does not
raise either takes `RaisingIsText` - it raises only on a number as text, now or at what it
counts from - and `TextWasSent`, that text it reads was sent in `sessionTime` or, on V2, in
`totalEnergy`. `DriftIsOffset` is arithmetic
over midnight (`DriftUnfolded`) and the rounding (`RoundedIsNear`).

**Flows.** `FlowsInv` adds to the three properties what a test in flight can count on
(`TestHolds`): each clause is what its form checked, weakened by the flows that have
overtaken it; and that a setup that is not followed by a reload has read the data that is
stored (`SetupReadsStored`).

**Parts.** `PartsInv` puts the five invariants side by side: the part that moves keeps its
own, the others stand in an initial state but for `last_update_success`, which any of them
may have set. `PartsKeepTheirPromises` concludes that the properties of the run `parts` hold
of the composition: none of them relied on a `last_update_success` only its own polls set.

Assumptions are those the modules declare: times, readings and bounds are natural
numbers; the core polls early by at most half the fast interval (`2 * Early <= Fast`; the code
has a second of thirty); a run has room for a tick (`1 <= MaxClock`, `FirstClock <= MaxClock`); and `None`,
`Absent` and `Held` are none of the values they stand beside, so that a state, a figure or
the class of a value is never mistaken for nothing. TLC evaluates them in every run.

What the proofs corrected. `NoUnannouncedFall` used to excuse a fall after a reset of the
counter where the counter stood above the baseline *at that step*; but the frame of setup may
only be handled by a failed poll, and a second reset come before that. It now goes by the
frames: what the counter lost between the two readings. The history variables
behind `BootZeroStaysHidden` (`RunBegan`) used to forget the run of a zero the guard had
passed on when a long gap followed; that zero is the bar from then on and remains excused.
With one more loss, and one more boot and a longer clock, TLC finds the counterexamples to
the earlier forms.

Only model-checked: `RealityWins`, because liveness and fairness are out of reach of the
prover, and the five runs that end in a violation. Every other property of a passing run is
stated by a theorem; `NoSpringBack` and `BootZeroStaysHidden` under the assumption on the
lag and on the boot window named above. No theorem is by induction over data, and no module
declares a recursive operator.

## 6. Not modelled, and why

- Diagnostics, constants, the base entity and the connectivity sensor read and keep
  nothing; translations, logging and the warning about garbage decide nothing.
- The writes of number and select are one HTTP request each, whose effect on the
  coordinator is `Extra`; the encoding of requests is pure formatting.
- HTTP itself: a request returns, fails or times out. That the connection test of a flow
  uses a second charger object with a lock of its own, and may cut off a poll or a write
  in flight (`charger/base.py:124`), is a failed poll or a failed write like any other.
- The localisation of `systemTime`, and everything the clock of a station shows that is
  not a wall clock of today, yesterday or tomorrow.
- The daily energy sensor sees a counter that is right or missing, but for what the station
  lost for good: the zeroes of a boot are the guard's to take out. The one it cannot, on
  the first frame after a start of Home Assistant when it has no memory yet, is the case of
  `counter`. After a crash the restored figure may be lower than the one last published; the
  next frame makes up for it.
- A reset of the lifetime counter by the user in `SessionBuckets`: against the old anchor the
  identity may then miss a boundary, and the fall of the session counter is what is left.
- Restarts in `Frames`: a baseline that is restored as text counts like one that was kept.
- The wall clock of the host is taken not to step (`coordinator.py:337`).
- One-time migrations: of stored values from state attributes in the sensors, of entry
  versions (which does nothing), and the deletion of stale device rows. Corrupt payloads
  of the restore storage.
- Disabling and enabling an entry, which are an unload and a setup. Setup itself does
  not fail when the station is offline (`__init__.py:50-61`), so there is no retry of it.
- The refresh scheduled after a write is not cancelled when the entry is unloaded
  (`coordinator.py:169`); what it then does is up to the core, which shuts the coordinator
  of an unloaded entry down.

## 7. Plan

Done: the guards with their refinement, the session tracker and the last-session sensors,
the poll, the switch, the ground sensor, the session buckets, the conversion of frames, the
config flows with the entry lifecycle, and both daily sensors, each with theorems for every
safety property its run checks.

Left: an abstract specification of the daily sensors (a day is either whole or flagged) that
both are shown to implement; the refinement of the guards carried over to the guards inside
`Coordinator`; and a clock that steps.
