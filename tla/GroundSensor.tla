---------------------------- MODULE GroundSensor ----------------------------
(* ChargerBinarySensor._recompute for the SAFETY sensor "ground": on means  *)
(* the protective earth is lost.  The reading is debounced over three       *)
(* frames; a fault the station declares itself is not.                      *)
(* Beside it stands the same class reporting groundCtrl, not debounced.     *)
EXTENDS CoordinatorView, Integers, Sequences

CONSTANT MaxPolls    \* bound on the history, for model checking

ASSUME GroundAssumption ==
  /\ None \notin BOOLEAN
  /\ Absent \notin {0, 1}
  /\ MaxPolls \in Nat

VARIABLES
  data,     \* coordinator.data: the latest good frame
  count,    \* _debounce_count
  on,       \* _debounced_on
  ctrlOn,   \* _debounced_on of the groundCtrl sensor
  log       \* history: what every poll brought, oldest first

groundVars == <<lastOk, data, count, on, ctrlOn, log>>

DebounceThreshold == 3

\* fault: what state and subState declare -- a grounding fault, another
\* firmware fault that bypasses the debounce, or none of these.
GroundFrames == [ground : {0, 1, Absent}, groundCtrl : {0, 1, Absent},
           fault : {"grounding", "firmware", "none"}]

Outcomes == {"failed", "declared", "unmonitored", "unread", "lost", "faulted", "present"}

\* What a frame says about the earth, in the order the station's word counts.
Meaning(f) ==
  IF f.fault = "grounding" THEN "declared"
  ELSE IF f.groundCtrl # 1 THEN "unmonitored"
  ELSE IF f.ground = Absent THEN "unread"
  ELSE IF f.ground # 0 THEN "present"
  ELSE IF f.fault = "firmware" THEN "faulted" ELSE "lost"

GroundTypeOK ==
  /\ lastOk \in BOOLEAN
  /\ data \in GroundFrames \cup {None}
  /\ count \in 0..DebounceThreshold
  /\ on \in BOOLEAN \cup {None} /\ ctrlOn \in BOOLEAN \cup {None}
  /\ log \in Seq(Outcomes)

\* The entity is added before the first frame.
GroundNew ==
  /\ data = None
  /\ count = 0
  /\ on = None /\ ctrlOn = None
  /\ log = <<>>

GroundInit == GroundNew /\ lastOk = TRUE

-----------------------------------------------------------------------------
RawOn(f) == f.ground = 0

\* The station declared the fault itself: that outranks the field.
DeclaredFault(f) ==
  /\ f.fault = "grounding"
  /\ count' = DebounceThreshold
  /\ on' = TRUE

\* Plausible bug: a reading nobody makes counts as "safe".
UnmonitoredIsSafe(f) ==
  /\ f.fault # "grounding"
  /\ f.groundCtrl # 1
  /\ count' = 0
  /\ on' = FALSE

\* Nobody is checking the earth: neither reading can be made.
Unmonitored(f) ==
  /\ f.fault # "grounding"
  /\ f.groundCtrl # 1
  /\ count' = 0
  /\ on' = None

Unread(f) ==
  /\ f.fault # "grounding"
  /\ f.groundCtrl = 1
  /\ f.ground = Absent
  /\ UNCHANGED <<count, on>>

\* Plausible bug: the streak has no ceiling.
CountedUnbounded(f) ==
  /\ f.fault # "grounding" /\ f.groundCtrl = 1 /\ f.ground # Absent
  /\ count' = IF ~RawOn(f) THEN 0
              ELSE IF f.fault = "firmware" THEN DebounceThreshold ELSE count + 1
  /\ on' = (count' >= DebounceThreshold)

\* Plausible bug: off by one at the threshold.
CountedStrictly(f) ==
  /\ f.fault # "grounding" /\ f.groundCtrl = 1 /\ f.ground # Absent
  /\ count' = IF ~RawOn(f) THEN 0
              ELSE IF f.fault = "firmware" \/ count + 1 > DebounceThreshold
              THEN DebounceThreshold ELSE count + 1
  /\ on' = (count' > DebounceThreshold)

Counted(f) ==
  /\ f.fault # "grounding"
  /\ f.groundCtrl = 1
  /\ f.ground # Absent
  /\ count' = IF ~RawOn(f) THEN 0
              ELSE IF f.fault = "firmware" \/ count + 1 > DebounceThreshold
              THEN DebounceThreshold ELSE count + 1
  /\ on' = (count' >= DebounceThreshold)

Recompute(f) == DeclaredFault(f) \/ Unmonitored(f) \/ Unread(f) \/ Counted(f)

\* A stored flag and not a reading: it is reported as it stands.
RecomputeCtrl(f) == ctrlOn' = (f.groundCtrl = 1)

\* A frame arrives; every success notifies the entities.
GoodPoll(f) ==
  /\ Len(log) < MaxPolls
  /\ data' = f
  /\ lastOk' = TRUE
  /\ Recompute(f) /\ RecomputeCtrl(f)
  /\ log' = Append(log, Meaning(f))

\* Plausible bug: the failure notification counts the old frame once more.
FailedPollCounts ==
  /\ Len(log) < MaxPolls
  /\ lastOk' = FALSE
  /\ IF lastOk /\ data # None THEN Recompute(data) ELSE UNCHANGED <<count, on>>
  /\ log' = Append(log, "failed")
  /\ UNCHANGED <<data, ctrlOn>>

\* The core notifies on the first failure only, with the previous frame still
\* in data: not a reading, so the streak is dropped and the state kept.
FailedPoll ==
  /\ Len(log) < MaxPolls
  /\ lastOk' = FALSE
  /\ count' = IF lastOk THEN 0 ELSE count
  /\ log' = Append(log, "failed")
  /\ UNCHANGED <<data, on, ctrlOn>>

\* The entry is reloaded: a new entity, which reads the frame the new
\* coordinator already holds as one of its polls, if there is one.
Reload ==
  /\ lastOk' = TRUE
  /\ data' = None
  /\ count' = 0
  /\ on' = None /\ ctrlOn' = None
  /\ log' = <<>>

GroundNext == (\E f \in GroundFrames : GoodPoll(f)) \/ FailedPoll \/ Reload

GroundSpec == GroundInit /\ [][GroundNext]_groundVars

-----------------------------------------------------------------------------
\* What the log must hold at i for the alarm to be raised there: a declared
\* fault, or the third reading of a lost earth with nothing but unread frames
\* in between -- in particular no failed poll.
RaisedAt(h, i) ==
  \/ h[i] \in {"declared", "faulted"}
  \/ /\ h[i] = "lost"
     /\ \E a, b \in 1..i :
          /\ a < b /\ b < i
          /\ h[a] \in {"lost", "faulted"} /\ h[b] \in {"lost", "faulted"}
          /\ \A j \in a..i : h[j] \in {"lost", "faulted", "declared", "unread"}

\* The alarm was raised and nothing since has shown the earth to be there or
\* stopped its monitoring.
Raised(h) ==
  \E i \in 1..Len(h) :
    /\ RaisedAt(h, i)
    /\ \A j \in i..Len(h) : h[j] \notin {"present", "unmonitored"}

\* No false alarm: the sensor is on only with three real readings in a row or a
\* declared fault behind it ("two real readings plus one failure used to trip
\* the sensor").
NoFalseAlarm == on = TRUE => Raised(log)

\* No missed alarm: three readings of a lost earth in a row raise it.
NoMissedAlarm ==
  Len(log) >= 3 /\ (\A j \in (Len(log) - 2)..Len(log) : log[j] = "lost") => on = TRUE

\* "safe" is a confirmation: somebody was checking the earth in the latest
\* frame that says anything, the station did not declare a fault in it, and the
\* sensor for the monitoring agrees that it is on.
SafeIsObserved ==
  on = FALSE =>
    /\ ctrlOn = TRUE
    /\ \E i \in 1..Len(log) :
         /\ log[i] \in {"present", "lost"}
         /\ \A j \in (i + 1)..Len(log) : log[j] \in {"failed", "unread"}

\* "a failure must not clear a real fault": only a frame that reads the earth
\* as present turns a raised alarm into "safe".
FaultKept ==
  [][on = TRUE /\ on' = FALSE => log'[Len(log')] = "present"]_groundVars
=============================================================================
