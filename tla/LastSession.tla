----------------------------- MODULE LastSession -----------------------------
(* The two LastSessionSensors: energy and duration of the latest session    *)
(* the coordinator reported, kept over restarts by what Home Assistant      *)
(* stored of each of them.                                                  *)
EXTENDS SessionReports

VARIABLES
  shown,   \* _value of the two sensors
  stored,  \* what is on disk of them
  lost     \* history: a crash took back what was shown since the latest report

snapshotVars == <<shown, stored, lost>>
lvars == <<mode, resume, sid, kwh,
           prevState, liveEnergy, liveTime, lastSession, fired,
           reports, witnessed, excused, whole, cut, over,
           shown, stored, lost>>

Snapshots == [energy : Figures \cup {None}, time : Nat \cup {None}]

Nowhere == [energy |-> None, time |-> None]

LInit ==
  /\ HInit
  /\ shown = Nowhere /\ stored = Nowhere /\ lost = FALSE

\* _handle_coordinator_update of both: a figure the report lacks leaves the old.
Updated ==
  LET Newer(value, old) == IF value = None THEN old ELSE value
  IN IF lastSession' = None THEN shown
     ELSE [energy |-> Newer(lastSession'.energy, shown.energy),
           time |-> Newer(lastSession'.time, shown.time)]

LPoll(frame, stale) ==
  /\ HPoll(frame, stale)
  /\ shown' = Updated
  /\ lost' = (lost /\ reports' = reports)
  /\ UNCHANGED stored

\* The periodic dump stores both at once.
LDump ==
  /\ stored # shown /\ stored' = shown
  /\ UNCHANGED <<vars, historyVars, shown, lost>>

\* Plausible bug: the duration is stored under another key.
RestoredInPart(values) == [values EXCEPT !.time = None]

\* async_added_to_hass of both.
Restored(values) == values

\* A reload or an orderly restart stores what is shown; a crash does not.
LRestart ==
  /\ HRestart
  /\ stored' \in {stored, shown}
  /\ shown' = Restored(stored')
  /\ lost' = (lost \/ stored' # shown)

LNext ==
  \/ HStation /\ UNCHANGED snapshotVars
  \/ \E frame \in Frames, stale \in BOOLEAN : LPoll(frame, stale)
  \/ LDump
  \/ LRestart

LSpec == LInit /\ [][LNext]_lvars

-----------------------------------------------------------------------------
\* As long as frames are whole, the two sensors show the energy and the
\* duration of one and the same report, in any order of reports, dumps, crashes
\* and restarts: the latest one, unless a crash took it back to an earlier one.
SnapshotIsReport ==
  LET Shows(i) == shown.energy = reports[i].energy /\ shown.time = reports[i].time
  IN (\A i \in 1..Len(reports) : reports[i].whole) =>
       IF lost THEN shown = Nowhere \/ \E i \in 1..Len(reports) : Shows(i)
       ELSE IF reports = <<>> THEN shown = Nowhere ELSE Shows(Len(reports))
=============================================================================
